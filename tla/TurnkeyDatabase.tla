--------------------------- MODULE TurnkeyDatabase ---------------------------
(***************************************************************************)
(* hr db-up and hr db-down over their two backends (hr/db_admin.py): the   *)
(* docker-compose stack (hr/db_compose.py) and the PostgreSQL the bundle   *)
(* carries in its own directory (hr/db_embedded.py, pg_env.py,             *)
(* pg_launcher.py), with the env files the password lives in               *)
(* (hr/config_resources.py) and the schema set-up that ends every db-up    *)
(* (hr/db.py, db_schema.py, schema_migration.py).                          *)
(*                                                                         *)
(* One command runs at a time. It may be killed between any two steps that *)
(* write; an external program (initdb, pg_ctl, createdb, docker) may fail, *)
(* and a server may die.                                                   *)
(***************************************************************************)
EXTENDS Naturals, Sequences

CONSTANTS
    Ports,        \* ports a database may be asked for
    DefaultPort,  \* config_resources.DB_DEFAULT_PORT
    Passwords,    \* what generate_db_password may return
    None,         \* no file, no database, no server, no port, no password
    Machines,     \* what the machine is like before the first command
    MaxTrouble    \* kills, failures and edits by the user, together

ASSUME PortsAssumption == DefaultPort \in Ports /\ None \notin Ports \cup Passwords

VARIABLES
    host,       \* [docker, manifest, writable]: fixed
    parts,      \* the parts of the bundle in its directory D
    envs,       \* the env files: Candidate -> None or [pw, port]
    cluster,    \* D/data/pgdata: None or a database
    server,     \* the embedded postmaster: None or [port, up]
    volume,     \* the aihr-db-data volume: None or a database
    container,  \* the aihr-db container: [st, port, owner]
    foreign,    \* a port some other program listens on, or None
    cmd,        \* the command that runs
    result,     \* how the last command ended: [name, lane, rc]
    cut,        \* a command was killed between dropping credentials and its end
    trouble

dbVars == <<host, parts, envs, cluster, server, volume, container, foreign,
            cmd, result, cut, trouble>>

-----------------------------------------------------------------------------
(* The schema and its migrations *)

\* Columns later versions added to tables of earlier ones; those that are added alike
\* (response and cap; directional, status and scorer; contract and finish) are one.
Columns == {"response", "calibration", "status", "contract"}
\* What CREATE TABLE carries today: a new database lacks only the others.
FreshColumns == {"calibration", "status"}

Namespaces == {"none", "hr2", "hr", "both"}
Schemas == [ns : Namespaces, cols : SUBSET Columns, indexed : BOOLEAN]
NoSchema == [ns |-> "none", cols |-> {}, indexed |-> FALSE]
Complete(s) == s.ns = "hr" /\ s.cols = Columns /\ s.indexed

\* Mutant of SchemaSteps: a migration is not in the list.
SchemaStepsOneForgotten == <<"tables", "response", "calibration", "status", "indexes">>

\* init_schema and _run_migrations: each step is a transaction of its own.
SchemaSteps == <<"tables", "response", "calibration", "status", "contract", "indexes">>

\* migrate_schema_namespace: the retired name is renamed, two at once are refused.
Renamed(s) == IF s.ns = "hr2" THEN [s EXCEPT !.ns = "hr"] ELSE s

\* CREATE TABLE IF NOT EXISTS: nothing where the tables stand.
WithTables(s) == IF s.ns = "none" THEN [NoSchema EXCEPT !.ns = "hr", !.cols = FreshColumns]
                 ELSE s

\* An index on the calibration columns needs the columns.
CanIndex(s) == "calibration" \in s.cols

SchemaAfter(s, step) ==
    CASE step = "tables"  -> WithTables(s)
      [] step = "indexes" -> [s EXCEPT !.indexed = TRUE]
      [] OTHER            -> [s EXCEPT !.cols = @ \cup {step}]

Databases == [pw : Passwords, usable : BOOLEAN, db : BOOLEAN, schema : Schemas]
NewDatabase(pw, db) == [pw |-> pw, usable |-> TRUE, db |-> db, schema |-> NoSchema]

-----------------------------------------------------------------------------
(* The env files *)

\* docker/.env, D/db.env and the data directory's db.env.
Candidates == {"primary", "bundled", "fallback"}
EnvFiles == [pw : Passwords \cup {None}, port : Ports \cup {None}]
EmptyFile == [pw |-> None, port |-> None]

\* db_env_file: the first that exists, in this order.
DbEnvFile ==
    IF envs["primary"] # None THEN "primary"
    ELSE IF envs["bundled"] # None THEN "bundled"
    ELSE IF envs["fallback"] # None THEN "fallback" ELSE None

\* db_env_file(for_write=True): an existing one, else docker/ when writable.
DbEnvFileForWrite ==
    IF DbEnvFile # None THEN DbEnvFile
    ELSE IF host.writable THEN "primary" ELSE "fallback"

\* The file a command ensures: the embedded backend has its own (ensure_env),
\* the compose one discovers it (ensure_db_env_file).
EnvFileOf(lane) == IF lane = "embedded" THEN "bundled" ELSE DbEnvFileForWrite

ASSUME NoneAssumption ==
    None \notin Candidates \cup EnvFiles \cup Databases

Values(f) == IF envs[f] = None THEN EmptyFile ELSE envs[f]
PortOr(p, q) == IF p # None THEN p ELSE q

-----------------------------------------------------------------------------
(* Servers and ports *)

ContainerPort == IF container.st = "running" THEN container.port ELSE None
ServerPort == IF server = None THEN None ELSE server.port

\* is_port_bound
Bound(p) == p \in {foreign, ContainerPort, ServerPort}

\* pg_home: the vendored binaries are there.
Embedded == "pg" \in parts
ComposeReady == host.docker /\ host.manifest
\* embedded_pid: the pid file lies in the data directory.
Running == server # None /\ cluster # None
\* db_embedded.installed: a cluster or a live server.
Installed == cluster # None

\* _effective_port
EffectivePort(p) ==
    IF p # None THEN p
    ELSE IF DbEnvFile = None THEN DefaultPort
    ELSE PortOr(envs[DbEnvFile].port, DefaultPort)

\* db_up: the backend of this call.
UpLane(p) ==
    IF ComposeReady /\ (container.st # "absent" \/ ~Bound(EffectivePort(p))) THEN "compose"
    ELSE IF Embedded THEN "embedded"
    ELSE IF ComposeReady THEN "compose" ELSE "none"

\* db_down
DownLane ==
    IF Embedded /\ Installed /\ (~host.docker \/ container.st = "absent") THEN "embedded"
    ELSE IF host.docker THEN "compose" ELSE "none"

\* init_schema connects to the address db_dsn resolves, whatever db-up started:
\* the database that answers there and accepts the password.
Dialled ==
    LET f == DbEnvFile
        p == PortOr(Values(f).port, DefaultPort)
    IN  IF f = None THEN "nothing"
        ELSE IF envs[f].pw = None THEN "nothing"
        ELSE IF Running /\ ServerPort = p /\ server.up /\ cluster.pw = envs[f].pw
                /\ cluster.db
             THEN "cluster"
        ELSE IF ContainerPort = p /\ volume.pw = envs[f].pw THEN "volume" ELSE "nothing"

Database(t) == IF t = "cluster" THEN cluster ELSE volume

-----------------------------------------------------------------------------
(* Commands *)

Idle == [name |-> "none", pc |-> "idle", lane |-> "none", arg |-> None, force |-> FALSE,
         file |-> "bundled", port |-> None, pw |-> None, step |-> 0, target |-> "nothing",
         todo |-> {}]

Goto(pc) == cmd' = [cmd EXCEPT !.pc = pc]

\* The command returns; what it leaves is in the other variables.
Return(rc) ==
    /\ cmd' = Idle
    /\ result' = [name |-> cmd.name, lane |-> cmd.lane, rc |-> rc]

NoResult == [name |-> "none", lane |-> "none", rc |-> 0]

At(name, pc) == cmd.name = name /\ cmd.pc = pc
InLane(lane, pc) == At("up", pc) /\ cmd.lane = lane

disk == <<host, parts, envs, cluster, volume>>
outside == <<foreign, cut, trouble>>

\* hr db-up [--port p] [--force]
Up(p, force) ==
    /\ cmd = Idle
    /\ \/ /\ UpLane(p) # "none"
          /\ cmd' = [Idle EXCEPT !.name = "up", !.pc = "env", !.lane = UpLane(p), !.arg = p,
                                 !.force = force /\ UpLane(p) = "compose"]
          /\ result' = NoResult
       \/ /\ UpLane(p) = "none"
          /\ result' = [name |-> "up", lane |-> "none", rc |-> 1]
          /\ UNCHANGED cmd
    /\ UNCHANGED <<disk, outside, server, container>>

\* Where a command goes once its env file stands: install-post shares ensure_env.
AfterEnv == IF cmd.name = "up" THEN "port" ELSE "shim"

\* Mutant of EnsureEnv: another port brings another password.
EnsureEnvNewPassword ==
    /\ cmd.pc = "env"
    /\ LET f == EnvFileOf(cmd.lane)
           old == Values(f)
           p == PortOr(cmd.arg, PortOr(old.port, DefaultPort))
       IN  IF old.pw # None /\ cmd.arg \in {None, old.port}
           THEN cmd' = [cmd EXCEPT !.pc = AfterEnv, !.file = f, !.port = p, !.arg = None]
           ELSE \E pw \in Passwords :
                    cmd' = [cmd EXCEPT !.pc = IF envs[f] = None THEN "create" ELSE "unlink",
                                       !.file = f, !.port = p, !.arg = None, !.pw = pw]
    /\ UNCHANGED <<disk, outside, server, container, result>>

\* ensure_env, ensure_db_env_file: keep a file with a password and this port; else
\* write it again with the password it has, or a new one.
EnsureEnv ==
    /\ cmd.pc = "env"
    /\ LET f == EnvFileOf(cmd.lane)
           old == Values(f)
           p == PortOr(cmd.arg, PortOr(old.port, DefaultPort))
           kept == old.pw # None /\ cmd.arg \in {None, old.port}
       IN  \/ /\ kept
              /\ cmd' = [cmd EXCEPT !.pc = AfterEnv, !.file = f, !.port = p, !.arg = None]
           \/ /\ ~kept
              /\ \E pw \in IF old.pw # None THEN {old.pw} ELSE Passwords :
                     cmd' = [cmd EXCEPT !.pc = IF envs[f] = None THEN "create" ELSE "unlink",
                                        !.file = f, !.port = p, !.arg = None,
                                        !.pw = pw]
    /\ UNCHANGED <<disk, outside, server, container, result>>

\* write_db_env_file: an existing file is unlinked and created again, then filled.
WriteEnv(pc, value, next) ==
    /\ cmd.pc = pc
    /\ envs' = [envs EXCEPT ![cmd.file] = value]
    /\ cmd' = [cmd EXCEPT !.pc = next, !.pw = IF pc = "fill" THEN None ELSE @]
    /\ UNCHANGED <<host, parts, cluster, volume, outside, server, container, result>>

EnvUnlink == WriteEnv("unlink", None, "create")
EnvCreate == WriteEnv("create", EmptyFile, "fill")
EnvFill == WriteEnv("fill", [pw |-> cmd.pw, port |-> cmd.port], AfterEnv)

-----------------------------------------------------------------------------
(* db-up, embedded backend (db_embedded.up) *)

\* A live postmaster skips bootstrap and start; a port of someone else is refused.
EmbeddedPort ==
    /\ InLane("embedded", "port")
    /\ \/ Running /\ Goto("connect") /\ UNCHANGED result
       \/ ~Running /\ Bound(cmd.port) /\ Return(1)
       \/ ~Running /\ ~Bound(cmd.port) /\ Goto("initdb") /\ UNCHANGED result
    /\ UNCHANGED <<disk, outside, server, container>>

\* ensure_pgdata: an existing cluster is left untouched; a failed initdb removes
\* what it made. The settings apply_conf writes are those start passes again.
Initdb ==
    /\ InLane("embedded", "initdb")
    /\ \/ /\ cluster # None
          /\ Goto("start")
          /\ UNCHANGED <<cluster, result, trouble>>
       \/ /\ cluster = None
          /\ cluster' = NewDatabase(envs["bundled"].pw, FALSE)
          /\ Goto("start")
          /\ UNCHANGED <<result, trouble>>
       \/ /\ cluster = None /\ trouble < MaxTrouble
          /\ trouble' = trouble + 1
          /\ Return(1)
          /\ UNCHANGED cluster
    /\ UNCHANGED <<host, parts, envs, volume, server, container, foreign, cut>>

\* pg_ctl -w start: it returns once the server accepts, or gives up on one that is
\* still starting; an unusable cluster and a taken port are errors.
Start ==
    /\ InLane("embedded", "start")
    /\ \/ /\ cluster.usable /\ ~Bound(cmd.port)
          /\ server' = [port |-> cmd.port, up |-> TRUE]
          /\ Goto("ready")
          /\ UNCHANGED <<result, trouble>>
       \/ /\ cluster.usable /\ ~Bound(cmd.port) /\ trouble < MaxTrouble
          /\ server' = [port |-> cmd.port, up |-> FALSE]
          /\ trouble' = trouble + 1
          /\ Return(1)
       \/ /\ ~cluster.usable \/ Bound(cmd.port)
          /\ Return(1)
          /\ UNCHANGED <<server, trouble>>
    /\ UNCHANGED <<disk, container, foreign, cut>>

\* ready_probe: the port answers and SELECT 1 runs with the env file's password.
Answers == Running /\ server.up /\ envs["bundled"].pw = cluster.pw

\* wait_until_ready: the probe passes or the budget runs out.
Ready ==
    /\ InLane("embedded", "ready")
    /\ \/ Answers /\ Goto("createdb") /\ UNCHANGED result
       \/ ~Answers /\ Return(1)
    /\ UNCHANGED <<disk, outside, server, container>>

\* Mutant of EnsureDatabase: "already exists" is an error.
EnsureDatabaseOnce ==
    /\ InLane("embedded", "createdb")
    /\ IF Running /\ ~cluster.db
       THEN cluster' = [cluster EXCEPT !.db = TRUE] /\ Goto("connect") /\ UNCHANGED result
       ELSE Return(1) /\ UNCHANGED cluster
    /\ UNCHANGED <<host, parts, envs, volume, server, container, outside>>

\* ensure_database: "already exists" is success.
EnsureDatabase ==
    /\ InLane("embedded", "createdb")
    /\ \/ /\ Running
          /\ cluster' = [cluster EXCEPT !.db = TRUE]
          /\ Goto("connect")
          /\ UNCHANGED <<result, trouble>>
       \/ /\ ~Running
          /\ Return(1)
          /\ UNCHANGED <<cluster, trouble>>
       \/ /\ trouble < MaxTrouble
          /\ trouble' = trouble + 1
          /\ Return(1)
          /\ UNCHANGED cluster
    /\ UNCHANGED <<host, parts, envs, volume, server, container, foreign, cut>>

-----------------------------------------------------------------------------
(* db-up, compose backend (_db_up_compose) *)

\* foreign_compose_conflict, then the port guard.
ComposeGuards ==
    /\ InLane("compose", "port")
    /\ LET refused == \/ ~cmd.force /\ container.st # "absent" /\ container.owner # "ours"
                      \/ Bound(cmd.port) /\ container.st # "running"
       IN  \/ refused /\ Return(1)
           \/ ~refused /\ Goto("compose") /\ UNCHANGED result
    /\ UNCHANGED <<disk, outside, server, container>>

\* docker compose up -d: the container is (re)created on the port of the env file; a
\* fresh volume takes its password, one with data keeps its own.
ComposeUp ==
    /\ InLane("compose", "compose")
    /\ \/ /\ cmd.port \notin {foreign, ServerPort}
          /\ container' = [st |-> "running", port |-> cmd.port, owner |-> "ours"]
          /\ volume' = IF volume = None THEN NewDatabase(envs[cmd.file].pw, TRUE) ELSE volume
          /\ Goto("ready")
          /\ UNCHANGED <<result, trouble>>
       \/ /\ cmd.port \in {foreign, ServerPort} \/ trouble < MaxTrouble
          /\ trouble' = IF cmd.port \in {foreign, ServerPort} THEN trouble ELSE trouble + 1
          /\ Return(1)
          /\ UNCHANGED <<container, volume>>
    /\ UNCHANGED <<host, parts, envs, cluster, server, foreign, cut>>

\* wait_for_ready: pg_isready inside the container, which asks no password.
ComposeReadiness ==
    /\ InLane("compose", "ready")
    /\ \/ container.st = "running" /\ Goto("connect") /\ UNCHANGED result
       \/ container.st # "running" /\ Return(1)
    /\ UNCHANGED <<disk, outside, server, container>>

-----------------------------------------------------------------------------
(* db-up, the schema (hr.db.connect and init_schema) *)

OnTarget(t, db) ==
    /\ cluster' = IF t = "cluster" THEN db ELSE cluster
    /\ volume' = IF t = "volume" THEN db ELSE volume

Connect ==
    /\ cmd.name = "up" /\ cmd.pc = "connect"
    /\ LET t == Dialled
       IN  \/ /\ t # "nothing" /\ Database(t).schema.ns # "both"
              /\ OnTarget(t, [Database(t) EXCEPT !.schema = Renamed(@)])
              /\ cmd' = [Idle EXCEPT !.name = "up", !.lane = cmd.lane, !.pc = "schema",
                                     !.step = 1, !.target = t]
              /\ UNCHANGED result
           \/ /\ IF t = "nothing" THEN TRUE ELSE Database(t).schema.ns = "both"
              /\ Return(1)
              /\ UNCHANGED <<cluster, volume>>
    /\ UNCHANGED <<host, parts, envs, server, container, outside>>

\* The server behind the open connection is still there.
Connected == IF cmd.target = "cluster" THEN Running ELSE container.st = "running"

\* One committed step of init_schema; after the last, db-up reports success.
SchemaStep ==
    /\ cmd.name = "up" /\ cmd.pc = "schema"
    /\ LET db == Database(cmd.target)
           step == SchemaSteps[cmd.step]
           fails == ~Connected \/ (step = "indexes" /\ ~CanIndex(db.schema))
       IN  \/ /\ ~fails
              /\ OnTarget(cmd.target, [db EXCEPT !.schema = SchemaAfter(@, step)])
              /\ \/ cmd.step = Len(SchemaSteps) /\ Return(0)
                 \/ /\ cmd.step < Len(SchemaSteps)
                    /\ cmd' = [cmd EXCEPT !.step = @ + 1]
                    /\ UNCHANGED result
           \/ fails /\ Return(1) /\ UNCHANGED <<cluster, volume>>
    /\ UNCHANGED <<host, parts, envs, server, container, outside>>

-----------------------------------------------------------------------------
(* hr db-down [--purge --yes] *)

Down(purge) ==
    /\ cmd = Idle
    /\ \/ /\ DownLane # "none"
          /\ cmd' = [Idle EXCEPT !.name = IF purge THEN "purge" ELSE "down", !.pc = "stop",
                                 !.lane = DownLane]
          /\ result' = NoResult
       \/ /\ DownLane = "none"
          /\ result' = [name |-> "down", lane |-> "none", rc |-> 1]
          /\ UNCHANGED cmd
    /\ UNCHANGED <<disk, outside, server, container>>

\* pg_ctl stop: an error where no server runs, and where it does not stop in time.
PgStop(stopped) ==
    \/ Running /\ server' = None /\ stopped /\ UNCHANGED trouble
    \/ Running /\ trouble < MaxTrouble /\ trouble' = trouble + 1 /\ ~stopped /\ UNCHANGED server
    \/ ~Running /\ ~stopped /\ UNCHANGED <<server, trouble>>

\* db_embedded.down: the error of pg_ctl ends the command, before any purge.
StopEmbedded ==
    /\ cmd.name \in {"down", "purge"} /\ cmd.pc = "stop" /\ cmd.lane = "embedded"
    /\ \E stopped \in BOOLEAN :
           /\ PgStop(stopped)
           /\ \/ stopped /\ cmd.name = "purge" /\ Goto("purge") /\ UNCHANGED result
              \/ stopped /\ cmd.name = "down" /\ Return(0)
              \/ ~stopped /\ Return(1)
    /\ UNCHANGED <<disk, container, foreign, cut>>

\* rmtree(D / "data")
PurgeData ==
    /\ At("purge", "purge")
    /\ cluster' = None
    /\ Return(0)
    /\ UNCHANGED <<host, parts, envs, volume, server, container, outside>>

\* docker compose stop, or down -v.
StopCompose ==
    /\ cmd.name \in {"down", "purge"} /\ cmd.pc = "stop" /\ cmd.lane = "compose"
    /\ \/ /\ cmd.name = "down"
          /\ container' = IF container.st = "absent" THEN container
                          ELSE [container EXCEPT !.st = "exited"]
          /\ UNCHANGED volume
          /\ Return(0)
       \/ /\ cmd.name = "purge"
          /\ container' = [container EXCEPT !.st = "absent"]
          /\ volume' = None
          /\ Return(0)
    /\ UNCHANGED <<host, parts, envs, cluster, server, outside>>

-----------------------------------------------------------------------------
(* The machine *)

\* The env file is gone or empty, its password only in the killed process.
Dropping == cmd.pc \in {"create", "fill"} /\ cmd.pw # None

\* The process is killed; what initdb or rmtree was at stays half done.
Crash ==
    /\ cmd.name \in {"up", "down", "purge"} /\ trouble < MaxTrouble
    /\ cmd' = Idle
    /\ result' = [name |-> cmd.name, lane |-> cmd.lane, rc |-> 2]
    /\ \/ UNCHANGED cluster
       \/ /\ InLane("embedded", "initdb") /\ cluster = None
          /\ cluster' = [NewDatabase(envs["bundled"].pw, FALSE) EXCEPT !.usable = FALSE]
       \/ /\ At("purge", "purge")
          /\ cluster' \in {None, [cluster EXCEPT !.usable = FALSE]}
    /\ trouble' = trouble + 1
    /\ cut' = (cut \/ Dropping)
    /\ UNCHANGED <<host, parts, envs, volume, server, container, foreign>>

\* A postmaster that was still starting accepts connections.
ServerBoots ==
    /\ server # None /\ ~server.up
    /\ server' = [server EXCEPT !.up = TRUE]
    /\ UNCHANGED <<disk, container, cmd, result, outside>>

\* A postmaster whose data directory is gone ends by itself.
OrphanEnds ==
    /\ server # None /\ cluster = None
    /\ server' = None
    /\ UNCHANGED <<disk, container, cmd, result, outside>>

\* A server is killed.
ServerDies ==
    /\ trouble < MaxTrouble /\ trouble' = trouble + 1
    /\ \/ /\ server # None /\ server' = None
          /\ UNCHANGED container
       \/ /\ container.st = "running"
          /\ container' = [container EXCEPT !.st = "exited"]
          /\ UNCHANGED server
    /\ UNCHANGED <<disk, cmd, result, foreign, cut>>

\* Another program takes a free port, or frees it.
ForeignListens ==
    /\ \/ /\ foreign = None /\ trouble < MaxTrouble
          /\ \E p \in Ports : ~Bound(p) /\ foreign' = p
          /\ trouble' = trouble + 1
       \/ foreign # None /\ foreign' = None /\ UNCHANGED trouble
    /\ UNCHANGED <<disk, server, container, cmd, result, cut>>

-----------------------------------------------------------------------------
Containers == [st : {"absent", "running", "exited"}, port : Ports \cup {None},
               owner : {"ours", "other"}]

\* Whoever keeps data kept its password, and a running container has its volume.
ASSUME MachinesAssumption ==
    \A m \in Machines :
        /\ m.envs \in [Candidates -> EnvFiles \cup {None}]
        /\ m.volume \in Databases \cup {None}
        /\ m.volume # None =>
               \E f \in Candidates : m.envs[f] # None /\ m.envs[f].pw = m.volume.pw
        /\ m.container \in Containers
        /\ m.container.st = "running" => m.volume # None

\* A machine: docker, its compose manifest and whether docker/ can be written; the
\* bundle's parts in D; the env files, volume and container of earlier versions.
DbInit(m) ==
    /\ host = m.host
    /\ parts = m.parts
    /\ envs = m.envs
    /\ cluster = None /\ server = None
    /\ volume = m.volume
    /\ container = m.container
    /\ foreign = None
    /\ cmd = Idle
    /\ result = NoResult
    /\ cut = FALSE /\ trouble = 0

\* The steps of a command that has begun.
DbStep ==
    \/ EnsureEnv \/ EnvUnlink \/ EnvCreate \/ EnvFill
    \/ EmbeddedPort \/ Initdb \/ Start \/ Ready \/ EnsureDatabase
    \/ ComposeGuards \/ ComposeUp \/ ComposeReadiness
    \/ Connect \/ SchemaStep
    \/ StopEmbedded \/ PurgeData \/ StopCompose

Machine == Crash \/ ServerBoots \/ OrphanEnds \/ ServerDies \/ ForeignListens

DbCommand ==
    \/ \E p \in Ports \cup {None}, force \in BOOLEAN : Up(p, force)
    \/ \E purge \in BOOLEAN : Down(purge)

DbNext == DbCommand \/ DbStep \/ Machine
=============================================================================
