--------------------------- MODULE ReleaseManager ---------------------------
(***************************************************************************)
(* hr/deployment_manager.py: releases under releases_root, the hr symlink, *)
(* the plugin array of opencode.jsonc, the archives, and the backups an    *)
(* activation can be rolled back from.                                     *)
(*                                                                         *)
(* One release command runs at a time and may be killed between any two of *)
(* its effects.  A command that refuses is the same as one that never ran. *)
(* Releases are numbered as their names sort; hr's plugin entry of a       *)
(* release is its number, and the entries of others are left out.          *)
(***************************************************************************)
EXTENDS Integers, FiniteSets

CONSTANTS
    Releases,            \* release names, as numbers in their order
    Absent, Torn, None,  \* no such file or link; not readable; no value
    Foreign, Relative,   \* links hr did not make, and those of them that are relative
    MaxReleases,         \* MAX_RELEASES_TO_KEEP, for archives as well
    MaxBackups, MaxAge,  \* MAX_BACKUPS; MAX_AGE_DAYS = MAX_RELEASE_AGE_DAYS
    \* bounds of the model
    MaxBuilds,           \* builds under one name
    MaxMade,             \* backups ever made
    MaxTime, MaxFaults, MaxCrashes

ASSUME ReleaseAssumption ==
    /\ Releases \subseteq Nat \ {0} /\ IsFiniteSet(Releases)
    /\ Relative \subseteq Foreign /\ Releases \cap Foreign = {}
    /\ (Releases \cup Foreign) \cap {Absent, Torn, None} = {}
    /\ Absent # Torn /\ Torn # None /\ None # Absent
    /\ \A names \in SUBSET Releases : names \notin {Absent, Torn}
    /\ MaxReleases \in Nat \ {0} /\ MaxBackups \in Nat \ {0} /\ MaxAge \in Nat
    /\ {MaxBuilds, MaxMade, MaxTime, MaxFaults, MaxCrashes} \subseteq Nat

VARIABLES
    release,   \* state of each release directory, and when it was created
    archives,  \* tarballs: name, and the age they inherit
    link,      \* target of the hr symlink
    config,    \* hr's entries in the plugin array of opencode.jsonc
    backups,   \* backup directories, with what an activation adds to them
    job,       \* the command under way
    now, made, \* time; backups made so far
    built,     \* builds under each name
    faults, crashes

vars == <<release, archives, link, config, backups, job, now, made, built, faults, crashes>>

\* partial: no metadata.json, as a build leaves it that was killed; damaged:
\* it does not hash to its metadata any more.
States == {"none", "partial", "intact", "damaged"}
Links == Releases \cup Foreign \cup {Absent}
Configs == (SUBSET Releases) \cup {Absent, Torn}
Pairs == [link : Links, config : Configs]
Backup == [id : 0..MaxMade, at : 0..MaxTime, ledger : BOOLEAN,
           link : Links \cup {None}, config : Configs]

Pair == [link |-> link, config |-> config]
Entries == IF config \in {Absent, Torn} THEN {} ELSE config
Listed(n) == release[n].state \in {"intact", "damaged"}

\* No such directory.
Gone == [state |-> "none", at |-> 0]

Idle == [kind |-> "none", pc |-> "done", name |-> 0, id |-> 0, todo |-> {}, seen |-> {},
         before |-> [link |-> Absent, config |-> Absent]]

\* Of a set of names, the newest and those that are young enough to stay.
Newest(names) == {n \in names : \A m \in names : m <= n}
Young(at) == now - at <= MaxAge
Own == CHOOSE b \in backups : b.id = job.id

\* prune_backups, at the end of create_backup: backups are numbered as made.
KeptBackups(dirs) ==
    LET eligible == {b \in dirs : Young(b.at) \/ \A c \in dirs : c.id <= b.id}
    IN {b \in eligible : Cardinality({c \in eligible : c.id > b.id}) < MaxBackups}

NewBackup == [id |-> made + 1, at |-> now, ledger |-> FALSE, link |-> None, config |-> Absent]

\* create_backup, as a whole: what it copies are the FastDraw files.
CreateBackup ==
    /\ made' = made + 1
    /\ backups' = KeptBackups(backups \cup {NewBackup})

Init ==
    /\ release = [n \in Releases |-> Gone]
    /\ archives = {} /\ backups = {}
    /\ link \in Foreign \cup {Absent}
    /\ config \in {Absent, {}}
    /\ job = Idle
    /\ now = 0 /\ made = 0 /\ faults = 0 /\ crashes = 0
    /\ built = [n \in Releases |-> 0]

(***************************************************************************)
(* release-build, release-verify                                           *)
(***************************************************************************)
Build(n) ==
    /\ job.kind = "none" /\ release[n].state = "none" /\ built[n] < MaxBuilds
    /\ release' = [release EXCEPT ![n] = [state |-> "partial", at |-> now]]
    /\ built' = [built EXCEPT ![n] = @ + 1]
    /\ job' = [Idle EXCEPT !.kind = "build", !.pc = "copying", !.name = n]
    /\ UNCHANGED <<archives, link, config, backups, now, made, faults, crashes>>

\* metadata.json is written last.
Built ==
    /\ job.kind = "build"
    /\ release' = [release EXCEPT ![job.name].state = "intact"]
    /\ job' = Idle
    /\ UNCHANGED <<archives, link, config, backups, now, made, built, faults, crashes>>

\* A copy fails: the candidate is removed.
BuildFails ==
    /\ job.kind = "build" /\ faults < MaxFaults
    /\ release' = [release EXCEPT ![job.name] = Gone]
    /\ job' = Idle /\ faults' = faults + 1
    /\ UNCHANGED <<archives, link, config, backups, now, made, built, crashes>>

\* A release that fails verification is removed, unless it is kept on demand.
Verify(n) ==
    /\ job.kind = "none" /\ release[n].state \in {"partial", "damaged"}
    /\ release' = [release EXCEPT ![n] = Gone]
    /\ UNCHANGED <<archives, link, config, backups, job, now, made, built, faults, crashes>>

(***************************************************************************)
(* release-activate                                                        *)
(***************************************************************************)

\* Verification, and what there is to go back to; an active release is left.
Activate(n) ==
    /\ job.kind = "none" /\ release[n].state = "intact" /\ made < MaxMade
    /\ ~(link = n /\ n \in Entries)
    /\ job' = [Idle EXCEPT !.kind = "activate", !.pc = "backup", !.name = n, !.before = Pair]
    /\ UNCHANGED <<release, archives, link, config, backups, now, made, built, faults, crashes>>

\* Mutant of MakeBackup: the ledger is forgotten.
MakeBackupOnly ==
    /\ job.pc = "backup"
    /\ CreateBackup
    /\ job' = [job EXCEPT !.pc = "swap", !.id = made']
    /\ UNCHANGED <<release, archives, link, config, now, built, faults, crashes>>

MakeBackup ==
    /\ job.pc = "backup"
    /\ CreateBackup
    /\ job' = [job EXCEPT !.pc = "ledger", !.id = made']
    /\ UNCHANGED <<release, archives, link, config, now, built, faults, crashes>>

\* Mutant of WriteLedger: the previous target is not recorded.
WriteLedgerBlank ==
    /\ job.pc = "ledger"
    /\ backups' = (backups \ {Own}) \cup {[Own EXCEPT !.ledger = TRUE, !.config = config]}
    /\ job' = [job EXCEPT !.pc = "swap"]
    /\ UNCHANGED <<release, archives, link, config, now, made, built, faults, crashes>>

\* opencode.jsonc and the ledger are put into the backup.
WriteLedger ==
    /\ job.pc = "ledger"
    /\ backups' = (backups \ {Own}) \cup
           {[Own EXCEPT !.ledger = TRUE, !.link = job.before.link, !.config = config]}
    /\ job' = [job EXCEPT !.pc = "swap"]
    /\ UNCHANGED <<release, archives, link, config, now, made, built, faults, crashes>>

\* _atomic_symlink
Swap ==
    /\ job.pc = "swap"
    /\ link' = job.name
    /\ job' = [job EXCEPT !.pc = "register"]
    /\ UNCHANGED <<release, archives, config, backups, now, made, built, faults, crashes>>

\* _register_plugin_path, which replaces the file in one step.
Register ==
    /\ job.pc = "register" /\ config # Torn
    /\ config' = Entries \cup {job.name}
    /\ job' = Idle
    /\ UNCHANGED <<release, archives, link, backups, now, made, built, faults, crashes>>

\* Mutant of ActivationFails: the link is not put back.
ActivationFailsLinked ==
    /\ job.pc \in {"swap", "register"}
    /\ \/ job.pc = "register" /\ config = Torn /\ UNCHANGED faults
       \/ faults < MaxFaults /\ faults' = faults + 1
    /\ job' = IF job.before.config # Absent THEN [job EXCEPT !.pc = "config"] ELSE Idle
    /\ UNCHANGED <<release, archives, link, config, backups, now, made, built, crashes>>

\* A plugin entry that is not an array, or an OSError: the prior pointers are
\* restored, the link if it was swapped, the file if there was one.
ActivationFails ==
    /\ job.pc \in {"swap", "register"}
    /\ \/ job.pc = "register" /\ config = Torn /\ UNCHANGED faults
       \/ faults < MaxFaults /\ faults' = faults + 1
    /\ \/ job.pc = "register" /\ job' = [job EXCEPT !.pc = "link"]
       \/ job.pc = "swap" /\ job.before.config # Absent /\ job' = [job EXCEPT !.pc = "config"]
       \/ job.pc = "swap" /\ job.before.config = Absent /\ job' = Idle
    /\ UNCHANGED <<release, archives, link, config, backups, now, made, built, crashes>>

(***************************************************************************)
(* release-rollback, and the restore it shares with a failed activation:   *)
(* a rollback restores the file first, a failed activation the link.       *)
(***************************************************************************)
Rollback(b) ==
    /\ job.kind = "none" /\ b.ledger /\ b.link \notin Relative
    /\ job' = [Idle EXCEPT !.kind = "rollback", !.pc = "config", !.id = b.id]
    /\ UNCHANGED <<release, archives, link, config, backups, now, made, built, faults, crashes>>

\* _restore_link
RestoreLink ==
    /\ job.pc = "link"
    /\ link' = Own.link
    /\ job' = IF job.kind = "activate" /\ Own.config # Absent
              THEN [job EXCEPT !.pc = "config"] ELSE Idle
    /\ UNCHANGED <<release, archives, config, backups, now, made, built, faults, crashes>>

AfterConfig == IF job.kind = "rollback" THEN [job EXCEPT !.pc = "link"] ELSE Idle

\* _restore_config_file: delete it, or copy2, which truncates and fills.
DeleteConfig ==
    /\ job.pc = "config" /\ Own.config = Absent
    /\ config' = Absent
    /\ job' = AfterConfig
    /\ UNCHANGED <<release, archives, link, backups, now, made, built, faults, crashes>>

TruncateConfig ==
    /\ job.pc = "config" /\ Own.config # Absent
    /\ config' = Torn
    /\ job' = [job EXCEPT !.pc = "fill"]
    /\ UNCHANGED <<release, archives, link, backups, now, made, built, faults, crashes>>

\* Mutant of FillConfig: a rollback is over when the file is back.
FillConfigDone ==
    /\ job.pc = "fill"
    /\ config' = Own.config
    /\ job' = Idle
    /\ UNCHANGED <<release, archives, link, backups, now, made, built, faults, crashes>>

FillConfig ==
    /\ job.pc = "fill"
    /\ config' = Own.config
    /\ job' = AfterConfig
    /\ UNCHANGED <<release, archives, link, backups, now, made, built, faults, crashes>>

(***************************************************************************)
(* release-prune                                                           *)
(***************************************************************************)

\* Mutant of KeptReleases: the link is not looked at.
KeptReleasesByAge(names) ==
    LET eligible == {n \in names : n \in Newest(names) \/ Young(release[n].at)}
    IN {n \in eligible : Cardinality({m \in eligible : m > n}) < MaxReleases}

\* The newest release and the active one stay, the others while they are
\* young and among the first MaxReleases, newest first.
KeptReleases(names) ==
    LET always == Newest(names) \cup {n \in names : link = n}
        eligible == {n \in names : n \in always \/ Young(release[n].at)}
    IN {n \in eligible : n \in always \/ Cardinality({m \in eligible : m > n}) < MaxReleases}

\* Corrupt releases are removed, and what is to be archived is known then.
BeginPrune ==
    /\ job.kind = "none" /\ made < MaxMade
    /\ LET listed == {n \in Releases : Listed(n)}
       IN job' = [Idle EXCEPT !.kind = "prune", !.pc = "archive", !.seen = listed,
                      !.todo = listed \ KeptReleases(listed)]
    /\ release' = [n \in Releases |-> IF release[n].state = "partial" THEN Gone ELSE release[n]]
    /\ UNCHANGED <<archives, link, config, backups, now, made, built, faults, crashes>>

\* Mutant of Archive: no tarball is written.
ArchiveNothing(n) ==
    /\ job.pc = "archive" /\ n \in Newest(job.todo)
    /\ job' = [job EXCEPT !.pc = "remove", !.name = n]
    /\ UNCHANGED <<release, archives, link, config, backups, now, made, built, faults, crashes>>

Archive(n) ==
    /\ job.pc = "archive" /\ n \in Newest(job.todo)
    /\ archives' = {a \in archives : a.name # n} \cup {[name |-> n, at |-> release[n].at]}
    /\ job' = [job EXCEPT !.pc = "remove", !.name = n]
    /\ UNCHANGED <<release, link, config, backups, now, made, built, faults, crashes>>

Remove ==
    /\ job.pc = "remove"
    /\ release' = [release EXCEPT ![job.name] = Gone]
    /\ job' = [job EXCEPT !.pc = "archive", !.todo = @ \ {job.name}]
    /\ UNCHANGED <<archives, link, config, backups, now, made, built, faults, crashes>>

\* Killed while it removes a release: some of its files are left.
RemoveHalf ==
    /\ job.pc = "remove" /\ crashes < MaxCrashes
    /\ \E state \in {"partial", "damaged"} :
           release' = [release EXCEPT ![job.name].state = state]
    /\ job' = Idle /\ crashes' = crashes + 1
    /\ UNCHANGED <<archives, link, config, backups, now, made, built, faults>>

\* Mutant of KeptArchives: one too many.
KeptArchivesOneMore ==
    LET names == {a.name : a \in archives}
        eligible == {a \in archives : a.name \in Newest(names) \/ Young(a.at)}
    IN {a \in eligible : Cardinality({c \in eligible : c.name > a.name}) <= MaxReleases}

KeptArchives ==
    LET names == {a.name : a \in archives}
        eligible == {a \in archives : a.name \in Newest(names) \/ Young(a.at)}
    IN {a \in eligible : Cardinality({c \in eligible : c.name > a.name}) < MaxReleases}

PruneArchives ==
    /\ job.pc = "archive" /\ job.todo = {}
    /\ archives' = KeptArchives
    /\ job' = [job EXCEPT !.pc = "entries"]
    /\ UNCHANGED <<release, link, config, backups, now, made, built, faults, crashes>>

\* _stale_plugin_entries: those of releases that were not there when the prune began.
Stale == Entries \ job.seen

\* The stale entries are removed, behind a backup.
CleanEntries ==
    /\ job.pc = "entries"
    /\ IF Stale = {}
       THEN UNCHANGED <<config, backups, made>>
       ELSE /\ CreateBackup
            /\ config' = Entries \ Stale
    /\ job' = Idle
    /\ UNCHANGED <<release, archives, link, now, built, faults, crashes>>

(***************************************************************************)
(* The world                                                               *)
(***************************************************************************)

\* A command is killed between two effects.
Crash ==
    /\ job.kind # "none" /\ crashes < MaxCrashes
    /\ job' = Idle /\ crashes' = crashes + 1
    /\ UNCHANGED <<release, archives, link, config, backups, now, made, built, faults>>

\* Somebody changes a payload of a release.
Damage(n) ==
    /\ job.kind = "none" /\ release[n].state = "intact" /\ faults < MaxFaults
    /\ release' = [release EXCEPT ![n].state = "damaged"]
    /\ faults' = faults + 1
    /\ UNCHANGED <<archives, link, config, backups, job, now, made, built, crashes>>

\* hr apply makes backups of its own in the same directory.
ApplyBackup ==
    /\ job.kind = "none" /\ made < MaxMade
    /\ CreateBackup
    /\ UNCHANGED <<release, archives, link, config, job, now, built, faults, crashes>>

Tick ==
    /\ job.kind = "none" /\ now < MaxTime
    /\ now' = now + 1
    /\ UNCHANGED <<release, archives, link, config, backups, job, made, built, faults, crashes>>

Next ==
    \/ \E n \in Releases : Build(n) \/ Verify(n) \/ Activate(n) \/ Archive(n) \/ Damage(n)
    \/ Built \/ BuildFails
    \/ MakeBackup \/ WriteLedger \/ Swap \/ Register \/ ActivationFails
    \/ \E b \in backups : Rollback(b)
    \/ RestoreLink \/ DeleteConfig \/ TruncateConfig \/ FillConfig
    \/ BeginPrune \/ Remove \/ RemoveHalf \/ PruneArchives \/ CleanEntries
    \/ Crash \/ ApplyBackup \/ Tick

Spec == Init /\ [][Next]_vars

(***************************************************************************)
(* Properties                                                              *)
(***************************************************************************)

\* The link always has a target or is absent, the file holds entries, is
\* absent or was truncated, and backups keep such values.
TypeOK ==
    /\ release \in [Releases -> [state : States, at : 0..MaxTime]]
    /\ archives \subseteq [name : Releases, at : 0..MaxTime]
    /\ link \in Links /\ config \in Configs
    /\ backups \subseteq Backup
    /\ job.kind \in {"none", "build", "activate", "rollback", "prune"}
    /\ job.todo \subseteq Releases /\ job.seen \subseteq Releases
    /\ job.before \in Pairs /\ job.id \in 0..made
    /\ now \in 0..MaxTime /\ made \in 0..MaxMade
    /\ built \in [Releases -> 0..MaxBuilds]
    /\ faults \in 0..MaxFaults /\ crashes \in 0..MaxCrashes

\* After any sequence of commands that ran to their ends, whether they
\* succeeded or not, the release the link points to, while it is there, has
\* its plugin registered.  (A kill between Swap and Register leaves the two
\* apart; what helps then is ActivationReversible.  So does building a name
\* again, whose entry was removed while the link dangled.)
LinkedIsRegistered ==
    job.kind = "none" /\ crashes = 0 /\ link \in Releases =>
        (Listed(link) /\ built[link] = 1 => link \in Entries)

\* From the first change of an activation on, and therefore wherever it is
\* killed, there is a backup with a ledger that holds link and file as they
\* were.
ActivationReversible ==
    job.kind = "activate" /\ Pair # job.before =>
        \E b \in backups :
            b.id = job.id /\ b.ledger /\ [link |-> b.link, config |-> b.config] = job.before

\* An activation that ends by itself has taken effect as a whole, or not at
\* all; a rollback leaves link and file as the backup has them.
EndsWhole ==
    [][job.kind \in {"activate", "rollback"} /\ job'.kind = "none" /\ crashes' = crashes =>
           \/ job.kind = "activate" /\ Pair' = job.before
           \/ /\ job.kind = "activate" /\ job.before.config # Torn
              /\ link' = job.name /\ job.name \in config'
              /\ config' \ {job.name} = (IF job.before.config = Absent THEN {}
                                         ELSE job.before.config) \ {job.name}
           \/ job.kind = "rollback" /\ Pair' = [link |-> Own.link, config |-> Own.config]]_vars

\* No command takes the directory of an intact release away while the link
\* points to it, unless somebody damages it.
ActivePreserved ==
    [][\A n \in Releases :
           link = n /\ release[n].state = "intact" => release'[n].state # "none"]_vars

\* Retention: when a prune has come to the plugin entries, MaxReleases
\* releases are left, and the active one if it is not among them, and
\* MaxReleases archives.
RetentionHolds ==
    job.pc = "entries" =>
        /\ Cardinality({n \in Releases : Listed(n) /\ link # n}) <= MaxReleases
        /\ Cardinality(archives) <= MaxReleases

\* A prune removes a release that can be read only when it is archived.
ArchivedFirst ==
    [][\A n \in Releases :
           job.kind = "prune" /\ Listed(n) /\ ~(Listed(n))' => \E a \in archives : a.name = n]_vars
=============================================================================
