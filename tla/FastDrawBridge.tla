--------------------------- MODULE FastDrawBridge ---------------------------
(***************************************************************************)
(* `hr apply` and its safety envelope: hr/apply.py, hr/plugin_safety.py    *)
(* and hr/cli_apply.py, over fastdraw-presets.json, .fastdraw.json, the    *)
(* preview records and the backup directories.                             *)
(*                                                                         *)
(* Several hr processes may run at once.  A process may be killed at any   *)
(* step and a write may fail.  write_text and copy2 truncate a file and    *)
(* then fill it, in two steps: a file that was truncated is Torn.          *)
(*                                                                         *)
(* A verdict's seating (the agents map) is one value.  Descriptions and    *)
(* timestamps inside the files are left out.  A process that refuses       *)
(* before it has written anything is the same as one that never ran: the   *)
(* compatibility check, preview drift, an unreadable file or database are  *)
(* guards of Check.                                                        *)
(***************************************************************************)
EXTENDS Integers, Sequences, FiniteSets

CONSTANTS
    Procs,           \* hr processes
    Names,           \* preset names
    Seatings,        \* agents maps a verdict may give
    Args,            \* --preset as given: a name, or NoArg
    PreviewDefault,  \* hr-verdict-<sweep>: name of apply-preview without --preset
    ApplyDefault,    \* verdict-<date>: name of apply without --preset
    Absent, Torn,    \* a file that does not exist, or is not readable JSON
    None,            \* no seating, no preset, an empty agents map
    NoArg,
    MaxBackups,      \* MAX_BACKUPS
    MaxAge,          \* MAX_AGE_DAYS
    FaultyKinds,     \* jobs whose writes may fail, in this environment
    \* bounds of the model
    Ties, MaxTime, MaxCommands, MaxPreviews, MaxFaults, MaxCrashes

Files == {"presets", "state"}
Stores == [Names -> Seatings \cup {None}]
EmptyStore == [n \in Names |-> None]
Contents == [presets : Stores \cup {Absent, Torn}, state : Seatings \cup {None, Absent, Torn}]

\* Names of records and backups begin with the second they were made in;
\* within a second their order is that of random suffixes.
Stamps == (0..MaxTime) \X Ties
Newer(s, t) == s[1] > t[1] \/ (s[1] = t[1] /\ s[2] > t[2])

ASSUME BridgeAssumption ==
    /\ IsFiniteSet(Procs) /\ Args \subseteq Names \cup {NoArg}
    /\ {PreviewDefault, ApplyDefault} \subseteq Names
    /\ MaxBackups \in Nat \ {0} /\ MaxAge \in Nat
    /\ FaultyKinds \subseteq {"apply", "restore"}
    /\ Ties \subseteq Nat /\ MaxTime \in Nat
    /\ MaxCommands \in Nat /\ MaxPreviews \in Nat
    /\ MaxFaults \in Nat /\ MaxCrashes \in Nat

ASSUME DistinctAssumption ==
    /\ Absent # Torn
    /\ {Absent, Torn, None} \cap (Seatings \cup Stores) = {}
    /\ None \notin Contents

VARIABLES
    file,       \* contents of the two files
    verdict,    \* the seating the database gives; None when no seat has a model
    previews,   \* preview records
    backups,    \* backup directories
    job,        \* what each process is doing
    now,        \* time, in units no apply takes longer than MaxAge of
    commands, faults, crashes   \* used up of the bounds

vars == <<file, verdict, previews, backups, job, now, commands, faults, crashes>>

(***************************************************************************)
(* Preview records and backups                                             *)
(***************************************************************************)
PreviewRecord == [stamp : Stamps, arg : Args, name : Names,
                  seating : Seatings \cup {None}, files : Contents]

\* (arg only observes; the record does not keep it.)
\* hash is the manifest, blob the copies; sealed once the manifest is there.
Backup == [stamp : Stamps, sealed : BOOLEAN, hash : Contents, blob : Contents]

NameFor(arg, default) == IF arg = NoArg THEN default ELSE arg

\* _latest_preview_record: the newest record, if there is one.
LatestPreview ==
    {r \in previews : \A s \in previews : s = r \/ Newer(r.stamp, s.stamp)}

\* Mutant of NoDrift: only the presets file is compared.
NoPresetsDrift == \A r \in LatestPreview : r.files.presets = file.presets

\* ensure_no_preview_drift
NoDrift == \A r \in LatestPreview : r.files = file

\* _validate_backup
Valid(b) == b.sealed /\ \A f \in Files : b.hash[f] # Absent => b.blob[f] = b.hash[f]

\* Mutant of Kept: the newest directory is kept for its name, valid or not.
KeptNewestName(dirs) ==
    {b \in dirs :
        /\ Valid(b)
        /\ \/ \A c \in dirs : c = b \/ Newer(b.stamp, c.stamp)
           \/ now - b.stamp[1] <= MaxAge}

\* Mutant of Kept: one backup too many.
KeptOneMore(dirs) ==
    LET valid == {b \in dirs : Valid(b)}
        eligible == {b \in valid :
                        \/ \A c \in valid : c = b \/ Newer(b.stamp, c.stamp)
                        \/ now - b.stamp[1] <= MaxAge}
    IN {b \in eligible :
            Cardinality({c \in eligible : Newer(c.stamp, b.stamp)}) <= MaxBackups}

\* prune_backups: the newest MaxBackups among the newest valid backup and the
\* valid ones that are not too old.
Kept(dirs) ==
    LET valid == {b \in dirs : Valid(b)}
        eligible == {b \in valid :
                        \/ \A c \in valid : c = b \/ Newer(b.stamp, c.stamp)
                        \/ now - b.stamp[1] <= MaxAge}
    IN {b \in eligible :
            Cardinality({c \in eligible : Newer(c.stamp, b.stamp)}) < MaxBackups}

(***************************************************************************)
(* Jobs.  A job ends as it began: Idle.  The last five fields only observe:*)
(* the files before the job wrote and as its restore must leave them,      *)
(* whether it wrote, whether nobody else wrote since it began, and whether *)
(* its restore had to leave a file out.                                    *)
(***************************************************************************)
Writes == [to : {"presets"}, content : Stores \cup {Absent, Torn}]
          \cup [to : {"state"}, content : Seatings \cup {None, Absent, Torn}]

Idle == [kind |-> "apply", pc |-> "idle", arg |-> None, setState |-> FALSE,
         bound |-> {}, backup |-> None, seating |-> None, plan |-> <<>>, since |-> 0,
         base |-> None, goal |-> None, wrote |-> FALSE, intact |-> TRUE, skipped |-> FALSE]

InFlight(p) == job[p].pc # "idle"
JobName(p) == NameFor(job[p].arg, ApplyDefault)
OwnBackup(p) == {b \in backups : b.stamp = job[p].backup}
Quiet == \A p \in Procs : ~InFlight(p)

\* A write to the files is noticed by every other job in flight.
Others(p, mine) ==
    [q \in Procs |-> IF q = p THEN mine
                     ELSE IF InFlight(q) THEN [job[q] EXCEPT !.intact = FALSE]
                     ELSE job[q]]

\* Writes that put a backup back, in the order of the manifest.
RestorePlan(b) ==
    LET back(f) == [to |-> f, content |-> IF b.hash[f] = Absent THEN Absent ELSE b.blob[f]]
    IN <<back("presets"), back("state")>>

\* Mutant of Recovered: only the presets file is put back.
RecoveredPresets(p) ==
    IF \E b \in OwnBackup(p) : Valid(b)
    THEN LET b == CHOOSE own \in OwnBackup(p) : Valid(own)
         IN [job[p] EXCEPT !.kind = "restore", !.pc = "write",
                           !.plan = <<RestorePlan(b)[1]>>, !.goal = job[p].base]
    ELSE Idle

\* The except clause of safe_apply: restore the backup if it validates,
\* otherwise give up.
Recovered(p) ==
    IF \E b \in OwnBackup(p) : Valid(b)
    THEN LET b == CHOOSE own \in OwnBackup(p) : Valid(own)
         IN [job[p] EXCEPT !.kind = "restore", !.pc = "write", !.plan = RestorePlan(b),
                           !.goal = job[p].base]
    ELSE Idle

(***************************************************************************)
(* Initial states: some presets and a state file may be there already      *)
(***************************************************************************)
Init ==
    /\ file \in [presets : {Absent, EmptyStore} \cup
                     {[EmptyStore EXCEPT ![n] = s] : n \in Names, s \in Seatings},
                 state : Seatings \cup {Absent}]
    /\ verdict \in Seatings
    /\ previews = {} /\ backups = {}
    /\ job = [p \in Procs |-> Idle]
    /\ now = 0 /\ commands = 0 /\ faults = 0 /\ crashes = 0

(***************************************************************************)
(* apply-preview                                                           *)
(***************************************************************************)
Readable(setState) == file.presets # Torn /\ (setState => file.state # Torn)

\* preview_apply with record_preview.
Preview(p, arg, setState, tie) ==
    /\ ~InFlight(p)
    /\ Cardinality(previews) < MaxPreviews
    /\ Readable(setState)
    /\ \A r \in previews : r.stamp # <<now, tie>>
    /\ previews' = previews \cup
           {[stamp |-> <<now, tie>>, arg |-> arg, name |-> NameFor(arg, PreviewDefault),
             seating |-> verdict, files |-> file]}
    /\ UNCHANGED <<file, verdict, backups, job, now, commands, faults, crashes>>

(***************************************************************************)
(* safe_apply, step by step                                                *)
(***************************************************************************)

\* Drift check and preview of the files: nothing is written.
Check(p, arg, setState) ==
    /\ ~InFlight(p) /\ commands < MaxCommands
    /\ NoDrift /\ Readable(setState)
    /\ job' = [job EXCEPT ![p] = [Idle EXCEPT !.pc = "checked", !.arg = arg,
                   !.setState = setState, !.bound = LatestPreview, !.since = now]]
    /\ commands' = commands + 1
    /\ UNCHANGED <<file, verdict, previews, backups, now, faults, crashes>>

\* create_backup: the directory, under a name that is nobody else's, then the
\* hashes of the manifest.
MakeManifest(p, tie) ==
    /\ job[p].pc = "checked"
    /\ \A b \in backups : b.stamp # <<now, tie>>
    /\ \A q \in Procs : job[q].backup # <<now, tie>>
    /\ backups' = backups \cup
           {[stamp |-> <<now, tie>>, sealed |-> FALSE, hash |-> file,
             blob |-> [presets |-> Absent, state |-> Absent]]}
    /\ job' = [job EXCEPT ![p].pc = "hashed", ![p].backup = <<now, tie>>, ![p].base = file]
    /\ UNCHANGED <<file, verdict, previews, now, commands, faults, crashes>>

\* Mutant of Seal: the manifest is written without the copies.
SealWithoutCopies(p) ==
    /\ job[p].pc = "hashed"
    /\ backups' = {IF b \in OwnBackup(p) THEN [b EXCEPT !.sealed = TRUE] ELSE b : b \in backups}
    /\ job' = [job EXCEPT ![p] = IF OwnBackup(p) = {} THEN Idle ELSE [@ EXCEPT !.pc = "sealed"]]
    /\ UNCHANGED <<file, verdict, previews, now, commands, faults, crashes>>

\* The copies and the manifest file.  A directory another process has pruned
\* is an error that ends the apply before any write.
Seal(p) ==
    /\ job[p].pc = "hashed"
    /\ backups' = {IF b \in OwnBackup(p) THEN [b EXCEPT !.sealed = TRUE, !.blob = file] ELSE b
                       : b \in backups}
    /\ job' = [job EXCEPT ![p] = IF OwnBackup(p) = {} THEN Idle ELSE [@ EXCEPT !.pc = "sealed"]]
    /\ UNCHANGED <<file, verdict, previews, now, commands, faults, crashes>>

\* The prune at the end of create_backup.
PruneOwn(p) ==
    /\ job[p].pc = "sealed"
    /\ backups' = Kept(backups)
    /\ job' = [job EXCEPT ![p].pc = "ready"]
    /\ UNCHANGED <<file, verdict, previews, now, commands, faults, crashes>>

\* Mutant of Load: the file is opened before the seating is looked at.
LoadOpensFirst(p) ==
    /\ job[p].pc = "ready" /\ verdict = None
    /\ file' = [file EXCEPT !.presets = Torn]
    /\ job' = [job EXCEPT ![p] = Recovered(p)]
    /\ UNCHANGED <<verdict, previews, backups, now, commands, faults, crashes>>

\* apply: the seating is computed anew, the store is read; no seating or an
\* unreadable store is a failure, and the backup is put back.
Load(p) ==
    /\ job[p].pc = "ready"
    /\ IF verdict = None \/ file.presets = Torn
       THEN job' = [job EXCEPT ![p] = Recovered(p)]
       ELSE LET store == IF file.presets = Absent THEN EmptyStore ELSE file.presets
                entry == [to |-> "presets", content |-> [store EXCEPT ![JobName(p)] = verdict]]
                boot  == [to |-> "state", content |-> verdict]
            IN job' = [job EXCEPT ![p].pc = "write", ![p].seating = verdict,
                          ![p].plan = IF job[p].setState THEN <<entry, boot>> ELSE <<entry>>]
    /\ UNCHANGED <<file, verdict, previews, backups, now, commands, faults, crashes>>

Writing(p) == job[p].pc = "write" /\ job[p].plan # <<>>

\* Mutant of Target: every write goes to the presets file.
TargetPresets(p) == "presets"

Target(p) == Head(job[p].plan).to

\* Opening a file for writing truncates it.
Truncate(p) ==
    /\ Writing(p)
    /\ Head(job[p].plan).content # Absent
    /\ job[p].kind = "restore" => OwnBackup(p) # {}
    /\ file' = [file EXCEPT ![Target(p)] = Torn]
    /\ job' = Others(p, [job[p] EXCEPT !.pc = "fill", !.wrote = TRUE])
    /\ UNCHANGED <<verdict, previews, backups, now, commands, faults, crashes>>

Fill(p) ==
    /\ job[p].pc = "fill"
    /\ file' = [file EXCEPT ![Target(p)] = Head(job[p].plan).content]
    /\ job' = Others(p, [job[p] EXCEPT !.pc = "write", !.plan = Tail(@)])
    /\ UNCHANGED <<verdict, previews, backups, now, commands, faults, crashes>>

\* A restore that cannot write a file goes on to the next one.
NextFile(p) == [job[p] EXCEPT !.pc = "write", !.plan = Tail(@), !.skipped = TRUE]

\* The backup was pruned under the restore: the copy fails.
SkipMissing(p) ==
    /\ Writing(p) /\ job[p].kind = "restore"
    /\ Head(job[p].plan).content # Absent /\ OwnBackup(p) = {}
    /\ job' = [job EXCEPT ![p] = NextFile(p)]
    /\ UNCHANGED <<file, verdict, previews, backups, now, commands, faults, crashes>>

\* Mutant of Unlink: a file the apply created is left there.
UnlinkNothing(p) ==
    /\ Writing(p)
    /\ Head(job[p].plan).content = Absent
    /\ job' = Others(p, [job[p] EXCEPT !.plan = Tail(@)])
    /\ UNCHANGED <<file, verdict, previews, backups, now, commands, faults, crashes>>

\* A restore deletes a file that did not exist before.
Unlink(p) ==
    /\ Writing(p)
    /\ Head(job[p].plan).content = Absent
    /\ file' = [file EXCEPT ![Target(p)] = Absent]
    /\ job' = Others(p, [job[p] EXCEPT !.plan = Tail(@)])
    /\ UNCHANGED <<verdict, previews, backups, now, commands, faults, crashes>>

\* verify_written has no issue to report.
ReadBack(p) ==
    /\ file.presets \notin {Absent, Torn}
    /\ file.presets[JobName(p)] = job[p].seating
    /\ job[p].setState => file.state = job[p].seating

\* _consume_preview_records: the record an apply is bound to, and only that one; all of
\* them, those of others made since included, when it is bound to none.
Consumed(p) == IF job[p].bound = {} THEN previews ELSE job[p].bound

\* Read-back, and on success the preview records.
Verify(p) ==
    /\ job[p].kind = "apply" /\ job[p].pc = "write" /\ job[p].plan = <<>>
    /\ IF ReadBack(p)
       THEN /\ job' = [job EXCEPT ![p] = Idle]
            /\ previews' = previews \ Consumed(p)
       ELSE /\ job' = [job EXCEPT ![p] = Recovered(p)]
            /\ UNCHANGED previews
    /\ UNCHANGED <<file, verdict, backups, now, commands, faults, crashes>>

RestoreDone(p) ==
    /\ job[p].kind = "restore" /\ job[p].pc = "write" /\ job[p].plan = <<>>
    /\ job' = [job EXCEPT ![p] = Idle]
    /\ UNCHANGED <<file, verdict, previews, backups, now, commands, faults, crashes>>

\* An OSError: an apply turns to its backup, a restore goes on to the next file.
WriteFails(p) ==
    /\ Writing(p) \/ job[p].pc = "fill"
    /\ job[p].kind \in FaultyKinds /\ faults < MaxFaults
    /\ job' = [job EXCEPT ![p] = IF job[p].kind = "apply" THEN Recovered(p) ELSE NextFile(p)]
    /\ faults' = faults + 1
    /\ UNCHANGED <<file, verdict, previews, backups, now, commands, crashes>>

\* Between two steps of an apply the database may fail.
ReadFails(p) ==
    /\ job[p].pc = "ready" /\ "apply" \in FaultyKinds /\ faults < MaxFaults
    /\ job' = [job EXCEPT ![p] = Recovered(p)]
    /\ faults' = faults + 1
    /\ UNCHANGED <<file, verdict, previews, backups, now, commands, crashes>>

\* The process is killed; what it has written stays.
Crash(p) ==
    /\ InFlight(p) /\ crashes < MaxCrashes
    /\ job' = [job EXCEPT ![p] = Idle]
    /\ crashes' = crashes + 1
    /\ UNCHANGED <<file, verdict, previews, backups, now, commands, faults>>

(***************************************************************************)
(* apply-rollback, apply-prune, and the world                              *)
(***************************************************************************)

\* rollback: the same restore, of any backup that validates.
Rollback(p, b) ==
    /\ ~InFlight(p) /\ commands < MaxCommands
    /\ Valid(b)
    /\ job' = [job EXCEPT ![p] = [Idle EXCEPT !.kind = "restore", !.pc = "write",
                   !.backup = b.stamp, !.plan = RestorePlan(b), !.since = now,
                   !.base = file, !.goal = b.hash]]
    /\ commands' = commands + 1
    /\ UNCHANGED <<file, verdict, previews, backups, now, faults, crashes>>

Prune(p) ==
    /\ ~InFlight(p)
    /\ backups' = Kept(backups)
    /\ UNCHANGED <<file, verdict, previews, job, now, commands, faults, crashes>>

\* Another sweep ends, or a seat loses its models.
NewVerdict ==
    /\ verdict' \in Seatings \cup {None}
    /\ UNCHANGED <<file, previews, backups, job, now, commands, faults, crashes>>

Tick ==
    /\ now < MaxTime
    /\ \A p \in Procs : InFlight(p) => now < job[p].since + MaxAge
    /\ now' = now + 1
    /\ UNCHANGED <<file, verdict, previews, backups, job, commands, faults, crashes>>

Step(p) ==
    \/ \E tie \in Ties : MakeManifest(p, tie)
    \/ Seal(p) \/ PruneOwn(p) \/ Load(p) \/ Truncate(p) \/ Fill(p) \/ Unlink(p) \/ SkipMissing(p)
    \/ Verify(p) \/ RestoreDone(p) \/ WriteFails(p) \/ ReadFails(p)

Command(p) ==
    \/ \E arg \in Args, setState \in BOOLEAN : Check(p, arg, setState)
    \/ \E arg \in Args, setState \in BOOLEAN, tie \in Ties : Preview(p, arg, setState, tie)
    \/ \E b \in backups : Rollback(p, b)
    \/ Prune(p)

Next ==
    \/ \E p \in Procs : Command(p) \/ Step(p) \/ Crash(p)
    \/ NewVerdict \/ Tick

Spec == Init /\ [][Next]_vars
(***************************************************************************)
(* Properties                                                              *)
(***************************************************************************)
JobType ==
    [kind : {"apply", "restore"},
     pc : {"idle", "checked", "hashed", "sealed", "ready", "write", "fill"},
     arg : Args \cup {None}, setState : BOOLEAN, bound : SUBSET PreviewRecord,
     backup : Stamps \cup {None}, seating : Seatings \cup {None},
     plan : Seq(Writes), since : 0..MaxTime,
     base : Contents \cup {None}, goal : Contents \cup {None},
     wrote : BOOLEAN, intact : BOOLEAN, skipped : BOOLEAN]

\* The two files hold whole values or are Torn, records and backups are made of
\* such files, and a job's fields stay in their ranges.
TypeOK ==
    /\ file \in Contents
    /\ verdict \in Seatings \cup {None}
    /\ previews \subseteq PreviewRecord
    /\ backups \subseteq Backup
    /\ job \in [Procs -> JobType]
    /\ now \in 0..MaxTime /\ commands \in 0..MaxCommands
    /\ faults \in 0..MaxFaults /\ crashes \in 0..MaxCrashes

\* AUTO-RESTORE is possible: from the first truncation to the read-back, an
\* apply nobody interfered with has its own backup, it validates, and it
\* holds the files as they were.  A crash in between leaves it there.
UndoPossible ==
    \A p \in Procs :
        job[p].kind = "apply" /\ job[p].wrote /\ job[p].intact =>
            \E b \in OwnBackup(p) : Valid(b) /\ b.hash = job[p].base

\* A restore nobody interfered with, and whose writes did not fail, ends with
\* both files exactly as they were - files the apply created are gone.
RestoreIsExact ==
    \A p \in Procs :
        /\ job[p].kind = "restore" /\ job[p].pc = "write" /\ job[p].plan = <<>>
        /\ job[p].intact /\ ~job[p].skipped
        => file = job[p].goal

\* The files an undisturbed apply backs up and replaces are those that were
\* shown by the preview it is bound to, in both files, however many previews
\* and other commands came before.
PreviewBinds ==
    \A p \in Procs : \A r \in job[p].bound :
        job[p].pc \notin {"idle", "checked"} /\ job[p].intact => job[p].base = r.files

\* Pruning, by the command or by any apply, never takes the last backup that
\* can be restored.
RecoveryPointKept ==
    [][(\E b \in backups : Valid(b)) => (\E b \in backups' : Valid(b))]_vars

\* Retention: besides MaxBackups there are only the backups of applies that
\* have not pruned yet, or were killed before they could.
RetentionHolds ==
    Cardinality({b \in backups : b.sealed})
        <= MaxBackups + Cardinality({p \in Procs : job[p].pc = "sealed"}) + crashes

\* "nothing is left half-written": when every apply has ended, without a
\* crash or a failing write, both files are readable.
NothingTorn ==
    Quiet /\ crashes = 0 /\ faults = 0 => \A f \in Files : file[f] # Torn

(***************************************************************************)
(* What the code's own words promise and the code does not do              *)
(***************************************************************************)
Applied(p) == /\ job[p].kind = "apply" /\ job[p].pc = "write" /\ job[p].plan = <<>>
              /\ ReadBack(p)

\* "what was previewed must be applied": the preset an apply has written is
\* the one the preview it is bound to has shown, its name and its seating, when
\* both were given the same --preset.
PreviewedIsApplied ==
    \A p \in Procs : \A r \in job[p].bound :
        Applied(p) /\ job[p].arg = r.arg =>
            JobName(p) = r.name /\ job[p].seating = r.seating
=============================================================================
