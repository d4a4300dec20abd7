------------------------ MODULE FastDrawBridgeProofs ------------------------
(***************************************************************************)
(* Theorems about FastDrawBridge, for every number of hr processes, every  *)
(* set of preset names and seatings, and every bound.                      *)
(***************************************************************************)
EXTENDS FastDrawBridge, CountingLemmas, TLAPS, FiniteSetTheorems, SequenceTheorems

(***************************************************************************)
(* The shape of a job                                                      *)
(***************************************************************************)

\* A job that has not begun is a job.
LEMMA IdleType == Idle \in JobType
  <1>1. 0 \in 0..MaxTime
    BY BridgeAssumption
  <1>2. <<>> \in Seq(Writes)
    OBVIOUS
  <1>3. QED
    BY <1>1, <1>2 DEF Idle, JobType

\* Changing one job, and telling the others, leaves a table of jobs.
LEMMA OthersType ==
    ASSUME job \in [Procs -> JobType], NEW p \in Procs, NEW mine \in JobType
    PROVE  Others(p, mine) \in [Procs -> JobType]
  <1>1. ASSUME NEW q \in Procs
        PROVE  [job[q] EXCEPT !.intact = FALSE] \in JobType
    BY ZenonT(30) DEF JobType
  <1>2. QED
    BY <1>1 DEF Others

\* What puts a backup back is a plan.
LEMMA RestorePlanType ==
    ASSUME NEW b \in Backup
    PROVE  RestorePlan(b) \in Seq(Writes)
  <1>1. /\ b.blob.presets \in Stores \cup {Absent, Torn}
        /\ b.blob.state \in Seatings \cup {None, Absent, Torn}
    BY DEF Backup, Contents
  <1> DEFINE back(f) == [to |-> f, content |-> IF b.hash[f] = Absent THEN Absent ELSE b.blob[f]]
  <1>2. back("presets") \in Writes /\ back("state") \in Writes
    BY <1>1 DEF Writes
  <1>3. RestorePlan(b) = <<back("presets"), back("state")>>
    BY DEF RestorePlan
  <1> HIDE DEF back
  <1>4. QED
    BY <1>2, <1>3

\* The job an apply goes on with when it fails is a job.
LEMMA RecoveredType ==
    ASSUME backups \subseteq Backup, job \in [Procs -> JobType], NEW p \in Procs
    PROVE  Recovered(p) \in JobType
  <1>1. CASE \E b \in OwnBackup(p) : Valid(b)
    <2> DEFINE b == CHOOSE own \in OwnBackup(p) : Valid(own)
    <2>1. b \in Backup
      BY <1>1 DEF OwnBackup
    <2>2. RestorePlan(b) \in Seq(Writes)
      BY <2>1, RestorePlanType
    <2>3. Recovered(p) = [job[p] EXCEPT !.kind = "restore", !.pc = "write",
                              !.plan = RestorePlan(b), !.goal = job[p].base]
      BY <1>1 DEF Recovered
    <2>4. job[p] \in JobType
      OBVIOUS
    <2>5. job[p].base \in Contents \cup {None}
      BY <2>4 DEF JobType
    <2> DEFINE plan == RestorePlan(b)
               goal == job[p].base
               j == job[p]
    <2> HIDE DEF b, plan, goal, j
    <2>6. [j EXCEPT !.kind = "restore", !.pc = "write", !.plan = plan, !.goal = goal] \in JobType
      BY <2>2, <2>4, <2>5 DEF JobType, plan, goal, j
    <2>7. QED
      BY <2>3, <2>6 DEF plan, goal, j
  <1>2. CASE ~ \E b \in OwnBackup(p) : Valid(b)
    BY <1>2, IdleType DEF Recovered
  <1>3. QED
    BY <1>1, <1>2

\* The first write of a plan, and the rest of it.
LEMMA PlanSteps ==
    ASSUME NEW plan \in Seq(Writes), plan # <<>>
    PROVE  Head(plan) \in Writes /\ Tail(plan) \in Seq(Writes)
  BY HeadTailProperties

\* A restore that leaves a file out is still a job.
LEMMA NextFileType ==
    ASSUME NEW p \in Procs, job[p] \in JobType, Tail(job[p].plan) \in Seq(Writes)
    PROVE  NextFile(p) \in JobType
  <1> DEFINE j == job[p]
             rest == Tail(job[p].plan)
  <1>1. NextFile(p) = [j EXCEPT !.pc = "write", !.plan = rest, !.skipped = TRUE]
    BY DEF NextFile, JobType
  <1> HIDE DEF j, rest
  <1>2. j \in JobType /\ rest \in Seq(Writes)
    BY DEF j, rest
  <1>3. QED
    BY <1>1, <1>2 DEF JobType

\* Writing what a plan says, or truncating, leaves two files.
LEMMA FileUpdate ==
    ASSUME file \in Contents, NEW w \in Writes
    PROVE  /\ [file EXCEPT ![w.to] = w.content] \in Contents
           /\ [file EXCEPT ![w.to] = Torn] \in Contents
           /\ [file EXCEPT ![w.to] = Absent] \in Contents
  BY DEF Contents, Writes

(***************************************************************************)
(* Type correctness                                                        *)
(***************************************************************************)

\* A job that has truncated a file knows what to fill it with; a restore
\* begins with its first write.
JobInv ==
    \A p \in Procs :
        /\ job[p].pc = "fill" => job[p].plan # <<>>
        /\ job[p].kind = "restore" => job[p].pc \in {"write", "fill"}

\* Every step keeps the types.
LEMMA TypeStep == TypeOK /\ JobInv /\ [Next]_vars => TypeOK'
  <1> SUFFICES ASSUME TypeOK, JobInv, [Next]_vars
               PROVE  TypeOK'
    OBVIOUS
  <1> TypeOK
    OBVIOUS
  <1>a. /\ file \in Contents /\ backups \subseteq Backup /\ previews \subseteq PreviewRecord
        /\ job \in [Procs -> JobType] /\ verdict \in Seatings \cup {None}
        /\ now \in 0..MaxTime /\ commands \in 0..MaxCommands
        /\ faults \in 0..MaxFaults /\ crashes \in 0..MaxCrashes
    BY DEF TypeOK
  <1>b. ASSUME NEW tie \in Ties
        PROVE  <<now, tie>> \in Stamps
    BY <1>a, <1>b DEF Stamps
  <1>1. ASSUME NEW p \in Procs, NEW arg \in Args, NEW setState \in BOOLEAN,
               Check(p, arg, setState)
        PROVE  TypeOK'
    <2> DEFINE begun == [Idle EXCEPT !.pc = "checked", !.arg = arg, !.setState = setState,
                             !.bound = LatestPreview, !.since = now]
    <2>1. LatestPreview \in SUBSET PreviewRecord
      BY <1>a DEF LatestPreview
    <2>2. begun \in JobType
      BY <1>a, <2>1, IdleType DEF JobType
    <2>3. commands' \in 0..MaxCommands
      BY <1>a, <1>1, BridgeAssumption DEF Check
    <2> HIDE DEF begun
    <2>4. job' \in [Procs -> JobType]
      BY <1>a, <1>1, <2>2 DEF Check, begun
    <2>5. QED
      BY <1>a, <1>1, <2>3, <2>4 DEF Check, TypeOK
  <1>2. ASSUME NEW p \in Procs, NEW arg \in Args, NEW setState \in BOOLEAN, NEW tie \in Ties,
               Preview(p, arg, setState, tie)
        PROVE  TypeOK'
    <2>1. NameFor(arg, PreviewDefault) \in Names
      BY BridgeAssumption DEF NameFor
    <2>2. [stamp |-> <<now, tie>>, arg |-> arg, name |-> NameFor(arg, PreviewDefault),
           seating |-> verdict, files |-> file] \in PreviewRecord
      BY <1>a, <1>b, <2>1 DEF PreviewRecord
    <2>3. QED
      BY <1>a, <1>2, <2>2 DEF Preview, TypeOK
  <1>3. ASSUME NEW p \in Procs, NEW b \in backups, Rollback(p, b)
        PROVE  TypeOK'
    <2>1. b \in Backup /\ b.stamp \in Stamps /\ b.hash \in Contents
      BY <1>a DEF Backup
    <2>2. RestorePlan(b) \in Seq(Writes)
      BY <2>1, RestorePlanType
    <2> DEFINE plan == RestorePlan(b)
               begun == [Idle EXCEPT !.kind = "restore", !.pc = "write", !.backup = b.stamp,
                             !.plan = plan, !.since = now, !.base = file, !.goal = b.hash]
    <2> HIDE DEF plan
    <2>3. begun \in JobType
      BY <1>a, <2>1, <2>2, IdleType DEF JobType, plan
    <2>4. commands' \in 0..MaxCommands
      BY <1>a, <1>3, BridgeAssumption DEF Rollback
    <2>5. job' = [job EXCEPT ![p] = begun]
      BY <1>3 DEF Rollback, plan
    <2> HIDE DEF begun
    <2>6. job' \in [Procs -> JobType]
      BY <1>a, <2>3, <2>5
    <2>7. QED
      BY <1>a, <1>3, <2>4, <2>6 DEF Rollback, TypeOK
  <1>4. ASSUME NEW p \in Procs, Prune(p)
        PROVE  TypeOK'
    BY <1>a, <1>4 DEF Prune, Kept, TypeOK
  <1>5. ASSUME NEW p \in Procs, NEW tie \in Ties, MakeManifest(p, tie)
        PROVE  TypeOK'
    <2> DEFINE made == [stamp |-> <<now, tie>>, sealed |-> FALSE, hash |-> file,
                        blob |-> [presets |-> Absent, state |-> Absent]]
    <2>1. made \in Backup
      BY <1>a, <1>b DEF Backup, Contents
    <2>2. job' = [job EXCEPT ![p] = [@ EXCEPT !.pc = "hashed", !.backup = <<now, tie>>, !.base = file]]
      BY <1>5, <1>a DEF MakeManifest
    <2> DEFINE j == job[p]
               stamp == <<now, tie>>
    <2>3. [j EXCEPT !.pc = "hashed", !.backup = stamp, !.base = file] \in JobType
      <3>1. j \in JobType /\ stamp \in Stamps
        BY <1>a, <1>b
      <3> HIDE DEF j, stamp
      <3>2. QED
        BY <1>a, <3>1 DEF JobType
    <2>4. job' \in [Procs -> JobType]
      BY <1>a, <2>2, <2>3
    <2> HIDE DEF made, j, stamp
    <2>5. backups' \subseteq Backup
      BY <1>a, <1>5, <2>1 DEF MakeManifest, made
    <2>6. QED
      BY <1>a, <1>5, <2>4, <2>5 DEF MakeManifest, TypeOK
  <1>6. ASSUME NEW p \in Procs, Seal(p)
        PROVE  TypeOK'
    <2>1. \A b \in Backup : [b EXCEPT !.sealed = TRUE, !.blob = file] \in Backup
      BY <1>a DEF Backup
    <2>2. backups' \subseteq Backup
      BY <1>a, <1>6, <2>1 DEF Seal
    <2>3. job[p] \in JobType
      BY <1>a
    <2>4. [job[p] EXCEPT !.pc = "sealed"] \in JobType
      BY <2>3 DEF JobType
    <2>5. job' \in [Procs -> JobType]
      BY <1>a, <1>6, <2>4, IdleType DEF Seal
    <2>6. QED
      BY <1>a, <1>6, <2>2, <2>5 DEF Seal, TypeOK
  <1>7. ASSUME NEW p \in Procs, PruneOwn(p)
        PROVE  TypeOK'
    <2>1. job[p] \in JobType
      BY <1>a
    <2>2. [job[p] EXCEPT !.pc = "ready"] \in JobType
      BY <2>1 DEF JobType
    <2>3. job' \in [Procs -> JobType]
      BY <1>a, <1>7, <2>2 DEF PruneOwn
    <2>4. QED
      BY <1>a, <1>7, <2>3 DEF PruneOwn, Kept, TypeOK
  <1>8. ASSUME NEW p \in Procs, Load(p)
        PROVE  TypeOK'
    <2> DEFINE store == IF file.presets = Absent THEN EmptyStore ELSE file.presets
               entry == [to |-> "presets", content |-> [store EXCEPT ![JobName(p)] = verdict]]
               boot  == [to |-> "state", content |-> verdict]
               plan  == IF job[p].setState THEN <<entry, boot>> ELSE <<entry>>
    <2>1. CASE verdict = None \/ file.presets = Torn
      BY <1>a, <1>8, <2>1, RecoveredType DEF Load, TypeOK
    <2>2. CASE ~ (verdict = None \/ file.presets = Torn)
      <3>1. store \in Stores
        BY <1>a, <2>2 DEF Contents, Stores, EmptyStore
      <3>2. verdict \in Seatings
        BY <1>a, <2>2
      <3>3. [store EXCEPT ![JobName(p)] = verdict] \in Stores
        BY <3>1, <3>2 DEF Stores
      <3>4. entry \in Writes /\ boot \in Writes
        BY <3>2, <3>3 DEF Writes
      <3> HIDE DEF entry, boot
      <3>5. plan \in Seq(Writes)
        BY <3>4
      <3> HIDE DEF plan
      <3>6. job[p] \in JobType
        BY <1>a
      <3> DEFINE j == job[p]
      <3>7. [j EXCEPT !.pc = "write", !.seating = verdict, !.plan = plan] \in JobType
        <4> HIDE DEF j
        <4>1. j \in JobType
          BY <3>6 DEF j
        <4>2. QED
          BY <1>a, <3>5, <4>1 DEF JobType
      <3>8. job' = [job EXCEPT ![p] = [j EXCEPT !.pc = "write", !.seating = verdict, !.plan = plan]]
        BY <1>a, <1>8, <2>2 DEF Load, plan, entry, boot
      <3>9. job' \in [Procs -> JobType]
        BY <1>a, <3>7, <3>8
      <3>10. QED
        BY <1>a, <1>8, <3>9 DEF Load, TypeOK
    <2>3. QED
      BY <2>1, <2>2
  <1>9. ASSUME NEW p \in Procs, Writing(p) \/ job[p].pc = "fill"
        PROVE  /\ Head(job[p].plan) \in Writes /\ Tail(job[p].plan) \in Seq(Writes)
               /\ job[p] \in JobType
    <2>1. job[p] \in JobType
      BY <1>a
    <2>2. job[p].plan \in Seq(Writes) /\ job[p].plan # <<>>
      BY <1>9, <2>1 DEF JobType, Writing, JobInv
    <2>3. QED
      BY <2>1, <2>2, PlanSteps
  <1>10. ASSUME NEW p \in Procs, Truncate(p)
         PROVE  TypeOK'
    <2>1. file' \in Contents
      BY <1>a, <1>9, <1>10, FileUpdate DEF Truncate, Target
    <2>2. [job[p] EXCEPT !.pc = "fill", !.wrote = TRUE] \in JobType
      BY <1>9, <1>10, ZenonT(30) DEF Truncate, JobType
    <2>3. job' \in [Procs -> JobType]
      BY <1>a, <1>10, <2>2, OthersType DEF Truncate
    <2>4. QED
      BY <1>a, <1>10, <2>1, <2>3 DEF Truncate, TypeOK
  <1>11. ASSUME NEW p \in Procs, Fill(p)
         PROVE  TypeOK'
    <2>1. file' \in Contents
      BY <1>a, <1>9, <1>11, FileUpdate DEF Fill, Target
    <2>2. job[p] \in JobType /\ Tail(job[p].plan) \in Seq(Writes)
      BY <1>9, <1>11 DEF Fill
    <2> DEFINE j == job[p]
               rest == Tail(job[p].plan)
               filled == [j EXCEPT !.pc = "write", !.plan = rest]
    <2>3. filled \in JobType
      <3>1. j \in JobType /\ rest \in Seq(Writes)
        BY <2>2
      <3> HIDE DEF j, rest
      <3>2. QED
        BY <3>1 DEF JobType
    <2>4. job' = Others(p, filled)
      BY <1>11, <2>2 DEF Fill, JobType
    <2> HIDE DEF filled
    <2>5. job' \in [Procs -> JobType]
      BY <1>a, <2>3, <2>4, OthersType
    <2>6. QED
      BY <1>a, <1>11, <2>1, <2>5 DEF Fill, TypeOK
  <1>12. ASSUME NEW p \in Procs, SkipMissing(p)
         PROVE  TypeOK'
    <2>1. NextFile(p) \in JobType
      BY <1>9, <1>12, NextFileType DEF SkipMissing
    <2>2. QED
      BY <1>a, <1>12, <2>1 DEF SkipMissing, TypeOK
  <1>13. ASSUME NEW p \in Procs, Unlink(p)
         PROVE  TypeOK'
    <2>1. file' \in Contents
      BY <1>a, <1>9, <1>13, FileUpdate DEF Unlink, Target
    <2>2. job[p] \in JobType /\ Tail(job[p].plan) \in Seq(Writes)
      BY <1>9, <1>13 DEF Unlink
    <2> DEFINE j == job[p]
               rest == Tail(job[p].plan)
               done == [j EXCEPT !.plan = rest]
    <2>3. done \in JobType
      <3>1. j \in JobType /\ rest \in Seq(Writes)
        BY <2>2
      <3> HIDE DEF j, rest
      <3>2. QED
        BY <3>1 DEF JobType
    <2>4. job' = Others(p, done)
      BY <1>13, <2>2 DEF Unlink, JobType
    <2> HIDE DEF done
    <2>5. job' \in [Procs -> JobType]
      BY <1>a, <2>3, <2>4, OthersType
    <2>6. QED
      BY <1>a, <1>13, <2>1, <2>5 DEF Unlink, TypeOK
  <1>14. ASSUME NEW p \in Procs, Verify(p)
         PROVE  TypeOK'
    <2>1. previews' \subseteq PreviewRecord
      BY <1>a, <1>14 DEF Verify
    <2>2. \/ job' = [job EXCEPT ![p] = Idle]
          \/ job' = [job EXCEPT ![p] = Recovered(p)]
      BY <1>14 DEF Verify
    <2>3. job' \in [Procs -> JobType]
      BY <1>a, <2>2, IdleType, RecoveredType
    <2>4. QED
      BY <1>a, <1>14, <2>1, <2>3 DEF Verify, TypeOK
  <1>15. ASSUME NEW p \in Procs, RestoreDone(p)
         PROVE  TypeOK'
    BY <1>a, <1>15, IdleType DEF RestoreDone, TypeOK
  <1>16. ASSUME NEW p \in Procs, WriteFails(p)
         PROVE  TypeOK'
    <2>1. NextFile(p) \in JobType
      BY <1>9, <1>16, NextFileType DEF WriteFails
    <2>2. job' \in [Procs -> JobType]
      BY <1>a, <1>16, <2>1, RecoveredType DEF WriteFails
    <2>3. faults' \in 0..MaxFaults
      BY <1>a, <1>16, BridgeAssumption DEF WriteFails
    <2>4. QED
      BY <1>a, <1>16, <2>2, <2>3 DEF WriteFails, TypeOK
  <1>17. ASSUME NEW p \in Procs, ReadFails(p)
         PROVE  TypeOK'
    <2>1. faults' \in 0..MaxFaults
      BY <1>a, <1>17, BridgeAssumption DEF ReadFails
    <2>2. QED
      BY <1>a, <1>17, <2>1, RecoveredType DEF ReadFails, TypeOK
  <1>18. ASSUME NEW p \in Procs, Crash(p)
         PROVE  TypeOK'
    <2>1. crashes' \in 0..MaxCrashes
      BY <1>a, <1>18, BridgeAssumption DEF Crash
    <2>2. QED
      BY <1>a, <1>18, <2>1, IdleType DEF Crash, TypeOK
  <1>19. CASE NewVerdict
    BY <1>a, <1>19 DEF NewVerdict, TypeOK
  <1>20. CASE Tick
    <2>1. now' \in 0..MaxTime
      BY <1>a, <1>20, BridgeAssumption DEF Tick
    <2>2. QED
      BY <1>a, <1>20, <2>1 DEF Tick, TypeOK
  <1>21. CASE UNCHANGED vars
    BY <1>a, <1>21 DEF vars, TypeOK
  <1>22. QED
    BY <1>1, <1>2, <1>3, <1>4, <1>5, <1>6, <1>7, <1>8, <1>10, <1>11, <1>12, <1>13, <1>14,
       <1>15, <1>16, <1>17, <1>18, <1>19, <1>20, <1>21 DEF Next, Command, Step

(***************************************************************************)
(* What a step of one process is to the others                             *)
(***************************************************************************)

\* Nothing happens to a job but that it may be told of a write; one that is
\* not told is under no other files than before.
Same(q) ==
    /\ job'[q].kind = job[q].kind /\ job'[q].pc = job[q].pc
    /\ job'[q].plan = job[q].plan /\ job'[q].bound = job[q].bound
    /\ job'[q].base = job[q].base /\ job'[q].goal = job[q].goal
    /\ job'[q].backup = job[q].backup /\ job'[q].since = job[q].since
    /\ job'[q].skipped = job[q].skipped /\ job'[q].wrote = job[q].wrote
    /\ job'[q].intact => job[q].intact /\ (InFlight(q) => file' = file)

\* A step of one process leaves the jobs of the others alone.
LEMMA OthersSame ==
    ASSUME job \in [Procs -> JobType], NEW p \in Procs, Command(p) \/ Step(p) \/ Crash(p),
           NEW q \in Procs, q # p
    PROVE  Same(q)
  <1>1. CASE job'[q] = job[q] /\ file' = file
    BY <1>1 DEF Same
  <1>2. CASE job'[q] = IF InFlight(q) THEN [job[q] EXCEPT !.intact = FALSE] ELSE job[q]
    <2>1. job[q] \in JobType
      OBVIOUS
    <2>2. CASE InFlight(q)
      BY <1>2, <2>1, <2>2 DEF Same, JobType
    <2>3. CASE ~InFlight(q)
      BY <1>2, <2>3 DEF Same
    <2>4. QED
      BY <2>2, <2>3
  <1>3. CASE Truncate(p)
    BY <1>2, <1>3 DEF Truncate, Others
  <1>4. CASE Fill(p)
    BY <1>2, <1>4 DEF Fill, Others
  <1>5. CASE Unlink(p)
    BY <1>2, <1>5 DEF Unlink, Others
  <1>6. CASE Command(p) \/ Crash(p)
    BY <1>1, <1>6 DEF Command, Check, Preview, Rollback, Prune, Crash
  <1>7. CASE \/ \E tie \in Ties : MakeManifest(p, tie)
             \/ Seal(p) \/ PruneOwn(p) \/ Load(p) \/ SkipMissing(p) \/ Verify(p)
             \/ RestoreDone(p) \/ WriteFails(p) \/ ReadFails(p)
    BY <1>1, <1>7 DEF MakeManifest, Seal, PruneOwn, Load, SkipMissing, Verify,
       RestoreDone, WriteFails, ReadFails
  <1>8. QED
    BY <1>3, <1>4, <1>5, <1>6, <1>7 DEF Step

\* A failing apply ends, or becomes a restore that is about to write.
LEMMA RecoveredShape ==
    ASSUME job \in [Procs -> JobType], NEW p \in Procs
    PROVE  \/ Recovered(p) = Idle
           \/ \E b \in OwnBackup(p) :
                  /\ Valid(b)
                  /\ Recovered(p) = [job[p] EXCEPT !.kind = "restore", !.pc = "write",
                                         !.plan = RestorePlan(b), !.goal = job[p].base]
  <1>1. CASE \E b \in OwnBackup(p) : Valid(b)
    <2> DEFINE own == CHOOSE b \in OwnBackup(p) : Valid(b)
    <2>1. own \in OwnBackup(p) /\ Valid(own)
      BY <1>1
    <2>2. Recovered(p) = [job[p] EXCEPT !.kind = "restore", !.pc = "write",
                              !.plan = RestorePlan(own), !.goal = job[p].base]
      BY <1>1 DEF Recovered
    <2> HIDE DEF own
    <2>3. QED
      BY <2>1, <2>2
  <1>2. CASE ~ \E b \in OwnBackup(p) : Valid(b)
    BY <1>2 DEF Recovered
  <1>3. QED
    BY <1>1, <1>2

\* The same, field by field.
LEMMA RecoveredFields ==
    ASSUME job \in [Procs -> JobType], NEW p \in Procs
    PROVE  \/ Recovered(p) = Idle
           \/ /\ Recovered(p).kind = "restore" /\ Recovered(p).pc = "write"
              /\ Recovered(p).goal = job[p].base
              /\ Recovered(p).bound = job[p].bound /\ Recovered(p).base = job[p].base
              /\ Recovered(p).intact = job[p].intact /\ Recovered(p).since = job[p].since
              /\ \E b \in OwnBackup(p) : Valid(b) /\ Recovered(p).plan = RestorePlan(b)
  <1>1. job[p] \in JobType
    OBVIOUS
  <1>2. CASE Recovered(p) = Idle
    BY <1>2
  <1>3. ASSUME NEW b \in OwnBackup(p), Valid(b),
               Recovered(p) = [job[p] EXCEPT !.kind = "restore", !.pc = "write",
                                   !.plan = RestorePlan(b), !.goal = job[p].base]
        PROVE  /\ Recovered(p).kind = "restore" /\ Recovered(p).pc = "write"
               /\ Recovered(p).goal = job[p].base
               /\ Recovered(p).bound = job[p].bound /\ Recovered(p).base = job[p].base
               /\ Recovered(p).intact = job[p].intact /\ Recovered(p).since = job[p].since
               /\ Recovered(p).plan = RestorePlan(b)
    BY <1>1, <1>3 DEF JobType
  <1>4. QED
    BY <1>2, <1>3, RecoveredShape

\* A job keeps its shape.
LEMMA JobStep == TypeOK /\ JobInv /\ [Next]_vars => JobInv'
  <1> SUFFICES ASSUME TypeOK, JobInv, [Next]_vars, NEW q \in Procs
               PROVE  /\ job'[q].pc = "fill" => job'[q].plan # <<>>
                      /\ job'[q].kind = "restore" => job'[q].pc \in {"write", "fill"}
    BY DEF JobInv
  <1>a. job \in [Procs -> JobType] /\ job[q] \in JobType
    BY DEF TypeOK
  <1>b. /\ job[q].pc = "fill" => job[q].plan # <<>>
        /\ job[q].kind = "restore" => job[q].pc \in {"write", "fill"}
    BY DEF JobInv
  <1>1. CASE job'[q] = job[q]
    BY <1>1, <1>b
  <1>2. ASSUME NEW p \in Procs, p # q, Command(p) \/ Step(p) \/ Crash(p)
        PROVE  job'[q].pc = job[q].pc /\ job'[q].plan = job[q].plan /\ job'[q].kind = job[q].kind
    BY <1>a, <1>2, OthersSame DEF Same
  <1>3. CASE job'[q] = Idle
    BY <1>3 DEF Idle
  <1>4. CASE job'[q] = Recovered(q)
    BY <1>a, <1>3, <1>4, RecoveredFields
  <1>5. CASE Command(q)
    <2>1. ASSUME NEW arg \in Args, NEW setState \in BOOLEAN, Check(q, arg, setState)
          PROVE  job'[q].pc = "checked" /\ job'[q].kind = "apply"
      BY <1>a, <2>1 DEF Check, Idle
    <2>2. ASSUME NEW b \in backups, Rollback(q, b)
          PROVE  job'[q].pc = "write" /\ job'[q].kind = "restore"
      BY <1>a, <2>2 DEF Rollback, Idle
    <2>3. QED
      BY <1>1, <1>5, <2>1, <2>2 DEF Command, Preview, Prune
  <1>6. CASE \E tie \in Ties : MakeManifest(q, tie)
    BY <1>a, <1>b, <1>6 DEF MakeManifest, JobType
  <1>7. CASE Seal(q) \/ PruneOwn(q)
    <2> DEFINE j == job[q]
    <2>1. j \in JobType
      BY <1>a
    <2>2. \/ job'[q] = Idle
          \/ job'[q] = [j EXCEPT !.pc = "sealed"]
          \/ job'[q] = [j EXCEPT !.pc = "ready"]
      BY <1>a, <1>7 DEF Seal, PruneOwn
    <2>3. j.kind = "apply"
      BY <1>a, <1>b, <1>7 DEF Seal, PruneOwn, JobType
    <2> HIDE DEF j
    <2>4. /\ [j EXCEPT !.pc = "sealed"].pc = "sealed" /\ [j EXCEPT !.pc = "sealed"].kind = j.kind
          /\ [j EXCEPT !.pc = "ready"].pc = "ready" /\ [j EXCEPT !.pc = "ready"].kind = j.kind
      BY <2>1 DEF JobType
    <2>5. job'[q] = Idle \/ (job'[q].pc \in {"sealed", "ready"} /\ job'[q].kind = "apply")
      BY <2>2, <2>3, <2>4
    <2>6. QED
      BY <1>3, <2>5
  <1>8. CASE Load(q)
    BY <1>a, <1>b, <1>4, <1>8 DEF Load, JobType
  <1>9. CASE Truncate(q)
    BY <1>a, <1>9 DEF Truncate, Others, Writing, JobType
  <1>10. CASE Fill(q) \/ Unlink(q)
    <2>1. job'[q].pc = "write"
      BY <1>a, <1>10, ZenonT(30) DEF Fill, Unlink, Writing, Others, JobType
    <2>2. QED
      BY <2>1
  <1>11. CASE job'[q] = NextFile(q)
    <2>1. job'[q].pc = "write"
      BY <1>a, <1>11 DEF NextFile, JobType
    <2>2. QED
      BY <2>1
  <1>12. CASE SkipMissing(q) \/ RestoreDone(q) \/ Crash(q)
    BY <1>a, <1>3, <1>11, <1>12 DEF SkipMissing, RestoreDone, Crash
  <1>13. CASE Verify(q) \/ WriteFails(q) \/ ReadFails(q)
    BY <1>a, <1>3, <1>4, <1>11, <1>13 DEF Verify, WriteFails, ReadFails
  <1>14. CASE NewVerdict \/ Tick \/ UNCHANGED vars
    BY <1>1, <1>14 DEF NewVerdict, Tick, vars
  <1>15. QED
    BY <1>b, <1>2, <1>5, <1>6, <1>7, <1>8, <1>9, <1>10, <1>12, <1>13, <1>14 DEF Next, Step

\* It begins well.
LEMMA InitTyped == Init => TypeOK /\ JobInv
  <1> SUFFICES ASSUME Init
               PROVE  TypeOK /\ JobInv
    OBVIOUS
  <1>1. file \in Contents
    BY DEF Init, Contents, Stores, EmptyStore
  <1>2. job \in [Procs -> JobType]
    BY IdleType DEF Init
  <1>3. JobInv
    BY DEF Init, JobInv, Idle
  <1>4. QED
    BY <1>1, <1>2, <1>3, BridgeAssumption DEF Init, TypeOK

\* The jobs and the files are well-typed in every reachable state, whatever
\* is killed, fails or runs at once.
THEOREM TypeCorrect == Spec => []TypeOK
  <1>1. TypeOK /\ JobInv /\ [Next]_vars => (TypeOK /\ JobInv)'
    BY TypeStep, JobStep
  <1>2. QED
    BY <1>1, InitTyped, PTL DEF Spec

(***************************************************************************)
(* Why a restore is exact: the backup a job calls its own holds the files  *)
(* the job found, a restore's plan is what is left to put back of them,    *)
(* and what is not in the plan any more is back.                           *)
(***************************************************************************)

\* The backup a job made holds the files it found.
OwnOK(p) ==
    job[p].kind = "apply" /\ job[p].pc \notin {"idle", "checked"} =>
        /\ job[p].base \in Contents
        /\ \A b \in OwnBackup(p) : b.hash = job[p].base

Back(goal, f) == [to |-> f, content |-> goal[f]]
FullPlan(goal) == <<Back(goal, "presets"), Back(goal, "state")>>
HalfPlan(goal) == <<Back(goal, "state")>>

PlanOK(p) ==
    job[p].kind = "restore" =>
        /\ job[p].goal \in Contents
        /\ job[p].plan \in {FullPlan(job[p].goal), HalfPlan(job[p].goal), <<>>}
        /\ job[p].intact /\ ~job[p].skipped =>
               /\ job[p].plan # FullPlan(job[p].goal) => file.presets = job[p].goal.presets
               /\ job[p].plan = <<>> => file.state = job[p].goal.state

RestoreInv == \A p \in Procs : OwnOK(p) /\ PlanOK(p)

\* The plans of a restore.
LEMMA Plans ==
    ASSUME NEW goal
    PROVE  /\ FullPlan(goal) # HalfPlan(goal) /\ FullPlan(goal) # <<>> /\ HalfPlan(goal) # <<>>
           /\ Head(FullPlan(goal)) = Back(goal, "presets") /\ Tail(FullPlan(goal)) = HalfPlan(goal)
           /\ Head(HalfPlan(goal)) = Back(goal, "state") /\ Tail(HalfPlan(goal)) = <<>>
  <1> DEFINE x == Back(goal, "presets")
             y == Back(goal, "state")
  <1> HIDE DEF x, y
  <1>1. Len(<<x, y>>) = 2 /\ Len(<<y>>) = 1
    OBVIOUS
  <1>2. <<x, y>> # <<y>> /\ <<x, y>> # <<>> /\ <<y>> # <<>>
    BY <1>1
  <1>3. Head(<<x, y>>) = x /\ Tail(<<x, y>>) = <<y>> /\ Head(<<y>>) = y /\ Tail(<<y>>) = <<>>
    OBVIOUS
  <1>4. QED
    BY <1>2, <1>3 DEF x, y, FullPlan, HalfPlan

\* A backup that validates is put back as its manifest says.
LEMMA ValidPlan ==
    ASSUME NEW b \in Backup, Valid(b)
    PROVE  RestorePlan(b) = FullPlan(b.hash)
  <1>1. \A f \in Files : (IF b.hash[f] = Absent THEN Absent ELSE b.blob[f]) = b.hash[f]
    BY DEF Valid
  <1>2. QED
    BY <1>1 DEF RestorePlan, FullPlan, Back, Files

\* Whatever is done to the backups, those of a name a job holds are the ones
\* that had it, with the same manifest.
LEMMA BackupsKept ==
    ASSUME backups \subseteq Backup, job \in [Procs -> JobType], Next,
           NEW q \in Procs, NEW c \in backups', c.stamp = job[q].backup
    PROVE  \E b \in backups : b.stamp = c.stamp /\ b.hash = c.hash
  <1>1. CASE c \in backups
    BY <1>1
  <1>2. CASE backups' \subseteq backups
    BY <1>2
  <1>3. ASSUME NEW p \in Procs, NEW tie \in Ties, MakeManifest(p, tie)
        PROVE  c \in backups
    <2>1. job[q].backup # <<now, tie>>
      BY <1>3 DEF MakeManifest
    <2>2. QED
      BY <1>3, <2>1 DEF MakeManifest
  <1>4. ASSUME NEW p \in Procs, Seal(p)
        PROVE  \E b \in backups : b.stamp = c.stamp /\ b.hash = c.hash
    <2>1. \A b \in backups : LET s == [b EXCEPT !.sealed = TRUE, !.blob = file]
                             IN  s.stamp = b.stamp /\ s.hash = b.hash
      BY DEF Backup
    <2>2. PICK b \in backups : c = IF b \in OwnBackup(p)
                                   THEN [b EXCEPT !.sealed = TRUE, !.blob = file] ELSE b
      BY <1>4 DEF Seal
    <2>3. QED
      BY <2>1, <2>2
  <1>5. QED
    BY <1>2, <1>3, <1>4, ZenonT(30) DEF Next, Command, Step, Check, Preview, Rollback, Prune, PruneOwn, Load,
       Truncate, Fill, Unlink, SkipMissing, Verify, RestoreDone, WriteFails, ReadFails, Crash,
       NewVerdict, Tick, Kept


\* An apply whose backup and files of before are what they were still has
\* them in its backup.
LEMMA OwnStays ==
    ASSUME TypeOK, Next, NEW q \in Procs, OwnOK(q),
           job'[q].kind = "apply" /\ job'[q].pc \notin {"idle", "checked"} =>
               /\ job[q].kind = "apply" /\ job[q].pc \notin {"idle", "checked"}
               /\ job'[q].base = job[q].base /\ job'[q].backup = job[q].backup
    PROVE  OwnOK(q)'
  <1> SUFFICES ASSUME job'[q].kind = "apply", job'[q].pc \notin {"idle", "checked"}
               PROVE  /\ job'[q].base \in Contents
                      /\ \A c \in backups' : c.stamp = job'[q].backup => c.hash = job'[q].base
    BY DEF OwnOK, OwnBackup
  <1>1. job[q].base \in Contents /\ (\A b \in OwnBackup(q) : b.hash = job[q].base)
    BY DEF OwnOK
  <1>2. ASSUME NEW c \in backups', c.stamp = job'[q].backup
        PROVE  c.hash = job'[q].base
    <2>1. PICK b \in backups : b.stamp = c.stamp /\ b.hash = c.hash
      BY <1>2, BackupsKept DEF TypeOK
    <2>2. QED
      BY <1>1, <1>2, <2>1 DEF OwnBackup
  <1>3. QED
    BY <1>1, <1>2

\* A job that begins or goes on with all of a backup has nothing to show yet.
LEMMA FullPlanOK ==
    ASSUME NEW q \in Procs, job'[q].goal \in Contents, job'[q].plan = FullPlan(job'[q].goal)
    PROVE  PlanOK(q)'
  <1> DEFINE j == job'[q]
  <1>1. FullPlan(j.goal) # <<>>
    BY Plans
  <1>2. QED
    BY <1>1 DEF PlanOK

\* A failing apply turns to the files it found.
LEMMA RecoveryOK ==
    ASSUME TypeOK, NEW q \in Procs, OwnOK(q), job[q].kind = "apply",
           job[q].pc \notin {"idle", "checked"}, job'[q] = Recovered(q)
    PROVE  OwnOK(q)' /\ PlanOK(q)'
  <1>1. CASE job'[q] = Idle
    BY <1>1 DEF OwnOK, PlanOK, Idle
  <1>2. ASSUME NEW b \in OwnBackup(q), Valid(b), Recovered(q).plan = RestorePlan(b),
               Recovered(q).kind = "restore", Recovered(q).goal = job[q].base
        PROVE  OwnOK(q)' /\ PlanOK(q)'
    <2>1. b \in Backup
      BY DEF OwnBackup, TypeOK
    <2>2. b.hash = job[q].base /\ job[q].base \in Contents
      BY DEF OwnOK
    <2>3. job'[q].goal \in Contents /\ job'[q].plan = FullPlan(job'[q].goal)
      BY <1>2, <2>1, <2>2, ValidPlan
    <2>4. QED
      BY <1>2, <2>3, FullPlanOK DEF OwnOK
  <1>3. QED
    BY <1>1, <1>2, RecoveredFields DEF TypeOK

\* A write of a restore: what it says is back when the plan has gone on.
LEMMA WriteOK ==
    ASSUME TypeOK, JobInv, NEW q \in Procs, PlanOK(q), job[q].kind = "restore",
           Fill(q) \/ Unlink(q)
    PROVE  PlanOK(q)'
  <1> DEFINE j == job[q]
             goal == job[q].goal
  <1>1. j \in JobType /\ file \in Contents
    BY DEF TypeOK
  <1>2. /\ file' = [file EXCEPT ![Head(j.plan).to] = Head(j.plan).content]
        /\ job'[q].plan = Tail(j.plan) /\ job'[q].goal = goal
        /\ job'[q].intact = j.intact /\ job'[q].skipped = j.skipped
        /\ j.plan # <<>>
    <2>1. CASE Fill(q)
      BY <1>1, <2>1 DEF Fill, Others, Target, JobInv, JobType
    <2>2. CASE Unlink(q)
      BY <1>1, <2>2 DEF Unlink, Writing, Others, Target, JobType
    <2>3. QED
      BY <2>1, <2>2
  <1>3. goal \in Contents /\ j.plan \in {FullPlan(goal), HalfPlan(goal)}
    BY <1>2 DEF PlanOK
  <1>4. CASE j.plan = FullPlan(goal)
    <2> DEFINE first == Head(j.plan)
    <2>a. first = Back(goal, "presets") /\ Tail(j.plan) = HalfPlan(goal)
      BY <1>4, Plans
    <2>b. first.to = "presets" /\ first.content = goal.presets
      BY <2>a DEF Back
    <2> HIDE DEF first
    <2>1. job'[q].plan = HalfPlan(goal) /\ file' = [file EXCEPT !["presets"] = goal.presets]
      <3>1. file' = [file EXCEPT ![first.to] = first.content]
        BY <1>2 DEF first
      <3>2. QED
        BY <1>2, <2>a, <2>b, <3>1
    <2>2. file'.presets = goal.presets
      BY <1>1, <2>1 DEF Contents
    <2>3. HalfPlan(goal) # <<>> /\ HalfPlan(goal) # FullPlan(goal)
      BY Plans
    <2>4. QED
      BY <1>2, <1>3, <2>1, <2>2, <2>3 DEF PlanOK
  <1>5. CASE j.plan = HalfPlan(goal)
    <2> DEFINE first == Head(j.plan)
    <2>a. first = Back(goal, "state") /\ Tail(j.plan) = <<>>
      BY <1>5, Plans
    <2>b. first.to = "state" /\ first.content = goal.state
      BY <2>a DEF Back
    <2> HIDE DEF first
    <2>1. job'[q].plan = <<>> /\ file' = [file EXCEPT !["state"] = goal.state]
      <3>1. file' = [file EXCEPT ![first.to] = first.content]
        BY <1>2 DEF first
      <3>2. QED
        BY <1>2, <2>a, <2>b, <3>1
    <2>2. file'.state = goal.state /\ file'.presets = file.presets
      BY <1>1, <2>1 DEF Contents
    <2>3. HalfPlan(goal) # FullPlan(goal)
      BY Plans
    <2>4. j.intact /\ ~j.skipped => file.presets = goal.presets
      BY <1>5, <2>3 DEF PlanOK
    <2>5. QED
      BY <1>2, <1>3, <2>1, <2>2, <2>4 DEF PlanOK
  <1>6. QED
    BY <1>3, <1>4, <1>5

\* Truncating spoils only what the plan is about to put back.
LEMMA TruncateOK ==
    ASSUME TypeOK, NEW q \in Procs, PlanOK(q), job[q].kind = "restore", Truncate(q)
    PROVE  PlanOK(q)'
  <1> DEFINE j == job[q]
             goal == job[q].goal
  <1>1. j \in JobType /\ file \in Contents
    BY DEF TypeOK
  <1>2. /\ file' = [file EXCEPT ![Head(j.plan).to] = Torn]
        /\ job'[q].plan = j.plan /\ job'[q].goal = goal /\ job'[q].intact = j.intact
        /\ job'[q].skipped = j.skipped /\ j.plan # <<>>
    BY <1>1 DEF Truncate, Writing, Others, Target, JobType
  <1>3. goal \in Contents /\ j.plan \in {FullPlan(goal), HalfPlan(goal)}
    BY <1>2 DEF PlanOK
  <1>4. CASE j.plan = FullPlan(goal)
    BY <1>2, <1>3, <1>4, FullPlanOK
  <1>5. CASE j.plan = HalfPlan(goal)
    <2> DEFINE first == Head(j.plan)
    <2>a. first = Back(goal, "state")
      BY <1>5, Plans
    <2>b. first.to = "state"
      BY <2>a DEF Back
    <2> HIDE DEF first
    <2>1. file' = [file EXCEPT !["state"] = Torn]
      <3>1. file' = [file EXCEPT ![first.to] = Torn]
        BY <1>2 DEF first
      <3>2. QED
        BY <2>b, <3>1
    <2>2. file'.presets = file.presets
      BY <1>1, <2>1 DEF Contents
    <2>3. HalfPlan(goal) # FullPlan(goal) /\ HalfPlan(goal) # <<>>
      BY Plans
    <2>4. QED
      BY <1>2, <1>3, <1>5, <2>2, <2>3 DEF PlanOK
  <1>6. QED
    BY <1>3, <1>4, <1>5

\* A file left out is remembered.
LEMMA NextFileOK ==
    ASSUME TypeOK, NEW q \in Procs, PlanOK(q), job[q].kind = "restore", job[q].plan # <<>>,
           job'[q] = NextFile(q)
    PROVE  OwnOK(q)' /\ PlanOK(q)'
  <1> DEFINE j == job[q]
             goal == job[q].goal
  <1>1. /\ job'[q].kind = "restore" /\ job'[q].skipped
        /\ job'[q].plan = Tail(j.plan) /\ job'[q].goal = goal
    <2>1. j \in JobType
      BY DEF TypeOK
    <2>2. job'[q] = [j EXCEPT !.pc = "write", !.plan = Tail(j.plan), !.skipped = TRUE]
      BY <2>1 DEF NextFile, JobType
    <2>3. QED
      BY <2>1, <2>2 DEF JobType
  <1>2. goal \in Contents /\ j.plan \in {FullPlan(goal), HalfPlan(goal)}
    BY DEF PlanOK
  <1>3. Tail(j.plan) \in {HalfPlan(goal), <<>>}
    BY <1>2, Plans
  <1>4. QED
    BY <1>1, <1>2, <1>3 DEF OwnOK, PlanOK


\* Every step keeps the backups of jobs and the plans of restores right.
LEMMA RestoreStep == TypeOK /\ JobInv /\ RestoreInv /\ [Next]_vars => RestoreInv'
  <1> SUFFICES ASSUME TypeOK, JobInv, RestoreInv, [Next]_vars, NEW q \in Procs
               PROVE  OwnOK(q)' /\ PlanOK(q)'
    BY DEF RestoreInv
  <1> OwnOK(q) /\ PlanOK(q)
    BY DEF RestoreInv
  <1> DEFINE j == job[q]
  <1>a. /\ file \in Contents /\ backups \subseteq Backup /\ job \in [Procs -> JobType]
        /\ j \in JobType
        /\ j.kind = "restore" => j.pc \in {"write", "fill"}
    BY DEF TypeOK, JobInv
  <1>1. CASE UNCHANGED vars
    BY <1>1 DEF vars, OwnOK, PlanOK, OwnBackup
  <1>2. CASE NewVerdict \/ Tick
    BY <1>2 DEF NewVerdict, Tick, OwnOK, PlanOK, OwnBackup
  <1>3. ASSUME NEW p \in Procs, p # q, Command(p) \/ Step(p) \/ Crash(p)
        PROVE  OwnOK(q)' /\ PlanOK(q)'
    <2>1. Same(q)
      BY <1>a, <1>3, OthersSame
    <2>2. OwnOK(q)'
      BY <1>3, <2>1, OwnStays DEF Next, Same
    <2>3. PlanOK(q)'
      BY <1>a, <2>1 DEF Same, PlanOK, InFlight
    <2>4. QED
      BY <2>2, <2>3
  <1>4. CASE job'[q] = j /\ file' = file /\ Next
    BY <1>4, OwnStays DEF PlanOK
  <1>5. CASE job'[q] = Idle
    BY <1>5 DEF Idle, OwnOK, PlanOK
  <1>6. CASE Command(q)
    <2>1. ASSUME NEW arg \in Args, NEW setState \in BOOLEAN, Check(q, arg, setState)
          PROVE  OwnOK(q)' /\ PlanOK(q)'
      <3>1. job'[q].kind = "apply" /\ job'[q].pc = "checked"
        BY <1>a, <2>1 DEF Check, Idle
      <3>2. QED
        BY <3>1 DEF OwnOK, PlanOK
    <2>2. ASSUME NEW b \in backups, Rollback(q, b)
          PROVE  OwnOK(q)' /\ PlanOK(q)'
      <3>1. /\ job'[q].kind = "restore" /\ job'[q].goal = b.hash
            /\ job'[q].plan = RestorePlan(b)
        BY <1>a, <2>2 DEF Rollback, Idle
      <3>2. b \in Backup /\ b.hash \in Contents /\ Valid(b)
        BY <1>a, <2>2 DEF Backup, Rollback
      <3>3. QED
        BY <3>1, <3>2, ValidPlan, FullPlanOK DEF OwnOK
    <2>3. QED
      BY <1>4, <1>6, <2>1, <2>2 DEF Command, Preview, Prune, Next
  <1>7. ASSUME NEW tie \in Ties, MakeManifest(q, tie)
        PROVE  OwnOK(q)' /\ PlanOK(q)'
    <2>1. j.kind = "apply"
      BY <1>a, <1>7 DEF MakeManifest, JobType
    <2>2. /\ job'[q].kind = "apply" /\ job'[q].backup = <<now, tie>>
          /\ job'[q].base = file
      BY <1>a, <1>7, <2>1 DEF MakeManifest, JobType
    <2>3. \A b \in backups' : b.stamp = <<now, tie>> => b.hash = file
      BY <1>7 DEF MakeManifest
    <2>4. QED
      BY <1>a, <2>2, <2>3 DEF OwnOK, PlanOK, OwnBackup
  <1>8. CASE Seal(q) \/ PruneOwn(q)
    <2>1. j.kind = "apply" /\ j.pc \in {"hashed", "sealed"}
      BY <1>a, <1>8 DEF Seal, PruneOwn, JobType
    <2>2. \/ job'[q] = Idle
          \/ job'[q] = [j EXCEPT !.pc = "sealed"]
          \/ job'[q] = [j EXCEPT !.pc = "ready"]
      BY <1>a, <1>8 DEF Seal, PruneOwn
    <2> HIDE DEF j
    <2>3. \A pc \in {"sealed", "ready"} :
              LET k == [j EXCEPT !.pc = pc]
              IN  k.kind = j.kind /\ k.base = j.base /\ k.backup = j.backup
      BY <1>a DEF JobType
    <2>4. CASE job'[q] # Idle
      <3>1. /\ job'[q].kind = "apply" /\ job'[q].base = j.base
            /\ job'[q].backup = j.backup
        BY <2>1, <2>2, <2>3, <2>4
      <3>2. OwnOK(q)'
        BY <1>8, <2>1, <3>1, OwnStays DEF j, Next, Step
      <3>3. QED
        BY <3>1, <3>2 DEF PlanOK
    <2>5. QED
      BY <1>5, <2>4
  <1>9. CASE j.kind = "apply" /\ j.pc \notin {"idle", "checked"} /\ job'[q] = Recovered(q)
    BY <1>9, RecoveryOK
  <1>10. CASE Load(q)
    <2>1. j.kind = "apply"
      BY <1>a, <1>10 DEF Load, JobType
    <2>2. \/ job'[q] = Recovered(q)
          \/ /\ job'[q].kind = "apply" /\ job'[q].base = j.base
             /\ job'[q].backup = j.backup
      BY <1>a, <1>10, <2>1 DEF Load, JobType
    <2>3. CASE job'[q] = Recovered(q)
      BY <1>9, <1>10, <2>1, <2>3 DEF Load
    <2>4. CASE job'[q] # Recovered(q)
      <3>1. OwnOK(q)'
        BY <1>10, <2>1, <2>2, <2>4, OwnStays DEF Next, Step, Load
      <3>2. QED
        BY <2>2, <2>4, <3>1 DEF PlanOK
    <2>5. QED
      BY <2>3, <2>4
  <1>11. CASE Truncate(q) \/ Fill(q) \/ Unlink(q)
    <2>1. /\ job'[q].kind = j.kind /\ job'[q].base = j.base
          /\ job'[q].backup = j.backup /\ j.pc \in {"write", "fill"}
      <3>1. CASE Truncate(q)
        BY <1>a, <3>1 DEF Truncate, Writing, Others, JobType
      <3>2. CASE Fill(q)
        BY <1>a, <3>2 DEF Fill, Others, JobType
      <3>3. CASE Unlink(q)
        BY <1>a, <3>3 DEF Unlink, Writing, Others, JobType
      <3>4. QED
        BY <1>11, <3>1, <3>2, <3>3
    <2>2. OwnOK(q)'
      BY <1>11, <2>1, OwnStays DEF Next, Step
    <2>3. CASE j.kind = "apply"
      BY <2>1, <2>2, <2>3 DEF PlanOK
    <2>4. CASE j.kind = "restore"
      BY <1>11, <2>2, <2>4, WriteOK, TruncateOK
    <2>5. QED
      BY <1>a, <2>3, <2>4 DEF JobType
  <1>12. CASE SkipMissing(q)
    BY <1>a, <1>12, NextFileOK DEF SkipMissing, Writing
  <1>13. CASE Verify(q)
    BY <1>a, <1>5, <1>9, <1>13 DEF Verify
  <1>14. CASE WriteFails(q)
    <2>1. j.plan # <<>> /\ j.pc \in {"write", "fill"}
      BY <1>14 DEF WriteFails, Writing, JobInv
    <2>2. CASE j.kind = "apply"
      BY <1>a, <1>9, <1>14, <2>1, <2>2 DEF WriteFails
    <2>3. CASE j.kind = "restore"
      BY <1>a, <1>14, <2>1, <2>3, NextFileOK DEF WriteFails
    <2>4. QED
      BY <1>a, <2>2, <2>3 DEF JobType
  <1>15. CASE ReadFails(q)
    BY <1>a, <1>9, <1>15 DEF ReadFails, JobType
  <1>16. CASE RestoreDone(q) \/ Crash(q)
    BY <1>a, <1>5, <1>16 DEF RestoreDone, Crash
  <1>17. QED
    BY <1>1, <1>2, <1>3, <1>6, <1>7, <1>8, <1>10, <1>11, <1>12, <1>13, <1>14, <1>15, <1>16
       DEF Next, Step

\* A restore that nobody interfered with and that left no file out ends with
\* exactly the files it was to put back, whoever else is at work, and however
\* it was begun: by hand, or by an apply that failed.
THEOREM RestoresExactly == Spec => []RestoreIsExact
  <1>1. Init => TypeOK /\ JobInv /\ RestoreInv
    <2>1. Init => RestoreInv
      BY DEF Init, RestoreInv, OwnOK, PlanOK, Idle
    <2>2. QED
      BY <2>1, InitTyped
  <1>2. TypeOK /\ JobInv /\ RestoreInv /\ [Next]_vars => (TypeOK /\ JobInv /\ RestoreInv)'
    BY TypeStep, JobStep, RestoreStep
  <1>3. TypeOK /\ RestoreInv => RestoreIsExact
    <2> SUFFICES ASSUME TypeOK, RestoreInv, NEW p \in Procs, job[p].kind = "restore",
                        job[p].plan = <<>>, job[p].intact, ~job[p].skipped
                 PROVE  file = job[p].goal
      BY DEF RestoreIsExact
    <2> DEFINE goal == job[p].goal
    <2>1. goal \in Contents /\ file \in Contents /\ FullPlan(goal) # <<>>
      BY Plans DEF RestoreInv, PlanOK, TypeOK
    <2>2. file.presets = goal.presets /\ file.state = goal.state
      BY <2>1 DEF RestoreInv, PlanOK
    <2>3. QED
      BY <2>1, <2>2 DEF Contents
  <1>4. QED
    BY <1>1, <1>2, <1>3, PTL DEF Spec


(***************************************************************************)
(* Why an apply replaces what its preview has shown                        *)
(***************************************************************************)

\* What the preview a job is bound to has shown are the files as they are,
\* until they are backed up, and those of the backup from then on.
BoundOK(p) ==
    \A r \in job[p].bound : job[p].intact =>
        /\ job[p].pc = "checked" => file = r.files
        /\ job[p].pc \notin {"idle", "checked"} => job[p].base = r.files

BoundInv == \A p \in Procs : BoundOK(p)

\* Every step keeps jobs bound to what they were shown.
LEMMA BoundStep == TypeOK /\ BoundInv /\ [Next]_vars => BoundInv'
  <1> SUFFICES ASSUME TypeOK, BoundInv, [Next]_vars, NEW q \in Procs
               PROVE  BoundOK(q)'
    BY DEF BoundInv
  <1> DEFINE j == job[q]
  <1>a. BoundOK(q) /\ job \in [Procs -> JobType] /\ j \in JobType
    BY DEF BoundInv, TypeOK
  <1>1. CASE job'[q] = j /\ file' = file
    BY <1>a, <1>1 DEF BoundOK
  <1>2. ASSUME NEW p \in Procs, p # q, Command(p) \/ Step(p) \/ Crash(p)
        PROVE  BoundOK(q)'
    <2>1. Same(q)
      BY <1>a, <1>2, OthersSame
    <2>2. QED
      BY <1>a, <2>1 DEF Same, BoundOK, InFlight
  <1>3. CASE job'[q] = Idle
    BY <1>3 DEF Idle, BoundOK
  <1>4. CASE /\ j.pc \notin {"idle", "checked"} /\ job'[q].pc # "checked"
             /\ job'[q].bound = j.bound /\ job'[q].base = j.base
             /\ job'[q].intact = j.intact
    BY <1>a, <1>4 DEF BoundOK
  <1>5. CASE j.pc \notin {"idle", "checked"} /\ job'[q] = Recovered(q)
    BY <1>a, <1>3, <1>4, <1>5, RecoveredFields
  <1>6. CASE Command(q)
    <2>1. ASSUME NEW arg \in Args, NEW setState \in BOOLEAN, Check(q, arg, setState)
          PROVE  BoundOK(q)'
      <3>1. job'[q].bound = LatestPreview /\ job'[q].pc = "checked" /\ file' = file
        BY <1>a, <2>1 DEF Check, Idle
      <3>2. \A r \in LatestPreview : r.files = file
        BY <2>1 DEF Check, NoDrift
      <3>3. QED
        BY <3>1, <3>2 DEF BoundOK
    <2>2. ASSUME NEW b \in backups, Rollback(q, b)
          PROVE  BoundOK(q)'
      <3>1. job'[q].bound = {}
        BY <1>a, <2>2 DEF Rollback, Idle
      <3>2. QED
        BY <3>1 DEF BoundOK
    <2>3. QED
      BY <1>1, <1>6, <2>1, <2>2 DEF Command, Preview, Prune
  <1>7. ASSUME NEW tie \in Ties, MakeManifest(q, tie)
        PROVE  BoundOK(q)'
    <2>1. /\ j.pc = "checked" /\ job'[q].pc = "hashed" /\ job'[q].base = file
          /\ job'[q].bound = j.bound /\ job'[q].intact = j.intact
      BY <1>a, <1>7 DEF MakeManifest, JobType
    <2>2. QED
      BY <1>a, <2>1 DEF BoundOK
  <1>8. CASE Seal(q) \/ PruneOwn(q)
    <2>1. /\ j.pc \in {"hashed", "sealed"}
          /\ \/ job'[q] = Idle
             \/ job'[q] = [j EXCEPT !.pc = "sealed"]
             \/ job'[q] = [j EXCEPT !.pc = "ready"]
      BY <1>a, <1>8 DEF Seal, PruneOwn
    <2> HIDE DEF j
    <2>2. \A pc \in {"sealed", "ready"} :
              LET k == [j EXCEPT !.pc = pc]
              IN  k.pc = pc /\ k.bound = j.bound /\ k.base = j.base /\ k.intact = j.intact
      BY <1>a DEF JobType
    <2>3. QED
      BY <1>3, <1>4, <2>1, <2>2
  <1>9. CASE Load(q)
    <2>1. \/ job'[q] = Recovered(q)
          \/ /\ job'[q].pc = "write" /\ job'[q].bound = j.bound
             /\ job'[q].base = j.base /\ job'[q].intact = j.intact
      BY <1>a, <1>9 DEF Load, JobType
    <2>2. QED
      BY <1>4, <1>5, <1>9, <2>1 DEF Load
  <1>10. CASE Truncate(q)
    BY <1>a, <1>4, <1>10 DEF Truncate, Writing, Others, JobType
  <1>11. CASE Fill(q)
    BY <1>a, <1>4, <1>11 DEF Fill, Others, JobType
  <1>12. CASE Unlink(q)
    BY <1>a, <1>4, <1>12 DEF Unlink, Writing, Others, JobType
  <1>13. CASE j.pc \in {"write", "fill"} /\ job'[q] = NextFile(q)
    <2>1. /\ job'[q].pc = "write" /\ job'[q].bound = j.bound
          /\ job'[q].base = j.base /\ job'[q].intact = j.intact
      BY <1>a, <1>13 DEF NextFile, JobType
    <2>2. QED
      BY <1>4, <1>13, <2>1
  <1>14. CASE SkipMissing(q)
    BY <1>a, <1>13, <1>14 DEF SkipMissing, Writing
  <1>15. CASE Verify(q) \/ ReadFails(q)
    BY <1>a, <1>3, <1>5, <1>15 DEF Verify, ReadFails
  <1>16. CASE WriteFails(q)
    BY <1>a, <1>5, <1>13, <1>16 DEF WriteFails, Writing
  <1>17. CASE RestoreDone(q) \/ Crash(q)
    BY <1>a, <1>3, <1>17 DEF RestoreDone, Crash
  <1>18. CASE NewVerdict \/ Tick \/ UNCHANGED vars
    BY <1>1, <1>18 DEF NewVerdict, Tick, vars
  <1>19. QED
    BY <1>2, <1>6, <1>7, <1>8, <1>9, <1>10, <1>11, <1>12, <1>14, <1>15, <1>16, <1>17, <1>18
       DEF Next, Step

\* An apply that nobody disturbed replaces the files its preview has shown.
THEOREM PreviewHolds == Spec => []PreviewBinds
  <1>1. Init => BoundInv
    BY DEF Init, BoundInv, BoundOK, Idle
  <1>2. TypeOK /\ BoundInv /\ [Next]_vars => BoundInv'
    BY BoundStep
  <1>3. BoundInv => PreviewBinds
    BY DEF BoundInv, BoundOK, PreviewBinds
  <1>4. QED
    BY <1>1, <1>2, <1>3, TypeCorrect, PTL DEF Spec


(***************************************************************************)
(* Why one apply at a time can always be undone: what it is about to write *)
(* over is what it has backed up, and its own prune finds its backup among *)
(* the newest, for no second sees more backups than are kept.              *)
(***************************************************************************)

\* There are fewer backups newer than b of b's second than there are names
\* within a second.
LEMMA FewNewer ==
    ASSUME IsFiniteSet(Ties), Cardinality(Ties) <= MaxBackups,
           NEW b \in Backup, NEW S \in SUBSET Backup,
           \A c, d \in S : c.stamp = d.stamp => c = d,
           \A c \in S : c.stamp[1] <= b.stamp[1] /\ Newer(c.stamp, b.stamp)
    PROVE  Cardinality(S) < MaxBackups
  <1> DEFINE tie == b.stamp[2]
             rest == Ties \ {tie}
             F == [c \in S |-> c.stamp[2]]
  <1>1. \A c \in Backup : /\ c.stamp = <<c.stamp[1], c.stamp[2]>>
                          /\ c.stamp[1] \in 0..MaxTime /\ c.stamp[2] \in Ties
    BY DEF Backup, Stamps
  <1>2. \A c \in S : c.stamp[1] = b.stamp[1] /\ c.stamp[2] > tie
    BY <1>1, BridgeAssumption DEF Newer
  <1>3. \A c \in S : c.stamp[2] \in rest
    <2> SUFFICES ASSUME NEW c \in S
                 PROVE  c.stamp[2] \in Ties /\ c.stamp[2] # tie
      OBVIOUS
    <2>1. c.stamp[2] \in Ties /\ tie \in Ties
      BY <1>1
    <2>2. c.stamp[2] \in Nat /\ tie \in Nat /\ c.stamp[2] > tie
      BY <1>2, <2>1, BridgeAssumption
    <2> HIDE DEF tie
    <2>3. QED
      BY <2>1, <2>2
  <1>4. \A c, d \in S : c.stamp[2] = d.stamp[2] => c = d
    BY <1>1, <1>2
  <1>5. F \in Injection(S, rest)
    BY <1>3, <1>4 DEF Injection, IsInjective
  <1>6. /\ IsFiniteSet(rest) /\ Cardinality(rest) = Cardinality(Ties) - 1
    <2>1. tie \in Ties
      BY <1>1
    <2> HIDE DEF tie
    <2>2. QED
      BY <2>1, FS_RemoveElement
  <1>7. IsFiniteSet(S) /\ Cardinality(S) <= Cardinality(rest)
    <2> HIDE DEF F, rest
    <2>1. QED
      BY <1>5, <1>6, FS_Injection
  <1>8. Cardinality(S) \in Nat /\ Cardinality(Ties) \in Nat
    BY <1>7, FS_CardinalityType
  <1>9. QED
    BY <1>6, <1>7, <1>8, BridgeAssumption

\* No two backups have one name, none is from the future, and no job is older
\* than the age at which backups are pruned.
ClockOK(p) == InFlight(p) => job[p].since <= now /\ now <= job[p].since + MaxAge
ClockInv ==
    /\ \A b, c \in backups : b.stamp[1] <= now /\ (b.stamp = c.stamp => b = c)
    /\ \A p \in Procs : ClockOK(p)

\* The files are those the job has found, and nobody made a backup later.
Undisturbed(p) ==
    /\ job[p].base = file
    /\ job[p].backup \in Stamps /\ job[p].since <= job[p].backup[1]
    /\ \A b \in backups : b.stamp[1] <= job[p].backup[1]

BackedUp(p) == \E b \in OwnBackup(p) : b.hash = job[p].base
Recoverable(p) == \E b \in OwnBackup(p) : Valid(b) /\ b.hash = job[p].base

\* What an apply can count on, by how far it is.
UndoOK(p) ==
    job[p].kind = "apply" =>
        /\ job[p].wrote => job[p].pc \in {"write", "fill"}
        /\ job[p].pc \in {"hashed", "sealed"} => Undisturbed(p)
        /\ job[p].pc = "hashed" => BackedUp(p)
        /\ job[p].pc \in {"sealed", "ready", "write", "fill"} => Recoverable(p)

UndoInv == \A p \in Procs : UndoOK(p)

\* Backups have their own names and times, and jobs are young.
LEMMA ClockStep == TypeOK /\ ClockInv /\ [Next]_vars => ClockInv'
  <1> SUFFICES ASSUME TypeOK, ClockInv, [Next]_vars
               PROVE  ClockInv'
    OBVIOUS
  <1>a. /\ backups \subseteq Backup /\ job \in [Procs -> JobType] /\ now \in Nat
        /\ MaxAge \in Nat
    BY BridgeAssumption DEF TypeOK
  <1>1. \A b, c \in backups' : b.stamp[1] <= now' /\ (b.stamp = c.stamp => b = c)
    <2>1. CASE backups' \subseteq backups /\ now' = now
      BY <2>1 DEF ClockInv
    <2>2. CASE Tick
      BY <1>a, <2>2 DEF Tick, ClockInv, Backup, Stamps
    <2>3. ASSUME NEW p \in Procs, NEW tie \in Ties, MakeManifest(p, tie)
          PROVE  \A b, c \in backups' : b.stamp[1] <= now' /\ (b.stamp = c.stamp => b = c)
      <3> DEFINE made == [stamp |-> <<now, tie>>, sealed |-> FALSE, hash |-> file,
                          blob |-> [presets |-> Absent, state |-> Absent]]
      <3>1. made.stamp = <<now, tie>> /\ made.stamp[1] = now
        OBVIOUS
      <3>2. backups' = backups \cup {made} /\ now' = now
            /\ \A b \in backups : b.stamp # <<now, tie>>
        BY <2>3 DEF MakeManifest
      <3> HIDE DEF made
      <3>3. QED
        BY <1>a, <3>1, <3>2 DEF ClockInv
    <2>4. ASSUME NEW p \in Procs, Seal(p)
          PROVE  \A b, c \in backups' : b.stamp[1] <= now' /\ (b.stamp = c.stamp => b = c)
      <3> DEFINE sealed(b) == IF b \in OwnBackup(p)
                              THEN [b EXCEPT !.sealed = TRUE, !.blob = file] ELSE b
      <3>1. \A b \in backups : sealed(b).stamp = b.stamp
        BY <1>a DEF Backup
      <3>2. backups' = {sealed(b) : b \in backups} /\ now' = now
        BY <2>4 DEF Seal
      <3> HIDE DEF sealed
      <3>3. QED
        BY <3>1, <3>2 DEF ClockInv
    <2>5. QED
      BY <2>1, <2>2, <2>3, <2>4 DEF Next, Command, Step, Check, Preview, Rollback, Prune,
         PruneOwn, Load, Truncate, Fill, Unlink, SkipMissing, Verify, RestoreDone, WriteFails,
         ReadFails, Crash, NewVerdict, Kept, vars
  <1>2. ASSUME NEW q \in Procs
        PROVE  ClockOK(q)'
    <2> DEFINE j == job[q]
    <2>a. ClockOK(q) /\ j \in JobType /\ j.since \in Nat
      BY <1>a DEF ClockInv, JobType
    <2>1. CASE now' = now /\ (job'[q] = j \/ job'[q] = Idle)
      BY <2>a, <2>1 DEF ClockOK, InFlight, Idle
    <2>2. CASE now' = now /\ j.pc # "idle" /\ job'[q].since = j.since
      BY <2>a, <2>2 DEF ClockOK, InFlight
    <2>3. CASE now' = now /\ job'[q].since = now
      BY <1>a, <2>3 DEF ClockOK
    <2>4. CASE Tick
      BY <1>a, <2>a, <2>4 DEF Tick, ClockOK, InFlight
    <2>5. ASSUME NEW p \in Procs, p # q, Command(p) \/ Step(p) \/ Crash(p)
          PROVE  ClockOK(q)'
      <3>1. Same(q)
        BY <1>a, <2>5, OthersSame
      <3>2. now' = now
        BY <2>5 DEF Command, Step, Check, Preview, Rollback, Prune, MakeManifest, Seal, PruneOwn,
           Load, Truncate, Fill, Unlink, SkipMissing, Verify, RestoreDone, WriteFails, ReadFails,
           Crash
      <3>3. QED
        BY <2>a, <3>1, <3>2 DEF Same, ClockOK, InFlight
    <2>6. CASE Command(q)
      <3>1. ASSUME NEW arg \in Args, NEW setState \in BOOLEAN, Check(q, arg, setState)
            PROVE  now' = now /\ job'[q].since = now
        BY <1>a, <3>1 DEF Check, Idle
      <3>2. ASSUME NEW b \in backups, Rollback(q, b)
            PROVE  now' = now /\ job'[q].since = now
        BY <1>a, <3>2 DEF Rollback, Idle
      <3>3. QED
        BY <2>1, <2>3, <2>6, <3>1, <3>2 DEF Command, Preview, Prune
    <2>7. CASE j.pc # "idle" /\ now' = now /\ job'[q] = Recovered(q)
      BY <1>a, <2>1, <2>2, <2>7, RecoveredFields
    <2>8. ASSUME NEW tie \in Ties, MakeManifest(q, tie)
          PROVE  ClockOK(q)'
      BY <1>a, <2>a, <2>2, <2>8 DEF MakeManifest, JobType
    <2>9. CASE Seal(q) \/ PruneOwn(q)
      <3>1. /\ j.pc \in {"hashed", "sealed"} /\ now' = now
            /\ \/ job'[q] = Idle
               \/ job'[q] = [j EXCEPT !.pc = "sealed"]
               \/ job'[q] = [j EXCEPT !.pc = "ready"]
        BY <1>a, <2>9 DEF Seal, PruneOwn
      <3> HIDE DEF j
      <3>2. \A pc \in {"sealed", "ready"} : [j EXCEPT !.pc = pc].since = j.since
        BY <2>a DEF JobType
      <3>3. QED
        BY <2>1, <2>2, <3>1, <3>2
    <2>10. CASE Load(q)
      BY <1>a, <2>a, <2>2, <2>7, <2>10 DEF Load, JobType
    <2>11. CASE Truncate(q)
      BY <1>a, <2>a, <2>2, <2>11 DEF Truncate, Writing, Others, JobType
    <2>12. CASE Fill(q)
      BY <1>a, <2>a, <2>2, <2>12 DEF Fill, Others, JobType
    <2>13. CASE Unlink(q)
      BY <1>a, <2>a, <2>2, <2>13 DEF Unlink, Writing, Others, JobType
    <2>14. CASE now' = now /\ j.pc # "idle" /\ job'[q] = NextFile(q)
      <3>1. job'[q].since = j.since
        BY <2>a, <2>14 DEF NextFile, JobType
      <3>2. QED
        BY <2>2, <2>14, <3>1
    <2>15. CASE SkipMissing(q)
      BY <1>a, <2>14, <2>15 DEF SkipMissing, Writing
    <2>16. CASE Verify(q) \/ ReadFails(q)
      BY <1>a, <2>1, <2>7, <2>16 DEF Verify, ReadFails
    <2>17. CASE WriteFails(q)
      BY <1>a, <2>7, <2>14, <2>17 DEF WriteFails, Writing
    <2>18. CASE RestoreDone(q) \/ Crash(q)
      BY <1>a, <2>1, <2>18 DEF RestoreDone, Crash
    <2>19. CASE NewVerdict \/ UNCHANGED vars
      BY <2>1, <2>19 DEF NewVerdict, vars
    <2>20. QED
      BY <2>4, <2>5, <2>6, <2>8, <2>9, <2>10, <2>11, <2>12, <2>13, <2>15, <2>16, <2>17, <2>18,
         <2>19 DEF Next, Step
  <1>3. QED
    BY <1>1, <1>2 DEF ClockInv


\* Its own prune keeps the backup of an apply that nobody disturbed.
LEMMA OwnKept ==
    ASSUME TypeOK, ClockInv, IsFiniteSet(Ties), Cardinality(Ties) <= MaxBackups,
           NEW p \in Procs, InFlight(p), Undisturbed(p),
           NEW b \in OwnBackup(p), Valid(b)
    PROVE  b \in Kept(backups)
  <1> DEFINE valid == {c \in backups : Valid(c)}
             eligible == {c \in valid : \/ \A d \in valid : d = c \/ Newer(c.stamp, d.stamp)
                                        \/ now - c.stamp[1] <= MaxAge}
             newer == {c \in eligible : Newer(c.stamp, b.stamp)}
  <1>1. b \in backups /\ b \in Backup /\ b.stamp = job[p].backup
    BY DEF OwnBackup, TypeOK
  <1>2. b \in eligible
    <2>1. b.stamp[1] \in Nat /\ now \in Nat /\ job[p].since \in Nat
      BY <1>1 DEF TypeOK, JobType, Backup, Stamps
    <2>2. job[p].since <= b.stamp[1] /\ now <= job[p].since + MaxAge
      BY <1>1 DEF Undisturbed, ClockInv, ClockOK
    <2>3. now - b.stamp[1] <= MaxAge
      BY <2>1, <2>2, BridgeAssumption
    <2>4. QED
      BY <1>1, <2>3
  <1>3. /\ newer \in SUBSET Backup
        /\ \A c, d \in newer : c.stamp = d.stamp => c = d
        /\ \A c \in newer : c.stamp[1] <= b.stamp[1] /\ Newer(c.stamp, b.stamp)
    BY <1>1 DEF TypeOK, ClockInv, Undisturbed
  <1>4. Cardinality(newer) < MaxBackups
    <2> HIDE DEF newer
    <2>1. QED
      BY <1>1, <1>3, FewNewer
  <1>5. QED
    BY <1>2, <1>4 DEF Kept

\* Copying the files into the backup of an apply that nobody disturbed makes
\* it one that can be restored.
LEMMA SealMakesRecoverable ==
    ASSUME TypeOK, NEW p \in Procs, Seal(p), job[p].base = file, BackedUp(p),
           job'[p].base = job[p].base, job'[p].backup = job[p].backup
    PROVE  Recoverable(p)'
  <1>1. PICK b \in OwnBackup(p) : b.hash = file
    BY DEF BackedUp
  <1> DEFINE s == [b EXCEPT !.sealed = TRUE, !.blob = file]
  <1>2. b \in Backup /\ b \in backups /\ b.stamp = job[p].backup
    BY DEF OwnBackup, TypeOK
  <1>3. s.sealed /\ s.blob = file /\ s.hash = file /\ s.stamp = job[p].backup
    BY <1>1, <1>2 DEF Backup
  <1>4. s \in backups'
    BY <1>1, <1>2 DEF Seal
  <1> HIDE DEF s
  <1>5. Valid(s)
    BY <1>3 DEF Valid
  <1>6. s \in OwnBackup(p)'
    BY <1>3, <1>4 DEF OwnBackup
  <1>7. file' = file
    BY DEF Seal
  <1>8. QED
    BY <1>3, <1>5, <1>6 DEF Recoverable, OwnBackup, Valid

\* Every step of the only process keeps its backup.
LEMMA UndoStep ==
    ASSUME \A p, q \in Procs : p = q, IsFiniteSet(Ties), Cardinality(Ties) <= MaxBackups,
           TypeOK, JobInv, ClockInv, UndoInv, [Next]_vars
    PROVE  UndoInv'
  <1> SUFFICES ASSUME NEW q \in Procs
               PROVE  UndoOK(q)'
    BY DEF UndoInv
  <1> DEFINE j == job[q]
  <1>a. /\ UndoOK(q) /\ job \in [Procs -> JobType] /\ j \in JobType /\ file \in Contents
        /\ backups \subseteq Backup /\ now \in 0..MaxTime
    BY DEF UndoInv, TypeOK
  <1>b. /\ j.kind = "restore" => j.pc \in {"write", "fill"}
        /\ \A p \in Procs : p = q
    BY DEF JobInv
  <1>1. CASE job'[q] = j /\ backups' = backups /\ file' = file
    BY <1>a, <1>1 DEF UndoOK, Undisturbed, BackedUp, Recoverable, OwnBackup, Valid
  <1>2. CASE job'[q] = Idle
    BY <1>2 DEF Idle, UndoOK
  <1>3. CASE job'[q] = j /\ j.pc = "idle"
    BY <1>a, <1>3 DEF UndoOK
  <1>4. CASE job'[q].kind = "restore"
    BY <1>4 DEF UndoOK
  <1>5. CASE job'[q] = Recovered(q)
    BY <1>a, <1>2, <1>4, <1>5, RecoveredFields
  <1>6. CASE /\ j.pc \in {"ready", "write", "fill"} /\ job'[q].pc \in {"write", "fill"}
             /\ job'[q].kind = j.kind /\ job'[q].base = j.base /\ job'[q].backup = j.backup
             /\ backups' = backups
    BY <1>a, <1>6 DEF UndoOK, Recoverable, OwnBackup, Valid
  <1>7. CASE Command(q)
    <2>1. ASSUME NEW arg \in Args, NEW setState \in BOOLEAN, Check(q, arg, setState)
          PROVE  UndoOK(q)'
      <3>1. job'[q].pc = "checked" /\ ~job'[q].wrote
        BY <1>a, <2>1 DEF Check, Idle
      <3>2. QED
        BY <3>1 DEF UndoOK
    <2>2. ASSUME NEW b \in backups, Rollback(q, b)
          PROVE  job'[q].kind = "restore"
      BY <1>a, <2>2 DEF Rollback, Idle
    <2>3. QED
      BY <1>3, <1>4, <1>7, <2>1, <2>2 DEF Command, Preview, Prune, InFlight
  <1>8. ASSUME NEW tie \in Ties, MakeManifest(q, tie)
        PROVE  UndoOK(q)'
    <2> DEFINE stamp == <<now, tie>>
               made == [stamp |-> stamp, sealed |-> FALSE, hash |-> file,
                        blob |-> [presets |-> Absent, state |-> Absent]]
    <2>1. stamp \in Stamps /\ stamp[1] = now
      BY <1>a DEF Stamps
    <2>2. /\ job'[q].pc = "hashed" /\ job'[q].base = file /\ job'[q].backup = stamp
          /\ job'[q].since = j.since /\ job'[q].wrote = j.wrote /\ j.pc = "checked"
      BY <1>a, <1>8 DEF MakeManifest, JobType
    <2>3. backups' = backups \cup {made} /\ file' = file
      BY <1>8 DEF MakeManifest
    <2>4. made.stamp = stamp /\ made.hash = file
      OBVIOUS
    <2>5. j.kind = "apply" /\ ~j.wrote
      BY <1>a, <1>b, <2>2 DEF UndoOK, JobType
    <2>6. j.since <= now /\ \A b \in backups : b.stamp[1] <= now
      BY <2>2 DEF ClockInv, ClockOK, InFlight
    <2> HIDE DEF made, stamp
    <2>7. BackedUp(q)'
      BY <2>2, <2>3, <2>4 DEF BackedUp, OwnBackup
    <2>8. Undisturbed(q)'
      BY <1>a, <2>1, <2>2, <2>3, <2>4, <2>6 DEF Undisturbed
    <2>9. QED
      BY <2>2, <2>5, <2>7, <2>8 DEF UndoOK
  <1>9. CASE Seal(q) /\ job'[q] # Idle
    <2>1. j.pc = "hashed" /\ j.kind = "apply" /\ job'[q] = [j EXCEPT !.pc = "sealed"]
      BY <1>a, <1>b, <1>9 DEF Seal, JobType
    <2>2. Undisturbed(q) /\ BackedUp(q) /\ ~j.wrote
      BY <1>a, <2>1 DEF UndoOK
    <2>3. /\ job'[q].pc = "sealed" /\ job'[q].kind = "apply" /\ job'[q].base = j.base
          /\ job'[q].backup = j.backup /\ job'[q].since = j.since /\ job'[q].wrote = j.wrote
      <3> HIDE DEF j
      <3>1. QED
        BY <1>a, <2>1 DEF JobType
    <2>4. Recoverable(q)'
      BY <1>9, <2>2, <2>3, SealMakesRecoverable DEF Undisturbed
    <2>5. \A c \in backups' : \E b \in backups : c.stamp = b.stamp
      <3>1. \A b \in backups : [b EXCEPT !.sealed = TRUE, !.blob = file].stamp = b.stamp
        BY <1>a DEF Backup
      <3>2. QED
        BY <1>9, <3>1 DEF Seal
    <2>6. Undisturbed(q)'
      BY <1>9, <2>2, <2>3, <2>5 DEF Undisturbed, Seal
    <2>7. QED
      BY <2>2, <2>3, <2>4, <2>6 DEF UndoOK
  <1>10. CASE PruneOwn(q)
    <2>1. j.pc = "sealed" /\ j.kind = "apply" /\ job'[q] = [j EXCEPT !.pc = "ready"]
      BY <1>a, <1>b, <1>10 DEF PruneOwn, JobType
    <2>2. Undisturbed(q) /\ Recoverable(q) /\ ~j.wrote
      BY <1>a, <2>1 DEF UndoOK
    <2>3. /\ job'[q].pc = "ready" /\ job'[q].base = j.base
          /\ job'[q].backup = j.backup /\ job'[q].wrote = j.wrote
      <3> HIDE DEF j
      <3>1. QED
        BY <1>a, <2>1 DEF JobType
    <2>4. PICK b \in OwnBackup(q) : Valid(b) /\ b.hash = j.base
      BY <2>2 DEF Recoverable
    <2>5. b \in backups'
      BY <1>10, <2>1, <2>2, <2>4, OwnKept DEF PruneOwn, InFlight
    <2>6. Recoverable(q)'
      BY <2>3, <2>4, <2>5 DEF Recoverable, OwnBackup, Valid
    <2>7. QED
      BY <2>2, <2>3, <2>6 DEF UndoOK
  <1>11. CASE Load(q)
    <2>1. j.pc = "ready" /\ backups' = backups
      BY <1>11 DEF Load
    <2>2. \/ job'[q] = Recovered(q)
          \/ /\ job'[q].pc = "write" /\ job'[q].kind = j.kind /\ job'[q].base = j.base
             /\ job'[q].backup = j.backup
      BY <1>a, <1>11 DEF Load, JobType
    <2>3. QED
      BY <1>5, <1>6, <2>1, <2>2
  <1>12. CASE Truncate(q)
    BY <1>a, <1>6, <1>12 DEF Truncate, Writing, Others, JobType
  <1>13. CASE Fill(q)
    BY <1>a, <1>6, <1>13 DEF Fill, Others, JobType
  <1>14. CASE Unlink(q)
    BY <1>a, <1>6, <1>14 DEF Unlink, Writing, Others, JobType
  <1>15. CASE j.kind = "restore" /\ job'[q] = NextFile(q)
    <2>1. job'[q].kind = "restore"
      BY <1>a, <1>15 DEF NextFile, JobType
    <2>2. QED
      BY <1>4, <2>1
  <1>16. CASE SkipMissing(q)
    BY <1>a, <1>15, <1>16 DEF SkipMissing
  <1>17. CASE Verify(q) \/ ReadFails(q)
    BY <1>a, <1>2, <1>5, <1>17 DEF Verify, ReadFails
  <1>18. CASE WriteFails(q)
    BY <1>a, <1>5, <1>15, <1>18 DEF WriteFails, JobType
  <1>19. CASE RestoreDone(q) \/ Crash(q)
    BY <1>a, <1>2, <1>19 DEF RestoreDone, Crash
  <1>20. CASE NewVerdict \/ Tick \/ UNCHANGED vars
    BY <1>1, <1>20 DEF NewVerdict, Tick, vars
  <1>21. QED
    BY <1>b, <1>2, <1>7, <1>8, <1>9, <1>10, <1>11, <1>12, <1>13, <1>14, <1>16, <1>17, <1>18,
       <1>19, <1>20 DEF Next, Step

\* With one hr process at a time, and names for at most MaxBackups backups in
\* a second, an apply can be undone from its first write on, wherever it is
\* killed and whatever is pruned.
THEOREM AlwaysUndoable ==
    ASSUME \A p, q \in Procs : p = q, IsFiniteSet(Ties), Cardinality(Ties) <= MaxBackups
    PROVE  Spec => []UndoPossible
  <1>1. Init => TypeOK /\ JobInv /\ ClockInv /\ UndoInv
    <2>1. Init => ClockInv /\ UndoInv
      BY DEF Init, ClockInv, ClockOK, InFlight, UndoInv, UndoOK, Idle
    <2>2. QED
      BY <2>1, InitTyped
  <1>2. TypeOK /\ JobInv /\ ClockInv /\ UndoInv /\ [Next]_vars
            => (TypeOK /\ JobInv /\ ClockInv /\ UndoInv)'
    BY TypeStep, JobStep, ClockStep, UndoStep
  <1>3. UndoInv => UndoPossible
    BY DEF UndoInv, UndoOK, UndoPossible, Recoverable
  <1>4. QED
    BY <1>1, <1>2, <1>3, PTL DEF Spec

(***************************************************************************)
(* Retention: what a prune leaves is bounded, and a backup that can be     *)
(* restored is among it.                                                   *)
(***************************************************************************)

\* Names of backups are ordered.
LEMMA NewerOrders ==
    ASSUME NEW s \in Stamps, NEW t \in Stamps, NEW u \in Stamps
    PROVE  /\ ~Newer(s, s)
           /\ Newer(s, t) /\ Newer(t, u) => Newer(s, u)
           /\ s = t \/ Newer(s, t) \/ Newer(t, s)
  <1>1. \A v \in Stamps : v[1] \in Nat /\ v[2] \in Nat /\ v = <<v[1], v[2]>>
    <2> SUFFICES ASSUME NEW v \in Stamps
                 PROVE  v[1] \in Nat /\ v[2] \in Nat /\ v = <<v[1], v[2]>>
      OBVIOUS
    <2>1. v[1] \in 0..MaxTime /\ v[2] \in Ties /\ v = <<v[1], v[2]>>
      BY DEF Stamps
    <2>2. QED
      BY <2>1, BridgeAssumption
  <1>2. QED
    BY <1>1 DEF Newer

\* Finitely many backups with different names can be ranked by them.
LEMMA Ranked ==
    ASSUME NEW E \in SUBSET Backup, IsFiniteSet(E), \A b, c \in E : b.stamp = c.stamp => b = c
    PROVE  \E f \in [E -> Nat] :
               \A b, c \in E : /\ f[b] > f[c] <=> Newer(b.stamp, c.stamp)
                               /\ f[b] = f[c] => b = c
  <1> DEFINE older(b) == {c \in E : Newer(b.stamp, c.stamp)}
             f == [b \in E |-> Cardinality(older(b))]
  <1>1. \A b \in E : b.stamp \in Stamps
    BY DEF Backup
  <1>2. ASSUME NEW b \in E
        PROVE  IsFiniteSet(older(b)) /\ Cardinality(older(b)) \in Nat
    <2>1. older(b) \in SUBSET E
      OBVIOUS
    <2> HIDE DEF older
    <2>2. QED
      BY <2>1, FS_Subset, FS_CardinalityType
  <1>3. ASSUME NEW b \in E, NEW c \in E, Newer(b.stamp, c.stamp)
        PROVE  Cardinality(older(b)) > Cardinality(older(c))
    <2>1. older(c) \in SUBSET older(b)
      BY <1>1, <1>3, NewerOrders
    <2>2. c \in older(b) /\ c \notin older(c)
      BY <1>1, <1>3, NewerOrders
    <2>3. /\ IsFiniteSet(older(b)) /\ Cardinality(older(b)) \in Nat
          /\ Cardinality(older(c)) \in Nat
      BY <1>2
    <2> HIDE DEF older
    <2>4. Cardinality(older(c)) <= Cardinality(older(b))
      BY <2>1, <2>3, FS_Subset
    <2>5. Cardinality(older(c)) # Cardinality(older(b))
      BY <2>1, <2>2, <2>3, FS_Subset
    <2>6. QED
      BY <2>3, <2>4, <2>5
  <1>4. f \in [E -> Nat] /\ \A b \in E : f[b] = Cardinality(older(b))
    BY <1>2
  <1>5. \A b \in E : f[b] \in Nat
    BY <1>4
  <1>6. \A b, c \in E : Newer(b.stamp, c.stamp) => f[b] > f[c]
    BY <1>3, <1>4
  <1> HIDE DEF f, older
  <1>7. ASSUME NEW b \in E, NEW c \in E
        PROVE  /\ f[b] > f[c] <=> Newer(b.stamp, c.stamp)
               /\ f[b] = f[c] => b = c
    <2>1. f[b] \in Nat /\ f[c] \in Nat
      BY <1>5
    <2>2. b = c \/ Newer(b.stamp, c.stamp) \/ Newer(c.stamp, b.stamp)
      BY <1>1, NewerOrders
    <2>3. CASE b = c
      <3>1. ~Newer(b.stamp, c.stamp)
        BY <1>1, <2>3, NewerOrders
      <3>2. QED
        BY <2>1, <2>3, <3>1
    <2>4. QED
      BY <1>6, <2>1, <2>2, <2>3
  <1>8. QED
    BY <1>4, <1>7

\* Of finitely many backups with different names, one is the newest.
LEMMA NewestOf ==
    ASSUME NEW E \in SUBSET Backup, IsFiniteSet(E), E # {},
           \A b, c \in E : b.stamp = c.stamp => b = c
    PROVE  \E b \in E : \A c \in E : c = b \/ Newer(b.stamp, c.stamp)
  <1> DEFINE newer(b) == {c \in E : Newer(c.stamp, b.stamp)}
             ranks == {Cardinality(newer(b)) : b \in E}
  <1>1. \A b \in E : b.stamp \in Stamps
    BY DEF Backup
  <1>2. ASSUME NEW b \in E
        PROVE  IsFiniteSet(newer(b)) /\ Cardinality(newer(b)) \in Nat
    <2>1. newer(b) \in SUBSET E
      OBVIOUS
    <2> HIDE DEF newer
    <2>2. QED
      BY <2>1, FS_Subset, FS_CardinalityType
  <1>3. ranks \in SUBSET Nat /\ ranks # {} /\ \A b \in E : Cardinality(newer(b)) \in ranks
    <2>1. \A b \in E : Cardinality(newer(b)) \in Nat
      BY <1>2
    <2> HIDE DEF newer
    <2>2. QED
      BY <2>1
  <1>4. PICK least \in ranks : \A n \in ranks : least <= n
    <2> HIDE DEF ranks
    <2>1. QED
      BY <1>3, LeastNat
  <1>5. PICK b \in E : least = Cardinality(newer(b))
    BY <1>4
  <1>6. ASSUME NEW c \in E, c # b, ~Newer(b.stamp, c.stamp)
        PROVE  FALSE
    <2>1. Newer(c.stamp, b.stamp)
      BY <1>1, <1>6, NewerOrders
    <2>2. newer(c) \in SUBSET newer(b) /\ c \in newer(b) /\ c \notin newer(c)
      BY <1>1, <2>1, NewerOrders
    <2>3. /\ IsFiniteSet(newer(b)) /\ Cardinality(newer(b)) \in Nat
          /\ Cardinality(newer(c)) \in Nat
      BY <1>2
    <2>4. Cardinality(newer(b)) <= Cardinality(newer(c))
      BY <1>3, <1>4, <1>5
    <2> HIDE DEF newer
    <2>5. Cardinality(newer(c)) <= Cardinality(newer(b)) /\ Cardinality(newer(c)) # Cardinality(newer(b))
      BY <2>2, <2>3, FS_Subset
    <2>6. QED
      BY <2>3, <2>4, <2>5
  <1>7. QED
    BY <1>6

\* Backups are finitely many, with different names.
DirsInv == IsFiniteSet(backups) /\ \A b, c \in backups : b.stamp = c.stamp => b = c

\* What a prune leaves is MaxBackups at most.
LEMMA KeptFew ==
    ASSUME TypeOK, DirsInv
    PROVE  IsFiniteSet(Kept(backups)) /\ Cardinality(Kept(backups)) <= MaxBackups
  <1> DEFINE valid == {b \in backups : Valid(b)}
             eligible == {b \in valid : \/ \A c \in valid : c = b \/ Newer(b.stamp, c.stamp)
                                        \/ now - b.stamp[1] <= MaxAge}
  <1>1. eligible \in SUBSET backups /\ eligible \in SUBSET Backup
    BY DEF TypeOK
  <1>2. Kept(backups) = {b \in eligible :
                             Cardinality({c \in eligible : Newer(c.stamp, b.stamp)}) < MaxBackups}
    BY DEF Kept
  <1> HIDE DEF eligible
  <1>3. IsFiniteSet(eligible) /\ \A b, c \in eligible : b.stamp = c.stamp => b = c
    BY <1>1, FS_Subset DEF DirsInv
  <1>4. PICK f \in [eligible -> Nat] :
            \A b, c \in eligible : /\ f[b] > f[c] <=> Newer(b.stamp, c.stamp)
                                   /\ f[b] = f[c] => b = c
    BY <1>1, <1>3, Ranked
  <1>5. \A b \in eligible :
            {c \in eligible : Newer(c.stamp, b.stamp)} = {c \in eligible : f[c] > f[b]}
    BY <1>4
  <1>6. Kept(backups) = {b \in eligible : Cardinality({c \in eligible : f[c] > f[b]}) < MaxBackups}
    BY <1>2, <1>5
  <1>7. MaxBackups \in Nat
    BY BridgeAssumption
  <1>8. Cardinality(Kept(backups)) <= MaxBackups
    BY <1>3, <1>4, <1>6, <1>7, TopFew
  <1>9. Kept(backups) \in SUBSET eligible
    BY <1>2
  <1>10. QED
    BY <1>3, <1>8, <1>9, FS_Subset

\* A prune keeps the newest backup that can be restored.
LEMMA KeptOne ==
    ASSUME TypeOK, DirsInv, \E b \in backups : Valid(b)
    PROVE  \E b \in Kept(backups) : Valid(b)
  <1> DEFINE valid == {b \in backups : Valid(b)}
             eligible == {b \in valid : \/ \A c \in valid : c = b \/ Newer(b.stamp, c.stamp)
                                        \/ now - b.stamp[1] <= MaxAge}
             above(b) == {c \in eligible : Newer(c.stamp, b.stamp)}
  <1>1. valid \in SUBSET backups /\ valid \in SUBSET Backup /\ valid # {}
    BY DEF TypeOK
  <1>2. PICK b \in valid : \A c \in valid : c = b \/ Newer(b.stamp, c.stamp)
    <2>1. IsFiniteSet(valid) /\ \A b, c \in valid : b.stamp = c.stamp => b = c
      BY <1>1, FS_Subset DEF DirsInv
    <2> HIDE DEF valid
    <2>2. QED
      BY <1>1, <2>1, NewestOf
  <1>3. \A c \in valid : c.stamp \in Stamps
    BY <1>1 DEF Backup
  <1>4. above(b) = {}
    <2> SUFFICES ASSUME NEW c \in valid, Newer(c.stamp, b.stamp)
                 PROVE  FALSE
      OBVIOUS
    <2> HIDE DEF valid
    <2>1. QED
      BY <1>2, <1>3, NewerOrders
  <1>5. Cardinality(above(b)) < MaxBackups
    <2> HIDE DEF above
    <2>1. QED
      BY <1>4, FS_EmptySet, BridgeAssumption
  <1>6. b \in Kept(backups) /\ Valid(b)
    BY <1>2, <1>5 DEF Kept
  <1>7. QED
    BY <1>6

\* An apply that is about to seal its backup has it to itself, and nobody has
\* sealed it.
Sealing(p) == job[p].pc = "hashed"
SealInv ==
    \A p \in Procs : Sealing(p) =>
        /\ \A b \in OwnBackup(p) : ~b.sealed
        /\ \A q \in Procs : Sealing(q) /\ job[q].backup = job[p].backup => q = p

LEMMA DirsStep == TypeOK /\ ClockInv /\ DirsInv /\ [Next]_vars => DirsInv'
  <1> SUFFICES ASSUME TypeOK, ClockInv, DirsInv, [Next]_vars
               PROVE  DirsInv'
    OBVIOUS
  <1>1. \A b, c \in backups' : b.stamp = c.stamp => b = c
    BY ClockStep DEF ClockInv
  <1>2. CASE backups' \in SUBSET backups
    BY <1>1, <1>2, FS_Subset DEF DirsInv
  <1>3. ASSUME NEW p \in Procs, NEW tie \in Ties, MakeManifest(p, tie)
        PROVE  IsFiniteSet(backups')
    <2>1. \E b : backups' = backups \cup {b}
      BY <1>3 DEF MakeManifest
    <2>2. QED
      BY <2>1, FS_AddElement DEF DirsInv
  <1>4. ASSUME NEW p \in Procs, Seal(p)
        PROVE  IsFiniteSet(backups')
    <2> DEFINE sealed(b) == IF b \in OwnBackup(p)
                            THEN [b EXCEPT !.sealed = TRUE, !.blob = file] ELSE b
               f == [b \in backups |-> sealed(b)]
    <2>1. backups' = {sealed(b) : b \in backups}
      BY <1>4 DEF Seal
    <2>2. f \in Surjection(backups, backups')
      <3> HIDE DEF sealed
      <3>1. QED
        BY <2>1 DEF Surjection
    <2> HIDE DEF f
    <2>3. QED
      BY <2>2, FS_Surjection DEF DirsInv
  <1>5. QED
    BY <1>1, <1>2, <1>3, <1>4
       DEF DirsInv, Next, Command, Step, Check, Preview, Rollback, Prune, PruneOwn, Load, Truncate,
           Fill, Unlink, SkipMissing, Verify, RestoreDone, WriteFails, ReadFails, Crash,
           NewVerdict, Tick, Kept, vars


\* A move of a process that is not about its backup.
Elsewhere(p) ==
    /\ UNCHANGED <<backups, crashes>>
    /\ job[p].pc # "sealed" /\ job'[p].pc \notin {"hashed", "sealed"}

\* What a process may do about backups.
LEMMA Moves ==
    ASSUME TypeOK, JobInv, NEW p \in Procs, Command(p) \/ Step(p) \/ Crash(p)
    PROVE  \/ \E tie \in Ties : MakeManifest(p, tie)
           \/ Seal(p) \/ PruneOwn(p) \/ Prune(p) \/ Crash(p)
           \/ Elsewhere(p)
  <1>1. job \in [Procs -> JobType] /\ job[p] \in JobType
    BY DEF TypeOK
  <1>2. Recovered(p).pc \in {"idle", "write"}
    BY <1>1, RecoveredFields DEF Idle
  <1>3. NextFile(p).pc = "write"
    BY <1>1 DEF NextFile, JobType
  <1>4. ASSUME Command(p)
        PROVE  Prune(p) \/ Elsewhere(p)
    <2>1. ASSUME NEW arg \in Args, NEW setState \in BOOLEAN, Check(p, arg, setState)
          PROVE  Elsewhere(p)
      BY <1>1, <2>1 DEF Check, Elsewhere, InFlight, Idle
    <2>2. ASSUME NEW b \in backups, Rollback(p, b)
          PROVE  Elsewhere(p)
      BY <1>1, <2>2 DEF Rollback, Elsewhere, InFlight, Idle
    <2>3. ASSUME NEW arg, NEW setState, NEW tie, Preview(p, arg, setState, tie)
          PROVE  Elsewhere(p)
      BY <2>3 DEF Preview, Elsewhere, InFlight
    <2>4. QED
      BY <1>4, <2>1, <2>2, <2>3 DEF Command
  <1>5. CASE Load(p)
    <2>1. job[p].pc = "ready" /\ UNCHANGED <<backups, crashes>>
      BY <1>5 DEF Load
    <2>2. job'[p] = Recovered(p) \/ job'[p].pc = "write"
      BY <1>1, <1>5 DEF Load, JobType
    <2>3. QED
      BY <1>2, <2>1, <2>2 DEF Elsewhere
  <1>6. CASE Truncate(p) \/ Fill(p) \/ Unlink(p)
    <2>1. job[p].pc \in {"write", "fill"} /\ UNCHANGED <<backups, crashes>>
      BY <1>6 DEF Truncate, Fill, Unlink, Writing
    <2>2. CASE Truncate(p)
      <3>1. job'[p].pc = "fill"
        BY <1>1, <2>2 DEF Truncate, Others, JobType
      <3>2. QED
        BY <2>1, <3>1 DEF Elsewhere
    <2>3. CASE Fill(p)
      <3>1. job'[p].pc = "write"
        BY <1>1, <2>3 DEF Fill, Others, JobType
      <3>2. QED
        BY <2>1, <3>1 DEF Elsewhere
    <2>4. CASE Unlink(p)
      <3>1. job'[p].pc = job[p].pc
        BY <1>1, <2>4 DEF Unlink, Others, JobType
      <3>2. QED
        BY <2>1, <3>1 DEF Elsewhere
    <2>5. QED
      BY <1>6, <2>2, <2>3, <2>4
  <1>7. CASE SkipMissing(p) \/ WriteFails(p)
    <2>1. job[p].pc \in {"write", "fill"} /\ UNCHANGED <<backups, crashes>>
      BY <1>7 DEF SkipMissing, WriteFails, Writing
    <2>2. job'[p] = Recovered(p) \/ job'[p] = NextFile(p)
      BY <1>1, <1>7 DEF SkipMissing, WriteFails
    <2>3. QED
      BY <1>2, <1>3, <2>1, <2>2 DEF Elsewhere
  <1>8. CASE Verify(p) \/ ReadFails(p) \/ RestoreDone(p)
    <2>1. job[p].pc \in {"write", "ready"} /\ UNCHANGED <<backups, crashes>>
      BY <1>8 DEF Verify, ReadFails, RestoreDone
    <2>2. job'[p] = Recovered(p) \/ job'[p] = Idle
      BY <1>1, <1>8 DEF Verify, ReadFails, RestoreDone
    <2>3. QED
      BY <1>2, <2>1, <2>2 DEF Elsewhere, Idle
  <1>9. QED
    BY <1>4, <1>5, <1>6, <1>7, <1>8 DEF Step

\* A process that seals stays the only one to do so under its name.
LEMMA SealStep == TypeOK /\ JobInv /\ SealInv /\ [Next]_vars => SealInv'
  <1> SUFFICES ASSUME TypeOK, JobInv, SealInv, [Next]_vars
               PROVE  SealInv'
    OBVIOUS
  <1>a. job \in [Procs -> JobType] /\ backups \subseteq Backup
    BY DEF TypeOK
  <1>1. ASSUME backups' \in SUBSET backups,
               \A q \in Procs : Sealing(q)' => Sealing(q) /\ job'[q].backup = job[q].backup
        PROVE  SealInv'
    BY <1>1 DEF SealInv, OwnBackup
  <1>2. ASSUME NEW p \in Procs, Command(p) \/ Step(p) \/ Crash(p)
        PROVE  SealInv'
    <2>1. \A q \in Procs : q # p => job'[q].pc = job[q].pc /\ job'[q].backup = job[q].backup
      BY <1>a, <1>2, OthersSame DEF Same
    <2>2. ASSUME NEW tie \in Ties, MakeManifest(p, tie)
          PROVE  SealInv'
      <3> PICK new : new = [stamp |-> <<now, tie>>, sealed |-> FALSE, hash |-> file,
                            blob |-> [presets |-> Absent, state |-> Absent]]
        OBVIOUS
      <3>1. /\ new.stamp = <<now, tie>> /\ ~new.sealed
            /\ backups' = backups \cup {new}
            /\ \A b \in backups : b.stamp # <<now, tie>>
            /\ \A q \in Procs : job[q].backup # <<now, tie>>
        BY <2>2 DEF MakeManifest
      <3>2. job'[p].backup = <<now, tie>>
        BY <1>a, <2>2 DEF MakeManifest, JobType
      <3>3. ASSUME NEW q \in Procs, Sealing(q)', q # p
            PROVE  \A b \in OwnBackup(q)' : ~b.sealed
        <4>1. Sealing(q) /\ job'[q].backup = job[q].backup
          BY <2>1, <3>3 DEF Sealing
        <4>2. \A b \in OwnBackup(q)' : b \in OwnBackup(q)
          BY <3>1, <4>1 DEF OwnBackup
        <4>3. QED
          BY <4>1, <4>2 DEF SealInv
      <3>4. \A b \in OwnBackup(p)' : ~b.sealed
        BY <3>1, <3>2 DEF OwnBackup
      <3>5. \A q, r \in Procs :
                Sealing(q)' /\ Sealing(r)' /\ job'[q].backup = job'[r].backup => q = r
        BY <2>1, <3>1, <3>2 DEF SealInv, Sealing
      <3>6. QED
        BY <3>3, <3>4, <3>5 DEF SealInv
    <2>3. CASE Seal(p)
      <3> DEFINE sealed(b) == IF b \in OwnBackup(p)
                              THEN [b EXCEPT !.sealed = TRUE, !.blob = file] ELSE b
      <3>1. /\ Sealing(p) /\ backups' = {sealed(b) : b \in backups}
            /\ job'[p].pc \in {"idle", "sealed"}
        BY <1>a, <2>3 DEF Seal, Sealing, Idle, JobType
      <3>2. \A b \in backups : sealed(b).stamp = b.stamp
        BY <1>a DEF Backup
      <3>3. \A q \in Procs : Sealing(q)' => q # p /\ Sealing(q) /\ job'[q].backup = job[q].backup
        BY <2>1, <3>1 DEF Sealing
      <3>4. ASSUME NEW q \in Procs, Sealing(q)', NEW c \in OwnBackup(q)'
            PROVE  ~c.sealed
        <4>1. PICK b \in backups : c = sealed(b)
          BY <3>1, <3>4 DEF OwnBackup
        <4>2. b \in OwnBackup(q) /\ Sealing(q) /\ q # p
          BY <3>2, <3>3, <3>4, <4>1 DEF OwnBackup
        <4>3. b \notin OwnBackup(p)
          BY <3>1, <4>2 DEF SealInv, OwnBackup
        <4>4. c = b
          BY <4>1, <4>3
        <4>5. QED
          BY <4>2, <4>4 DEF SealInv
      <3>5. QED
        BY <3>3, <3>4 DEF SealInv
    <2>4. CASE PruneOwn(p) \/ Prune(p) \/ Crash(p)
      <3>1. backups' \in SUBSET backups
        BY <2>4 DEF PruneOwn, Prune, Crash, Kept
      <3>2. job'[p] = job[p] \/ job'[p].pc # "hashed"
        BY <1>a, <2>4 DEF PruneOwn, Prune, Crash, Idle, JobType
      <3>3. QED
        BY <1>1, <2>1, <3>1, <3>2 DEF Sealing
    <2>5. CASE Elsewhere(p)
      BY <1>1, <2>1, <2>5 DEF Elsewhere, Sealing
    <2>6. QED
      BY <1>2, <2>2, <2>3, <2>4, <2>5, Moves
  <1>3. CASE NewVerdict \/ Tick \/ UNCHANGED vars
    BY <1>1, <1>3 DEF NewVerdict, Tick, vars, Sealing
  <1>4. QED
    BY <1>2, <1>3 DEF Next

BackupsInv == TypeOK /\ JobInv /\ ClockInv /\ DirsInv /\ SealInv

LEMMA BackupsStep == BackupsInv /\ [Next]_vars => BackupsInv'
BY TypeStep, JobStep, ClockStep, DirsStep, SealStep DEF BackupsInv

LEMMA BackupsInit == Init => BackupsInv
  <1>1. Init => ClockInv /\ SealInv
    BY DEF Init, ClockInv, ClockOK, InFlight, SealInv, Sealing, Idle
  <1>2. Init => DirsInv
    BY FS_EmptySet DEF Init, DirsInv
  <1>3. QED
    BY <1>1, <1>2, InitTyped DEF BackupsInv

\* What a seal does to the backups: its own becomes one that is sealed, and the
\* others stay.
LEMMA SealOwn ==
    ASSUME BackupsInv, NEW p \in Procs, Seal(p)
    PROVE  \/ OwnBackup(p) = {} /\ backups' = backups
           \/ \E b \in OwnBackup(p) : \E c : backups' = (backups \ {b}) \cup {c} /\ ~b.sealed
  <1> DEFINE sealed(b) == IF b \in OwnBackup(p)
                          THEN [b EXCEPT !.sealed = TRUE, !.blob = file] ELSE b
  <1>1. backups' = {sealed(b) : b \in backups} /\ Sealing(p)
    BY DEF Seal, Sealing
  <1>2. CASE OwnBackup(p) = {}
    BY <1>1, <1>2
  <1>3. ASSUME NEW b \in OwnBackup(p)
        PROVE  backups' = (backups \ {b}) \cup {sealed(b)} /\ ~b.sealed
    <2>1. \A d \in backups : d \in OwnBackup(p) <=> d = b
      BY <1>3 DEF OwnBackup, BackupsInv, DirsInv
    <2>2. b \in backups
      BY <1>3 DEF OwnBackup
    <2>3. \A d \in backups : d # b => sealed(d) = d
      BY <2>1
    <2> HIDE DEF sealed
    <2>4. backups' = (backups \ {b}) \cup {sealed(b)}
      BY <1>1, <2>2, <2>3
    <2>5. QED
      BY <1>1, <2>4 DEF BackupsInv, SealInv
  <1>4. QED
    BY <1>2, <1>3

\* Pruning, by the command or by any apply, never takes the last backup that
\* can be restored, however many processes run and wherever they are killed.
THEOREM OneIsKept == Spec => RecoveryPointKept
  <1> DEFINE Valids == \E b \in backups : Valid(b)
             Stays == Valids => \E b \in backups' : Valid(b)
  <1>1. ASSUME BackupsInv, Next, Valids
        PROVE  \E b \in backups' : Valid(b)
    <2>1. CASE backups \subseteq backups'
      BY <1>1, <2>1
    <2>2. CASE backups' = Kept(backups)
      BY <1>1, <2>2, KeptOne DEF BackupsInv
    <2>3. ASSUME NEW p \in Procs, Seal(p)
          PROVE  \E b \in backups' : Valid(b)
      <3>1. CASE backups' = backups
        BY <2>1, <3>1
      <3>2. ASSUME NEW b, NEW c, backups' = (backups \ {b}) \cup {c}, ~b.sealed
            PROVE  \E d \in backups' : Valid(d)
        BY <1>1, <3>2 DEF Valid
      <3>3. QED
        BY <1>1, <2>3, <3>1, <3>2, SealOwn
    <2>4. ASSUME NEW p \in Procs, NEW tie \in Ties, MakeManifest(p, tie)
          PROVE  backups \subseteq backups'
      BY <2>4 DEF MakeManifest
    <2>5. QED
      BY <1>1, <2>1, <2>2, <2>3, <2>4
         DEF Next, Command, Step, Check, Preview, Rollback, Prune, PruneOwn, Load, Truncate, Fill,
             Unlink, SkipMissing, Verify, RestoreDone, WriteFails, ReadFails, Crash, NewVerdict,
             Tick
  <1>2. BackupsInv /\ [Next]_vars => [Stays]_vars
    BY <1>1
  <1>3. QED
    BY <1>2, BackupsInit, BackupsStep, PTL DEF Spec, RecoveryPointKept

(***************************************************************************)
(* The bound on sealed backups                                             *)
(***************************************************************************)
Sealed == {b \in backups : b.sealed}
Pruning == {p \in Procs : job[p].pc = "sealed"}

\* Every step keeps the bound.
LEMMA RetentionStep == BackupsInv /\ RetentionHolds /\ [Next]_vars => RetentionHolds'
  <1> SUFFICES ASSUME BackupsInv, RetentionHolds, [Next]_vars
               PROVE  RetentionHolds'
    OBVIOUS
  <1>a. /\ job \in [Procs -> JobType] /\ crashes \in Nat /\ IsFiniteSet(backups)
        /\ MaxBackups \in Nat /\ IsFiniteSet(Procs)
    BY BridgeAssumption DEF BackupsInv, TypeOK, DirsInv
  <1>b. BackupsInv'
    BY BackupsStep
  <1>c. crashes' \in Nat /\ IsFiniteSet(backups')
    BY <1>b, BridgeAssumption DEF BackupsInv, TypeOK, DirsInv
  <1>1. /\ IsFiniteSet(Sealed) /\ Cardinality(Sealed) \in Nat
        /\ IsFiniteSet(Pruning) /\ Cardinality(Pruning) \in Nat
    BY <1>a, FS_Subset, FS_CardinalityType DEF Sealed, Pruning
  <1>2. /\ IsFiniteSet(Sealed') /\ Cardinality(Sealed') \in Nat
        /\ IsFiniteSet(Pruning') /\ Cardinality(Pruning') \in Nat
    BY <1>a, <1>c, FS_Subset, FS_CardinalityType DEF Sealed, Pruning
  <1>3. RetentionHolds <=> Cardinality(Sealed) <= MaxBackups + Cardinality(Pruning) + crashes
    BY DEF RetentionHolds, Sealed, Pruning
  <1>4. RetentionHolds' <=> Cardinality(Sealed') <= MaxBackups + Cardinality(Pruning') + crashes'
    BY DEF RetentionHolds, Sealed, Pruning
  <1>5. ASSUME Sealed' = Sealed, Pruning' = Pruning, crashes' = crashes
        PROVE  RetentionHolds'
    BY <1>3, <1>4, <1>5
  <1>6. ASSUME backups' = Kept(backups)
        PROVE  RetentionHolds'
    <2>1. IsFiniteSet(Kept(backups)) /\ Cardinality(Kept(backups)) <= MaxBackups
      BY KeptFew DEF BackupsInv
    <2>2. Sealed' \in SUBSET Kept(backups)
      BY <1>6 DEF Sealed
    <2>3. Cardinality(Sealed') <= Cardinality(Kept(backups)) /\ Cardinality(Kept(backups)) \in Nat
      BY <2>1, <2>2, FS_Subset, FS_CardinalityType
    <2> PICK x \in Nat, y \in Nat, z \in Nat :
            Cardinality(Sealed') = x /\ Cardinality(Pruning') = y /\ crashes' = z
      BY <1>2, <1>c, Zenon
    <2>4. x <= MaxBackups
      BY <1>a, <2>1, <2>3
    <2>5. x <= MaxBackups + y + z
      BY <1>a, <2>4
    <2>6. QED
      BY <1>4, <2>5
  <1>7. ASSUME NEW p \in Procs, Command(p) \/ Step(p) \/ Crash(p)
        PROVE  RetentionHolds'
    <2>1. \A q \in Procs : q # p => job'[q].pc = job[q].pc
      BY <1>a, <1>7, OthersSame DEF Same
    <2>2. ASSUME NEW tie \in Ties, MakeManifest(p, tie)
          PROVE  RetentionHolds'
      <3> PICK new : new = [stamp |-> <<now, tie>>, sealed |-> FALSE, hash |-> file,
                            blob |-> [presets |-> Absent, state |-> Absent]]
        OBVIOUS
      <3>1. backups' = backups \cup {new} /\ ~new.sealed
        BY <2>2 DEF MakeManifest
      <3>2. Sealed' = Sealed
        BY <3>1 DEF Sealed
      <3>3. job[p].pc = "checked" /\ job'[p].pc = "hashed" /\ crashes' = crashes
        BY <1>a, <2>2 DEF MakeManifest, JobType
      <3>4. Pruning' = Pruning
        BY <2>1, <3>3 DEF Pruning
      <3>5. QED
        BY <1>5, <3>2, <3>3, <3>4
    <2>3. CASE Seal(p)
      <3>1. /\ job[p].pc = "hashed" /\ crashes' = crashes
            /\ job'[p].pc = IF OwnBackup(p) = {} THEN "idle" ELSE "sealed"
        BY <1>a, <2>3 DEF Seal, Idle, JobType
      <3>2. CASE OwnBackup(p) = {}
        <4>1. backups' = backups
          BY <2>3, <3>2, SealOwn
        <4>2. Sealed' = Sealed /\ Pruning' = Pruning
          BY <2>1, <3>1, <3>2, <4>1 DEF Sealed, Pruning
        <4>3. QED
          BY <1>5, <3>1, <4>2
      <3>3. ASSUME NEW b \in OwnBackup(p), NEW c, backups' = (backups \ {b}) \cup {c}
            PROVE  RetentionHolds'
        <4>1. Sealed' \in SUBSET (Sealed \cup {c})
          BY <3>3 DEF Sealed
        <4>2. IsFiniteSet(Sealed \cup {c}) /\ Cardinality(Sealed \cup {c}) <= Cardinality(Sealed) + 1
          <5>1. CASE c \in Sealed
            <6>1. Sealed \cup {c} = Sealed
              BY <5>1
            <6>2. QED
              BY <1>1, <6>1
          <5>2. CASE c \notin Sealed
            <6>1. /\ IsFiniteSet(Sealed \cup {c})
                  /\ Cardinality(Sealed \cup {c}) = Cardinality(Sealed) + 1
              BY <1>1, <5>2, FS_AddElement
            <6>2. QED
              BY <1>1, <6>1
          <5>3. QED
            BY <5>1, <5>2
        <4>3. /\ Cardinality(Sealed') <= Cardinality(Sealed \cup {c})
              /\ Cardinality(Sealed \cup {c}) \in Nat
          BY <4>1, <4>2, FS_Subset, FS_CardinalityType
        <4>4. Pruning' = Pruning \cup {p} /\ p \notin Pruning
          BY <2>1, <3>1, <3>3 DEF Pruning
        <4>5. Cardinality(Pruning') = Cardinality(Pruning) + 1
          BY <1>1, <4>4, FS_AddElement
        <4> PICK x \in Nat, y \in Nat, u \in Nat, w \in Nat, z \in Nat :
                /\ Cardinality(Sealed') = x /\ Cardinality(Sealed) = y
                /\ Cardinality(Sealed \cup {c}) = u
                /\ Cardinality(Pruning) = w /\ crashes = z
          BY <1>1, <1>2, <1>a, <4>3, Zenon
        <4>6. x <= MaxBackups + (w + 1) + z
          BY <1>a, <1>3, <4>2, <4>3
        <4>7. QED
          BY <1>4, <3>1, <4>5, <4>6
      <3>4. QED
        BY <2>3, <3>2, <3>3, SealOwn
    <2>4. CASE PruneOwn(p) \/ Prune(p)
      BY <1>6, <2>4 DEF PruneOwn, Prune
    <2>5. CASE Crash(p)
      <3>1. backups' = backups /\ crashes' = crashes + 1 /\ job'[p].pc = "idle"
        BY <1>a, <2>5 DEF Crash, Idle
      <3>2. Sealed' = Sealed
        BY <3>1 DEF Sealed
      <3>3. Pruning' = Pruning \ {p}
        BY <2>1, <3>1 DEF Pruning
      <3>4. Cardinality(Pruning) <= Cardinality(Pruning') + 1
        <4>1. CASE p \in Pruning
          <5>1. Cardinality(Pruning') = Cardinality(Pruning) - 1
            BY <1>1, <3>3, <4>1, FS_RemoveElement
          <5>2. QED
            BY <1>1, <5>1
        <4>2. CASE p \notin Pruning
          <5>1. Pruning' = Pruning
            BY <3>3, <4>2
          <5>2. QED
            BY <1>1, <5>1
        <4>3. QED
          BY <4>1, <4>2
      <3> PICK x \in Nat, w \in Nat, v \in Nat, z \in Nat :
              /\ Cardinality(Sealed) = x /\ Cardinality(Pruning) = w
              /\ Cardinality(Pruning') = v /\ crashes = z
        BY <1>1, <1>2, <1>a, Zenon
      <3>5. x <= MaxBackups + v + (z + 1)
        BY <1>a, <1>3, <3>4
      <3>6. QED
        BY <1>4, <3>1, <3>2, <3>5
    <2>5a. CASE Elsewhere(p)
      <3>1. Sealed' = Sealed /\ crashes' = crashes
        BY <2>5a DEF Elsewhere, Sealed
      <3>2. Pruning' = Pruning
        BY <2>1, <2>5a DEF Elsewhere, Pruning
      <3>3. QED
        BY <1>5, <3>1, <3>2
    <2>6. QED
      BY <1>7, <2>2, <2>3, <2>4, <2>5, <2>5a, Moves DEF BackupsInv
  <1>8. CASE NewVerdict \/ Tick \/ UNCHANGED vars
    BY <1>5, <1>8 DEF NewVerdict, Tick, vars, Sealed, Pruning
  <1>9. QED
    BY <1>7, <1>8 DEF Next

\* Besides MaxBackups there are only the sealed backups of applies that have
\* not pruned yet or were killed before they could, for every number of
\* processes.
THEOREM RetentionKept == Spec => []RetentionHolds
  <1>1. Init => RetentionHolds
    <2> SUFFICES ASSUME Init
                 PROVE  RetentionHolds
      OBVIOUS
    <2>1. {b \in backups : b.sealed} = {} /\ {p \in Procs : job[p].pc = "sealed"} = {} /\ crashes = 0
      BY DEF Init, Idle
    <2>2. /\ Cardinality({b \in backups : b.sealed}) = 0
          /\ Cardinality({p \in Procs : job[p].pc = "sealed"}) = 0
      BY <2>1, FS_EmptySet, Zenon
    <2>3. 0 <= MaxBackups + 0 + 0
      BY BridgeAssumption
    <2>4. QED
      BY <2>1, <2>2, <2>3, Zenon DEF RetentionHolds
  <1>2. QED
    BY <1>1, BackupsInit, BackupsStep, RetentionStep, PTL DEF Spec

(***************************************************************************)
(* Nothing is left half-written by one process at a time: a file is torn   *)
(* only while it is being filled, and neither a backup nor a plan holds a  *)
(* torn one, for no backup is made while a file is being filled.           *)
(***************************************************************************)

\* Nobody was killed, and no write failed.
Undisrupted == crashes = 0 /\ faults = 0

TornInv ==
    Undisrupted =>
        /\ \A f \in Files : file[f] = Torn =>
               \E p \in Procs : job[p].pc = "fill" /\ f = Target(p)
        /\ \A b \in backups, f \in Files : b.blob[f] # Torn
        /\ \A p \in Procs : \A i \in DOMAIN job[p].plan : job[p].plan[i].content # Torn

\* A seating, a store and an absent file are readable.
LEMMA ReadableValues == \A x \in Seatings \cup Stores \cup {Absent} : x # Torn
  BY DistinctAssumption

\* A plan that puts back a readable backup writes no torn file.
LEMMA RestoreWritesWhole ==
    ASSUME NEW b \in Backup, \A f \in Files : b.blob[f] # Torn,
           NEW i \in DOMAIN RestorePlan(b)
    PROVE  RestorePlan(b)[i].content # Torn
  <1> DEFINE back(f) == [to |-> f, content |-> IF b.hash[f] = Absent THEN Absent ELSE b.blob[f]]
  <1>1. back("presets").content # Torn /\ back("state").content # Torn
    BY DistinctAssumption DEF Files
  <1>2. RestorePlan(b) = <<back("presets"), back("state")>>
    BY DEF RestorePlan
  <1> HIDE DEF back
  <1>3. QED
    BY <1>1, <1>2

\* What is left of a plan writes what it wrote.
LEMMA TailWrites ==
    ASSUME NEW plan \in Seq(Writes), plan # <<>>,
           \A i \in DOMAIN plan : plan[i].content # Torn
    PROVE  /\ Head(plan).content # Torn
           /\ \A i \in DOMAIN Tail(plan) : Tail(plan)[i].content # Torn
  <1>1. Len(plan) \in Nat /\ Len(plan) # 0 /\ DOMAIN plan = 1..Len(plan)
    OBVIOUS
  <1>2. Head(plan) = plan[1] /\ 1 \in DOMAIN plan
    BY <1>1
  <1>3. ASSUME NEW i \in DOMAIN Tail(plan)
        PROVE  i + 1 \in DOMAIN plan /\ Tail(plan)[i] = plan[i + 1]
    BY <1>1
  <1>4. QED
    BY <1>2, <1>3

\* A step that is no disruption keeps files, backups and the plan whole.
LEMMA TornStep ==
    ASSUME \A p, q \in Procs : p = q
    PROVE  TypeOK /\ JobInv /\ TornInv /\ [Next]_vars => TornInv'
  <1> SUFFICES ASSUME TypeOK, JobInv, TornInv, [Next]_vars, crashes' = 0, faults' = 0
               PROVE  /\ \A f \in Files : file'[f] = Torn =>
                             \E p \in Procs : job'[p].pc = "fill" /\ f = Target(p)'
                      /\ \A b \in backups', f \in Files : b.blob[f] # Torn
                      /\ \A p \in Procs : \A i \in DOMAIN job'[p].plan :
                             job'[p].plan[i].content # Torn
    BY DEF TornInv, Undisrupted
  <1>a. /\ file \in Contents /\ backups \subseteq Backup /\ job \in [Procs -> JobType]
        /\ crashes \in Nat /\ faults \in Nat /\ verdict \in Seatings \cup {None}
    BY BridgeAssumption DEF TypeOK
  <1>b. crashes = 0 /\ faults = 0
    <2>1. crashes' = crashes \/ crashes' = crashes + 1
      BY ZenonT(30) DEF Next, Command, Step, Check, Preview, Rollback, Prune, MakeManifest, Seal, PruneOwn, Load,
         Truncate, Fill, Unlink, SkipMissing, Verify, RestoreDone, WriteFails, ReadFails, Crash,
         NewVerdict, Tick, vars
    <2>2. faults' = faults \/ faults' = faults + 1
      BY ZenonT(30) DEF Next, Command, Step, Check, Preview, Rollback, Prune, MakeManifest, Seal, PruneOwn, Load,
         Truncate, Fill, Unlink, SkipMissing, Verify, RestoreDone, WriteFails, ReadFails, Crash,
         NewVerdict, Tick, vars
    <2>3. QED
      BY <1>a, <2>1, <2>2
  <1>c. /\ \A f \in Files : file[f] = Torn => \E p \in Procs : job[p].pc = "fill" /\ f = Target(p)
        /\ \A b \in backups, f \in Files : b.blob[f] # Torn
        /\ \A p \in Procs : \A i \in DOMAIN job[p].plan : job[p].plan[i].content # Torn
    BY <1>b DEF TornInv, Undisrupted
  <1>1. CASE NewVerdict \/ Tick \/ UNCHANGED vars
    BY <1>c, <1>1 DEF NewVerdict, Tick, vars, Target
  <1>2. ASSUME NEW p \in Procs, Command(p) \/ Step(p) \/ Crash(p)
        PROVE  /\ \A f \in Files : file'[f] = Torn =>
                      \E q \in Procs : job'[q].pc = "fill" /\ f = Target(q)'
               /\ \A b \in backups', f \in Files : b.blob[f] # Torn
               /\ \A q \in Procs : \A i \in DOMAIN job'[q].plan : job'[q].plan[i].content # Torn
    <2>a. Procs = {p} /\ job[p] \in JobType /\ job[p].plan \in Seq(Writes)
      BY <1>a DEF JobType
    <2>b. job[p].pc # "fill" => \A f \in Files : file[f] # Torn
      BY <1>c, <2>a
    <2>c. \A i \in DOMAIN job[p].plan : job[p].plan[i].content # Torn
      BY <1>c
    <2> SUFFICES /\ \A f \in Files : file'[f] = Torn =>
                        job'[p].pc = "fill" /\ f = Head(job'[p].plan).to
                 /\ \A b \in backups', f \in Files : b.blob[f] # Torn
                 /\ \A i \in DOMAIN job'[p].plan : job'[p].plan[i].content # Torn
      BY <2>a DEF Target
    <2>2. ASSUME job'[p] = Idle \/ job'[p] = Recovered(p)
          PROVE  \A i \in DOMAIN job'[p].plan : job'[p].plan[i].content # Torn
      <3>1. CASE job'[p] = Idle
        BY <3>1 DEF Idle
      <3>2. ASSUME NEW b \in OwnBackup(p), job'[p].plan = RestorePlan(b)
            PROVE  \A i \in DOMAIN job'[p].plan : job'[p].plan[i].content # Torn
        BY <1>a, <1>c, <3>2, RestoreWritesWhole DEF OwnBackup
      <3>3. QED
        BY <1>a, <2>2, <3>1, <3>2, RecoveredFields
    <2>3. CASE Command(p)
      <3>1. ASSUME NEW arg \in Args, NEW setState \in BOOLEAN, Check(p, arg, setState)
            PROVE  job'[p].plan = <<>> /\ job[p].pc # "fill" /\ UNCHANGED <<file, backups>>
        BY <1>a, <3>1 DEF Check, Idle, InFlight
      <3>2. ASSUME NEW b \in backups, Rollback(p, b)
            PROVE  job'[p].plan = RestorePlan(b) /\ job[p].pc # "fill" /\ UNCHANGED <<file, backups>>
        BY <1>a, <3>2 DEF Rollback, Idle, InFlight
      <3>3. ASSUME job' = job, job[p].pc # "fill", UNCHANGED file, backups' \subseteq backups
            PROVE  /\ \A f \in Files : file'[f] = Torn =>
                          job'[p].pc = "fill" /\ f = Head(job'[p].plan).to
                   /\ \A b \in backups', f \in Files : b.blob[f] # Torn
                   /\ \A i \in DOMAIN job'[p].plan : job'[p].plan[i].content # Torn
        BY <1>c, <2>b, <2>c, <3>3
      <3>4. ASSUME NEW arg \in Args, NEW setState \in BOOLEAN, NEW tie \in Ties,
                   Preview(p, arg, setState, tie)
            PROVE  job' = job /\ job[p].pc # "fill" /\ UNCHANGED file /\ backups' \subseteq backups
        BY <3>4 DEF Preview, InFlight
      <3>5. ASSUME Prune(p)
            PROVE  job' = job /\ job[p].pc # "fill" /\ UNCHANGED file /\ backups' \subseteq backups
        BY <3>5 DEF Prune, Kept, InFlight
      <3>6. ASSUME NEW b \in backups, job'[p].plan = RestorePlan(b)
            PROVE  \A i \in DOMAIN job'[p].plan : job'[p].plan[i].content # Torn
        BY <1>a, <1>c, <3>6, RestoreWritesWhole
      <3>7. CASE \E b \in backups : Rollback(p, b)
        BY <1>c, <2>b, <3>2, <3>6, <3>7
      <3>8. CASE \E arg \in Args, setState \in BOOLEAN : Check(p, arg, setState)
        BY <1>c, <2>b, <3>1, <3>8
      <3>9. QED
        BY <2>3, <3>3, <3>4, <3>5, <3>7, <3>8 DEF Command
    <2>4. CASE \E tie \in Ties : MakeManifest(p, tie)
      <3>1. PICK tie \in Ties : MakeManifest(p, tie)
        BY <2>4
      <3>2. job'[p].plan = job[p].plan /\ job[p].pc # "fill" /\ UNCHANGED file
        BY <1>a, <2>a, <3>1 DEF MakeManifest, JobType
      <3>3. ASSUME NEW b \in backups', NEW f \in Files
            PROVE  b.blob[f] # Torn
        BY <1>c, <3>1, DistinctAssumption DEF MakeManifest, Files
      <3>4. QED
        BY <2>b, <2>c, <3>2, <3>3
    <2>5. CASE Seal(p)
      <3> DEFINE j == job[p]
      <3>a. j \in JobType
        BY <2>a
      <3>b. /\ job'[p] = Idle \/ job'[p] = [j EXCEPT !.pc = "sealed"]
            /\ job[p].pc # "fill" /\ UNCHANGED file
        BY <1>a, <2>5 DEF Seal
      <3> HIDE DEF j
      <3>c. [j EXCEPT !.pc = "sealed"].plan = j.plan
        BY <3>a DEF JobType
      <3>1. /\ job'[p] = Idle \/ job'[p].plan = job[p].plan
            /\ job[p].pc # "fill" /\ UNCHANGED file
        BY <3>b, <3>c DEF j
      <3>2. ASSUME NEW b \in backups', NEW f \in Files
            PROVE  b.blob[f] # Torn
        <4>1. PICK c \in backups : b = IF c \in OwnBackup(p)
                                       THEN [c EXCEPT !.sealed = TRUE, !.blob = file] ELSE c
          BY <2>5 DEF Seal
        <4>2. [c EXCEPT !.sealed = TRUE, !.blob = file].blob = file
          <5>1. c \in Backup
            BY <1>a
          <5>2. QED
            BY <5>1 DEF Backup
        <4>3. QED
          BY <1>c, <2>b, <3>1, <4>1, <4>2
      <3>3. QED
        BY <2>2, <2>b, <2>c, <3>1, <3>2
    <2>6. CASE PruneOwn(p)
      <3>1. /\ job'[p].plan = job[p].plan /\ job[p].pc # "fill" /\ UNCHANGED file
            /\ backups' \subseteq backups
        BY <1>a, <2>a, <2>6 DEF PruneOwn, Kept, JobType
      <3>2. QED
        BY <1>c, <2>b, <2>c, <3>1
    <2>7. CASE Load(p)
      <3>1. job[p].pc # "fill" /\ UNCHANGED <<file, backups>>
        BY <2>7 DEF Load
      <3>2. CASE verdict = None \/ file.presets = Torn
        <4>1. job'[p] = Recovered(p)
          BY <1>a, <2>7, <3>2 DEF Load
        <4>2. QED
          BY <1>c, <2>2, <2>b, <3>1, <4>1
      <3>3. CASE ~(verdict = None \/ file.presets = Torn)
        <4> DEFINE store == IF file.presets = Absent THEN EmptyStore ELSE file.presets
                   entry == [to |-> "presets", content |-> [store EXCEPT ![JobName(p)] = verdict]]
                   boot  == [to |-> "state", content |-> verdict]
        <4>1. store \in Stores /\ verdict \in Seatings
          BY <1>a, <3>3 DEF Contents, Stores, EmptyStore
        <4>2. entry.content \in Stores /\ boot.content \in Seatings
          BY <4>1 DEF Stores
        <4>3. entry.content # Torn /\ boot.content # Torn
          BY <4>2, ReadableValues
        <4>4. job'[p].plan \in {<<entry, boot>>, <<entry>>}
          BY <1>a, <2>a, <2>7, <3>3 DEF Load, JobType
        <4> HIDE DEF entry, boot
        <4>5. \A i \in DOMAIN job'[p].plan : job'[p].plan[i].content # Torn
          BY <4>3, <4>4
        <4>6. QED
          BY <1>c, <2>b, <3>1, <4>5
      <3>4. QED
        BY <3>2, <3>3
    <2>8. CASE Truncate(p)
      <3>1. /\ job[p].pc # "fill" /\ backups' = backups /\ file' = [file EXCEPT ![Target(p)] = Torn]
            /\ job'[p].pc = "fill" /\ job'[p].plan = job[p].plan
        BY <1>a, <2>a, <2>8 DEF Truncate, Writing, Others, JobType
      <3>2. \A f \in Files : file'[f] = Torn => f = Target(p)
        BY <1>a, <2>b, <3>1 DEF Contents, Files
      <3>3. QED
        BY <1>c, <2>c, <3>1, <3>2 DEF Target
    <2>9. CASE Fill(p) \/ Unlink(p)
      <3>1. job[p].plan # <<>>
        BY <2>9 DEF Fill, Unlink, Writing, JobInv
      <3>2. /\ Head(job[p].plan).content # Torn
            /\ \A i \in DOMAIN Tail(job[p].plan) : Tail(job[p].plan)[i].content # Torn
        BY <2>a, <2>c, <3>1, TailWrites
      <3>3. /\ job'[p].plan = Tail(job[p].plan) /\ backups' = backups
            /\ file' = [file EXCEPT ![Target(p)] = Head(job[p].plan).content]
        BY <1>a, <2>a, <2>9 DEF Fill, Unlink, Writing, Others, JobType
      <3>4. \A f \in Files : file[f] = Torn => f = Target(p)
        BY <1>c, <2>a
      <3>5. \A f \in Files : file'[f] # Torn
        BY <1>a, <3>2, <3>3, <3>4 DEF Contents, Files
      <3>6. QED
        BY <1>c, <3>2, <3>3, <3>5
    <2>10. CASE SkipMissing(p)
      <3>1. /\ job[p].pc # "fill" /\ job[p].plan # <<>> /\ UNCHANGED <<file, backups>>
            /\ job'[p].plan = Tail(job[p].plan)
        BY <1>a, <2>a, <2>10 DEF SkipMissing, Writing, NextFile, JobType
      <3>2. QED
        BY <1>c, <2>a, <2>b, <2>c, <3>1, TailWrites
    <2>11. CASE Verify(p) \/ RestoreDone(p)
      <3>1. /\ job[p].pc # "fill" /\ UNCHANGED <<file, backups>>
            /\ job'[p] = Idle \/ job'[p] = Recovered(p)
        BY <1>a, <2>11 DEF Verify, RestoreDone
      <3>2. QED
        BY <1>c, <2>2, <2>b, <3>1
    <2>12. ~(WriteFails(p) \/ ReadFails(p) \/ Crash(p))
      BY <1>b DEF WriteFails, ReadFails, Crash
    <2>13. QED
      BY <1>2, <2>3, <2>4, <2>5, <2>6, <2>7, <2>8, <2>9, <2>10, <2>11, <2>12 DEF Step
  <1>3. QED
    BY <1>1, <1>2 DEF Next

\* With one hr process at a time, none of them killed and no write failing, both
\* files are readable whenever no command is under way.
THEOREM NothingHalfWritten ==
    ASSUME \A p, q \in Procs : p = q
    PROVE  Spec => []NothingTorn
  <1>1. Init => TornInv
    <2> SUFFICES ASSUME Init
                 PROVE  TornInv
      OBVIOUS
    <2>1. file.presets \in Stores \cup {Absent} /\ file.state \in Seatings \cup {Absent}
      BY DEF Init, Stores, EmptyStore
    <2>2. \A f \in Files : file[f] # Torn
      BY <2>1, ReadableValues DEF Files
    <2>3. QED
      BY <2>2 DEF Init, TornInv, Idle
  <1>2. TypeOK /\ JobInv /\ TornInv /\ [Next]_vars => (TypeOK /\ JobInv /\ TornInv)'
    BY TypeStep, JobStep, TornStep
  <1>3. TornInv => NothingTorn
    BY DEF TornInv, Undisrupted, NothingTorn, Quiet, InFlight
  <1>4. QED
    BY <1>1, <1>2, <1>3, InitTyped, PTL DEF Spec

(***************************************************************************)
(* One process whose applies alone may fail, and that nobody kills: it     *)
(* goes from the files it found to those it wants, or back to a backup     *)
(* that it still has.                                                      *)
(***************************************************************************)

\* The files an apply makes of those it found.
Wanted(p) ==
    LET store == IF job[p].base.presets = Absent THEN EmptyStore ELSE job[p].base.presets
    IN [presets |-> [store EXCEPT ![JobName(p)] = job[p].seating],
        state |-> IF job[p].setState THEN job[p].seating ELSE job[p].base.state]

EntryPlan(goal) == <<Back(goal, "presets")>>

\* What is not in its plan any more is written, and without --set-state the state
\* is as wanted all the time.
Advanced(f, plan, goal) ==
    /\ plan \in {FullPlan(goal), HalfPlan(goal), EntryPlan(goal), <<>>}
    /\ plan \in {HalfPlan(goal), <<>>} => f.presets = goal.presets
    /\ plan \in {EntryPlan(goal), <<>>} => f.state = goal.state

Returns(p) == \E b \in OwnBackup(p) : Valid(b) /\ b.hash = job[p].goal

\* What the only process can count on, by what it does.
AloneOK(p) ==
    /\ job[p].intact /\ ~job[p].skipped
    /\ job[p].kind = "apply" =>
           /\ job[p].pc \in {"idle", "checked"} => job[p].base = None
           /\ job[p].pc \notin {"idle", "checked"} => job[p].base \in Contents
           /\ job[p].pc # "idle" => job[p].arg \in Args
           /\ job[p].pc = "ready" => job[p].base = file
           /\ job[p].pc \in {"write", "fill"} =>
                  /\ job[p].seating \in Seatings /\ job[p].base.presets # Torn
                  /\ Advanced(file, job[p].plan, Wanted(p))
    /\ job[p].kind = "restore" => job[p].base \in Contents /\ Returns(p)

AloneInv == \A p \in Procs : AloneOK(p)

\* The plan of an apply that writes the presets alone.
LEMMA EntryPlans ==
    ASSUME NEW goal
    PROVE  /\ EntryPlan(goal) \notin {FullPlan(goal), HalfPlan(goal), <<>>}
           /\ Head(EntryPlan(goal)) = Back(goal, "presets") /\ Tail(EntryPlan(goal)) = <<>>
  <1> DEFINE x == Back(goal, "presets")
             y == Back(goal, "state")
  <1>1. x # y
    BY DEF Back
  <1> HIDE DEF x, y
  <1>2. Len(<<x, y>>) = 2 /\ Len(<<x>>) = 1 /\ <<x>>[1] = x /\ <<y>>[1] = y
    OBVIOUS
  <1>3. <<x>> \notin {<<x, y>>, <<y>>, <<>>}
    BY <1>1, <1>2
  <1>4. Head(<<x>>) = x /\ Tail(<<x>>) = <<>>
    OBVIOUS
  <1>5. QED
    BY <1>3, <1>4 DEF x, y, FullPlan, HalfPlan, EntryPlan

\* A write brings the files on by the first entry of the plan.
LEMMA WriteAdvances ==
    ASSUME file \in Contents, NEW plan, NEW goal, Advanced(file, plan, goal), plan # <<>>,
           file' = [file EXCEPT ![Head(plan).to] = Head(plan).content]
    PROVE  Advanced(file', Tail(plan), goal)
  <1> DEFINE first == Head(plan)
  <1>1. CASE plan = FullPlan(goal)
    <2>1. first = Back(goal, "presets") /\ Tail(plan) = HalfPlan(goal)
      BY <1>1, Plans
    <2>2. first.to = "presets" /\ first.content = goal.presets
      BY <2>1 DEF Back
    <2> HIDE DEF first
    <2>3. file' = [file EXCEPT !["presets"] = goal.presets]
      BY <2>2 DEF first
    <2>4. file'.presets = goal.presets
      BY <2>3 DEF Contents
    <2>5. HalfPlan(goal) \notin {EntryPlan(goal), <<>>}
      BY Plans, EntryPlans
    <2>6. QED
      BY <2>1, <2>4, <2>5 DEF Advanced
  <1>2. CASE plan = HalfPlan(goal)
    <2>1. first = Back(goal, "state") /\ Tail(plan) = <<>>
      BY <1>2, Plans
    <2>2. first.to = "state" /\ first.content = goal.state
      BY <2>1 DEF Back
    <2> HIDE DEF first
    <2>3. file' = [file EXCEPT !["state"] = goal.state] /\ file.presets = goal.presets
      BY <1>2, <2>2 DEF first, Advanced
    <2>4. file'.presets = goal.presets /\ file'.state = goal.state
      BY <2>3 DEF Contents
    <2>5. QED
      BY <2>1, <2>4 DEF Advanced
  <1>3. CASE plan = EntryPlan(goal)
    <2>1. first = Back(goal, "presets") /\ Tail(plan) = <<>>
      BY <1>3, EntryPlans
    <2>2. first.to = "presets" /\ first.content = goal.presets
      BY <2>1 DEF Back
    <2> HIDE DEF first
    <2>3. file' = [file EXCEPT !["presets"] = goal.presets] /\ file.state = goal.state
      BY <1>3, <2>2 DEF first, Advanced
    <2>4. file'.presets = goal.presets /\ file'.state = goal.state
      BY <2>3 DEF Contents
    <2>5. QED
      BY <2>1, <2>4 DEF Advanced
  <1>4. QED
    BY <1>1, <1>2, <1>3 DEF Advanced

\* Truncating takes back nothing that is not in the plan.
LEMMA TruncateAdvances ==
    ASSUME file \in Contents, NEW plan, NEW goal, Advanced(file, plan, goal), plan # <<>>,
           file' = [file EXCEPT ![Head(plan).to] = Torn]
    PROVE  Advanced(file', plan, goal)
  <1> DEFINE first == Head(plan)
  <1>1. CASE plan = FullPlan(goal)
    BY <1>1, Plans, EntryPlans DEF Advanced
  <1>2. CASE plan = HalfPlan(goal)
    <2>a. first = Back(goal, "state") /\ plan \notin {EntryPlan(goal), <<>>}
      BY <1>2, Plans, EntryPlans
    <2>1. first.to = "state" /\ plan \notin {EntryPlan(goal), <<>>}
      BY <2>a DEF Back
    <2> HIDE DEF first
    <2>2. file' = [file EXCEPT !["state"] = Torn] /\ file.presets = goal.presets
      BY <1>2, <2>1 DEF first, Advanced
    <2>3. file'.presets = goal.presets
      BY <2>2 DEF Contents
    <2>4. QED
      BY <1>2, <2>1, <2>3 DEF Advanced
  <1>3. CASE plan = EntryPlan(goal)
    <2>a. first = Back(goal, "presets") /\ plan \notin {HalfPlan(goal), <<>>}
      BY <1>3, EntryPlans
    <2>1. first.to = "presets" /\ plan \notin {HalfPlan(goal), <<>>}
      BY <2>a DEF Back
    <2> HIDE DEF first
    <2>2. file' = [file EXCEPT !["presets"] = Torn] /\ file.state = goal.state
      BY <1>3, <2>1 DEF first, Advanced
    <2>3. file'.state = goal.state
      BY <2>2 DEF Contents
    <2>4. QED
      BY <1>3, <2>1, <2>3 DEF Advanced
  <1>4. QED
    BY <1>1, <1>2, <1>3 DEF Advanced

\* A job that goes on writing.
LEMMA AloneWrites ==
    ASSUME NEW q \in Procs, AloneOK(q), backups' = backups,
           job[q].pc \in {"write", "fill"}, job'[q].pc \in {"write", "fill"},
           job'[q].kind = job[q].kind, job'[q].arg = job[q].arg,
           job'[q].setState = job[q].setState, job'[q].seating = job[q].seating,
           job'[q].base = job[q].base, job'[q].goal = job[q].goal,
           job'[q].backup = job[q].backup, job'[q].intact = job[q].intact,
           job'[q].skipped = job[q].skipped,
           job[q].kind = "apply" => Advanced(file', job'[q].plan, Wanted(q))
    PROVE  AloneOK(q)'
  <1>1. Wanted(q)' = Wanted(q)
    BY DEF Wanted, JobName
  <1>2. Returns(q) => Returns(q)'
    BY DEF Returns, OwnBackup, Valid
  <1>3. QED
    BY <1>1, <1>2 DEF AloneOK

\* Every step of the only process keeps it on its way.
LEMMA AloneStep ==
    ASSUME \A p, q \in Procs : p = q, MaxCrashes = 0, FaultyKinds \subseteq {"apply"},
           TypeOK, JobInv, RestoreInv, UndoInv, AloneInv, [Next]_vars
    PROVE  AloneInv'
  <1> SUFFICES ASSUME NEW q \in Procs
               PROVE  AloneOK(q)'
    BY DEF AloneInv
  <1> DEFINE j == job[q]
  <1>a. /\ AloneOK(q) /\ UndoOK(q) /\ job \in [Procs -> JobType] /\ j \in JobType
        /\ file \in Contents /\ backups \subseteq Backup /\ verdict \in Seatings \cup {None}
    BY DEF AloneInv, UndoInv, TypeOK
  <1>b. /\ j.kind = "restore" => j.pc \in {"write", "fill"}
        /\ j.pc = "fill" => j.plan # <<>>
        /\ \A p \in Procs : p = q
        /\ j.kind \in {"apply", "restore"}
    BY <1>a DEF JobInv, JobType
  <1>1. CASE job'[q] = j /\ backups' = backups /\ file' = file
    BY <1>a, <1>1 DEF AloneOK, Returns, OwnBackup, Valid, Wanted, JobName
  <1>2. CASE job'[q] = Idle
    BY <1>2 DEF Idle, AloneOK
  <1>3. CASE job'[q] = j /\ j.pc = "idle"
    BY <1>a, <1>b, <1>3 DEF AloneOK
  <1>4. ASSUME job'[q] = Recovered(q), j.kind = "apply", j.pc \in {"ready", "write", "fill"},
               backups' = backups
        PROVE  AloneOK(q)'
    <2>1. j.base \in Contents /\ j.intact /\ ~j.skipped
      BY <1>a, <1>4 DEF AloneOK
    <2>2. CASE job'[q] = Idle
      BY <1>2, <2>2
    <2>3. ASSUME NEW b \in OwnBackup(q), Valid(b),
                 Recovered(q) = [job[q] EXCEPT !.kind = "restore", !.pc = "write",
                                     !.plan = RestorePlan(b), !.goal = job[q].base]
          PROVE  AloneOK(q)'
      <3>1. /\ job'[q].kind = "restore" /\ job'[q].base = j.base /\ job'[q].goal = j.base
            /\ job'[q].backup = j.backup /\ job'[q].intact = j.intact
            /\ job'[q].skipped = j.skipped
        BY <1>a, <1>4, <2>3 DEF JobType
      <3>2. PICK c \in OwnBackup(q) : Valid(c) /\ c.hash = j.base
        BY <1>a, <1>4 DEF UndoOK, Recoverable
      <3>3. Returns(q)'
        BY <1>4, <3>1, <3>2 DEF Returns, OwnBackup, Valid
      <3>4. QED
        BY <2>1, <3>1, <3>3 DEF AloneOK
    <2>4. QED
      BY <1>a, <1>4, <2>2, <2>3, RecoveredShape
  <1>5. CASE Command(q)
    <2>1. ASSUME NEW arg \in Args, NEW setState \in BOOLEAN, Check(q, arg, setState)
          PROVE  AloneOK(q)'
      <3>1. /\ job'[q].pc = "checked" /\ job'[q].kind = "apply" /\ job'[q].base = None
            /\ job'[q].arg = arg /\ job'[q].intact /\ ~job'[q].skipped
        BY <1>a, <2>1 DEF Check, Idle
      <3>2. QED
        BY <3>1 DEF AloneOK
    <2>2. ASSUME NEW b \in backups, Rollback(q, b)
          PROVE  AloneOK(q)'
      <3>1. /\ job'[q].kind = "restore" /\ job'[q].base = file /\ job'[q].goal = b.hash
            /\ job'[q].backup = b.stamp /\ job'[q].intact /\ ~job'[q].skipped
            /\ backups' = backups /\ Valid(b)
        BY <1>a, <2>2 DEF Rollback, Idle
      <3>2. Returns(q)'
        BY <3>1 DEF Returns, OwnBackup, Valid
      <3>3. QED
        BY <1>a, <3>1, <3>2 DEF AloneOK
    <2>3. ASSUME NEW arg \in Args, NEW setState \in BOOLEAN, NEW tie \in Ties,
                 Preview(q, arg, setState, tie)
          PROVE  AloneOK(q)'
      BY <1>1, <2>3 DEF Preview
    <2>4. CASE Prune(q)
      BY <1>3, <2>4 DEF Prune, InFlight
    <2>5. QED
      BY <1>5, <2>1, <2>2, <2>3, <2>4 DEF Command
  <1>6. ASSUME NEW tie \in Ties, MakeManifest(q, tie)
        PROVE  AloneOK(q)'
    <2>1. /\ job'[q].pc = "hashed" /\ job'[q].base = file /\ job'[q].kind = j.kind
          /\ job'[q].arg = j.arg /\ job'[q].intact = j.intact /\ job'[q].skipped = j.skipped
          /\ j.pc = "checked"
      BY <1>a, <1>6 DEF MakeManifest, JobType
    <2>2. j.kind = "apply"
      BY <1>b, <2>1
    <2>3. QED
      BY <1>a, <2>1, <2>2 DEF AloneOK
  <1>7. CASE Seal(q) \/ PruneOwn(q)
    <2>1. CASE job'[q] = Idle
      BY <1>2, <2>1
    <2>2. CASE job'[q] # Idle
      <3>1. /\ j.pc \in {"hashed", "sealed"}
            /\ \E pc \in {"sealed", "ready"} : job'[q] = [j EXCEPT !.pc = pc]
            /\ file' = file
        BY <1>a, <1>7, <2>2 DEF Seal, PruneOwn
      <3> HIDE DEF j
      <3>2. /\ job'[q].pc \in {"sealed", "ready"} /\ job'[q].base = j.base
            /\ job'[q].kind = j.kind /\ job'[q].arg = j.arg
            /\ job'[q].intact = j.intact /\ job'[q].skipped = j.skipped
        BY <1>a, <3>1 DEF JobType
      <3>3. j.kind = "apply"
        BY <1>b, <3>1
      <3>4. j.base = file
        BY <1>a, <3>1, <3>3 DEF j, UndoOK, Undisturbed
      <3>5. QED
        BY <1>a, <3>1, <3>2, <3>3, <3>4 DEF j, AloneOK
    <2>3. QED
      BY <2>1, <2>2
  <1>8. CASE Load(q)
    <2>1. /\ j.pc = "ready" /\ j.kind = "apply" /\ j.base = file /\ j.arg \in Args
          /\ j.intact /\ ~j.skipped /\ backups' = backups /\ file' = file
      BY <1>a, <1>b, <1>8 DEF Load, AloneOK
    <2>2. CASE verdict = None \/ file.presets = Torn
      BY <1>4, <1>8, <2>1, <2>2, <1>a DEF Load
    <2>3. CASE ~(verdict = None \/ file.presets = Torn)
      <3> DEFINE store == IF file.presets = Absent THEN EmptyStore ELSE file.presets
                 w == [presets |-> [store EXCEPT ![JobName(q)] = verdict],
                       state |-> IF j.setState THEN verdict ELSE file.state]
                 plan == IF j.setState THEN FullPlan(w) ELSE EntryPlan(w)
      <3>1. job' = [job EXCEPT ![q].pc = "write", ![q].seating = verdict, ![q].plan = plan]
        BY <1>8, <2>3 DEF Load, FullPlan, EntryPlan, Back
      <3>2. Advanced(file, plan, w)
        <4>1. ~j.setState => file.state = w.state
          OBVIOUS
        <4> HIDE DEF w
        <4>2. QED
          BY <4>1, Plans, EntryPlans DEF Advanced
      <3> HIDE DEF plan
      <3>3. /\ job'[q].pc = "write" /\ job'[q].seating = verdict /\ job'[q].plan = plan
            /\ job'[q].kind = "apply" /\ job'[q].arg = j.arg /\ job'[q].setState = j.setState
            /\ job'[q].base = file /\ job'[q].intact /\ ~job'[q].skipped
        BY <1>a, <2>1, <3>1 DEF JobType
      <3>4. Wanted(q)' = w
        BY <3>3 DEF Wanted, JobName
      <3> HIDE DEF w
      <3>5. QED
        BY <1>a, <2>1, <2>3, <3>2, <3>3, <3>4 DEF AloneOK
    <2>4. QED
      BY <2>2, <2>3
  <1>9. CASE Truncate(q)
    <2>1. /\ job'[q] = [j EXCEPT !.pc = "fill", !.wrote = TRUE] /\ backups' = backups
          /\ file' = [file EXCEPT ![Head(j.plan).to] = Torn] /\ j.pc = "write" /\ j.plan # <<>>
      BY <1>a, <1>9 DEF Truncate, Writing, Target, Others
    <2>2. j.kind = "apply" => Advanced(file', j.plan, Wanted(q))
      BY <1>a, <2>1, TruncateAdvances DEF AloneOK
    <2> HIDE DEF j
    <2>3. /\ job'[q].pc = "fill" /\ job'[q].plan = j.plan /\ job'[q].kind = j.kind
          /\ job'[q].arg = j.arg /\ job'[q].setState = j.setState
          /\ job'[q].seating = j.seating /\ job'[q].base = j.base /\ job'[q].goal = j.goal
          /\ job'[q].backup = j.backup /\ job'[q].intact = j.intact
          /\ job'[q].skipped = j.skipped
      BY <1>a, <2>1 DEF JobType
    <2>4. QED
      BY <1>a, <2>1, <2>2, <2>3, AloneWrites DEF j
  <1>10. CASE Fill(q) \/ Unlink(q)
    <2>1. /\ job'[q] \in {[j EXCEPT !.pc = "write", !.plan = Tail(@)], [j EXCEPT !.plan = Tail(@)]}
          /\ file' = [file EXCEPT ![Head(j.plan).to] = Head(j.plan).content]
          /\ backups' = backups /\ j.pc \in {"write", "fill"} /\ j.plan # <<>>
          /\ j.pc = "write" \/ job'[q] = [j EXCEPT !.pc = "write", !.plan = Tail(@)]
      BY <1>a, <1>b, <1>10 DEF Fill, Unlink, Writing, Target, Others
    <2>2. j.kind = "apply" => Advanced(file', Tail(j.plan), Wanted(q))
      BY <1>a, <2>1, WriteAdvances DEF AloneOK
    <2> HIDE DEF j
    <2>3. /\ job'[q].pc = "write" /\ job'[q].plan = Tail(j.plan) /\ job'[q].kind = j.kind
          /\ job'[q].arg = j.arg /\ job'[q].setState = j.setState
          /\ job'[q].seating = j.seating /\ job'[q].base = j.base /\ job'[q].goal = j.goal
          /\ job'[q].backup = j.backup /\ job'[q].intact = j.intact
          /\ job'[q].skipped = j.skipped
      <3>1. CASE job'[q] = [j EXCEPT !.pc = "write", !.plan = Tail(@)]
        BY <1>a, <3>1 DEF JobType
      <3>2. CASE job'[q] = [j EXCEPT !.plan = Tail(@)] /\ j.pc = "write"
        BY <1>a, <3>2 DEF JobType
      <3>3. QED
        BY <2>1, <3>1, <3>2
    <2>4. QED
      BY <1>a, <2>1, <2>2, <2>3, AloneWrites DEF j
  <1>11. CASE SkipMissing(q)
    BY <1>a, <1>11 DEF SkipMissing, AloneOK, Returns
  <1>12. CASE Verify(q)
    BY <1>2, <1>4, <1>12, <1>a DEF Verify
  <1>13. CASE WriteFails(q) \/ ReadFails(q)
    <2>1. j.kind = "apply" /\ j.pc \in {"ready", "write", "fill"} /\ backups' = backups
      BY <1>b, <1>13 DEF WriteFails, ReadFails, Writing
    <2>2. job'[q] = Recovered(q)
      BY <1>a, <1>13, <2>1 DEF WriteFails, ReadFails
    <2>3. QED
      BY <1>4, <2>1, <2>2
  <1>14. CASE RestoreDone(q)
    BY <1>a, <1>2, <1>14 DEF RestoreDone
  <1>15. ~Crash(q)
    BY DEF Crash, TypeOK
  <1>16. CASE NewVerdict \/ Tick \/ UNCHANGED vars
    BY <1>1, <1>16 DEF NewVerdict, Tick, vars
  <1>17. QED
    BY <1>b, <1>5, <1>6, <1>7, <1>8, <1>9, <1>10, <1>11, <1>12, <1>13, <1>14, <1>15, <1>16
       DEF Next, Step

\* The files after an apply that has passed its read-back, and after a restore.
LEMMA Ends ==
    ASSUME TypeOK, RestoreInv, AloneInv, NEW q \in Procs
    PROVE  /\ job[q].kind = "apply" /\ job[q].pc = "write" /\ job[q].plan = <<>>
              => file = Wanted(q)
           /\ RestoreDone(q) => file = job[q].goal
  <1> DEFINE goal == job[q].goal
             w == Wanted(q)
  <1>1. AloneOK(q) /\ PlanOK(q) /\ file \in Contents
    BY DEF AloneInv, RestoreInv, TypeOK
  <1>2. ASSUME job[q].kind = "apply", job[q].pc = "write", job[q].plan = <<>>
        PROVE  file = w
    <2>1. file.presets = w.presets /\ file.state = w.state
      BY <1>1, <1>2 DEF AloneOK, Advanced
    <2>2. w = [presets |-> w.presets, state |-> w.state]
      BY DEF Wanted
    <2> HIDE DEF w
    <2>3. QED
      BY <1>1, <2>1, <2>2 DEF Contents
  <1>3. ASSUME RestoreDone(q)
        PROVE  file = goal
    <2>1. /\ goal \in Contents /\ job[q].plan = <<>> /\ job[q].intact /\ ~job[q].skipped
          /\ FullPlan(goal) # <<>> /\ job[q].kind = "restore"
      BY <1>1, <1>3, Plans DEF RestoreDone, PlanOK, AloneOK
    <2>2. file.presets = goal.presets /\ file.state = goal.state
      BY <1>1, <2>1 DEF PlanOK
    <2>3. QED
      BY <1>1, <2>1, <2>2 DEF Contents
  <1>4. QED
    BY <1>2, <1>3
=============================================================================
