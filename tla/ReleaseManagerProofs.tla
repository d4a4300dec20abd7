------------------------ MODULE ReleaseManagerProofs ------------------------
(***************************************************************************)
(* Proofs about ReleaseManager, for every set of releases, every policy    *)
(* and every number of builds, failures and kills.                         *)
(***************************************************************************)
EXTENDS ReleaseManager, CountingLemmas, FiniteSetTheorems, TLAPS

Kinds == {"none", "build", "activate", "rollback", "prune"}
Stages == {"done", "copying", "backup", "ledger", "swap", "register", "link", "config",
           "fill", "archive", "remove", "entries"}

Jobs == [kind : Kinds, pc : Stages, name : Releases \cup {0}, id : Int,
         todo : SUBSET Releases, seen : SUBSET Releases, before : Pairs]
JobType == job \in Jobs

\* Backups are known by their numbers, and a ledger names a previous link.
BackupsInv ==
    /\ \A b \in backups : b.id \in 1..made /\ (b.ledger => b.link \in Links)
    /\ \A b, c \in backups : b.id = c.id => b = c

\* The backup of an activation holds link and file as it found them.
OwnHolds ==
    \E b \in backups :
        b.id = job.id /\ b.ledger /\ [link |-> b.link, config |-> b.config] = job.before

\* What a command can count on, by how far it is.
IdleInv == job.kind = "none" => job.pc = "done"

BuildInv ==
    job.kind = "build" =>
        job.pc = "copying" /\ job.name \in Releases /\ release[job.name].state = "partial"

ActivateInv ==
    job.kind = "activate" =>
        /\ job.name \in Releases
        /\ job.pc \in {"backup", "ledger", "swap", "register", "link", "config", "fill"}
        /\ job.pc = "backup" => made < MaxMade
        /\ job.pc \in {"backup", "ledger", "swap"} => Pair = job.before
        /\ job.pc = "ledger" => \E b \in backups : b.id = job.id
        /\ job.pc \in {"swap", "register", "link", "config", "fill"} => OwnHolds
        /\ job.pc = "register" => link = job.name
        /\ job.pc \in {"register", "link"} => config = job.before.config
        /\ job.pc \in {"config", "fill"} =>
               link = job.before.link /\ job.before.config # Absent

RollbackInv ==
    job.kind = "rollback" =>
        /\ job.pc \in {"config", "fill", "link"}
        /\ \E b \in backups : b.id = job.id /\ b.ledger /\ (job.pc = "link" => config = b.config)

PruneInv ==
    job.kind = "prune" =>
        /\ job.pc \in {"archive", "remove", "entries"} /\ made < MaxMade
        /\ link \notin job.todo
        /\ job.pc = "remove" =>
               job.name \in job.todo /\ \E a \in archives : a.name = job.name

JobInv == IdleInv /\ BuildInv /\ ActivateInv /\ RollbackInv /\ PruneInv

IInv == TypeOK /\ JobType /\ BackupsInv /\ JobInv

(***************************************************************************)
(* Lemmas                                                                  *)
(***************************************************************************)

\* There is one backup a job calls its own.
LEMMA OwnIs ==
    ASSUME BackupsInv, NEW b \in backups, b.id = job.id
    PROVE  Own = b
BY DEF BackupsInv, Own

\* create_backup adds a backup with the next number, and its prune leaves it.
LEMMA BackupMade ==
    ASSUME TypeOK, BackupsInv, CreateBackup, made < MaxMade
    PROVE  /\ made' = made + 1 /\ made' \in 0..MaxMade
           /\ NewBackup \in backups' /\ NewBackup.id = made' /\ ~NewBackup.ledger
           /\ backups' \subseteq backups \cup {NewBackup}
           /\ backups' \subseteq Backup
           /\ BackupsInv'
<1> DEFINE dirs == backups \cup {NewBackup}
           eligible == {b \in dirs : Young(b.at) \/ \A c \in dirs : c.id <= b.id}
           newer == {c \in eligible : c.id > NewBackup.id}
<1> USE ReleaseAssumption
<1>1. made \in Nat /\ now \in 0..MaxTime /\ MaxMade \in Nat
  BY DEF TypeOK
<1>2. /\ NewBackup \in Backup
      /\ NewBackup.id = made + 1 /\ ~NewBackup.ledger
  BY <1>1 DEF NewBackup, Backup, Configs
<1>3. \A c \in dirs : c.id \in 1..(made + 1) /\ c.id <= NewBackup.id
  BY <1>1, <1>2 DEF BackupsInv
<1>4. NewBackup \in eligible
  BY <1>1, <1>2, <1>3
<1>5. newer = {}
  BY <1>1, <1>2, <1>3
<1>6. Cardinality(newer) < MaxBackups
  <2>1. Cardinality(newer) = 0
    BY <1>5, FS_EmptySet
  <2>2. 0 < MaxBackups
    OBVIOUS
  <2> HIDE DEF newer
  <2> QED BY <2>1, <2>2
<1>7. backups' = KeptBackups(dirs) /\ made' = made + 1
  BY DEF CreateBackup
<1>8. NewBackup \in backups' /\ backups' \subseteq dirs
  BY <1>4, <1>6, <1>7 DEF KeptBackups
<1>9. dirs \subseteq Backup
  BY <1>2 DEF TypeOK
<1>10. \A b \in backups' : b.id \in 1..made' /\ (b.ledger => b.link \in Links)
  <2> TAKE b \in backups'
  <2>1. CASE b = NewBackup
    BY <2>1, <1>1, <1>2, <1>7
  <2>2. CASE b \in backups
    BY <2>2, <1>1, <1>7 DEF BackupsInv
  <2> QED BY <2>1, <2>2, <1>8
<1>11. \A b, c \in backups' : b.id = c.id => b = c
  BY <1>1, <1>2, <1>8 DEF BackupsInv
<1>12. made' \in 0..MaxMade
  BY <1>1, <1>7
<1>13. BackupsInv'
  BY <1>10, <1>11 DEF BackupsInv
<1> HIDE DEF eligible, newer
<1> QED BY <1>2, <1>7, <1>8, <1>9, <1>12, <1>13

LEMMA Bounds ==
    /\ MaxMade \in Nat /\ MaxTime \in Nat /\ MaxFaults \in Nat /\ MaxCrashes \in Nat
    /\ MaxBuilds \in Nat
    /\ TypeOK => made \in Nat /\ made <= MaxMade /\ 0 \in 0..made
<1>1. MaxMade \in Nat /\ MaxTime \in Nat /\ MaxFaults \in Nat /\ MaxCrashes \in Nat
  BY ReleaseAssumption
<1>2. MaxBuilds \in Nat
  BY ReleaseAssumption
<1>3. TypeOK => made \in 0..MaxMade
  BY DEF TypeOK
<1> QED BY <1>1, <1>2, <1>3

LEMMA OneMore ==
    ASSUME NEW f \in [Releases -> 0..MaxBuilds], NEW n \in Releases, f[n] < MaxBuilds
    PROVE  [f EXCEPT ![n] = @ + 1] \in [Releases -> 0..MaxBuilds]
<1>1. f[n] \in 0..MaxBuilds
  OBVIOUS
<1>2. f[n] + 1 \in 0..MaxBuilds
  BY <1>1, Bounds
<1> QED BY <1>2

LEMMA BackupId ==
    ASSUME TypeOK, BackupsInv, NEW b \in backups
    PROVE  b.id \in Int /\ b.id \in 0..made
<1>1. b.id \in 1..made
  BY DEF BackupsInv
<1>2. made \in Nat
  BY Bounds
<1> QED BY <1>1, <1>2

LEMMA IdleJob == Idle \in Jobs
BY ReleaseAssumption DEF Idle, Jobs, Kinds, Stages, Pairs, Links, Configs

LEMMA InitInv == Init => IInv
<1> SUFFICES ASSUME Init PROVE IInv
  OBVIOUS
<1> USE ReleaseAssumption DEF Init
<1>1. TypeOK
  BY DEF TypeOK, Gone, States, Links, Configs, Idle, Pairs
<1>2. JobType
  BY IdleJob DEF JobType
<1>3. BackupsInv
  BY DEF BackupsInv
<1>4. JobInv
  BY DEF JobInv, IdleInv, BuildInv, ActivateInv, RollbackInv, PruneInv, Idle
<1> QED BY <1>1, <1>2, <1>3, <1>4 DEF IInv

\* What the invariant says of a step that returns to no command.
LEMMA BackToIdle ==
    ASSUME job' = Idle
    PROVE  JobType' /\ JobInv'
<1> USE ReleaseAssumption
<1>1. JobType'
  BY IdleJob DEF JobType
<1>2. JobInv'
  BY DEF JobInv, IdleInv, BuildInv, ActivateInv, RollbackInv, PruneInv, Idle
<1> QED BY <1>1, <1>2

\* The steps of builds, verifications and of the world.
LEMMA BuildSteps ==
    ASSUME IInv,
           \/ \E n \in Releases : Build(n) \/ Verify(n) \/ Damage(n)
           \/ Built \/ BuildFails
    PROVE  IInv'
<1> USE ReleaseAssumption
<1> USE DEF IInv
<1>1. BackupsInv'
  BY DEF BackupsInv, Build, Built, BuildFails, Verify, Damage
<1>2. ASSUME NEW n \in Releases, Build(n) PROVE IInv'
  <2> USE <1>2 DEF Build
  <2>1. /\ job'.kind = "build" /\ job'.id = 0 /\ job'.todo = {} /\ job'.seen = {}
        /\ job'.before \in Pairs
    BY DEF Idle, Pairs, Links, Configs
  <2>2. 0 \in 0..made
    BY Bounds
  <2>3. release' \in [Releases -> [state : States, at : 0..MaxTime]]
    BY DEF TypeOK, States
  <2>4. built' \in [Releases -> 0..MaxBuilds]
    <3>1. built \in [Releases -> 0..MaxBuilds] /\ built[n] < MaxBuilds
      BY DEF TypeOK
    <3> QED BY <3>1, OneMore
  <2>5. TypeOK'
    BY <2>1, <2>3, <2>4, <2>2 DEF TypeOK
  <2>6. JobType'
    BY IdleJob DEF JobType, Jobs, Kinds, Stages
  <2>7. job'.kind = "build" /\ job'.pc = "copying" /\ job'.name = n
    BY DEF Idle
  <2>8. release'[n].state = "partial"
    BY DEF TypeOK
  <2>9. JobInv'
    BY <2>7, <2>8 DEF JobInv, IdleInv, BuildInv, ActivateInv, RollbackInv, PruneInv
  <2> QED BY <1>1, <2>5, <2>6, <2>9
<1>3. CASE Built \/ BuildFails
  <2> USE <1>3 DEF Built, BuildFails
  <2>1. Gone \in [state : States, at : 0..MaxTime] /\ job.name \in Releases
    BY Bounds DEF Gone, States, JobInv, BuildInv
  <2>2. release' \in [Releases -> [state : States, at : 0..MaxTime]]
    <3>1. CASE Built
      BY <2>1, <3>1 DEF TypeOK, States
    <3>2. CASE BuildFails
      BY <2>1, <3>2 DEF TypeOK
    <3> QED BY <3>1, <3>2
  <2>3. faults' \in 0..MaxFaults
    BY Bounds DEF TypeOK
  <2>4. TypeOK'
    BY <2>2, <2>3 DEF TypeOK, Idle, Pairs, Links, Configs
  <2> QED BY <1>1, <2>4, BackToIdle
<1>4. ASSUME NEW n \in Releases, Verify(n) \/ Damage(n) PROVE IInv'
  <2> USE <1>4 DEF Verify, Damage
  <2>1. TypeOK'
    BY DEF TypeOK, States, Gone
  <2>2. JobType'
    BY DEF JobType, Jobs
  <2>3. JobInv'
    BY DEF JobInv, IdleInv, BuildInv, ActivateInv, RollbackInv, PruneInv
  <2> QED BY <1>1, <2>1, <2>2, <2>3
<1> QED BY <1>2, <1>3, <1>4

LEMMA WorldSteps ==
    ASSUME IInv, Crash \/ ApplyBackup \/ Tick
    PROVE  IInv'
<1> USE ReleaseAssumption
<1> USE DEF IInv
<1>1. CASE Crash
  <2>1. TypeOK'
    BY <1>1 DEF Crash, TypeOK, Idle, Pairs, Links, Configs
  <2>2. BackupsInv'
    BY <1>1 DEF Crash, BackupsInv
  <2> QED BY <1>1, <2>1, <2>2, BackToIdle DEF Crash
<1>2. CASE ApplyBackup
  <2> USE <1>2 DEF ApplyBackup
  <2>1. made' = made + 1 /\ made' \in 0..MaxMade /\ backups' \subseteq Backup /\ BackupsInv'
    BY BackupMade
  <2>2. TypeOK'
    BY <2>1 DEF TypeOK
  <2>3. JobType' /\ JobInv'
    BY DEF JobType, JobInv, IdleInv, BuildInv, ActivateInv, RollbackInv, PruneInv
  <2> QED BY <2>1, <2>2, <2>3
<1>3. CASE Tick
  <2> USE <1>3 DEF Tick
  <2>1. TypeOK'
    BY DEF TypeOK
  <2>2. BackupsInv' /\ JobType'
    BY DEF BackupsInv, JobType
  <2>3. JobInv'
    BY DEF JobInv, IdleInv, BuildInv, ActivateInv, RollbackInv, PruneInv
  <2> QED BY <2>1, <2>2, <2>3
<1> QED BY <1>1, <1>2, <1>3

\* release-activate, up to its restore.
LEMMA ActivationSteps ==
    ASSUME IInv,
           \/ \E n \in Releases : Activate(n)
           \/ MakeBackup \/ WriteLedger \/ Swap \/ Register \/ ActivationFails
    PROVE  IInv'
<1> USE ReleaseAssumption
<1> USE DEF IInv
<1>1. ASSUME NEW n \in Releases, Activate(n) PROVE IInv'
  <2> USE <1>1 DEF Activate
  <2>1. /\ job'.kind = "activate" /\ job'.pc = "backup" /\ job'.name = n
        /\ job'.before = Pair /\ Pair \in Pairs /\ job'.id = 0 /\ job'.todo = {}
    BY DEF Idle, Pair, Pairs, TypeOK
  <2>2. job'.seen = {}
    BY DEF Idle
  <2>3. 0 \in 0..made
    BY Bounds
  <2>4. TypeOK'
    BY <2>1, <2>2, <2>3 DEF TypeOK
  <2>5. JobType'
    BY <2>1, IdleJob DEF JobType, Jobs, Kinds, Stages
  <2>6. BackupsInv'
    BY DEF BackupsInv
  <2>7. JobInv'
    BY <2>1 DEF JobInv, IdleInv, BuildInv, ActivateInv, RollbackInv, PruneInv, Pair
  <2> QED BY <2>4, <2>5, <2>6, <2>7
<1>2. CASE MakeBackup
  <2> USE <1>2 DEF MakeBackup
  <2>1. job.kind = "activate" /\ made < MaxMade /\ job.name \in Releases /\ Pair = job.before
    BY DEF JobInv, IdleInv, BuildInv, ActivateInv, RollbackInv, PruneInv, JobType, Jobs, Kinds
  <2>2. /\ made' = made + 1 /\ made' \in 0..MaxMade /\ backups' \subseteq Backup
        /\ NewBackup \in backups' /\ NewBackup.id = made' /\ BackupsInv'
    BY <2>1, BackupMade
  <2>3. job' = [job EXCEPT !.pc = "ledger", !.id = made']
    OBVIOUS
  <2>4. /\ job'.kind = "activate" /\ job'.pc = "ledger" /\ job'.name = job.name
        /\ job'.before = job.before /\ job'.id = made' /\ job'.todo = job.todo
        /\ job'.seen = job.seen
    BY <2>1, <2>3 DEF JobType, Jobs
  <2>5. TypeOK'
    BY <2>2, <2>4 DEF TypeOK
  <2>6. JobType'
    BY <2>2, <2>3, made' \in Int DEF JobType, Jobs, Stages
  <2>7. Pair' = job'.before
    BY <2>1, <2>4 DEF Pair
  <2>8. JobInv'
    BY <2>1, <2>2, <2>4, <2>7 DEF JobInv, IdleInv, BuildInv, ActivateInv, RollbackInv, PruneInv
  <2> QED BY <2>2, <2>5, <2>6, <2>8
<1>3. CASE WriteLedger
  <2> USE <1>3 DEF WriteLedger
  <2>1. /\ job.kind = "activate" /\ job.name \in Releases /\ Pair = job.before
        /\ \E b \in backups : b.id = job.id
    BY DEF JobInv, IdleInv, BuildInv, ActivateInv, RollbackInv, PruneInv, JobType, Jobs, Kinds
  <2>2. PICK b \in backups : b.id = job.id
    BY <2>1
  <2>3. Own = b
    BY <2>2, OwnIs
  <2> DEFINE c == [b EXCEPT !.ledger = TRUE, !.link = job.before.link, !.config = config]
  <2>4. b \in Backup /\ job.before \in Pairs /\ config \in Configs
    BY DEF TypeOK
  <2>5. /\ c \in Backup /\ c.id = b.id /\ c.ledger
        /\ c.link = job.before.link /\ c.config = config /\ c.link \in Links
    BY <2>4 DEF Backup, Pairs
  <2>6. backups' = (backups \ {b}) \cup {c}
    BY <2>3
  <2>7. /\ job'.kind = "activate" /\ job'.pc = "swap" /\ job'.name = job.name
        /\ job'.before = job.before /\ job'.id = job.id /\ job'.todo = job.todo
        /\ job'.seen = job.seen
    BY <2>1 DEF JobType, Jobs
  <2> HIDE DEF c
  <2>8. TypeOK'
    BY <2>5, <2>6, <2>7 DEF TypeOK
  <2>9. JobType'
    BY DEF JobType, Jobs, Stages
  <2>10. BackupsInv'
    BY <2>5, <2>6 DEF BackupsInv, Links
  <2>11. [link |-> c.link, config |-> c.config] = job.before
    BY <2>1, <2>4, <2>5 DEF Pair, Pairs
  <2>12. OwnHolds'
    BY <2>2, <2>5, <2>6, <2>7, <2>11 DEF OwnHolds
  <2>13. Pair' = job'.before
    BY <2>1, <2>7 DEF Pair
  <2>14. JobInv'
    BY <2>1, <2>7, <2>12, <2>13 DEF JobInv, IdleInv, BuildInv, ActivateInv, RollbackInv, PruneInv
  <2> QED BY <2>8, <2>9, <2>10, <2>14
<1>4. CASE Swap
  <2> USE <1>4 DEF Swap
  <2>1. job.kind = "activate" /\ job.name \in Releases /\ Pair = job.before /\ OwnHolds
    BY DEF JobInv, IdleInv, BuildInv, ActivateInv, RollbackInv, PruneInv, JobType, Jobs, Kinds
  <2>2. /\ job'.kind = "activate" /\ job'.pc = "register" /\ job'.name = job.name
        /\ job'.before = job.before /\ job'.id = job.id /\ job'.todo = job.todo
        /\ job'.seen = job.seen
    BY <2>1 DEF JobType, Jobs
  <2>3. TypeOK'
    BY <2>1, <2>2 DEF TypeOK, Links
  <2>4. JobType' /\ BackupsInv'
    BY DEF JobType, Jobs, BackupsInv, Stages
  <2>5. OwnHolds'
    BY <2>1, <2>2 DEF OwnHolds
  <2>6. config' = job'.before.config
    BY <2>1, <2>2 DEF Pair
  <2>7. JobInv'
    BY <2>1, <2>2, <2>5, <2>6 DEF JobInv, IdleInv, BuildInv, ActivateInv, RollbackInv, PruneInv
  <2> QED BY <2>3, <2>4, <2>7
<1>5. CASE Register
  <2> USE <1>5 DEF Register
  <2>1. job.kind = "activate" /\ job.name \in Releases
    BY DEF JobInv, IdleInv, BuildInv, ActivateInv, RollbackInv, PruneInv, JobType, Jobs, Kinds
  <2>2. config' \in Configs
    BY <2>1 DEF TypeOK, Configs, Entries
  <2>3. TypeOK'
    BY <2>2 DEF TypeOK, Idle, Pairs, Links, Configs
  <2>4. BackupsInv'
    BY DEF BackupsInv
  <2> QED BY <2>3, <2>4, BackToIdle
<1>6. CASE ActivationFails
  <2> USE <1>6 DEF ActivationFails
  <2>1. /\ job.kind = "activate" /\ job.name \in Releases /\ OwnHolds
        /\ job.pc = "swap" => Pair = job.before
        /\ job.pc = "register" => config = job.before.config
    BY DEF JobInv, IdleInv, BuildInv, ActivateInv, RollbackInv, PruneInv, JobType, Jobs, Kinds
  <2>2. BackupsInv'
    BY DEF BackupsInv
  <2>3. faults' \in 0..MaxFaults
    BY DEF TypeOK
  <2>4. CASE job' = Idle
    <3>1. TypeOK'
      BY <2>3, <2>4 DEF TypeOK, Idle, Pairs, Links, Configs
    <3> QED BY <2>2, <2>4, <3>1, BackToIdle
  <2>5. CASE job.pc = "register" /\ job' = [job EXCEPT !.pc = "link"]
    <3>1. /\ job'.kind = "activate" /\ job'.pc = "link" /\ job'.name = job.name
          /\ job'.before = job.before /\ job'.id = job.id /\ job'.todo = job.todo
          /\ job'.seen = job.seen
      BY <2>1, <2>5 DEF JobType, Jobs
    <3>2. TypeOK'
      BY <2>3, <3>1 DEF TypeOK
    <3>3. JobType'
      BY <2>5 DEF JobType, Jobs, Stages
    <3>4. OwnHolds'
      BY <2>1, <3>1 DEF OwnHolds
    <3>5. JobInv'
      BY <2>1, <2>5, <3>1, <3>4
         DEF JobInv, IdleInv, BuildInv, ActivateInv, RollbackInv, PruneInv
    <3> QED BY <2>2, <3>2, <3>3, <3>5
  <2>6. CASE /\ job.pc = "swap" /\ job.before.config # Absent
             /\ job' = [job EXCEPT !.pc = "config"]
    <3>1. /\ job'.kind = "activate" /\ job'.pc = "config" /\ job'.name = job.name
          /\ job'.before = job.before /\ job'.id = job.id /\ job'.todo = job.todo
          /\ job'.seen = job.seen
      BY <2>1, <2>6 DEF JobType, Jobs
    <3>2. TypeOK'
      BY <2>3, <3>1 DEF TypeOK
    <3>3. JobType'
      BY <2>6 DEF JobType, Jobs, Stages
    <3>4. OwnHolds'
      BY <2>1, <3>1 DEF OwnHolds
    <3>5. link' = job'.before.link
      BY <2>1, <2>6, <3>1 DEF Pair
    <3>6. JobInv'
      BY <2>1, <2>6, <3>1, <3>4, <3>5
         DEF JobInv, IdleInv, BuildInv, ActivateInv, RollbackInv, PruneInv
    <3> QED BY <2>2, <3>2, <3>3, <3>6
  <2> QED BY <2>4, <2>5, <2>6
<1> QED BY <1>1, <1>2, <1>3, <1>4, <1>5, <1>6

\* The backup of a job that restores, by what is restored already.
LEMMA OwnFacts ==
    ASSUME IInv, job.pc \in {"link", "config", "fill"}
    PROVE  /\ Own \in backups /\ Own.id = job.id /\ Own.ledger /\ Own \in Backup
           /\ Own.link \in Links
           /\ \/ /\ job.kind = "activate" /\ job.name \in Releases /\ OwnHolds
                 /\ [link |-> Own.link, config |-> Own.config] = job.before
                 /\ Own.link = job.before.link /\ Own.config = job.before.config
                 /\ job.pc = "link" => config = job.before.config
                 /\ job.pc \in {"config", "fill"} =>
                        link = job.before.link /\ job.before.config # Absent
              \/ /\ job.kind = "rollback"
                 /\ job.pc = "link" => config = Own.config
<1>1. job.kind \in {"activate", "rollback"}
  BY DEF IInv, JobInv, IdleInv, BuildInv, PruneInv, JobType, Jobs, Kinds
<1>2. CASE job.kind = "activate"
  <2>1. PICK b \in backups :
            b.id = job.id /\ b.ledger /\ [link |-> b.link, config |-> b.config] = job.before
    BY <1>2 DEF IInv, JobInv, ActivateInv, OwnHolds
  <2>2. Own = b
    BY <2>1, OwnIs DEF IInv
  <2>3. b.link = job.before.link /\ b.config = job.before.config
    BY <2>1
  <2>4. b \in Backup /\ b.link \in Links
    BY <2>1 DEF IInv, TypeOK, BackupsInv
  <2> QED BY <1>2, <2>1, <2>2, <2>3, <2>4 DEF IInv, JobInv, ActivateInv
<1>3. CASE job.kind = "rollback"
  <2>1. PICK b \in backups :
            b.id = job.id /\ b.ledger /\ (job.pc = "link" => config = b.config)
    BY <1>3 DEF IInv, JobInv, RollbackInv
  <2>2. Own = b
    BY <2>1, OwnIs DEF IInv
  <2>3. b \in Backup /\ b.link \in Links
    BY <2>1 DEF IInv, TypeOK, BackupsInv
  <2> QED BY <1>3, <2>1, <2>2, <2>3
<1> QED BY <1>1, <1>2, <1>3

\* release-rollback, and the restore it shares with a failed activation.
LEMMA RestoreSteps ==
    ASSUME IInv,
           \/ \E b \in backups : Rollback(b)
           \/ RestoreLink \/ DeleteConfig \/ TruncateConfig \/ FillConfig
    PROVE  IInv'
<1> USE ReleaseAssumption
<1> USE DEF IInv
<1>1. CASE \E b \in backups : Rollback(b)
  <2>1. PICK b \in backups : Rollback(b)
    BY <1>1
  <2>2. b.id \in Int /\ b.id \in 0..made
    BY BackupId
  <2> USE <2>1 DEF Rollback
  <2>3. /\ job'.kind = "rollback" /\ job'.pc = "config" /\ job'.id = b.id
        /\ job'.todo = {} /\ job'.seen = {} /\ job'.before \in Pairs
    BY DEF Idle, Pairs, Links, Configs
  <2>4. TypeOK'
    BY <2>3, <2>2 DEF TypeOK
  <2>5. JobType' /\ BackupsInv'
    BY <2>2, IdleJob DEF JobType, Jobs, Kinds, Stages, BackupsInv
  <2>6. JobInv'
    BY <2>3 DEF JobInv, IdleInv, BuildInv, ActivateInv, RollbackInv, PruneInv
  <2> QED BY <2>4, <2>5, <2>6
<1>2. ASSUME job.pc \in {"link", "config", "fill"}
      PROVE  /\ Own \in backups /\ Own.id = job.id /\ Own.ledger /\ Own \in Backup
             /\ Own.link \in Links
             /\ \/ /\ job.kind = "activate" /\ job.name \in Releases /\ OwnHolds
                   /\ [link |-> Own.link, config |-> Own.config] = job.before
                   /\ Own.link = job.before.link /\ Own.config = job.before.config
                   /\ job.pc = "link" => config = job.before.config
                   /\ job.pc \in {"config", "fill"} =>
                          link = job.before.link /\ job.before.config # Absent
                \/ /\ job.kind = "rollback"
                   /\ job.pc = "link" => config = Own.config
  BY <1>2, OwnFacts
<1>3. Own.config \in Configs \/ job.pc \notin {"link", "config", "fill"}
  BY <1>2 DEF Backup
<1>4. CASE RestoreLink
  <2> USE <1>4 DEF RestoreLink
  <2>1. BackupsInv' /\ link' \in Links
    BY <1>2 DEF BackupsInv
  <2>2. CASE job' = Idle
    <3>1. TypeOK'
      BY <2>1, <2>2 DEF TypeOK, Idle, Pairs, Links, Configs
    <3> QED BY <2>1, <2>2, <3>1, BackToIdle
  <2>3. CASE /\ job.kind = "activate" /\ Own.config # Absent
             /\ job' = [job EXCEPT !.pc = "config"]
    <3>1. /\ job'.kind = "activate" /\ job'.pc = "config" /\ job'.name = job.name
          /\ job'.before = job.before /\ job'.id = job.id /\ job'.todo = job.todo
          /\ job'.seen = job.seen
      BY <2>3 DEF JobType, Jobs
    <3>2. TypeOK'
      BY <2>1, <3>1 DEF TypeOK
    <3>3. JobType'
      BY <2>3 DEF JobType, Jobs, Stages
    <3>4. OwnHolds'
      BY <1>2, <2>3, <3>1 DEF OwnHolds
    <3>5. link' = job'.before.link /\ job'.before.config # Absent /\ job'.name \in Releases
      BY <1>2, <2>3, <3>1
    <3>6. JobInv'
      BY <3>1, <3>4, <3>5 DEF JobInv, IdleInv, BuildInv, ActivateInv, RollbackInv, PruneInv
    <3> QED BY <2>1, <3>2, <3>3, <3>6
  <2> QED BY <2>2, <2>3
<1>5. ASSUME job.pc \in {"config", "fill"}, job' = AfterConfig, config' = Own.config,
             UNCHANGED <<release, archives, link, backups, now, made, built, faults, crashes>>
      PROVE  IInv'
  <2> USE <1>5 DEF AfterConfig
  <2>1. BackupsInv' /\ config' \in Configs
    BY <1>2, <1>3 DEF BackupsInv
  <2>2. CASE job' = Idle
    <3>1. TypeOK'
      BY <2>1, <2>2 DEF TypeOK, Idle, Pairs, Links, Configs
    <3> QED BY <2>1, <2>2, <3>1, BackToIdle
  <2>3. CASE job.kind = "rollback" /\ job' = [job EXCEPT !.pc = "link"]
    <3>1. /\ job'.kind = "rollback" /\ job'.pc = "link" /\ job'.id = job.id
          /\ job'.before = job.before /\ job'.todo = job.todo /\ job'.seen = job.seen
      BY <2>3 DEF JobType, Jobs
    <3>2. TypeOK'
      BY <2>1, <3>1 DEF TypeOK
    <3>3. JobType'
      BY <2>3 DEF JobType, Jobs, Stages
    <3>4. JobInv'
      BY <1>2, <3>1 DEF JobInv, IdleInv, BuildInv, ActivateInv, RollbackInv, PruneInv
    <3> QED BY <2>1, <3>2, <3>3, <3>4
  <2> QED BY <2>2, <2>3
<1>6. CASE DeleteConfig
  BY <1>5, <1>6 DEF DeleteConfig
<1>7. CASE FillConfig
  BY <1>5, <1>7 DEF FillConfig
<1>8. CASE TruncateConfig
  <2> USE <1>8 DEF TruncateConfig
  <2>1. /\ job'.kind = job.kind /\ job'.pc = "fill" /\ job'.name = job.name
        /\ job'.before = job.before /\ job'.id = job.id /\ job'.todo = job.todo
        /\ job'.seen = job.seen
    BY DEF JobType, Jobs
  <2>2. TypeOK'
    BY <2>1 DEF TypeOK, Configs
  <2>3. JobType' /\ BackupsInv'
    BY DEF JobType, Jobs, Stages, BackupsInv
  <2>4. CASE job.kind = "activate"
    <3>1. OwnHolds'
      BY <1>2, <2>1, <2>4 DEF OwnHolds
    <3>2. JobInv'
      BY <1>2, <2>1, <2>4, <3>1
         DEF JobInv, IdleInv, BuildInv, ActivateInv, RollbackInv, PruneInv
    <3> QED BY <2>2, <2>3, <3>2
  <2>5. CASE job.kind = "rollback"
    <3>1. JobInv'
      BY <1>2, <2>1, <2>5 DEF JobInv, IdleInv, BuildInv, ActivateInv, RollbackInv, PruneInv
    <3> QED BY <2>2, <2>3, <3>1
  <2> QED BY <1>2, <2>4, <2>5
<1> QED BY <1>1, <1>4, <1>6, <1>7, <1>8

\* release-prune.
LEMMA PruneSteps ==
    ASSUME IInv,
           \/ \E n \in Releases : Archive(n)
           \/ BeginPrune \/ Remove \/ RemoveHalf
           \/ PruneArchives \/ CleanEntries
    PROVE  IInv'
<1> USE ReleaseAssumption
<1> USE DEF IInv
<1>1. CASE BeginPrune
  <2> DEFINE listed == {m \in Releases : Listed(m)}
             todo == listed \ KeptReleases(listed)
  <2>1. todo \subseteq Releases /\ listed \subseteq Releases /\ link \notin todo
    BY DEF KeptReleases
  <2>2. job' = [Idle EXCEPT !.kind = "prune", !.pc = "archive", !.seen = listed, !.todo = todo]
    BY <1>1 DEF BeginPrune
  <2> HIDE DEF listed, todo
  <2>3. /\ job'.kind = "prune" /\ job'.pc = "archive" /\ job'.id = 0
        /\ job'.todo = todo /\ job'.seen = listed /\ job'.before \in Pairs
    BY <2>2 DEF Idle, Pairs, Links, Configs
  <2>4. TypeOK'
    BY <1>1, <2>1, <2>3 DEF BeginPrune, TypeOK, Gone, States
  <2>5. JobType'
    BY <2>1, <2>2, IdleJob DEF JobType, Jobs, Kinds, Stages
  <2>6. BackupsInv'
    BY <1>1 DEF BeginPrune, BackupsInv
  <2>7. JobInv'
    BY <1>1, <2>1, <2>3
       DEF BeginPrune, JobInv, IdleInv, BuildInv, ActivateInv, RollbackInv, PruneInv
  <2> QED BY <2>4, <2>5, <2>6, <2>7
<1>2. ASSUME job.pc \in {"archive", "remove", "entries"}
      PROVE  job.kind = "prune" /\ PruneInv
  BY <1>2 DEF JobInv, IdleInv, BuildInv, ActivateInv, RollbackInv, JobType, Jobs, Kinds
<1>3. ASSUME NEW n \in Releases, Archive(n) PROVE IInv'
  <2> USE <1>3 DEF Archive
  <2>1. job.kind = "prune" /\ n \in job.todo
    BY <1>2 DEF Newest
  <2>2. /\ job'.kind = "prune" /\ job'.pc = "remove" /\ job'.name = n
        /\ job'.before = job.before /\ job'.id = job.id /\ job'.todo = job.todo
        /\ job'.seen = job.seen
    BY <2>1 DEF JobType, Jobs
  <2>3. archives' \subseteq [name : Releases, at : 0..MaxTime] /\ \E a \in archives' : a.name = n
    <3>1. release[n].at \in 0..MaxTime
      BY DEF TypeOK
    <3> DEFINE new == [name |-> n, at |-> release[n].at]
               old == {a \in archives : a.name # n}
    <3>2. new \in [name : Releases, at : 0..MaxTime] /\ new.name = n
      BY <3>1
    <3>3. old \subseteq [name : Releases, at : 0..MaxTime]
      BY DEF TypeOK
    <3>4. archives' = old \cup {new}
      OBVIOUS
    <3> HIDE DEF new, old
    <3> QED BY <3>2, <3>3, <3>4
  <2>4. TypeOK'
    BY <2>2, <2>3 DEF TypeOK
  <2>5. JobType' /\ BackupsInv'
    BY DEF JobType, Jobs, Stages, BackupsInv
  <2>6. JobInv'
    BY <1>2, <2>1, <2>2, <2>3 DEF JobInv, IdleInv, BuildInv, ActivateInv, RollbackInv, PruneInv
  <2> QED BY <2>4, <2>5, <2>6
<1>4. CASE Remove
  <2> USE <1>4 DEF Remove
  <2>1. job.kind = "prune"
    BY <1>2
  <2>2. /\ job'.kind = "prune" /\ job'.pc = "archive" /\ job'.name = job.name
        /\ job'.before = job.before /\ job'.id = job.id /\ job'.todo = job.todo \ {job.name}
        /\ job'.seen = job.seen
    BY <2>1 DEF JobType, Jobs
  <2>3. release' \in [Releases -> [state : States, at : 0..MaxTime]]
    <3>1. Gone \in [state : States, at : 0..MaxTime]
      BY Bounds DEF Gone, States
    <3> QED BY <3>1 DEF TypeOK
  <2>4. TypeOK'
    BY <2>2, <2>3 DEF TypeOK
  <2>5. JobType' /\ BackupsInv'
    BY DEF JobType, Jobs, Stages, BackupsInv
  <2>6. JobInv'
    BY <1>2, <2>1, <2>2 DEF JobInv, IdleInv, BuildInv, ActivateInv, RollbackInv, PruneInv
  <2> QED BY <2>4, <2>5, <2>6
<1>5. CASE RemoveHalf
  <2>1. job.name \in Releases
    BY <1>2, <1>5 DEF RemoveHalf, PruneInv, TypeOK
  <2>2. PICK state \in {"partial", "damaged"} :
            release' = [release EXCEPT ![job.name].state = state]
    BY <1>5 DEF RemoveHalf
  <2>3. release' \in [Releases -> [state : States, at : 0..MaxTime]]
    BY <2>1, <2>2 DEF TypeOK, States
  <2>4. crashes' \in 0..MaxCrashes
    BY <1>5, Bounds DEF RemoveHalf, TypeOK
  <2>5. TypeOK'
    BY <1>5, <2>3, <2>4 DEF RemoveHalf, TypeOK, Idle, Pairs, Links, Configs
  <2>6. BackupsInv'
    BY <1>5 DEF RemoveHalf, BackupsInv
  <2> QED BY <1>5, <2>5, <2>6, BackToIdle DEF RemoveHalf
<1>6. CASE PruneArchives
  <2> USE <1>6 DEF PruneArchives
  <2>1. job.kind = "prune"
    BY <1>2
  <2>2. /\ job'.kind = "prune" /\ job'.pc = "entries" /\ job'.name = job.name
        /\ job'.before = job.before /\ job'.id = job.id /\ job'.todo = job.todo
        /\ job'.seen = job.seen
    BY <2>1 DEF JobType, Jobs
  <2>3. archives' \subseteq archives
    BY DEF KeptArchives
  <2>4. TypeOK'
    BY <2>2, <2>3 DEF TypeOK
  <2>5. JobType' /\ BackupsInv'
    BY DEF JobType, Jobs, Stages, BackupsInv
  <2>6. JobInv'
    BY <1>2, <2>1, <2>2 DEF JobInv, IdleInv, BuildInv, ActivateInv, RollbackInv, PruneInv
  <2> QED BY <2>4, <2>5, <2>6
<1>7. CASE CleanEntries
  <2> USE <1>7 DEF CleanEntries, Stale
  <2>1. made < MaxMade
    BY <1>2 DEF PruneInv
  <2>2. BackupsInv' /\ backups' \subseteq Backup /\ made' \in 0..MaxMade
    <3>1. CASE CreateBackup
      BY <2>1, <3>1, BackupMade
    <3>2. CASE UNCHANGED <<backups, made>>
      BY <3>2 DEF BackupsInv, TypeOK
    <3> QED BY <3>1, <3>2
  <2>3. config' \in Configs
    BY DEF TypeOK, Configs, Entries
  <2>4. TypeOK'
    BY <2>2, <2>3 DEF TypeOK, Idle, Pairs, Links, Configs
  <2> QED BY <2>2, <2>4, BackToIdle
<1> QED BY <1>1, <1>3, <1>4, <1>5, <1>6, <1>7

LEMMA InvInductive == IInv /\ [Next]_vars => IInv'
<1> SUFFICES ASSUME IInv, [Next]_vars PROVE IInv'
  OBVIOUS
<1>1. CASE UNCHANGED vars
  BY <1>1 DEF vars, IInv, TypeOK, JobType, BackupsInv, JobInv, IdleInv, BuildInv, ActivateInv,
              RollbackInv, PruneInv, OwnHolds, Pair
<1>2. CASE \E n \in Releases : Build(n) \/ Verify(n) \/ Activate(n) \/ Archive(n) \/ Damage(n)
  BY <1>2, BuildSteps, ActivationSteps, PruneSteps
<1>3. CASE Built \/ BuildFails
  BY <1>3, BuildSteps
<1>4. CASE MakeBackup \/ WriteLedger \/ Swap \/ Register \/ ActivationFails
  BY <1>4, ActivationSteps
<1>5. CASE \/ \E b \in backups : Rollback(b)
           \/ RestoreLink \/ DeleteConfig \/ TruncateConfig \/ FillConfig
  BY <1>5, RestoreSteps
<1>6. CASE BeginPrune \/ Remove \/ RemoveHalf \/ PruneArchives \/ CleanEntries
  BY <1>6, PruneSteps
<1>7. CASE Crash \/ ApplyBackup \/ Tick
  BY <1>7, WorldSteps
<1> QED BY <1>1, <1>2, <1>3, <1>4, <1>5, <1>6, <1>7 DEF Next

THEOREM Invariant == Spec => []IInv
BY InitInv, InvInductive, PTL DEF Spec

(***************************************************************************)
(* Theorems                                                                *)
(***************************************************************************)

\* Releases, link, file, archives, backups and the command under way keep
\* their shape.
THEOREM TypeCorrect == Spec => []TypeOK
<1>1. IInv => TypeOK
  BY DEF IInv
<1> QED BY <1>1, Invariant, PTL

\* Wherever an activation is stopped, what it has changed is in a backup
\* with a ledger.
THEOREM AlwaysReversible == Spec => []ActivationReversible
<1>1. IInv => ActivationReversible
  <2> SUFFICES ASSUME IInv, job.kind = "activate", Pair # job.before
               PROVE  OwnHolds
    BY DEF ActivationReversible, OwnHolds
  <2>1. job.pc \notin {"backup", "ledger", "swap"}
    BY DEF IInv, JobInv, ActivateInv
  <2> QED BY <2>1 DEF IInv, JobInv, ActivateInv
<1> QED BY <1>1, Invariant, PTL

\* An activation or a rollback that is not killed has its effect as a whole,
\* or, an activation, none.
THEOREM WholeOrNothing == Spec => EndsWhole
<1> DEFINE Ended ==
        \/ job.kind = "activate" /\ Pair' = job.before
        \/ /\ job.kind = "activate" /\ job.before.config # Torn
           /\ link' = job.name /\ job.name \in config'
           /\ config' \ {job.name} = (IF job.before.config = Absent THEN {}
                                      ELSE job.before.config) \ {job.name}
        \/ job.kind = "rollback" /\ Pair' = [link |-> Own.link, config |-> Own.config]
    Ends == job.kind \in {"activate", "rollback"} /\ job'.kind = "none" /\ crashes' = crashes
<1>1. ASSUME IInv, Next, Ends PROVE Ended
  <2> USE <1>1
  <2>1. job \in Jobs /\ crashes \in Nat
    BY Bounds DEF IInv, JobType, TypeOK
  <2>2. \/ Register \/ ActivationFails
        \/ RestoreLink \/ DeleteConfig \/ FillConfig
    <3>1. ASSUME NEW n \in Releases
          PROVE  ~(Build(n) \/ Verify(n) \/ Activate(n) \/ Archive(n) \/ Damage(n))
      BY DEF Build, Verify, Activate, Archive, Damage, IInv, JobInv, ActivateInv, RollbackInv
    <3>2. ~(\E b \in backups : Rollback(b)) /\ ~ApplyBackup /\ ~Tick
      BY DEF Rollback, ApplyBackup, Tick
    <3>3. ~(Built \/ BuildFails \/ BeginPrune)
      BY DEF Built, BuildFails, BeginPrune
    <3>4. ~(Remove \/ RemoveHalf \/ PruneArchives \/ CleanEntries)
      BY DEF Remove, RemoveHalf, PruneArchives, CleanEntries, Stale, IInv, JobInv, ActivateInv, RollbackInv
    <3>5. ~Crash
      BY <2>1 DEF Crash
    <3>6. ~(MakeBackup \/ WriteLedger \/ Swap \/ TruncateConfig)
      BY <2>1 DEF MakeBackup, WriteLedger, Swap, TruncateConfig, Jobs
    <3> QED BY <3>1, <3>2, <3>3, <3>4, <3>5, <3>6 DEF Next
  <2>3. CASE Register
    <3>1. /\ job.kind = "activate" /\ link = job.name
          /\ config = job.before.config
      BY <2>3 DEF Register, IInv, JobInv, ActivateInv, RollbackInv
    <3>2. config # Torn /\ link' = link /\ config' = Entries \cup {job.name}
      BY <2>3 DEF Register
    <3> QED BY <3>1, <3>2 DEF Entries
  <2>4. CASE ActivationFails
    <3>1. job.pc = "swap" /\ UNCHANGED <<link, config>>
      BY <2>1, <2>4 DEF ActivationFails, Jobs
    <3>2. job.kind = "activate" /\ Pair = job.before
      BY <3>1 DEF IInv, JobInv, ActivateInv, RollbackInv
    <3> QED BY <3>1, <3>2 DEF Pair
  <2>5. CASE RestoreLink
    <3>1. link' = Own.link /\ config' = config
      BY <2>5 DEF RestoreLink
    <3>2. job.pc = "link"
      BY <2>5 DEF RestoreLink
    <3> QED BY <3>1, <3>2, OwnFacts DEF Pair
  <2>6. CASE DeleteConfig \/ FillConfig
    <3>1. job.kind = "activate" /\ job.pc \in {"config", "fill"}
      BY <2>1, <2>6 DEF DeleteConfig, FillConfig, AfterConfig, Jobs
    <3>2. link' = link /\ config' = Own.config
      BY <2>6 DEF DeleteConfig, FillConfig
    <3> QED BY <3>1, <3>2, OwnFacts DEF Pair
  <2> QED BY <2>2, <2>3, <2>4, <2>5, <2>6
<1>2. IInv /\ [Next]_vars => [Ends => Ended]_vars
  BY <1>1
<1> QED BY <1>2, Invariant, PTL DEF Spec, EndsWhole

\* No command removes an intact release the link points to.
THEOREM ActiveKept == Spec => ActivePreserved
<1> DEFINE Kept == \A n \in Releases :
        link = n /\ release[n].state = "intact" => release'[n].state # "none"
<1>1. ASSUME IInv, Next, NEW n \in Releases, link = n, release[n].state = "intact"
      PROVE  release'[n].state # "none"
  <2> USE <1>1
  <2>1. release \in [Releases -> [state : States, at : 0..MaxTime]]
    BY DEF IInv, TypeOK
  <2>2. CASE UNCHANGED release
    BY <2>2
  <2>3. CASE \E m \in Releases : Build(m) \/ Verify(m) \/ Damage(m)
    BY <2>1, <2>3 DEF Build, Verify, Damage
  <2>4. CASE Built \/ BuildFails
    <3>1. job.name \in Releases /\ job.name # n
      BY <2>4 DEF Built, BuildFails, IInv, JobInv, BuildInv
    <3> QED BY <2>1, <2>4, <3>1 DEF Built, BuildFails
  <2>5. CASE BeginPrune
    BY <2>1, <2>5 DEF BeginPrune
  <2>6. CASE Remove \/ RemoveHalf
    <3>1. job.kind = "prune"
      BY <2>6 DEF Remove, RemoveHalf, IInv, JobInv, IdleInv, BuildInv, ActivateInv, RollbackInv,
                  JobType, Jobs, Kinds
    <3>2. job.name # n
      BY <2>6, <3>1 DEF Remove, RemoveHalf, IInv, JobInv, PruneInv
    <3> QED BY <2>1, <2>6, <3>2 DEF Remove, RemoveHalf
  <2> QED BY <2>2, <2>3, <2>4, <2>5, <2>6
          DEF Next, Activate, Archive, MakeBackup, WriteLedger, Swap, Register, ActivationFails,
              Rollback, RestoreLink, DeleteConfig, TruncateConfig, FillConfig, PruneArchives,
              CleanEntries, Crash, ApplyBackup, Tick
<1>2. IInv /\ [Next]_vars => [Kept]_vars
  BY <1>1
<1> QED BY <1>2, Invariant, PTL DEF Spec, ActivePreserved

\* A prune removes a readable release only when there is an archive of it.
THEOREM RemovedIsArchived == Spec => ArchivedFirst
<1> DEFINE First == \A n \in Releases :
        job.kind = "prune" /\ Listed(n) /\ ~(Listed(n))' => \E a \in archives : a.name = n
<1>1. ASSUME IInv, Next, NEW n \in Releases, job.kind = "prune", Listed(n), ~(Listed(n))'
      PROVE  \E a \in archives : a.name = n
  <2> USE <1>1
  <2>1. release # release'
    BY DEF Listed
  <2>2. job.pc \in {"archive", "remove", "entries"}
    BY DEF IInv, JobInv, PruneInv
  <2>3. Remove \/ RemoveHalf
    BY <2>1, <2>2
       DEF Next, Build, Verify, Damage, Built, BuildFails, BeginPrune,
           Activate, Archive, MakeBackup, WriteLedger, Swap, Register, ActivationFails,
           Rollback, RestoreLink, DeleteConfig, TruncateConfig, FillConfig, PruneArchives,
           CleanEntries, Crash, ApplyBackup, Tick
  <2>4. job.name = n
    BY <2>3 DEF Remove, RemoveHalf, Listed, IInv, TypeOK
  <2> QED BY <2>3, <2>4 DEF Remove, RemoveHalf, IInv, JobInv, PruneInv
<1>2. IInv /\ [Next]_vars => [First]_vars
  BY <1>1
<1> QED BY <1>2, Invariant, PTL DEF Spec, ArchivedFirst

(***************************************************************************)
(* Retention                                                               *)
(***************************************************************************)

\* There is one archive of a name.
UniqueArchives == \A a, b \in archives : a.name = b.name => a = b

\* What a prune leaves readable beside the active release.
Spared == {n \in Releases : Listed(n) /\ n \notin job.todo /\ link # n}
SparedInv == job.kind = "prune" => Cardinality(Spared) <= MaxReleases

\* The archives are cut back when the releases are all removed.
CutInv == job.pc = "entries" => job.todo = {} /\ Cardinality(archives) <= MaxReleases

RetentionInv == UniqueArchives /\ SparedInv /\ CutInv

\* The releases a prune keeps, the active one aside, are MaxReleases at most.
LEMMA FewReleasesKept ==
    ASSUME NEW names \in SUBSET Releases
    PROVE  Cardinality({n \in KeptReleases(names) : link # n}) <= MaxReleases
<1> DEFINE always == Newest(names) \cup {n \in names : link = n}
           eligible == {n \in names : n \in always \/ Young(release[n].at)}
           above(n) == {m \in eligible : m > n}
           few == {n \in eligible : Cardinality(above(n)) < MaxReleases}
           rank == [n \in eligible |-> n]
<1>1. Releases \subseteq Nat /\ IsFiniteSet(Releases) /\ MaxReleases \in Nat /\ 0 < MaxReleases
  BY ReleaseAssumption
<1>2. eligible \in SUBSET Releases /\ eligible \subseteq Nat
  BY <1>1
<1>3. IsFiniteSet(eligible)
  BY <1>1, <1>2, FS_Subset
<1>4. \A n \in Newest(names) : above(n) = {}
  <2>1. \A n \in Newest(names) : n \in Nat /\ \A m \in names : m <= n /\ m \in Nat
    BY <1>1 DEF Newest
  <2>2. eligible \subseteq names
    OBVIOUS
  <2> HIDE DEF eligible
  <2> QED BY <2>1, <2>2
<1>5. \A n \in eligible : n \in Newest(names) => n \in few
  <2> HIDE DEF above, eligible
  <2> QED BY <1>1, <1>4, FS_EmptySet
<1>6. KeptReleases(names) = {n \in eligible : n \in always \/ Cardinality(above(n)) < MaxReleases}
  BY DEF KeptReleases
<1>7. {n \in KeptReleases(names) : link # n} \in SUBSET few
  BY <1>5, <1>6
<1>8. rank \in [eligible -> Nat] /\ \A n \in eligible : rank[n] = n
  BY <1>2
<1>9. few = {n \in eligible : Cardinality({m \in eligible : rank[m] > rank[n]}) < MaxReleases}
  BY <1>8
<1>10. few \in SUBSET eligible
  OBVIOUS
<1> HIDE DEF eligible, rank, few
<1>11. Cardinality(few) <= MaxReleases
  BY <1>1, <1>3, <1>8, <1>9, TopFew
<1>12. IsFiniteSet(few) /\ Cardinality(few) \in Nat
  BY <1>3, <1>10, FS_Subset, FS_CardinalityType
<1>13. /\ Cardinality({n \in KeptReleases(names) : link # n}) <= Cardinality(few)
       /\ Cardinality({n \in KeptReleases(names) : link # n}) \in Nat
  BY <1>7, <1>12, FS_Subset, FS_CardinalityType
<1> QED BY <1>1, <1>11, <1>12, <1>13

\* The archives a prune keeps are MaxReleases at most.
LEMMA FewArchivesKept ==
    ASSUME TypeOK, UniqueArchives
    PROVE  Cardinality(KeptArchives) <= MaxReleases
<1> DEFINE names == {a.name : a \in archives}
           eligible == {a \in archives : a.name \in Newest(names) \/ Young(a.at)}
           name == [a \in archives |-> a.name]
           rank == [a \in eligible |-> a.name]
<1>1. Releases \subseteq Nat /\ IsFiniteSet(Releases) /\ MaxReleases \in Nat
  BY ReleaseAssumption
<1>2. \A a \in archives : a.name \in Releases
  BY DEF TypeOK
<1>3. IsFiniteSet(archives)
  <2>1. name \in [archives -> Releases] /\ \A x, y \in archives : name[x] = name[y] => x = y
    BY <1>2 DEF UniqueArchives
  <2>2. name \in Injection(archives, Releases)
    BY <2>1 DEF Injection, IsInjective
  <2> QED BY <1>1, <2>2, FS_Injection
<1>4. IsFiniteSet(eligible)
  BY <1>3, FS_Subset
<1>5. /\ rank \in [eligible -> Nat] /\ \A a \in eligible : rank[a] = a.name
      /\ \A x, y \in eligible : rank[x] = rank[y] => x = y
  BY <1>1, <1>2 DEF UniqueArchives
<1>6. KeptArchives = {a \in eligible : Cardinality({c \in eligible : rank[c] > rank[a]}) < MaxReleases}
  BY <1>5 DEF KeptArchives
<1> HIDE DEF eligible, rank
<1> QED BY <1>1, <1>4, <1>5, <1>6, TopFew

\* Every step keeps the retention.
LEMMA RetentionStep == IInv /\ RetentionInv /\ [Next]_vars => RetentionInv'
<1> SUFFICES ASSUME IInv, RetentionInv, [Next]_vars PROVE RetentionInv'
  OBVIOUS
<1> IInv'
  BY InvInductive
<1>1. TypeOK /\ JobType /\ JobInv /\ JobInv' /\ UniqueArchives
  BY DEF IInv, RetentionInv
<1>2. job'.pc = "entries" => job'.kind = "prune"
  BY DEF IInv, JobInv, IdleInv, BuildInv, ActivateInv, RollbackInv, JobType, Jobs, Kinds
<1>3. ASSUME archives' = archives, job'.kind # "prune" PROVE RetentionInv'
  BY <1>1, <1>2, <1>3 DEF RetentionInv, UniqueArchives, SparedInv, CutInv
<1>4. CASE BeginPrune
  <2> DEFINE listed == {n \in Releases : Listed(n)}
  <2>1. /\ job'.kind = "prune" /\ job'.pc = "archive" /\ job'.todo = listed \ KeptReleases(listed)
        /\ link' = link /\ archives' = archives
    BY <1>4 DEF BeginPrune, Idle
  <2>2. \A n \in Releases : Listed(n)' <=> Listed(n)
    BY <1>1, <1>4 DEF BeginPrune, Listed, Gone, TypeOK
  <2>3. Spared' = {n \in KeptReleases(listed) : link # n}
    BY <2>1, <2>2 DEF Spared, KeptReleases
  <2>4. Cardinality(Spared') <= MaxReleases
    BY <2>3, FewReleasesKept
  <2> QED BY <1>1, <2>1, <2>4 DEF RetentionInv, UniqueArchives, SparedInv, CutInv
<1>5. ASSUME NEW n \in Releases, Archive(n) PROVE RetentionInv'
  <2>1. /\ job.kind = "prune" /\ job' = [job EXCEPT !.pc = "remove", !.name = n]
        /\ release' = release /\ link' = link
    BY <1>1, <1>5 DEF Archive, JobInv, IdleInv, BuildInv, ActivateInv, RollbackInv, JobType, Jobs,
       Kinds
  <2>2. job'.kind = "prune" /\ job'.pc = "remove" /\ job'.todo = job.todo
    BY <1>1, <2>1 DEF JobType, Jobs
  <2>3. Spared' = Spared
    BY <2>1, <2>2 DEF Spared, Listed
  <2>4. UniqueArchives'
    <3> DEFINE old == {a \in archives : a.name # n}
    <3> PICK new : new = [name |-> n, at |-> release[n].at]
      OBVIOUS
    <3>1. archives' = old \cup {new} /\ new.name = n
      BY <1>5 DEF Archive
    <3> QED BY <1>1, <3>1 DEF UniqueArchives
  <2> QED BY <2>1, <2>2, <2>3, <2>4 DEF RetentionInv, SparedInv, CutInv
<1>6. CASE Remove
  <2>1. /\ job.kind = "prune" /\ job.name \in job.todo /\ job.name \in Releases
        /\ job' = [job EXCEPT !.pc = "archive", !.todo = @ \ {job.name}]
        /\ release' = [release EXCEPT ![job.name] = Gone] /\ link' = link /\ archives' = archives
    BY <1>1, <1>6 DEF Remove, JobInv, IdleInv, BuildInv, ActivateInv, RollbackInv, PruneInv, JobType,
       Jobs, Kinds, TypeOK
  <2>2. job'.kind = "prune" /\ job'.pc = "archive" /\ job'.todo = job.todo \ {job.name}
    BY <1>1, <2>1 DEF JobType, Jobs
  <2>3. \A n \in Releases : Listed(n)' <=> Listed(n) /\ n # job.name
    BY <1>1, <2>1 DEF Listed, Gone, TypeOK
  <2>4. Spared' = Spared
    BY <2>1, <2>2, <2>3 DEF Spared
  <2> QED BY <1>1, <2>1, <2>2, <2>4 DEF RetentionInv, UniqueArchives, SparedInv, CutInv
<1>7. CASE PruneArchives
  <2>1. /\ job.kind = "prune" /\ job' = [job EXCEPT !.pc = "entries"] /\ job.todo = {}
        /\ release' = release /\ link' = link /\ archives' = KeptArchives
    BY <1>1, <1>7 DEF PruneArchives, JobInv, IdleInv, BuildInv, ActivateInv, RollbackInv, JobType,
       Jobs, Kinds
  <2>2. job'.kind = "prune" /\ job'.todo = job.todo
    BY <1>1, <2>1 DEF JobType, Jobs
  <2>3. Spared' = Spared
    BY <2>1, <2>2 DEF Spared, Listed
  <2>4. KeptArchives \subseteq archives
    BY DEF KeptArchives
  <2> QED BY <1>1, <2>1, <2>2, <2>3, <2>4, FewArchivesKept
          DEF RetentionInv, UniqueArchives, SparedInv, CutInv
<1>8. CASE RemoveHalf \/ CleanEntries \/ Crash \/ Built \/ BuildFails \/ Register
  BY <1>3, <1>8 DEF RemoveHalf, CleanEntries, Stale, Crash, Built, BuildFails, Register, Idle
<1>9. CASE \E n \in Releases : Build(n) \/ Activate(n)
  BY <1>3, <1>9 DEF Build, Activate, Idle
<1>10. CASE \/ \E n \in Releases : Verify(n) \/ Damage(n)
            \/ ApplyBackup \/ Tick
  BY <1>3, <1>10 DEF Verify, Damage, ApplyBackup, Tick
<1>11. CASE \E b \in backups : Rollback(b)
  BY <1>3, <1>11 DEF Rollback, Idle
<1>12. CASE \/ MakeBackup \/ WriteLedger \/ Swap \/ ActivationFails
            \/ RestoreLink \/ DeleteConfig \/ TruncateConfig \/ FillConfig
  <2>1. job.pc \in {"backup", "ledger", "swap", "register", "link", "config", "fill"}
    BY <1>12 DEF MakeBackup, WriteLedger, Swap, ActivationFails, RestoreLink, DeleteConfig,
       TruncateConfig, FillConfig
  <2>2. job.kind # "prune"
    BY <1>1, <2>1 DEF JobInv, PruneInv
  <2>3. archives' = archives
    BY <1>12 DEF MakeBackup, WriteLedger, Swap, ActivationFails, RestoreLink, DeleteConfig,
       TruncateConfig, FillConfig
  <2>4. job'.kind = job.kind \/ job' = Idle
    BY <1>1, <1>12 DEF MakeBackup, WriteLedger, Swap, ActivationFails, RestoreLink, DeleteConfig,
       TruncateConfig, FillConfig, AfterConfig, JobType, Jobs
  <2>5. job'.kind # "prune"
    BY <2>2, <2>4 DEF Idle
  <2> QED BY <1>3, <2>3, <2>5
<1>13. CASE UNCHANGED vars
  BY <1>13 DEF vars, RetentionInv, UniqueArchives, SparedInv, CutInv, Spared, Listed
<1> QED BY <1>4, <1>5, <1>6, <1>7, <1>8, <1>9, <1>10, <1>11, <1>12, <1>13 DEF Next

\* When a prune has come to the plugin entries, no more than MaxReleases
\* releases are left beside the active one, and no more archives.
THEOREM PruneLeavesFew == Spec => []RetentionHolds
<1>1. Init => RetentionInv
  BY DEF Init, RetentionInv, UniqueArchives, SparedInv, CutInv, Idle
<1>2. IInv /\ RetentionInv => RetentionHolds
  <2> SUFFICES ASSUME IInv, RetentionInv, job.pc = "entries" PROVE RetentionHolds
    BY DEF RetentionHolds
  <2>1. job.kind = "prune" /\ job.todo = {}
    BY DEF IInv, JobInv, IdleInv, BuildInv, ActivateInv, RollbackInv, JobType, Jobs, Kinds,
       RetentionInv, CutInv
  <2>2. Spared = {n \in Releases : Listed(n) /\ link # n}
    BY <2>1 DEF Spared
  <2> QED BY <2>1, <2>2 DEF RetentionInv, SparedInv, CutInv, RetentionHolds
<1> QED BY <1>1, <1>2, RetentionStep, Invariant, PTL DEF Spec

(***************************************************************************)
(* The link and the plugin array                                           *)
(***************************************************************************)

\* A link and a plugin array that go together: the release is registered while
\* it can be read, and what a kill or a second build may leave is told apart
\* by the number of its builds.
Right(dirs, builds, l, c) ==
    l \in Releases =>
        /\ builds[l] >= 1
        /\ dirs[l].state = "partial" => builds[l] >= 2
        /\ dirs[l].state \in {"intact", "damaged"} /\ builds[l] = 1 =>
               c \notin {Absent, Torn} /\ l \in c

BuiltInv == \A n \in Releases : release[n].state # "none" => built[n] >= 1

LedgersRight == \A b \in backups : b.ledger => Right(release, built, b.link, b.config)

LinkRight == job.kind \in {"none", "build", "prune"} => Right(release, built, link, config)

BeforeRight ==
    job.kind = "activate" =>
        /\ Right(release, built, job.before.link, job.before.config)
        /\ release[job.name].state = "intact"

SeenInv == job.kind = "prune" => \A n \in Releases : Listed(n) => n \in job.seen

\* While no command is killed, what is linked and what can be restored are
\* right.
RegisteredInv ==
    crashes = 0 => BuiltInv /\ LedgersRight /\ LinkRight /\ BeforeRight /\ SeenInv

\* What a step does to the directories and builds of releases.
LEMMA ReleasesStep ==
    ASSUME IInv, BuiltInv, crashes' = 0, Next
    PROVE  /\ BuiltInv'
           /\ \A l \in Links, c \in Configs :
                  Right(release, built, l, c) => Right(release', built', l, c)
<1> DEFINE States1 == [state : States, at : 0..MaxTime]
<1>1. /\ release \in [Releases -> States1] /\ built \in [Releases -> Nat] /\ crashes \in Nat
      /\ JobInv /\ JobType
  BY Bounds DEF IInv, TypeOK
<1>2. CASE \E n \in Releases : Build(n)
  <2>1. PICK n \in Releases : Build(n)
    BY <1>2
  <2>2. /\ release[n].state = "none" /\ crashes' = crashes
        /\ release' = [release EXCEPT ![n] = [state |-> "partial", at |-> now]]
        /\ built' = [built EXCEPT ![n] = @ + 1]
    BY <2>1 DEF Build
  <2>3. /\ \A m \in Releases : m # n => release'[m] = release[m] /\ built'[m] = built[m]
        /\ release'[n].state = "partial" /\ built'[n] = built[n] + 1 /\ built[n] \in Nat
    BY <1>1, <2>2
  <2>4. BuiltInv'
    BY <1>1, <2>3 DEF BuiltInv
  <2>5. \A l \in Links, c \in Configs : Right(release, built, l, c) => Right(release', built', l, c)
    BY <1>1, <2>3 DEF Right
  <2> QED BY <2>2, <2>4, <2>5
<1>3. CASE Built
  <2>1. /\ job.name \in Releases /\ release[job.name].state = "partial"
        /\ release' = [release EXCEPT ![job.name].state = "intact"] /\ built' = built
        /\ crashes' = crashes
    BY <1>1, <1>3 DEF Built, JobInv, BuildInv
  <2>2. /\ \A m \in Releases : m # job.name => release'[m] = release[m]
        /\ release'[job.name].state = "intact"
    BY <1>1, <2>1
  <2> QED BY <1>1, <2>1, <2>2 DEF Right, BuiltInv
<1>4. CASE BuildFails
  <2>1. /\ job.name \in Releases /\ release' = [release EXCEPT ![job.name] = Gone]
        /\ built' = built /\ crashes' = crashes
    BY <1>1, <1>4 DEF BuildFails, JobInv, BuildInv
  <2> QED BY <1>1, <2>1 DEF Right, BuiltInv, Gone
<1>5. CASE \E n \in Releases : Verify(n) \/ Damage(n)
  <2>1. PICK n \in Releases :
            /\ \/ release' = [release EXCEPT ![n] = Gone]
               \/ /\ release[n].state = "intact"
                  /\ release' = [release EXCEPT ![n].state = "damaged"]
            /\ built' = built /\ crashes' = crashes
    BY <1>5 DEF Verify, Damage
  <2>2. \A m \in Releases : m # n => release'[m] = release[m]
    BY <1>1, <2>1
  <2>3. \/ release'[n].state = "none"
        \/ release[n].state = "intact" /\ release'[n].state = "damaged"
    BY <1>1, <2>1 DEF Gone
  <2> QED BY <1>1, <2>1, <2>2, <2>3 DEF Right, BuiltInv
<1>6. CASE BeginPrune
  <2>1. \A m \in Releases : release'[m] = release[m] \/ release'[m].state = "none"
    BY <1>6 DEF BeginPrune, Gone
  <2>2. built' = built /\ crashes' = crashes
    BY <1>6 DEF BeginPrune
  <2> QED BY <1>1, <2>1, <2>2 DEF Right, BuiltInv
<1>7. CASE Remove
  <2>1. /\ release' = [release EXCEPT ![job.name] = Gone] /\ built' = built /\ crashes' = crashes
    BY <1>7 DEF Remove
  <2>2. \A m \in Releases : release'[m] = release[m] \/ release'[m].state = "none"
    BY <1>1, <2>1 DEF Gone
  <2> QED BY <1>1, <2>1, <2>2 DEF Right, BuiltInv
<1>8. ~RemoveHalf
  BY <1>1 DEF RemoveHalf
<1>9. ~Crash
  BY <1>1 DEF Crash
<1>10. CASE UNCHANGED <<release, built, crashes>>
  BY <1>10 DEF Right, BuiltInv
<1> QED BY <1>2, <1>3, <1>4, <1>5, <1>6, <1>7, <1>8, <1>9, <1>10
        DEF Next, Activate, Archive, MakeBackup, WriteLedger, Swap, Register, ActivationFails,
            Rollback, RestoreLink, DeleteConfig, TruncateConfig, FillConfig, PruneArchives,
            CleanEntries, ApplyBackup, Tick

\* The ledgers a step leaves hold pairs that were right before it.
LEMMA LedgersStep ==
    ASSUME IInv, Next, crashes = 0, LedgersRight, BeforeRight
    PROVE  \A b \in backups' :
               b.ledger => b.link \in Links /\ b.config \in Configs
                           /\ Right(release, built, b.link, b.config)
<1>1. /\ BackupsInv /\ backups \subseteq Backup /\ JobInv /\ JobType /\ TypeOK /\ BackupsInv'
  BY InvInductive DEF IInv, TypeOK
<1>2. \A b \in backups :
          b.ledger => b.link \in Links /\ b.config \in Configs
                      /\ Right(release, built, b.link, b.config)
  BY <1>1 DEF LedgersRight, BackupsInv, Backup
<1>3. CASE backups' = backups
  BY <1>2, <1>3
<1>4. CASE CreateBackup
  <2>1. backups' \subseteq backups \cup {NewBackup} /\ ~NewBackup.ledger
    BY <1>4 DEF CreateBackup, KeptBackups, NewBackup
  <2> QED BY <1>2, <2>1
<1>5. CASE WriteLedger
  <2>1. /\ job.kind = "activate" /\ Pair = job.before /\ \E b \in backups : b.id = job.id
        /\ job.before \in Pairs
    BY <1>1, <1>5 DEF WriteLedger, JobInv, IdleInv, BuildInv, ActivateInv, RollbackInv, PruneInv,
                      JobType, Jobs, Kinds
  <2>2. PICK b \in backups : b.id = job.id
    BY <2>1
  <2>3. Own = b /\ b \in Backup
    BY <1>1, <2>2, OwnIs
  <2> DEFINE c == [b EXCEPT !.ledger = TRUE, !.link = job.before.link, !.config = config]
  <2>4. c.link = job.before.link /\ c.config = config
    BY <2>3 DEF Backup
  <2>5. job.before.config = config /\ config \in Configs /\ job.before.link \in Links
    BY <1>1, <2>1 DEF Pair, Pairs, TypeOK
  <2>6. Right(release, built, c.link, c.config)
    BY <2>1, <2>4, <2>5 DEF BeforeRight
  <2>7. backups' = (backups \ {b}) \cup {c}
    BY <1>5, <2>3 DEF WriteLedger
  <2> HIDE DEF c
  <2> QED BY <1>2, <2>4, <2>5, <2>6, <2>7
<1> QED BY <1>3, <1>4, <1>5
        DEF Next, Build, Verify, Activate, Archive, Damage, Built, BuildFails, MakeBackup, Swap,
            Register, ActivationFails, Rollback, RestoreLink, DeleteConfig, TruncateConfig,
            FillConfig, BeginPrune, Remove, RemoveHalf, PruneArchives, CleanEntries, Crash,
            ApplyBackup, Tick

\* Link and array are right wherever a command ends or has not begun to
\* change them.
LEMMA LinkStep ==
    ASSUME IInv, Next, crashes' = 0, BuiltInv, crashes = 0, LedgersRight, LinkRight, BeforeRight,
           SeenInv, job'.kind \in {"none", "build", "prune"}
    PROVE  Right(release, built, link', config')
<1>1. /\ JobInv /\ JobType /\ TypeOK /\ IInv' /\ crashes \in Nat
  BY InvInductive, Bounds DEF IInv, TypeOK
<1>2. /\ ~Crash /\ ~RemoveHalf
  BY <1>1 DEF Crash, RemoveHalf
<1>3. CASE job.kind \in {"none", "build", "prune"} /\ UNCHANGED <<link, config>>
  BY <1>3 DEF LinkRight
<1>4. CASE CleanEntries
  <2>1. job.kind = "prune" /\ link' = link
    BY <1>1, <1>4 DEF CleanEntries, Stale, JobInv, IdleInv, BuildInv, ActivateInv, RollbackInv, JobType,
                      Jobs, Kinds
  <2>2. Right(release, built, link, config) /\ \A n \in Releases : Listed(n) => n \in job.seen
    BY <2>1 DEF LinkRight, SeenInv
  <2>3. config' = config \/ config' = Entries \cap job.seen
    BY <1>4 DEF CleanEntries, Stale
  <2>4. Entries \in SUBSET Releases
    BY <1>1 DEF TypeOK, Configs, Entries
  <2>5. Entries \cap job.seen \notin {Absent, Torn}
    BY <2>4, ReleaseAssumption
  <2> QED BY <2>1, <2>2, <2>3, <2>5 DEF Right, Entries, Listed
<1>5. CASE Register
  <2>1. /\ job.kind = "activate" /\ link' = job.name /\ job.name \in Releases
        /\ config' = Entries \cup {job.name} /\ release[job.name].state = "intact"
    BY <1>1, <1>5 DEF Register, JobInv, ActivateInv, IdleInv, BuildInv, RollbackInv, PruneInv,
                      JobType, Jobs, Kinds, BeforeRight
  <2>2. config' \in SUBSET Releases
    BY <1>1, <2>1 DEF TypeOK, Configs, Entries
  <2>3. config' \notin {Absent, Torn} /\ job.name \in config'
    BY <2>1, <2>2, ReleaseAssumption
  <2>4. built[job.name] >= 1
    BY <2>1 DEF BuiltInv
  <2> QED BY <2>1, <2>3, <2>4 DEF Right
<1>6. CASE ActivationFails
  <2>1. job.kind = "activate" /\ job.pc \in {"swap", "register"} /\ UNCHANGED <<link, config>>
    BY <1>1, <1>6 DEF ActivationFails, JobInv, IdleInv, BuildInv, RollbackInv, PruneInv, JobType,
                      Jobs, Kinds
  <2>2. job.pc = "swap"
    BY <1>1, <1>6, <2>1 DEF ActivationFails, JobType, Jobs
  <2>3. Pair = job.before
    BY <1>1, <2>1, <2>2 DEF JobInv, ActivateInv
  <2>4. job.before.link = link /\ job.before.config = config
    BY <2>3 DEF Pair
  <2> QED BY <2>1, <2>4 DEF BeforeRight
<1>7. CASE RestoreLink
  <2>1. link' = Own.link /\ config' = config /\ job.pc = "link"
    BY <1>7 DEF RestoreLink
  <2>2. CASE job.kind = "activate"
    <3>1. Own.link = job.before.link /\ config = job.before.config
      BY <2>1, <2>2, OwnFacts
    <3> QED BY <2>1, <2>2, <3>1 DEF BeforeRight
  <2>3. CASE job.kind = "rollback"
    <3>1. Own \in backups /\ Own.ledger /\ config = Own.config
      BY <2>1, <2>3, OwnFacts
    <3> QED BY <2>1, <3>1 DEF LedgersRight
  <2> QED BY <2>1, <2>2, <2>3, OwnFacts
<1>8. CASE DeleteConfig \/ FillConfig
  <2>1. link' = link /\ config' = Own.config /\ job.pc \in {"config", "fill"}
    BY <1>8 DEF DeleteConfig, FillConfig
  <2>2. job' = AfterConfig
    BY <1>8 DEF DeleteConfig, FillConfig
  <2>3. job.kind # "rollback"
    BY <1>1, <2>2 DEF AfterConfig, JobType, Jobs
  <2>4. job.kind = "activate" /\ Own.config = job.before.config /\ link = job.before.link
    BY <2>1, <2>3, OwnFacts
  <2> QED BY <2>1, <2>4 DEF BeforeRight
<1>9. CASE MakeBackup \/ WriteLedger \/ Swap \/ TruncateConfig
  <2>1. job.kind \in {"activate", "rollback"}
    BY <1>1, <1>9 DEF MakeBackup, WriteLedger, Swap, TruncateConfig, JobInv, IdleInv, BuildInv,
                      PruneInv, JobType, Jobs, Kinds
  <2>2. job'.kind = job.kind
    BY <1>1, <1>9 DEF MakeBackup, WriteLedger, Swap, TruncateConfig, JobType, Jobs
  <2> QED BY <2>1, <2>2
<1>10. CASE \/ \E n \in Releases : Build(n) \/ Verify(n) \/ Damage(n)
            \/ Built \/ BuildFails \/ BeginPrune \/ ApplyBackup \/ Tick
  BY <1>3, <1>10 DEF Build, Verify, Damage, Built, BuildFails, BeginPrune, ApplyBackup, Tick
<1>11. CASE \/ \E n \in Releases : Activate(n)
            \/ \E b \in backups : Rollback(b)
  BY <1>3, <1>11 DEF Activate, Rollback
<1>12. CASE \/ \E n \in Releases : Archive(n)
            \/ Remove \/ PruneArchives
  <2>1. job.kind = "prune" /\ UNCHANGED <<link, config>>
    BY <1>1, <1>12 DEF Archive, Remove, PruneArchives, JobInv, IdleInv, BuildInv, ActivateInv,
                       RollbackInv, JobType, Jobs, Kinds
  <2> QED BY <1>3, <2>1
<1> QED BY <1>2, <1>4, <1>5, <1>6, <1>7, <1>8, <1>9, <1>10, <1>11, <1>12 DEF Next

\* The command that goes on remembers a pair that is right, and its release is
\* intact; a prune has seen every release that can be read.
LEMMA CommandStep ==
    ASSUME IInv, Next, crashes' = 0, crashes = 0, LinkRight, BeforeRight, SeenInv
    PROVE  /\ job'.kind = "activate" =>
                  /\ Right(release, built, job'.before.link, job'.before.config)
                  /\ release'[job'.name].state = "intact"
           /\ SeenInv'
<1>1. /\ JobInv /\ JobType /\ TypeOK /\ crashes \in Nat
  BY Bounds DEF IInv, TypeOK
<1>2. /\ ~Crash /\ ~RemoveHalf
  BY <1>1 DEF Crash, RemoveHalf
<1>3. CASE job' = Idle
  BY <1>3 DEF Idle, SeenInv
<1>4. ASSUME NEW n \in Releases, Activate(n)
      PROVE  /\ Right(release, built, job'.before.link, job'.before.config)
             /\ release'[job'.name].state = "intact"
             /\ job'.kind = "activate"
  <2>1. /\ job'.before = Pair /\ job'.name = n /\ job'.kind = "activate" /\ release' = release
        /\ release[n].state = "intact" /\ job.kind = "none"
    BY <1>4 DEF Activate, Idle
  <2>2. job'.before.link = link /\ job'.before.config = config
    BY <2>1 DEF Pair
  <2> QED BY <2>1, <2>2 DEF LinkRight
<1>5. CASE \/ MakeBackup \/ WriteLedger \/ Swap \/ Register \/ ActivationFails
           \/ RestoreLink \/ DeleteConfig \/ TruncateConfig \/ FillConfig
  <2>1. /\ job.pc \in {"backup", "ledger", "swap", "register", "link", "config", "fill"}
        /\ release' = release
    BY <1>5 DEF MakeBackup, WriteLedger, Swap, Register, ActivationFails, RestoreLink,
                DeleteConfig, TruncateConfig, FillConfig
  <2>2. job.kind \in {"activate", "rollback"}
    BY <1>1, <2>1 DEF JobInv, IdleInv, BuildInv, PruneInv, JobType, Jobs, Kinds
  <2>3. \/ job' = Idle
        \/ job'.kind = job.kind /\ job'.before = job.before /\ job'.name = job.name
    BY <1>1, <1>5 DEF MakeBackup, WriteLedger, Swap, Register, ActivationFails, RestoreLink,
                DeleteConfig, TruncateConfig, FillConfig, AfterConfig, JobType, Jobs
  <2> QED BY <1>3, <2>1, <2>2, <2>3 DEF BeforeRight, SeenInv
<1>6. CASE BeginPrune
  <2>1. /\ job'.kind = "prune" /\ job'.seen = {n \in Releases : Listed(n)}
    BY <1>6 DEF BeginPrune, Idle
  <2>2. \A n \in Releases : Listed(n)' => Listed(n)
    BY <1>1, <1>6 DEF BeginPrune, Listed, Gone, TypeOK
  <2> QED BY <2>1, <2>2 DEF SeenInv
<1>7. CASE \/ \E n \in Releases : Archive(n)
           \/ Remove \/ PruneArchives
  <2>1. /\ job.kind = "prune" /\ job'.kind = "prune" /\ job'.seen = job.seen
        /\ release' = release \/ release' = [release EXCEPT ![job.name] = Gone]
    BY <1>1, <1>7 DEF Archive, Remove, PruneArchives, JobInv, IdleInv, BuildInv, ActivateInv,
                       RollbackInv, JobType, Jobs, Kinds
  <2>2. \A n \in Releases : Listed(n)' => Listed(n)
    BY <1>1, <2>1 DEF Listed, Gone, TypeOK
  <2> QED BY <2>1, <2>2 DEF SeenInv
<1>8. CASE \/ \E n \in Releases : Verify(n) \/ Damage(n)
           \/ ApplyBackup \/ Tick
  <2>1. job'.kind = "none"
    BY <1>8 DEF Verify, Damage, ApplyBackup, Tick
  <2> QED BY <2>1 DEF SeenInv
<1>9. CASE \/ \E n \in Releases : Build(n)
           \/ \E b \in backups : Rollback(b)
  BY <1>9 DEF Build, Rollback, Idle, SeenInv
<1>10. CASE Built \/ BuildFails \/ CleanEntries
  BY <1>3, <1>10 DEF Built, BuildFails, CleanEntries, Stale
<1>11. (\E n \in Releases : Activate(n)) => SeenInv'
  BY <1>4 DEF SeenInv
<1> QED BY <1>2, <1>4, <1>5, <1>6, <1>7, <1>8, <1>9, <1>10, <1>11 DEF Next

LEMMA RegisteredStep == IInv /\ RegisteredInv /\ [Next]_vars => RegisteredInv'
<1> SUFFICES ASSUME IInv, RegisteredInv, [Next]_vars PROVE RegisteredInv'
  OBVIOUS
<1>1. CASE UNCHANGED vars
  BY <1>1 DEF vars, RegisteredInv, BuiltInv, LedgersRight, LinkRight, BeforeRight, SeenInv, Listed,
              Right
<1>2. CASE Next
  <2>1. crashes' = 0 => crashes = 0
    <3>1. crashes \in 0..MaxCrashes /\ MaxCrashes \in Nat
      BY Bounds DEF IInv, TypeOK
    <3>2. CASE Crash \/ RemoveHalf
      BY <3>1, <3>2 DEF Crash, RemoveHalf
    <3>3. crashes' = crashes \/ Crash \/ RemoveHalf
      BY <1>2
         DEF Next, Build, Verify, Activate, Archive, Damage, Built, BuildFails, MakeBackup,
             WriteLedger, Swap, Register, ActivationFails, Rollback, RestoreLink, DeleteConfig,
             TruncateConfig, FillConfig, BeginPrune, Remove, PruneArchives, CleanEntries,
             ApplyBackup, Tick
    <3> QED BY <3>2, <3>3
  <2>2. SUFFICES ASSUME crashes' = 0
                 PROVE  (BuiltInv /\ LedgersRight /\ LinkRight /\ BeforeRight /\ SeenInv)'
    BY DEF RegisteredInv
  <2>3. crashes = 0 /\ LedgersRight /\ LinkRight /\ BeforeRight /\ SeenInv /\ BuiltInv
    BY <2>1, <2>2 DEF RegisteredInv
  <2>4. /\ BuiltInv'
        /\ \A l \in Links, c \in Configs :
               Right(release, built, l, c) => Right(release', built', l, c)
    BY <1>2, <2>2, <2>3, ReleasesStep
  <2>5. TypeOK'
    BY InvInductive DEF IInv
  <2>6. LedgersRight'
    BY <1>2, <2>3, <2>4, LedgersStep DEF LedgersRight
  <2>7. LinkRight'
    <3>1. link' \in Links /\ config' \in Configs
      BY <2>5 DEF TypeOK
    <3> QED BY <1>2, <2>2, <2>3, <2>4, <3>1, LinkStep DEF LinkRight
  <2>8. BeforeRight'
    <3>1. job'.before.link \in Links /\ job'.before.config \in Configs
      BY <2>5 DEF TypeOK, Pairs
    <3> QED BY <1>2, <2>2, <2>3, <2>4, <3>1, CommandStep DEF BeforeRight
  <2>9. SeenInv'
    BY <1>2, <2>2, <2>3, CommandStep
  <2> QED BY <2>4, <2>6, <2>7, <2>8, <2>9
<1> QED BY <1>1, <1>2

\* While no command has been killed, a linked release that can be read and was
\* built once has its plugin registered whenever no command runs.
THEOREM LinkIsRegistered == Spec => []LinkedIsRegistered
<1>1. Init => RegisteredInv
  BY ReleaseAssumption
     DEF Init, RegisteredInv, BuiltInv, LedgersRight, LinkRight, BeforeRight, SeenInv, Right, Gone,
         Idle
<1>2. RegisteredInv => LinkedIsRegistered
  BY DEF RegisteredInv, LinkRight, Right, LinkedIsRegistered, Listed, Entries
<1> QED BY <1>1, <1>2, RegisteredStep, Invariant, PTL DEF Spec
=============================================================================
