------------------------------- MODULE HomeProofs -------------------------------
(***************************************************************************)
(* What the processes of one LYA_HOME keep, for any number of processes,   *)
(* jobs and repositories and any number of launches and crashes: a         *)
(* repository and a job have one driver, the daemon that serves is the one *)
(* everybody finds, and nobody picks up a job that is finished.  Then what *)
(* they find there (Inventory): any listing, and any number of saves; and  *)
(* how work gets there (Arguments, Submission): any line, any job file,    *)
(* and any submission.                                                     *)
(***************************************************************************)
EXTENDS MCHome, Induction, TLAPS

\* Where a process is looking at a job.
LooksAtAJob == \A p \in Procs : pc[p] \in {"saving", "probing"} => cur[p] \in Jobs

\* The steps of a daemon between taking daemon.lock and giving it up; "submit" is
\* a step of a batch too.
DaemonOnly == {"claim", "bind", "publish", "recover", "interrupted", "probe", "probing", "serve", "drain", "unlock"}

Is(p, steps) == pc[p] \in steps \/ (cmd[p] = "daemon" /\ pc[p] = "submit")

Claiming(p) == Is(p, (DaemonOnly \ {"claim"}) \cup {"held"})
Listening(p) == Is(p, DaemonOnly \ {"claim", "bind", "drain", "unlock"})
Published(p) == Is(p, DaemonOnly \ {"claim", "bind", "publish", "drain", "unlock"})

\* What a daemon has at each of its steps.
DaemonHas ==
    \A p \in Procs :
        /\ pc[p] \in DaemonOnly => cmd[p] = "daemon"
        /\ Claiming(p) => claim = p
        /\ Listening(p) => endpoint = p
        /\ Published(p) => metadata = p

\* A daemon that was asked to stop, and did not end yet, still holds its claim;
\* who found the claim free had nobody left to wait for.
AskedIsThere ==
    \A p \in Procs :
        /\ asked[p] \in Procs => pc[asked[p]] \in {"serve", "drain", "unlock"}
        /\ pc[p] = "stopped" => asked[p] = Free

\* The inductive invariant of the daemon's life.
Inv == TypeOK /\ LooksAtAJob /\ DaemonHas /\ AskedIsThere

-----------------------------------------------------------------------------

\* Init: no process runs.
LEMMA InitInv == Init => Inv
<1>1. SUFFICES ASSUME Init PROVE Inv
  OBVIOUS
<1>2. TypeOK
  BY <1>1, HomeAssumption DEF Init, TypeOK, ClaimsTypeOK, Status, Phases, Modes, Places, Commands
<1>3. LooksAtAJob /\ DaemonHas /\ AskedIsThere
  BY <1>1, FreeAssumption
  DEF Init, LooksAtAJob, DaemonHas, AskedIsThere, Is, Claiming, Listening, Published, DaemonOnly
<1>4. QED
  BY <1>2, <1>3 DEF Inv

-----------------------------------------------------------------------------
(* Every step keeps the types.                                             *)

\* Entries of one process move from phase to phase.
LEMMA MovesAreTyped ==
    ASSUME ClaimsTypeOK, NEW p \in Procs, NEW j \in Jobs, NEW to \in Phases, NEW how \in Modes
    PROVE  /\ Move(p, j, to) => phase' \in [Procs -> [Jobs -> Phases]] /\ mode' \in [Procs -> [Jobs -> Modes]]
           /\ Enqueue(p, j, how) => phase' \in [Procs -> [Jobs -> Phases]] /\ mode' \in [Procs -> [Jobs -> Modes]]
<1>1. phase \in [Procs -> [Jobs -> Phases]] /\ mode \in [Procs -> [Jobs -> Modes]] /\ "start" \in Modes
  BY DEF ClaimsTypeOK, Modes
<1>2. [phase EXCEPT ![p][j] = to] \in [Procs -> [Jobs -> Phases]]
  BY <1>1
<1>3. [phase EXCEPT ![p][j] = "queued"] \in [Procs -> [Jobs -> Phases]]
  BY <1>1 DEF Phases
<1>4. [mode EXCEPT ![p][j] = how] \in [Procs -> [Jobs -> Modes]]
  BY <1>1
<1>5. [mode EXCEPT ![p][j] = IF to = "none" THEN "start" ELSE @] \in [Procs -> [Jobs -> Modes]]
  BY <1>1
<1>6. QED
  BY <1>2, <1>3, <1>4, <1>5 DEF Move, Enqueue

\* Accepting, claiming, driving and settling one entry.
LEMMA EntriesAreTyped ==
    ASSUME ClaimsTypeOK, NEW p \in Procs, NEW j \in Jobs,
           \/ AcceptStart(p, j) \/ AcceptResume(p, j)
           \/ ClaimRepository(p, j) \/ RefuseRepository(p, j)
           \/ \E scheduled \in BOOLEAN : WorkerStep(p, j, scheduled)
    PROVE  ClaimsTypeOK'
<1>1. RepoOf[j] \in Repos
  BY RepoAssumption
<1>2. CASE AcceptStart(p, j)
  BY <1>2, MovesAreTyped DEF ClaimsTypeOK, AcceptStart, Status, Modes
<1>3. CASE AcceptResume(p, j)
  BY <1>3, MovesAreTyped DEF ClaimsTypeOK, AcceptResume, Modes
<1>4. CASE ClaimRepository(p, j)
  BY <1>4, MovesAreTyped DEF ClaimsTypeOK, ClaimRepository, AcquireRepository, Phases
<1>5. CASE RefuseRepository(p, j)
  BY <1>5, MovesAreTyped DEF ClaimsTypeOK, RefuseRepository, Phases
<1>6. CASE LockJob(p, j)
  BY <1>6, MovesAreTyped DEF ClaimsTypeOK, LockJob, AcquireJob, Phases
<1>7. CASE RefuseJob(p, j)
  BY <1>7, MovesAreTyped DEF ClaimsTypeOK, RefuseJob, Phases
<1>8. CASE Drive(p, j)
  <2>1. record' \in [Jobs -> Status]
    BY <1>8 DEF ClaimsTypeOK, Drive, DriveStart, DriveResume, DriveFails, Status
  <2>2. \E to \in Phases : Move(p, j, to)
    BY <1>8 DEF Drive, DriveStart, DriveResume, DriveFails, Phases
  <2>3. QED
    BY <1>8, <2>1, <2>2, MovesAreTyped DEF ClaimsTypeOK, Drive
<1>9. CASE EndDrive(p, j)
  <2>1. record' \in [Jobs -> Status]
    BY <1>9 DEF ClaimsTypeOK, EndDrive, Status, Terminal
  <2>2. \E to \in Phases : Move(p, j, to)
    BY <1>9 DEF EndDrive, Phases
  <2>3. QED
    BY <1>9, <2>1, <2>2, MovesAreTyped DEF ClaimsTypeOK, EndDrive
<1>10. CASE \E scheduled \in BOOLEAN : Release(p, j, scheduled)
  <2>1. \E to \in Phases : Move(p, j, to)
    BY <1>10 DEF Release, Phases
  <2>2. /\ jobLock' = [jobLock EXCEPT ![j] = Free]
        /\ repoLock' = [repoLock EXCEPT ![RepoOf[j]] = Free]
        /\ record' = record
    BY <1>10 DEF Release
  <2>3. QED
    BY <2>1, <2>2, MovesAreTyped DEF ClaimsTypeOK
<1>11. CASE SettleRead(p, j)
  <2>1. \E to \in Phases : Move(p, j, to)
    BY <1>11 DEF SettleRead, Phases
  <2>2. QED
    BY <1>11, <2>1, MovesAreTyped DEF ClaimsTypeOK, SettleRead
<1>12. CASE SettleWrite(p, j)
  BY <1>12, MovesAreTyped DEF ClaimsTypeOK, SettleWrite, Status, Phases
<1>13. QED
  BY <1>2, <1>3, <1>4, <1>5, <1>6, <1>7, <1>8, <1>9, <1>10, <1>11, <1>12 DEF WorkerStep

\* Locks are dropped and entries forgotten.
LEMMA ForgettingIsTyped ==
    ASSUME ClaimsTypeOK, NEW p \in Procs
    PROVE  /\ Forget(p) => phase' \in [Procs -> [Jobs -> Phases]] /\ mode' \in [Procs -> [Jobs -> Modes]]
           /\ DropAll(p) => repoLock' \in [Repos -> {Free} \cup (Procs \X Jobs)] /\ jobLock' \in [Jobs -> {Free} \cup Procs]
<1>1. Forget(p) => phase' \in [Procs -> [Jobs -> Phases]] /\ mode' \in [Procs -> [Jobs -> Modes]]
  <2>1. [j \in Jobs |-> "none"] \in [Jobs -> Phases] /\ [j \in Jobs |-> "start"] \in [Jobs -> Modes]
    BY DEF Phases, Modes
  <2>2. QED
    BY <2>1 DEF ClaimsTypeOK, Forget
<1>2. DropAll(p) => repoLock' \in [Repos -> {Free} \cup (Procs \X Jobs)] /\ jobLock' \in [Jobs -> {Free} \cup Procs]
  BY DEF ClaimsTypeOK, DropAll
<1>3. QED
  BY <1>1, <1>2

\* A step that leaves the claims alone.
LEMMA ClaimsUntouched ==
    ASSUME ClaimsTypeOK, UNCHANGED claimVars
    PROVE  ClaimsTypeOK'
BY DEF ClaimsTypeOK, claimVars

\* The end of a command.
LEMMA GoneIsTyped ==
    ASSUME TypeOK, NEW p \in Procs, Gone(p), ClaimsTypeOK', UNCHANGED <<endpoint, metadata>>,
           claim' \in {claim, Free}
    PROVE  TypeOK'
BY DEF TypeOK, Gone, Places, budgetVars

LEMMA ExitIsTyped ==
    ASSUME TypeOK, NEW p \in Procs, Exit(p)
    PROVE  TypeOK'
<1>1. ClaimsTypeOK'
  BY DEF TypeOK, ClaimsTypeOK, Exit, claimVars
<1>2. QED
  BY <1>1, GoneIsTyped DEF Exit, daemonVars

\* Commands begin, and old state is migrated.
LEMMA BeginningIsTyped ==
    ASSUME Inv, NEW p \in Procs,
           \/ \E c \in Commands : Launch(p, c)
           \/ Identify(p) \/ MigrateBegins(p) \/ MigrateChecks(p) \/ MigrateSaves(p) \/ MigrateEnds(p)
    PROVE  TypeOK'
<1>0. TypeOK /\ LooksAtAJob /\ ClaimsTypeOK
  BY DEF Inv, TypeOK
<1>1. ASSUME NEW c \in Commands, Launch(p, c) PROVE TypeOK'
  BY <1>0, <1>1, HomeAssumption, ClaimsUntouched
  DEF TypeOK, Launch, Go, Places, Commands, daemonVars, listVars
<1>2. CASE Identify(p)
  <2>1. CASE Exit(p)
    BY <1>0, <2>1, ExitIsTyped
  <2>2. CASE ~Exit(p)
    BY <1>0, <1>2, <2>2, ClaimsUntouched
    DEF TypeOK, Identify, Go, Places, Commands, daemonVars, listVars, budgetVars
  <2>3. QED
    BY <2>1, <2>2
<1>3. CASE MigrateBegins(p)
  BY <1>0, <1>3, HomeAssumption, ClaimsUntouched
  DEF TypeOK, MigrateBegins, Go, Quiet, Places, daemonVars, budgetVars
<1>4. CASE MigrateChecks(p)
  <2>1. PICK j \in scan[p] : /\ scan' = [scan EXCEPT ![p] = @ \ {j}]
                             /\ \/ UNCHANGED <<pc, cur>>
                                \/ Go(p, "saving") /\ cur' = [cur EXCEPT ![p] = j]
    BY <1>4 DEF MigrateChecks
  <2>2. ClaimsTypeOK'
    BY <1>0, <1>4, ClaimsUntouched DEF MigrateChecks
  <2>3. scan' \in [Procs -> SUBSET Jobs] /\ cur' \in [Procs -> {Free} \cup Jobs] /\ pc' \in [Procs -> Places]
    BY <1>0, <2>1 DEF TypeOK, Go, Places
  <2>4. QED
    BY <1>0, <1>4, <2>2, <2>3 DEF TypeOK, MigrateChecks, Quiet, daemonVars, budgetVars
<1>5. CASE MigrateSaves(p)
  <2>1. ClaimsTypeOK'
    BY <1>0, <1>5 DEF ClaimsTypeOK, MigrateSaves, Status
  <2>2. QED
    BY <1>0, <1>5, <2>1 DEF TypeOK, MigrateSaves, Go, Quiet, Places, daemonVars, budgetVars
<1>6. CASE MigrateEnds(p)
  <2>1. CASE Exit(p)
    BY <1>0, <2>1, ExitIsTyped
  <2>2. CASE ~Exit(p)
    BY <1>0, <1>6, <2>2, ClaimsUntouched
    DEF TypeOK, MigrateEnds, Go, Quiet, Places, daemonVars, listVars, budgetVars
  <2>3. QED
    BY <2>1, <2>2
<1>7. QED
  BY <1>1, <1>2, <1>3, <1>4, <1>5, <1>6

\* What the commands read before they claim anything.
LEMMA PreparationIsTyped ==
    ASSUME Inv, NEW p \in Procs,
           \/ PrepareRun(p) \/ PrepareResume(p) \/ PrepareScheduler(p) \/ PrepareDaemon(p) \/ Submit(p)
    PROVE  TypeOK'
<1>0. TypeOK /\ ClaimsTypeOK
  BY DEF Inv, TypeOK
<1>1. CASE Exit(p)
  BY <1>0, <1>1, ExitIsTyped
<1>2. ASSUME NEW j \in Jobs, NEW how \in Modes, OneEntry(p, j, how) PROVE TypeOK'
  <2>1. ClaimsTypeOK'
    BY <1>0, <1>2, MovesAreTyped DEF OneEntry, ClaimsTypeOK
  <2>2. QED
    BY <1>0, <1>2, <2>1 DEF TypeOK, OneEntry, Go, Quiet, Places, daemonVars, listVars, budgetVars
<1>3. CASE PrepareRun(p) \/ PrepareResume(p)
  BY <1>1, <1>2, <1>3 DEF PrepareRun, PrepareResume, Fresh, Candidates, Resumable, Modes
<1>4. CASE PrepareScheduler(p) /\ ~Exit(p)
  <2>1. PICK jobs \in SUBSET Jobs : toStart' = [toStart EXCEPT ![p] = jobs]
    BY <1>4 DEF PrepareScheduler, Fresh, Queued
  <2>2. ClaimsTypeOK'
    BY <1>0, <1>4, ClaimsUntouched DEF PrepareScheduler
  <2>3. QED
    BY <1>0, <1>4, <2>1, <2>2 DEF TypeOK, PrepareScheduler, Go, Quiet, Places, daemonVars, budgetVars
<1>5. CASE PrepareDaemon(p)
  BY <1>0, <1>5, ClaimsUntouched DEF TypeOK, PrepareDaemon, Go, Quiet, Places, daemonVars, listVars, budgetVars
<1>6. CASE Submit(p)
  <2>1. ClaimsTypeOK'
    BY <1>0, <1>6, EntriesAreTyped, ClaimsUntouched DEF Submit, TypeOK
  <2>2. toStart' \in [Procs -> SUBSET Jobs] /\ toResume' \in [Procs -> SUBSET Jobs] /\ pc' \in [Procs -> Places]
    BY <1>0, <1>6 DEF TypeOK, Submit, Go, Places
  <2>3. QED
    BY <1>0, <1>6, <2>1, <2>2 DEF TypeOK, Submit, Quiet, daemonVars, budgetVars
<1>7. QED
  BY <1>1, <1>3, <1>4, <1>5, <1>6

\* The life of a daemon.
LEMMA DaemonIsTyped ==
    ASSUME Inv, NEW p \in Procs,
           \/ DaemonClaims(p) \/ DaemonBinds(p) \/ PublishMetadata(p)
           \/ RecoverQueued(p) \/ RecoverInterrupted(p) \/ Probe(p) \/ ProbeReturns(p) \/ RecoverEnds(p)
           \/ DaemonSubmit(p) \/ Interrupt(p) \/ DaemonDrains(p) \/ DaemonStops(p) \/ DaemonUnlocks(p)
    PROVE  TypeOK'
<1>0. TypeOK /\ ClaimsTypeOK /\ LooksAtAJob
  BY DEF Inv, TypeOK
<1>1. CASE DaemonClaims(p)
  <2>1. CASE Exit(p)
    BY <1>0, <2>1, ExitIsTyped
  <2>2. CASE ~Exit(p)
    BY <1>0, <1>1, <2>2, ClaimsUntouched DEF TypeOK, DaemonClaims, Go, Quiet, Places, listVars, budgetVars
  <2>3. QED
    BY <2>1, <2>2
<1>2. CASE DaemonBinds(p) \/ PublishMetadata(p) \/ DaemonDrains(p)
  BY <1>0, <1>2, ClaimsUntouched
  DEF TypeOK, DaemonBinds, PublishMetadata, DaemonDrains, Go, Quiet, Places, listVars, budgetVars
<1>3. CASE RecoverQueued(p) \/ RecoverInterrupted(p) \/ RecoverEnds(p)
  <2>1. ClaimsTypeOK'
    BY <1>0, <1>3, ClaimsUntouched DEF RecoverQueued, RecoverInterrupted, RecoverEnds
  <2>2. /\ toStart' \in [Procs -> SUBSET Jobs] /\ toResume' \in [Procs -> SUBSET Jobs]
        /\ scan' \in [Procs -> SUBSET Jobs] /\ pc' \in [Procs -> Places]
    BY <1>0, <1>3
    DEF TypeOK, RecoverQueued, RecoverInterrupted, RecoverEnds, Go, Places, Queued, Candidates, Resumable
  <2>3. QED
    BY <1>0, <1>3, <2>1, <2>2
    DEF TypeOK, RecoverQueued, RecoverInterrupted, RecoverEnds, Quiet, daemonVars, budgetVars
<1>4. CASE Probe(p)
  <2>1. PICK j \in scan[p] : /\ scan' = [scan EXCEPT ![p] = @ \ {j}]
                             /\ \/ UNCHANGED <<jobLock, cur, pc>>
                                \/ AcquireJob(p, j) /\ cur' = [cur EXCEPT ![p] = j] /\ Go(p, "probing")
    BY <1>4 DEF Probe
  <2>2. j \in Jobs
    BY <1>0 DEF TypeOK
  <2>3. ClaimsTypeOK'
    BY <1>0, <1>4, <2>1, <2>2 DEF ClaimsTypeOK, Probe, AcquireJob
  <2>4. scan' \in [Procs -> SUBSET Jobs] /\ cur' \in [Procs -> {Free} \cup Jobs] /\ pc' \in [Procs -> Places]
    BY <1>0, <2>1, <2>2 DEF TypeOK, Go, Places
  <2>5. QED
    BY <1>0, <1>4, <2>3, <2>4 DEF TypeOK, Probe, Quiet, daemonVars, budgetVars
<1>5. CASE ProbeReturns(p)
  <2>1. cur[p] \in Jobs
    BY <1>0, <1>5 DEF ProbeReturns, At, LooksAtAJob
  <2>2. ClaimsTypeOK'
    BY <1>0, <1>5 DEF ClaimsTypeOK, ProbeReturns
  <2>3. QED
    BY <1>0, <1>5, <2>1, <2>2 DEF TypeOK, ProbeReturns, Go, Quiet, Places, daemonVars, budgetVars
<1>6. CASE DaemonSubmit(p)
  <2>1. ClaimsTypeOK'
    BY <1>0, <1>6, EntriesAreTyped DEF DaemonSubmit, Fresh
  <2>2. QED
    BY <1>0, <1>6, <2>1 DEF TypeOK, DaemonSubmit, Quiet, daemonVars, listVars, budgetVars
<1>7. CASE Interrupt(p)
  BY <1>0, <1>7, ClaimsUntouched DEF TypeOK, Interrupt, daemonVars, listVars, budgetVars
<1>8. CASE DaemonStops(p)
  <2>1. ClaimsTypeOK'
    BY <1>0, <1>8, ForgettingIsTyped DEF ClaimsTypeOK, DaemonStops
  <2>2. QED
    BY <1>0, <1>8, <2>1 DEF TypeOK, DaemonStops, Go, Quiet, Places, listVars, budgetVars
<1>9. CASE DaemonUnlocks(p)
  BY <1>0, <1>9, ClaimsUntouched, GoneIsTyped DEF DaemonUnlocks
<1>10. QED
  BY <1>1, <1>2, <1>3, <1>4, <1>5, <1>6, <1>7, <1>8, <1>9

\* Workers, "lya daemon stop", and the end of a process.
LEMMA OthersAreTyped ==
    ASSUME Inv, NEW p \in Procs,
           \/ \E j \in Jobs : Begin(p, j) \/ Work(p, j)
           \/ Finish(p) \/ RequestShutdown(p) \/ Poll(p) \/ PollReturns(p) \/ ReportStopped(p)
           \/ GiveUp(p) \/ Crash(p)
    PROVE  TypeOK'
<1>0. TypeOK /\ ClaimsTypeOK
  BY DEF Inv, TypeOK
<1>1. ASSUME NEW j \in Jobs, Begin(p, j) \/ Work(p, j) PROVE TypeOK'
  <2>1. ClaimsTypeOK'
    <3>1. Scheduled(p) \in BOOLEAN
      BY DEF Scheduled
    <3>2. ClaimRepository(p, j) \/ RefuseRepository(p, j) \/ \E scheduled \in BOOLEAN : WorkerStep(p, j, scheduled)
      BY <1>1, <3>1 DEF Begin, Work
    <3>3. QED
      BY <1>0, <3>2, EntriesAreTyped
  <2>2. QED
    BY <1>0, <1>1, <2>1 DEF TypeOK, Begin, Work, Quiet, daemonVars, listVars, budgetVars
<1>2. CASE Finish(p)
  <2>1. ClaimsTypeOK'
    BY <1>0, <1>2, ForgettingIsTyped DEF ClaimsTypeOK, Finish
  <2>2. QED
    BY <1>0, <1>2, <2>1, GoneIsTyped DEF Finish, daemonVars
<1>3. CASE Exit(p)
  BY <1>0, <1>3, ExitIsTyped
<1>4. CASE RequestShutdown(p) /\ ~Exit(p)
  <2>1. /\ endpoint \in Procs
        /\ stopping' = [stopping EXCEPT ![endpoint] = TRUE]
        /\ asked' = [asked EXCEPT ![p] = endpoint]
        /\ pc' = [pc EXCEPT ![p] = "poll"]
        /\ UNCHANGED <<claimVars, daemonVars, listVars, legacy, cmd, budgetVars>>
    BY <1>4 DEF RequestShutdown, Go
  <2>2. /\ stopping' \in [Procs -> BOOLEAN] /\ asked' \in [Procs -> {Free} \cup Procs]
        /\ pc' \in [Procs -> Places]
    BY <1>0, <2>1 DEF TypeOK, Places
  <2>3. QED
    BY <1>0, <2>1, <2>2, ClaimsUntouched DEF TypeOK, daemonVars, listVars, budgetVars
<1>5. CASE Poll(p) \/ PollReturns(p)
  BY <1>0, <1>5, ClaimsUntouched DEF TypeOK, Poll, PollReturns, Go, Quiet, Places, listVars, budgetVars
<1>6. CASE Crash(p)
  <2>1. ClaimsTypeOK'
    BY <1>0, <1>6, ForgettingIsTyped DEF ClaimsTypeOK, Crash
  <2>2. crashes' \in 0 .. MaxCrashes
    BY <1>0, <1>6, HomeAssumption DEF TypeOK, Crash
  <2>3. QED
    BY <1>0, <1>6, <2>1, <2>2 DEF TypeOK, Crash, Places
<1>7. QED
  BY <1>1, <1>2, <1>3, <1>4, <1>5, <1>6 DEF ReportStopped, GiveUp

-----------------------------------------------------------------------------
(* Every step keeps the daemon known.                                      *)

\* What is said of the processes, without their types.
Known == LooksAtAJob /\ DaemonHas /\ AskedIsThere

\* A step that moves no process, gives no command and leaves the daemon's files
\* and the waiting clients alone.
LEMMA KnownUntouched ==
    ASSUME Known, UNCHANGED <<daemonVars, cmd, pc, cur, asked>>
    PROVE  Known'
BY DEF Known, LooksAtAJob, DaemonHas, AskedIsThere, Is, Claiming, Listening, Published, daemonVars

\* A process without a claim goes from one step to another one without.
Elsewhere == {"idle", "identify", "migrate", "migrating", "saving", "prepare", "work", "connect", "poll"}

LEMMA KnownElsewhere ==
    ASSUME TypeOK, Known, UNCHANGED <<daemonVars, asked>>, NEW p \in Procs,
           NEW here \in Elsewhere, NEW there \in Elsewhere, pc[p] = here, pc' = [pc EXCEPT ![p] = there],
           \A q \in Procs \ {p} : cmd'[q] = cmd[q] /\ cur'[q] = cur[q],
           there = "saving" => cur'[p] \in Jobs
    PROVE  Known'
<1>1. \A q \in Procs \ {p} : pc'[q] = pc[q]
  BY DEF TypeOK
<1>2. pc'[p] = there
  BY DEF TypeOK
<1>3. LooksAtAJob'
  BY <1>1, <1>2 DEF Known, LooksAtAJob, Elsewhere
<1>4. DaemonHas'
  BY <1>1, <1>2 DEF Known, DaemonHas, Is, Claiming, Listening, Published, DaemonOnly, Elsewhere, daemonVars
<1>5. AskedIsThere'
  BY <1>1, <1>2 DEF Known, AskedIsThere, Elsewhere
<1>6. QED
  BY <1>3, <1>4, <1>5 DEF Known

\* The end of a command: what it claimed goes with it, and nobody waits for it.
LEMMA KnownGone ==
    ASSUME TypeOK, Known, NEW p \in Procs,
           cmd' = [cmd EXCEPT ![p] = "none"],
           pc' = [pc EXCEPT ![p] = "idle"],
           cur' = [cur EXCEPT ![p] = Free],
           asked' = [q \in Procs |-> IF q = p \/ asked[q] = p THEN Free ELSE asked[q]],
           \A q \in Procs \ {p} : /\ claim = q => claim' = q
                                  /\ endpoint = q => endpoint' = q
                                  /\ metadata = q => metadata' = q
    PROVE  Known'
<1>1. \A q \in Procs \ {p} : pc'[q] = pc[q] /\ cmd'[q] = cmd[q] /\ cur'[q] = cur[q]
  BY DEF TypeOK
<1>2. pc'[p] = "idle"
  BY DEF TypeOK
<1>3. LooksAtAJob'
  BY <1>1, <1>2 DEF Known, LooksAtAJob
<1>4. DaemonHas'
  BY <1>1, <1>2 DEF Known, DaemonHas, Is, Claiming, Listening, Published, DaemonOnly
<1>5. AskedIsThere'
  BY <1>1, <1>2, FreeAssumption DEF Known, AskedIsThere
<1>6. QED
  BY <1>3, <1>4, <1>5 DEF Known

LEMMA KnownExit ==
    ASSUME TypeOK, Known, NEW p \in Procs, Exit(p)
    PROVE  Known'
BY KnownGone DEF Exit, Gone, daemonVars

\* Commands begin, and read what they need.
LEMMA BeginningKeepsKnown ==
    ASSUME TypeOK, Known, NEW p \in Procs,
           \/ \E c \in Commands : Launch(p, c)
           \/ Identify(p) \/ MigrateBegins(p) \/ MigrateChecks(p) \/ MigrateSaves(p) \/ MigrateEnds(p)
           \/ PrepareRun(p) \/ PrepareResume(p)
    PROVE  Known'
<1>0. CASE Exit(p)
  BY <1>0, KnownExit
<1>1. ASSUME NEW c \in Commands, Launch(p, c) PROVE Known'
  <2>1. PICK there \in Elsewhere : there # "saving" /\ pc' = [pc EXCEPT ![p] = there]
    BY <1>1 DEF Launch, Go, Elsewhere
  <2>2. pc[p] = "idle" /\ UNCHANGED <<daemonVars, asked, cur>> /\ \A q \in Procs \ {p} : cmd'[q] = cmd[q]
    BY <1>1 DEF Launch, At, listVars, TypeOK
  <2>3. QED
    BY <2>1, <2>2, KnownElsewhere DEF Elsewhere
<1>2. CASE Identify(p) /\ ~Exit(p)
  <2>1. /\ pc[p] = "identify" /\ pc' = [pc EXCEPT ![p] = "migrate"]
        /\ UNCHANGED <<daemonVars, asked, cur>> /\ \A q \in Procs \ {p} : cmd'[q] = cmd[q]
    BY <1>2 DEF Identify, At, Go, listVars, TypeOK
  <2>2. QED
    BY <2>1, KnownElsewhere DEF Elsewhere
<1>3. CASE MigrateBegins(p)
  <2>1. PICK there \in {"migrating", "prepare"} : pc' = [pc EXCEPT ![p] = there]
    BY <1>3 DEF MigrateBegins, Go
  <2>2. pc[p] = "migrate" /\ UNCHANGED <<daemonVars, asked, cur, cmd>>
    BY <1>3 DEF MigrateBegins, At, Quiet
  <2>3. QED
    BY <2>1, <2>2, KnownElsewhere DEF Elsewhere
<1>4. CASE MigrateChecks(p)
  <2>1. PICK j \in scan[p] : /\ scan' = [scan EXCEPT ![p] = @ \ {j}]
                             /\ \/ UNCHANGED <<pc, cur>>
                                \/ Go(p, "saving") /\ cur' = [cur EXCEPT ![p] = j]
    BY <1>4 DEF MigrateChecks
  <2>2. pc[p] = "migrating" /\ j \in Jobs /\ UNCHANGED <<daemonVars, asked, cmd>>
    BY <1>4 DEF MigrateChecks, At, Quiet, TypeOK
  <2>3. CASE UNCHANGED <<pc, cur>>
    BY <2>2, <2>3, KnownUntouched
  <2>4. CASE Go(p, "saving") /\ cur' = [cur EXCEPT ![p] = j]
    <3>1. pc' = [pc EXCEPT ![p] = "saving"] /\ cur'[p] \in Jobs /\ \A q \in Procs \ {p} : cur'[q] = cur[q]
      BY <2>2, <2>4 DEF Go, TypeOK
    <3>2. QED
      BY <2>2, <3>1, KnownElsewhere DEF Elsewhere
  <2>5. QED
    BY <2>1, <2>3, <2>4
<1>5. CASE MigrateSaves(p)
  <2>1. /\ pc[p] = "saving" /\ pc' = [pc EXCEPT ![p] = "migrating"]
        /\ UNCHANGED <<daemonVars, asked, cmd>> /\ \A q \in Procs \ {p} : cur'[q] = cur[q]
    BY <1>5 DEF MigrateSaves, At, Go, Quiet, TypeOK
  <2>2. QED
    BY <2>1, KnownElsewhere DEF Elsewhere
<1>6. CASE MigrateEnds(p) /\ ~Exit(p)
  <2>1. /\ pc[p] = "migrating" /\ pc' = [pc EXCEPT ![p] = "prepare"]
        /\ UNCHANGED <<daemonVars, asked, cmd, cur>>
    BY <1>6 DEF MigrateEnds, At, Go, Quiet, listVars
  <2>2. QED
    BY <2>1, KnownElsewhere DEF Elsewhere
<1>7. CASE (PrepareRun(p) \/ PrepareResume(p)) /\ ~Exit(p)
  <2>1. /\ pc[p] = "prepare" /\ pc' = [pc EXCEPT ![p] = "work"]
        /\ UNCHANGED <<daemonVars, asked, cmd, cur>>
    BY <1>7 DEF PrepareRun, PrepareResume, OneEntry, At, Go, Quiet, listVars
  <2>2. QED
    BY <2>1, KnownElsewhere DEF Elsewhere
<1>8. QED
  BY <1>0, <1>1, <1>2, <1>3, <1>4, <1>5, <1>6, <1>7

\* The process that holds the claim moves on: no other daemon has anything.
LEMMA KnownClaimant ==
    ASSUME TypeOK, Known, UNCHANGED <<cmd, asked, claim>>, NEW p \in Procs, Claiming(p), cmd[p] = "daemon",
           NEW there \in DaemonOnly \cup {"submit"}, pc' = [pc EXCEPT ![p] = there],
           there = "probing" => cur'[p] \in Jobs,
           there \notin {"bind", "drain", "unlock"} => endpoint' = p,
           there \notin {"bind", "publish", "drain", "unlock"} => metadata' = p,
           pc[p] \in {"serve", "drain", "unlock"} => there \in {"serve", "drain", "unlock"},
           \A q \in Procs \ {p} : cur'[q] = cur[q]
    PROVE  Known'
<1>1. \A q \in Procs \ {p} : pc'[q] = pc[q]
  BY DEF TypeOK
<1>2. pc'[p] = there
  BY DEF TypeOK
<1>3. claim = p
  BY DEF Known, DaemonHas
<1>4. \A q \in Procs \ {p} : ~Claiming(q) /\ ~Listening(q) /\ ~Published(q)
  <2>1. \A q \in Procs \ {p} : ~Claiming(q)
    BY <1>3 DEF Known, DaemonHas
  <2>2. QED
    BY <2>1 DEF Claiming, Listening, Published, Is, DaemonOnly
<1>5. LooksAtAJob'
  BY <1>1, <1>2 DEF Known, LooksAtAJob, DaemonOnly
<1>6. DaemonHas'
  <2>1. ASSUME NEW q \in Procs \ {p}
        PROVE  /\ pc'[q] \in DaemonOnly => cmd'[q] = "daemon"
               /\ ~Claiming(q)' /\ ~Listening(q)' /\ ~Published(q)'
    BY <1>1, <1>4 DEF Known, DaemonHas, Claiming, Listening, Published, Is
  <2>2. /\ cmd'[p] = "daemon" /\ claim' = p
        /\ Listening(p)' => endpoint' = p
        /\ Published(p)' => metadata' = p
    BY <1>2, <1>3 DEF Listening, Published, Is, DaemonOnly
  <2>3. QED
    BY <2>1, <2>2 DEF DaemonHas
<1>7. AskedIsThere'
  BY <1>1, <1>2 DEF Known, AskedIsThere, DaemonOnly
<1>8. QED
  BY <1>5, <1>6, <1>7 DEF Known

\* A batch and a daemon submit what they have read.
LEMMA SubmissionKeepsKnown ==
    ASSUME TypeOK, Known, NEW p \in Procs,
           PrepareScheduler(p) \/ PrepareDaemon(p) \/ Submit(p)
    PROVE  Known'
<1>0. CASE Exit(p)
  BY <1>0, KnownExit
<1>1. CASE PrepareScheduler(p) /\ ~Exit(p)
  <2>1. /\ cmd[p] = "scheduler" /\ pc' = [pc EXCEPT ![p] = "submit"]
        /\ UNCHANGED <<daemonVars, cmd, asked, cur>>
    BY <1>1 DEF PrepareScheduler, Go, Quiet
  <2>2. QED
    BY <2>1
    DEF TypeOK, Known, LooksAtAJob, DaemonHas, AskedIsThere, Claiming, Listening, Published, Is, DaemonOnly, daemonVars,
        PrepareScheduler, At
<1>2. CASE PrepareDaemon(p)
  <2>1. /\ pc[p] = "prepare" /\ cmd[p] = "daemon" /\ pc' = [pc EXCEPT ![p] = "claim"]
        /\ UNCHANGED <<daemonVars, cmd, asked, cur>>
    BY <1>2 DEF PrepareDaemon, At, Go, Quiet, listVars
  <2>2. QED
    BY <2>1
    DEF TypeOK, Known, LooksAtAJob, DaemonHas, AskedIsThere, Claiming, Listening, Published, Is, DaemonOnly, daemonVars
<1>3. CASE Submit(p)
  <2>1. pc[p] = "submit" /\ UNCHANGED <<daemonVars, cmd, asked, cur>>
    BY <1>3 DEF Submit, At, Quiet
  <2>2. CASE pc' = pc
    BY <2>1, <2>2, KnownUntouched
  <2>3. CASE pc' = [pc EXCEPT ![p] = "serve"] /\ cmd[p] = "daemon"
    <3>1. Claiming(p) /\ endpoint = p /\ metadata = p
      BY <2>1, <2>3 DEF Known, DaemonHas, Claiming, Listening, Published, Is
    <3>2. QED
      BY <2>1, <2>3, <3>1, KnownClaimant DEF DaemonOnly, daemonVars
  <2>4. CASE pc' = [pc EXCEPT ![p] = "work"] /\ cmd[p] # "daemon"
    BY <2>1, <2>4
    DEF TypeOK, Known, LooksAtAJob, DaemonHas, AskedIsThere, Claiming, Listening, Published, Is, DaemonOnly, daemonVars
  <2>5. QED
    BY <1>3, <2>2, <2>3, <2>4 DEF Submit, Go
<1>4. QED
  BY <1>0, <1>1, <1>2, <1>3

\* The claim is taken first, and only when nobody has it.
LEMMA ClaimingKeepsKnown ==
    ASSUME TypeOK, Known, NEW p \in Procs,
           DaemonClaims(p) \/ DaemonUnlocks(p) \/ Poll(p) \/ PollReturns(p)
    PROVE  Known'
<1>0. CASE Exit(p)
  BY <1>0, KnownExit
<1>1. ASSUME claim = Free, claim' = p, UNCHANGED <<cmd, asked, cur, endpoint, metadata>>,
             NEW there \in {"bind", "held"}, pc' = [pc EXCEPT ![p] = there], there = "bind" => cmd[p] = "daemon",
             pc[p] \in {"claim", "poll"}
      PROVE  Known'
  <2>1. \A q \in Procs : ~Claiming(q) /\ ~Listening(q) /\ ~Published(q)
    <3>1. \A q \in Procs : ~Claiming(q)
      BY <1>1, FreeAssumption DEF Known, DaemonHas
    <3>2. QED
      BY <3>1 DEF Claiming, Listening, Published, Is, DaemonOnly
  <2>2. pc'[p] = there /\ \A q \in Procs \ {p} : pc'[q] = pc[q]
    BY <1>1 DEF TypeOK
  <2>3. DaemonHas'
    <3>1. ASSUME NEW q \in Procs \ {p}
          PROVE  /\ pc'[q] \in DaemonOnly => cmd'[q] = "daemon"
                 /\ ~Claiming(q)' /\ ~Listening(q)' /\ ~Published(q)'
      BY <1>1, <2>1, <2>2 DEF Known, DaemonHas, Claiming, Listening, Published, Is
    <3>2. pc'[p] \in DaemonOnly => cmd'[p] = "daemon"
      BY <1>1, <2>2 DEF DaemonOnly
    <3>3. ~Listening(p)' /\ ~Published(p)'
      BY <1>1, <2>2 DEF Listening, Published, Is, DaemonOnly
    <3>4. QED
      BY <1>1, <3>1, <3>2, <3>3 DEF DaemonHas
  <2>4. LooksAtAJob' /\ AskedIsThere'
    BY <1>1, <2>2 DEF Known, LooksAtAJob, AskedIsThere
  <2>5. QED
    BY <2>3, <2>4 DEF Known
<1>2. CASE DaemonClaims(p) /\ ~Exit(p)
  <2>1. /\ pc[p] = "claim" /\ claim = Free /\ claim' = p /\ pc' = [pc EXCEPT ![p] = "bind"]
        /\ UNCHANGED <<cmd, asked, cur, endpoint, metadata>>
    BY <1>2 DEF DaemonClaims, At, Go, Quiet, listVars
  <2>2. cmd[p] = "daemon"
    BY <2>1 DEF Known, DaemonHas, DaemonOnly
  <2>3. QED
    BY <1>1, <2>1, <2>2
<1>3. CASE Poll(p)
  <2>1. /\ pc[p] = "poll" /\ claim = Free /\ claim' = p /\ pc' = [pc EXCEPT ![p] = "held"]
        /\ UNCHANGED <<cmd, asked, cur, endpoint, metadata>>
    BY <1>3 DEF Poll, At, Go, Quiet, listVars
  <2>2. QED
    BY <1>1, <2>1
<1>4. CASE PollReturns(p)
  <2>1. /\ pc[p] = "held" /\ claim' = Free /\ pc' = [pc EXCEPT ![p] = "stopped"]
        /\ UNCHANGED <<cmd, asked, cur, endpoint, metadata>>
    BY <1>4 DEF PollReturns, At, Go, Quiet, listVars
  <2>2. claim = p
    BY <2>1 DEF Known, DaemonHas, Claiming, Is
  <2>3. \A q \in Procs \ {p} : ~Claiming(q) /\ ~Listening(q) /\ ~Published(q)
    <3>1. \A q \in Procs \ {p} : ~Claiming(q)
      BY <2>2 DEF Known, DaemonHas
    <3>2. QED
      BY <3>1 DEF Claiming, Listening, Published, Is, DaemonOnly
  <2>4. pc'[p] = "stopped" /\ \A q \in Procs \ {p} : pc'[q] = pc[q]
    BY <2>1 DEF TypeOK
  <2>5. ~Claiming(p)' /\ ~Listening(p)' /\ ~Published(p)' /\ pc'[p] \notin DaemonOnly
    BY <2>4 DEF Claiming, Listening, Published, Is, DaemonOnly
  <2>6. ASSUME NEW q \in Procs \ {p}
        PROVE  /\ pc'[q] \in DaemonOnly => cmd'[q] = "daemon"
               /\ ~Claiming(q)' /\ ~Listening(q)' /\ ~Published(q)'
    BY <2>1, <2>3, <2>4 DEF Known, DaemonHas, Claiming, Listening, Published, Is
  <2>7. asked[p] = Free
    <3>1. asked[p] \notin Procs
      <4>1. SUFFICES ASSUME asked[p] \in Procs PROVE FALSE
        OBVIOUS
      <4>2. pc[asked[p]] \in {"serve", "drain", "unlock"}
        BY <4>1 DEF Known, AskedIsThere
      <4>3. Claiming(asked[p])
        BY <4>2 DEF Claiming, Is, DaemonOnly
      <4>4. asked[p] = p
        BY <2>3, <4>1, <4>3
      <4>5. QED
        BY <2>1, <4>2, <4>4
    <3>2. QED
      BY <3>1 DEF TypeOK
  <2>8. LooksAtAJob' /\ AskedIsThere'
    BY <2>1, <2>4, <2>7, FreeAssumption DEF Known, LooksAtAJob, AskedIsThere
  <2>9. QED
    BY <2>5, <2>6, <2>8 DEF Known, DaemonHas
<1>5. CASE DaemonUnlocks(p)
  <2>1. pc[p] = "unlock" /\ Gone(p) /\ UNCHANGED <<endpoint, metadata>>
    BY <1>5 DEF DaemonUnlocks, At
  <2>2. claim = p
    BY <2>1 DEF Known, DaemonHas, Claiming, Is, DaemonOnly
  <2>3. QED
    BY <2>1, <2>2, KnownGone DEF Gone
<1>6. QED
  BY <1>0, <1>2, <1>3, <1>4, <1>5

\* The other steps of Daemon::serve, all under the claim.
LEMMA DaemonKeepsKnown ==
    ASSUME TypeOK, Known, NEW p \in Procs,
           \/ DaemonBinds(p) \/ PublishMetadata(p)
           \/ RecoverQueued(p) \/ RecoverInterrupted(p) \/ Probe(p) \/ ProbeReturns(p) \/ RecoverEnds(p)
           \/ DaemonDrains(p) \/ DaemonStops(p)
    PROVE  Known'
<1>1. pc[p] \in DaemonOnly \ {"claim"}
  BY DEF DaemonBinds, PublishMetadata, RecoverQueued, RecoverInterrupted, Probe, ProbeReturns, RecoverEnds,
         DaemonDrains, DaemonStops, At, DaemonOnly
<1>2. Claiming(p) /\ cmd[p] = "daemon"
  BY <1>1 DEF Known, DaemonHas, Claiming, Is
<1>3. UNCHANGED <<cmd, asked, claim>>
  BY DEF DaemonBinds, PublishMetadata, RecoverQueued, RecoverInterrupted, Probe, ProbeReturns, RecoverEnds,
         DaemonDrains, DaemonStops, Quiet, daemonVars
<1>4. Listening(p) => endpoint = p
  BY DEF Known, DaemonHas
<1>5. Published(p) => metadata = p
  BY DEF Known, DaemonHas
<1>6. CASE DaemonBinds(p)
  <2>1. pc' = [pc EXCEPT ![p] = "publish"] /\ endpoint' = p /\ cur' = cur /\ pc[p] = "bind"
    BY <1>6 DEF DaemonBinds, At, Go, listVars
  <2>2. QED
    BY <1>2, <1>3, <2>1, KnownClaimant DEF DaemonOnly
<1>7. CASE PublishMetadata(p)
  <2>1. /\ pc' = [pc EXCEPT ![p] = "recover"] /\ pc[p] = "publish"
        /\ endpoint' = endpoint /\ metadata' = p /\ cur' = cur
    BY <1>7 DEF PublishMetadata, At, Go, listVars
  <2>2. endpoint = p
    BY <1>4, <2>1 DEF Listening, Is, DaemonOnly
  <2>3. QED
    BY <1>2, <1>3, <2>1, <2>2, KnownClaimant DEF DaemonOnly
<1>8. CASE RecoverQueued(p) \/ RecoverInterrupted(p) \/ RecoverEnds(p)
  <2>1. PICK there \in {"interrupted", "probe", "submit"} : pc' = [pc EXCEPT ![p] = there]
    BY <1>8 DEF RecoverQueued, RecoverInterrupted, RecoverEnds, Go
  <2>2. pc[p] \in {"recover", "interrupted", "probe"} /\ UNCHANGED <<endpoint, metadata, cur>>
    BY <1>8 DEF RecoverQueued, RecoverInterrupted, RecoverEnds, At, daemonVars
  <2>3. endpoint = p /\ metadata = p
    BY <1>4, <1>5, <2>2 DEF Listening, Published, Is, DaemonOnly
  <2>4. QED
    BY <1>2, <1>3, <2>1, <2>2, <2>3, KnownClaimant DEF DaemonOnly
<1>9. CASE Probe(p)
  <2>1. PICK j \in scan[p] : /\ scan' = [scan EXCEPT ![p] = @ \ {j}]
                             /\ \/ UNCHANGED <<jobLock, cur, pc>>
                                \/ AcquireJob(p, j) /\ cur' = [cur EXCEPT ![p] = j] /\ Go(p, "probing")
    BY <1>9 DEF Probe
  <2>2. j \in Jobs /\ pc[p] = "probe" /\ UNCHANGED <<daemonVars, endpoint, metadata>>
    BY <1>9 DEF Probe, At, daemonVars, TypeOK
  <2>3. endpoint = p /\ metadata = p
    BY <1>4, <1>5, <2>2 DEF Listening, Published, Is, DaemonOnly
  <2>4. CASE UNCHANGED <<cur, pc>>
    BY <1>3, <2>2, <2>4, KnownUntouched
  <2>5. CASE cur' = [cur EXCEPT ![p] = j] /\ Go(p, "probing")
    <3>1. /\ pc' = [pc EXCEPT ![p] = "probing"] /\ cur'[p] \in Jobs
          /\ \A q \in Procs \ {p} : cur'[q] = cur[q]
      BY <2>2, <2>5 DEF Go, TypeOK
    <3>2. QED
      BY <1>2, <1>3, <2>2, <2>3, <3>1, KnownClaimant DEF DaemonOnly
  <2>6. QED
    BY <2>1, <2>4, <2>5
<1>10. CASE ProbeReturns(p)
  <2>1. /\ pc' = [pc EXCEPT ![p] = "probe"] /\ pc[p] = "probing" /\ UNCHANGED <<endpoint, metadata>>
        /\ \A q \in Procs \ {p} : cur'[q] = cur[q]
    BY <1>10 DEF ProbeReturns, At, Go, daemonVars, TypeOK
  <2>2. endpoint = p /\ metadata = p
    BY <1>4, <1>5, <2>1 DEF Listening, Published, Is, DaemonOnly
  <2>3. QED
    BY <1>2, <1>3, <2>1, <2>2, KnownClaimant DEF DaemonOnly
<1>11. CASE DaemonDrains(p) \/ DaemonStops(p)
  <2>1. PICK there \in {"drain", "unlock"} : pc' = [pc EXCEPT ![p] = there]
    BY <1>11 DEF DaemonDrains, DaemonStops, Go
  <2>2. cur' = cur
    BY <1>11 DEF DaemonDrains, DaemonStops, listVars
  <2>3. QED
    BY <1>2, <1>3, <2>1, <2>2, KnownClaimant DEF DaemonOnly
<1>12. QED
  BY <1>6, <1>7, <1>8, <1>9, <1>10, <1>11

\* Workers, clients and the end of a process.
LEMMA OthersKeepKnown ==
    ASSUME TypeOK, Known, NEW p \in Procs,
           \/ \E j \in Jobs : Begin(p, j) \/ Work(p, j)
           \/ DaemonSubmit(p) \/ Interrupt(p) \/ Finish(p)
           \/ RequestShutdown(p) \/ ReportStopped(p) \/ GiveUp(p) \/ Crash(p)
    PROVE  Known'
<1>0. CASE Exit(p)
  BY <1>0, KnownExit
<1>1. CASE (\E j \in Jobs : Begin(p, j) \/ Work(p, j)) \/ DaemonSubmit(p) \/ Interrupt(p)
  <2>1. UNCHANGED <<daemonVars, cmd, pc, cur, asked>>
    BY <1>1 DEF Begin, Work, DaemonSubmit, Interrupt, Quiet, listVars
  <2>2. QED
    BY <2>1, KnownUntouched
<1>2. CASE Finish(p)
  BY <1>2, KnownGone DEF Finish, Gone, daemonVars
<1>3. CASE RequestShutdown(p) /\ ~Exit(p)
  <2>1. /\ pc[p] = "connect" /\ endpoint \in Procs /\ pc[endpoint] = "serve"
        /\ asked' = [asked EXCEPT ![p] = endpoint]
        /\ pc' = [pc EXCEPT ![p] = "poll"]
        /\ UNCHANGED <<daemonVars, cmd, cur>>
    BY <1>3 DEF RequestShutdown, At, Go, listVars
  <2>2. pc'[p] = "poll" /\ \A q \in Procs \ {p} : pc'[q] = pc[q]
    BY <2>1 DEF TypeOK
  <2>3. LooksAtAJob'
    BY <2>1, <2>2 DEF Known, LooksAtAJob
  <2>4. DaemonHas'
    BY <2>1, <2>2 DEF Known, DaemonHas, Claiming, Listening, Published, Is, DaemonOnly, daemonVars
  <2>5. AskedIsThere'
    <3>1. asked'[p] = endpoint /\ \A q \in Procs \ {p} : asked'[q] = asked[q]
      BY <2>1 DEF TypeOK
    <3>2. ASSUME NEW q \in Procs, asked'[q] \in Procs PROVE pc'[asked'[q]] \in {"serve", "drain", "unlock"}
      BY <2>1, <2>2, <3>1, <3>2 DEF Known, AskedIsThere
    <3>3. ASSUME NEW q \in Procs, pc'[q] = "stopped" PROVE asked'[q] = Free
      BY <2>1, <2>2, <3>1, <3>3 DEF Known, AskedIsThere
    <3>4. QED
      BY <3>2, <3>3 DEF AskedIsThere
  <2>6. QED
    BY <2>3, <2>4, <2>5 DEF Known
<1>4. CASE Crash(p)
  BY <1>4, KnownGone DEF Crash
<1>5. QED
  BY <1>0, <1>1, <1>2, <1>3, <1>4 DEF ReportStopped, GiveUp

\* The invariant is inductive.
LEMMA NextInv == Inv /\ [Next]_vars => Inv'
<1>1. SUFFICES ASSUME Inv, [Next]_vars PROVE Inv'
  OBVIOUS
<1>2. TypeOK /\ Known
  BY <1>1 DEF Inv, Known
<1>3. CASE UNCHANGED vars
  <2>1. TypeOK'
    BY <1>2, <1>3, ClaimsUntouched DEF TypeOK, vars, daemonVars, listVars, budgetVars
  <2>2. Known'
    BY <1>2, <1>3, KnownUntouched DEF vars, listVars
  <2>3. QED
    BY <2>1, <2>2 DEF Inv, Known
<1>4. ASSUME NEW p \in Procs,
             \/ \E c \in Commands : Launch(p, c)
             \/ ProcessStep(p) \/ DaemonSubmit(p) \/ Interrupt(p) \/ GiveUp(p) \/ Crash(p)
      PROVE  Inv'
  <2>1. TypeOK'
    BY <1>1, <1>4, BeginningIsTyped, PreparationIsTyped, DaemonIsTyped, OthersAreTyped DEF ProcessStep
  <2>2. Known'
    BY <1>2, <1>4, BeginningKeepsKnown, SubmissionKeepsKnown, ClaimingKeepsKnown, DaemonKeepsKnown, OthersKeepKnown
    DEF ProcessStep
  <2>3. QED
    BY <2>1, <2>2 DEF Inv, Known
<1>5. QED
  BY <1>1, <1>3, <1>4 DEF Next

\* daemon.lock, the socket and daemon.json together: the daemon that serves is the
\* one a client finds, and "stopped" is only said of a daemon that is gone, whoever
\* starts, stops, polls or dies (daemon/lock.rs, transport.rs, stop_daemon of main.rs).
THEOREM TheDaemonIsKnown == Spec => []DaemonIsKnown
<1>1. Inv => DaemonIsKnown
  <2>1. SUFFICES ASSUME Inv PROVE DaemonIsKnown
    OBVIOUS
  <2>2. ServingDaemonIsKnown
    BY <2>1 DEF Inv, DaemonHas, ServingDaemonIsKnown, Claiming, Listening, Published, Is, DaemonOnly
  <2>3. QED
    BY <2>1, <2>2 DEF Inv, AskedIsThere, StoppedMeansGone, DaemonIsKnown
<1>2. QED
  BY <1>1, InitInv, NextInv, PTL DEF Spec

-----------------------------------------------------------------------------
(* One driver for a repository and for a job.                              *)

\* Where a process has workers.
AtWork == {"work", "serve", "drain"}

\* Who drives a job has its repository's claim and its lock.
LocksAreHeld ==
    \A p \in Procs, j \in Jobs :
        /\ phase[p][j] \in HoldsRepository => repoLock[RepoOf[j]] = <<p, j>>
        /\ phase[p][j] \in HoldsJob => jobLock[j] = p

\* A daemon that tries the lock of an interrupted job has it until it gives it back.
ProbingHoldsTheJob == \A p \in Procs : pc[p] = "probing" => jobLock[cur[p]] = p

OnlyWorkersHold ==
    \A p \in Procs, j \in Jobs : pc[p] \notin AtWork => phase[p][j] \in {"none", "queued"}

\* OneDriver strengthened: what keeps two drivers apart are the locks, and a lock
\* is given back by its holder only.
LockInv == LocksAreHeld /\ ProbingHoldsTheJob /\ OnlyWorkersHold

\* A process that does not start to probe, and leaves no work behind.
Passes(p) ==
    /\ pc'[p] = "probing" => pc[p] = "probing" /\ cur'[p] = cur[p]
    /\ pc'[p] \notin AtWork => pc[p] \notin AtWork

\* A step that leaves the locks and the phases alone.
LEMMA LocksUntouched ==
    ASSUME LockInv, UNCHANGED <<repoLock, jobLock, phase>>, \A p \in Procs : Passes(p)
    PROVE  LockInv'
BY DEF LockInv, LocksAreHeld, ProbingHoldsTheJob, OnlyWorkersHold, Passes

\* One process moves on.
LEMMA MovingPasses ==
    ASSUME TypeOK, NEW p \in Procs, NEW there, pc' = [pc EXCEPT ![p] = there], there # "probing",
           there \in AtWork \/ pc[p] \notin AtWork,
           \A q \in Procs \ {p} : cur'[q] = cur[q]
    PROVE  \A q \in Procs : Passes(q)
<1>1. pc'[p] = there /\ \A q \in Procs \ {p} : pc'[q] = pc[q]
  BY DEF TypeOK
<1>2. QED
  BY <1>1 DEF Passes

\* An entry joins the queue of a process.
LEMMA QueueingKeepsLocks ==
    ASSUME TypeOK, LockInv, NEW p \in Procs, NEW j \in Jobs, UNCHANGED <<repoLock, jobLock>>,
           phase' = [phase EXCEPT ![p][j] = "queued"], \A q \in Procs : Passes(q)
    PROVE  LockInv'
<1>1. \A q \in Procs, i \in Jobs : phase'[q][i] = IF q = p /\ i = j THEN "queued" ELSE phase[q][i]
  BY DEF TypeOK, ClaimsTypeOK
<1>2. LocksAreHeld'
  BY <1>1 DEF LockInv, LocksAreHeld, HoldsRepository, HoldsJob
<1>3. ProbingHoldsTheJob' /\ OnlyWorkersHold'
  BY <1>1 DEF LockInv, ProbingHoldsTheJob, OnlyWorkersHold, Passes
<1>4. QED
  BY <1>2, <1>3 DEF LockInv

\* The steps of a worker: it takes a lock that is free and gives back its own.
LEMMA WorkKeepsLocks ==
    ASSUME TypeOK, LockInv, NEW p \in Procs, NEW j \in Jobs, pc[p] \in AtWork, UNCHANGED <<pc, cur>>,
           \/ ClaimRepository(p, j) \/ RefuseRepository(p, j)
           \/ \E scheduled \in BOOLEAN : WorkerStep(p, j, scheduled)
    PROVE  LockInv'
<1> DEFINE MovesTo(to) == \A q \in Procs, i \in Jobs : phase'[q][i] = IF q = p /\ i = j THEN to ELSE phase[q][i]
<1>1. ASSUME NEW to, Move(p, j, to) PROVE MovesTo(to)
  BY <1>1 DEF Move, TypeOK, ClaimsTypeOK
<1>2. RepoOf[j] \in Repos /\ \A i \in Jobs : RepoOf[i] \in Repos
  BY RepoAssumption
<1>3. OnlyWorkersHold'
  <2>1. \A q \in Procs, i \in Jobs : q # p => phase'[q][i] = phase[q][i]
    <3>1. \E to : Move(p, j, to)
      BY DEF ClaimRepository, RefuseRepository, WorkerStep, LockJob, RefuseJob, Drive, DriveStart, DriveResume,
             DriveFails, EndDrive, Release, SettleRead, SettleWrite
    <3>2. QED
      BY <1>1, <3>1
  <2>2. QED
    BY <2>1 DEF LockInv, OnlyWorkersHold
<1>4. ASSUME NEW to, MovesTo(to), UNCHANGED <<repoLock, jobLock>>,
             to \in HoldsRepository => phase[p][j] \in HoldsRepository,
             to \in HoldsJob => phase[p][j] \in HoldsJob
      PROVE  LocksAreHeld' /\ ProbingHoldsTheJob'
  <2>1. LocksAreHeld'
    BY <1>4 DEF LockInv, LocksAreHeld
  <2>2. ProbingHoldsTheJob'
    BY <1>4 DEF LockInv, ProbingHoldsTheJob
  <2>3. QED
    BY <2>1, <2>2
<1>5. CASE ClaimRepository(p, j)
  <2>1. repoLock[RepoOf[j]] = Free /\ repoLock' = [repoLock EXCEPT ![RepoOf[j]] = <<p, j>>] /\ jobLock' = jobLock
    BY <1>5 DEF ClaimRepository, AcquireRepository
  <2>2. MovesTo("repository")
    BY <1>1, <1>5 DEF ClaimRepository
  <2>3. ASSUME NEW q \in Procs, NEW i \in Jobs, phase[q][i] \in HoldsRepository PROVE RepoOf[i] # RepoOf[j]
    <3>1. repoLock[RepoOf[i]] = <<q, i>> /\ <<q, i>> \in Procs \X Jobs
      BY <2>3 DEF LockInv, LocksAreHeld
    <3>2. QED
      BY <2>1, <3>1, FreeAssumption
  <2>4. repoLock'[RepoOf[j]] = <<p, j>> /\ \A r \in Repos \ {RepoOf[j]} : repoLock'[r] = repoLock[r]
    BY <1>2, <2>1 DEF TypeOK, ClaimsTypeOK
  <2>5. "repository" \notin HoldsJob
    BY DEF HoldsJob
  <2>6. LocksAreHeld'
    BY <1>2, <2>1, <2>2, <2>3, <2>4, <2>5 DEF LockInv, LocksAreHeld
  <2>7. QED
    BY <1>3, <2>1, <2>6 DEF LockInv, ProbingHoldsTheJob
<1>6. CASE RefuseRepository(p, j)
  <2>1. MovesTo("none") /\ UNCHANGED <<repoLock, jobLock>> /\ "none" \notin HoldsRepository \cup HoldsJob
    BY <1>1, <1>6 DEF RefuseRepository, HoldsRepository, HoldsJob
  <2>2. QED
    BY <1>3, <1>4, <2>1 DEF LockInv
<1>7. CASE LockJob(p, j)
  <2>1. jobLock[j] = Free /\ jobLock' = [jobLock EXCEPT ![j] = p] /\ repoLock' = repoLock
    BY <1>7 DEF LockJob, AcquireJob
  <2>2. MovesTo("locked") /\ phase[p][j] \in HoldsRepository
    BY <1>1, <1>7 DEF LockJob, HoldsRepository
  <2>3. jobLock'[j] = p /\ \A i \in Jobs \ {j} : jobLock'[i] = jobLock[i]
    BY <2>1 DEF TypeOK, ClaimsTypeOK
  <2>4. \A q \in Procs : phase[q][j] \notin HoldsJob
    BY <2>1, FreeAssumption DEF LockInv, LocksAreHeld
  <2>5. LocksAreHeld'
    BY <2>1, <2>2, <2>3, <2>4 DEF LockInv, LocksAreHeld
  <2>6. ProbingHoldsTheJob'
    BY <2>1, <2>3, FreeAssumption DEF LockInv, ProbingHoldsTheJob, TypeOK, ClaimsTypeOK
  <2>7. QED
    BY <1>3, <2>5, <2>6 DEF LockInv
<1>8. ASSUME NEW to, MovesTo(to), to \notin HoldsRepository, phase[p][j] \in HoldsRepository,
             repoLock' = [repoLock EXCEPT ![RepoOf[j]] = Free]
      PROVE  \A q \in Procs, i \in Jobs : phase'[q][i] \in HoldsRepository => repoLock'[RepoOf[i]] = <<q, i>>
  <2>1. SUFFICES ASSUME NEW q \in Procs, NEW i \in Jobs, phase'[q][i] \in HoldsRepository
                 PROVE  repoLock'[RepoOf[i]] = <<q, i>>
    OBVIOUS
  <2>2. phase[q][i] \in HoldsRepository /\ ~(q = p /\ i = j)
    BY <1>8, <2>1
  <2>3. repoLock[RepoOf[j]] = <<p, j>> /\ repoLock[RepoOf[i]] = <<q, i>>
    BY <1>8, <2>2 DEF LockInv, LocksAreHeld
  <2>4. RepoOf[i] # RepoOf[j]
    BY <2>2, <2>3
  <2>5. QED
    BY <1>2, <1>8, <2>3, <2>4 DEF TypeOK, ClaimsTypeOK
<1>9. CASE RefuseJob(p, j)
  <2>1. /\ MovesTo("none") /\ repoLock' = [repoLock EXCEPT ![RepoOf[j]] = Free] /\ jobLock' = jobLock
        /\ phase[p][j] \in HoldsRepository /\ "none" \notin HoldsRepository \cup HoldsJob
    BY <1>1, <1>9 DEF RefuseJob, HoldsRepository, HoldsJob
  <2>2. LocksAreHeld'
    BY <1>8, <2>1, ZenonT(60) DEF LockInv, LocksAreHeld
  <2>3. QED
    BY <1>3, <2>1, <2>2 DEF LockInv, ProbingHoldsTheJob
<1>10. CASE \E scheduled \in BOOLEAN : Release(p, j, scheduled)
  <2>1. PICK to \in {"none", "unsettled"} : MovesTo(to)
    BY <1>1, <1>10 DEF Release
  <2>2. /\ repoLock' = [repoLock EXCEPT ![RepoOf[j]] = Free] /\ jobLock' = [jobLock EXCEPT ![j] = Free]
        /\ phase[p][j] \in HoldsRepository /\ phase[p][j] \in HoldsJob
        /\ to \notin HoldsRepository /\ to \notin HoldsJob
    BY <1>10, <2>1 DEF Release, HoldsRepository, HoldsJob
  <2>3. jobLock[j] = p /\ \A i \in Jobs \ {j} : jobLock'[i] = jobLock[i]
    BY <2>2 DEF LockInv, LocksAreHeld, TypeOK, ClaimsTypeOK
  <2>4. LocksAreHeld'
    <3>1. ASSUME NEW q \in Procs, NEW i \in Jobs, phase'[q][i] \in HoldsJob PROVE jobLock'[i] = q
      BY <2>1, <2>2, <2>3, <3>1 DEF LockInv, LocksAreHeld
    <3>2. QED
      BY <1>8, <2>1, <2>2, <3>1 DEF LocksAreHeld
  <2>5. ProbingHoldsTheJob'
    <3>1. ASSUME NEW q \in Procs, pc[q] = "probing" PROVE q # p /\ cur[q] # j
      BY <2>3, <3>1 DEF LockInv, ProbingHoldsTheJob, AtWork
    <3>2. QED
      BY <2>2, <2>3, <3>1 DEF LockInv, ProbingHoldsTheJob, TypeOK, ClaimsTypeOK
  <2>6. QED
    BY <1>3, <2>4, <2>5 DEF LockInv
<1>11. CASE Drive(p, j) \/ EndDrive(p, j)
  <2>1. PICK to \in {"driving", "ended", "failed"} : Move(p, j, to)
    BY <1>11 DEF Drive, DriveStart, DriveResume, DriveFails, EndDrive
  <2>2. phase[p][j] \in HoldsRepository /\ phase[p][j] \in HoldsJob /\ UNCHANGED <<repoLock, jobLock>>
    BY <1>11 DEF Drive, EndDrive, HoldsRepository, HoldsJob
  <2>3. QED
    BY <1>1, <1>3, <1>4, <2>1, <2>2 DEF LockInv
<1>12. CASE SettleRead(p, j) \/ SettleWrite(p, j)
  <2>1. PICK to \in {"settling", "none"} : Move(p, j, to)
    BY <1>12 DEF SettleRead, SettleWrite
  <2>2. to \notin HoldsRepository /\ to \notin HoldsJob /\ UNCHANGED <<repoLock, jobLock>>
    BY <1>12, <2>1 DEF SettleRead, SettleWrite, HoldsRepository, HoldsJob
  <2>3. QED
    BY <1>1, <1>3, <1>4, <2>1, <2>2 DEF LockInv
<1>13. QED
  BY <1>5, <1>6, <1>7, <1>9, <1>10, <1>11, <1>12 DEF WorkerStep

\* Steps that take no lock, give none back and move no entry.
LEMMA QuietStepsKeepLocks ==
    ASSUME TypeOK, LockInv, NEW p \in Procs,
           \/ \E c \in Commands : Launch(p, c)
           \/ MigrateBegins(p) \/ MigrateChecks(p) \/ MigrateSaves(p)
           \/ (Identify(p) /\ ~Exit(p)) \/ (MigrateEnds(p) /\ ~Exit(p)) \/ (PrepareScheduler(p) /\ ~Exit(p))
           \/ PrepareDaemon(p) \/ (DaemonClaims(p) /\ ~Exit(p)) \/ DaemonBinds(p) \/ PublishMetadata(p)
           \/ RecoverQueued(p) \/ RecoverInterrupted(p) \/ RecoverEnds(p)
           \/ Interrupt(p) \/ DaemonDrains(p)
           \/ (RequestShutdown(p) /\ ~Exit(p)) \/ Poll(p) \/ PollReturns(p)
    PROVE  LockInv'
<1>1. UNCHANGED <<repoLock, jobLock, phase>>
  BY DEF Launch, MigrateBegins, MigrateChecks, MigrateSaves, Identify, MigrateEnds, PrepareScheduler, PrepareDaemon,
         DaemonClaims, DaemonBinds, PublishMetadata, RecoverQueued, RecoverInterrupted, RecoverEnds,
         Interrupt, DaemonDrains, RequestShutdown, Poll, PollReturns, claimVars
<1>2. \A q \in Procs \ {p} : cur'[q] = cur[q]
  BY DEF Launch, MigrateBegins, MigrateChecks, MigrateSaves, Identify, MigrateEnds, PrepareScheduler, PrepareDaemon,
         DaemonClaims, DaemonBinds, PublishMetadata, RecoverQueued, RecoverInterrupted, RecoverEnds,
         Interrupt, DaemonDrains, RequestShutdown, Poll, PollReturns, listVars, TypeOK
<1>3. CASE UNCHANGED pc /\ pc[p] # "probing"
  BY <1>1, <1>2, <1>3, LocksUntouched DEF Passes
<1>4. CASE \E there \in Places : /\ pc' = [pc EXCEPT ![p] = there] /\ there # "probing"
                                 /\ there \in AtWork \/ pc[p] \notin AtWork
  BY <1>1, <1>2, <1>4, LocksUntouched, MovingPasses
<1>5. QED
  <2>1. CASE \E c \in Commands : Launch(p, c)
    BY <1>4, <2>1 DEF Launch, At, Go, Places, AtWork
  <2>2. CASE MigrateBegins(p) \/ MigrateSaves(p) \/ PrepareDaemon(p) \/ RecoverQueued(p) \/ RecoverInterrupted(p)
             \/ RecoverEnds(p) \/ DaemonBinds(p) \/ PublishMetadata(p) \/ DaemonDrains(p)
    BY <1>4, <2>2
    DEF MigrateBegins, MigrateSaves, PrepareDaemon, RecoverQueued, RecoverInterrupted, RecoverEnds, DaemonBinds,
        PublishMetadata, DaemonDrains, At, Go, Places, AtWork
  <2>3. CASE MigrateChecks(p)
    BY <1>3, <1>4, <2>3 DEF MigrateChecks, At, Go, Places, AtWork
  <2>4. CASE Interrupt(p)
    BY <1>3, <2>4 DEF Interrupt
  <2>5. CASE (Identify(p) \/ MigrateEnds(p) \/ PrepareScheduler(p) \/ DaemonClaims(p)) /\ ~Exit(p)
    BY <1>4, <2>5 DEF Identify, MigrateEnds, PrepareScheduler, DaemonClaims, At, Go, Places, AtWork
  <2>6. CASE (RequestShutdown(p) /\ ~Exit(p)) \/ Poll(p) \/ PollReturns(p)
    BY <1>3, <1>4, <2>6 DEF RequestShutdown, Poll, PollReturns, At, Go, Places, AtWork
  <2>7. QED
    BY <2>1, <2>2, <2>3, <2>4, <2>5, <2>6

\* The end of a command that has no worker.
LEMMA ExitKeepsLocks ==
    ASSUME TypeOK, LockInv, NEW p \in Procs, pc[p] \notin AtWork, Gone(p), UNCHANGED <<repoLock, jobLock, phase>>
    PROVE  LockInv'
<1>1. \A q \in Procs \ {p} : cur'[q] = cur[q]
  BY DEF Gone, TypeOK
<1>2. \A q \in Procs : Passes(q)
  BY <1>1, MovingPasses DEF Gone
<1>3. QED
  BY <1>2, LocksUntouched

\* The commands that end before they have work.
LEMMA EndingKeepsLocks ==
    ASSUME TypeOK, LockInv, NEW p \in Procs,
           \/ (Identify(p) /\ Exit(p)) \/ (MigrateEnds(p) /\ Exit(p))
           \/ ((PrepareRun(p) \/ PrepareResume(p) \/ PrepareScheduler(p)) /\ Exit(p))
           \/ (DaemonClaims(p) /\ Exit(p)) \/ DaemonUnlocks(p)
           \/ (RequestShutdown(p) /\ Exit(p)) \/ ReportStopped(p) \/ GiveUp(p)
    PROVE  LockInv'
<1>1. pc[p] \notin AtWork
  BY DEF Identify, MigrateEnds, PrepareRun, PrepareResume, PrepareScheduler, DaemonClaims, DaemonUnlocks,
         RequestShutdown, ReportStopped, GiveUp, At, AtWork
<1>2. Gone(p) /\ UNCHANGED <<repoLock, jobLock, phase>>
  BY DEF DaemonUnlocks, ReportStopped, GiveUp, Exit, claimVars
<1>3. QED
  BY <1>1, <1>2, ExitKeepsLocks

\* Entries are accepted.
LEMMA AcceptingKeepsLocks ==
    ASSUME TypeOK, LockInv, NEW p \in Procs,
           \/ ((PrepareRun(p) \/ PrepareResume(p)) /\ ~Exit(p))
           \/ Submit(p) \/ DaemonSubmit(p)
    PROVE  LockInv'
<1>1. \A q \in Procs : Passes(q)
  <2>1. cur' = cur
    BY DEF PrepareRun, PrepareResume, OneEntry, Submit, DaemonSubmit, listVars
  <2>2. CASE UNCHANGED pc
    BY <2>1, <2>2 DEF Passes
  <2>3. CASE \E there \in AtWork : pc' = [pc EXCEPT ![p] = there]
    BY <2>1, <2>3, MovingPasses DEF AtWork
  <2>4. QED
    BY <2>2, <2>3 DEF PrepareRun, PrepareResume, OneEntry, Submit, DaemonSubmit, Go, AtWork
<1>2. UNCHANGED <<repoLock, jobLock>>
  BY DEF PrepareRun, PrepareResume, OneEntry, Submit, DaemonSubmit, AcceptStart, AcceptResume, claimVars
<1>3. phase' = phase \/ \E j \in Jobs : phase' = [phase EXCEPT ![p][j] = "queued"]
  <2>1. Fresh \subseteq Jobs /\ Candidates \subseteq Jobs /\ toStart[p] \subseteq Jobs /\ toResume[p] \subseteq Jobs
    BY DEF Fresh, Candidates, Resumable, TypeOK
  <2>2. QED
    BY <2>1 DEF PrepareRun, PrepareResume, OneEntry, Submit, DaemonSubmit, AcceptStart, AcceptResume, Enqueue, claimVars
<1>4. QED
  BY <1>1, <1>2, <1>3, LocksUntouched, QueueingKeepsLocks

\* An interrupted job is probed: the lock is free when it is taken, and a process
\* that probes drives nothing.
LEMMA ProbingKeepsLocks ==
    ASSUME TypeOK, LooksAtAJob, LockInv, NEW p \in Procs, Probe(p) \/ ProbeReturns(p)
    PROVE  LockInv'
<1>1. pc[p] \notin AtWork /\ UNCHANGED <<repoLock, phase>>
  BY DEF Probe, ProbeReturns, At, AtWork
<1>2. CASE Probe(p) /\ UNCHANGED jobLock
  <2>1. CASE UNCHANGED <<cur, pc>>
    BY <1>1, <1>2, <2>1, LocksUntouched DEF Passes
  <2>2. CASE \E j \in scan[p] : AcquireJob(p, j)
    <3>1. PICK j \in Jobs : jobLock[j] = Free /\ jobLock' = [jobLock EXCEPT ![j] = p]
      BY <2>2 DEF AcquireJob, TypeOK
    <3>2. QED
      BY <1>2, <3>1, FreeAssumption DEF TypeOK, ClaimsTypeOK
  <2>3. QED
    BY <1>2, <2>1, <2>2 DEF Probe
<1>3. CASE Probe(p) /\ ~UNCHANGED jobLock
  <2>1. PICK j \in Jobs : /\ jobLock[j] = Free /\ jobLock' = [jobLock EXCEPT ![j] = p]
                          /\ cur' = [cur EXCEPT ![p] = j] /\ pc' = [pc EXCEPT ![p] = "probing"]
    BY <1>3 DEF Probe, AcquireJob, Go, TypeOK
  <2>2. jobLock'[j] = p /\ \A i \in Jobs \ {j} : jobLock'[i] = jobLock[i]
    BY <2>1 DEF TypeOK, ClaimsTypeOK
  <2>3. /\ pc'[p] = "probing" /\ cur'[p] = j
        /\ \A q \in Procs \ {p} : pc'[q] = pc[q] /\ cur'[q] = cur[q]
    BY <2>1 DEF TypeOK
  <2>4. LocksAreHeld'
    BY <1>1, <2>1, <2>2, FreeAssumption DEF LockInv, LocksAreHeld
  <2>5. ProbingHoldsTheJob'
    <3>1. ASSUME NEW q \in Procs \ {p}, pc'[q] = "probing" PROVE jobLock'[cur'[q]] = q
      <4>1. cur[q] \in Jobs /\ jobLock[cur[q]] = q
        BY <2>3, <3>1 DEF LooksAtAJob, LockInv, ProbingHoldsTheJob
      <4>2. QED
        BY <2>1, <2>2, <2>3, <4>1, FreeAssumption
    <3>2. QED
      BY <2>2, <2>3, <3>1 DEF ProbingHoldsTheJob
  <2>6. OnlyWorkersHold'
    BY <1>1, <2>3 DEF LockInv, OnlyWorkersHold, AtWork
  <2>7. QED
    BY <2>4, <2>5, <2>6 DEF LockInv
<1>4. CASE ProbeReturns(p)
  <2>1. /\ pc[p] = "probing" /\ jobLock' = [jobLock EXCEPT ![cur[p]] = Free]
        /\ cur' = [cur EXCEPT ![p] = Free] /\ pc' = [pc EXCEPT ![p] = "probe"]
    BY <1>4 DEF ProbeReturns, At, Go
  <2>2. cur[p] \in Jobs /\ jobLock[cur[p]] = p
    BY <2>1 DEF LooksAtAJob, LockInv, ProbingHoldsTheJob
  <2>3. \A i \in Jobs \ {cur[p]} : jobLock'[i] = jobLock[i]
    BY <2>1 DEF TypeOK, ClaimsTypeOK
  <2>4. pc'[p] = "probe" /\ \A q \in Procs \ {p} : pc'[q] = pc[q] /\ cur'[q] = cur[q]
    BY <2>1 DEF TypeOK
  <2>5. LocksAreHeld'
    <3>1. ASSUME NEW q \in Procs, NEW i \in Jobs, phase[q][i] \in HoldsJob PROVE jobLock'[i] = q
      <4>1. q # p
        BY <1>1, <3>1 DEF LockInv, OnlyWorkersHold, HoldsJob
      <4>2. jobLock[i] = q
        BY <3>1 DEF LockInv, LocksAreHeld
      <4>3. QED
        BY <2>2, <2>3, <4>1, <4>2
    <3>2. QED
      BY <1>1, <3>1 DEF LockInv, LocksAreHeld
  <2>6. ProbingHoldsTheJob'
    <3>1. SUFFICES ASSUME NEW q \in Procs \ {p}, pc[q] = "probing" PROVE jobLock'[cur[q]] = q
      BY <2>4 DEF ProbingHoldsTheJob
    <3>2. cur[q] \in Jobs /\ jobLock[cur[q]] = q
      BY <3>1 DEF LooksAtAJob, LockInv, ProbingHoldsTheJob
    <3>3. QED
      BY <2>2, <2>3, <3>2
  <2>7. OnlyWorkersHold'
    BY <1>1, <2>4 DEF LockInv, OnlyWorkersHold
  <2>8. QED
    BY <2>5, <2>6, <2>7 DEF LockInv
<1>5. QED
  BY <1>2, <1>3, <1>4

\* A process leaves its work: nothing it holds a lock for is left.
LEMMA LeavingKeepsLocks ==
    ASSUME TypeOK, LockInv, NEW p \in Procs, DaemonStops(p) \/ Finish(p)
    PROVE  LockInv'
<1>1. Forget(p) /\ UNCHANGED <<repoLock, jobLock>>
  BY DEF DaemonStops, Finish
<1>2. \A q \in Procs, i \in Jobs : phase'[q][i] = IF q = p THEN "none" ELSE phase[q][i]
  BY <1>1 DEF Forget, TypeOK, ClaimsTypeOK
<1>3. /\ pc'[p] \in {"unlock", "idle"}
      /\ \A q \in Procs \ {p} : pc'[q] = pc[q] /\ cur'[q] = cur[q]
  BY DEF DaemonStops, Finish, Gone, Go, listVars, TypeOK
<1>4. LocksAreHeld'
  BY <1>1, <1>2 DEF LockInv, LocksAreHeld, HoldsRepository, HoldsJob
<1>5. ProbingHoldsTheJob' /\ OnlyWorkersHold'
  BY <1>1, <1>2, <1>3 DEF LockInv, ProbingHoldsTheJob, OnlyWorkersHold
<1>6. QED
  BY <1>4, <1>5 DEF LockInv

\* A process dies: the operating system drops its locks and nobody else's.
LEMMA DyingKeepsLocks ==
    ASSUME TypeOK, LooksAtAJob, LockInv, NEW p \in Procs, Crash(p)
    PROVE  LockInv'
<1>1. DropAll(p) /\ Forget(p)
  BY DEF Crash
<1>2. \A q \in Procs, i \in Jobs : phase'[q][i] = IF q = p THEN "none" ELSE phase[q][i]
  BY <1>1 DEF Forget, TypeOK, ClaimsTypeOK
<1>3. /\ pc'[p] = "idle"
      /\ \A q \in Procs \ {p} : pc'[q] = pc[q] /\ cur'[q] = cur[q]
  BY DEF Crash, TypeOK
<1>4. LocksAreHeld'
  <2>1. SUFFICES ASSUME NEW q \in Procs \ {p}, NEW i \in Jobs
                 PROVE  /\ phase[q][i] \in HoldsRepository => repoLock'[RepoOf[i]] = <<q, i>>
                        /\ phase[q][i] \in HoldsJob => jobLock'[i] = q
    BY <1>2 DEF LocksAreHeld, HoldsRepository, HoldsJob
  <2>2. phase[q][i] \in HoldsRepository => repoLock'[RepoOf[i]] = <<q, i>>
    BY <1>1, RepoAssumption DEF LockInv, LocksAreHeld, DropAll
  <2>3. phase[q][i] \in HoldsJob => jobLock'[i] = q
    BY <1>1 DEF LockInv, LocksAreHeld, DropAll
  <2>4. QED
    BY <2>2, <2>3
<1>5. ProbingHoldsTheJob'
  <2>1. SUFFICES ASSUME NEW q \in Procs \ {p}, pc[q] = "probing" PROVE jobLock'[cur[q]] = q
    BY <1>3 DEF ProbingHoldsTheJob
  <2>2. cur[q] \in Jobs /\ jobLock[cur[q]] = q
    BY <2>1 DEF LooksAtAJob, LockInv, ProbingHoldsTheJob
  <2>3. QED
    BY <1>1, <2>2 DEF DropAll
<1>6. OnlyWorkersHold'
  BY <1>2, <1>3 DEF LockInv, OnlyWorkersHold
<1>7. QED
  BY <1>4, <1>5, <1>6 DEF LockInv

\* The locks are held through every step.
LEMMA NextLocks == Inv /\ LockInv /\ [Next]_vars => LockInv'
<1>1. SUFFICES ASSUME Inv, LockInv, [Next]_vars PROVE LockInv'
  OBVIOUS
<1>2. TypeOK /\ LooksAtAJob
  BY <1>1 DEF Inv
<1>3. CASE UNCHANGED vars
  BY <1>1, <1>3, LocksUntouched DEF vars, claimVars, listVars, Passes
<1>4. ASSUME NEW p \in Procs,
             \/ \E c \in Commands : Launch(p, c)
             \/ ProcessStep(p) \/ DaemonSubmit(p) \/ Interrupt(p) \/ GiveUp(p) \/ Crash(p)
      PROVE  LockInv'
  <2>1. CASE \E j \in Jobs : Begin(p, j) \/ Work(p, j)
    <3>1. PICK j \in Jobs : Begin(p, j) \/ Work(p, j)
      BY <2>1
    <3>2. pc[p] \in AtWork /\ UNCHANGED <<pc, cur>>
      BY <3>1 DEF Begin, Work, AtWork, listVars
    <3>3. Scheduled(p) \in BOOLEAN
      BY DEF Scheduled
    <3>4. QED
      BY <1>1, <1>2, <3>1, <3>2, <3>3, WorkKeepsLocks DEF Begin, Work
  <2>2. CASE \/ Identify(p) \/ MigrateEnds(p) \/ PrepareRun(p) \/ PrepareResume(p) \/ PrepareScheduler(p)
             \/ DaemonClaims(p) \/ RequestShutdown(p)
    <3>1. CASE Exit(p)
      BY <1>1, <1>2, <2>2, <3>1, EndingKeepsLocks
    <3>2. CASE ~Exit(p)
      BY <1>1, <1>2, <2>2, <3>2, QuietStepsKeepLocks, AcceptingKeepsLocks
    <3>3. QED
      BY <3>1, <3>2
  <2>3. CASE Probe(p) \/ ProbeReturns(p) \/ DaemonStops(p) \/ Finish(p) \/ Crash(p)
    BY <1>1, <1>2, <2>3, ProbingKeepsLocks, LeavingKeepsLocks, DyingKeepsLocks
  <2>4. CASE \/ MigrateBegins(p) \/ MigrateChecks(p) \/ MigrateSaves(p) \/ PrepareDaemon(p)
             \/ DaemonBinds(p) \/ PublishMetadata(p) \/ RecoverQueued(p) \/ RecoverInterrupted(p) \/ RecoverEnds(p)
             \/ Interrupt(p) \/ DaemonDrains(p) \/ Poll(p) \/ PollReturns(p)
    BY <1>1, <1>2, <2>4, QuietStepsKeepLocks
  <2>5. CASE \E c \in Commands : Launch(p, c)
    BY <1>1, <1>2, <2>5, QuietStepsKeepLocks
  <2>6. CASE Submit(p) \/ DaemonSubmit(p) \/ DaemonUnlocks(p) \/ ReportStopped(p) \/ GiveUp(p)
    BY <1>1, <1>2, <2>6, AcceptingKeepsLocks, EndingKeepsLocks
  <2>7. QED
    BY <1>4, <2>1, <2>2, <2>3, <2>4, <2>5, <2>6 DEF ProcessStep
<1>5. QED
  BY <1>1, <1>3, <1>4 DEF Next

\* Two processes that drive jobs of one repository, or one job, would hold one lock.
LEMMA OneHolder == LocksAreHeld => OneDriver
<1>1. SUFFICES ASSUME LocksAreHeld, NEW p \in Procs, NEW q \in Procs, NEW i \in Jobs, NEW j \in Jobs,
                      Driving(p, i), Driving(q, j), i = j \/ RepoOf[i] = RepoOf[j]
               PROVE  p = q /\ i = j
  BY DEF OneDriver
<1>2. repoLock[RepoOf[i]] = <<p, i>> /\ repoLock[RepoOf[j]] = <<q, j>>
  BY <1>1 DEF LocksAreHeld, Driving, HoldsRepository
<1>3. QED
  BY <1>1, <1>2

\* repository_lock.rs and lock.rs: whatever commands and daemons share a home, and
\* whenever they die or probe an interrupted job, a repository is driven by one
\* process for one job, and a job by one process.
THEOREM OneDriverForEach == Spec => []OneDriver
<1>1. Init => LockInv
  BY DEF Init, LockInv, LocksAreHeld, ProbingHoldsTheJob, OnlyWorkersHold, HoldsRepository, HoldsJob
<1>2. LockInv => OneDriver
  BY OneHolder DEF LockInv
<1>3. QED
  BY <1>1, <1>2, InitInv, NextInv, NextLocks, PTL DEF Spec

-----------------------------------------------------------------------------
(* Finished jobs.                                                          *)

\* Where a process has not yet passed the migration of an old state.json.
BeforeWork == {"idle", "identify", "migrate", "migrating", "saving", "connect", "poll", "held", "stopped"}

\* Nothing was driven as long as the old state.json is there: what a migration reads
\* from it cannot have been finished since.
MigratedFirst ==
    legacy => /\ \A p \in Procs : pc[p] \in BeforeWork
              /\ \A j \in Jobs : record[j] \notin Terminal

\* A process keeps its entries, or forgets all of them.
ForgetsAtMost(p) == UNCHANGED phase \/ phase' = [phase EXCEPT ![p] = [j \in Jobs |-> "none"]]

\* What ends a process.
Ends(p) ==
    /\ toStart' = [toStart EXCEPT ![p] = {}]
    /\ toResume' = [toResume EXCEPT ![p] = {}]
    /\ scan' = [scan EXCEPT ![p] = {}]
    /\ cur' = [cur EXCEPT ![p] = Free]
    /\ ForgetsAtMost(p)
    /\ UNCHANGED record

LEMMA StepsThatEnd ==
    ASSUME NEW p \in Procs,
           \/ Exit(p) \/ DaemonUnlocks(p) \/ ReportStopped(p) \/ GiveUp(p) \/ Finish(p) \/ Crash(p)
    PROVE  Ends(p)
<1>1. CASE Exit(p) \/ DaemonUnlocks(p) \/ ReportStopped(p) \/ GiveUp(p)
  BY <1>1 DEF Exit, DaemonUnlocks, ReportStopped, GiveUp, Gone, Ends, ForgetsAtMost, claimVars
<1>2. CASE Finish(p) \/ Crash(p)
  BY <1>2 DEF Finish, Crash, Gone, Forget, Ends, ForgetsAtMost
<1>3. QED
  BY <1>1, <1>2

\* The steps of a process, as far as they concern the jobs in its hands.
LEMMA StepsOfAProcess ==
    ASSUME NEW p \in Procs,
           \/ \E c \in Commands : Launch(p, c)
           \/ ProcessStep(p) \/ DaemonSubmit(p) \/ Interrupt(p) \/ GiveUp(p) \/ Crash(p)
    PROVE  \/ Ends(p)
           \/ UNCHANGED <<record, listVars>> /\ ForgetsAtMost(p)
           \/ MigrateBegins(p) \/ MigrateChecks(p) \/ MigrateSaves(p)
           \/ (PrepareRun(p) /\ \E j \in Fresh : OneEntry(p, j, "start"))
           \/ (PrepareResume(p) /\ \E j \in Candidates : OneEntry(p, j, "snapshot"))
           \/ (PrepareScheduler(p) /\ ~Exit(p))
           \/ Submit(p) \/ RecoverQueued(p) \/ RecoverInterrupted(p) \/ Probe(p) \/ ProbeReturns(p) \/ RecoverEnds(p)
           \/ \E j \in Jobs : Begin(p, j) \/ Work(p, j)
           \/ DaemonSubmit(p)
<1>1. CASE \/ \E c \in Commands : Launch(p, c)
           \/ PrepareDaemon(p) \/ DaemonBinds(p) \/ PublishMetadata(p) \/ Interrupt(p) \/ DaemonDrains(p)
           \/ Poll(p) \/ PollReturns(p)
  BY <1>1 DEF Launch, PrepareDaemon, DaemonBinds, PublishMetadata, Interrupt, DaemonDrains, Poll, PollReturns,
              claimVars, ForgetsAtMost
<1>2. CASE Identify(p) \/ MigrateEnds(p) \/ DaemonClaims(p) \/ RequestShutdown(p)
  BY <1>2, StepsThatEnd DEF Identify, MigrateEnds, DaemonClaims, RequestShutdown, claimVars, ForgetsAtMost
<1>3. CASE PrepareRun(p) \/ PrepareResume(p) \/ PrepareScheduler(p)
  BY <1>3, StepsThatEnd DEF PrepareRun, PrepareResume
<1>4. CASE DaemonUnlocks(p) \/ ReportStopped(p) \/ GiveUp(p) \/ Finish(p) \/ Crash(p)
  BY <1>4, StepsThatEnd
<1>5. CASE DaemonStops(p)
  BY <1>5 DEF DaemonStops, Forget, ForgetsAtMost
<1>6. QED
  BY <1>1, <1>2, <1>3, <1>4, <1>5 DEF ProcessStep

\* Nobody takes a finished job into its hands.
LEMMA NobodyPicksItUp ==
    ASSUME TypeOK, LooksAtAJob, MigratedFirst, NEW p \in Procs,
           \/ \E c \in Commands : Launch(p, c)
           \/ ProcessStep(p) \/ DaemonSubmit(p) \/ Interrupt(p) \/ GiveUp(p) \/ Crash(p),
           NEW j \in Jobs, record[j] \in Terminal, NEW q \in Procs, InHand(q, j)'
    PROVE  InHand(q, j)
<1> DEFINE Took(k) == k \in (toStart'[q] \cup toResume'[q] \cup scan'[q]) \/ cur'[q] = k \/ phase'[q][k] # "none"
           Had(k) == k \in (toStart[q] \cup toResume[q] \cup scan[q]) \/ cur[q] = k \/ phase[q][k] # "none"
<1> SUFFICES Had(j)
  BY DEF InHand
<1>1. Took(j)
  BY DEF InHand
<1>2. /\ toStart \in [Procs -> SUBSET Jobs] /\ toResume \in [Procs -> SUBSET Jobs]
      /\ scan \in [Procs -> SUBSET Jobs] /\ cur \in [Procs -> {Free} \cup Jobs]
      /\ phase \in [Procs -> [Jobs -> Phases]] /\ record \in [Jobs -> Status] /\ Free \notin Jobs
  BY FreeAssumption DEF TypeOK, ClaimsTypeOK
<1>3. record[j] \notin {"none", "queued", "running"}
  BY DEF Terminal
<1>4. CASE Ends(p)
  BY <1>1, <1>2, <1>4 DEF Ends, ForgetsAtMost
<1>5. CASE UNCHANGED <<record, listVars>> /\ ForgetsAtMost(p)
  BY <1>1, <1>2, <1>5 DEF listVars, ForgetsAtMost
<1>6. CASE MigrateBegins(p)
  BY <1>1, <1>2, <1>6 DEF MigrateBegins, MigratedFirst, claimVars
<1>7. CASE MigrateChecks(p) \/ MigrateSaves(p)
  BY <1>1, <1>2, <1>7 DEF MigrateChecks, MigrateSaves, claimVars
<1>8. ASSUME NEW i \in Jobs, i # j, NEW how, Enqueue(p, i, how) PROVE phase'[q][j] = phase[q][j]
  BY <1>2, <1>8 DEF Enqueue
<1>9. CASE \/ PrepareRun(p) /\ \E i \in Fresh : OneEntry(p, i, "start")
           \/ PrepareResume(p) /\ \E i \in Candidates : OneEntry(p, i, "snapshot")
  <2>1. PICK i \in Jobs, how \in Modes : i # j /\ OneEntry(p, i, how)
    BY <1>3, <1>9 DEF Fresh, Candidates, Resumable, Modes
  <2>2. QED
    BY <1>1, <1>8, <2>1 DEF OneEntry, listVars
<1>10. CASE PrepareScheduler(p) /\ ~Exit(p)
  <2>1. PICK new \in SUBSET (Fresh \cup Queued) : toStart' = [toStart EXCEPT ![p] = new]
    BY <1>10 DEF PrepareScheduler
  <2>2. j \notin new
    BY <1>3, <2>1 DEF Fresh, Queued
  <2>3. UNCHANGED <<toResume, scan, cur, phase>>
    BY <1>10 DEF PrepareScheduler, claimVars
  <2>4. QED
    BY <1>1, <1>2, <2>1, <2>2, <2>3
<1>11. CASE Submit(p)
  BY <1>1, <1>2, <1>11 DEF Submit, AcceptStart, AcceptResume, Enqueue, claimVars
<1>12. CASE RecoverQueued(p) \/ RecoverInterrupted(p)
  BY <1>1, <1>2, <1>3, <1>12 DEF RecoverQueued, RecoverInterrupted, Queued, Candidates, Resumable, claimVars
<1>13. CASE Probe(p) \/ ProbeReturns(p) \/ RecoverEnds(p)
  BY <1>1, <1>2, <1>13 DEF Probe, ProbeReturns, RecoverEnds, claimVars
<1>14. CASE \E i \in Jobs : Begin(p, i) \/ Work(p, i)
  <2>1. PICK i \in Jobs : Begin(p, i) \/ Work(p, i)
    BY <1>14
  <2>2. UNCHANGED listVars
    BY <2>1 DEF Begin, Work
  <2>3. phase[p][i] # "none" /\ \E to : Move(p, i, to)
    BY <2>1 DEF Begin, Work, ClaimRepository, RefuseRepository, WorkerStep, LockJob, RefuseJob, Drive, DriveStart,
                DriveResume, DriveFails, EndDrive, Release, SettleRead, SettleWrite
  <2>4. phase'[q][j] = phase[q][j] \/ (q = p /\ i = j)
    BY <1>2, <2>3 DEF Move
  <2>5. QED
    BY <1>1, <2>2, <2>3, <2>4 DEF listVars
<1>15. CASE DaemonSubmit(p)
  <2>1. PICK i \in Jobs : i # j /\ Enqueue(p, i, "start")
    BY <1>3, <1>15 DEF DaemonSubmit, Fresh, AcceptStart
  <2>2. QED
    BY <1>1, <1>8, <1>15, <2>1 DEF DaemonSubmit, listVars
<1>16. QED
  BY <1>4, <1>5, <1>6, <1>7, <1>9, <1>10, <1>11, <1>12, <1>13, <1>14, <1>15, StepsOfAProcess

\* As long as the old state.json is there, every process is on its way to migrate it.
LEMMA NextMigrated == TypeOK /\ LooksAtAJob /\ MigratedFirst /\ [Next]_vars => MigratedFirst'
<1>1. SUFFICES ASSUME TypeOK, LooksAtAJob, MigratedFirst, [Next]_vars PROVE MigratedFirst'
  OBVIOUS
<1>2. CASE UNCHANGED vars
  BY <1>1, <1>2 DEF MigratedFirst, vars, claimVars
<1>3. ASSUME NEW p \in Procs,
             \/ \E c \in Commands : Launch(p, c)
             \/ ProcessStep(p) \/ DaemonSubmit(p) \/ Interrupt(p) \/ GiveUp(p) \/ Crash(p)
      PROVE  MigratedFirst'
  <2>1. legacy' = legacy \/ legacy' = FALSE
    <3>1. Gone(p) => legacy' = legacy
      BY DEF Gone
    <3>2. Exit(p) => legacy' = legacy
      BY <3>1 DEF Exit
    <3>3. CASE Submit(p) \/ \E j \in Jobs : Begin(p, j) \/ Work(p, j)
      BY <3>3 DEF Submit, Begin, Work
    <3>4. CASE PrepareRun(p) \/ PrepareResume(p) \/ PrepareScheduler(p)
      BY <3>2, <3>4 DEF PrepareRun, PrepareResume, PrepareScheduler, OneEntry
    <3>5. CASE ReportStopped(p) \/ GiveUp(p) \/ DaemonUnlocks(p) \/ Finish(p) \/ Crash(p)
      BY <3>1, <3>2, <3>5 DEF ReportStopped, GiveUp, DaemonUnlocks, Finish, Crash
    <3>6. CASE \/ \E c \in Commands : Launch(p, c)
               \/ Identify(p) \/ MigrateBegins(p) \/ MigrateChecks(p) \/ MigrateSaves(p) \/ MigrateEnds(p)
      BY <3>2, <3>6 DEF Launch, Identify, MigrateBegins, MigrateChecks, MigrateSaves, MigrateEnds
    <3>7. CASE \/ PrepareDaemon(p) \/ DaemonClaims(p) \/ DaemonBinds(p) \/ PublishMetadata(p) \/ RecoverQueued(p)
               \/ RecoverInterrupted(p) \/ Probe(p) \/ ProbeReturns(p) \/ RecoverEnds(p)
      BY <3>2, <3>7 DEF PrepareDaemon, DaemonClaims, DaemonBinds, PublishMetadata, RecoverQueued, RecoverInterrupted,
                        Probe, ProbeReturns, RecoverEnds
    <3>8. CASE \/ DaemonDrains(p) \/ DaemonStops(p) \/ DaemonSubmit(p) \/ Interrupt(p)
               \/ RequestShutdown(p) \/ Poll(p) \/ PollReturns(p)
      BY <3>2, <3>8 DEF DaemonDrains, DaemonStops, DaemonSubmit, Interrupt, RequestShutdown, Poll, PollReturns
    <3>9. QED
      BY <1>3, <3>3, <3>4, <3>5, <3>6, <3>7, <3>8 DEF ProcessStep
  <2>2. SUFFICES ASSUME legacy, legacy'
                 PROVE  /\ \A q \in Procs : pc'[q] \in BeforeWork
                        /\ \A j \in Jobs : record'[j] \notin Terminal
    BY <2>1 DEF MigratedFirst
  <2>3. /\ pc \in [Procs -> Places] /\ \A q \in Procs : pc[q] \in BeforeWork
        /\ \A j \in Jobs : record[j] \notin Terminal
    BY <1>1, <2>2 DEF TypeOK, MigratedFirst
  <2>4. pc[p] \in BeforeWork
    BY <2>3
  <2>5. CASE UNCHANGED record /\ \E there \in BeforeWork : pc' = [pc EXCEPT ![p] = there]
    BY <2>3, <2>5
  <2>6. CASE UNCHANGED <<record, pc>>
    BY <2>3, <2>6
  <2>7. Gone(p) /\ UNCHANGED record => UNCHANGED record /\ \E there \in BeforeWork : pc' = [pc EXCEPT ![p] = there]
    BY DEF Gone, BeforeWork
  <2>8. CASE Exit(p)
    BY <2>5, <2>7, <2>8 DEF Exit, claimVars
  <2>9. CASE ReportStopped(p) \/ GiveUp(p) \/ Finish(p) \/ DaemonUnlocks(p)
    BY <2>5, <2>7, <2>9 DEF ReportStopped, GiveUp, Exit, Finish, DaemonUnlocks, claimVars
  <2>10. CASE Crash(p)
    BY <2>5, <2>10 DEF Crash, BeforeWork
  <2>11. CASE \E c \in Commands : Launch(p, c)
    BY <2>5, <2>11 DEF Launch, Go, BeforeWork, claimVars
  <2>12. CASE Identify(p) \/ MigrateBegins(p) \/ RequestShutdown(p) \/ Poll(p) \/ PollReturns(p)
    BY <2>2, <2>5, <2>8, <2>12
    DEF Identify, MigrateBegins, RequestShutdown, Poll, PollReturns, Go, BeforeWork, claimVars
  <2>13. CASE MigrateChecks(p)
    BY <2>5, <2>6, <2>13 DEF MigrateChecks, Go, BeforeWork, claimVars
  <2>14. CASE MigrateSaves(p)
    <3>1. record' = [record EXCEPT ![cur[p]] = "running"] /\ pc' = [pc EXCEPT ![p] = "migrating"] /\ cur[p] \in Jobs
      BY <1>1, <2>14 DEF MigrateSaves, At, Go, LooksAtAJob
    <3>2. record \in [Jobs -> Status] /\ "running" \notin Terminal /\ "migrating" \in BeforeWork
      BY <1>1 DEF TypeOK, ClaimsTypeOK, Terminal, BeforeWork
    <3>3. QED
      BY <2>3, <3>1, <3>2
  <2>15. CASE MigrateEnds(p)
    BY <2>2, <2>8, <2>15 DEF MigrateEnds
  <2>16. CASE \/ PrepareRun(p) \/ PrepareResume(p) \/ PrepareScheduler(p) \/ PrepareDaemon(p) \/ Submit(p)
              \/ DaemonClaims(p) \/ DaemonBinds(p) \/ PublishMetadata(p) \/ RecoverQueued(p) \/ RecoverInterrupted(p)
    BY <2>4, <2>16 DEF PrepareRun, PrepareResume, PrepareScheduler, PrepareDaemon, Submit, DaemonClaims, DaemonBinds,
                       PublishMetadata, RecoverQueued, RecoverInterrupted, At, BeforeWork
  <2>17. CASE \/ Probe(p) \/ ProbeReturns(p) \/ RecoverEnds(p) \/ DaemonDrains(p) \/ DaemonStops(p)
              \/ (\E j \in Jobs : Begin(p, j) \/ Work(p, j)) \/ DaemonSubmit(p) \/ Interrupt(p)
    BY <2>4, <2>17 DEF Probe, ProbeReturns, RecoverEnds, DaemonDrains, DaemonStops, Begin, Work, DaemonSubmit,
                       Interrupt, At, BeforeWork
  <2>18. QED
    BY <1>3, <2>9, <2>10, <2>11, <2>12, <2>13, <2>14, <2>15, <2>16, <2>17 DEF ProcessStep
<1>4. QED
  BY <1>1, <1>2, <1>3 DEF Next

\* The daemon's resume leaves a finished record as it is.
LEMMA ResumeReadsAgain ==
    ASSUME TypeOK, LockInv, NEW p \in Procs,
           \/ \E c \in Commands : Launch(p, c)
           \/ ProcessStep(p) \/ DaemonSubmit(p) \/ Interrupt(p) \/ GiveUp(p) \/ Crash(p),
           NEW j \in Jobs, record[j] \in Terminal, NEW q \in Procs,
           phase[q][j] = "locked", mode[q][j] = "resume", phase'[q][j] # "locked"
    PROVE  record'[j] = record[j]
<1>1. /\ phase \in [Procs -> [Jobs -> Phases]] /\ record \in [Jobs -> Status]
      /\ record[j] \notin {"none", "queued", "running"}
  BY DEF TypeOK, ClaimsTypeOK, Terminal
<1>2. pc[q] \in AtWork
  BY DEF LockInv, OnlyWorkersHold
<1>3. CASE UNCHANGED record
  BY <1>3
<1>4. CASE UNCHANGED phase
  BY <1>4
<1>5. ASSUME NEW i \in Jobs, NEW r \in Procs, NEW to, Move(r, i, to) PROVE r = q /\ i = j
  BY <1>1, <1>5 DEF Move
<1>6. CASE \E i \in Jobs : Begin(p, i) \/ Work(p, i)
  <2>1. PICK i \in Jobs : Begin(p, i) \/ Work(p, i)
    BY <1>6
  <2>2. \E to : Move(p, i, to)
    BY <2>1 DEF Begin, Work, ClaimRepository, RefuseRepository, WorkerStep, LockJob, RefuseJob, Drive, DriveStart,
                DriveResume, DriveFails, EndDrive, Release, SettleRead, SettleWrite
  <2>3. p = q /\ i = j
    BY <1>5, <2>2
  <2>4. CASE Begin(p, i)
    BY <1>3, <2>4 DEF Begin, ClaimRepository, RefuseRepository
  <2>5. CASE Work(p, i)
    BY <1>1, <1>3, <2>3, <2>5 DEF Work, WorkerStep, LockJob, RefuseJob, Drive, DriveStart, DriveResume, StillResumable,
                DriveFails, EndDrive, Release, SettleRead, SettleWrite
  <2>6. QED
    BY <2>1, <2>4, <2>5
<1>7. CASE MigrateSaves(p)
  BY <1>4, <1>7 DEF MigrateSaves
<1>8. CASE Submit(p)
  <2>1. p # q
    BY <1>2, <1>8 DEF Submit, At, AtWork
  <2>2. phase'[q] = phase[q]
    BY <1>1, <1>8, <2>1 DEF Submit, AcceptStart, AcceptResume, Enqueue, claimVars
  <2>3. QED
    BY <2>2
<1>9. CASE DaemonSubmit(p)
  BY <1>1, <1>9 DEF DaemonSubmit, Fresh, AcceptStart
<1>10. CASE \/ MigrateBegins(p) \/ MigrateChecks(p) \/ RecoverQueued(p) \/ RecoverInterrupted(p)
            \/ Probe(p) \/ ProbeReturns(p) \/ RecoverEnds(p) \/ (PrepareScheduler(p) /\ ~Exit(p))
  BY <1>3, <1>10 DEF MigrateBegins, MigrateChecks, RecoverQueued, RecoverInterrupted, Probe, ProbeReturns, RecoverEnds,
                     PrepareScheduler, claimVars
<1>11. CASE (\E i \in Fresh : OneEntry(p, i, "start")) \/ \E i \in Candidates : OneEntry(p, i, "snapshot")
  BY <1>3, <1>11 DEF OneEntry
<1>12. CASE Ends(p) \/ (UNCHANGED <<record, listVars>> /\ ForgetsAtMost(p))
  BY <1>3, <1>12 DEF Ends
<1>13. QED
  BY <1>6, <1>7, <1>8, <1>9, <1>10, <1>11, <1>12, StepsOfAProcess

\* drive_job of main.rs, recover of daemon/server.rs, DaemonJobDriver::run: whatever
\* processes share a home, none takes up a job that is finished, and a resume that was
\* queued in the daemon before the job finished leaves its record as it is.
THEOREM FinishedJobsStayFinished == Spec => FinishedJobsAreLeftAlone
<1>1. Init => MigratedFirst
  BY DEF Init, MigratedFirst, BeforeWork, Terminal
<1>2. Inv /\ MigratedFirst /\ [Next]_vars => MigratedFirst'
  BY NextMigrated DEF Inv
<1> DEFINE Alone ==
        \A j \in Jobs : record[j] \in Terminal =>
          /\ \A p \in Procs : InHand(p, j)' => InHand(p, j)
          /\ \A p \in Procs :
                phase[p][j] = "locked" /\ mode[p][j] = "resume" /\ phase'[p][j] # "locked"
                => record'[j] = record[j]
<1>3. Inv /\ LockInv /\ MigratedFirst /\ Next => Alone
  <2>1. SUFFICES ASSUME Inv, LockInv, MigratedFirst, Next, NEW j \in Jobs, record[j] \in Terminal, NEW q \in Procs
                 PROVE  /\ InHand(q, j)' => InHand(q, j)
                        /\ phase[q][j] = "locked" /\ mode[q][j] = "resume" /\ phase'[q][j] # "locked"
                              => record'[j] = record[j]
    OBVIOUS
  <2>2. TypeOK /\ LooksAtAJob
    BY <2>1 DEF Inv
  <2>3. PICK p \in Procs :
             \/ \E c \in Commands : Launch(p, c)
             \/ ProcessStep(p) \/ DaemonSubmit(p) \/ Interrupt(p) \/ GiveUp(p) \/ Crash(p)
    BY <2>1 DEF Next
  <2>4. QED
    BY <2>1, <2>2, <2>3, NobodyPicksItUp, ResumeReadsAgain
<1>4. Inv /\ LockInv /\ MigratedFirst /\ [Next]_vars => [Alone]_vars
  BY <1>3
<1>5. Init => LockInv
  BY DEF Init, LockInv, LocksAreHeld, ProbingHoldsTheJob, OnlyWorkersHold, HoldsRepository, HoldsJob
<1> HIDE DEF Alone
<1>6. Spec => [][Alone]_vars
  BY <1>1, <1>2, <1>4, <1>5, InitInv, NextInv, NextLocks, PTL DEF Spec
<1>7. QED
  BY <1>6 DEF Alone, FinishedJobsAreLeftAlone

-----------------------------------------------------------------------------
(* Sorted listings.                                                        *)

\* before orders the elements of U, strictly and totally.
Orders(before, U) ==
    /\ \A x, y \in U : x # y => <<x, y>> \in before \/ <<y, x>> \in before
    /\ \A x \in U : <<x, x>> \notin before
    /\ \A x, y, z \in U : <<x, y>> \in before /\ <<y, z>> \in before => <<x, z>> \in before

InOrder(s, before) == \A i, k \in DOMAIN s : i < k => <<s[i], s[k]>> \in before

LEMMA LastExists ==
    ASSUME NEW U, NEW before, Orders(before, U)
    PROVE  \A n \in Nat : \A S \in SUBSET U : IsFiniteSet(S) /\ Cardinality(S) = n + 1 =>
              \E m \in S : \A x \in S \ {m} : <<x, m>> \in before
<1> DEFINE HasLast(S) == \E m \in S : \A x \in S \ {m} : <<x, m>> \in before
           T == {n \in Nat : \A S \in SUBSET U : IsFiniteSet(S) /\ Cardinality(S) = n + 1 => HasLast(S)}
<1>1. 0 \in T
  <2>1. ASSUME NEW S \in SUBSET U, IsFiniteSet(S), Cardinality(S) = 0 + 1 PROVE HasLast(S)
    <3>1. PICK m : S = {m}
      <4>1. Cardinality(S) = 1
        BY <2>1
      <4>2. QED
        BY <2>1, <4>1, FS_Singleton
    <3>2. QED
      BY <3>1
  <2>2. QED
    BY <2>1
<1>2. ASSUME NEW n \in Nat, n \in T PROVE n + 1 \in T
  <2>1. ASSUME NEW S \in SUBSET U, IsFiniteSet(S), Cardinality(S) = (n + 1) + 1 PROVE HasLast(S)
    <3>1. S # {}
      BY <2>1, FS_EmptySet
    <3>2. PICK x \in S : TRUE
      BY <3>1
    <3> DEFINE R == S \ {x}
    <3>3. R \in SUBSET U /\ IsFiniteSet(R) /\ Cardinality(R) = n + 1
      BY <2>1, <3>2, FS_RemoveElement
    <3>4. HasLast(R)
      BY <1>2, <3>3
    <3>5. PICK m \in R : \A y \in R \ {m} : <<y, m>> \in before
      BY <3>4
    <3>6. m \in S /\ m # x /\ m \in U /\ x \in U
      BY <3>5, <3>2
    <3>7. CASE <<m, x>> \in before
      <4>1. ASSUME NEW y \in S \ {x} PROVE <<y, x>> \in before
        <5>1. CASE y = m
          BY <3>7, <5>1
        <5>2. CASE y # m
          <6>1. <<y, m>> \in before /\ y \in U
            BY <3>5, <5>2, <4>1
          <6>2. QED
            BY <3>6, <3>7, <6>1 DEF Orders
        <5>3. QED
          BY <5>1, <5>2
      <4>2. QED
        BY <3>2, <4>1
    <3>8. CASE <<m, x>> \notin before
      <4>1. <<x, m>> \in before
        BY <3>6, <3>8 DEF Orders
      <4>2. \A y \in S \ {m} : <<y, m>> \in before
        BY <3>5, <4>1
      <4>3. QED
        BY <3>6, <4>2
    <3>9. QED
      BY <3>7, <3>8
  <2> HIDE DEF HasLast
  <2>2. QED
    BY <2>1
<1>3. \A n \in Nat : n \in T
  <2> HIDE DEF T
  <2>1. QED
    BY <1>1, <1>2, SetInduction
<1>4. QED
  BY <1>3

LEMMA OrderedExists ==
    ASSUME NEW U, NEW before, Orders(before, U)
    PROVE  \A n \in Nat : \A S \in SUBSET U : IsFiniteSet(S) /\ Cardinality(S) = n =>
              \E s \in [1 .. n -> S] : InOrder(s, before)
<1> DEFINE Listed(n, S) == \E s \in [1 .. n -> S] : InOrder(s, before)
           T == {n \in Nat : \A S \in SUBSET U : IsFiniteSet(S) /\ Cardinality(S) = n => Listed(n, S)}
<1>1. 0 \in T
  <2>1. ASSUME NEW S \in SUBSET U PROVE Listed(0, S)
    <3>1. [i \in 1 .. 0 |-> i] \in [1 .. 0 -> S] /\ InOrder([i \in 1 .. 0 |-> i], before)
      BY DEF InOrder
    <3>2. QED
      BY <3>1
  <2> HIDE DEF Listed
  <2>2. QED
    BY <2>1
<1>2. ASSUME NEW n \in Nat, n \in T PROVE n + 1 \in T
  <2>1. ASSUME NEW S \in SUBSET U, IsFiniteSet(S), Cardinality(S) = n + 1 PROVE Listed(n + 1, S)
    <3>1. PICK m \in S : \A x \in S \ {m} : <<x, m>> \in before
      BY <2>1, LastExists
    <3> DEFINE R == S \ {m}
    <3>2. R \in SUBSET U /\ IsFiniteSet(R) /\ Cardinality(R) = n
      BY <2>1, <3>1, FS_RemoveElement
    <3>3. Listed(n, R)
      BY <1>2, <3>2
    <3>4. PICK s \in [1 .. n -> R] : InOrder(s, before)
      BY <3>3
    <3> DEFINE t == [i \in 1 .. n + 1 |-> IF i = n + 1 THEN m ELSE s[i]]
    <3>5. \A i \in 1 .. n + 1 : i = n + 1 \/ i \in 1 .. n
      OBVIOUS
    <3>6. t \in [1 .. n + 1 -> S]
      BY <3>1, <3>4, <3>5
    <3>7. ASSUME NEW i \in 1 .. n + 1, NEW k \in 1 .. n + 1, i < k PROVE <<t[i], t[k]>> \in before
      <4>1. i \in 1 .. n /\ t[i] = s[i] /\ s[i] \in R
        BY <3>4, <3>7
      <4>2. CASE k = n + 1
        BY <3>1, <4>1, <4>2
      <4>3. CASE k # n + 1
        <5>1. k \in 1 .. n /\ t[k] = s[k]
          BY <3>5, <4>3
        <5>2. <<s[i], s[k]>> \in before
          BY <3>4, <3>7, <4>1, <5>1 DEF InOrder
        <5>3. QED
          BY <4>1, <5>1, <5>2
      <4>4. QED
        BY <4>2, <4>3
    <3>8. InOrder(t, before)
      BY <3>6, <3>7 DEF InOrder
    <3> HIDE DEF t
    <3>9. QED
      BY <3>6, <3>8
  <2> HIDE DEF Listed
  <2>2. QED
    BY <2>1
<1>3. \A n \in Nat : n \in T
  <2> HIDE DEF T
  <2>1. QED
    BY <1>1, <1>2, SetInduction
<1>4. QED
  BY <1>3

\* Sorting a finite set: every element has its place, and one place.
LEMMA SortedIs ==
    ASSUME NEW S, IsFiniteSet(S), NEW before, Orders(before, S)
    PROVE  LET s == Sorted(S, before)
           IN  /\ s \in Seq(S) /\ Len(s) = Cardinality(S) /\ DOMAIN s = 1 .. Cardinality(S)
               /\ InOrder(s, before)
               /\ \A i, k \in DOMAIN s : s[i] = s[k] => i = k
               /\ \A x \in S : \E i \in DOMAIN s : s[i] = x
<1> DEFINE n == Cardinality(S)
           s == Sorted(S, before)
<1>1. n \in Nat
  BY FS_CardinalityType
<1>2. \E t \in [1 .. n -> S] : InOrder(t, before)
  BY <1>1, OrderedExists
<1>3. s \in [1 .. n -> S] /\ InOrder(s, before)
  BY <1>2 DEF Sorted, InOrder
<1> HIDE DEF s
<1>4. s \in Seq(S) /\ Len(s) = n /\ DOMAIN s = 1 .. n
  BY <1>1, <1>3
<1>5. ASSUME NEW i \in 1 .. n, NEW k \in 1 .. n, s[i] = s[k] PROVE i = k
  <2>1. <<s[i], s[i]>> \notin before /\ s[i] \in S
    BY <1>3 DEF Orders
  <2>2. ~(i < k) /\ ~(k < i)
    BY <1>3, <1>4, <1>5, <2>1 DEF InOrder
  <2>3. QED
    BY <1>1, <2>2
<1>6. s \in Injection(1 .. n, S)
  BY <1>3, <1>5 DEF Injection, IsInjective
<1>7. IsFiniteSet(1 .. n) /\ Cardinality(1 .. n) = n
  BY <1>1, FS_Interval
<1>8. s \in Surjection(1 .. n, S)
  BY <1>6, <1>7, FS_Injection
<1>9. \A x \in S : \E i \in 1 .. n : s[i] = x
  BY <1>8 DEF Surjection
<1>10. QED
  BY <1>3, <1>4, <1>5, <1>9 DEF s

\* What is picked of a list is what stood at the places it was picked from.
LEMMA PickedIs ==
    ASSUME NEW E, NEW list \in Seq(E), NEW places \in SUBSET (DOMAIN list)
    PROVE  /\ Picked(list, places) \in Seq(E)
           /\ Len(Picked(list, places)) = Cardinality(places)
           /\ {Picked(list, places)[k] : k \in DOMAIN Picked(list, places)} = {list[i] : i \in places}
<1> DEFINE N == Len(list)
           part == [i \in 1 .. N |-> IF i \in places THEN <<list[i]>> ELSE <<>>]
           G(n) == FlattenSeq([i \in 1 .. n |-> part[i]])
           Here(n) == places \cap 1 .. n
           Values(s) == {s[k] : k \in DOMAIN s}
           Ok(n) == /\ G(n) \in Seq(E) /\ Len(G(n)) = Cardinality(Here(n))
                    /\ Values(G(n)) = {list[i] : i \in Here(n)}
           T == {n \in 0 .. N : Ok(n)}
<1>1. N \in Nat /\ DOMAIN list = 1 .. N /\ \A i \in 1 .. N : list[i] \in E
  BY LenProperties, ElementOfSeq
<1>2. \A i \in 1 .. N : part[i] = IF i \in places THEN <<list[i]>> ELSE <<>>
  OBVIOUS
<1>3. \A i \in 1 .. N : part[i] \in Seq(E)
  <2>1. \A i \in 1 .. N : <<list[i]>> \in Seq(E) /\ <<>> \in Seq(E)
    BY <1>1, EmptySeq
  <2>2. QED
    BY <1>2, <2>1
<1> HIDE DEF part
<1>4. 0 \in T
  <2>1. G(0) = <<>>
    <3>1. [i \in 1 .. 0 |-> part[i]] = <<>>
      OBVIOUS
    <3>2. QED
      BY <3>1, FlattenEmpty
  <2>2. Here(0) = {} /\ Values(<<>>) = {} /\ <<>> \in Seq(E) /\ Len(<<>>) = 0 /\ Cardinality({}) = 0
    BY EmptySeq, FS_EmptySet
  <2> HIDE DEF Values, G, Here
  <2>3. Values(G(0)) = {list[i] : i \in Here(0)}
    BY <2>1, <2>2
  <2>4. G(0) \in Seq(E) /\ Len(G(0)) = Cardinality(Here(0))
    BY <2>1, <2>2
  <2>5. Ok(0) /\ 0 \in 0 .. N
    BY <1>1, <2>3, <2>4
  <2> HIDE DEF Ok
  <2>6. QED
    BY <2>5
<1>5. ASSUME NEW n \in 0 .. N - 1, n \in T PROVE n + 1 \in T
  <2> DEFINE g == G(n)
             h == G(n + 1)
             m == n + 1
  <2>1. n \in Nat /\ m \in 1 .. N /\ m \in 0 .. N
    BY <1>1
  <2>2. g \in Seq(E) /\ Len(g) = Cardinality(Here(n)) /\ Values(g) = {list[i] : i \in Here(n)}
    BY <1>5
  <2>3. \A i \in 1 .. n + 1 : part[i] \in Seq(E)
    <3>1. \A i \in 1 .. n + 1 : i \in 1 .. N
      BY <1>1, <2>1
    <3>2. QED
      BY <1>3, <3>1
  <2>4. h = g \o part[m]
    <3>1. /\ [i \in 1 .. n |-> part[i]] \in Seq(Seq(E))
          /\ [i \in 1 .. n + 1 |-> part[i]] = Append([i \in 1 .. n |-> part[i]], part[n + 1])
          /\ part[n + 1] \in Seq(E)
      BY <2>1, <2>3, MapGrows
    <3>2. QED
      BY <3>1, FlattenAppend
  <2>5. Here(n + 1) = IF m \in places THEN Here(n) \cup {m} ELSE Here(n)
    BY <2>1
  <2>6. m \notin Here(n) /\ IsFiniteSet(Here(n))
    <3>1. IsFiniteSet(1 .. n)
      BY <2>1, FS_Interval
    <3>2. IsFiniteSet(Here(n))
      BY <3>1, FS_Subset
    <3>3. QED
      BY <2>1, <3>2
  <2> HIDE DEF g, h, m, Here, G
  <2>7. CASE m \in places
    <3> DEFINE e == list[m]
    <3>1. h = Append(g, e) /\ e \in E
      BY <1>1, <1>2, <2>1, <2>2, <2>4, <2>7, AppendIsConcat
    <3>2. /\ h \in Seq(E) /\ Len(h) = Len(g) + 1 /\ h[Len(g) + 1] = e
          /\ \A i \in 1 .. Len(g) : h[i] = g[i]
      BY <2>2, <3>1, AppendProperties
    <3>3. Len(g) \in Nat /\ DOMAIN g = 1 .. Len(g) /\ DOMAIN h = 1 .. Len(g) + 1
      BY <2>2, <3>2, LenProperties
    <3> HIDE DEF e
    <3>4. Values(h) = Values(g) \cup {e}
      <4>1. \A i \in DOMAIN h : i \in DOMAIN g \/ i = Len(g) + 1
        BY <3>3
      <4>2. Values(h) \subseteq Values(g) \cup {e}
        BY <3>2, <3>3, <4>1
      <4>3. Values(g) \subseteq Values(h)
        BY <3>2, <3>3
      <4>4. e \in Values(h)
        BY <3>2, <3>3
      <4>5. QED
        BY <4>2, <4>3, <4>4
    <3> HIDE DEF Values
    <3>5. Values(h) = {list[i] : i \in Here(n + 1)}
      BY <2>2, <2>5, <2>7, <3>4 DEF e
    <3>6. Len(h) = Cardinality(Here(n + 1))
      BY <2>2, <2>5, <2>6, <2>7, <3>2, FS_AddElement
    <3>7. QED
      BY <2>1, <3>2, <3>5, <3>6 DEF h, m
  <2>8. CASE m \notin places
    <3>1. h = g
      BY <1>2, <2>1, <2>2, <2>4, <2>8, ConcatEmptySeq
    <3>2. QED
      BY <2>1, <2>2, <2>5, <2>8, <3>1 DEF h, m
  <2>9. QED
    BY <2>7, <2>8
<1>6. \A n \in 0 .. N : n \in T
  <2> HIDE DEF T
  <2>1. QED
    BY <1>1, <1>4, <1>5, SetInductionUpTo
<1>7. Ok(N)
  <2> HIDE DEF Ok
  <2>1. N \in 0 .. N
    BY <1>1
  <2>2. QED
    BY <1>6, <2>1
<1>8. G(N) = Picked(list, places) /\ Here(N) = places
  <2>1. Here(N) = places
    BY <1>1
  <2>2. G(N) = Picked(list, places)
    BY <1>1 DEF Picked, part
  <2>3. QED
    BY <2>1, <2>2
<1> HIDE DEF G, Here
<1>9. QED
  BY <1>7, <1>8

-----------------------------------------------------------------------------
(* Any home: any number of jobs, with any statuses and times.              *)

Entries(id, statuses) ==
    {Missing, Corrupt} \cup
    {Record(id, s, c, t, u) : s \in statuses, c \in BOOLEAN, t \in Nat, u \in Nat}

AnyHome(disk, statuses) ==
    /\ IsFiniteSet(DOMAIN disk) /\ DOMAIN disk \subseteq Nat \ {0}
    /\ \A id \in DOMAIN disk : disk[id] \in Entries(id, statuses)

LEMMA EntryIs ==
    ASSUME NEW disk, NEW statuses, AnyHome(disk, statuses), NEW id \in DOMAIN disk
    PROVE  /\ disk[id] = Missing \/ disk[id] = Corrupt \/ disk[id].file = "record"
           /\ disk[id].file = "record" =>
                disk[id].id = id /\ disk[id].updated \in Nat /\ disk[id] # Missing /\ disk[id] # Corrupt
           /\ disk[id] = Corrupt => disk[id].file # "record"
<1>1. disk[id] \in Entries(id, statuses)
  BY DEF AnyHome
<1>2. Missing.file = "missing" /\ Corrupt.file = "corrupt"
  BY DEF Missing, Corrupt
<1>3. CASE disk[id] \in {Missing, Corrupt}
  <2>1. disk[id].file # "record"
    BY <1>2, <1>3
  <2>2. QED
    BY <1>3, <2>1
<1>4. CASE disk[id] \notin {Missing, Corrupt}
  <2>1. PICK s \in statuses, c \in BOOLEAN, t \in Nat, u \in Nat : disk[id] = Record(id, s, c, t, u)
    BY <1>1, <1>4 DEF Entries
  <2>2. disk[id].file = "record" /\ disk[id].id = id /\ disk[id].updated \in Nat
    BY <2>1 DEF Record
  <2>3. QED
    BY <1>4, <2>2
<1>5. QED
  BY <1>3, <1>4

LEMMA ReadableIs ==
    ASSUME NEW disk, NEW statuses, AnyHome(disk, statuses)
    PROVE  /\ IsFiniteSet(Readable(disk)) /\ Corrupt \notin Readable(disk)
           /\ \A r \in Readable(disk) : /\ r.id \in DOMAIN disk /\ disk[r.id] = r
                                        /\ r.file = "record" /\ r.updated \in Nat /\ r.id \in Nat /\ r.id # 0
           /\ \A id \in DOMAIN disk : disk[id].file = "record" => disk[id] \in Readable(disk)
<1> DEFINE I == {i \in DOMAIN disk : disk[i].file = "record"}
           f == [i \in I |-> disk[i]]
<1>1. \A i \in I : /\ disk[i].id = i /\ disk[i].updated \in Nat /\ disk[i] # Corrupt
                   /\ i \in DOMAIN disk /\ i \in Nat /\ i # 0 /\ disk[i].file = "record"
  BY EntryIs DEF AnyHome
<1>2. Readable(disk) = {disk[i] : i \in I}
  BY DEF Readable
<1>3. IsFiniteSet(I)
  BY FS_Subset DEF AnyHome
<1>4. f \in Surjection(I, Readable(disk))
  BY <1>2 DEF Surjection
<1>5. IsFiniteSet(Readable(disk))
  BY <1>3, <1>4, FS_Surjection
<1>6. QED
  BY <1>1, <1>2, <1>5

LEMMA ByUpdateIs ==
    ASSUME NEW disk, NEW statuses, AnyHome(disk, statuses), NEW S \in SUBSET Readable(disk)
    PROVE  /\ ByUpdate(S) \in Seq(S) /\ Len(ByUpdate(S)) \in Nat
           /\ DOMAIN ByUpdate(S) = 1 .. Len(ByUpdate(S))
           /\ \A i \in DOMAIN ByUpdate(S) : ByUpdate(S)[i] \in S
           /\ \A i, k \in DOMAIN ByUpdate(S) : ByUpdate(S)[i] = ByUpdate(S)[k] => i = k
           /\ \A x \in S : \E i \in DOMAIN ByUpdate(S) : ByUpdate(S)[i] = x
           /\ \A i, k \in DOMAIN ByUpdate(S) :
                 i < k => ByUpdate(S)[i].updated >= ByUpdate(S)[k].updated
<1> DEFINE before == {p \in S \X S : NewestFirst(p[1], p[2])}
           s == ByUpdate(S)
<1>1. IsFiniteSet(S)
  BY ReadableIs, FS_Subset
<1>2. \A x \in S : x.updated \in Nat /\ x.id \in Nat /\ disk[x.id] = x
  BY ReadableIs
<1>3. \A x, y \in S : <<x, y>> \in before <=> NewestFirst(x, y)
  OBVIOUS
<1>4. Orders(before, S)
  <2>1. \A x, y \in S : x # y => NewestFirst(x, y) \/ NewestFirst(y, x)
    BY <1>2 DEF NewestFirst
  <2>2. \A x \in S : ~NewestFirst(x, x)
    BY <1>2 DEF NewestFirst
  <2>3. \A x, y, z \in S : NewestFirst(x, y) /\ NewestFirst(y, z) => NewestFirst(x, z)
    BY <1>2 DEF NewestFirst
  <2> HIDE DEF before
  <2>4. QED
    BY <1>3, <2>1, <2>2, <2>3 DEF Orders
<1> HIDE DEF before
<1>5. Sorted(S, before) = s
  BY DEF ByUpdate, before
<1> HIDE DEF s
<1>6. /\ s \in Seq(S) /\ Len(s) = Cardinality(S) /\ DOMAIN s = 1 .. Cardinality(S)
      /\ InOrder(s, before)
      /\ \A i, k \in DOMAIN s : s[i] = s[k] => i = k
      /\ \A x \in S : \E i \in DOMAIN s : s[i] = x
  BY <1>1, <1>4, <1>5, SortedIs
<1>7. \A i \in DOMAIN s : s[i] \in S
  BY <1>6, ElementOfSeq
<1>8. \A i, k \in DOMAIN s : i < k => s[i].updated >= s[k].updated
  <2>1. ASSUME NEW i \in DOMAIN s, NEW k \in DOMAIN s, i < k PROVE s[i].updated >= s[k].updated
    <3>1. NewestFirst(s[i], s[k])
      BY <1>3, <1>6, <1>7, <2>1 DEF InOrder
    <3>2. s[i].updated \in Nat /\ s[k].updated \in Nat
      BY <1>2, <1>7
    <3>3. QED
      BY <3>1, <3>2 DEF NewestFirst
  <2>2. QED
    BY <2>1
<1>9. Len(s) \in Nat
  BY <1>6, LenProperties
<1>10. QED
  BY <1>6, <1>7, <1>8, <1>9 DEF s

\* Picking finds something if there is something to pick.
LEMMA PickedSome ==
    ASSUME NEW E, NEW list \in Seq(E), NEW places \in SUBSET (DOMAIN list)
    PROVE  /\ (Picked(list, places) # <<>>) <=> (places # {})
           /\ Picked(list, places) \in Seq(E)
<1>1. Picked(list, places) \in Seq(E) /\ Len(Picked(list, places)) = Cardinality(places)
  BY PickedIs
<1>2. IsFiniteSet(places)
  <2>1. DOMAIN list = 1 .. Len(list) /\ IsFiniteSet(1 .. Len(list))
    BY LenProperties, FS_Interval
  <2>2. QED
    BY <2>1, FS_Subset
<1>3. (Cardinality(places) = 0) <=> (places = {})
  BY <1>2, FS_EmptySet
<1>4. QED
  BY <1>1, <1>3, EmptySeq

\* Of the values of the parts.
LEMMA PickedValues ==
    ASSUME NEW E, NEW list \in Seq(E), NEW places \in SUBSET (DOMAIN list)
    PROVE  /\ \A k \in DOMAIN Picked(list, places) : \E i \in places : Picked(list, places)[k] = list[i]
           /\ \A i \in places : \E k \in DOMAIN Picked(list, places) : Picked(list, places)[k] = list[i]
<1> DEFINE p == Picked(list, places)
<1>1. {p[k] : k \in DOMAIN p} = {list[i] : i \in places}
  BY PickedIs
<1> HIDE DEF p
<1>2. ASSUME NEW k \in DOMAIN p PROVE \E i \in places : p[k] = list[i]
  BY <1>1
<1>3. ASSUME NEW i \in places PROVE \E k \in DOMAIN p : p[k] = list[i]
  BY <1>1
<1>4. QED
  BY <1>2, <1>3 DEF p

\* What is resumable in a home that can be read.
Continuable(disk) == {r \in Readable(disk) : ResumableStatus(r)}

HasOne(disk, id) == disk[id].file = "record" /\ HasPlan(disk[id])

LEMMA ResumesWhat ==
    ASSUME NEW disk, NEW statuses, AnyHome(disk, statuses), Unreadable(disk) = {}
    PROVE  /\ ResumableJobs(disk) = ByUpdate(Continuable(disk))
           /\ \A id \in DOMAIN disk : Resumes(disk, id) # <<>> <=> HasOne(disk, id)
           /\ Resumes(disk, 0) # <<>> =>
                Len(ResumableJobs(disk)) = 1 /\ HasPlan(ResumableJobs(disk)[1])
<1> DEFINE Q == Continuable(disk)
           list == ByUpdate(Q)
           Of(id) == {i \in DOMAIN list : list[i].id = id}
           Good(s) == {i \in DOMAIN s : HasPlan(s[i])}
<1>1. /\ Corrupt \notin Readable(disk)
      /\ \A r \in Readable(disk) : r.id \in DOMAIN disk /\ disk[r.id] = r /\ r.file = "record"
      /\ \A id \in DOMAIN disk : disk[id].file = "record" => disk[id] \in Readable(disk)
  BY ReadableIs
<1>2. Q \in SUBSET Readable(disk)
  BY DEF Continuable
<1>3. ResumableJobs(disk) = list
  <2>1. LoadAll(disk) = Readable(disk)
    BY DEF LoadAll
  <2>2. {j \in LoadAll(disk) : j # Corrupt /\ ResumableStatus(j)} = Q
    BY <1>1, <2>1 DEF Continuable
  <2>3. QED
    BY <2>2 DEF ResumableJobs
<1>4. /\ list \in Seq(Q) /\ Len(list) \in Nat /\ DOMAIN list = 1 .. Len(list)
      /\ \A i \in DOMAIN list : list[i] \in Q
      /\ \A i, k \in DOMAIN list : list[i] = list[k] => i = k
      /\ \A x \in Q : \E i \in DOMAIN list : list[i] = x
  BY <1>2, ByUpdateIs
<1> HIDE DEF list
<1>5. ASSUME NEW sel \in Seq(Q)
      PROVE  Picked(sel, Good(sel)) # <<>> <=> \E i \in DOMAIN sel : HasPlan(sel[i])
  <2>1. Good(sel) \in SUBSET (DOMAIN sel)
    OBVIOUS
  <2>2. Picked(sel, Good(sel)) # <<>> <=> Good(sel) # {}
    BY <2>1, PickedSome
  <2>3. QED
    BY <2>2
<1>6. ASSUME NEW id \in DOMAIN disk PROVE Resumes(disk, id) # <<>> <=> HasOne(disk, id)
  <2> DEFINE sel == Picked(list, Of(id))
  <2>1. id # 0
    BY DEF AnyHome
  <2>2. SelectJob(list, id) = sel
    BY <2>1 DEF SelectJob
  <2>3. Of(id) \in SUBSET (DOMAIN list)
    OBVIOUS
  <2>4. /\ sel \in Seq(Q)
        /\ \A k \in DOMAIN sel : \E i \in Of(id) : sel[k] = list[i]
        /\ \A i \in Of(id) : \E k \in DOMAIN sel : sel[k] = list[i]
    <3> DEFINE places == Of(id)
    <3>1. places \in SUBSET (DOMAIN list) /\ list \in Seq(Q)
      BY <1>4
    <3> HIDE DEF places
    <3>2. Picked(list, places) \in Seq(Q)
      BY <3>1, PickedSome
    <3>3. sel = Picked(list, places)
      BY DEF places
    <3> HIDE DEF sel
    <3>4. \A k \in DOMAIN sel : \E i \in places : sel[k] = list[i]
      BY <3>1, <3>3, PickedValues
    <3>5. \A i \in places : \E k \in DOMAIN sel : sel[k] = list[i]
      BY <3>1, <3>3, PickedValues
    <3>6. QED
      BY <3>2, <3>3, <3>4, <3>5 DEF places
  <2> HIDE DEF sel
  <2>5. Resumes(disk, id) = Picked(sel, Good(sel))
    BY <1>3, <2>2 DEF Resumes
  <2>6. ASSUME \E k \in DOMAIN sel : HasPlan(sel[k]) PROVE HasOne(disk, id)
    <3>1. PICK k \in DOMAIN sel : HasPlan(sel[k])
      BY <2>6
    <3>2. PICK i \in DOMAIN list : list[i].id = id /\ sel[k] = list[i]
      BY <2>4, <3>1
    <3>3. list[i] \in Readable(disk)
      BY <1>2, <1>4
    <3>4. disk[id] = list[i] /\ disk[id].file = "record"
      BY <1>1, <3>2, <3>3
    <3>5. QED
      BY <3>1, <3>2, <3>4 DEF HasOne
  <2>7. ASSUME HasOne(disk, id) PROVE \E k \in DOMAIN sel : HasPlan(sel[k])
    <3>1. disk[id] \in Readable(disk) /\ HasPlan(disk[id]) /\ ResumableStatus(disk[id]) /\ disk[id].id = id
      BY <1>1, <2>7, EntryIs DEF HasOne, HasPlan
    <3>2. disk[id] \in Q
      BY <3>1 DEF Continuable
    <3>3. PICK i \in DOMAIN list : list[i] = disk[id]
      BY <1>4, <3>2
    <3>4. PICK k \in DOMAIN sel : sel[k] = list[i]
      BY <2>4, <3>1, <3>3
    <3>5. QED
      BY <3>1, <3>3, <3>4
  <2>8. Picked(sel, Good(sel)) # <<>> <=> \E i \in DOMAIN sel : HasPlan(sel[i])
    BY <1>5, <2>4
  <2>9. QED
    BY <2>5, <2>6, <2>7, <2>8
<1>7. Resumes(disk, 0) # <<>> => Len(list) = 1 /\ HasPlan(list[1])
  <2> DEFINE sel == IF Len(list) = 1 THEN <<list[1]>> ELSE <<>>
  <2>1. SelectJob(list, 0) = sel
    BY DEF SelectJob
  <2>2. sel \in Seq(Q)
    <3>1. CASE Len(list) = 1
      <4>1. list[1] \in Q
        BY <1>4, <3>1
      <4>2. QED
        BY <3>1, <4>1
    <3>2. CASE Len(list) # 1
      BY <3>2, EmptySeq
    <3>3. QED
      BY <3>1, <3>2
  <2>3. (\E i \in DOMAIN sel : HasPlan(sel[i])) => Len(list) = 1 /\ HasPlan(list[1])
    OBVIOUS
  <2> HIDE DEF sel
  <2>4. Resumes(disk, 0) = Picked(sel, Good(sel))
    BY <1>3, <2>1 DEF Resumes
  <2>5. Picked(sel, Good(sel)) # <<>> <=> \E i \in DOMAIN sel : HasPlan(sel[i])
    BY <1>5, <2>2
  <2>6. QED
    BY <2>3, <2>4, <2>5
<1>8. QED
  BY <1>3, <1>6, <1>7 DEF list

\* A home in which a record cannot be read resumes nothing.
LEMMA NothingResumes ==
    ASSUME NEW disk, NEW statuses, AnyHome(disk, statuses), Unreadable(disk) # {},
           NEW id \in DOMAIN disk \cup {0}
    PROVE  Resumes(disk, id) = <<>>
<1> DEFINE none == ByUpdate({})
<1>1. ResumableJobs(disk) = none
  <2>1. LoadAll(disk) = {Corrupt}
    BY DEF LoadAll
  <2>2. {j \in LoadAll(disk) : j # Corrupt /\ ResumableStatus(j)} = {}
    BY <2>1
  <2>3. QED
    BY <2>2 DEF ResumableJobs
<1>2. none = <<>>
  <2>1. {} \in SUBSET Readable(disk)
    OBVIOUS
  <2>2. \A i \in DOMAIN none : none[i] \in {}
    BY <2>1, ByUpdateIs
  <2>3. none \in Seq({}) /\ Len(none) \in Nat /\ DOMAIN none = 1 .. Len(none)
    BY <2>1, ByUpdateIs
  <2> HIDE DEF none
  <2>4. Len(none) = 0
    <3>1. CASE Len(none) # 0
      <4>1. 1 \in DOMAIN none
        BY <2>3, <3>1
      <4>2. QED
        BY <2>2, <4>1
    <3>2. QED
      BY <3>1
  <2>5. QED
    BY <2>3, <2>4, EmptySeq
<1> HIDE DEF none
<1>3. \A places : Picked(<<>>, places) = <<>>
  <2>1. ASSUME NEW places PROVE Picked(<<>>, places) = <<>>
    <3>1. [i \in DOMAIN <<>> |-> IF i \in places THEN << <<>>[i] >> ELSE <<>>] = <<>>
      OBVIOUS
    <3>2. QED
      BY <3>1, FlattenEmpty DEF Picked
  <2>2. QED
    BY <2>1
<1>4. SelectJob(<<>>, id) = <<>>
  BY <1>3 DEF SelectJob
<1>5. QED
  BY <1>1, <1>2, <1>3, <1>4 DEF Resumes

\* However many jobs a home has, and whatever their records say or fail to say: `lya jobs` and
\* `lya resume` agree (JobInventory::collect, resumable_jobs, select_job, DaemonState::status).
THEOREM AnyListingAgrees ==
    ASSUME NEW disk, NEW statuses, AnyHome(disk, statuses)
    PROVE  AgreesWithResume(disk)
<1> DEFINE R == Readable(disk)
           found == ByUpdate(R)
           jobs == [i \in DOMAIN found |-> Summary(found[i])]
           places == {i \in DOMAIN jobs : jobs[i].resumable}
           rs == Picked(jobs, places)
           all == Collect(disk)
           resumable == OnlyResumable(all)
           ids == DOMAIN disk
<1>1. /\ \A r \in R : r.id \in DOMAIN disk /\ disk[r.id] = r /\ r.file = "record" /\ r.id # 0
      /\ \A id \in ids : disk[id].file = "record" => disk[id] \in R /\ disk[id].id = id
  BY ReadableIs, EntryIs
<1>2. /\ found \in Seq(R) /\ Len(found) \in Nat /\ DOMAIN found = 1 .. Len(found)
      /\ \A i \in DOMAIN found : found[i] \in R
      /\ \A i, k \in DOMAIN found : found[i] = found[k] => i = k
      /\ \A x \in R : \E i \in DOMAIN found : found[i] = x
      /\ \A i, k \in DOMAIN found : i < k => found[i].updated >= found[k].updated
  BY ByUpdateIs
<1>3. all = [jobs |-> jobs, unreadable |-> Unreadable(disk)]
  BY DEF Collect
<1> HIDE DEF found, all
<1>4. DOMAIN jobs = DOMAIN found
  OBVIOUS
<1>5. \A i \in DOMAIN found :
         /\ jobs[i].id = found[i].id /\ jobs[i].status = found[i].status
         /\ jobs[i].updated = found[i].updated /\ jobs[i].resumable = HasPlan(found[i])
  BY DEF Summary
<1>6. jobs \in Seq({Summary(r) : r \in R})
  BY <1>2
<1> HIDE DEF jobs
<1>7. all.jobs = jobs /\ all.unreadable = Unreadable(disk) /\ resumable.jobs = rs
  BY <1>3 DEF OnlyResumable
<1>8. places \in SUBSET (DOMAIN jobs) /\ \A i \in DOMAIN found : i \in places <=> HasPlan(found[i])
  BY <1>4, <1>5
<1> HIDE DEF places
<1>9. Len(rs) = Cardinality(places)
  BY <1>6, <1>8, PickedIs
<1>10. /\ \A k \in DOMAIN rs : \E i \in places : rs[k] = jobs[i]
       /\ \A i \in places : \E k \in DOMAIN rs : rs[k] = jobs[i]
  BY <1>6, <1>8, PickedValues
<1> HIDE DEF rs, resumable
<1>11. ASSUME NEW id \in ids
       PROVE  Cardinality(Contained(all, id)) = IF disk[id].file = "record" THEN 1 ELSE 0
  <2>1. Contained(all, id) = {i \in DOMAIN found : found[i].id = id}
    BY <1>4, <1>5, <1>7 DEF Contained
  <2>2. CASE disk[id].file = "record"
    <3>1. PICK i \in DOMAIN found : found[i] = disk[id]
      BY <1>1, <1>2, <2>2
    <3>2. ASSUME NEW k \in DOMAIN found, found[k].id = id PROVE k = i
      <4>1. found[k] = disk[id]
        BY <1>1, <1>2, <3>2
      <4>2. QED
        BY <1>2, <3>1, <4>1
    <3>3. found[i].id = id
      BY <1>1, <2>2, <3>1
    <3>4. Contained(all, id) = {i}
      BY <2>1, <3>2, <3>3
    <3>5. QED
      BY <2>2, <3>4, FS_Singleton
  <2>3. CASE disk[id].file # "record"
    <3>1. \A k \in DOMAIN found : found[k].id # id
      BY <1>1, <1>2, <2>3
    <3>2. Contained(all, id) = {}
      BY <2>1, <3>1
    <3>3. QED
      BY <2>3, <3>2, FS_EmptySet
  <2>4. QED
    BY <2>2, <2>3
<1>12. \A i, k \in DOMAIN all.jobs : i < k => all.jobs[i].updated >= all.jobs[k].updated
  BY <1>2, <1>4, <1>5, <1>7
<1>13. ASSUME Unreadable(disk) = {}, NEW id \in ids
       PROVE  (Resumes(disk, id) # <<>>) = (Contained(resumable, id) # {})
  <2>1. Resumes(disk, id) # <<>> <=> HasOne(disk, id)
    BY <1>13, ResumesWhat
  <2>2. Contained(resumable, id) # {} <=> \E k \in DOMAIN rs : rs[k].id = id
    BY <1>7 DEF Contained
  <2>3. ASSUME NEW k \in DOMAIN rs, rs[k].id = id PROVE HasOne(disk, id)
    <3>1. PICK i \in places : rs[k] = jobs[i]
      BY <1>10
    <3>2. i \in DOMAIN found /\ HasPlan(found[i]) /\ found[i].id = id /\ found[i] \in R
      BY <1>2, <1>4, <1>5, <1>8, <2>3, <3>1
    <3>3. QED
      BY <1>1, <3>2 DEF HasOne
  <2>4. ASSUME HasOne(disk, id) PROVE \E k \in DOMAIN rs : rs[k].id = id
    <3>1. PICK i \in DOMAIN found : found[i] = disk[id]
      BY <1>1, <1>2, <2>4 DEF HasOne
    <3>2. i \in places /\ jobs[i].id = id
      BY <1>1, <1>5, <1>8, <2>4, <3>1 DEF HasOne
    <3>3. PICK k \in DOMAIN rs : rs[k] = jobs[i]
      BY <1>10, <3>2
    <3>4. QED
      BY <3>2, <3>3
  <2>5. QED
    BY <2>1, <2>2, <2>3, <2>4
<1>14. ASSUME Unreadable(disk) = {}, Resumes(disk, 0) # <<>> PROVE Len(rs) = 1
  <2> DEFINE Q == Continuable(disk)
             list == ByUpdate(Q)
  <2>1. Len(list) = 1 /\ HasPlan(list[1])
    BY <1>14, ResumesWhat
  <2>2. Q \in SUBSET R
    BY DEF Continuable
  <2>3. /\ DOMAIN list = 1 .. Len(list)
        /\ \A i \in DOMAIN list : list[i] \in Q
        /\ \A x \in Q : \E i \in DOMAIN list : list[i] = x
    BY <2>2, ByUpdateIs
  <2> HIDE DEF list
  <2>4. 1 \in DOMAIN list /\ \A i \in DOMAIN list : i = 1
    BY <2>1, <2>3
  <2>5. PICK i \in DOMAIN found : found[i] = list[1]
    BY <1>2, <2>2, <2>3, <2>4
  <2>6. i \in places
    BY <1>8, <2>1, <2>5
  <2>7. ASSUME NEW k \in places PROVE k = i
    <3>1. k \in DOMAIN found /\ HasPlan(found[k]) /\ found[k] \in R
      BY <1>2, <1>4, <1>8
    <3>2. found[k] \in Q
      BY <3>1 DEF HasPlan, Continuable
    <3>3. found[k] = list[1]
      BY <2>3, <2>4, <3>2
    <3>4. QED
      BY <1>2, <2>5, <3>1, <3>3
  <2>8. places = {i}
    BY <2>6, <2>7
  <2>9. QED
    BY <1>9, <2>8, FS_Singleton
<1>15. ASSUME NEW i \in Blocked(all)
       PROVE  /\ i \in DOMAIN found /\ ResumableStatus(found[i]) /\ ~HasPlan(found[i])
              /\ all.jobs[i].id = found[i].id
  BY <1>4, <1>5, <1>7 DEF Blocked, ResumableStatus
<1>16. ASSUME Unreadable(disk) = {}, NEW i \in Blocked(all)
       PROVE  Refusal(disk, all.jobs[i].id) = "inconsistent"
  <2> DEFINE id == found[i].id
  <2>1. found[i] \in R /\ all.jobs[i].id = id
    BY <1>2, <1>15
  <2>2. id # 0 /\ id \in DOMAIN disk /\ disk[id] = found[i] /\ disk[id].file = "record"
    BY <1>1, <2>1
  <2>3. disk[id] # Missing /\ ResumableStatus(disk[id])
    BY <1>15, <2>2, EntryIs
  <2> HIDE DEF id
  <2>4. QED
    BY <1>16, <2>1, <2>2, <2>3 DEF Refusal
<1>17. ASSUME Unreadable(disk) = {}
       PROVE  StatusAnswer(disk, {}).resumable
                = {rs[i].id : i \in DOMAIN rs} \cup {all.jobs[i].id : i \in Blocked(all)}
  <2> DEFINE Q == Continuable(disk)
             list == ByUpdate(Q)
             A == {rs[i].id : i \in DOMAIN rs}
             B == {all.jobs[i].id : i \in Blocked(all)}
  <2>1. ResumableJobs(disk) = list
    BY <1>17, ResumesWhat
  <2>2. Q \in SUBSET R
    BY DEF Continuable
  <2>3. /\ \A i \in DOMAIN list : list[i] \in Q
        /\ \A x \in Q : \E i \in DOMAIN list : list[i] = x
    BY <2>2, ByUpdateIs
  <2> HIDE DEF list
  <2>4. ToSet(list) = Q
    BY <2>3 DEF ToSet
  <2>5. StatusAnswer(disk, {}).resumable = {j.id : j \in Q}
    BY <2>1, <2>4 DEF StatusAnswer
  <2>6. ASSUME NEW j \in Q PROVE j.id \in A \cup B
    <3>1. PICK i \in DOMAIN found : found[i] = j
      BY <1>2, <2>2
    <3>2. ResumableStatus(j)
      BY DEF Continuable
    <3>3. CASE HasPlan(j)
      <4>1. i \in places
        BY <1>8, <3>1, <3>3
      <4>2. PICK k \in DOMAIN rs : rs[k] = jobs[i]
        BY <1>10, <4>1
      <4>3. rs[k].id = j.id
        BY <1>5, <3>1, <4>2
      <4>4. QED
        BY <4>3
    <3>4. CASE ~HasPlan(j)
      <4>1. i \in Blocked(all) /\ all.jobs[i].id = j.id
        BY <1>4, <1>5, <1>7, <3>1, <3>2, <3>4 DEF Blocked, ResumableStatus
      <4>2. QED
        BY <4>1
    <3>5. QED
      BY <3>3, <3>4
  <2>7. ASSUME NEW k \in DOMAIN rs PROVE \E j \in Q : j.id = rs[k].id
    <3>1. PICK i \in places : rs[k] = jobs[i]
      BY <1>10
    <3>2. i \in DOMAIN found /\ HasPlan(found[i]) /\ found[i] \in R /\ rs[k].id = found[i].id
      BY <1>2, <1>4, <1>5, <1>8, <3>1
    <3>3. found[i] \in Q
      BY <3>2 DEF HasPlan, Continuable
    <3>4. QED
      BY <3>2, <3>3
  <2>8. ASSUME NEW i \in Blocked(all) PROVE \E j \in Q : j.id = all.jobs[i].id
    <3>1. found[i] \in Q /\ all.jobs[i].id = found[i].id
      BY <1>2, <1>15 DEF Continuable
    <3>2. QED
      BY <3>1
  <2> HIDE DEF Q
  <2>9. {j.id : j \in Q} = A \cup B
    BY <2>6, <2>7, <2>8
  <2>10. QED
    BY <2>5, <2>9
<1>18. ListSucceeds(all) <=> Unreadable(disk) = {}
  BY <1>7 DEF ListSucceeds
<1>19. Unreadable(disk) # {} => \A id \in ids \cup {0} : Resumes(disk, id) = <<>>
  BY NothingResumes
<1> HIDE DEF ids
<1>20. QED
  BY <1>7, <1>11, <1>12, <1>13, <1>14, <1>16, <1>17, <1>18, <1>19
  DEF AgreesWithResume, all, resumable, ids

LEMMA ListingHolds == ListingAgreesWithResume
<1> DEFINE statuses == {"PAUSED", "QUEUED", "ACCEPTED"}
<1>1. ASSUME NEW disk \in Disks PROVE AnyHome(disk, statuses)
  <2>1. DOMAIN disk = 1 .. 3 /\ \A id \in 1 .. 3 : disk[id] \in Contents(id)
    BY DEF Disks, Ids
  <2>2. IsFiniteSet(1 .. 3) /\ 1 .. 3 \subseteq Nat \ {0}
    <3>1. IsFiniteSet(1 .. 3)
      BY FS_Interval, 1 \in Int, 3 \in Int
    <3>2. QED
      BY <3>1
  <2>3. ASSUME NEW id \in 1 .. 3 PROVE disk[id] \in Entries(id, statuses)
    <3>1. disk[id] \in Contents(id)
      BY <2>1
    <3>2. CASE disk[id] \in {Missing, Corrupt}
      BY <3>2 DEF Entries
    <3>3. CASE disk[id] \notin {Missing, Corrupt}
      <4>1. PICK s \in statuses, c \in BOOLEAN, t \in 1 .. 2 : disk[id] = Record(id, s, c, t, 3 - t)
        BY <3>1, <3>3 DEF Contents
      <4>2. t \in Nat /\ 3 - t \in Nat
        OBVIOUS
      <4>3. QED
        BY <4>1, <4>2 DEF Entries
    <3>4. QED
      BY <3>2, <3>3
  <2> HIDE DEF statuses
  <2>4. QED
    BY <2>1, <2>2, <2>3 DEF AnyHome
<1>2. QED
  BY <1>1, AnyListingAgrees DEF ListingAgreesWithResume

-----------------------------------------------------------------------------
(* Any number of saves.                                                    *)

Slots(J) == [state : J, temporary : Nat]

Attempts(J) == [job : J, k : 0 .. 4, ends : {"returns", "fails", "dies"}]

SaveStep(J) == [p \in Slots(J) \X Attempts(J) |-> Save(p[1], p[2])]

LEMMA SaveType ==
    ASSUME NEW J, NEW s \in Slots(J), NEW b \in Attempts(J)
    PROVE  Save(s, b) \in Slots(J)
BY DEF Save, WriteAtomically, Slots, Attempts

LEMMA SavesFold ==
    ASSUME NEW J, NEW old \in Slots(J), NEW s \in Seq(Attempts(J))
    PROVE  Folding(Slots(J), SaveStep(J), old, s, FoldLeft(Save, old, s))
<1> DEFINE N == Len(s)
           Of(f) == [d \in SUBSET (DOMAIN s) |->
                       IF d = {} THEN old ELSE Save(f[d \ {Max(d)}], s[Max(d)])]
           iter == CHOOSE f : f = Of(f)
<1>1. SaveStep(J) \in [Slots(J) \X Attempts(J) -> Slots(J)]
  BY SaveType DEF SaveStep
<1>2. old \in Slots(J)
  OBVIOUS
<1>3. N \in Nat /\ DOMAIN s = 1 .. N /\ (\A i \in 1 .. N : s[i] \in Attempts(J))
      /\ s \in [1 .. N -> Attempts(J)]
  BY LenProperties, ElementOfSeq
<1>4. \E f : f = Of(f)
  <2>1. PICK g \in [SUBSET (1 .. N) -> Slots(J)] :
          \A d \in SUBSET (1 .. N) :
             g[d] = IF d = {} THEN old ELSE SaveStep(J)[<<g[d \ {Max(d)}], s[Max(d)]>>]
    <3>1. \E g \in [SUBSET (1 .. N) -> Slots(J)] : FoldFunctionOf(SaveStep(J), old, s, N, g)
      BY ONLY <1>1, <1>2, <1>3, FoldExists
    <3>2. QED
      BY <3>1 DEF FoldFunctionOf
  <2>2. ASSUME NEW d \in SUBSET (1 .. N)
        PROVE  g[d] = IF d = {} THEN old ELSE Save(g[d \ {Max(d)}], s[Max(d)])
    <3>1. CASE d = {}
      BY <2>1, <3>1
    <3>2. CASE d # {}
      <4>1. Max(d) \in 1 .. N
        BY <1>3, <3>2, MaxIsGreatest
      <4>2. g[d \ {Max(d)}] \in Slots(J) /\ s[Max(d)] \in Attempts(J)
        BY <1>3, <4>1
      <4>3. SaveStep(J)[<<g[d \ {Max(d)}], s[Max(d)]>>] = Save(g[d \ {Max(d)}], s[Max(d)])
        BY <4>2 DEF SaveStep
      <4>4. QED
        BY <2>1, <3>2, <4>3
    <3>3. QED
      BY <3>1, <3>2
  <2>3. g = [d \in SUBSET (1 .. N) |-> g[d]]
    OBVIOUS
  <2>4. g = Of(g)
    BY <1>3, <2>2, <2>3
  <2>5. QED
    BY <2>4
<1>5. iter = Of(iter)
  BY <1>4
<1>6. FoldLeft(Save, old, s) = iter[1 .. N]
  BY <1>3 DEF FoldLeft, MapThenFoldSet
<1> HIDE DEF iter
<1>7. \A d \in SUBSET (1 .. N) :
        iter[d] = IF d = {} THEN old ELSE Save(iter[d \ {Max(d)}], s[Max(d)])
  BY <1>3, <1>5
<1>8. iter[1 .. 0] = old
  <2>1. 1 .. 0 = {} /\ 1 .. 0 \in SUBSET (1 .. N)
    OBVIOUS
  <2>2. QED
    BY <1>7, <2>1
<1>9. ASSUME NEW n \in 1 .. N, iter[1 .. n - 1] \in Slots(J)
      PROVE  iter[1 .. n] = SaveStep(J)[<<iter[1 .. n - 1], s[n]>>]
  <2>1. Max(1 .. n) = n /\ (1 .. n) \ {n} = 1 .. n - 1
    BY MaxOfInterval
  <2>2. 1 .. n \in SUBSET (1 .. N) /\ 1 .. n # {}
    <3>1. n \in 1 .. n /\ \A i \in 1 .. n : i \in 1 .. N
      BY <1>3
    <3>2. QED
      BY <3>1
  <2>3. iter[1 .. n] = Save(iter[1 .. n - 1], s[n])
    BY <1>7, <2>1, <2>2
  <2>4. QED
    BY <1>3, <1>9, <2>3 DEF SaveStep
<1>10. Folding(Slots(J), SaveStep(J), old, s, iter[1 .. Len(s)])
  <2>1. \A n \in 1 .. Len(s) : iter[1 .. n - 1] \in Slots(J)
                               => iter[1 .. n] = SaveStep(J)[<<iter[1 .. n - 1], s[n]>>]
    BY <1>9
  <2>2. QED
    BY ONLY <1>1, <1>2, <1>8, <2>1, ChosenFolds
<1>11. QED
  BY <1>6, <1>10

\* However often a record is saved, and at whichever of its steps a save fails or dies with its
\* process: what is read back is the record of the last save that returned, or of a later
\* one (write_atomically, read_job).
THEOREM AnyRecordSurvives ==
    ASSUME NEW J, NEW old \in Slots(J), NEW saves \in Seq(Attempts(J))
    PROVE  RecordSurvives(old, saves)
<1> DEFINE N == Len(saves)
           Done(i) == Saved(saves[i].k, saves[i].ends)
           Later(m, n) == {saves[i].job : i \in m .. n}
<1>1. N \in Nat /\ DOMAIN saves = 1 .. N /\ \A i \in 1 .. N : saves[i] \in Attempts(J)
  BY LenProperties, ElementOfSeq
<1>2. PICK h \in [0 .. N -> Slots(J)] :
         /\ h[0] = old /\ AfterSaves(old, saves) = h[N]
         /\ \A n \in 1 .. N : h[n] = SaveStep(J)[<<h[n - 1], saves[n]>>]
  BY SavesFold DEF Folding, AfterSaves
<1>3. ASSUME NEW n \in 0 .. N - 1
      PROVE  /\ h[n + 1].state \in {h[n].state, saves[n + 1].job}
             /\ Done(n + 1) => h[n + 1].state = saves[n + 1].job
  <2>1. n \in 0 .. N /\ n + 1 \in 1 .. N /\ n + 1 - 1 = n
    BY <1>1
  <2>2. h[n] \in Slots(J) /\ saves[n + 1] \in Attempts(J)
    BY <1>1, <1>2, <2>1
  <2>3. h[n + 1] = SaveStep(J)[<<h[n], saves[n + 1]>>]
    BY <1>2, <2>1
  <2>4. h[n + 1] = Save(h[n], saves[n + 1])
    BY <2>2, <2>3 DEF SaveStep
  <2> DEFINE v == saves[n + 1]
  <2> HIDE DEF v
  <2>5. Save(h[n], v).state = IF v.k = 4 /\ v.ends # "fails" THEN v.job ELSE h[n].state
    BY DEF Save, WriteAtomically
  <2>6. Saved(v.k, v.ends) => v.k = 4 /\ v.ends # "fails"
    BY DEF Saved
  <2>7. QED
    BY <2>4, <2>5, <2>6 DEF v
<1> HIDE DEF Done
<1> DEFINE Ok(n) == /\ h[n].state \in {old.state} \cup Later(1, n)
                    /\ \A m \in 1 .. n : Done(m) => h[n].state \in Later(m, n)
           T == {n \in 0 .. N : Ok(n)}
<1>4. 0 \in T
  BY <1>1, <1>2
<1>5. ASSUME NEW n \in 0 .. N - 1, n \in T PROVE n + 1 \in T
  <2> DEFINE v == h[n + 1].state
             o == h[n].state
             j == saves[n + 1].job
  <2>1. n \in Nat /\ n + 1 \in 0 .. N
    BY <1>1
  <2>2. Ok(n)
    BY <1>5
  <2>3. \A m \in 1 .. n + 1 : j \in Later(m, n + 1) /\ Later(m, n) \subseteq Later(m, n + 1)
    <3>1. ASSUME NEW m \in 1 .. n + 1 PROVE n + 1 \in m .. n + 1 /\ m .. n \subseteq m .. n + 1
      BY <2>1
    <3>2. QED
      BY <3>1
  <2>4. v \in {o, j} /\ (Done(n + 1) => v = j)
    BY <1>3
  <2>5. o \in {old.state} \cup Later(1, n) /\ \A m \in 1 .. n : Done(m) => o \in Later(m, n)
    BY <2>2
  <2> HIDE DEF v, o, j, Later, T
  <2>6. 1 \in 1 .. n + 1
    BY <2>1
  <2>7. v \in {old.state} \cup Later(1, n + 1)
    BY <2>3, <2>4, <2>5, <2>6
  <2>8. ASSUME NEW m \in 1 .. n + 1, Done(m) PROVE v \in Later(m, n + 1)
    <3>1. CASE m = n + 1
      BY <2>3, <2>4, <2>8, <3>1
    <3>2. CASE m # n + 1
      <4>1. m \in 1 .. n
        BY <2>1, <3>2
      <4>2. o \in Later(m, n + 1)
        BY <2>3, <2>5, <2>8, <4>1
      <4>3. QED
        BY <2>3, <2>4, <4>2
    <3>3. QED
      BY <3>1, <3>2
  <2>9. Ok(n + 1)
    BY <2>7, <2>8 DEF v
  <2>10. QED
    BY <2>1, <2>9 DEF T
<1>6. \A n \in 0 .. N : n \in T
  <2> HIDE DEF T
  <2>1. QED
    BY <1>1, <1>4, <1>5, SetInductionUpTo
<1>7. Ok(N)
  <2>1. N \in 0 .. N
    BY <1>1
  <2> HIDE DEF Ok
  <2>2. QED
    BY <1>6, <2>1
<1>8. \A m \in 1 .. N + 1 : Later(m, N) = {saves[i].job : i \in {l \in DOMAIN saves : l >= m}}
  <2>1. ASSUME NEW m \in 1 .. N + 1 PROVE m .. N = {l \in DOMAIN saves : l >= m}
    BY <1>1
  <2>2. QED
    BY <2>1
<1> HIDE DEF Later
<1>9. ReadJob(AfterSaves(old, saves)) = h[N].state
  BY <1>2 DEF ReadJob
<1>10. \A m \in 1 .. N : m \in 1 .. N + 1
  BY <1>1
<1>11. 1 \in 1 .. N + 1
  BY <1>1
<1>12. QED
  BY <1>1, <1>7, <1>8, <1>9, <1>10, <1>11 DEF RecordSurvives, Done

LEMMA RecordsHold == RecordsSurviveWrites
<1> DEFINE queued == Record(1, "QUEUED", TRUE, 1, 1)
           paused == Record(1, "PAUSED", TRUE, 1, 2)
           accepted == Record(1, "ACCEPTED", TRUE, 1, 3)
           old == [state |-> queued, temporary |-> 0]
           J == {queued, paused, accepted}
<1>1. old \in Slots(J)
  BY DEF Slots
<1>2. \A job \in J : \A save \in Saves(job) : save \in Attempts(J)
  <2> HIDE DEF J
  <2>1. SUFFICES ASSUME NEW job \in J, NEW save \in Saves(job) PROVE save \in Attempts(J)
    OBVIOUS
  <2>2. CASE save \in {[job |-> job, k |-> k, ends |-> ends] : k \in 0 .. 3, ends \in {"fails", "dies"}}
    <3>1. PICK k \in 0 .. 3, ends \in {"fails", "dies"} : save = [job |-> job, k |-> k, ends |-> ends]
      BY <2>2
    <3>2. k \in 0 .. 4 /\ ends \in {"returns", "fails", "dies"}
      OBVIOUS
    <3>3. QED
      BY <3>1, <3>2 DEF Attempts
  <2>3. CASE save \in {[job |-> job, k |-> 4, ends |-> ends] : ends \in {"returns", "fails", "dies"}}
    <3>1. PICK ends \in {"returns", "fails", "dies"} : save = [job |-> job, k |-> 4, ends |-> ends]
      BY <2>3
    <3>2. 4 \in 0 .. 4
      OBVIOUS
    <3>3. QED
      BY <3>1, <3>2 DEF Attempts
  <2>4. QED
    BY <2>1, <2>2, <2>3 DEF Saves
<1>3. paused \in J /\ accepted \in J
  OBVIOUS
<1>4. ASSUME NEW one \in Saves(paused), NEW two \in Saves(accepted) PROVE RecordSurvives(old, <<one, two>>)
  <2> HIDE DEF queued, paused, accepted, old, J
  <2>1. one \in Attempts(J) /\ two \in Attempts(J)
    BY <1>2, <1>3
  <2>2. <<one, two>> \in Seq(Attempts(J))
    BY <2>1
  <2> DEFINE saves == <<one, two>>
  <2> HIDE DEF saves
  <2>3. saves \in Seq(Attempts(J))
    BY <2>2 DEF saves
  <2>4. RecordSurvives(old, saves)
    BY <1>1, <2>3, AnyRecordSurvives
  <2>5. QED
    BY <2>4 DEF saves
<1>5. QED
  BY <1>4 DEF RecordsSurviveWrites

\* What the processes of a home find there: what `lya jobs` lists as resumable is what a
\* resume accepts, and no record is lost to a write that was cut short.
THEOREM JobsAreAlwaysFound == Spec => []JobsAreFound
<1>1. JobsAreFound
  BY ListingHolds, RecordsHold DEF JobsAreFound
<1>2. QED
  BY <1>1, PTL

-----------------------------------------------------------------------------
(* Command lines of any length.                                            *)

\* What a parser may have read of a line of arguments of K, by the options of g.
Scans(g, K) ==
    {s \in [ok : BOOLEAN, option : Valued(g) \cup {None}, flag : SUBSET g.flags,
            value : UNION {[D -> K] : D \in SUBSET Valued(g)}, words : Seq(K)] :
       \A o \in DOMAIN s.value : Acceptable(g, o, s.value[o])}

\* No option both stands alone and takes a value.
Told(g) == g.flags \cap Valued(g) = {}

ScanStep(g, K) == [p \in Scans(g, K) \X K |-> Argument(g, p[1], p[2])]

LEMMA NothingIsScanned ==
    ASSUME NEW g, NEW K
    PROVE  NothingScanned \in Scans(g, K)
<1>1. <<>> \in [{} -> K] /\ {} \in SUBSET Valued(g) /\ DOMAIN <<>> = {} /\ <<>> \in Seq(K)
  BY EmptySeq
<1>2. <<>> \in UNION {[D -> K] : D \in SUBSET Valued(g)}
  BY <1>1
<1>3. QED
  BY <1>1, <1>2 DEF NothingScanned, Scans

LEMMA ArgumentType ==
    ASSUME NEW g, NEW K, NEW s \in Scans(g, K), NEW t \in K, Told(g)
    PROVE  Argument(g, s, t) \in Scans(g, K)
<1> DEFINE V == UNION {[D -> K] : D \in SUBSET Valued(g)}
           W == [o \in DOMAIN s.value \cup {s.option} |-> IF o = s.option THEN t ELSE s.value[o]]
<1>1. /\ s.ok \in BOOLEAN /\ s.option \in Valued(g) \cup {None} /\ s.flag \in SUBSET g.flags
      /\ s.value \in V /\ s.words \in Seq(K)
      /\ \A o \in DOMAIN s.value : Acceptable(g, o, s.value[o])
  BY DEF Scans
<1>2. s = [ok |-> s.ok, option |-> s.option, flag |-> s.flag, value |-> s.value, words |-> s.words]
  BY DEF Scans
<1>3. ASSUME s.option # None, Acceptable(g, s.option, t)
      PROVE  W \in V /\ \A o \in DOMAIN W : Acceptable(g, o, W[o])
  <2>1. PICK D \in SUBSET Valued(g) : s.value \in [D -> K]
    BY <1>1
  <2>2. D \cup {s.option} \in SUBSET Valued(g)
    BY <1>1, <1>3
  <2>3. W \in [D \cup {s.option} -> K]
    BY <2>1
  <2>4. W \in V
    BY <2>2, <2>3
  <2>5. \A o \in DOMAIN W : Acceptable(g, o, W[o])
    BY <1>1, <1>3
  <2>6. QED
    BY <2>4, <2>5
<1> HIDE DEF V
<1>4. CASE ~s.ok
  BY <1>4 DEF Argument
<1>5. CASE s.ok /\ s.option # None
  <2>1. CASE Acceptable(g, s.option, t)
    <3>1. Argument(g, s, t) = [ok |-> s.ok, option |-> None, flag |-> s.flag, value |-> W,
                               words |-> s.words]
      BY <1>2, <1>5, <2>1 DEF Argument
    <3> HIDE DEF W
    <3>2. QED
      BY <1>1, <1>3, <1>5, <2>1, <3>1 DEF Scans, V
  <2>2. CASE ~Acceptable(g, s.option, t)
    <3>1. Argument(g, s, t) = [ok |-> FALSE, option |-> s.option, flag |-> s.flag,
                               value |-> s.value, words |-> s.words]
      BY <1>2, <1>5, <2>2 DEF Argument
    <3>2. QED
      BY <1>1, <3>1 DEF Scans, V
  <2>3. QED
    BY <2>1, <2>2
<1>6. CASE s.ok /\ s.option = None
  <2>1. CASE t \in g.flags
    <3>1. Argument(g, s, t) = [ok |-> s.ok, option |-> s.option, flag |-> s.flag \cup {t},
                               value |-> s.value, words |-> s.words]
      BY <1>2, <1>6, <2>1 DEF Argument, Told
    <3>2. QED
      BY <1>1, <2>1, <3>1 DEF Scans, V
  <2>2. CASE t \notin g.flags /\ t \in Valued(g)
    <3>1. Argument(g, s, t) = [ok |-> s.ok, option |-> t, flag |-> s.flag,
                               value |-> s.value, words |-> s.words]
      BY <1>2, <1>6, <2>2 DEF Argument
    <3>2. QED
      BY <1>1, <2>2, <3>1 DEF Scans, V
  <2>3. CASE t \notin g.flags /\ t \notin Valued(g)
    <3>1. Append(s.words, t) \in Seq(K)
      BY <1>1, AppendProperties
    <3>2. \/ Argument(g, s, t) = [ok |-> FALSE, option |-> s.option, flag |-> s.flag,
                                  value |-> s.value, words |-> s.words]
          \/ Argument(g, s, t) = [ok |-> s.ok, option |-> s.option, flag |-> s.flag,
                                  value |-> s.value, words |-> Append(s.words, t)]
      BY <1>2, <1>6, <2>3 DEF Argument
    <3>3. CASE Argument(g, s, t).ok
      <4>1. Argument(g, s, t) = [ok |-> s.ok, option |-> s.option, flag |-> s.flag,
                                 value |-> s.value, words |-> Append(s.words, t)]
        BY <3>2, <3>3
      <4>2. QED
        BY <1>1, <3>1, <4>1 DEF Scans, V
    <3>4. CASE ~Argument(g, s, t).ok
      <4>1. Argument(g, s, t) = [ok |-> FALSE, option |-> s.option, flag |-> s.flag,
                                 value |-> s.value, words |-> s.words]
        BY <1>6, <3>2, <3>4
      <4>2. QED
        BY <1>1, <4>1 DEF Scans, V
    <3>5. QED
      BY <3>3, <3>4
  <2>4. QED
    BY <2>1, <2>2, <2>3
<1>7. QED
  BY <1>1, <1>4, <1>5, <1>6

LEMMA ScannedFold ==
    ASSUME NEW g, NEW K, NEW line \in Seq(K), Told(g)
    PROVE  Folding(Scans(g, K), ScanStep(g, K), NothingScanned, line, Scanned(g, line))
<1> DEFINE V == Scans(g, K)
           base == NothingScanned
           N == Len(line)
           Of(f) == [d \in SUBSET (DOMAIN line) |->
                       IF d = {} THEN base ELSE Argument(g, f[d \ {Max(d)}], line[Max(d)])]
           iter == CHOOSE f : f = Of(f)
<1>1. ScanStep(g, K) \in [V \X K -> V]
  BY ArgumentType DEF ScanStep
<1>2. base \in V
  BY NothingIsScanned
<1>3. N \in Nat /\ DOMAIN line = 1 .. N /\ (\A i \in 1 .. N : line[i] \in K)
      /\ line \in [1 .. N -> K]
  BY LenProperties, ElementOfSeq
<1>4. Scanned(g, line) = iter[1 .. N]
  BY <1>3 DEF FoldLeft, MapThenFoldSet, Scanned
<1> HIDE DEF V, base
<1>5. \E f : f = Of(f)
  <2>1. PICK f \in [SUBSET (1 .. N) -> V] :
          \A d \in SUBSET (1 .. N) :
             f[d] = IF d = {} THEN base ELSE ScanStep(g, K)[<<f[d \ {Max(d)}], line[Max(d)]>>]
    <3>1. \E f \in [SUBSET (1 .. N) -> V] : FoldFunctionOf(ScanStep(g, K), base, line, N, f)
      BY ONLY <1>1, <1>2, <1>3, FoldExists
    <3>2. QED
      BY <3>1 DEF FoldFunctionOf
  <2>2. ASSUME NEW d \in SUBSET (1 .. N)
        PROVE  f[d] = IF d = {} THEN base ELSE Argument(g, f[d \ {Max(d)}], line[Max(d)])
    <3>1. CASE d = {}
      BY <2>1, <3>1
    <3>2. CASE d # {}
      <4>1. Max(d) \in 1 .. N
        BY <1>3, <3>2, MaxIsGreatest
      <4>2. f[d \ {Max(d)}] \in V /\ line[Max(d)] \in K
        BY <1>3, <4>1
      <4>3. ScanStep(g, K)[<<f[d \ {Max(d)}], line[Max(d)]>>]
              = Argument(g, f[d \ {Max(d)}], line[Max(d)])
        BY <4>2 DEF ScanStep, V
      <4>4. QED
        BY <2>1, <3>2, <4>3
    <3>3. QED
      BY <3>1, <3>2
  <2>3. f = [d \in SUBSET (1 .. N) |-> f[d]]
    OBVIOUS
  <2>4. f = Of(f)
    BY <1>3, <2>2, <2>3
  <2>5. QED
    BY <2>4
<1>6. iter = Of(iter)
  BY <1>5
<1> HIDE DEF iter
<1>7. \A d \in SUBSET (1 .. N) :
        iter[d] = IF d = {} THEN base ELSE Argument(g, iter[d \ {Max(d)}], line[Max(d)])
  BY <1>3, <1>6
<1>8. iter[1 .. 0] = base
  <2>1. 1 .. 0 = {} /\ 1 .. 0 \in SUBSET (1 .. N)
    OBVIOUS
  <2>2. QED
    BY <1>7, <2>1
<1>9. ASSUME NEW n \in 1 .. N, iter[1 .. n - 1] \in V
      PROVE  iter[1 .. n] = ScanStep(g, K)[<<iter[1 .. n - 1], line[n]>>]
  <2>1. Max(1 .. n) = n /\ (1 .. n) \ {n} = 1 .. n - 1
    BY MaxOfInterval
  <2>2. 1 .. n \in SUBSET (1 .. N) /\ 1 .. n # {}
    <3>1. n \in 1 .. n /\ \A i \in 1 .. n : i \in 1 .. N
      BY <1>3
    <3>2. QED
      BY <3>1
  <2>3. iter[1 .. n] = Argument(g, iter[1 .. n - 1], line[n])
    BY <1>7, <2>1, <2>2
  <2>4. QED
    BY <1>3, <1>9, <2>3 DEF ScanStep, V
<1>10. Folding(V, ScanStep(g, K), base, line, iter[1 .. Len(line)])
  <2>1. \A n \in 1 .. Len(line) : iter[1 .. n - 1] \in V
                                  => iter[1 .. n] = ScanStep(g, K)[<<iter[1 .. n - 1], line[n]>>]
    BY <1>9
  <2>2. QED
    BY ONLY <1>1, <1>2, <1>8, <2>1, ChosenFolds
<1>11. QED
  BY <1>4, <1>10 DEF V, base

\* A line is read one argument after another.
LEMMA ScannedType ==
    ASSUME NEW g, NEW K, NEW line \in Seq(K), Told(g)
    PROVE  Scanned(g, line) \in Scans(g, K)
BY ScannedFold, FoldingType

LEMMA ScannedEmpty ==
    ASSUME NEW g, Told(g)
    PROVE  Scanned(g, <<>>) = NothingScanned
<1>1. <<>> \in Seq({})
  BY EmptySeq
<1> DEFINE line == <<>>
<1>2. Folding(Scans(g, {}), ScanStep(g, {}), NothingScanned, line, Scanned(g, line))
  <2> HIDE DEF line
  <2>1. line \in Seq({})
    BY <1>1 DEF line
  <2>2. QED
    BY <2>1, ScannedFold
<1>3. QED
  BY <1>2, FoldingEmpty

LEMMA ScannedAppend ==
    ASSUME NEW g, NEW K, NEW line \in Seq(K), NEW t \in K, Told(g)
    PROVE  Scanned(g, Append(line, t)) = Argument(g, Scanned(g, line), t)
<1> DEFINE v == Scanned(g, line)
           w == Scanned(g, Append(line, t))
<1>1. Append(line, t) \in Seq(K)
  BY AppendProperties
<1>2. Folding(Scans(g, K), ScanStep(g, K), NothingScanned, line, v)
  BY ScannedFold
<1>3. Folding(Scans(g, K), ScanStep(g, K), NothingScanned, Append(line, t), w)
  BY <1>1, ScannedFold
<1>4. v \in Scans(g, K)
  BY ScannedType
<1> HIDE DEF v, w
<1>5. w = ScanStep(g, K)[<<v, t>>]
  BY <1>2, <1>3, FoldingAppend
<1>6. QED
  BY <1>4, <1>5 DEF ScanStep, v, w

LEMMA GrammarsAreTold ==
    /\ Told(RunGrammar) /\ Told(SchedulerGrammar) /\ Told(SubmitGrammar) /\ Told(DaemonGrammar)
    /\ Told(ResumeGrammar) /\ Told(AttachGrammar) /\ Told(JobsGrammar) /\ Told(ExecutorGrammar)
BY DEF Told, Valued, RunGrammar, SchedulerGrammar, SubmitGrammar, DaemonGrammar, ResumeGrammar,
       AttachGrammar, JobsGrammar, ExecutorGrammar

\* A line that gives one option a value, and one with one more argument.
LEMMA ScannedOne ==
    ASSUME NEW g, NEW t, Told(g)
    PROVE  Scanned(g, <<t>>) = Argument(g, NothingScanned, t)
<1> DEFINE e == <<>>
<1>1. e \in Seq({t}) /\ <<t>> = Append(e, t)
  BY EmptySeq
<1>2. Scanned(g, e) = NothingScanned
  BY ScannedEmpty
<1> HIDE DEF e
<1>3. Scanned(g, Append(e, t)) = Argument(g, Scanned(g, e), t)
  BY <1>1, ScannedAppend
<1>4. QED
  BY <1>1, <1>2, <1>3

LEMMA ScannedTwo ==
    ASSUME NEW g, NEW t, NEW u, Told(g)
    PROVE  Scanned(g, <<t, u>>) = Argument(g, Argument(g, NothingScanned, t), u)
<1> DEFINE e == <<t>>
           K == {t, u}
<1>1. e \in Seq(K) /\ <<t, u>> = Append(e, u) /\ u \in K
  OBVIOUS
<1>2. Scanned(g, e) = Argument(g, NothingScanned, t)
  BY ScannedOne
<1> HIDE DEF e, K
<1>3. Scanned(g, Append(e, u)) = Argument(g, Scanned(g, e), u)
  BY <1>1, ScannedAppend
<1>4. QED
  BY <1>1, <1>2, <1>3

LEMMA DisplayReads ==
    ASSUME NEW t \in DOMAIN Reads
    PROVE  /\ Display(Reads[t]) \in DOMAIN Reads \ {"+2"}
           /\ Reads[Display(Reads[t])] = Reads[t]
<1>1. \E u \in DOMAIN Reads \ {"+2"} : Reads[u] = Reads[t]
  BY DEF Reads
<1>2. QED
  BY <1>1 DEF Display

\* The size that a daemon was asked for is positive, and what it reads as.
Sizes == {Reads[t] : t \in {u \in DOMAIN Reads : Reads[u] > 0}}

LEMMA SizeIs ==
    ASSUME NEW K, NEW s \in Scans(DaemonGrammar, K)
    PROVE  Number(s, "--max-concurrent", DEFAULT_MAX_CONCURRENT) \in Sizes
<1>1. CASE "--max-concurrent" \in DOMAIN s.value
  <2>1. Acceptable(DaemonGrammar, "--max-concurrent", s.value["--max-concurrent"])
    BY <1>1 DEF Scans
  <2>2. s.value["--max-concurrent"] \in {u \in DOMAIN Reads : Reads[u] > 0}
    BY <2>1 DEF Acceptable, DaemonGrammar
  <2>3. QED
    BY <1>1, <2>2 DEF Number, Sizes
<1>2. CASE "--max-concurrent" \notin DOMAIN s.value
  <2>1. "2" \in DOMAIN Reads /\ Reads["2"] = 2
    BY DEF Reads
  <2>2. QED
    BY <1>2, <2>1 DEF Number, Sizes, DEFAULT_MAX_CONCURRENT
<1>3. QED
  BY <1>1, <1>2

\* Changing a scan.
LEMMA ScanFields ==
    ASSUME NEW a, NEW b, NEW c, NEW d, NEW e, NEW s, NEW x,
           s = [ok |-> a, option |-> b, flag |-> c, value |-> d, words |-> e]
    PROVE  /\ [s EXCEPT !.option = x] = [ok |-> a, option |-> x, flag |-> c, value |-> d, words |-> e]
           /\ [s EXCEPT !.flag = x] = [ok |-> a, option |-> b, flag |-> x, value |-> d, words |-> e]
           /\ [s EXCEPT !.words = x] = [ok |-> a, option |-> b, flag |-> c, value |-> d, words |-> x]
OBVIOUS

\* What the daemon reads of the arguments that are forwarded to it.
SizedScan(d, flags) ==
    [ok |-> TRUE, option |-> None, flag |-> flags,
     value |-> [o \in {"--max-concurrent"} |-> d], words |-> <<>>]

LEMMA SizeIsScanned ==
    ASSUME NEW d \in DOMAIN Reads, Reads[d] > 0
    PROVE  Scanned(DaemonGrammar, <<"--max-concurrent", d>>) = SizedScan(d, {})
<1>1. Argument(DaemonGrammar, NothingScanned, "--max-concurrent")
        = [ok |-> TRUE, option |-> "--max-concurrent", flag |-> {}, value |-> <<>>, words |-> <<>>]
  BY DEF Argument, NothingScanned, DaemonGrammar, Valued, None
<1> DEFINE s == [ok |-> TRUE, option |-> "--max-concurrent", flag |-> {}, value |-> <<>>, words |-> <<>>]
           w == [o \in DOMAIN s.value \cup {"--max-concurrent"} |->
                   IF o = "--max-concurrent" THEN d ELSE s.value[o]]
<1>2. Acceptable(DaemonGrammar, "--max-concurrent", d)
  BY DEF Acceptable, DaemonGrammar
<1>3. w = [o \in {"--max-concurrent"} |-> d]
  OBVIOUS
<1>4. s.ok /\ s.option = "--max-concurrent" /\ s.option # None
  BY DEF None
<1>5. Argument(DaemonGrammar, s, d) = [s EXCEPT !.option = None, !.value = w]
  <2> HIDE DEF s
  <2>1. QED
    BY <1>2, <1>4 DEF Argument
<1>6. [s EXCEPT !.option = None, !.value = w] = SizedScan(d, {})
  <2> DEFINE v == [o \in {"--max-concurrent"} |-> d]
  <2>1. w = v
    BY <1>3
  <2> HIDE DEF w, v
  <2> DEFINE e == <<>>
             yes == TRUE
  <2>2. s = [ok |-> yes, option |-> "--max-concurrent", flag |-> {}, value |-> e, words |-> e]
    OBVIOUS
  <2>3. SizedScan(d, {}) = [ok |-> yes, option |-> None, flag |-> {}, value |-> v, words |-> e]
    BY DEF SizedScan, v
  <2> HIDE DEF s, e, yes
  <2>4. [s EXCEPT !.option = None, !.value = v]
          = [ok |-> yes, option |-> None, flag |-> {}, value |-> v, words |-> e]
    <3> DEFINE r == [s EXCEPT !.option = None, !.value = v]
    <3>1. DOMAIN s = {"ok", "option", "flag", "value", "words"}
      BY <2>2
    <3>2. r = [f \in DOMAIN s |-> r[f]]
      OBVIOUS
    <3>3. r.ok = yes /\ r.option = None /\ r.flag = {} /\ r.value = v /\ r.words = e
      BY <2>2
    <3> HIDE DEF r
    <3>4. r = [ok |-> yes, option |-> None, flag |-> {}, value |-> v, words |-> e]
      BY <3>1, <3>2, <3>3
    <3>5. QED
      BY <3>4 DEF r
  <2>5. QED
    BY <2>1, <2>3, <2>4
<1> HIDE DEF s, w
<1>7. Scanned(DaemonGrammar, <<"--max-concurrent", d>>) = Argument(DaemonGrammar, s, d)
  <2>1. Argument(DaemonGrammar, NothingScanned, "--max-concurrent") = s
    BY <1>1 DEF s
  <2>2. Told(DaemonGrammar)
    BY GrammarsAreTold
  <2>3. Scanned(DaemonGrammar, <<"--max-concurrent", d>>)
          = Argument(DaemonGrammar, Argument(DaemonGrammar, NothingScanned, "--max-concurrent"), d)
    BY ONLY <2>2, ScannedTwo
  <2>4. QED
    BY <2>1, <2>3
<1>8. QED
  BY <1>5, <1>6, <1>7

LEMMA FlagIsScanned ==
    ASSUME NEW d, NEW flags, NEW f \in DaemonGrammar.flags
    PROVE  Argument(DaemonGrammar, SizedScan(d, flags), f) = SizedScan(d, flags \cup {f})
<1> DEFINE s == SizedScan(d, flags)
<1>1. s.ok /\ s.option = None /\ s.flag = flags
  BY DEF SizedScan
<1>2. f \in DaemonGrammar.flags /\ f \notin Valued(DaemonGrammar)
  BY GrammarsAreTold DEF Told
<1>3. [s EXCEPT !.flag = s.flag \cup {f}] = SizedScan(d, flags \cup {f})
  <2> DEFINE v == [o \in {"--max-concurrent"} |-> d]
             x == flags \cup {f}
             e == <<>>
             yes == TRUE
  <2>1. s = [ok |-> yes, option |-> None, flag |-> flags, value |-> v, words |-> e]
    BY DEF SizedScan
  <2>2. SizedScan(d, x) = [ok |-> yes, option |-> None, flag |-> x, value |-> v, words |-> e]
    BY DEF SizedScan
  <2>3. s.flag \cup {f} = x
    BY <2>1
  <2> HIDE DEF s, v, x, e, yes
  <2>4. [s EXCEPT !.flag = x] = [ok |-> yes, option |-> None, flag |-> x, value |-> v, words |-> e]
    BY ONLY <2>1, ScanFields
  <2>5. QED
    BY <2>2, <2>3, <2>4 DEF x
<1> HIDE DEF s
<1>4. Argument(DaemonGrammar, s, f) = [s EXCEPT !.flag = @ \cup {f}]
  BY <1>1, <1>2 DEF Argument
<1>5. QED
  BY <1>3, <1>4 DEF s

\* What `lya daemon run` reads of the arguments `lya daemon start` forwards.
ForwardedFlags(o) ==
    (IF o.resume_interrupted THEN {"--resume-interrupted"} ELSE {})
    \cup (IF o.recover_queued THEN {} ELSE {"--no-recover-queued"}) \cup {"--json"}

LEMMA ForwardedIs ==
    ASSUME NEW o, o.resume_interrupted \in BOOLEAN, o.recover_queued \in BOOLEAN,
           o.max_concurrent \in Sizes
    PROVE  \E d \in DOMAIN Reads :
              /\ Reads[d] = o.max_concurrent
              /\ Scanned(DaemonGrammar, Forwarded(o))
                   = SizedScan(d, ForwardedFlags(o))
<1> DEFINE d == Display(o.max_concurrent)
           K == DOMAIN Reads \cup DaemonGrammar.flags \cup {"--max-concurrent"}
           a == <<"--max-concurrent", d>>
           b == IF o.resume_interrupted THEN Append(a, "--resume-interrupted") ELSE a
           c == IF ~o.recover_queued THEN Append(b, "--no-recover-queued") ELSE b
           e == Append(c, "--json")
           f == IF o.resume_interrupted THEN {"--resume-interrupted"} ELSE {}
           g == f \cup (IF o.recover_queued THEN {} ELSE {"--no-recover-queued"})
<1>1. d \in DOMAIN Reads /\ Reads[d] = o.max_concurrent /\ Reads[d] > 0
  BY DisplayReads DEF Sizes
<1> HIDE DEF d
<1>2. a \in Seq(K)
  BY <1>1
<1>3. /\ "--resume-interrupted" \in K /\ "--no-recover-queued" \in K /\ "--json" \in K
      /\ "--resume-interrupted" \in DaemonGrammar.flags
      /\ "--no-recover-queued" \in DaemonGrammar.flags /\ "--json" \in DaemonGrammar.flags
  BY DEF DaemonGrammar
<1>4. Scanned(DaemonGrammar, a) = SizedScan(d, {})
  BY <1>1, SizeIsScanned
<1> HIDE DEF a, K
<1>5. b \in Seq(K)
  BY <1>2, <1>3, AppendProperties
<1>6. c \in Seq(K)
  <2> HIDE DEF b
  <2>1. QED
    BY <1>3, <1>5, AppendProperties
<1>7. Told(DaemonGrammar)
  BY GrammarsAreTold
<1>8. ASSUME NEW s \in Seq(K), NEW flags, NEW t \in K, t \in DaemonGrammar.flags,
             Scanned(DaemonGrammar, s) = SizedScan(d, flags)
      PROVE  Scanned(DaemonGrammar, Append(s, t)) = SizedScan(d, flags \cup {t})
  <2>1. Scanned(DaemonGrammar, Append(s, t)) = Argument(DaemonGrammar, Scanned(DaemonGrammar, s), t)
    BY <1>7, <1>8, ScannedAppend
  <2>2. QED
    BY <2>1, <1>8, FlagIsScanned
<1>9. Scanned(DaemonGrammar, b) = SizedScan(d, f)
  <2>1. CASE o.resume_interrupted
    <3>1. Scanned(DaemonGrammar, Append(a, "--resume-interrupted"))
            = SizedScan(d, {} \cup {"--resume-interrupted"})
      BY <1>2, <1>3, <1>4, <1>8
    <3>2. {} \cup {"--resume-interrupted"} = f
      BY <2>1
    <3>3. QED
      BY <2>1, <3>1, <3>2
  <2>2. CASE ~o.resume_interrupted
    BY <1>4, <2>2
  <2>3. QED
    BY <2>1, <2>2
<1> HIDE DEF b, f
<1>10. Scanned(DaemonGrammar, c) = SizedScan(d, g)
  <2>1. CASE ~o.recover_queued
    <3>1. Scanned(DaemonGrammar, Append(b, "--no-recover-queued"))
            = SizedScan(d, f \cup {"--no-recover-queued"})
      BY <1>3, <1>5, <1>8, <1>9
    <3>2. QED
      BY <2>1, <3>1
  <2>2. CASE o.recover_queued
    <3>1. f \cup {} = f
      OBVIOUS
    <3>2. QED
      BY <1>9, <2>2, <3>1
  <2>3. QED
    BY <2>1, <2>2
<1> HIDE DEF c, g
<1>11. Scanned(DaemonGrammar, e) = SizedScan(d, g \cup {"--json"})
  BY <1>3, <1>6, <1>8, <1>10
<1>12. Forwarded(o) = e
  <2>1. Forwarded(o) = ((a \o (IF o.resume_interrupted THEN <<"--resume-interrupted">> ELSE <<>>))
                        \o (IF ~o.recover_queued THEN <<"--no-recover-queued">> ELSE <<>>))
                       \o <<"--json">>
    BY DEF Forwarded, a, d
  <2>2. a \o (IF o.resume_interrupted THEN <<"--resume-interrupted">> ELSE <<>>) = b
    BY <1>2, <1>3, AppendIsConcat, ConcatEmptySeq DEF b
  <2>3. b \o (IF ~o.recover_queued THEN <<"--no-recover-queued">> ELSE <<>>) = c
    BY <1>3, <1>5, AppendIsConcat, ConcatEmptySeq DEF c
  <2>4. c \o <<"--json">> = e
    BY <1>3, <1>6, AppendIsConcat
  <2>5. QED
    BY <2>1, <2>2, <2>3, <2>4
<1> HIDE DEF e
<1>13. Scanned(DaemonGrammar, Forwarded(o)) = SizedScan(d, g \cup {"--json"})
  BY <1>11, <1>12
<1>14. QED
  BY <1>1, <1>13 DEF g, f, ForwardedFlags

\* Whatever line starts the daemon: the arguments that `lya daemon start` forwards are accepted
\* and mean what the user asked for (daemon_options, start_detached).
THEOREM AnyStartIsForwarded ==
    ASSUME NEW K, NEW line \in Seq(K)
    PROVE  ForwardsTheSame(line)
<1> DEFINE s == Scan(DaemonGrammar, line)
           o == ParseDaemon(line)
           p == ParseDaemon(Forwarded(o))
<1>1. SUFFICES ASSUME o # Refused, ~o.explicit_output
               PROVE  p = [o EXCEPT !.output = "json", !.explicit_output = TRUE]
  BY DEF ForwardsTheSame
<1>2. s.ok /\ o = [max_concurrent |-> Number(s, "--max-concurrent", DEFAULT_MAX_CONCURRENT),
            resume_interrupted |-> "--resume-interrupted" \in s.flag,
            recover_queued |-> "--no-recover-queued" \notin s.flag,
            output |-> Output(s),
            explicit_output |-> {"--verbose", "--json"} \cap s.flag # {}]
  BY <1>1 DEF ParseDaemon
<1>3. Scanned(DaemonGrammar, line) \in Scans(DaemonGrammar, K)
  BY GrammarsAreTold, ScannedType
<1>4. s.value = Scanned(DaemonGrammar, line).value
  BY <1>3 DEF Scan, Complete, Scans
<1>5. o.max_concurrent \in Sizes
  BY <1>2, <1>3, <1>4, SizeIs DEF Number
<1>6. PICK d \in DOMAIN Reads :
         /\ Reads[d] = o.max_concurrent
         /\ Scanned(DaemonGrammar, Forwarded(o))
              = SizedScan(d, ForwardedFlags(o))
  <2>1. o.resume_interrupted \in BOOLEAN /\ o.recover_queued \in BOOLEAN
    BY <1>2
  <2> HIDE DEF o, p, s
  <2>2. QED
    BY ONLY <1>5, <2>1, ForwardedIs
<1> DEFINE f == ForwardedFlags(o)
           r == Scan(DaemonGrammar, Forwarded(o))
<1>7. r.ok /\ r.flag = f /\ r.value = [x \in {"--max-concurrent"} |-> d]
  <2> HIDE DEF o, p, s
  <2>1. r = Complete(SizedScan(d, f))
    BY <1>6 DEF Scan
  <2>2. ~({"--verbose", "--json"} \subseteq f)
    BY DEF ForwardedFlags
  <2> HIDE DEF f, r
  <2>3. QED
    BY <2>1, <2>2 DEF Complete, SizedScan
<1> DEFINE n == o.max_concurrent
           i == o.resume_interrupted
           q == o.recover_queued
<1>8. o = [max_concurrent |-> n, resume_interrupted |-> i, recover_queued |-> q,
           output |-> o.output, explicit_output |-> o.explicit_output]
  BY <1>2
<1>9. Number(r, "--max-concurrent", DEFAULT_MAX_CONCURRENT) = n
  <2> HIDE DEF o, p, s, r, f
  <2>1. QED
    BY <1>6, <1>7 DEF Number
<1>10. ("--resume-interrupted" \in f) = i /\ ("--no-recover-queued" \notin f) = q
       /\ "--json" \in f
  <2>1. o.resume_interrupted \in BOOLEAN /\ o.recover_queued \in BOOLEAN
    BY <1>2
  <2> HIDE DEF o, p, s, r
  <2>2. QED
    BY <2>1 DEF ForwardedFlags
<1>11. p = [max_concurrent |-> Number(r, "--max-concurrent", DEFAULT_MAX_CONCURRENT),
            resume_interrupted |-> "--resume-interrupted" \in r.flag,
            recover_queued |-> "--no-recover-queued" \notin r.flag,
            output |-> Output(r),
            explicit_output |-> {"--verbose", "--json"} \cap r.flag # {}]
  <2> HIDE DEF o, s, f
  <2>1. QED
    BY <1>7 DEF ParseDaemon
<1> HIDE DEF o, s, p, r, f
<1>12. Output(r) = "json" /\ {"--verbose", "--json"} \cap r.flag # {}
  BY <1>7, <1>10 DEF Output
<1>13. p = [max_concurrent |-> n, resume_interrupted |-> i, recover_queued |-> q,
            output |-> "json", explicit_output |-> TRUE]
  BY <1>7, <1>9, <1>10, <1>11, <1>12
<1> DEFINE out == o.output
           exp == o.explicit_output
<1> HIDE DEF n, i, q, out, exp
<1>14. o = [max_concurrent |-> n, resume_interrupted |-> i, recover_queued |-> q,
            output |-> out, explicit_output |-> exp]
  BY <1>8 DEF n, i, q, out, exp
<1> DEFINE wanted == [o EXCEPT !.output = "json", !.explicit_output = TRUE]
<1>16. DOMAIN o = {"max_concurrent", "resume_interrupted", "recover_queued", "output", "explicit_output"}
  BY <1>14
<1>17. wanted = [x \in DOMAIN o |-> wanted[x]]
  OBVIOUS
<1>18. wanted.max_concurrent = n /\ wanted.resume_interrupted = i /\ wanted.recover_queued = q
       /\ wanted.output = "json" /\ wanted.explicit_output = TRUE
  BY <1>14
<1> HIDE DEF wanted
<1>19. p = wanted
  BY <1>13, <1>16, <1>17, <1>18
<1>20. QED
  BY <1>19 DEF wanted

\* Whatever is typed after `lya control <job>`: what the daemon delivers is what the same words
\* give at the job's terminal (parse_control, parse_control_command, ControlRequest::to_command).
THEOREM AnySentIsTyped ==
    ASSUME NEW K, NEW word, NEW rest \in Seq(K), NEW limit
    PROVE  SendsTheTyped(word, rest, limit)
<1> DEFINE L == K \cup {"job", word}
           first == <<"job", word>>
           args == first \o rest
<1>1. first \in Seq(L) /\ Len(first) = 2 /\ first[1] = "job" /\ first[2] = word
  OBVIOUS
<1>2. rest \in Seq(L) /\ Len(rest) \in Nat
  OBVIOUS
<1> HIDE DEF first, L
<1>3. /\ args \in Seq(L) /\ Len(args) = 2 + Len(rest) /\ args[1] = "job" /\ args[2] = word
      /\ \A i \in 1 .. Len(rest) : args[2 + i] = rest[i]
  <2>1. args \in Seq(L) /\ Len(args) = 2 + Len(rest)
        /\ \A i \in 1 .. Len(args) : args[i] = IF i <= 2 THEN first[i] ELSE rest[i - 2]
    <3>1. /\ args \in Seq(L) /\ Len(args) = Len(first) + Len(rest)
          /\ \A i \in 1 .. Len(first) + Len(rest) :
                args[i] = IF i <= Len(first) THEN first[i] ELSE rest[i - Len(first)]
      BY <1>1, <1>2, ConcatProperties
    <3> HIDE DEF args
    <3>2. QED
      BY <1>1, <3>1
  <2> HIDE DEF args
  <2>2. args[1] = "job" /\ args[2] = word
    BY <1>1, <1>2, <2>1
  <2>3. ASSUME NEW i \in 1 .. Len(rest) PROVE args[2 + i] = rest[i]
    <3>1. 2 + i \in 1 .. Len(args) /\ ~(2 + i <= 2) /\ (2 + i) - 2 = i
      BY <1>2, <2>1
    <3>2. QED
      BY <2>1, <3>1
  <2>4. QED
    BY <2>1, <2>2, <2>3
<1>4. SubSeq(args, 3, Len(args)) = rest
  <2> HIDE DEF args
  <2> DEFINE t == SubSeq(args, 3, Len(args))
  <2>1. t \in Seq(L) /\ Len(t) = Len(rest) /\ \A i \in 1 .. Len(rest) : t[i] = args[2 + i]
    BY <1>2, <1>3
  <2>2. \A i \in 1 .. Len(rest) : t[i] = rest[i]
    BY <1>3, <2>1
  <2> HIDE DEF t
  <2>3. t = rest
    BY <1>2, <2>1, <2>2, SeqEqual
  <2>4. QED
    BY <2>3 DEF t
<1> HIDE DEF args
<1>5. args # <<>> /\ ~(Len(args) < 2) /\ Len(args) >= 2 /\ args[1] \notin Dashed
  BY <1>2, <1>3 DEF Dashed
<1> DEFINE empty == \A i \in DOMAIN rest : rest[i] \in Blank
           parsed == ParseControl(args)
<1>6. CASE word = "send"
  <2>1. parsed = IF empty THEN Refused ELSE Sent("send", rest)
    BY <1>3, <1>4, <1>5, <1>6 DEF ParseControl
  <2>2. ParseControlCommand(word, rest) = IF empty THEN Refused ELSE Sent("send", rest)
    BY <1>6 DEF ParseControlCommand, Bare
  <2>3. ToCommand(parsed, limit) = Refused \/ ToCommand(parsed, limit) = parsed
    BY DEF ToCommand
  <2>4. QED
    BY <2>1, <2>2, <2>3 DEF SendsTheTyped, args, first
<1>7. CASE word # "send"
  <2>1. parsed = IF word \in Bare /\ rest = <<>> THEN Sent(word, <<>>) ELSE Refused
    BY <1>3, <1>4, <1>5, <1>7 DEF ParseControl
  <2>2. ToCommand(parsed, limit) = Refused \/ ToCommand(parsed, limit) = parsed
    BY DEF ToCommand
  <2>3. ASSUME word \in Bare, rest = <<>> PROVE ParseControlCommand(word, rest) = Sent(word, <<>>)
    <3>1. empty /\ word # "help"
      BY <2>3 DEF Bare
    <3>2. QED
      BY <1>7, <2>3, <3>1 DEF ParseControlCommand
  <2>4. QED
    BY <2>1, <2>2, <2>3 DEF SendsTheTyped, args, first
<1>8. QED
  BY <1>6, <1>7

\* A free word, and what an argument that is a value leaves.
IsFree(g, s, t) == s.option = None /\ t \notin g.flags /\ t \notin Valued(g)

Taken(g, s, t) ==
    /\ s.ok
    /\ s.option # None => Acceptable(g, s.option, t)
    /\ IsFree(g, s, t) => /\ t \notin Dashed /\ g.words # "none"
                          /\ g.words = "one" => s.words = <<>>

NewValue(s, t) ==
    IF s.option = None THEN s.value
    ELSE [o \in DOMAIN s.value \cup {s.option} |-> IF o = s.option THEN t ELSE s.value[o]]

\* What is left of s when t is taken.
After(g, s, t, r) ==
    /\ r.option = IF s.option = None /\ t \in Valued(g) THEN t ELSE None
    /\ r.flag = IF s.option = None /\ t \in g.flags THEN s.flag \cup {t} ELSE s.flag
    /\ r.words = IF IsFree(g, s, t) THEN Append(s.words, t) ELSE s.words
    /\ r.value = NewValue(s, t)

\* What one argument does to what was read before it.
LEMMA ArgumentIs ==
    ASSUME NEW g, NEW K, NEW s \in Scans(g, K), NEW t \in K, Told(g)
    PROVE  /\ Argument(g, s, t).ok <=> Taken(g, s, t)
           /\ Taken(g, s, t) => After(g, s, t, Argument(g, s, t))
           /\ ~s.ok => Argument(g, s, t) = s
<1> USE DEF IsFree, Taken, NewValue, After
<1> DEFINE r == Argument(g, s, t)
           free == IsFree(g, s, t)
           w == [o \in DOMAIN s.value \cup {s.option} |-> IF o = s.option THEN t ELSE s.value[o]]
<1>1. /\ s = [ok |-> s.ok, option |-> s.option, flag |-> s.flag, value |-> s.value, words |-> s.words]
      /\ s.ok \in BOOLEAN
  BY DEF Scans
<1>2. CASE ~s.ok
  BY <1>1, <1>2 DEF Argument
<1>3. CASE s.ok /\ s.option # None
  <2>1. r = IF Acceptable(g, s.option, t) THEN [s EXCEPT !.option = None, !.value = w]
            ELSE [s EXCEPT !.ok = FALSE]
    BY <1>3 DEF Argument
  <2> HIDE DEF r, w
  <2>2. CASE Acceptable(g, s.option, t)
    <3>1. r.ok = s.ok /\ r.option = None /\ r.value = w /\ r.flag = s.flag /\ r.words = s.words
      BY <1>1, <2>1, <2>2
    <3>2. QED
      BY <1>3, <2>2, <3>1 DEF r, w
  <2>3. CASE ~Acceptable(g, s.option, t)
    <3>1. r.ok = FALSE
      BY <1>1, <2>1, <2>3
    <3>2. QED
      BY <1>3, <2>3, <3>1 DEF r
  <2>4. QED
    BY <2>2, <2>3
<1>4. CASE s.ok /\ s.option = None /\ t \in g.flags
  <2>1. r = [s EXCEPT !.flag = s.flag \cup {t}] /\ t \notin Valued(g)
    BY <1>4 DEF Argument, Told
  <2>2. r.ok = s.ok /\ r.option = None /\ r.value = s.value /\ r.flag = s.flag \cup {t} /\ r.words = s.words
    BY <1>1, <1>4, <2>1
  <2> HIDE DEF r
  <2>3. QED
    BY <1>4, <2>1, <2>2 DEF r
<1>5. CASE s.ok /\ s.option = None /\ t \in Valued(g)
  <2>1. r = [s EXCEPT !.option = t] /\ t \notin g.flags
    BY <1>5 DEF Argument, Told
  <2>2. r.ok = s.ok /\ r.option = t /\ r.value = s.value /\ r.flag = s.flag /\ r.words = s.words
    BY <1>1, <1>5, <2>1
  <2> HIDE DEF r
  <2>3. QED
    BY <1>5, <2>1, <2>2 DEF r
<1>6. CASE s.ok /\ free
  <2> DEFINE taken == t \notin Dashed /\ g.words # "none" /\ (g.words = "one" => s.words = <<>>)
             ws == Append(s.words, t)
  <2>1. r = IF taken THEN [s EXCEPT !.words = ws] ELSE [s EXCEPT !.ok = FALSE]
    BY <1>6 DEF Argument
  <2> HIDE DEF r, ws
  <2>2. CASE taken
    <3>1. r.ok = s.ok /\ r.option = None /\ r.value = s.value /\ r.flag = s.flag /\ r.words = ws
      BY <1>1, <1>6, <2>1, <2>2
    <3>2. QED
      BY <1>6, <2>2, <3>1 DEF r, ws
  <2>3. CASE ~taken
    <3>1. r.ok = FALSE
      BY <1>1, <2>1, <2>3
    <3>2. QED
      BY <1>6, <2>3, <3>1 DEF r
  <2>4. QED
    BY <2>2, <2>3
<1>7. QED
  BY <1>1, <1>2, <1>3, <1>4, <1>5, <1>6

LEMMA ArgumentOk ==
    ASSUME NEW g, NEW K, NEW s \in Scans(g, K), NEW t \in K, Told(g)
    PROVE  Argument(g, s, t).ok <=> Taken(g, s, t)
BY ArgumentIs

LEMMA ArgumentTaken ==
    ASSUME NEW g, NEW K, NEW s \in Scans(g, K), NEW t \in K, Told(g), Taken(g, s, t)
    PROVE  After(g, s, t, Argument(g, s, t))
BY ArgumentIs

LEMMA ArgumentOption ==
    ASSUME NEW g, NEW K, NEW s \in Scans(g, K), NEW t \in K, Told(g), Taken(g, s, t)
    PROVE  Argument(g, s, t).option = IF s.option = None /\ t \in Valued(g) THEN t ELSE None
<1>1. After(g, s, t, Argument(g, s, t))
  BY ArgumentTaken
<1>2. QED
  BY <1>1 DEF After

LEMMA ArgumentFlag ==
    ASSUME NEW g, NEW K, NEW s \in Scans(g, K), NEW t \in K, Told(g), Taken(g, s, t)
    PROVE  Argument(g, s, t).flag = IF s.option = None /\ t \in g.flags THEN s.flag \cup {t} ELSE s.flag
<1>1. After(g, s, t, Argument(g, s, t))
  BY ArgumentTaken
<1>2. QED
  BY <1>1 DEF After

LEMMA ArgumentWords ==
    ASSUME NEW g, NEW K, NEW s \in Scans(g, K), NEW t \in K, Told(g), Taken(g, s, t)
    PROVE  Argument(g, s, t).words = IF IsFree(g, s, t) THEN Append(s.words, t) ELSE s.words
<1>1. After(g, s, t, Argument(g, s, t))
  BY ArgumentTaken
<1>2. QED
  BY <1>1 DEF After

LEMMA ArgumentValue ==
    ASSUME NEW g, NEW K, NEW s \in Scans(g, K), NEW t \in K, Told(g), Taken(g, s, t)
    PROVE  Argument(g, s, t).value = NewValue(s, t)
<1>1. After(g, s, t, Argument(g, s, t))
  BY ArgumentTaken
<1>2. QED
  BY <1>1 DEF After

LEMMA ArgumentRefused ==
    ASSUME NEW g, NEW s, NEW t, ~s.ok
    PROVE  Argument(g, s, t) = s
BY DEF Argument

\* Where no argument takes a value, a mistyped option is refused.
LEMMA MistypedScan ==
    ASSUME NEW g, NEW K, NEW line \in Seq(K), Told(g), K \cap Valued(g) = {},
           "--other" \notin g.flags, "--other" \in ToSet(line)
    PROVE  ~Scan(g, line).ok
<1> DEFINE Ok(s) == /\ Scanned(g, s).option = None
                    /\ "--other" \in ToSet(s) => ~Scanned(g, s).ok
           T == {s \in Seq(K) : Ok(s)}
<1>1. <<>> \in T
  <2> DEFINE e == <<>>
  <2>1. e \in Seq(K) /\ ToSet(e) = {}
    BY EmptySeq DEF ToSet
  <2>2. Scanned(g, e) = NothingScanned
    BY ScannedEmpty
  <2> HIDE DEF e
  <2>3. Scanned(g, e).option = None
    BY <2>2 DEF NothingScanned
  <2>4. e \in T
    BY <2>1, <2>3
  <2> HIDE DEF T
  <2>5. QED
    BY <2>4 DEF e
<1>2. ASSUME NEW s \in Seq(K), NEW t \in K, s \in T PROVE Append(s, t) \in T
  <2> DEFINE a == Append(s, t)
             v == Scanned(g, s)
             r == Argument(g, v, t)
  <2>1. a \in Seq(K) /\ ToSet(a) = ToSet(s) \cup {t}
    <3>1. a \in Seq(K) /\ Len(a) = Len(s) + 1 /\ a[Len(s) + 1] = t /\ Len(s) \in Nat
          /\ \A i \in 1 .. Len(s) : a[i] = s[i]
      BY AppendProperties, LenProperties
    <3>2. DOMAIN a = 1 .. Len(s) + 1 /\ DOMAIN s = 1 .. Len(s)
      BY <3>1, LenProperties
    <3> HIDE DEF a
    <3>3. \A x : (\E i \in DOMAIN a : a[i] = x) <=> ((\E i \in DOMAIN s : s[i] = x) \/ x = t)
      BY <3>1, <3>2
    <3>4. \A x : x \in ToSet(a) <=> x \in ToSet(s) \/ x = t
      BY <3>3 DEF ToSet
    <3>5. QED
      BY <3>1, <3>4
  <2>2. Scanned(g, a) = r
    BY ScannedAppend
  <2>3. v \in Scans(g, K)
    BY ScannedType
  <2>4. v.option = None /\ ("--other" \in ToSet(s) => ~v.ok) /\ t \notin Valued(g)
    BY <1>2
  <2> HIDE DEF a, v, r
  <2>5. r.option = None /\ (r.ok => v.ok) /\ (t = "--other" => ~r.ok)
    <3>1. CASE ~v.ok
      <4>1. r = v
        BY <3>1, ArgumentRefused DEF r
      <4>2. QED
        BY <2>4, <3>1, <4>1
    <3>2. CASE v.ok /\ r.ok
      <4>0. Taken(g, v, t)
        BY <2>3, <3>2, ArgumentOk DEF r
      <4>1. /\ r.option = IF v.option = None /\ t \in Valued(g) THEN t ELSE None
            /\ (t \notin g.flags => t \notin Dashed)
        BY <2>3, <2>4, <4>0, ArgumentOption DEF r, Taken, IsFree
      <4>2. "--other" \in Dashed
        BY DEF Dashed
      <4>3. QED
        BY <2>4, <3>2, <4>1, <4>2
    <3>3. CASE v.ok /\ ~r.ok
      <4>1. /\ v = [ok |-> v.ok, option |-> v.option, flag |-> v.flag, value |-> v.value, words |-> v.words]
            /\ v.words \in Seq(K)
        BY <2>3 DEF Scans
      <4>2. r = [v EXCEPT !.ok = FALSE] \/ r.ok = TRUE
        BY <2>4, <3>3, <4>1 DEF r, Argument
      <4>3. QED
        BY <2>4, <3>3, <4>1, <4>2
    <3>4. QED
      BY <3>1, <3>2, <3>3
  <2>6. Ok(a)
    BY <2>1, <2>2, <2>4, <2>5
  <2>7. QED
    BY <2>1, <2>6 DEF a
<1> HIDE DEF T
<1>3. line \in T
  BY <1>1, <1>2, SeqInduction
<1>4. ~Scanned(g, line).ok
  BY <1>3 DEF T
<1>5. Scanned(g, line) \in Scans(g, K)
  BY ScannedType
<1> DEFINE v == Scanned(g, line)
<1> HIDE DEF v
<1>6. v.ok = FALSE /\ v = [ok |-> v.ok, option |-> v.option, flag |-> v.flag, value |-> v.value, words |-> v.words]
  BY <1>4, <1>5 DEF Scans, v
<1>7. ~Complete(v).ok
  BY <1>6 DEF Complete
<1>8. QED
  BY <1>7 DEF Scan, v

\* What `lya run` and `lya executor` read of a line that neither refuses.
Alike(a, b) ==
    /\ a.option = b.option /\ a.words = b.words
    /\ Given(a, "--project", ".") = Given(b, "--project", ".")

LEMMA ScannedAlike ==
    ASSUME NEW K, NEW line \in Seq(K),
           Scanned(RunGrammar, line).ok, Scanned(ExecutorGrammar, line).ok
    PROVE  Alike(Scanned(RunGrammar, line), Scanned(ExecutorGrammar, line))
<1> DEFINE A(s) == Scanned(RunGrammar, s)
           B(s) == Scanned(ExecutorGrammar, s)
           Ok(s) == A(s).ok /\ B(s).ok => Alike(A(s), B(s))
           T == {s \in Seq(K) : Ok(s)}
<1>1. <<>> \in T
  <2> DEFINE e == <<>>
  <2>1. e \in Seq(K)
    BY EmptySeq
  <2>2. A(e) = NothingScanned /\ B(e) = NothingScanned
    BY ScannedEmpty, GrammarsAreTold
  <2> HIDE DEF e, A, B
  <2>3. Ok(e)
    BY <2>2 DEF Alike
  <2>4. e \in T
    BY <2>1, <2>3
  <2> HIDE DEF T
  <2>5. QED
    BY <2>4 DEF e
<1>2. ASSUME NEW s \in Seq(K), NEW t \in K, s \in T PROVE Append(s, t) \in T
  <2> DEFINE a == A(s)
             b == B(s)
             c == Argument(RunGrammar, a, t)
             d == Argument(ExecutorGrammar, b, t)
  <2>1. Append(s, t) \in Seq(K)
    BY AppendProperties
  <2>2. A(Append(s, t)) = c /\ B(Append(s, t)) = d
    BY ScannedAppend, GrammarsAreTold
  <2>3. a \in Scans(RunGrammar, K) /\ b \in Scans(ExecutorGrammar, K)
    BY ScannedType, GrammarsAreTold
  <2>4. a.ok /\ b.ok => Alike(a, b)
    BY <1>2
  <2> HIDE DEF a, b, A, B
  <2>5. ASSUME c.ok, d.ok PROVE Alike(c, d)
    <3>0. Taken(RunGrammar, a, t) /\ Taken(ExecutorGrammar, b, t)
      BY <2>3, <2>5, ArgumentOk, GrammarsAreTold
    <3>1. /\ a.ok /\ (IsFree(RunGrammar, a, t) => t \notin Dashed)
          /\ c.option = IF a.option = None /\ t \in Valued(RunGrammar) THEN t ELSE None
          /\ c.words = IF IsFree(RunGrammar, a, t) THEN Append(a.words, t) ELSE a.words
          /\ c.value = NewValue(a, t)
      <4>1. a.ok /\ (IsFree(RunGrammar, a, t) => t \notin Dashed)
        BY <3>0 DEF Taken
      <4>2. Told(RunGrammar)
        BY GrammarsAreTold
      <4>3. Taken(RunGrammar, a, t) /\ a \in Scans(RunGrammar, K)
        BY <2>3, <3>0
      <4>4. c.option = IF a.option = None /\ t \in Valued(RunGrammar) THEN t ELSE None
        BY <4>2, <4>3, ArgumentOption
      <4>5. c.words = IF IsFree(RunGrammar, a, t) THEN Append(a.words, t) ELSE a.words
        BY <4>2, <4>3, ArgumentWords
      <4>6. c.value = NewValue(a, t)
        BY <4>2, <4>3, ArgumentValue
      <4>7. QED
        BY <4>1, <4>4, <4>5, <4>6
    <3>2. /\ b.ok /\ (IsFree(ExecutorGrammar, b, t) => t \notin Dashed)
          /\ d.option = IF b.option = None /\ t \in Valued(ExecutorGrammar) THEN t ELSE None
          /\ d.words = IF IsFree(ExecutorGrammar, b, t) THEN Append(b.words, t) ELSE b.words
          /\ d.value = NewValue(b, t)
      <4>1. b.ok /\ (IsFree(ExecutorGrammar, b, t) => t \notin Dashed)
        BY <3>0 DEF Taken
      <4>2. Told(ExecutorGrammar)
        BY GrammarsAreTold
      <4>3. Taken(ExecutorGrammar, b, t) /\ b \in Scans(ExecutorGrammar, K)
        BY <2>3, <3>0
      <4>4. d.option = IF b.option = None /\ t \in Valued(ExecutorGrammar) THEN t ELSE None
        BY <4>2, <4>3, ArgumentOption
      <4>5. d.words = IF IsFree(ExecutorGrammar, b, t) THEN Append(b.words, t) ELSE b.words
        BY <4>2, <4>3, ArgumentWords
      <4>6. d.value = NewValue(b, t)
        BY <4>2, <4>3, ArgumentValue
      <4>7. QED
        BY <4>1, <4>4, <4>5, <4>6
    <3>3. Alike(a, b)
      BY <2>4, <3>1, <3>2
    <3>4. /\ a.option \in Valued(RunGrammar) \cup {None}
          /\ b.option \in Valued(ExecutorGrammar) \cup {None}
      BY <2>3 DEF Scans
    <3> HIDE DEF c, d
    <3>5. a.option = b.option /\ a.option \in {"--project", None}
      BY <3>3, <3>4 DEF Alike, Valued, RunGrammar, ExecutorGrammar
    <3>6. c.option = d.option /\ c.words = d.words
      <4>1. \/ t \in {"--browser"} \/ t = "--project"
            \/ /\ t \notin RunGrammar.flags /\ t \notin Valued(RunGrammar)
               /\ t \notin ExecutorGrammar.flags /\ t \notin Valued(ExecutorGrammar)
            \/ a.option # None
        BY <3>1, <3>2, <3>5 DEF Valued, RunGrammar, ExecutorGrammar, Dashed, IsFree
      <4>2. "--browser" \in RunGrammar.flags /\ "--browser" \notin Valued(RunGrammar)
            /\ "--browser" \in ExecutorGrammar.flags /\ "--browser" \notin Valued(ExecutorGrammar)
        BY DEF Valued, RunGrammar, ExecutorGrammar
      <4>3. "--project" \notin RunGrammar.flags /\ "--project" \in Valued(RunGrammar)
            /\ "--project" \notin ExecutorGrammar.flags /\ "--project" \in Valued(ExecutorGrammar)
        BY DEF Valued, RunGrammar, ExecutorGrammar
      <4>4. a.words = b.words
        BY <3>3 DEF Alike
      <4>5. QED
        BY <3>1, <3>2, <3>5, <4>1, <4>2, <4>3, <4>4 DEF IsFree
    <3>7. Given(c, "--project", ".") = Given(d, "--project", ".")
      <4>1. CASE a.option = None
        <5>1. c.value = a.value /\ d.value = b.value
          BY <3>1, <3>2, <3>5, <4>1 DEF NewValue
        <5>2. QED
          BY <3>3, <5>1 DEF Alike, Given
      <4>2. CASE a.option = "--project"
        <5>1. a.option # None /\ b.option = "--project"
          BY <3>5, <4>2 DEF None
        <5>2. Given(c, "--project", ".") = t
          BY <3>1, <4>2, <5>1 DEF Given, NewValue
        <5>3. Given(d, "--project", ".") = t
          BY <3>2, <5>1 DEF Given, None, NewValue
        <5>4. QED
          BY <5>2, <5>3
      <4>3. QED
        BY <3>5, <4>1, <4>2
    <3>8. QED
      BY <3>6, <3>7 DEF Alike
  <2>6. Ok(Append(s, t))
    BY <2>2, <2>5
  <2>7. QED
    BY <2>1, <2>6
<1> HIDE DEF T
<1>3. line \in T
  BY <1>1, <1>2, SeqInduction
<1>4. QED
  BY <1>3 DEF T

LEMMA RunAndExecutorAgree ==
    ASSUME NEW K, NEW line \in Seq(K), ParseRun(line, "cwd") # Refused,
           ParseExecutor(line, "cwd") # Refused
    PROVE  /\ ParseExecutor(line, "cwd").project = ParseRun(line, "cwd").project
           /\ ParseExecutor(line, "cwd").prompt = ParseRun(line, "cwd").task
<1> DEFINE a == Scanned(RunGrammar, line)
           b == Scanned(ExecutorGrammar, line)
           s == Scan(RunGrammar, line)
           x == Scan(ExecutorGrammar, line)
<1>1. a \in Scans(RunGrammar, K) /\ b \in Scans(ExecutorGrammar, K)
  BY ScannedType, GrammarsAreTold
<1>2. s = Complete(a) /\ x = Complete(b)
  BY DEF Scan
<1>3. a.ok \in BOOLEAN /\ b.ok \in BOOLEAN
      /\ a = [ok |-> a.ok, option |-> a.option, flag |-> a.flag, value |-> a.value, words |-> a.words]
      /\ b = [ok |-> b.ok, option |-> b.option, flag |-> b.flag, value |-> b.value, words |-> b.words]
  <2> HIDE DEF a, b
  <2>1. QED
    BY <1>1 DEF Scans
<1> HIDE DEF a, b, s, x
<1>4. s.words = a.words /\ s.value = a.value /\ (s.ok => a.ok)
  BY <1>2, <1>3 DEF Complete
<1>5. x.words = b.words /\ x.value = b.value /\ (x.ok => b.ok)
  BY <1>2, <1>3 DEF Complete
<1> DEFINE p == Canonicalize(Relative(Given(s, "--project", ".")), "cwd")
           q == Canonicalize(Relative(Given(x, "--project", ".")), "cwd")
<1> HIDE DEF p, q
<1>6. /\ s.ok /\ ParseRun(line, "cwd").project = p
      /\ ParseRun(line, "cwd").task = s.words
  BY DEF ParseRun, p, s
<1>7. /\ x.ok /\ ParseExecutor(line, "cwd").project = q
      /\ ParseExecutor(line, "cwd").prompt = x.words
  BY DEF ParseExecutor, q, x
<1>8. Alike(a, b)
  BY <1>4, <1>5, <1>6, <1>7, ScannedAlike DEF a, b
<1>9. Given(s, "--project", ".") = Given(x, "--project", ".")
  BY <1>4, <1>5, <1>8 DEF Alike, Given
<1>10. p = q /\ s.words = x.words
  BY <1>4, <1>5, <1>8, <1>9 DEF Alike, p, q
<1>11. QED
  BY <1>6, <1>7, <1>10

\* `lya executor` and `lya run` agree on the project and the words of any line that
\* neither refuses.
LEMMA AnyExecutorMeansRun ==
    ASSUME NEW K, NEW line \in Seq(K) PROVE ExecutorReadsAsRun(line)
BY RunAndExecutorAgree DEF ExecutorReadsAsRun

\* The options of any command that take a value.
Valueds ==
    UNION {Valued(RunGrammar), Valued(SchedulerGrammar), Valued(SubmitGrammar), Valued(DaemonGrammar),
           Valued(ResumeGrammar), Valued(AttachGrammar), Valued(JobsGrammar), Valued(ExecutorGrammar)}

\* Wherever a mistyped option stands in whatever line that gives no option a value, the
\* parsers with options refuse the line.
LEMMA MistypedIsRefused ==
    ASSUME NEW K, K \cap Valueds = {}, NEW line \in Seq(K), "--other" \in ToSet(line)
    PROVE  /\ ParseRun(line, "cwd") = Refused /\ ParseScheduler(line) = Refused
           /\ ParseSubmit(line, "cwd") = Refused /\ ParseDaemon(line) = Refused
           /\ ParseResume(line) = Refused /\ ParseAttach(line) = Refused
           /\ ParseJobs(line) = Refused /\ ParseExecutor(line, "cwd") = Refused
           /\ ParseStart(line) = Refused /\ ParseStop(line) = Refused /\ ParseStatus(line) = Refused
<1>1. ~Scan(RunGrammar, line).ok
  BY MistypedScan, GrammarsAreTold DEF RunGrammar, Valueds
<1>2. ~Scan(SchedulerGrammar, line).ok
  BY MistypedScan, GrammarsAreTold DEF SchedulerGrammar, Valueds
<1>3. ~Scan(SubmitGrammar, line).ok
  BY MistypedScan, GrammarsAreTold DEF SubmitGrammar, Valueds
<1>4. ~Scan(DaemonGrammar, line).ok
  BY MistypedScan, GrammarsAreTold DEF DaemonGrammar, Valueds
<1>5. ~Scan(ResumeGrammar, line).ok
  BY MistypedScan, GrammarsAreTold DEF ResumeGrammar, Valueds
<1>6. ~Scan(AttachGrammar, line).ok
  BY MistypedScan, GrammarsAreTold DEF AttachGrammar, Valueds
<1>7. ~Scan(JobsGrammar, line).ok
  BY MistypedScan, GrammarsAreTold DEF JobsGrammar, Valueds
<1>8. ~Scan(ExecutorGrammar, line).ok
  BY MistypedScan, GrammarsAreTold DEF ExecutorGrammar, Valueds
<1>9. ParseRun(line, "cwd") = Refused /\ ParseExecutor(line, "cwd") = Refused /\ ParseSubmit(line, "cwd") = Refused
  BY <1>1, <1>3, <1>8 DEF ParseRun, ParseExecutor, ParseSubmit
<1>10. ParseScheduler(line) = Refused /\ ParseDaemon(line) = Refused /\ ParseResume(line) = Refused
  BY <1>2, <1>4, <1>5 DEF ParseScheduler, ParseDaemon, ParseResume
<1>11. ParseAttach(line) = Refused /\ ParseJobs(line) = Refused
  BY <1>6, <1>7 DEF ParseAttach, ParseJobs
<1>12. ParseStart(line) = Refused
  BY <1>10 DEF ParseStart
<1>13. ParseStop(line) = Refused /\ ParseStatus(line) = Refused
  <2>1. PICK i \in DOMAIN line : line[i] = "--other"
    BY DEF ToSet
  <2>2. line # <<>> /\ line # <<"--json">>
    <3>1. DOMAIN line = 1 .. Len(line)
      BY LenProperties
    <3>2. CASE line = <<"--json">>
      <4>1. Len(line) = 1 /\ line[1] = "--json"
        BY <3>2
      <4>2. i = 1
        BY <2>1, <3>1, <4>1
      <4>3. QED
        BY <2>1, <4>1, <4>2
    <3>3. CASE line = <<>>
      <4>1. Len(line) = 0
        BY <3>3
      <4>2. QED
        BY <2>1, <3>1, <4>1
    <3>4. QED
      BY <3>2, <3>3
  <2>3. QED
    BY <2>2 DEF ParseStop, ParseStatus
<1>14. QED
  BY <1>9, <1>10, <1>11, <1>12, <1>13

\* `lya control`: what refuses a mistyped option is everything but the text of "send".
LEMMA MistypedControl ==
    ASSUME NEW K, NEW line \in Seq(K), "--other" \in ToSet(line)
    PROVE  ParseControl(line) \in {Refused, Sent("send", SubSeq(line, 3, Len(line)))}
<1> DEFINE rest == SubSeq(line, 3, Len(line))
           n == Len(line)
<1>1. n \in Nat /\ DOMAIN line = 1 .. n /\ (n = 0 => line = <<>>)
  BY LenProperties, EmptySeq
<1>2. rest = <<>> => n <= 2
  <2>1. \A j \in 3 .. n : line[j] \in K
    BY <1>1, ElementOfSeq
  <2>2. 3 \in Int /\ n \in Int
    BY <1>1
  <2>3. Len(rest) = IF 3 <= n THEN n - 3 + 1 ELSE 0
    BY <2>1, <2>2, SubSeqProperties
  <2>4. rest = <<>> => Len(rest) = 0
    OBVIOUS
  <2> HIDE DEF rest, n
  <2>5. QED
    BY <1>1, <2>3, <2>4
<1>3. PICK i \in 1 .. n : line[i] = "--other"
  BY <1>1 DEF ToSet
<1> HIDE DEF rest, n
<1>4. CASE n < 2 \/ line[1] \in Dashed
  BY <1>1, <1>3, <1>4 DEF ParseControl, n
<1>5. CASE n >= 2 /\ line[1] \notin Dashed /\ line[2] = "send"
  BY <1>1, <1>5 DEF ParseControl, n, rest
<1>6. CASE n >= 2 /\ line[1] \notin Dashed /\ line[2] # "send"
  <2>1. ParseControl(line) = IF line[2] \in Bare /\ rest = <<>> THEN Sent(line[2], <<>>) ELSE Refused
    BY <1>1, <1>6 DEF ParseControl, n, rest
  <2>2. line[1] # "--other"
    BY <1>6 DEF Dashed
  <2>3. CASE n <= 2
    <3>1. i = 2
      BY <1>1, <1>3, <1>6, <2>2, <2>3
    <3>2. line[2] \notin Bare
      BY <1>3, <3>1 DEF Bare
    <3>3. QED
      BY <2>1, <3>2
  <2>4. CASE ~(n <= 2)
    BY <1>2, <2>1, <2>4
  <2>5. QED
    BY <2>3, <2>4
<1>7. QED
  BY <1>1, <1>4, <1>5, <1>6 DEF rest

\* What is behind the first k arguments, when none of them is x.
LEMMA RestHas ==
    ASSUME NEW K, NEW line \in Seq(K), NEW x, x \in ToSet(line), NEW k \in Nat,
           \A i \in 1 .. k : line[i] # x
    PROVE  SubSeq(line, k + 1, Len(line)) \in Seq(K) /\ x \in ToSet(SubSeq(line, k + 1, Len(line)))
<1> DEFINE n == Len(line)
           r == SubSeq(line, k + 1, n)
<1>1. n \in Nat /\ DOMAIN line = 1 .. n
  BY LenProperties
<1>2. PICK i \in 1 .. n : line[i] = x
  BY <1>1 DEF ToSet
<1>3. i > k
  BY <1>1, <1>2
<1>4. r \in Seq(K) /\ Len(r) = n - k /\ \A m \in 1 .. n - k : r[m] = line[k + m]
  <2>1. \A j \in (k + 1) .. n : line[j] \in K
    BY <1>1, ElementOfSeq
  <2>2. k + 1 \in Int /\ n \in Int
    BY <1>1
  <2>3. /\ r \in Seq(K)
        /\ Len(r) = IF k + 1 <= n THEN n - (k + 1) + 1 ELSE 0
        /\ \A m \in 1 .. n - (k + 1) + 1 : r[m] = line[(k + 1) + m - 1]
    BY <2>1, <2>2, SubSeqProperties
  <2> HIDE DEF r, n
  <2>4. k + 1 <= n /\ n - (k + 1) + 1 = n - k /\ \A m \in 1 .. n - k : (k + 1) + m - 1 = k + m
    BY <1>1, <1>2, <1>3
  <2>5. QED
    BY <2>3, <2>4
<1>5. i - k \in 1 .. n - k /\ r[i - k] = x
  <2> HIDE DEF r, n
  <2>1. i - k \in 1 .. n - k /\ k + (i - k) = i
    BY <1>1, <1>2, <1>3
  <2>2. QED
    BY <1>2, <1>4, <2>1
<1>6. DOMAIN r = 1 .. n - k
  BY <1>4, LenProperties
<1>7. x \in ToSet(r)
  <2> HIDE DEF r, n
  <2>1. QED
    BY <1>5, <1>6 DEF ToSet
<1>8. QED
  BY <1>4, <1>7

\* A command that was picked is not a refusal.
LEMMA PickedIsNotRefused ==
    \A command, rest : /\ [command |-> command, rest |-> rest] # Refused
                       /\ [command |-> command, rest |-> rest].command = command
                       /\ [command |-> command, rest |-> rest].rest = rest
<1> TAKE command, rest
<1>1. DOMAIN [command |-> command, rest |-> rest] = {"command", "rest"} /\ DOMAIN Refused = {"refused"}
  BY DEF Refused
<1>2. QED
  BY <1>1

\* The command that the first words of a line pick (main).
LEMMA Dispatched ==
    ASSUME NEW arguments, arguments # <<>>
    PROVE  LET first == arguments[1]
               rest(k) == SubSeq(arguments, k + 1, Len(arguments))
               named == Len(arguments) > 1 /\ arguments[2] \in DOMAIN DaemonCommands
           IN  /\ first \in Subcommands => Dispatch(arguments) = [command |-> first, rest |-> rest(1)]
               /\ first = "daemon" /\ named =>
                    Dispatch(arguments) = [command |-> DaemonCommands[arguments[2]], rest |-> rest(2)]
               /\ first = "daemon" /\ ~named => Dispatch(arguments) = Refused
               /\ first \in {"-h", "--help"} => Dispatch(arguments) = [command |-> "help", rest |-> rest(1)]
               /\ first \in {"-V", "--version"} => Dispatch(arguments) = [command |-> "version", rest |-> rest(1)]
               /\ first = "doctor" => Dispatch(arguments) \in {Refused, [command |-> "doctor", rest |-> rest(1)]}
               /\ first \notin Subcommands \cup {"daemon", "-h", "--help", "-V", "--version", "doctor"} =>
                    Dispatch(arguments) = [command |-> "agent", rest |-> rest(0)]
<1> DEFINE first == arguments[1]
           rest(k) == SubSeq(arguments, k + 1, Len(arguments))
           named == Len(arguments) > 1 /\ arguments[2] \in DOMAIN DaemonCommands
           daemonRest == rest(2)
           one == rest(1)
           all == rest(0)
           daemon == IF named THEN [command |-> DaemonCommands[arguments[2]], rest |-> daemonRest] ELSE Refused
<1>1. Dispatch(arguments)
        = CASE first \in {"-h", "--help"} -> [command |-> "help", rest |-> one]
            [] first \in {"-V", "--version"} -> [command |-> "version", rest |-> one]
            [] first = "doctor" -> IF Len(arguments) = 1 THEN [command |-> "doctor", rest |-> one] ELSE Refused
            [] first = "daemon" -> daemon
            [] first \in Subcommands -> [command |-> first, rest |-> one]
            [] OTHER -> [command |-> "agent", rest |-> all]
  BY Zenon DEF Dispatch
<1>2. Subcommands \cap {"daemon", "-h", "--help", "-V", "--version", "doctor"} = {}
  BY DEF Subcommands
<1> HIDE DEF daemonRest, one, all
<1>3. first \in Subcommands => Dispatch(arguments) = [command |-> first, rest |-> one]
  BY <1>1, <1>2
<1>4. first = "daemon" => Dispatch(arguments) = daemon
  BY <1>1, <1>2
<1>5. first \in {"-h", "--help"} => Dispatch(arguments) = [command |-> "help", rest |-> one]
  BY <1>1, <1>2
<1>6. first \in {"-V", "--version"} => Dispatch(arguments) = [command |-> "version", rest |-> one]
  BY <1>1, <1>2
<1>7. first = "doctor" => Dispatch(arguments) \in {Refused, [command |-> "doctor", rest |-> one]}
  BY <1>1, <1>2
<1>8. first \notin Subcommands \cup {"daemon", "-h", "--help", "-V", "--version", "doctor"} =>
        Dispatch(arguments) = [command |-> "agent", rest |-> all]
  BY <1>1, <1>2
<1>9. QED
  BY <1>3, <1>4, <1>5, <1>6, <1>7, <1>8 DEF daemonRest, one, all

\* Wherever a mistyped option stands on whatever command line that gives no option a value:
\* where options are read it starts nothing, and the task of a Supervisor, an instruction
\* and the prompt of the local agent are taken with it as they were typed (main.rs).
THEOREM AnyMistypedIsRefused ==
    ASSUME NEW K, K \cap Valueds = {}, NEW arguments \in Seq(K)
    PROVE  RefusesMistyped(arguments)
<1> DEFINE c == Dispatch(arguments)
           got == Understood(arguments)
           rest(k) == SubSeq(arguments, k + 1, Len(arguments))
           Right == \/ got \in {Refused, Printed}
                    \/ c.command \in {"supervisor", "agent"} /\ got = Sent(c.command, c.rest)
                    \/ c.command = "control" /\ got = Sent("send", SubSeq(c.rest, 3, Len(c.rest)))
<1>1. SUFFICES ASSUME "--other" \in ToSet(arguments) PROVE Right
  BY DEF RefusesMistyped
<1>2. arguments # <<>> /\ Len(arguments) \in Nat /\ Len(arguments) > 0 /\ DOMAIN arguments = 1 .. Len(arguments)
  BY <1>1, LenProperties, EmptySeq DEF ToSet
<1>3. CASE c = Refused
  BY <1>3 DEF Understood
<1>4. ASSUME c # Refused, c.command \in Subcommands \cup {"daemon run", "daemon start", "daemon stop", "daemon status"},
             "--other" \in ToSet(c.rest), c.rest \in Seq(K)
      PROVE  Right
  <2> DEFINE line == c.rest
  <2> HIDE DEF c
  <2>1. /\ ParseRun(line, "cwd") = Refused /\ ParseScheduler(line) = Refused
        /\ ParseSubmit(line, "cwd") = Refused /\ ParseDaemon(line) = Refused
        /\ ParseResume(line) = Refused /\ ParseAttach(line) = Refused
        /\ ParseJobs(line) = Refused /\ ParseExecutor(line, "cwd") = Refused
        /\ ParseStart(line) = Refused /\ ParseStop(line) = Refused /\ ParseStatus(line) = Refused
    BY <1>4, MistypedIsRefused
  <2>2. ParseControl(line) \in {Refused, Sent("send", SubSeq(line, 3, Len(line)))}
    BY <1>4, MistypedControl
  <2>3. ParseSupervisor(line) = Sent("supervisor", line)
    <3>1. \E i \in DOMAIN line : line[i] = "--other"
      BY <1>4 DEF ToSet
    <3>2. "--other" \notin Blank
      BY DEF Blank
    <3>3. QED
      BY <3>1, <3>2 DEF ParseSupervisor
  <2> HIDE DEF line
  <2>4. CASE c.command = "supervisor"
    BY <1>4, <2>3, <2>4 DEF Understood, c, line
  <2>5. CASE c.command = "control"
    BY <1>4, <2>2, <2>5 DEF Understood, c, line
  <2>6. CASE c.command \notin {"supervisor", "control"}
    <3>1. got = Refused
      BY <1>4, <2>1, <2>6 DEF Understood, c, line, Subcommands
    <3>2. QED
      BY <3>1
  <2>7. QED
    BY <2>4, <2>5, <2>6
<1>5. ASSUME NEW command, NEW k \in Nat, c = [command |-> command, rest |-> rest(k)],
             command \in Subcommands \cup {"daemon run", "daemon start", "daemon stop", "daemon status"},
             \A i \in 1 .. k : arguments[i] # "--other"
      PROVE  Right
  <2>1. rest(k) \in Seq(K) /\ "--other" \in ToSet(rest(k))
    BY <1>1, <1>5, RestHas
  <2>2. c # Refused /\ c.command = command /\ c.rest = rest(k)
    <3> HIDE DEF c, rest
    <3>1. QED
      BY <1>5, PickedIsNotRefused
  <2> HIDE DEF c, rest, Right
  <2>3. QED
    BY <1>4, <1>5, <2>1, <2>2
<1>6. CASE arguments[1] \in Subcommands
  <2>1. c = [command |-> arguments[1], rest |-> rest(1)]
    BY <1>2, <1>6, Dispatched
  <2>2. \A i \in 1 .. 1 : arguments[i] # "--other"
    BY <1>6 DEF Subcommands
  <2> HIDE DEF c, rest, Right
  <2>3. QED
    BY <1>5, <1>6, <2>1, <2>2
<1>7. CASE arguments[1] = "daemon"
  <2> DEFINE named == Len(arguments) > 1 /\ arguments[2] \in DOMAIN DaemonCommands
  <2>1. /\ named => c = [command |-> DaemonCommands[arguments[2]], rest |-> rest(2)]
        /\ ~named => c = Refused
    BY <1>2, <1>7, Dispatched
  <2>2. /\ DOMAIN DaemonCommands = {"run", "start", "stop", "status"}
        /\ DaemonCommands["run"] = "daemon run" /\ DaemonCommands["start"] = "daemon start"
        /\ DaemonCommands["stop"] = "daemon stop" /\ DaemonCommands["status"] = "daemon status"
    BY DEF DaemonCommands
  <2>3. CASE named
    <3>1. \A i \in 1 .. 2 : arguments[i] # "--other"
      <4>1. arguments[1] # "--other" /\ arguments[2] # "--other"
        BY <1>7, <2>2, <2>3
      <4>2. \A i \in 1 .. 2 : i = 1 \/ i = 2
        OBVIOUS
      <4>3. QED
        BY <4>1, <4>2
    <3>2. DaemonCommands[arguments[2]] \in {"daemon run", "daemon start", "daemon stop", "daemon status"}
      BY <2>2, <2>3
    <3> HIDE DEF c, rest, Right
    <3>3. QED
      BY <1>5, <2>1, <2>3, <3>1, <3>2
  <2>4. CASE ~named
    BY <1>3, <2>1, <2>4
  <2>5. QED
    BY <2>3, <2>4
<1>8. CASE arguments[1] \in {"-h", "--help", "-V", "--version", "doctor"}
  <2>1. \/ c = Refused
        \/ \E command \in {"help", "version", "doctor"} : c = [command |-> command, rest |-> rest(1)]
    BY <1>2, <1>8, Dispatched
  <2>2. ASSUME NEW command \in {"help", "version", "doctor"}, c = [command |-> command, rest |-> rest(1)]
        PROVE  Right
    <3> HIDE DEF c, rest
    <3>1. c # Refused /\ c.command = command
      BY <2>2, PickedIsNotRefused
    <3>2. got = Printed
      BY <3>1 DEF Understood, c
    <3>3. QED
      BY <3>2
  <2>3. QED
    BY <1>3, <2>1, <2>2
<1>9. CASE arguments[1] \notin Subcommands \cup {"daemon", "-h", "--help", "-V", "--version", "doctor"}
  <2> DEFINE all == rest(0)
  <2>1. c = [command |-> "agent", rest |-> all]
    BY <1>2, <1>9, Dispatched
  <2>2. c # Refused /\ c.command = "agent" /\ c.rest = all
    <3> HIDE DEF c, all
    <3>1. QED
      BY <2>1, PickedIsNotRefused
  <2>3. \A i \in 1 .. 0 : arguments[i] # "--other"
    OBVIOUS
  <2>4. all \in Seq(K) /\ "--other" \in ToSet(all)
    BY <1>1, <2>3, RestHas
  <2> HIDE DEF all, c
  <2>5. all \notin {<<>>, <<"">>}
    <3>1. PICK i \in DOMAIN all : all[i] = "--other"
      BY <2>4 DEF ToSet
    <3>2. DOMAIN all = 1 .. Len(all)
      BY <2>4, LenProperties
    <3>3. CASE all = <<>>
      <4>1. Len(all) = 0
        BY <3>3
      <4>2. QED
        BY <3>1, <3>2, <4>1
    <3>4. CASE all = <<"">>
      <4>1. Len(all) = 1 /\ all[1] = ""
        BY <3>4
      <4>2. i \in 1 .. 1
        BY <3>1, <3>2, <4>1, Zenon
      <4>3. i = 1
        BY <4>2
      <4>4. QED
        BY <3>1, <4>1, <4>3
    <3>5. QED
      BY <3>3, <3>4
  <2>6. got = Sent("agent", all)
    BY <2>2, <2>5 DEF Understood, ParseAgent, c
  <2>7. QED
    BY <2>2, <2>6
<1>10. QED
  BY <1>6, <1>7, <1>8, <1>9

LEMMA LinesAreSequences ==
    ASSUME NEW tokens, NEW n \in Nat
    PROVE  Lines(tokens, n) \subseteq Seq(tokens)
BY DEF Lines

LEMMA ArgumentsHold == ForwardedMeansTheSame /\ SentMeansTyped /\ MistypedOptionsAreRefused /\ ExecutorMeansRun
<1>1. ForwardedMeansTheSame
  <2> DEFINE K == DaemonGrammar.flags \cup {"--max-concurrent", "0", "+2", "5000000000", "word"}
  <2> HIDE DEF K
  <2>1. \A line \in Lines(K, 4) : ForwardsTheSame(line)
    BY LinesAreSequences, AnyStartIsForwarded
  <2>2. QED
    BY <2>1 DEF ForwardedMeansTheSame, K
<1>2. SentMeansTyped
  <2> DEFINE K == {" ", "word", "--json"}
  <2> HIDE DEF K
  <2>1. \A word : \A rest \in Lines(K, 2) : SendsTheTyped(word, rest, 1)
    BY LinesAreSequences, AnySentIsTyped
  <2>2. QED
    BY <2>1 DEF SentMeansTyped, K
<1>3. MistypedOptionsAreRefused
  <2> DEFINE F == Subcommands \cup {"daemon", "doctor", "--help", "--other", "word"}
             K == {"--other", "--browser", "--json", "word", "run", "stop", "send"}
             L == F \cup K
  <2>1. L \cap Valueds = {}
    BY DEF Valueds, Valued, RunGrammar, SchedulerGrammar, SubmitGrammar, DaemonGrammar, ResumeGrammar,
           AttachGrammar, JobsGrammar, ExecutorGrammar, Subcommands
  <2> HIDE DEF F, K, L
  <2>2. ASSUME NEW first \in F, NEW line \in Lines(K, 3) PROVE RefusesMistyped(<<first>> \o line)
    <3>1. first \in L /\ line \in Seq(L)
      BY LinesAreSequences DEF L
    <3>2. <<first>> \o line \in Seq(L)
      BY <3>1
    <3>3. QED
      BY <2>1, <3>2, AnyMistypedIsRefused
  <2>3. QED
    BY <2>2 DEF MistypedOptionsAreRefused, F, K
<1>4. ExecutorMeansRun
  <2> DEFINE K == {"--other", "--project", "--browser", "word", "dir"}
  <2> HIDE DEF K
  <2>1. \A line \in Lines(K, 4) : ExecutorReadsAsRun(line)
    BY LinesAreSequences, AnyExecutorMeansRun
  <2>2. QED
    BY <2>1 DEF ExecutorMeansRun, K
<1>5. QED
  BY <1>1, <1>2, <1>3, <1>4

LEMMA PickedAppend ==
    ASSUME NEW E, NEW s \in Seq(E), NEW e \in E, NEW places \in SUBSET (DOMAIN Append(s, e))
    PROVE  Picked(Append(s, e), places)
             = IF Len(s) + 1 \in places THEN Append(Picked(s, places \cap DOMAIN s), e)
               ELSE Picked(s, places \cap DOMAIN s)
<1> DEFINE a == Append(s, e)
           N == Len(s)
           here == places \cap DOMAIN s
           f == [i \in 1 .. N + 1 |-> IF i \in places THEN <<a[i]>> ELSE <<>>]
           g == [i \in 1 .. N |-> f[i]]
           p == Picked(s, here)
           last == IF N + 1 \in places THEN <<e>> ELSE <<>>
<1>1. /\ N \in Nat /\ DOMAIN s = 1 .. N /\ a \in Seq(E) /\ DOMAIN a = 1 .. N + 1 /\ a[N + 1] = e
      /\ \A i \in 1 .. N : a[i] = s[i]
  BY AppendProperties, LenProperties
<1> HIDE DEF a
<1>2. \A i \in 1 .. N + 1 : f[i] = IF i \in places THEN <<a[i]>> ELSE <<>>
  OBVIOUS
<1>3. \A i \in 1 .. N + 1 : f[i] \in Seq(E)
  <2>1. \A i \in 1 .. N + 1 : <<a[i]>> \in Seq(E) /\ <<>> \in Seq(E)
    BY <1>1, ElementOfSeq, EmptySeq
  <2>2. QED
    BY <1>2, <2>1
<1>4. Picked(a, places) = FlattenSeq(f)
  BY <1>1 DEF Picked
<1>5. p = FlattenSeq(g)
  <2>1. \A i \in 1 .. N : (i \in here) = (i \in places) /\ i \in 1 .. N + 1
    BY <1>1
  <2>2. [i \in DOMAIN s |-> IF i \in here THEN <<s[i]>> ELSE <<>>] = g
    BY <1>1, <2>1
  <2>3. QED
    BY <2>2 DEF Picked
<1>6. f[N + 1] = last
  BY <1>1, <1>2
<1> HIDE DEF f
<1>7. g \in Seq(Seq(E)) /\ f[N + 1] \in Seq(E) /\ [i \in 1 .. N + 1 |-> f[i]] = Append(g, f[N + 1])
  BY <1>1, <1>3, MapGrows
<1>8. f = [i \in 1 .. N + 1 |-> f[i]]
  BY DEF f
<1> HIDE DEF g, here, N
<1>9. FlattenSeq(f) = FlattenSeq(g) \o f[N + 1]
  BY <1>7, <1>8, FlattenAppend
<1>10. p \in Seq(E)
  <2>1. here \in SUBSET (DOMAIN s)
    BY DEF here
  <2>2. QED
    BY <2>1, PickedIs
<1> HIDE DEF p
<1>11. Picked(a, places) = p \o last
  BY <1>4, <1>5, <1>6, <1>9
<1>12. p \o <<e>> = Append(p, e) /\ p \o <<>> = p
  BY <1>10, AppendIsConcat, ConcatEmptySeq
<1>13. Picked(a, places) = IF N + 1 \in places THEN Append(p, e) ELSE p
  BY <1>11, <1>12
<1>14. QED
  BY <1>13 DEF a, N, p, here

\* What a list has of Q, in its order.
PickedBy(Q, s) == Picked(s, {i \in DOMAIN s : s[i] \in Q})

LEMMA PickedByAppend ==
    ASSUME NEW E, NEW Q, NEW s \in Seq(E), NEW e \in E
    PROVE  PickedBy(Q, Append(s, e)) = IF e \in Q THEN Append(PickedBy(Q, s), e) ELSE PickedBy(Q, s)
<1> DEFINE a == Append(s, e)
           N == Len(s)
           places == {i \in DOMAIN a : a[i] \in Q}
           here == {i \in DOMAIN s : s[i] \in Q}
<1>1. /\ N \in Nat /\ DOMAIN s = 1 .. N /\ DOMAIN a = 1 .. N + 1 /\ a[N + 1] = e
      /\ \A i \in 1 .. N : a[i] = s[i]
  BY AppendProperties, LenProperties
<1>2. Picked(a, places) = IF N + 1 \in places THEN Append(Picked(s, places \cap DOMAIN s), e)
                          ELSE Picked(s, places \cap DOMAIN s)
  BY PickedAppend
<1> HIDE DEF a
<1>3. places \cap DOMAIN s = here /\ ((N + 1 \in places) <=> (e \in Q))
  BY <1>1
<1>4. PickedBy(Q, a) = Picked(a, places) /\ PickedBy(Q, s) = Picked(s, here)
  BY DEF PickedBy
<1> HIDE DEF places, here
<1>5. PickedBy(Q, a) = IF e \in Q THEN Append(PickedBy(Q, s), e) ELSE PickedBy(Q, s)
  BY <1>2, <1>3, <1>4
<1>6. QED
  BY <1>5 DEF a

\* Picking everything, and nothing.
LEMMA PickedAll ==
    ASSUME NEW E, NEW list \in Seq(E)
    PROVE  Picked(list, DOMAIN list) = list /\ Picked(list, {}) = <<>>
<1> DEFINE T == {s \in Seq(E) : Picked(s, DOMAIN s) = s}
<1>1. Picked(list, {}) = <<>>
  <2>1. {} \in SUBSET (DOMAIN list)
    OBVIOUS
  <2>2. QED
    BY <2>1, PickedSome
<1>2. <<>> \in T
  <2> DEFINE e == <<>>
  <2>1. e \in Seq(E) /\ DOMAIN e = {}
    BY EmptySeq
  <2> HIDE DEF e
  <2>2. Picked(e, DOMAIN e) = <<>>
    BY <2>1, PickedSome
  <2>3. e \in T
    BY <2>1, <2>2 DEF e
  <2> HIDE DEF T
  <2>4. QED
    BY <2>3 DEF e
<1>3. ASSUME NEW s \in Seq(E), NEW e \in E, s \in T PROVE Append(s, e) \in T
  <2> DEFINE a == Append(s, e)
  <2>1. /\ a \in Seq(E) /\ Len(s) \in Nat /\ DOMAIN s = 1 .. Len(s) /\ DOMAIN a = 1 .. Len(s) + 1
    BY AppendProperties, LenProperties
  <2>2. Picked(a, DOMAIN a) = IF Len(s) + 1 \in DOMAIN a THEN Append(Picked(s, DOMAIN a \cap DOMAIN s), e)
                              ELSE Picked(s, DOMAIN a \cap DOMAIN s)
    BY PickedAppend, ZenonT(60)
  <2>3. Len(s) + 1 \in DOMAIN a /\ DOMAIN a \cap DOMAIN s = DOMAIN s
    <3> HIDE DEF a
    <3>1. QED
      BY <2>1
  <2>4. Picked(s, DOMAIN s) = s
    BY <1>3
  <2>5. Picked(a, DOMAIN a) = a
    BY <2>2, <2>3, <2>4
  <2>6. QED
    BY <2>1, <2>5
<1> HIDE DEF T
<1>4. list \in T
  BY <1>2, <1>3, SeqInduction
<1>5. QED
  BY <1>1, <1>4 DEF T

-----------------------------------------------------------------------------
(* Jobs on their way to the daemon, of any tasks and settings.             *)

\* Settings of which every part is consistent: publication with Git settings, and only with them.
Settled(run, git) ==
    /\ run \in [max_iterations : Nat \ {0}, max_jobs : Nat \ {0}, browser : BOOLEAN, publish : BOOLEAN]
    /\ run.publish => git \notin {NoGit, Refused} /\ GitPublishConfig(git) = git
    /\ ~run.publish => git = NoGit

\* A job whose project has been resolved.
Resolved(path, name, run, git) ==
    path.dir # None /\ path # Refused /\ name \notin Blank /\ Settled(run, git)

IsResolved(j) ==
    \E path, name, task, run, git :
       j = Job(path, name, task, With(run, git)) /\ Resolved(path, name, run, git)

LEMMA RecordsDiffer ==
    /\ NoGit # Refused
    /\ \A r, g : With(r, g) # Refused
    /\ \A d, n : [dir |-> d, name |-> n] # Refused
<1>1. DOMAIN Refused = {"refused"} /\ DOMAIN NoGit = {"none"}
  BY DEF Refused, NoGit
<1>2. \A r, g : DOMAIN With(r, g) = {"run", "git"}
  BY DEF With
<1>3. \A d, n : DOMAIN [dir |-> d, name |-> n] = {"dir", "name"}
  OBVIOUS
<1>4. QED
  BY <1>1, <1>2, <1>3

LEMMA SettledIsValid ==
    ASSUME NEW run, NEW git, Settled(run, git)
    PROVE  ToRunConfiguration(With(run, git)) # Refused
<1> DEFINE c == With(run, git)
           g == IF c.git = NoGit THEN NoGit ELSE GitPublishConfig(c.git)
<1>1. c.run = run /\ c.git = git
  BY DEF With
<1> HIDE DEF c
<1>2. run.max_iterations # 0 /\ run.max_jobs # 0 /\ run.publish \in BOOLEAN
  BY DEF Settled
<1>3. g = git
  BY <1>1, <1>2 DEF Settled
<1>4. git # Refused /\ ~(run.publish /\ git = NoGit)
  BY <1>2, RecordsDiffer DEF Settled
<1>5. ToRunConfiguration(c) = IF \/ c.run.max_iterations = 0 \/ c.run.max_jobs = 0
                                 \/ g = Refused \/ (c.run.publish /\ g = NoGit)
                              THEN Refused ELSE With(c.run, g)
  BY DEF ToRunConfiguration
<1> HIDE DEF g
<1>6. ToRunConfiguration(c) = With(c.run, g)
  BY <1>1, <1>2, <1>3, <1>4, <1>5
<1>7. QED
  BY <1>6, RecordsDiffer DEF c

LEMMA JobFields ==
    ASSUME NEW j, NEW a, NEW b, NEW c, NEW d, j = Job(a, b, c, d), NEW x
    PROVE  /\ j.project = a /\ j.name = b /\ j.task = c /\ j.configuration = d
           /\ [j EXCEPT !.task = x] = Job(a, b, x, d)
           /\ [j EXCEPT !.name = x] = Job(a, x, c, d)
           /\ [j EXCEPT !.project = x] = Job(x, b, c, d)
           /\ [j EXCEPT !.configuration = x] = Job(a, b, c, x)
BY DEF Job

\* What becomes of a resolved job at the daemon: only the blanks around its task are gone, when
\* it is accepted, when it is recovered and when its driver begins.
LEMMA SubmittedOne ==
    ASSUME NEW path, NEW name, NEW task, NEW run, NEW git, Resolved(path, name, run, git),
           NEW j, j = Job(path, name, task, With(run, git))
    PROVE  /\ SubmitOne(j, "daemon") = [queued |-> TRUE, job |-> Job(path, name, Trim(task), With(run, git))]
           /\ Driven(Recovered(Job(path, name, Trim(task), With(run, git))))
                = Job(path, name, Trim(task), With(run, git))
           /\ [j EXCEPT !.task = Trim(task)] = Job(path, name, Trim(task), With(run, git))
           /\ j.task = task
           /\ IsValid(j) <=> ~IsBlank(task)
<1> DEFINE c == With(run, git)
           t == Trim(task)
           r == [j EXCEPT !.name = NamedOr(j.name, j.project), !.task = t]
           k == Job(path, name, t, c)
<1>1. j.project = path /\ j.name = name /\ j.task = task /\ j.configuration = c
  BY JobFields
<1>2. NamedOr(j.name, j.project) = name
  BY <1>1 DEF NamedOr, Resolved
<1> HIDE DEF t, c
<1>3. j = Job(path, name, task, c)
  BY DEF c
<1>4. r = k
  <2>1. DOMAIN j = {"project", "name", "task", "configuration"}
    BY <1>3 DEF Job
  <2>2. r = [f \in DOMAIN j |-> r[f]]
    OBVIOUS
  <2>3. r.project = path /\ r.name = name /\ r.task = t /\ r.configuration = c
    BY <1>2, <1>3 DEF Job
  <2> HIDE DEF r
  <2>4. QED
    BY <2>1, <2>2, <2>3 DEF Job
<1>5. k.project = path /\ k.name = name /\ k.task = t /\ k.configuration = c
  BY JobFields
<1>6. [k EXCEPT !.project = path] = k
  BY JobFields
<1> HIDE DEF r, k
<1>7. AcceptOne(k, "daemon") = [queued |-> TRUE, job |-> k]
  <2>1. Canonicalize(k.project, "daemon") = path /\ path # Refused
    BY <1>5 DEF Canonicalize, Resolved
  <2>2. QED
    BY <1>6, <2>1 DEF AcceptOne
<1>8. SubmitOne(j, "daemon") = AcceptOne(r, "daemon")
  BY <1>1 DEF SubmitOne, r, t
<1>9. SubmitOne(j, "daemon") = [queued |-> TRUE, job |-> k]
  BY <1>4, <1>7, <1>8
<1>10. Recovered(k) = k
  BY <1>7 DEF Recovered
<1>11. Driven(k) = k
  <2>1. c.run = run /\ c.git = git
    BY DEF c, With
  <2> DEFINE publishes == k.configuration.run.publish /\ k.configuration.git # NoGit
             run2 == [run EXCEPT !.publish = publishes]
             git2 == IF publishes THEN git ELSE NoGit
  <2>2. publishes = run.publish /\ run.publish \in BOOLEAN
    BY <1>5, <2>1 DEF Resolved, Settled
  <2>3. git2 = git
    BY <2>2 DEF Resolved, Settled
  <2>4. run2 = run
    BY <2>2 DEF Resolved, Settled
  <2>5. Driven(k) = [k EXCEPT !.configuration = With(run2, git2)]
    BY <1>5, <2>1 DEF Driven
  <2> HIDE DEF publishes, run2, git2
  <2>6. With(run2, git2) = c
    BY <2>3, <2>4 DEF c
  <2>7. [k EXCEPT !.configuration = c] = k
    BY JobFields DEF k
  <2>8. QED
    BY <2>5, <2>6, <2>7
<1>12. [j EXCEPT !.task = t] = k
  BY <1>3, JobFields DEF k
<1>13. IsValid(j) <=> ~IsBlank(task)
  <2>1. ToRunConfiguration(c) # Refused
    BY SettledIsValid DEF Resolved, c
  <2>2. QED
    BY <1>1, <2>1 DEF IsValid
<1>14. QED
  BY <1>1, <1>9, <1>10, <1>11, <1>12, <1>13 DEF k, t, c

\* A submission of resolved jobs that have tasks is delivered as it is but for the blanks.
LEMMA AllDelivered ==
    ASSUME NEW E, NEW jobs \in Seq(E), Len(jobs) <= MaxRequests,
           \A i \in DOMAIN jobs : IsResolved(jobs[i]) /\ ~IsBlank(jobs[i].task)
    PROVE  Delivered(jobs) = Trimmed(jobs)
<1> DEFINE N == Len(jobs)
           none == Picked(jobs, DOMAIN jobs \ ValidPlaces(jobs))
           some == Picked(jobs, ValidPlaces(jobs))
           refused == [i \in DOMAIN none |-> [queued |-> FALSE]]
           taken == [i \in DOMAIN jobs |-> SubmitOne(jobs[i], "daemon")]
           outcomes == DaemonAccepts(jobs, "daemon")
<1>1. N \in Nat /\ DOMAIN jobs = 1 .. N
  BY LenProperties
<1>2. ASSUME NEW i \in DOMAIN jobs
      PROVE  /\ IsValid(jobs[i])
             /\ SubmitOne(jobs[i], "daemon").queued
             /\ Driven(Recovered(SubmitOne(jobs[i], "daemon").job))
                  = [jobs[i] EXCEPT !.task = Trim(@)]
  <2> DEFINE j == jobs[i]
             v == SubmitOne(j, "daemon")
  <2>1. PICK path, name, task, run, git :
          j = Job(path, name, task, With(run, git)) /\ Resolved(path, name, run, git)
    BY DEF IsResolved
  <2> DEFINE k == Job(path, name, Trim(task), With(run, git))
  <2>2. ~IsBlank(j.task)
    OBVIOUS
  <2> HIDE DEF j, k, v
  <2>3. /\ SubmitOne(j, "daemon") = [queued |-> TRUE, job |-> k]
        /\ Driven(Recovered(k)) = k
        /\ [j EXCEPT !.task = Trim(task)] = k
        /\ j.task = task
        /\ IsValid(j) <=> ~IsBlank(task)
    BY <2>1, SubmittedOne DEF k
  <2>4. v.queued /\ v.job = k
    BY <2>3 DEF v
  <2>5. [j EXCEPT !.task = Trim(j.task)] = k
    BY <2>3
  <2>6. IsValid(j) /\ v.queued /\ Driven(Recovered(v.job)) = [j EXCEPT !.task = Trim(@)]
    BY <2>2, <2>3, <2>4, <2>5
  <2>7. QED
    BY <2>6 DEF j, v
<1>3. ValidPlaces(jobs) = DOMAIN jobs
  BY <1>2 DEF ValidPlaces
<1>4. some = jobs /\ none = <<>>
  <2>1. DOMAIN jobs \ ValidPlaces(jobs) = {}
    BY <1>3
  <2>2. QED
    BY <1>3, <2>1, PickedAll
<1>5. CASE jobs = <<>>
  <2>1. outcomes = <<>>
    BY <1>5 DEF DaemonAccepts
  <2>2. Delivered(jobs) = <<>>
    <3> HIDE DEF outcomes
    <3>1. ~SubmitSucceeds(outcomes)
      BY <2>1 DEF SubmitSucceeds
    <3>2. QED
      BY <3>1 DEF Delivered, outcomes
  <2>3. Trimmed(jobs) = <<>>
    BY <1>5 DEF Trimmed
  <2>4. QED
    BY <2>2, <2>3
<1>6. CASE jobs # <<>>
  <2>1. N > 0
    BY <1>1, <1>6, EmptySeq
  <2>2. ~(N > MaxRequests)
    BY <1>1, SubmissionAssumption
  <2>3. refused = <<>> /\ [i \in DOMAIN some |-> SubmitOne(some[i], "daemon")] = taken
    <3> HIDE DEF none, some
    <3>1. DOMAIN none = {} /\ some = jobs
      BY <1>4
    <3>2. refused = <<>>
      BY <3>1
    <3>3. [i \in DOMAIN some |-> SubmitOne(some[i], "daemon")] = taken
      BY <3>1
    <3>4. QED
      BY <3>2, <3>3
  <2>4. outcomes = refused \o taken
    <3>1. DaemonAccepts(jobs, "daemon")
            = refused \o [i \in DOMAIN some |-> SubmitOne(some[i], "daemon")]
      BY <1>6, <2>2 DEF DaemonAccepts
    <3> HIDE DEF refused, some, taken
    <3>2. QED
      BY <2>3, <3>1
  <2> DEFINE O == {SubmitOne(jobs[i], "daemon") : i \in DOMAIN jobs}
  <2>5. taken \in Seq(O) /\ Len(taken) = N
    <3>1. taken \in [1 .. N -> O]
      BY <1>1
    <3>2. QED
      BY <1>1, <3>1
  <2>6. outcomes = taken
    <3> HIDE DEF O, taken, outcomes, refused
    <3>1. <<>> \o taken = taken
      BY <2>5, ConcatEmptySeq
    <3>2. QED
      BY <2>3, <2>4, <3>1
  <2>7. DOMAIN taken = DOMAIN jobs /\ \A i \in DOMAIN jobs : taken[i] = SubmitOne(jobs[i], "daemon")
    OBVIOUS
  <2> HIDE DEF outcomes, taken, O
  <2>8. SubmitSucceeds(outcomes)
    <3>1. taken # <<>>
      BY <1>1, <2>1, <2>5, EmptySeq
    <3>2. QED
      BY <1>2, <2>6, <2>7, <3>1 DEF SubmitSucceeds
  <2>9. Delivered(jobs) = [i \in DOMAIN outcomes |-> Driven(Recovered(outcomes[i].job))]
    BY <2>8 DEF Delivered, outcomes
  <2>10. \A i \in DOMAIN jobs : Driven(Recovered(outcomes[i].job)) = [jobs[i] EXCEPT !.task = Trim(@)]
    BY <1>2, <2>6, <2>7
  <2>11. QED
    BY <2>6, <2>7, <2>9, <2>10 DEF Trimmed
<1>7. QED
  BY <1>5, <1>6

\* A submission with a job that is not valid leaves none.
LEMMA NoneDelivered ==
    ASSUME NEW E, NEW jobs \in Seq(E), NEW i \in DOMAIN jobs, ~IsValid(jobs[i])
    PROVE  Delivered(jobs) = <<>>
<1> DEFINE left == DOMAIN jobs \ ValidPlaces(jobs)
           none == Picked(jobs, left)
           some == Picked(jobs, ValidPlaces(jobs))
           refused == [k \in DOMAIN none |-> [queued |-> FALSE]]
           taken == [k \in DOMAIN some |-> SubmitOne(some[k], "daemon")]
           outcomes == DaemonAccepts(jobs, "daemon")
           O == {[queued |-> FALSE]} \cup {SubmitOne(some[k], "daemon") : k \in DOMAIN some}
<1>1. left \in SUBSET (DOMAIN jobs) /\ i \in left /\ ValidPlaces(jobs) \in SUBSET (DOMAIN jobs)
  BY DEF ValidPlaces
<1>2. none \in Seq(E) /\ none # <<>> /\ some \in Seq(E)
  <2> HIDE DEF left
  <2>1. QED
    BY <1>1, PickedSome
<1> HIDE DEF none, some
<1>3. DOMAIN none = 1 .. Len(none) /\ Len(none) \in Nat /\ Len(none) >= 1
      /\ DOMAIN some = 1 .. Len(some) /\ Len(some) \in Nat
  BY <1>2, LenProperties, EmptySeq
<1>4. refused \in Seq(O) /\ Len(refused) = Len(none) /\ refused[1].queued = FALSE
  <2>1. refused \in [1 .. Len(none) -> O]
    BY <1>3
  <2>2. QED
    BY <1>3, <2>1
<1>5. taken \in Seq(O)
  <2>1. taken \in [1 .. Len(some) -> O]
    BY <1>3
  <2>2. QED
    BY <1>3, <2>1
<1>6. outcomes = <<>> \/ outcomes = refused \o taken
  BY DEF DaemonAccepts, none, some
<1> HIDE DEF refused, taken, O
<1>7. ~SubmitSucceeds(outcomes)
  <2>1. CASE outcomes = <<>>
    BY <2>1 DEF SubmitSucceeds
  <2>2. CASE outcomes = refused \o taken
    <3> DEFINE a == refused \o taken
    <3>1. /\ a \in Seq(O) /\ Len(a) = Len(refused) + Len(taken)
          /\ \A k \in 1 .. Len(refused) + Len(taken) :
                a[k] = IF k <= Len(refused) THEN refused[k] ELSE taken[k - Len(refused)]
      BY <1>4, <1>5, ConcatProperties, ZenonT(60)
    <3> HIDE DEF a, outcomes
    <3>2. Len(taken) \in Nat /\ DOMAIN a = 1 .. Len(a)
      BY <1>5, <3>1, LenProperties
    <3>3. 1 \in DOMAIN a /\ a[1] = refused[1]
      BY <1>3, <1>4, <3>1, <3>2
    <3>4. ~(\A k \in DOMAIN a : a[k].queued)
      BY <1>4, <3>3
    <3>5. QED
      BY <2>2, <3>4 DEF SubmitSucceeds, a
  <2>3. QED
    BY <1>6, <2>1, <2>2
<1>8. QED
  BY <1>7 DEF Delivered

-----------------------------------------------------------------------------
(* What a command line starts, on any machine.                             *)

LEMMA CommandLine ==
    ASSUME NEW K, NEW line \in Seq(K), NEW w
    PROVE  LET a == <<w>> \o line
           IN  a # <<>> /\ a[1] = w /\ SubSeq(a, 2, Len(a)) = line
<1> DEFINE L == K \cup {w}
           first == <<w>>
           a == first \o line
           t == SubSeq(a, 2, Len(a))
<1>1. first \in Seq(L) /\ Len(first) = 1 /\ first[1] = w /\ line \in Seq(L) /\ Len(line) \in Nat
  OBVIOUS
<1> HIDE DEF first, L
<1>2. /\ a \in Seq(L) /\ Len(a) = Len(first) + Len(line)
      /\ \A i \in 1 .. Len(first) + Len(line) :
            a[i] = IF i <= Len(first) THEN first[i] ELSE line[i - Len(first)]
  BY <1>1, ConcatProperties
<1> HIDE DEF a
<1>3. a # <<>> /\ a[1] = w
  BY <1>1, <1>2, EmptySeq
<1>4. \A i \in 1 .. Len(line) : a[1 + i] = line[i]
  <2>1. SUFFICES ASSUME NEW i \in 1 .. Len(line) PROVE a[1 + i] = line[i]
    OBVIOUS
  <2>2. 1 + i \in 1 .. Len(first) + Len(line) /\ ~(1 + i <= Len(first)) /\ (1 + i) - Len(first) = i
    BY <1>1
  <2>3. QED
    BY <1>2, <2>2
<1>5. t \in Seq(L) /\ Len(t) = Len(line) /\ \A i \in 1 .. Len(line) : t[i] = a[1 + i]
  BY <1>1, <1>2
<1> HIDE DEF t
<1>6. t = line
  <2>1. \A i \in 1 .. Len(line) : t[i] = line[i]
    BY <1>4, <1>5
  <2>2. QED
    BY <1>1, <1>5, <2>1, SeqEqual
<1>7. QED
  BY <1>3, <1>6 DEF t, a, first

LEMMA StartedAs ==
    ASSUME NEW K, NEW line \in Seq(K), NEW shell
    PROVE  /\ Started(<<"run">> \o line, shell) = RunJobs(ParseRun(line, shell.cwd), shell)
           /\ Started(<<"scheduler">> \o line, shell) = SchedulerJobs(ParseScheduler(line), shell)
           /\ Started(<<"submit">> \o line, shell) = SubmitJobs(ParseSubmit(line, shell.cwd), shell)
<1>1. ASSUME NEW w \in {"run", "scheduler", "submit"}
      PROVE  /\ Dispatch(<<w>> \o line) = [command |-> w, rest |-> line]
             /\ Dispatch(<<w>> \o line) # Refused
  <2> DEFINE a == <<w>> \o line
  <2>1. a # <<>> /\ a[1] = w /\ SubSeq(a, 2, Len(a)) = line
    BY CommandLine
  <2> HIDE DEF a
  <2>2. w \in Subcommands /\ w \notin {"-h", "--help", "-V", "--version", "doctor", "daemon"}
    BY DEF Subcommands
  <2>3. Dispatch(a) = [command |-> w, rest |-> SubSeq(a, 1 + 1, Len(a))]
    BY <2>1, <2>2 DEF Dispatch
  <2>4. DOMAIN [command |-> w, rest |-> line] = {"command", "rest"} /\ DOMAIN Refused = {"refused"}
    BY DEF Refused
  <2>5. 1 + 1 = 2
    OBVIOUS
  <2>6. Dispatch(a) = [command |-> w, rest |-> line]
    BY <2>1, <2>3, <2>5
  <2>7. QED
    BY <2>4, <2>6 DEF a
<1> DEFINE c(w) == Dispatch(<<w>> \o line)
<1>2. \A w \in {"run", "scheduler", "submit"} : c(w) # Refused /\ c(w).command = w /\ c(w).rest = line
  BY <1>1
<1>3. c("run") # Refused /\ c("run").command = "run" /\ c("run").rest = line
  BY <1>2
<1>4. c("scheduler") # Refused /\ c("scheduler").command = "scheduler" /\ c("scheduler").rest = line
  BY <1>2
<1>5. c("submit") # Refused /\ c("submit").command = "submit" /\ c("submit").rest = line
  BY <1>2
<1> HIDE DEF c
<1>6. Started(<<"run">> \o line, shell) = RunJobs(ParseRun(line, shell.cwd), shell)
  BY <1>3 DEF Started, c
<1>7. Started(<<"scheduler">> \o line, shell) = SchedulerJobs(ParseScheduler(line), shell)
  BY <1>4 DEF Started, c
<1>8. Started(<<"submit">> \o line, shell) = SubmitJobs(ParseSubmit(line, shell.cwd), shell)
  BY <1>5 DEF Started, c
<1>9. QED
  BY <1>6, <1>7, <1>8

\* A line that is one word, which every grammar with words takes.
OneWord(w) == [ok |-> TRUE, option |-> None, flag |-> {}, value |-> <<>>, words |-> <<w>>]

LEMMA WordIsScanned ==
    ASSUME NEW g, NEW w, Told(g), w \notin g.flags, w \notin Valued(g), w \notin Dashed, g.words # "none"
    PROVE  Scan(g, <<w>>) = OneWord(w)
<1> DEFINE s == NothingScanned
           e == <<>>
           yes == TRUE
           ws == Append(s.words, w)
           no == {}
<1>1. s = [ok |-> yes, option |-> None, flag |-> no, value |-> e, words |-> e]
  BY DEF NothingScanned
<1>2. s.ok /\ s.option = None /\ s.words = <<>>
  BY DEF NothingScanned
<1>3. ws = <<w>>
  BY <1>2
<1>4. OneWord(w) = [ok |-> yes, option |-> None, flag |-> no, value |-> e, words |-> ws]
  BY <1>3 DEF OneWord
<1>5. yes = TRUE /\ no = {}
  OBVIOUS
<1> HIDE DEF s, e, yes, ws, no
<1>6. [s EXCEPT !.words = ws] = OneWord(w)
  BY <1>1, <1>4
<1>7. Argument(g, s, w) = [s EXCEPT !.words = ws]
  BY <1>2 DEF Argument, ws
<1>8. Scanned(g, <<w>>) = OneWord(w)
  BY <1>6, <1>7, ScannedOne DEF s
<1> DEFINE o == OneWord(w)
           ok == o.ok /\ o.option = None /\ ~({"--verbose", "--json"} \subseteq o.flag)
<1>9. o = [ok |-> yes, option |-> None, flag |-> no, value |-> e, words |-> ws] /\ o.ok /\ ok
  BY <1>4, <1>5
<1> HIDE DEF o
<1>10. ok = yes /\ Complete(o) = [o EXCEPT !.ok = ok]
  BY <1>5, <1>9 DEF Complete
<1> HIDE DEF ok
<1>11. [o EXCEPT !.ok = yes] = o
  BY <1>9
<1>12. Complete(o) = o
  BY <1>10, <1>11
<1>13. QED
  BY <1>8, <1>12 DEF Scan, o

\* What `lya run` and `lya submit` make of one word.
LEMMA WordIsParsed ==
    ASSUME NEW cwd
    PROVE  /\ ParseRun(<<"dir">>, cwd).task = <<"dir">> /\ ParseRun(<<"dir">>, cwd) # Refused
           /\ ParseRun(<<"dir">>, cwd).project = [dir |-> cwd, name |-> "."]
           /\ ~ParseRun(<<"dir">>, cwd).run.publish
           /\ ParseSubmit(<<"dir">>, cwd).task = <<"dir">> /\ ParseSubmit(<<"dir">>, cwd) # Refused
           /\ ParseSubmit(<<"dir">>, cwd).project = [dir |-> cwd, name |-> "."]
           /\ ~ParseSubmit(<<"dir">>, cwd).run.publish
           /\ "file" \notin DOMAIN ParseSubmit(<<"dir">>, cwd)
<1> DEFINE o == OneWord("dir")
           config == RunConfiguration(o)
           place == [dir |-> cwd, name |-> "."]
<1>1. Scan(RunGrammar, <<"dir">>) = o
  BY WordIsScanned, GrammarsAreTold DEF RunGrammar, Valued, Dashed
<1>2. Scan(SubmitGrammar, <<"dir">>) = o
  BY WordIsScanned, GrammarsAreTold DEF SubmitGrammar, Valued, Dashed
<1>3. o.ok /\ o.words = <<"dir">> /\ o.words # <<>> /\ o.flag = {} /\ DOMAIN o.value = {}
  BY DEF OneWord
<1> HIDE DEF o
<1>4. ~config.publish
  <2> DEFINE p == "--publish" \in o.flag
             b == "--browser" \in o.flag
             n == Number(o, "--max-iterations", DEFAULT_MAX_ITERATIONS)
             m == Number(o, "--max-jobs", DEFAULT_MAX_JOBS)
  <2>1. ~p
    BY <1>3
  <2>2. config = [max_iterations |-> n, max_jobs |-> m, browser |-> b, publish |-> p]
    BY DEF RunConfiguration
  <2> HIDE DEF config, p, b, n, m
  <2>3. QED
    BY <2>1, <2>2
<1>5. Canonicalize(Relative(Given(o, "--project", ".")), cwd) = place
  BY <1>3 DEF Canonicalize, Relative, Given, Blank
<1>6. place # Refused
  BY RecordsDiffer
<1> DEFINE r == [project |-> place, task |-> o.words, run |-> config, output |-> Output(o)]
           s == [project |-> place, task |-> o.words, run |-> config]
<1>7. DOMAIN r = {"project", "task", "run", "output"} /\ DOMAIN s = {"project", "task", "run"}
      /\ DOMAIN Refused = {"refused"}
  BY DEF Refused
<1> HIDE DEF place, config
<1>8. r.task = o.words /\ r.project = place /\ r.run = config
      /\ s.task = o.words /\ s.project = place /\ s.run = config
  OBVIOUS
<1>9. ParseRun(<<"dir">>, cwd) = r
  BY <1>1, <1>3, <1>4, <1>5, <1>6 DEF ParseRun, config
<1>10. ParseSubmit(<<"dir">>, cwd) = s
  BY <1>2, <1>3, <1>4, <1>5, <1>6 DEF ParseSubmit, config
<1>11. r # Refused /\ s # Refused /\ "file" \notin DOMAIN s
  BY <1>7
<1> HIDE DEF r, s
<1>12. QED
  BY <1>3, <1>4, <1>8, <1>9, <1>10, <1>11 DEF place

LEMMA ConfiguredOne ==
    ASSUME NEW r, NEW run, NEW git, git # Refused
    PROVE  Configured(<<r>>, run, git) = <<Job(r.project, r.name, r.task, With(run, git))>>
BY DEF Configured

\* Whatever machine `lya doctor` calls ready gets past every preparation, and one that can start
\* a job itself can hand it to a daemon (doctor, load_required_private_context, lya_home).
THEOREM AnyMachineIsPrepared ==
    ASSUME NEW shell
    PROVE  IsPrepared(shell)
<1> DEFINE o == ParseRun(<<"dir">>, shell.cwd)
           s == ParseSubmit(<<"dir">>, shell.cwd)
           line == <<"dir">>
           J == Request(o.project, o.task)
<1>1. line \in Seq({"dir"}) /\ <<"run", "dir">> = <<"run">> \o line /\ <<"submit", "dir">> = <<"submit">> \o line
  OBVIOUS
<1>2. Started(<<"run">> \o line, shell) = RunJobs(o, shell)
      /\ Started(<<"submit">> \o line, shell) = SubmitJobs(s, shell)
  <2> HIDE DEF line
  <2>1. QED
    BY <1>1, StartedAs DEF line
<1>3. o # Refused /\ s # Refused /\ o.task = <<"dir">> /\ "file" \notin DOMAIN s
      /\ ~o.run.publish /\ ~s.run.publish
  BY WordIsParsed
<1> HIDE DEF o, s, line
<1>4. ~IsBlank(o.task)
  <2>1. 1 \in DOMAIN o.task /\ o.task[1] = "dir" /\ "dir" \notin Blank
    BY <1>3 DEF Blank
  <2>2. QED
    BY <2>1 DEF IsBlank
<1>5. GitFor(o.run, shell.env) = NoGit /\ GitFor(s.run, shell.env) = NoGit /\ NoGit # Refused
  BY <1>3, RecordsDiffer DEF GitFor
<1>6. \A r, run : Configured(<<r>>, run, NoGit) # <<>>
  BY <1>5 DEF Configured
<1>7. Prepared(shell) => RunJobs(o, shell) # <<>>
  BY <1>3, <1>4, <1>5, <1>6 DEF RunJobs
<1>8. LyaHome(shell) # <<>> => SubmitJobs(s, shell) # <<>>
  BY <1>3, <1>5, <1>6 DEF SubmitJobs
<1>9. RunJobs(o, shell) # <<>> => Prepared(shell)
  BY <1>3 DEF RunJobs
<1>10. QED
  BY <1>1, <1>2, <1>7, <1>8, <1>9 DEF IsPrepared, DoctorReady, Prepared

\* `lya run` and `lya submit` read the same line alike.
LEMMA SameArgument ==
    ASSUME NEW K, K \cap {"--verbose", "--file"} = {}, NEW s \in Scans(RunGrammar, K), NEW t \in K
    PROVE  Argument(RunGrammar, s, t) = Argument(SubmitGrammar, s, t)
<1> DEFINE g == RunGrammar
           h == SubmitGrammar
<1>1. t # "--verbose" /\ t # "--file"
  OBVIOUS
<1>2. (t \in g.flags) <=> (t \in h.flags)
  BY <1>1 DEF RunGrammar, SubmitGrammar
<1>3. (t \in Valued(g)) <=> (t \in Valued(h))
  BY <1>1 DEF Valued, RunGrammar, SubmitGrammar
<1>4. g.words = "many" /\ h.words = "many" /\ Told(g) /\ Told(h)
  BY GrammarsAreTold DEF RunGrammar, SubmitGrammar
<1>5. s.option \in Valued(g) \cup {None}
  BY DEF Scans
<1>6. s.option # None => (Acceptable(g, s.option, t) <=> Acceptable(h, s.option, t))
  <2>1. SUFFICES ASSUME s.option # None PROVE Acceptable(g, s.option, t) <=> Acceptable(h, s.option, t)
    OBVIOUS
  <2>2. s.option \in {"--project", "--max-iterations", "--max-jobs"}
    BY <1>5, <2>1 DEF Valued, RunGrammar
  <2>3. CASE s.option = "--project"
    BY <2>3 DEF Acceptable, RunGrammar, SubmitGrammar
  <2>4. CASE s.option \in {"--max-iterations", "--max-jobs"}
    BY <2>4 DEF Acceptable, RunGrammar, SubmitGrammar
  <2>5. QED
    BY <2>2, <2>3, <2>4
<1> HIDE DEF g, h
<1>7. CASE ~s.ok
  BY <1>7, ArgumentRefused
<1>8. CASE s.ok /\ s.option # None
  <2> DEFINE taken == [s EXCEPT !.option = None, !.value = [o \in DOMAIN @ \cup {s.option} |->
                                                              IF o = s.option THEN t ELSE @[o]]]
             left == [s EXCEPT !.ok = FALSE]
  <2>1. Argument(g, s, t) = IF Acceptable(g, s.option, t) THEN taken ELSE left
    BY <1>8 DEF Argument
  <2>2. Argument(h, s, t) = IF Acceptable(h, s.option, t) THEN taken ELSE left
    BY <1>8 DEF Argument
  <2> HIDE DEF taken, left
  <2>3. QED
    BY <1>6, <1>8, <2>1, <2>2 DEF g, h
<1>9. CASE s.ok /\ s.option = None /\ t \in g.flags
  <2>1. t \notin Valued(g) /\ t \notin Valued(h) /\ t \in h.flags
    BY <1>2, <1>4, <1>9 DEF Told
  <2>2. Argument(g, s, t) = [s EXCEPT !.flag = @ \cup {t}]
    BY <1>9, <2>1 DEF Argument
  <2>3. Argument(h, s, t) = [s EXCEPT !.flag = @ \cup {t}]
    BY <1>9, <2>1 DEF Argument
  <2>4. QED
    BY <2>2, <2>3 DEF g, h
<1>10. CASE s.ok /\ s.option = None /\ t \in Valued(g)
  <2>1. t \notin g.flags /\ t \notin h.flags /\ t \in Valued(h)
    BY <1>3, <1>4, <1>10 DEF Told
  <2>2. Argument(g, s, t) = [s EXCEPT !.option = t]
    BY <1>10, <2>1 DEF Argument
  <2>3. Argument(h, s, t) = [s EXCEPT !.option = t]
    BY <1>10, <2>1 DEF Argument
  <2>4. QED
    BY <2>2, <2>3 DEF g, h
<1>11. CASE s.ok /\ s.option = None /\ t \notin g.flags /\ t \notin Valued(g)
  <2>1. t \notin h.flags /\ t \notin Valued(h)
    BY <1>2, <1>3, <1>11
  <2>2. Argument(g, s, t) = IF t \in Dashed THEN [s EXCEPT !.ok = FALSE] ELSE [s EXCEPT !.words = Append(@, t)]
    BY <1>4, <1>11 DEF Argument
  <2>3. Argument(h, s, t) = IF t \in Dashed THEN [s EXCEPT !.ok = FALSE] ELSE [s EXCEPT !.words = Append(@, t)]
    BY <1>4, <1>11, <2>1 DEF Argument
  <2>4. QED
    BY <2>2, <2>3 DEF g, h
<1>12. QED
  BY <1>7, <1>8, <1>9, <1>10, <1>11 DEF g, h

LEMMA SameScan ==
    ASSUME NEW K, K \cap {"--verbose", "--file"} = {}, NEW line \in Seq(K)
    PROVE  Scan(RunGrammar, line) = Scan(SubmitGrammar, line)
<1> DEFINE A(s) == Scanned(RunGrammar, s)
           B(s) == Scanned(SubmitGrammar, s)
           T == {s \in Seq(K) : A(s) = B(s)}
<1>1. <<>> \in T
  <2> DEFINE e == <<>>
  <2>1. e \in Seq(K) /\ A(e) = B(e)
    BY EmptySeq, ScannedEmpty, GrammarsAreTold
  <2> HIDE DEF A, B, e
  <2>2. e \in T
    BY <2>1
  <2> HIDE DEF T
  <2>3. QED
    BY <2>2 DEF e
<1>2. ASSUME NEW s \in Seq(K), NEW t \in K, s \in T PROVE Append(s, t) \in T
  <2>1. Append(s, t) \in Seq(K) /\ A(s) = B(s)
    BY <1>2, AppendProperties
  <2>2. A(Append(s, t)) = Argument(RunGrammar, A(s), t)
    BY ScannedAppend, GrammarsAreTold
  <2>3. B(Append(s, t)) = Argument(SubmitGrammar, B(s), t)
    BY ScannedAppend, GrammarsAreTold
  <2>4. A(s) \in Scans(RunGrammar, K)
    BY ScannedType, GrammarsAreTold
  <2> HIDE DEF A, B
  <2>5. Argument(RunGrammar, A(s), t) = Argument(SubmitGrammar, A(s), t)
    BY <2>4, SameArgument
  <2>6. QED
    BY <2>1, <2>2, <2>3, <2>5
<1> HIDE DEF T
<1>3. line \in T
  BY <1>1, <1>2, SeqInduction
<1>4. QED
  BY <1>3 DEF T, Scan

\* The limits of a line that was accepted are positive.
LEMMA LimitsArePositive ==
    ASSUME NEW K, NEW s \in Scans(RunGrammar, K)
    PROVE  RunConfiguration(s)
             \in [max_iterations : Nat \ {0}, max_jobs : Nat \ {0}, browser : BOOLEAN, publish : BOOLEAN]
<1>1. ASSUME NEW o \in {"--max-iterations", "--max-jobs"} PROVE Number(s, o, 10) \in Nat \ {0}
  <2>1. CASE o \in DOMAIN s.value
    <3>1. Acceptable(RunGrammar, o, s.value[o])
      BY <2>1 DEF Scans
    <3>2. s.value[o] \in DOMAIN Reads /\ Reads[s.value[o]] > 0
      BY <3>1 DEF Acceptable, RunGrammar, FitsU32
    <3>3. \A t \in DOMAIN Reads : Reads[t] \in Nat
      BY DEF Reads
    <3>4. Reads[s.value[o]] \in Nat \ {0}
      BY <3>2, <3>3
    <3>5. QED
      BY <2>1, <3>4 DEF Number
  <2>2. CASE o \notin DOMAIN s.value
    BY <2>2 DEF Number
  <2>3. QED
    BY <2>1, <2>2
<1>2. QED
  BY <1>1 DEF RunConfiguration, DEFAULT_MAX_ITERATIONS, DEFAULT_MAX_JOBS

\* The machine the commands are compared on is ready.
LEMMA ShellIs ==
    ASSUME NEW env, NEW content, NEW queued, NEW shell, shell = Shell(env, content, queued)
    PROVE  /\ shell.cwd = "shell" /\ shell.env = env /\ shell.queued = queued
           /\ shell.files["file"] = content
           /\ LyaHome(shell) # <<>> /\ Prepared(shell)
<1>1. shell.cwd = "shell" /\ shell.env = env /\ shell.queued = queued
  BY DEF Shell
<1>2. shell.files["file"] = content
  BY DEF Shell
<1>3. shell.home.LYA_HOME = "h" /\ "h" \notin {None, ""}
  BY DEF Shell, None
<1>4. LyaHome(shell) = <<"h">>
  BY <1>3 DEF LyaHome
<1> DEFINE home == <<"h">>
<1>5. LyaHome(shell) = home /\ home # <<>>
  BY <1>4
<1>6. shell.context = [h \in {home} |-> "text"]
  BY DEF Shell
<1> HIDE DEF home
<1>7. PrivateContext(shell) = "text"
  BY <1>5, <1>6 DEF PrivateContext
<1>8. QED
  BY <1>1, <1>2, <1>5, <1>7 DEF Prepared

\* What the environment of a shell configures.
Environments(V) == [name : V, email : V, remote : V, branch : V]

LEMMA GitIsSettled ==
    ASSUME NEW V, NEW env \in Environments(V),
           NEW run \in [max_iterations : Nat \ {0}, max_jobs : Nat \ {0}, browser : BOOLEAN, publish : BOOLEAN],
           GitFor(run, env) # Refused
    PROVE  Settled(run, GitFor(run, env))
<1> DEFINE g == GitFor(run, env)
           r == IF env.remote = None THEN "origin" ELSE env.remote
           e == [env EXCEPT !.remote = r]
<1>1. run.publish \in BOOLEAN
  OBVIOUS
<1>2. CASE ~run.publish
  BY <1>2 DEF GitFor, Settled
<1>3. CASE run.publish
  <2>1. g = GitPublishConfig(e)
    BY <1>3 DEF GitFor, FromEnvironment
  <2>2. DOMAIN e = {"name", "email", "remote", "branch"}
    BY DEF Environments
  <2>3. e # NoGit
    <3>1. DOMAIN NoGit = {"none"}
      BY DEF NoGit
    <3>2. QED
      BY <2>2, <3>1
  <2> HIDE DEF e
  <2>4. GitPublishConfig(e) = e \/ GitPublishConfig(e) = Refused
    BY DEF GitPublishConfig
  <2>5. g = e /\ GitPublishConfig(g) = g
    BY <2>1, <2>4
  <2>6. g # NoGit /\ g # Refused
    BY <2>3, <2>5
  <2> HIDE DEF g
  <2>7. QED
    BY <1>3, <2>5, <2>6 DEF Settled, g
<1>4. QED
  BY <1>1, <1>2, <1>3

\* Whatever line is typed in whatever environment: what `lya submit` leaves with the daemon is
\* the job that `lya run` drives, and what one refuses the other refuses (parse_run,
\* parse_submit, DaemonState::submit, recover).  --verbose and --file are each one's own.
THEOREM AnySubmissionMeansRun ==
    ASSUME NEW K, K \cap {"--verbose", "--file"} = {}, NEW line \in Seq(K),
           NEW V, NEW env \in Environments(V)
    PROVE  SubmitMeansRun(line, env)
<1> DEFINE shell == Shell(env, <<>>, <<>>)
           run == Started(<<"run">> \o line, shell)
           submit == Started(<<"submit">> \o line, shell)
           a == Scan(RunGrammar, line)
           path == Canonicalize(Relative(Given(a, "--project", ".")), "shell")
           config == RunConfiguration(a)
           g == GitFor(config, env)
           r == Request(path, a.words)
           jobs == Configured(<<r>>, config, g)
<1>1. shell.cwd = "shell" /\ shell.env = env /\ LyaHome(shell) # <<>> /\ Prepared(shell)
  BY ShellIs
<1> HIDE DEF shell
<1>2. run = RunJobs(ParseRun(line, "shell"), shell) /\ submit = SubmitJobs(ParseSubmit(line, "shell"), shell)
  BY <1>1, StartedAs
<1>3. a = Scan(SubmitGrammar, line) /\ Scanned(SubmitGrammar, line) \in Scans(SubmitGrammar, K)
      /\ Scanned(RunGrammar, line) \in Scans(RunGrammar, K)
  BY SameScan, ScannedType, GrammarsAreTold
<1>4. "--file" \notin DOMAIN a.value /\ a.value = Scanned(RunGrammar, line).value
  <2> DEFINE b == Scanned(RunGrammar, line)
  <2>1. a = Complete(b) /\ b \in Scans(RunGrammar, K)
    BY <1>3 DEF Scan
  <2> HIDE DEF a, b
  <2>2. a.value = b.value /\ DOMAIN b.value \subseteq Valued(RunGrammar)
    BY <2>1 DEF Complete, Scans
  <2>3. "--file" \notin Valued(RunGrammar)
    BY DEF Valued, RunGrammar
  <2>4. QED
    BY <2>2, <2>3 DEF b
<1>5. Delivered(<<>>) = <<>> /\ Trimmed(<<>>) = <<>>
  <2> DEFINE none == <<>>
  <2>1. none \in Seq({}) /\ Len(none) = 0 /\ DOMAIN none = {}
    BY EmptySeq
  <2>2. Trimmed(none) = <<>>
    BY DEF Trimmed
  <2> HIDE DEF none
  <2>3. 0 <= MaxRequests
    BY SubmissionAssumption
  <2>4. Delivered(none) = Trimmed(none)
    BY <2>1, <2>3, AllDelivered
  <2>5. QED
    BY <2>2, <2>4 DEF none
<1>6. path = Refused \/ (path.dir # None /\ path # Refused)
  <2> DEFINE p == Relative(Given(a, "--project", "."))
  <2>1. p.dir = None /\ p = [dir |-> None, name |-> p.name]
    BY DEF Relative
  <2> HIDE DEF p
  <2>2. Canonicalize(p, "shell") = Refused \/ Canonicalize(p, "shell") = [p EXCEPT !.dir = "shell"]
    BY <2>1 DEF Canonicalize
  <2>3. [p EXCEPT !.dir = "shell"].dir # None
    BY <2>1 DEF None
  <2>4. QED
    BY <2>2, <2>3 DEF p
<1> HIDE DEF path, config, run, submit
<1>7. CASE ~a.ok \/ a.words = <<>> \/ path = Refused
  <2> HIDE DEF a
  <2>1. ParseRun(line, "shell") = Refused
    BY <1>7 DEF ParseRun, a, path
  <2>2. ParseSubmit(line, "shell") = Refused
    <3>1. CASE ~a.ok
      BY <1>3, <3>1 DEF ParseSubmit
    <3>2. CASE a.ok
      BY <1>3, <1>4, <1>7, <3>2 DEF ParseSubmit, path
    <3>3. QED
      BY <3>1, <3>2
  <2>3. run = <<>> /\ submit = <<>>
    BY <1>2, <2>1, <2>2 DEF RunJobs, SubmitJobs
  <2>4. QED
    BY <1>5, <2>3 DEF SubmitMeansRun, run, submit, shell
<1>8. CASE a.ok /\ a.words # <<>> /\ path # Refused
  <2> DEFINE o == [project |-> path, task |-> a.words, run |-> config, output |-> Output(a)]
             s == [project |-> path, task |-> a.words, run |-> config]
  <2>1. DOMAIN o = {"project", "task", "run", "output"} /\ DOMAIN s = {"project", "task", "run"}
        /\ DOMAIN Refused = {"refused"}
    BY DEF Refused
  <2>2. o # Refused /\ s # Refused /\ "file" \notin DOMAIN s
    BY <2>1
  <2>3. o.project = path /\ o.task = a.words /\ o.run = config
        /\ s.project = path /\ s.task = a.words /\ s.run = config
    OBVIOUS
  <2> HIDE DEF a
  <2>4. ParseRun(line, "shell") = o
    BY <1>8 DEF ParseRun, a, path, config
  <2>5. ParseSubmit(line, "shell") = s
    BY <1>3, <1>4, <1>8 DEF ParseSubmit, path, config
  <2> HIDE DEF o, s
  <2>6. run = IF IsBlank(a.words) THEN <<>> ELSE jobs
    BY <1>1, <1>2, <2>2, <2>3, <2>4 DEF RunJobs
  <2>7. submit = jobs
    BY <1>1, <1>2, <2>2, <2>3, <2>5 DEF SubmitJobs
  <2>8. CASE g = Refused
    <3>1. jobs = <<>>
      BY <2>8 DEF Configured
    <3>2. QED
      BY <1>5, <2>6, <2>7, <3>1 DEF SubmitMeansRun, run, submit, shell
  <2>9. CASE g # Refused
    <3> DEFINE name == ProjectName(path)
               j == Job(path, name, a.words, With(config, g))
               E == {j}
               one == <<j>>
    <3>1. config \in [max_iterations : Nat \ {0}, max_jobs : Nat \ {0}, browser : BOOLEAN, publish : BOOLEAN]
      <4> DEFINE b == Scanned(RunGrammar, line)
      <4>1. b \in Scans(RunGrammar, K) /\ a = Complete(b)
        BY <1>3 DEF a, Scan
      <4> HIDE DEF b
      <4>2. a.value = b.value /\ a.flag = b.flag
        BY <4>1 DEF Complete, Scans
      <4>3. RunConfiguration(a) = RunConfiguration(b)
        BY <4>2 DEF RunConfiguration, Number
      <4>4. QED
        BY <4>1, <4>3, LimitsArePositive DEF config
    <3>2. Settled(config, g)
      BY <2>9, <3>1, GitIsSettled
    <3> HIDE DEF g
    <3>3. Resolved(path, name, config, g)
      <4>1. name \notin Blank
        BY DEF ProjectName, Blank
      <4>2. QED
        BY <1>6, <1>8, <3>2, <4>1 DEF Resolved
    <3>4. jobs = one
      <4>1. r.project = path /\ r.name = name /\ r.task = a.words
        BY DEF Request
      <4> HIDE DEF r, name
      <4>2. jobs = <<Job(r.project, r.name, r.task, With(config, g))>>
        BY <2>9, ConfiguredOne
      <4>3. QED
        BY <4>1, <4>2
    <3>5. IsResolved(j)
      <4> HIDE DEF j
      <4>1. j = Job(path, name, a.words, With(config, g))
        BY DEF j
      <4> HIDE DEF name
      <4>2. QED
        BY <3>3, <4>1 DEF IsResolved
    <3>6. j.task = a.words /\ (IsValid(j) <=> ~IsBlank(a.words))
      <4> HIDE DEF name
      <4>1. QED
        BY <3>3, SubmittedOne
    <3> HIDE DEF j, name
    <3>7. one \in Seq(E) /\ Len(one) = 1 /\ DOMAIN one = {1} /\ one[1] = j /\ 1 \in DOMAIN one
      OBVIOUS
    <3> HIDE DEF one, E, jobs
    <3>8. CASE IsBlank(a.words)
      <4>1. Delivered(one) = <<>>
        BY <3>6, <3>7, <3>8, NoneDelivered
      <4>2. QED
        BY <1>5, <2>6, <2>7, <3>4, <3>8, <4>1 DEF SubmitMeansRun, run, submit, shell
    <3>9. CASE ~IsBlank(a.words)
      <4>1. Len(one) <= MaxRequests
        BY <3>7, SubmissionAssumption
      <4>2. \A i \in DOMAIN one : IsResolved(one[i]) /\ ~IsBlank(one[i].task)
        BY <3>5, <3>6, <3>7, <3>9
      <4>3. Delivered(one) = Trimmed(one)
        BY <3>7, <4>1, <4>2, AllDelivered
      <4>4. QED
        BY <2>6, <2>7, <3>4, <3>9, <4>3 DEF SubmitMeansRun, run, submit, shell
    <3>10. QED
      BY <3>8, <3>9
  <2>10. QED
    BY <2>8, <2>9
<1>9. QED
  BY <1>7, <1>8

-----------------------------------------------------------------------------
(* Job files of any lines.                                                 *)

\* The lines of a file: of any kind, with tasks of T, names of N and projects of P.
Rows(T, N, P) == [kind : {"blank", "comment", "malformed", "job"}, task : T,
                  project : [dir : P, name : N], name : N]

\* What a file that is understood asks for.
Requested(T, N, P) ==
    {r \in [project : [dir : P \cup {"shell"}, name : N], name : N \cup {"current-project"}, task : T] :
       r.project.dir # None /\ r.name \notin Blank /\ ~IsBlank(r.task)}

FilesRead(T, N, P) ==
    {s \in [ok : BOOLEAN, requests : Seq(Requested(T, N, P))] : Len(s.requests) <= MaxRequests}

EntryStep(T, N, P) == [p \in FilesRead(T, N, P) \X Rows(T, N, P) |-> Entry(p[1], p[2], "shell")]

LEMMA EntryType ==
    ASSUME NEW T, NEW N, NEW P, NEW s \in FilesRead(T, N, P), NEW line \in Rows(T, N, P)
    PROVE  Entry(s, line, "shell") \in FilesRead(T, N, P)
<1> DEFINE R == Requested(T, N, P)
           path == Canonicalize(line.project, "shell")
           name == NamedOr(line.name, path)
           r == [project |-> path, name |-> name, task |-> line.task]
           bad == \/ line.kind = "malformed" \/ IsBlank(line.task)
                  \/ path = Refused \/ Len(s.requests) = MaxRequests
           skip == ~s.ok \/ line.kind \in {"blank", "comment"}
           more == Append(s.requests, r)
<1>1. /\ s.ok \in BOOLEAN /\ s.requests \in Seq(R) /\ Len(s.requests) <= MaxRequests
      /\ s = [ok |-> s.ok, requests |-> s.requests]
  BY DEF FilesRead
<1>2. line.task \in T /\ line.project \in [dir : P, name : N] /\ line.name \in N
  BY DEF Rows
<1>3. Entry(s, line, "shell") = IF skip THEN s ELSE IF bad THEN [s EXCEPT !.ok = FALSE]
                                ELSE [s EXCEPT !.requests = more]
  BY DEF Entry
<1>4. ASSUME ~bad PROVE r \in R
  <2> DEFINE p == line.project
  <2>1. path = p \/ path = [p EXCEPT !.dir = "shell"]
    BY <1>4 DEF Canonicalize
  <2>2. path.dir # None
    <3>1. CASE p.dir # None
      BY <3>1 DEF Canonicalize
    <3>2. CASE p.dir = None
      <4>1. path = [p EXCEPT !.dir = "shell"]
        BY <1>4, <3>2 DEF Canonicalize
      <4> HIDE DEF path, p
      <4>2. path.dir = "shell"
        BY <1>2, <4>1 DEF p
      <4>3. QED
        BY <4>2 DEF None
    <3>3. QED
      BY <3>1, <3>2
  <2>3. p \in [dir : P, name : N]
    BY <1>2
  <2> HIDE DEF path, p
  <2>4. path \in [dir : P \cup {"shell"}, name : N]
    BY <2>1, <2>3
  <2>5. name \in N \cup {"current-project"} /\ name \notin Blank
    <3>1. path.name \in N
      BY <2>4
    <3>2. ProjectName(path) \in N \cup {"current-project"} /\ ProjectName(path) \notin Blank
      BY <3>1 DEF ProjectName, Blank
    <3>3. QED
      BY <1>2, <3>2 DEF NamedOr
  <2>6. ~IsBlank(line.task)
    BY <1>4
  <2> HIDE DEF name, bad
  <2>7. QED
    BY <1>2, <2>2, <2>4, <2>5, <2>6 DEF Requested
<1> HIDE DEF R
<1>5. CASE skip
  BY <1>3, <1>5
<1>6. CASE ~skip /\ bad
  <2>1. Entry(s, line, "shell") = [s EXCEPT !.ok = FALSE]
    BY <1>3, <1>6
  <2> DEFINE no == FALSE
             q == s.requests
  <2>2. no \in BOOLEAN /\ Entry(s, line, "shell") = [s EXCEPT !.ok = no]
    BY <2>1
  <2> HIDE DEF bad, skip, no
  <2>3. s = [ok |-> s.ok, requests |-> q]
    BY <1>1
  <2> HIDE DEF q
  <2>4. [s EXCEPT !.ok = no] = [ok |-> no, requests |-> q]
    BY <2>3
  <2>5. QED
    BY <1>1, <2>2, <2>4 DEF FilesRead, R, q
<1>7. CASE ~skip /\ ~bad
  <2>1. Entry(s, line, "shell") = [s EXCEPT !.requests = more]
    BY <1>3, <1>7
  <2>2. r \in R
    BY <1>4, <1>7
  <2>3. Len(s.requests) # MaxRequests
    BY <1>7
  <2> HIDE DEF bad, skip, r
  <2>4. more \in Seq(R) /\ Len(more) = Len(s.requests) + 1 /\ Len(s.requests) \in Nat
    BY <1>1, <2>2, AppendProperties, LenProperties
  <2>5. Len(more) <= MaxRequests
    BY <1>1, <2>3, <2>4, SubmissionAssumption
  <2> HIDE DEF more
  <2>6. [s EXCEPT !.requests = more] = [ok |-> s.ok, requests |-> more]
    BY <1>1
  <2>7. QED
    BY <1>1, <2>1, <2>4, <2>5, <2>6 DEF FilesRead, R
<1>8. QED
  BY <1>5, <1>6, <1>7

LEMMA NoEntriesType ==
    ASSUME NEW T, NEW M, NEW P
    PROVE  NoEntries \in FilesRead(T, M, P)
<1>1. <<>> \in Seq(Requested(T, M, P)) /\ Len(<<>>) = 0 /\ 0 <= MaxRequests
  BY EmptySeq, SubmissionAssumption
<1>2. QED
  BY <1>1 DEF NoEntries, FilesRead

LEMMA FileFold ==
    ASSUME NEW T, NEW M, NEW P, NEW content \in Seq(Rows(T, M, P))
    PROVE  Folding(FilesRead(T, M, P), EntryStep(T, M, P), NoEntries, content, FileRead(content, "shell"))
<1> DEFINE E == Rows(T, M, P)
           V == FilesRead(T, M, P)
           base == NoEntries
           N == Len(content)
           Of(f) == [d \in SUBSET (DOMAIN content) |->
                       IF d = {} THEN base ELSE Entry(f[d \ {Max(d)}], content[Max(d)], "shell")]
           iter == CHOOSE f : f = Of(f)
<1>1. EntryStep(T, M, P) \in [V \X E -> V]
  BY EntryType DEF EntryStep
<1>2. base \in V
  BY NoEntriesType
<1>3. N \in Nat /\ DOMAIN content = 1 .. N /\ (\A i \in 1 .. N : content[i] \in E)
      /\ content \in [1 .. N -> E]
  BY LenProperties, ElementOfSeq
<1>4. FileRead(content, "shell") = iter[1 .. N]
  BY <1>3 DEF FoldLeft, MapThenFoldSet, FileRead
<1>12. content \in Seq(E)
  OBVIOUS
<1> HIDE DEF V, E, base
<1>5. \E f : f = Of(f)
  <2>1. PICK f \in [SUBSET (1 .. N) -> V] :
          \A d \in SUBSET (1 .. N) :
             f[d] = IF d = {} THEN base ELSE EntryStep(T, M, P)[<<f[d \ {Max(d)}], content[Max(d)]>>]
    <3>1. \E f \in [SUBSET (1 .. N) -> V] : FoldFunctionOf(EntryStep(T, M, P), base, content, N, f)
      BY ONLY <1>1, <1>2, <1>3, FoldExists
    <3>2. QED
      BY <3>1 DEF FoldFunctionOf
  <2>2. ASSUME NEW d \in SUBSET (1 .. N)
        PROVE  f[d] = IF d = {} THEN base ELSE Entry(f[d \ {Max(d)}], content[Max(d)], "shell")
    <3>1. CASE d = {}
      BY <2>1, <3>1
    <3>2. CASE d # {}
      <4>1. Max(d) \in 1 .. N
        BY <1>3, <3>2, MaxIsGreatest
      <4>2. f[d \ {Max(d)}] \in V /\ content[Max(d)] \in E
        BY <1>3, <4>1
      <4>3. EntryStep(T, M, P)[<<f[d \ {Max(d)}], content[Max(d)]>>]
              = Entry(f[d \ {Max(d)}], content[Max(d)], "shell")
        BY <4>2 DEF EntryStep, V, E
      <4>4. QED
        BY <2>1, <3>2, <4>3
    <3>3. QED
      BY <3>1, <3>2
  <2>3. f = [d \in SUBSET (1 .. N) |-> f[d]]
    OBVIOUS
  <2>4. f = Of(f)
    BY <1>3, <2>2, <2>3
  <2>5. QED
    BY <2>4
<1>6. iter = Of(iter)
  BY <1>5
<1> HIDE DEF iter
<1>7. \A d \in SUBSET (1 .. N) :
        iter[d] = IF d = {} THEN base ELSE Entry(iter[d \ {Max(d)}], content[Max(d)], "shell")
  BY <1>3, <1>6
<1>8. iter[1 .. 0] = base
  <2>1. 1 .. 0 = {} /\ 1 .. 0 \in SUBSET (1 .. N)
    OBVIOUS
  <2>2. QED
    BY <1>7, <2>1
<1>9. ASSUME NEW n \in 1 .. N, iter[1 .. n - 1] \in V
      PROVE  iter[1 .. n] = EntryStep(T, M, P)[<<iter[1 .. n - 1], content[n]>>]
  <2>1. Max(1 .. n) = n /\ (1 .. n) \ {n} = 1 .. n - 1
    BY MaxOfInterval
  <2>2. 1 .. n \in SUBSET (1 .. N) /\ 1 .. n # {}
    <3>1. n \in 1 .. n /\ \A i \in 1 .. n : i \in 1 .. N
      BY <1>3
    <3>2. QED
      BY <3>1
  <2>3. iter[1 .. n] = Entry(iter[1 .. n - 1], content[n], "shell")
    BY <1>7, <2>1, <2>2
  <2>4. QED
    BY <1>3, <1>9, <2>3 DEF EntryStep, V, E
<1>10. Folding(V, EntryStep(T, M, P), base, content, iter[1 .. Len(content)])
  <2>1. \A n \in 1 .. Len(content) : iter[1 .. n - 1] \in V
                                  => iter[1 .. n] = EntryStep(T, M, P)[<<iter[1 .. n - 1], content[n]>>]
    BY <1>9
  <2>2. QED
    BY ONLY <1>1, <1>2, <1>8, <1>12, <2>1, ChosenFolds
<1>11. QED
  BY <1>4, <1>10 DEF V, base

\* A file never asks for more than a submission takes, and only for what can be driven.
LEMMA FileIsRead ==
    ASSUME NEW T, NEW M, NEW P, NEW content \in Seq(Rows(T, M, P))
    PROVE  /\ ParseJobFile(content, "shell") \in Seq(Requested(T, M, P))
           /\ Len(ParseJobFile(content, "shell")) <= MaxRequests
<1> DEFINE s == FileRead(content, "shell")
<1>1. s \in FilesRead(T, M, P)
  <2> HIDE DEF s
  <2>1. Folding(FilesRead(T, M, P), EntryStep(T, M, P), NoEntries, content, s)
    BY FileFold DEF s
  <2>2. QED
    BY <2>1, FoldingType
<1> HIDE DEF s
<1>2. s.requests \in Seq(Requested(T, M, P)) /\ Len(s.requests) <= MaxRequests
  BY <1>1 DEF FilesRead
<1>3. <<>> \in Seq(Requested(T, M, P)) /\ Len(<<>>) = 0 /\ 0 <= MaxRequests
  BY EmptySeq, SubmissionAssumption
<1>4. ParseJobFile(content, "shell") = IF s.ok THEN s.requests ELSE <<>>
  BY DEF ParseJobFile, s
<1>5. QED
  BY <1>2, <1>3, <1>4

-----------------------------------------------------------------------------
(* Job files given to `lya scheduler` and to `lya submit`.                 *)

\* What was read so far of a line that has been accepted.
Accepted(flags, option, value, words) ==
    [ok |-> TRUE, option |-> option, flag |-> flags, value |-> value, words |-> words]

LEMMA AcceptedIs ==
    ASSUME NEW a, NEW b, NEW c, NEW d, NEW s, s = Accepted(a, b, c, d), NEW x
    PROVE  /\ s.ok /\ s.option = b /\ s.flag = a /\ s.value = c /\ s.words = d
           /\ [s EXCEPT !.flag = x] = Accepted(x, b, c, d)
           /\ [s EXCEPT !.option = x] = Accepted(a, x, c, d)
           /\ [s EXCEPT !.words = x] = Accepted(a, b, c, x)
<1> DEFINE yes == TRUE
<1>1. \A e, f, g, h : Accepted(e, f, g, h) = [ok |-> yes, option |-> f, flag |-> e, value |-> g, words |-> h]
  BY DEF Accepted
<1>2. yes
  OBVIOUS
<1> HIDE DEF yes
<1>3. s = [ok |-> yes, option |-> b, flag |-> a, value |-> c, words |-> d]
  BY <1>1
<1>4. s.ok = yes /\ s.option = b /\ s.flag = a /\ s.value = c /\ s.words = d
  BY <1>3
<1>5. [s EXCEPT !.option = x] = [ok |-> yes, option |-> x, flag |-> a, value |-> c, words |-> d]
  BY ONLY <1>3, ScanFields
<1>6. [s EXCEPT !.flag = x] = [ok |-> yes, option |-> b, flag |-> x, value |-> c, words |-> d]
  BY ONLY <1>3, ScanFields
<1>7. [s EXCEPT !.words = x] = [ok |-> yes, option |-> b, flag |-> a, value |-> c, words |-> x]
  BY ONLY <1>3, ScanFields
<1>8. QED
  BY <1>1, <1>2, <1>4, <1>5, <1>6, <1>7

LEMMA FlagRead ==
    ASSUME NEW g, Told(g), NEW a, NEW c, NEW d, NEW t \in g.flags
    PROVE  Argument(g, Accepted(a, None, c, d), t) = Accepted(a \cup {t}, None, c, d)
<1> DEFINE s == Accepted(a, None, c, d)
           x == a \cup {t}
<1>1. t \notin Valued(g)
  BY DEF Told
<1>2. s = Accepted(a, None, c, d)
  OBVIOUS
<1> HIDE DEF s, x
<1>3. s.ok /\ s.option = None /\ s.flag = a
  BY <1>2, AcceptedIs
<1>4. [s EXCEPT !.flag = x] = Accepted(x, None, c, d)
  BY <1>2, AcceptedIs
<1>5. Argument(g, s, t) = [s EXCEPT !.flag = s.flag \cup {t}]
  BY <1>1, <1>3 DEF Argument
<1>6. QED
  BY <1>3, <1>4, <1>5 DEF s, x

LEMMA WordRead ==
    ASSUME NEW g, Told(g), NEW a, NEW c, NEW t, t \notin g.flags, t \notin Valued(g), t \notin Dashed,
           g.words # "none"
    PROVE  Argument(g, Accepted(a, None, c, <<>>), t) = Accepted(a, None, c, <<t>>)
<1> DEFINE e == <<>>
           one == <<t>>
           s == Accepted(a, None, c, e)
<1>0. s = Accepted(a, None, c, e) /\ Append(e, t) = one
  OBVIOUS
<1> HIDE DEF s, e, one
<1>1. s.ok /\ s.option = None /\ s.words = e
  BY <1>0, AcceptedIs
<1>2. Append(s.words, t) = one
  BY <1>0, <1>1
<1>3. [s EXCEPT !.words = one] = Accepted(a, None, c, one)
  BY <1>0, AcceptedIs
<1>4. Argument(g, s, t) = [s EXCEPT !.words = Append(s.words, t)]
  BY <1>1 DEF Argument, e
<1>5. QED
  BY <1>2, <1>3, <1>4 DEF s, e, one

\* `--file` and the value that follows it.
LEMMA FileOptionRead ==
    ASSUME NEW a
    PROVE  Argument(SubmitGrammar, Argument(SubmitGrammar, Accepted(a, None, <<>>, <<>>), "--file"), "file")
             = Accepted(a, None, [o \in {"--file"} |-> "file"], <<>>)
<1> DEFINE g == SubmitGrammar
           e == <<>>
           s == Accepted(a, None, e, e)
           r == Accepted(a, "--file", e, e)
           v == [o \in {"--file"} |-> "file"]
           w == [o \in DOMAIN r.value \cup {r.option} |-> IF o = r.option THEN "file" ELSE r.value[o]]
           z == [r EXCEPT !.option = None, !.value = w]
<1>1. "--file" \in Valued(g) /\ "--file" \notin g.flags /\ "--file" # None
      /\ Acceptable(g, "--file", "file")
  BY DEF Valued, SubmitGrammar, None, Acceptable
<1>2. DOMAIN e = {}
  OBVIOUS
<1> HIDE DEF e
<1>3. s.ok /\ s.option = None /\ [s EXCEPT !.option = "--file"] = r
  BY AcceptedIs
<1>4. r.ok /\ r.option = "--file" /\ r.value = e /\ r.flag = a /\ r.words = e
  BY AcceptedIs
<1>5. DOMAIN r = {"ok", "option", "flag", "value", "words"}
  BY DEF Accepted
<1> HIDE DEF s, r
<1>6. Argument(g, s, "--file") = r
  BY <1>1, <1>3 DEF Argument
<1>7. Argument(g, r, "file") = z
  BY <1>1, <1>4 DEF Argument
<1>8. w = v
  BY <1>2, <1>4
<1> HIDE DEF w
<1>9. z.ok = r.ok /\ z.option = None /\ z.flag = a /\ z.value = w /\ z.words = e
      /\ z = [f \in {"ok", "option", "flag", "value", "words"} |-> z[f]]
  BY <1>4, <1>5
<1> DEFINE yes == r.ok
<1>10. Accepted(a, None, v, e) = [ok |-> yes, option |-> None, flag |-> a, value |-> v, words |-> e]
  <2>1. yes = TRUE
    BY <1>4 DEF r, Accepted
  <2>2. QED
    BY <2>1 DEF Accepted
<1> HIDE DEF z, v
<1>11. z = Accepted(a, None, v, e)
  BY <1>8, <1>9, <1>10
<1>12. QED
  BY <1>6, <1>7, <1>11 DEF g, s, v, e

LEMMA ScannedThree ==
    ASSUME NEW g, NEW t, NEW u, NEW x, Told(g)
    PROVE  Scanned(g, <<t, u, x>>) = Argument(g, Argument(g, Argument(g, NothingScanned, t), u), x)
<1> DEFINE e == <<t, u>>
           K == {t, u, x}
<1>1. e \in Seq(K) /\ <<t, u, x>> = Append(e, x) /\ x \in K
  OBVIOUS
<1>2. Scanned(g, e) = Argument(g, Argument(g, NothingScanned, t), u)
  BY ScannedTwo
<1> HIDE DEF e, K
<1>3. Scanned(g, Append(e, x)) = Argument(g, Scanned(g, e), x)
  BY <1>1, ScannedAppend
<1>4. QED
  BY <1>1, <1>2, <1>3

LEMMA ShortLines ==
    ASSUME NEW a, NEW b, NEW c
    PROVE  /\ <<a>> \o <<b>> = <<a, b>>
           /\ <<a>> \o <<b, c>> = <<a, b, c>>
           /\ <<a, b>> \o <<c>> = <<a, b, c>>
<1> DEFINE K == {a, b, c}
<1>1. <<a>> \in Seq(K) /\ <<b>> \in Seq(K) /\ <<c>> \in Seq(K) /\ <<a, b>> \in Seq(K)
  OBVIOUS
<1>2. <<a>> \o <<b>> = Append(<<a>>, b) /\ <<b>> \o <<c>> = Append(<<b>>, c)
      /\ <<a, b>> \o <<c>> = Append(<<a, b>>, c)
  BY <1>1, AppendIsConcat
<1> DEFINE one == <<a>>
           two == <<b>>
           ab == <<a, b>>
<1>3. <<a, b>> = Append(one, b)
  OBVIOUS
<1>4. <<b, c>> = Append(two, c)
  OBVIOUS
<1>5. <<a, b, c>> = Append(ab, c)
  OBVIOUS
<1>6. (<<a>> \o <<b>>) \o <<c>> = <<a>> \o (<<b>> \o <<c>>)
  BY <1>1, ConcatAssociative
<1>7. QED
  BY <1>2, <1>3, <1>4, <1>5, <1>6

LEMMA AcceptedIsComplete ==
    ASSUME NEW a, NEW c, NEW d, "--verbose" \notin a
    PROVE  Complete(Accepted(a, None, c, d)) = Accepted(a, None, c, d)
<1> DEFINE s == Accepted(a, None, c, d)
           ok == s.ok /\ s.option = None /\ ~({"--verbose", "--json"} \subseteq s.flag)
           yes == TRUE
<1>1. s = [ok |-> yes, option |-> None, flag |-> a, value |-> c, words |-> d]
  BY DEF Accepted
<1>2. s.ok /\ s.option = None /\ s.flag = a
  BY AcceptedIs
<1> HIDE DEF s
<1>3. ok = yes
  BY <1>2
<1>4. Complete(s) = [s EXCEPT !.ok = ok]
  BY DEF Complete
<1> HIDE DEF ok, yes
<1>5. [s EXCEPT !.ok = yes] = s
  BY <1>1
<1>6. QED
  BY <1>3, <1>4, <1>5 DEF s

\* The flags of a line that publishes, or does not.
Publishing(publish) == IF publish = <<>> THEN {} ELSE {"--publish"}

\* What the commands read of the lines a file is given with.
LEMMA FileLinesAreScanned ==
    ASSUME NEW publish \in {<<>>, <<"--publish">>}
    PROVE  /\ Scan(SchedulerGrammar, publish \o <<"file">>)
                = Accepted(Publishing(publish), None, <<>>, <<"file">>)
           /\ Scan(SchedulerGrammar, <<"--resume-queued">> \o publish \o <<"file">>)
                = Accepted(Publishing(publish) \cup {"--resume-queued"}, None, <<>>, <<"file">>)
           /\ Scan(SubmitGrammar, publish \o <<"--file", "file">>)
                = Accepted(Publishing(publish), None, [o \in {"--file"} |-> "file"], <<>>)
<1> DEFINE g == SchedulerGrammar
           h == SubmitGrammar
           e == <<>>
           v == [o \in {"--file"} |-> "file"]
<1>1. Told(g) /\ Told(h)
  BY GrammarsAreTold
<1>2. /\ "--publish" \in g.flags /\ "--resume-queued" \in g.flags /\ "--publish" \in h.flags
      /\ "file" \notin g.flags /\ "file" \notin Valued(g) /\ "file" \notin Dashed /\ g.words # "none"
  BY DEF SchedulerGrammar, SubmitGrammar, Valued, Dashed
<1>3. NothingScanned = Accepted({}, None, e, e)
  BY DEF NothingScanned, Accepted
<1> HIDE DEF g, h
<1>4. ASSUME NEW a, "--verbose" \notin a
      PROVE  Complete(Argument(g, Accepted(a, None, e, e), "file")) = Accepted(a, None, e, <<"file">>)
  <2>1. Argument(g, Accepted(a, None, e, e), "file") = Accepted(a, None, e, <<"file">>)
    BY <1>1, <1>2, WordRead
  <2> HIDE DEF e
  <2>2. QED
    BY <1>4, <2>1, AcceptedIsComplete
<1>5. ASSUME NEW a, "--verbose" \notin a
      PROVE  Complete(Argument(h, Argument(h, Accepted(a, None, e, e), "--file"), "file"))
               = Accepted(a, None, v, e)
  <2>1. Argument(h, Argument(h, Accepted(a, None, e, e), "--file"), "file") = Accepted(a, None, v, e)
    BY FileOptionRead DEF h
  <2> HIDE DEF e, v
  <2>2. QED
    BY <1>5, <2>1, AcceptedIsComplete
<1>6. CASE publish = e
  <2>1. /\ publish \o <<"file">> = <<"file">>
        /\ <<"--resume-queued">> \o publish \o <<"file">> = <<"--resume-queued", "file">>
        /\ publish \o <<"--file", "file">> = <<"--file", "file">>
        /\ Publishing(publish) = {}
    <3>1. <<>> \o <<"file">> = <<"file">>
      OBVIOUS
    <3>2. <<"--resume-queued">> \o <<>> \o <<"file">> = <<"--resume-queued", "file">>
      <4>1. <<"--resume-queued">> \o <<>> = <<"--resume-queued">>
        OBVIOUS
      <4>2. QED
        BY <4>1, ShortLines
    <3>3. <<>> \o <<"--file", "file">> = <<"--file", "file">>
      OBVIOUS
    <3>4. Publishing(publish) = {}
      BY <1>6 DEF Publishing
    <3>5. QED
      BY <1>6, <3>1, <3>2, <3>3, <3>4
  <2> HIDE DEF e, v
  <2>2. Argument(g, Accepted({}, None, e, e), "--resume-queued") = Accepted({} \cup {"--resume-queued"}, None, e, e)
    BY <1>1, <1>2, FlagRead
  <2>3. Scan(g, <<"file">>) = Accepted({}, None, e, <<"file">>)
    BY <1>1, <1>3, <1>4, ScannedOne DEF Scan
  <2>4. Scan(g, <<"--resume-queued", "file">>) = Accepted({} \cup {"--resume-queued"}, None, e, <<"file">>)
    BY <1>1, <1>3, <1>4, <2>2, ScannedTwo DEF Scan
  <2>5. Scan(h, <<"--file", "file">>) = Accepted({}, None, v, e)
    BY <1>1, <1>3, <1>5, ScannedTwo DEF Scan
  <2>6. QED
    BY <2>1, <2>3, <2>4, <2>5 DEF g, h, e, v
<1>7. CASE publish = <<"--publish">>
  <2>1. /\ publish \o <<"file">> = <<"--publish", "file">>
        /\ <<"--resume-queued">> \o publish \o <<"file">> = <<"--resume-queued", "--publish", "file">>
        /\ publish \o <<"--file", "file">> = <<"--publish", "--file", "file">>
    <3>1. <<"--publish">> \o <<"file">> = <<"--publish", "file">>
      BY ShortLines
    <3>2. <<"--resume-queued">> \o <<"--publish">> \o <<"file">> = <<"--resume-queued", "--publish", "file">>
      <4>1. <<"--resume-queued">> \o <<"--publish">> = <<"--resume-queued", "--publish">>
        BY ShortLines
      <4>2. QED
        BY <4>1, ShortLines
    <3>3. <<"--publish">> \o <<"--file", "file">> = <<"--publish", "--file", "file">>
      BY ShortLines
    <3>4. QED
      BY <1>7, <3>1, <3>2, <3>3
  <2>0. Publishing(publish) = {"--publish"}
    <3>1. Len(publish) = 1 /\ Len(<<>>) = 0
      BY <1>7
    <3>2. publish # <<>>
      BY <3>1
    <3>3. QED
      BY <3>2 DEF Publishing
  <2> DEFINE P == {} \cup {"--publish"}
             R == {} \cup {"--resume-queued"}
             Q == R \cup {"--publish"}
  <2>2. P = {"--publish"} /\ Q = {"--publish"} \cup {"--resume-queued"} /\ "--verbose" \notin P
        /\ "--verbose" \notin Q
    OBVIOUS
  <2> HIDE DEF e, v
  <2>3. /\ Argument(g, Accepted({}, None, e, e), "--publish") = Accepted(P, None, e, e)
        /\ Argument(h, Accepted({}, None, e, e), "--publish") = Accepted(P, None, e, e)
        /\ Argument(g, Accepted({}, None, e, e), "--resume-queued") = Accepted(R, None, e, e)
        /\ Argument(g, Accepted(R, None, e, e), "--publish") = Accepted(Q, None, e, e)
    BY <1>1, <1>2, FlagRead
  <2> HIDE DEF P, R, Q
  <2>4. Scan(g, <<"--publish", "file">>) = Accepted(P, None, e, <<"file">>)
    BY <1>1, <1>3, <1>4, <2>2, <2>3, ScannedTwo DEF Scan
  <2>5. Scan(g, <<"--resume-queued", "--publish", "file">>) = Accepted(Q, None, e, <<"file">>)
    BY <1>1, <1>3, <1>4, <2>2, <2>3, ScannedThree DEF Scan
  <2>6. Scan(h, <<"--publish", "--file", "file">>) = Accepted(P, None, v, e)
    BY <1>1, <1>3, <1>5, <2>2, <2>3, ScannedThree DEF Scan
  <2>7. QED
    BY <2>0, <2>1, <2>2, <2>4, <2>5, <2>6 DEF g, h, e, v
<1>8. QED
  BY <1>6, <1>7

-----------------------------------------------------------------------------
(* What becomes of a file.                                                 *)

\* The settings of a line that only says whether to publish.
PublishingRun(p) ==
    [max_iterations |-> DEFAULT_MAX_ITERATIONS, max_jobs |-> DEFAULT_MAX_JOBS,
     browser |-> FALSE, publish |-> p]

LEMMA RunIsRead ==
    ASSUME NEW flags, "--browser" \notin flags, NEW value, NEW words,
           "--max-iterations" \notin DOMAIN value, "--max-jobs" \notin DOMAIN value,
           NEW s, s = Accepted(flags, None, value, words)
    PROVE  RunConfiguration(s) = PublishingRun("--publish" \in flags)
<1> DEFINE n == Number(s, "--max-iterations", DEFAULT_MAX_ITERATIONS)
           m == Number(s, "--max-jobs", DEFAULT_MAX_JOBS)
           b == "--browser" \in s.flag
           p == "--publish" \in s.flag
           q == "--publish" \in flags
           no == FALSE
<1>1. s.flag = flags /\ s.value = value
  BY AcceptedIs
<1>2. n = DEFAULT_MAX_ITERATIONS /\ m = DEFAULT_MAX_JOBS
  BY <1>1 DEF Number
<1>3. b = no /\ p = q
  BY <1>1
<1>4. RunConfiguration(s) = [max_iterations |-> n, max_jobs |-> m, browser |-> b, publish |-> p]
  BY DEF RunConfiguration
<1>5. PublishingRun(q) = [max_iterations |-> DEFAULT_MAX_ITERATIONS, max_jobs |-> DEFAULT_MAX_JOBS,
                          browser |-> no, publish |-> q]
  BY DEF PublishingRun
<1> HIDE DEF n, m, b, p, q, no
<1>6. RunConfiguration(s) = PublishingRun(q)
  BY <1>2, <1>3, <1>4, <1>5
<1>7. QED
  BY <1>6 DEF q

LEMMA SchedulerReads ==
    ASSUME NEW flags, "--browser" \notin flags, NEW line,
           Scan(SchedulerGrammar, line) = Accepted(flags, None, <<>>, <<"file">>),
           NEW o, o = ParseScheduler(line)
    PROVE  /\ o # Refused /\ o.job_file = <<"file">>
           /\ o.resume_queued <=> "--resume-queued" \in flags
           /\ o.run = PublishingRun("--publish" \in flags)
<1> DEFINE e == <<>>
           w == <<"file">>
           s == Scan(SchedulerGrammar, line)
           r == "--resume-queued" \in s.flag
           n == Number(s, "--max-concurrent", DEFAULT_MAX_CONCURRENT)
           config == RunConfiguration(s)
           out == Output(s)
           p == [job_file |-> s.words, resume_queued |-> r, max_concurrent |-> n,
                 run |-> config, output |-> out]
<1>1. s = Accepted(flags, None, e, w) /\ DOMAIN e = {} /\ w # <<>>
  <2>1. Len(w) = 1 /\ Len(<<>>) = 0
    OBVIOUS
  <2>2. w # <<>>
    BY <2>1
  <2>3. QED
    BY <2>2
<1> HIDE DEF e, w, s
<1>2. s.ok /\ s.flag = flags /\ s.value = e /\ s.words = w
  BY <1>1, AcceptedIs
<1>3. config = PublishingRun("--publish" \in flags)
  BY <1>1, RunIsRead
<1>4. o = p
  BY <1>1, <1>2 DEF ParseScheduler, s
<1>5. DOMAIN p = {"job_file", "resume_queued", "max_concurrent", "run", "output"}
      /\ DOMAIN Refused = {"refused"}
  BY DEF Refused
<1>6. p # Refused
  <2> HIDE DEF p
  <2>1. QED
    BY <1>5
<1>7. r <=> "--resume-queued" \in flags
  BY <1>2
<1> HIDE DEF r, n, config, out
<1>8. p.job_file = s.words /\ p.resume_queued = r /\ p.run = config
  OBVIOUS
<1> HIDE DEF p
<1>9. QED
  BY <1>2, <1>3, <1>4, <1>6, <1>7, <1>8 DEF w

LEMMA SubmitReads ==
    ASSUME NEW flags, "--browser" \notin flags, NEW line,
           Scan(SubmitGrammar, line) = Accepted(flags, None, [x \in {"--file"} |-> "file"], <<>>),
           NEW cwd, NEW o, o = ParseSubmit(line, cwd)
    PROVE  /\ o # Refused /\ "file" \in DOMAIN o /\ o.file = "file"
           /\ o.run = PublishingRun("--publish" \in flags)
<1> DEFINE e == <<>>
           v == [x \in {"--file"} |-> "file"]
           s == Scan(SubmitGrammar, line)
           config == RunConfiguration(s)
           p == [file |-> s.value["--file"], run |-> config]
<1>1. s = Accepted(flags, None, v, e) /\ DOMAIN v = {"--file"} /\ v["--file"] = "file" /\ e = <<>>
  OBVIOUS
<1> HIDE DEF e, v, s
<1>2. s.ok /\ s.flag = flags /\ s.value = v /\ s.words = e
  BY <1>1, AcceptedIs
<1>3. config = PublishingRun("--publish" \in flags)
  BY <1>1, RunIsRead
<1>4. o = p
  BY <1>1, <1>2 DEF ParseSubmit, s
<1>5. DOMAIN p = {"file", "run"} /\ DOMAIN Refused = {"refused"}
  BY DEF Refused
<1> HIDE DEF config
<1>6. p.file = s.value["--file"] /\ p.run = config
  OBVIOUS
<1> HIDE DEF p
<1>7. QED
  BY <1>1, <1>2, <1>3, <1>4, <1>5, <1>6

\* What a file asks for can be driven, with any settings that hold together.
LEMMA ConfiguredIs ==
    ASSUME NEW T, NEW M, NEW P, NEW reqs \in Seq(Requested(T, M, P)),
           NEW run, NEW git, git # Refused, Settled(run, git)
    PROVE  LET jobs == Configured(reqs, run, git)
               J == {Job(r.project, r.name, r.task, With(run, git)) : r \in Requested(T, M, P)}
           IN  /\ jobs \in Seq(J) /\ Len(jobs) = Len(reqs)
               /\ \A i \in DOMAIN jobs : /\ IsResolved(jobs[i]) /\ ~IsBlank(jobs[i].task)
                                         /\ jobs[i].configuration = With(run, git)
<1> DEFINE R == Requested(T, M, P)
           jobs == Configured(reqs, run, git)
           c == With(run, git)
           Of(r) == Job(r.project, r.name, r.task, c)
           J == {Of(r) : r \in R}
           N == Len(reqs)
<1>1. N \in Nat /\ DOMAIN reqs = 1 .. N /\ \A i \in 1 .. N : reqs[i] \in R
  BY LenProperties, ElementOfSeq
<1>2. jobs = [i \in 1 .. N |-> Of(reqs[i])]
  BY <1>1 DEF Configured
<1> HIDE DEF jobs
<1>3. \A i \in 1 .. N : jobs[i] = Of(reqs[i]) /\ Of(reqs[i]) \in J
  BY <1>1, <1>2
<1>4. jobs \in Seq(J) /\ Len(jobs) = N /\ DOMAIN jobs = 1 .. N
  <2> HIDE DEF J, Of
  <2>1. jobs \in [1 .. N -> J]
    BY <1>2, <1>3
  <2>2. QED
    BY <1>1, <1>2, <2>1
<1>5. ASSUME NEW r \in R
      PROVE  IsResolved(Of(r)) /\ ~IsBlank(Of(r).task) /\ Of(r).configuration = c
  <2>1. /\ r.project \in [dir : P \cup {"shell"}, name : M] /\ r.project.dir # None /\ r.name \notin Blank
        /\ ~IsBlank(r.task)
    BY DEF Requested
  <2>2. r.project # Refused
    <3>1. DOMAIN r.project = {"dir", "name"} /\ DOMAIN Refused = {"refused"}
      BY <2>1 DEF Refused
    <3>2. QED
      BY <3>1
  <2>3. Resolved(r.project, r.name, run, git)
    BY <2>1, <2>2 DEF Resolved
  <2> DEFINE j == Of(r)
  <2>4. j = Job(r.project, r.name, r.task, With(run, git)) /\ j = Job(r.project, r.name, r.task, c)
    OBVIOUS
  <2> HIDE DEF j, c
  <2>5. IsResolved(j)
    BY <2>3, <2>4 DEF IsResolved
  <2>6. j.task = r.task /\ j.configuration = c
    BY <2>4, JobFields
  <2>7. QED
    BY <2>1, <2>5, <2>6 DEF j
<1>6. \A i \in DOMAIN jobs : IsResolved(jobs[i]) /\ ~IsBlank(jobs[i].task) /\ jobs[i].configuration = c
  <2> HIDE DEF Of, R, c
  <2>1. QED
    BY <1>1, <1>3, <1>4, <1>5
<1>7. QED
  BY <1>4, <1>6 DEF jobs

LEMMA NothingDelivered == Delivered(<<>>) = <<>> /\ Trimmed(<<>>) = <<>>
<1> DEFINE none == <<>>
<1>1. none \in Seq({}) /\ Len(none) = 0 /\ DOMAIN none = {}
  BY EmptySeq
<1>2. Trimmed(none) = <<>>
  BY DEF Trimmed
<1> HIDE DEF none
<1>3. 0 <= MaxRequests
  BY SubmissionAssumption
<1>4. Delivered(none) = Trimmed(none)
  BY <1>1, <1>3, AllDelivered
<1>5. QED
  BY <1>2, <1>4 DEF none

\* The jobs that were queued are driven with the settings of the file's jobs, before them.
LEMMA QueuedThenFile ==
    ASSUME NEW a, NEW b, NEW c, NEW d, NEW E, NEW reqs \in Seq(E), reqs # <<>>,
           NEW run, NEW git, git # Refused
    PROVE  LET queued == <<Job(a, b, c, d)>>
           IN  Agree(Configured(reqs, run, git), queued, Configured(queued \o reqs, run, git))
<1> DEFINE q == Job(a, b, c, d)
           queued == <<q>>
           both == queued \o reqs
           k == With(run, git)
           Of(r) == Job(r.project, r.name, r.task, k)
           jobs == Configured(reqs, run, git)
           all == Configured(both, run, git)
           rest == Tail(all)
           F == E \cup {q}
           N == Len(reqs)
           J == {Of(both[i]) : i \in DOMAIN both} \cup {Of(reqs[i]) : i \in DOMAIN reqs}
<1>1. N \in Nat /\ N > 0 /\ DOMAIN reqs = 1 .. N
  BY LenProperties, EmptySeq
<1>2. queued \in Seq(F) /\ reqs \in Seq(F) /\ Len(queued) = 1 /\ queued[1] = q
  OBVIOUS
<1> HIDE DEF q
<1>3. both \in Seq(F) /\ Len(both) = N + 1 /\ DOMAIN both = 1 .. N + 1 /\ both[1] = q
      /\ \A i \in 1 .. N : both[i + 1] = reqs[i]
  <2> HIDE DEF queued, F
  <2>1. /\ both \in Seq(F) /\ Len(both) = Len(queued) + Len(reqs)
        /\ \A i \in 1 .. Len(queued) + Len(reqs) :
              both[i] = IF i <= Len(queued) THEN queued[i] ELSE reqs[i - Len(queued)]
    BY <1>2, ConcatProperties
  <2> HIDE DEF both, N
  <2>2. DOMAIN both = 1 .. Len(both) /\ Len(both) = N + 1
    BY <1>1, <1>2, <2>1, LenProperties DEF N
  <2>3. both[1] = q
    BY <1>1, <1>2, <2>1 DEF N
  <2>4. ASSUME NEW i \in 1 .. N PROVE both[i + 1] = reqs[i]
    <3>1. i + 1 \in 1 .. Len(queued) + Len(reqs) /\ ~(i + 1 <= Len(queued)) /\ (i + 1) - Len(queued) = i
      BY <1>1, <1>2 DEF N
    <3>2. QED
      BY <2>1, <3>1
  <2>5. QED
    BY <2>1, <2>2, <2>3, <2>4
<1> HIDE DEF both, queued, N, F
<1>4. jobs = [i \in 1 .. N |-> Of(reqs[i])]
  BY <1>1 DEF Configured
<1>5. all = [i \in 1 .. N + 1 |-> Of(both[i])]
  BY <1>3 DEF Configured
<1> HIDE DEF jobs, all
<1>6. jobs \in Seq(J) /\ Len(jobs) = N
  <2>1. \A i \in 1 .. N : jobs[i] = Of(reqs[i]) /\ Of(reqs[i]) \in J
    BY <1>1, <1>4
  <2> HIDE DEF J, Of
  <2>2. jobs \in [1 .. N -> J]
    BY <1>4, <2>1
  <2>3. QED
    BY <1>1, <1>4, <2>2
<1>7. all \in Seq(J) /\ Len(all) = N + 1
  <2>1. \A i \in 1 .. N + 1 : all[i] = Of(both[i]) /\ Of(both[i]) \in J
    BY <1>3, <1>5
  <2> HIDE DEF J, Of
  <2>2. all \in [1 .. N + 1 -> J]
    BY <1>5, <2>1
  <2>3. QED
    BY <1>1, <1>5, <2>2
<1> HIDE DEF J
<1>8. \A i \in 1 .. N : all[i + 1] = jobs[i]
  <2>1. SUFFICES ASSUME NEW i \in 1 .. N PROVE all[i + 1] = jobs[i]
    OBVIOUS
  <2>2. i + 1 \in 1 .. N + 1
    BY <1>1
  <2> HIDE DEF Of
  <2>3. QED
    BY <1>3, <1>4, <1>5, <2>2
<1>9. rest \in Seq(J) /\ Len(rest) = N /\ \A i \in 1 .. N : rest[i] = all[i + 1]
  <2>1. all # <<>>
    BY <1>1, <1>7, EmptySeq
  <2>2. Tail(all) \in Seq(J) /\ Len(Tail(all)) = Len(all) - 1
        /\ \A i \in 1 .. Len(Tail(all)) : Tail(all)[i] = all[i + 1]
    BY <1>7, <2>1, HeadTailProperties
  <2>3. QED
    BY <1>1, <1>7, <2>2
<1> HIDE DEF rest
<1>10. rest = jobs
  BY <1>6, <1>8, <1>9, SeqEqual
<1>11. jobs # <<>>
  BY <1>1, <1>6, EmptySeq
<1>12. all[1] = [q EXCEPT !.configuration = jobs[1].configuration]
  <2>1. all[1] = Of(q) /\ jobs[1] = Of(reqs[1])
    BY <1>1, <1>3, <1>4, <1>5
  <2>2. q = Job(a, b, c, d)
    BY DEF q
  <2> HIDE DEF k
  <2>3. q.project = a /\ q.name = b /\ q.task = c /\ [q EXCEPT !.configuration = k] = Job(a, b, c, k)
    BY <2>2, JobFields
  <2>4. jobs[1].configuration = k
    <3> DEFINE x == reqs[1].project
               y == reqs[1].name
               z == reqs[1].task
               j == jobs[1]
    <3>1. j = Job(x, y, z, k)
      BY <2>1
    <3> HIDE DEF x, y, z, j
    <3>2. j.configuration = k
      BY <3>1, JobFields
    <3>3. QED
      BY <3>2 DEF j
  <2>5. QED
    BY <2>1, <2>3, <2>4
<1>13. Agree(jobs, queued, all)
  BY <1>2, <1>10, <1>11, <1>12 DEF Agree, rest
<1>14. QED
  BY <1>13 DEF jobs, queued, all, both, q

\* What the queue of a machine holds after `lya run dir`.
LEMMA OneIsQueued ==
    ASSUME NEW env, NEW content, NEW shell, shell = Shell(env, content, <<>>)
    PROVE  \E a, b, c, d : Started(<<"run", "dir">>, shell) = <<Job(a, b, c, d)>>
<1> DEFINE line == <<"dir">>
           o == ParseRun(line, shell.cwd)
           r == Request(o.project, o.task)
<1>1. line \in Seq({"dir"}) /\ <<"run", "dir">> = <<"run">> \o line
  OBVIOUS
<1>2. Started(<<"run">> \o line, shell) = RunJobs(o, shell)
  <2> HIDE DEF line
  <2>1. QED
    BY <1>1, StartedAs
<1>3. o # Refused /\ o.task = <<"dir">> /\ ~o.run.publish
  BY WordIsParsed
<1>4. Prepared(shell)
  BY ShellIs
<1> HIDE DEF o, line
<1>5. ~IsBlank(o.task)
  <2>1. 1 \in DOMAIN o.task /\ o.task[1] = "dir" /\ "dir" \notin Blank
    BY <1>3 DEF Blank
  <2>2. QED
    BY <2>1 DEF IsBlank
<1>6. GitFor(o.run, shell.env) = NoGit /\ NoGit # Refused
  BY <1>3, RecordsDiffer DEF GitFor
<1>7. RunJobs(o, shell) = Configured(<<r>>, o.run, NoGit)
  BY <1>3, <1>4, <1>5, <1>6 DEF RunJobs
<1> HIDE DEF r
<1>8. Configured(<<r>>, o.run, NoGit) = <<Job(r.project, r.name, r.task, With(o.run, NoGit))>>
  BY <1>6, ConfiguredOne
<1>9. Started(<<"run", "dir">>, shell) = <<Job(r.project, r.name, r.task, With(o.run, NoGit))>>
  BY <1>1, <1>2, <1>7, <1>8
<1>10. QED
  BY <1>9

\* What `lya scheduler` starts with a file, and what `lya submit` asks the daemon for.
FileStarts(content, publish, env, queued) ==
    LET shell == Shell(env, content, queued)
        reqs == ParseJobFile(content, "shell")
        run == PublishingRun("--publish" \in Publishing(publish))
        g == GitFor(run, env)
    IN  /\ Started(<<"scheduler">> \o publish \o <<"file">>, shell) = Configured(reqs, run, g)
        /\ Started(<<"submit">> \o publish \o <<"--file", "file">>, shell) = Configured(reqs, run, g)
        /\ Started(<<"scheduler", "--resume-queued">> \o publish \o <<"file">>, shell)
             = Configured(IF reqs = <<>> THEN <<>> ELSE queued \o reqs, run, g)

LEMMA FileIsStarted ==
    ASSUME NEW T, NEW M, NEW P, NEW content \in Seq(Rows(T, M, P)),
           NEW publish \in {<<>>, <<"--publish">>}, NEW env, NEW queued
    PROVE  FileStarts(content, publish, env, queued)
<1> DEFINE shell == Shell(env, content, queued)
           reqs == ParseJobFile(content, "shell")
           run == PublishingRun("--publish" \in Publishing(publish))
           g == GitFor(run, env)
           K == {"--publish", "--resume-queued", "--file", "file"}
           a == publish \o <<"file">>
           b == <<"--resume-queued">> \o publish \o <<"file">>
           c == publish \o <<"--file", "file">>
           flags == Publishing(publish)
           both == flags \cup {"--resume-queued"}
           e == <<>>
           w == <<"file">>
           v == [o \in {"--file"} |-> "file"]
<1>1. /\ a \in Seq(K) /\ b \in Seq(K) /\ c \in Seq(K)
      /\ <<"scheduler">> \o publish \o <<"file">> = <<"scheduler">> \o a
      /\ <<"scheduler", "--resume-queued">> \o publish \o <<"file">> = <<"scheduler">> \o b
      /\ <<"submit">> \o publish \o <<"--file", "file">> = <<"submit">> \o c
  <2> DEFINE L == K \cup {"scheduler", "submit"}
             x == <<"scheduler">>
             y == <<"--resume-queued">>
             z == <<"submit">>
             f == <<"file">>
             h == <<"--file", "file">>
  <2>1. /\ x \in Seq(L) /\ y \in Seq(L) /\ z \in Seq(L) /\ f \in Seq(L) /\ h \in Seq(L)
        /\ y \in Seq(K) /\ f \in Seq(K) /\ h \in Seq(K)
    OBVIOUS
  <2>2. publish \in Seq(K) /\ publish \in Seq(L)
    <3>1. <<>> \in Seq(K) /\ <<"--publish">> \in Seq(K) /\ <<>> \in Seq(L) /\ <<"--publish">> \in Seq(L)
      OBVIOUS
    <3>2. QED
      BY <3>1
  <2>3. <<"scheduler", "--resume-queued">> = x \o y
    BY ShortLines
  <2> HIDE DEF K, L, x, y, z, f, h
  <2>4. publish \o f \in Seq(K) /\ (y \o publish) \o f \in Seq(K) /\ publish \o h \in Seq(K)
        /\ y \o publish \in Seq(K)
    <3>1. y \o publish \in Seq(K)
      BY <2>1, <2>2, ConcatProperties
    <3>2. QED
      BY <2>1, <2>2, <3>1, ConcatProperties
  <2> DEFINE Cat(s, t) == s \o t
  <2>8. \A A, B, C \in Seq(L) : Cat(Cat(A, B), C) = Cat(A, Cat(B, C))
    BY ONLY ConcatAssociative, SMTT(60)
  <2>9. \A A, B \in Seq(L) : Cat(A, B) \in Seq(L)
    BY ConcatProperties
  <2> HIDE DEF Cat
  <2>5. Cat(Cat(x, publish), f) = Cat(x, Cat(publish, f)) /\ Cat(Cat(z, publish), h) = Cat(z, Cat(publish, h))
    BY ONLY <2>1, <2>2, <2>8
  <2>6. Cat(Cat(Cat(x, y), publish), f) = Cat(x, Cat(Cat(y, publish), f))
    <3>1. Cat(Cat(x, y), publish) = Cat(x, Cat(y, publish))
      BY ONLY <2>1, <2>2, <2>8
    <3>2. Cat(y, publish) \in Seq(L)
      BY ONLY <2>1, <2>2, <2>9
    <3>3. Cat(Cat(x, Cat(y, publish)), f) = Cat(x, Cat(Cat(y, publish), f))
      BY ONLY <2>1, <2>8, <3>2
    <3>4. QED
      BY ONLY <3>1, <3>3
  <2>7. QED
    BY <2>3, <2>4, <2>5, <2>6 DEF x, y, z, f, h, Cat
<1>2. /\ Scan(SchedulerGrammar, a) = Accepted(flags, None, e, w)
      /\ Scan(SchedulerGrammar, b) = Accepted(both, None, e, w)
      /\ Scan(SubmitGrammar, c) = Accepted(flags, None, v, e)
  BY FileLinesAreScanned
<1>3. /\ "--browser" \notin flags /\ "--browser" \notin both /\ "--resume-queued" \notin flags
      /\ "--resume-queued" \in both /\ ("--publish" \in both <=> "--publish" \in flags)
  BY DEF Publishing
<1>15. shell = Shell(env, content, queued) /\ reqs = ParseJobFile(content, "shell")
       /\ run = PublishingRun("--publish" \in flags) /\ g = GitFor(run, env)
  OBVIOUS
<1> HIDE DEF shell, reqs, run, g
<1>4. w # e /\ w[1] = "file"
  <2>1. Len(w) = 1 /\ Len(e) = 0 /\ w[1] = "file"
    OBVIOUS
  <2>2. w # e
    BY <2>1
  <2>3. QED
    BY <2>1, <2>2
<1>5. /\ shell.cwd = "shell" /\ shell.env = env /\ shell.queued = queued
      /\ shell.files["file"] = content /\ LyaHome(shell) # <<>> /\ Prepared(shell)
  BY <1>15, ShellIs
<1>6. reqs \in Seq(Requested(T, M, P))
  BY <1>15, FileIsRead
<1> DEFINE oa == ParseScheduler(a)
           ob == ParseScheduler(b)
           oc == ParseSubmit(c, shell.cwd)
<1>7. /\ Started(<<"scheduler">> \o a, shell) = SchedulerJobs(oa, shell)
      /\ Started(<<"scheduler">> \o b, shell) = SchedulerJobs(ob, shell)
      /\ Started(<<"submit">> \o c, shell) = SubmitJobs(oc, shell)
  <2> HIDE DEF a, b, c, K
  <2>1. QED
    BY <1>1, StartedAs
<1>8. oa # Refused /\ oa.job_file = w /\ ~oa.resume_queued /\ oa.run = run
  <2> HIDE DEF a, flags
  <2>1. QED
    BY <1>2, <1>3, <1>15, SchedulerReads DEF flags
<1>9. ob # Refused /\ ob.job_file = w /\ ob.resume_queued /\ ob.run = run
  <2> DEFINE p == "--publish" \in flags
             q == "--publish" \in both
  <2>1. p = q
    BY <1>3
  <2>2. run = PublishingRun(p)
    BY <1>15
  <2> HIDE DEF b, flags, both, p
  <2>3. ob # Refused /\ ob.job_file = w /\ ob.resume_queued /\ ob.run = PublishingRun(q)
    BY <1>2, <1>3, SchedulerReads
  <2> HIDE DEF q
  <2>4. QED
    BY <2>1, <2>2, <2>3
<1>10. oc # Refused /\ "file" \in DOMAIN oc /\ oc.file = "file" /\ oc.run = run
  <2> HIDE DEF c, flags
  <2>1. QED
    BY <1>2, <1>3, <1>15, SubmitReads DEF flags
<1> HIDE DEF oa, ob, oc, w, e
<1>11. SchedulerJobs(oa, shell) = Configured(reqs, run, g)
  <2>1. ~(oa.job_file = e) /\ oa.job_file[1] = "file"
    BY <1>4, <1>8
  <2>2. e \o reqs = reqs
    BY <1>6, ConcatEmptySeq DEF e
  <2>3. (IF oa.job_file # e /\ reqs = e THEN e ELSE (IF oa.resume_queued THEN shell.queued ELSE e) \o reqs)
          = reqs
    BY <1>8, <2>1, <2>2
  <2>4. SchedulerJobs(oa, shell)
          = Configured(IF oa.job_file # e /\ reqs = e THEN e
                       ELSE (IF oa.resume_queued THEN shell.queued ELSE e) \o reqs, run, g)
    BY <1>5, <1>8, <1>15, <2>1 DEF SchedulerJobs, e
  <2>5. QED
    BY <2>3, <2>4
<1>12. SchedulerJobs(ob, shell) = Configured(IF reqs = e THEN e ELSE queued \o reqs, run, g)
  <2>1. ~(ob.job_file = e) /\ ob.job_file[1] = "file"
    BY <1>4, <1>9
  <2>3. (IF ob.job_file # e /\ reqs = e THEN e ELSE (IF ob.resume_queued THEN shell.queued ELSE e) \o reqs)
          = IF reqs = e THEN e ELSE queued \o reqs
    BY <1>5, <1>9, <2>1
  <2>4. SchedulerJobs(ob, shell)
          = Configured(IF ob.job_file # e /\ reqs = e THEN e
                       ELSE (IF ob.resume_queued THEN shell.queued ELSE e) \o reqs, run, g)
    BY <1>5, <1>9, <1>15, <2>1 DEF SchedulerJobs, e
  <2>5. QED
    BY <2>3, <2>4
<1>13. SubmitJobs(oc, shell) = Configured(reqs, run, g)
  BY <1>5, <1>10, <1>15 DEF SubmitJobs
<1>14. QED
  BY <1>1, <1>7, <1>11, <1>12, <1>13 DEF FileStarts, shell, reqs, run, g, e

\* Whatever a job file says, in whatever environment: `lya submit --file` leaves with the daemon
\* the jobs that `lya scheduler` drives itself, a file that is refused gives none to either, and
\* queued jobs are driven before the file's, with its settings (parse_job_file, run_scheduler).
THEOREM AnyFileMeansTheSame ==
    ASSUME NEW T, NEW M, NEW P, NEW content \in Seq(Rows(T, M, P)),
           NEW V, NEW env \in Environments(V), NEW publish \in {<<>>, <<"--publish">>}
    PROVE  FileMeansTheSame(content, env, publish)
<1> DEFINE shell == Shell(env, content, <<>>)
           queued == Started(<<"run", "dir">>, shell)
           more == [shell EXCEPT !.queued = queued]
           reqs == ParseJobFile(content, "shell")
           p == "--publish" \in Publishing(publish)
           run == PublishingRun(p)
           g == GitFor(run, env)
           jobs == Configured(reqs, run, g)
           scheduled == Started(<<"scheduler">> \o publish \o <<"file">>, shell)
           submitted == Started(<<"submit">> \o publish \o <<"--file", "file">>, shell)
           all == Started(<<"scheduler", "--resume-queued">> \o publish \o <<"file">>, more)
<1>1. PICK a, b, c, d : queued = <<Job(a, b, c, d)>>
  BY OneIsQueued
<1> HIDE DEF queued
<1>2. more = Shell(env, content, queued)
  <2> DEFINE home == [LYA_HOME |-> "h", HOME |-> None]
             context == [h \in {<<"h">>} |-> "text"]
             programs == {"git", "codex", "claude"}
             files == [f \in {"file"} |-> content]
             none == <<>>
  <2>1. \A q : Shell(env, content, q) = [cwd |-> "shell", env |-> env, home |-> home, context |-> context,
                                       programs |-> programs, files |-> files, queued |-> q]
    BY DEF Shell
  <2>2. shell = Shell(env, content, none)
    OBVIOUS
  <2> HIDE DEF home, context, programs, files, none, shell
  <2>3. [shell EXCEPT !.queued = queued]
          = [cwd |-> "shell", env |-> env, home |-> home, context |-> context,
             programs |-> programs, files |-> files, queued |-> queued]
    BY <2>1, <2>2
  <2>4. QED
    BY <2>1, <2>3
<1>9. FileStarts(content, publish, env, <<>>) /\ FileStarts(content, publish, env, queued)
  BY FileIsStarted
<1>3. scheduled = jobs /\ submitted = jobs
  <2> HIDE DEF queued
  <2>1. QED
    BY <1>9 DEF FileStarts
<1>4. all = Configured(IF reqs = <<>> THEN <<>> ELSE queued \o reqs, run, g)
  <2> HIDE DEF shell, more
  <2>1. QED
    BY <1>2, <1>9 DEF FileStarts
<1> HIDE DEF shell, more, reqs, run, g
<1>5. reqs \in Seq(Requested(T, M, P)) /\ Len(reqs) <= MaxRequests
  BY FileIsRead DEF reqs
<1> HIDE DEF scheduled, submitted, all
<1>6. Delivered(jobs) = Trimmed(jobs) /\ Agree(jobs, queued, all)
  <2>1. CASE g = Refused
    <3>1. jobs = <<>> /\ all = <<>>
      BY <1>4, <2>1 DEF Configured
    <3>2. QED
      BY <3>1, NothingDelivered DEF Agree
  <2>2. CASE g # Refused
    <3>1. run \in [max_iterations : Nat \ {0}, max_jobs : Nat \ {0}, browser : BOOLEAN, publish : BOOLEAN]
      <4>1. p \in BOOLEAN
        OBVIOUS
      <4> HIDE DEF p
      <4>2. QED
        BY <4>1 DEF run, PublishingRun, DEFAULT_MAX_ITERATIONS, DEFAULT_MAX_JOBS
    <3>2. Settled(run, g)
      BY <2>2, <3>1, GitIsSettled DEF g
    <3> DEFINE J == {Job(r.project, r.name, r.task, With(run, g)) : r \in Requested(T, M, P)}
    <3>3. /\ jobs \in Seq(J) /\ Len(jobs) = Len(reqs)
          /\ \A i \in DOMAIN jobs : IsResolved(jobs[i]) /\ ~IsBlank(jobs[i].task)
      BY <1>5, <2>2, <3>2, ConfiguredIs, SMTT(60)
    <3> HIDE DEF J
    <3>4. CASE reqs = <<>>
      <4>1. jobs = <<>> /\ all = jobs
        BY <1>4, <3>4 DEF Configured
      <4>2. QED
        BY <4>1, NothingDelivered DEF Agree
    <3>5. CASE reqs # <<>>
      <4>1. all = Configured(queued \o reqs, run, g)
        BY <1>4, <3>5
      <4>2. Agree(jobs, queued, all)
        BY <1>1, <1>5, <2>2, <3>5, <4>1, QueuedThenFile
      <4> HIDE DEF jobs
      <4>3. Delivered(jobs) = Trimmed(jobs)
        BY <1>5, <3>3, AllDelivered
      <4>4. QED
        BY <4>2, <4>3
    <3>6. QED
      BY <3>4, <3>5
  <2>3. QED
    BY <2>1, <2>2
<1> HIDE DEF jobs
<1>7. Delivered(submitted) = Trimmed(scheduled) /\ Agree(scheduled, queued, all)
  BY <1>3, <1>6
<1>8. QED
  BY <1>7 DEF FileMeansTheSame, scheduled, submitted, all, queued, more, shell

-----------------------------------------------------------------------------
(* Submissions of any jobs.                                                *)

LEMMA PickedByType ==
    ASSUME NEW E, NEW Q, NEW s \in Seq(E)
    PROVE  PickedBy(Q, s) \in Seq(E)
<1> DEFINE places == {i \in DOMAIN s : s[i] \in Q}
<1>1. places \in SUBSET (DOMAIN s)
  OBVIOUS
<1>2. PickedBy(Q, s) = Picked(s, places)
  BY DEF PickedBy
<1> HIDE DEF places
<1>3. QED
  BY <1>1, <1>2, PickedSome

LEMMA PickedByEmpty ==
    ASSUME NEW Q
    PROVE  PickedBy(Q, <<>>) = <<>>
<1> DEFINE e == <<>>
<1>1. e \in Seq({}) /\ DOMAIN e = {}
  BY EmptySeq
<1> HIDE DEF e
<1>2. {i \in DOMAIN e : e[i] \in Q} = {}
  BY <1>1
<1>3. Picked(e, {}) = <<>>
  BY <1>1, PickedAll
<1>4. QED
  BY <1>2, <1>3 DEF PickedBy, e

\* What has nothing of Q adds nothing to what is picked.
LEMMA OthersAreNotPicked ==
    ASSUME NEW E, NEW Q, NEW r \in Seq(E), \A i \in DOMAIN r : r[i] \notin Q, NEW s \in Seq(E)
    PROVE  PickedBy(Q, r \o s) = PickedBy(Q, s)
<1> DEFINE T == {t \in Seq(E) : PickedBy(Q, t) = <<>> \/ \E i \in DOMAIN t : t[i] \in Q}
           U == {t \in Seq(E) : PickedBy(Q, r \o t) = PickedBy(Q, t)}
<1>1. PickedBy(Q, <<>>) = <<>>
  BY PickedByEmpty
<1>2. <<>> \in T
  BY <1>1, EmptySeq
<1>3. ASSUME NEW t \in Seq(E), NEW e \in E, t \in T PROVE Append(t, e) \in T
  <2> DEFINE a == Append(t, e)
  <2>1. /\ Len(t) \in Nat /\ a \in Seq(E) /\ DOMAIN t = 1 .. Len(t) /\ DOMAIN a = 1 .. Len(t) + 1
        /\ a[Len(t) + 1] = e /\ \A i \in 1 .. Len(t) : a[i] = t[i]
    BY AppendProperties, LenProperties
  <2>2. PickedBy(Q, a) = IF e \in Q THEN Append(PickedBy(Q, t), e) ELSE PickedBy(Q, t)
    BY PickedByAppend
  <2> HIDE DEF a
  <2>3. CASE e \in Q
    <3>1. Len(t) + 1 \in DOMAIN a /\ a[Len(t) + 1] \in Q
      BY <2>1, <2>3
    <3>2. QED
      BY <2>1, <3>1 DEF a
  <2>4. CASE e \notin Q /\ PickedBy(Q, t) = <<>>
    BY <2>1, <2>2, <2>4 DEF a
  <2>5. CASE \E i \in DOMAIN t : t[i] \in Q
    <3>1. PICK i \in DOMAIN t : t[i] \in Q
      BY <2>5
    <3>2. i \in DOMAIN a /\ a[i] \in Q
      BY <2>1, <3>1
    <3>3. QED
      BY <2>1, <3>2 DEF a
  <2>6. QED
    BY <1>3, <2>3, <2>4, <2>5
<1> HIDE DEF T
<1>4. r \in T
  BY <1>2, <1>3, SeqInduction
<1>5. PickedBy(Q, r) = <<>>
  BY <1>4 DEF T
<1>6. <<>> \in U
  <2>1. r \o <<>> = r
    BY ConcatEmptySeq
  <2>2. QED
    BY <1>1, <1>5, <2>1, EmptySeq
<1>7. ASSUME NEW t \in Seq(E), NEW e \in E, t \in U PROVE Append(t, e) \in U
  <2> DEFINE b == r \o t
  <2>1. b \in Seq(E) /\ Append(t, e) \in Seq(E)
    BY ConcatProperties, AppendProperties
  <2>2. r \o Append(t, e) = Append(b, e)
    <3> DEFINE o == <<e>>
    <3>1. o \in Seq(E) /\ Append(t, e) = t \o o /\ Append(b, e) = b \o o
      BY <2>1, AppendIsConcat
    <3> DEFINE Cat(x, y) == x \o y
    <3>2. \A A, B, C \in Seq(E) : Cat(Cat(A, B), C) = Cat(A, Cat(B, C))
      BY ONLY ConcatAssociative, SMTT(60)
    <3> HIDE DEF o, Cat
    <3>3. Cat(Cat(r, t), o) = Cat(r, Cat(t, o))
      BY <3>1, <3>2
    <3>4. QED
      BY <3>1, <3>3 DEF Cat
  <2> HIDE DEF b
  <2>3. PickedBy(Q, Append(b, e)) = IF e \in Q THEN Append(PickedBy(Q, b), e) ELSE PickedBy(Q, b)
    BY <2>1, PickedByAppend
  <2>4. PickedBy(Q, Append(t, e)) = IF e \in Q THEN Append(PickedBy(Q, t), e) ELSE PickedBy(Q, t)
    BY PickedByAppend
  <2>5. PickedBy(Q, b) = PickedBy(Q, t)
    BY <1>7 DEF b
  <2>6. PickedBy(Q, r \o Append(t, e)) = PickedBy(Q, Append(t, e))
    BY <2>2, <2>3, <2>4, <2>5
  <2>7. QED
    BY <2>1, <2>6
<1> HIDE DEF U
<1>9. s \in U
  BY <1>6, <1>7, SeqInduction
<1>10. QED
  BY <1>9 DEF U

\* Every element of a list made into another.
Mapped(f, s) == [i \in DOMAIN s |-> f[s[i]]]

Maps(f, E, V) == f \in [E -> V]

LEMMA MappedIs ==
    ASSUME NEW E, NEW V, NEW f, Maps(f, E, V), NEW s \in Seq(E)
    PROVE  Mapped(f, s) \in Seq(V) /\ Len(Mapped(f, s)) = Len(s)
<1> DEFINE N == Len(s)
           m == Mapped(f, s)
<1>1. N \in Nat /\ DOMAIN s = 1 .. N /\ \A i \in 1 .. N : s[i] \in E
  BY LenProperties, ElementOfSeq
<1>2. m = [i \in 1 .. N |-> f[s[i]]]
  BY <1>1 DEF Mapped
<1> HIDE DEF m
<1>3. m \in [1 .. N -> V]
  BY <1>1, <1>2 DEF Maps
<1>4. m \in Seq(V) /\ Len(m) = N
  BY <1>1, <1>2, <1>3
<1>5. QED
  BY <1>4 DEF m

LEMMA MappedAppend ==
    ASSUME NEW E, NEW V, NEW f, Maps(f, E, V), NEW s \in Seq(E), NEW e \in E
    PROVE  Mapped(f, Append(s, e)) = Append(Mapped(f, s), f[e])
<1> DEFINE N == Len(s)
           a == Append(s, e)
           u == Mapped(f, a)
           m == Mapped(f, s)
           w == Append(m, f[e])
<1>1. /\ N \in Nat /\ DOMAIN s = 1 .. N /\ a \in Seq(E) /\ Len(a) = N + 1 /\ DOMAIN a = 1 .. N + 1
      /\ a[N + 1] = e /\ \A i \in 1 .. N : a[i] = s[i]
  BY AppendProperties, LenProperties
<1> HIDE DEF a
<1>2. u \in Seq(V) /\ Len(u) = N + 1 /\ m \in Seq(V) /\ Len(m) = N /\ f[e] \in V
  <2>1. u \in Seq(V) /\ Len(u) = Len(a)
    BY <1>1, MappedIs
  <2>2. m \in Seq(V) /\ Len(m) = N
    BY MappedIs
  <2>3. f[e] \in V
    BY DEF Maps
  <2>4. QED
    BY <1>1, <2>1, <2>2, <2>3
<1>3. /\ \A i \in 1 .. N + 1 : u[i] = f[a[i]]
      /\ \A i \in 1 .. N : m[i] = f[s[i]]
  BY <1>1 DEF Mapped
<1> HIDE DEF u, m
<1>4. /\ w \in Seq(V) /\ Len(w) = N + 1 /\ w[N + 1] = f[e]
      /\ \A i \in 1 .. N : w[i] = m[i]
  BY <1>1, <1>2, AppendProperties
<1> HIDE DEF w
<1>5. \A i \in 1 .. N + 1 : u[i] = w[i]
  <2>1. SUFFICES ASSUME NEW i \in 1 .. N + 1 PROVE u[i] = w[i]
    OBVIOUS
  <2>2. i \in 1 .. N \/ i = N + 1
    BY <1>1
  <2>3. QED
    BY <1>1, <1>3, <1>4, <2>2
<1>6. u = w
  BY <1>2, <1>4, <1>5, SeqEqual
<1>7. QED
  BY <1>6 DEF u, w, a, m

\* What the daemon answers to one job that is valid.
IsJob(j) == \E a, b, c, d : j = Job(a, b, c, d)

IsFound(j) == Canonicalize(j.project, "daemon") # Refused

LEMMA OutcomeIs ==
    ASSUME NEW j, IsJob(j)
    PROVE  LET o == SubmitOne(j, "daemon")
           IN  /\ o.queued <=> IsFound(j)
               /\ IsFound(j) => o.job.task = Trim(j.task)
<1> DEFINE t == Trim(j.task)
           n == NamedOr(j.name, j.project)
           r == [j EXCEPT !.name = n, !.task = t]
           path == Canonicalize(j.project, "daemon")
           k == [r EXCEPT !.project = path]
           o == SubmitOne(j, "daemon")
<1>1. DOMAIN j = {"project", "name", "task", "configuration"}
  BY DEF IsJob, Job
<1> HIDE DEF t, n
<1>2. r.project = j.project /\ r.task = t /\ DOMAIN r = DOMAIN j
  BY <1>1
<1>3. o = AcceptOne(r, "daemon")
  BY DEF SubmitOne, t, n
<1> HIDE DEF r, path, o
<1>4. k.task = t
  BY <1>1, <1>2
<1> HIDE DEF k
<1>5. o = IF path = Refused THEN [queued |-> FALSE] ELSE [queued |-> TRUE, job |-> k]
  BY <1>2, <1>3 DEF AcceptOne, path, k
<1>6. CASE path = Refused
  BY <1>5, <1>6 DEF IsFound, path, o
<1>7. CASE path # Refused
  <2>1. o.queued /\ o.job = k
    BY <1>5, <1>7
  <2>2. QED
    BY <1>4, <1>7, <2>1 DEF IsFound, path, o, t
<1>8. QED
  BY <1>6, <1>7

\* V and G are the jobs of E that are valid and can be queued, f gives the answers O, Q those
\* that are queued, g and h the texts of an answer and of a job.
Answers(E, V, G, O, f, Q, X, g, h) ==
    /\ \A j \in E : IsJob(j)
    /\ \A j \in E : j \in V <=> IsValid(j)
    /\ \A j \in E : j \in G <=> (IsValid(j) /\ IsFound(j))
    /\ Maps(f, E, O) /\ \A j \in E : f[j] = SubmitOne(j, "daemon")
    /\ \A o \in O : o \in Q <=> o.queued
    /\ Maps(g, O, X) /\ \A o \in O : g[o] = o.job.task
    /\ Maps(h, E, X) /\ \A j \in E : h[j] = Trim(j.task)

\* What is queued of a submission has, in its order, the texts of the jobs that can be queued.
LEMMA TextsAgree ==
    ASSUME NEW E, NEW V, NEW G, NEW O, NEW f, NEW Q, NEW X, NEW g, NEW h,
           Answers(E, V, G, O, f, Q, X, g, h), NEW s \in Seq(E)
    PROVE  Mapped(g, PickedBy(Q, Mapped(f, PickedBy(V, s)))) = Mapped(h, PickedBy(G, s))
<1> DEFINE Out(t) == Mapped(f, PickedBy(V, t))
           L(t) == Mapped(g, PickedBy(Q, Out(t)))
           R(t) == Mapped(h, PickedBy(G, t))
           T == {t \in Seq(E) : L(t) = R(t)}
<1>1. Maps(f, E, O) /\ Maps(g, O, X) /\ Maps(h, E, X)
  BY DEF Answers
<1>2. ASSUME NEW e \in E
      PROVE  /\ (e \in G) <=> (e \in V /\ f[e] \in Q)
             /\ e \in G => g[f[e]] = h[e]
  <2>1. IsJob(e) /\ f[e] = SubmitOne(e, "daemon") /\ f[e] \in O
    BY DEF Answers, Maps
  <2>2. SubmitOne(e, "daemon").queued <=> IsFound(e)
    BY <2>1, OutcomeIs
  <2>3. IsFound(e) => SubmitOne(e, "daemon").job.task = Trim(e.task)
    BY <2>1, OutcomeIs
  <2>4. g[f[e]] = f[e].job.task /\ h[e] = Trim(e.task)
    BY <2>1 DEF Answers
  <2>5. f[e] \in Q <=> IsFound(e)
    BY <2>1, <2>2 DEF Answers
  <2>6. (e \in V <=> IsValid(e)) /\ (e \in G <=> (IsValid(e) /\ IsFound(e)))
    BY DEF Answers
  <2>7. QED
    BY <2>1, <2>3, <2>4, <2>5, <2>6
<1>3. <<>> \in T
  <2> DEFINE e == <<>>
  <2>1. DOMAIN e = {} /\ e \in Seq(E) /\ \A q : Mapped(q, e) = e
    BY EmptySeq DEF Mapped
  <2>2. \A q : PickedBy(q, e) = e
    BY PickedByEmpty
  <2> HIDE DEF e
  <2>3. L(e) = e /\ R(e) = e
    BY <2>1, <2>2
  <2>4. e \in T
    BY <2>1, <2>3
  <2> HIDE DEF T
  <2>5. QED
    BY <2>4 DEF e
<1>4. ASSUME NEW t \in Seq(E), NEW e \in E, t \in T PROVE Append(t, e) \in T
  <2> DEFINE a == Append(t, e)
             v == PickedBy(V, t)
             m == Mapped(f, v)
             q == PickedBy(Q, m)
             k == PickedBy(G, t)
             o == f[e]
  <2>1. a \in Seq(E) /\ v \in Seq(E) /\ m \in Seq(O) /\ q \in Seq(O) /\ k \in Seq(E) /\ o \in O
    <3>1. a \in Seq(E) /\ v \in Seq(E) /\ k \in Seq(E) /\ o \in O
      BY <1>1, AppendProperties, PickedByType DEF Maps
    <3> HIDE DEF v
    <3>2. m \in Seq(O)
      BY <1>1, <3>1, MappedIs
    <3> HIDE DEF m
    <3>3. q \in Seq(O)
      BY <3>2, PickedByType
    <3>4. QED
      BY <3>1, <3>2, <3>3
  <2>12. e \in E
    OBVIOUS
  <2>2. PickedBy(V, a) = IF e \in V THEN Append(v, e) ELSE v
    BY PickedByAppend
  <2>3. PickedBy(G, a) = IF e \in G THEN Append(k, e) ELSE k
    BY PickedByAppend
  <2> HIDE DEF a, v, k
  <2>4. Mapped(f, Append(v, e)) = Append(m, o)
    BY ONLY <1>1, <2>1, <2>12, MappedAppend DEF m, o
  <2> HIDE DEF m, o
  <2>5. PickedBy(Q, Append(m, o)) = IF o \in Q THEN Append(q, o) ELSE q
    BY ONLY <2>1, PickedByAppend DEF q
  <2> HIDE DEF q
  <2>6. Mapped(g, Append(q, o)) = Append(Mapped(g, q), g[o])
    BY ONLY <1>1, <2>1, <2>12, MappedAppend
  <2>7. Mapped(h, Append(k, e)) = Append(Mapped(h, k), h[e])
    BY ONLY <1>1, <2>1, <2>12, MappedAppend
  <2>8. Mapped(g, q) = Mapped(h, k)
    BY <1>4 DEF q, m, v, k
  <2>9. (e \in G <=> (e \in V /\ o \in Q)) /\ (e \in G => g[o] = h[e])
    BY <1>2 DEF o
  <2>10. L(a) = R(a)
    <3>1. CASE e \in G
      <4>1. PickedBy(Q, Out(a)) = Append(q, o)
        BY <2>2, <2>4, <2>5, <2>9, <3>1
      <4>2. QED
        BY <2>3, <2>6, <2>7, <2>8, <2>9, <3>1, <4>1
    <3>2. CASE e \notin G /\ e \in V
      <4>1. PickedBy(Q, Out(a)) = q
        BY <2>2, <2>4, <2>5, <2>9, <3>2
      <4>2. QED
        BY <2>3, <2>8, <3>2, <4>1
    <3>3. CASE e \notin V
      <4>1. e \notin G /\ PickedBy(V, a) = v
        BY <2>2, <2>9, <3>3
      <4>2. PickedBy(Q, Out(a)) = q
        BY <4>1 DEF q, m
      <4>3. QED
        BY <2>3, <2>8, <4>1, <4>2
    <3>4. QED
      BY <3>1, <3>2, <3>3
  <2>11. QED
    BY <2>1, <2>10 DEF a
<1> HIDE DEF T
<1>5. s \in T
  BY <1>3, <1>4, SeqInduction
<1>6. QED
  BY <1>5 DEF T

\* Every job of a submission is answered, whatever it holds, and what is queued are, in its
\* order and with their texts, the jobs that are valid and have a repository
\* (DaemonState::submit, accept_one).
THEOREM AnySubmissionIsAnswered ==
    ASSUME NEW E, \A j \in E : IsJob(j), NEW jobs \in Seq(E), jobs # <<>>, Len(jobs) <= MaxRequests
    PROVE  Answered(jobs, {i \in DOMAIN jobs : IsValid(jobs[i]) /\ IsFound(jobs[i])})
<1> DEFINE N == Len(jobs)
           places == ValidPlaces(jobs)
           left == DOMAIN jobs \ places
           good == {i \in DOMAIN jobs : IsValid(jobs[i]) /\ IsFound(jobs[i])}
           V == {j \in E : IsValid(j)}
           G == {j \in E : IsValid(j) /\ IsFound(j)}
           f == [j \in E |-> SubmitOne(j, "daemon")]
           O == {f[j] : j \in E}
           Q == {o \in O : o.queued}
           g == [o \in O |-> o.job.task]
           h == [j \in E |-> Trim(j.task)]
           refusal == [queued |-> FALSE]
           all == O \cup {refusal}
           valid == Picked(jobs, places)
           invalid == Picked(jobs, left)
           kept == Picked(jobs, good)
           refused == [i \in DOMAIN invalid |-> refusal]
           taken == [i \in DOMAIN valid |-> SubmitOne(valid[i], "daemon")]
           outcomes == DaemonAccepts(jobs, "daemon")
           queued == Picked(outcomes, {i \in DOMAIN outcomes : outcomes[i].queued})
<1>1. N \in Nat /\ DOMAIN jobs = 1 .. N /\ \A i \in DOMAIN jobs : jobs[i] \in E
  BY LenProperties, ElementOfSeq
<1>2. places \in SUBSET (DOMAIN jobs) /\ left \in SUBSET (DOMAIN jobs) /\ good \in SUBSET (DOMAIN jobs)
  BY DEF ValidPlaces
<1>3. valid = PickedBy(V, jobs) /\ kept = PickedBy(G, jobs)
  <2>1. places = {i \in DOMAIN jobs : jobs[i] \in V}
    BY <1>1 DEF ValidPlaces
  <2>2. good = {i \in DOMAIN jobs : jobs[i] \in G}
    BY <1>1
  <2> HIDE DEF places, good, V, G
  <2>3. QED
    BY <2>1, <2>2 DEF PickedBy
<1>4. f \in [E -> O] /\ \A o \in all : o.queued <=> o \in Q
  <2>1. ~refusal.queued
    OBVIOUS
  <2> HIDE DEF f, refusal
  <2>2. f \in [E -> O]
    BY DEF f
  <2> HIDE DEF O
  <2>3. QED
    BY <2>1, <2>2
<1>5. Mapped(g, PickedBy(Q, Mapped(f, PickedBy(V, jobs)))) = Mapped(h, PickedBy(G, jobs))
  <2> DEFINE X == {o.job.task : o \in O} \cup {Trim(j.task) : j \in E}
  <2>1. (\A j \in E : j \in V <=> IsValid(j)) /\ (\A j \in E : j \in G <=> (IsValid(j) /\ IsFound(j)))
    OBVIOUS
  <2>2. \A j \in E : f[j] = SubmitOne(j, "daemon")
    OBVIOUS
  <2> HIDE DEF V, G, f
  <2>3. \A o \in O : o \in Q <=> o.queued
    OBVIOUS
  <2> HIDE DEF O, Q
  <2>4. g \in [O -> X] /\ \A o \in O : g[o] = o.job.task
    OBVIOUS
  <2>5. h \in [E -> X] /\ \A j \in E : h[j] = Trim(j.task)
    OBVIOUS
  <2>6. f \in [E -> O] /\ jobs \in Seq(E) /\ \A j \in E : IsJob(j)
    BY <1>4
  <2> HIDE DEF g, h, X
  <2>7. Answers(E, V, G, O, f, Q, X, g, h)
    BY <2>1, <2>2, <2>3, <2>4, <2>5, <2>6 DEF Answers, Maps
  <2>8. QED
    BY <2>7, TextsAgree
<1>6. Len(valid) + Len(invalid) = N /\ valid \in Seq(E) /\ invalid \in Seq(E) /\ kept \in Seq(E)
  <2>1. IsFiniteSet(DOMAIN jobs) /\ Cardinality(DOMAIN jobs) = N
    BY <1>1, FS_Interval
  <2> HIDE DEF places, left, good
  <2>2. valid \in Seq(E) /\ invalid \in Seq(E) /\ kept \in Seq(E)
        /\ Len(valid) = Cardinality(places) /\ Len(invalid) = Cardinality(left)
    BY <1>2, PickedIs
  <2>3. Cardinality(left) = N - Cardinality(DOMAIN jobs \cap places)
    BY <2>1, FS_Difference DEF left
  <2>4. DOMAIN jobs \cap places = places
    BY <1>2
  <2>5. Cardinality(places) \in Nat
    BY <1>2, <2>1, FS_Subset, FS_CardinalityType
  <2> DEFINE c == Cardinality(places)
  <2>6. Len(valid) = c /\ Len(invalid) = N - c /\ c \in Nat
    BY <2>2, <2>3, <2>4, <2>5
  <2> HIDE DEF N, c, valid, invalid, kept
  <2>7. Len(valid) + Len(invalid) = N
    BY <1>1, <2>6
  <2>8. QED
    BY <2>2, <2>7
<1>7. taken = Mapped(f, valid)
  <2> HIDE DEF valid
  <2>1. DOMAIN valid = 1 .. Len(valid) /\ \A i \in DOMAIN valid : valid[i] \in E
    BY <1>6, LenProperties, ElementOfSeq
  <2>2. \A i \in DOMAIN valid : f[valid[i]] = SubmitOne(valid[i], "daemon")
    BY <2>1
  <2> HIDE DEF f
  <2>3. QED
    BY <2>2 DEF Mapped
<1>8. outcomes = refused \o taken
  <2>1. ~(N > MaxRequests)
    BY <1>1, SubmissionAssumption
  <2>2. QED
    BY <2>1 DEF DaemonAccepts
<1> HIDE DEF N, valid, invalid, kept, f, g, h, V, G
<1>9. /\ taken \in Seq(O) /\ taken \in Seq(all) /\ Len(taken) = Len(valid)
      /\ refused \in Seq(all) /\ Len(refused) = Len(invalid)
      /\ \A i \in DOMAIN refused : refused[i] \notin Q
  <2>1. taken \in Seq(O) /\ Len(taken) = Len(valid)
    <3> HIDE DEF O, taken
    <3>3. Maps(f, E, O) /\ valid \in Seq(E)
      BY <1>4, <1>6 DEF Maps
    <3>1. Mapped(f, valid) \in Seq(O) /\ Len(Mapped(f, valid)) = Len(valid)
      BY ONLY <3>3, MappedIs
    <3>2. QED
      BY <1>7, <3>1
  <2>2. Len(invalid) \in Nat /\ DOMAIN invalid = 1 .. Len(invalid)
    BY <1>6, LenProperties
  <2>3. ~refusal.queued
    OBVIOUS
  <2> HIDE DEF refusal, O, taken
  <2>4. refused \in [1 .. Len(invalid) -> all]
    BY <2>2
  <2>5. refused \in Seq(all) /\ Len(refused) = Len(invalid)
    BY <2>2, <2>4
  <2>6. \A i \in DOMAIN refused : refused[i] = refusal
    OBVIOUS
  <2>7. refusal \notin Q
    BY <2>3
  <2>8. taken \in Seq(all)
    <3>1. O \subseteq all
      OBVIOUS
    <3> HIDE DEF all
    <3>2. Len(taken) \in Nat /\ taken \in [1 .. Len(taken) -> O]
      BY <2>1, LenProperties, SeqDef
    <3>3. taken \in [1 .. Len(taken) -> all]
      BY <3>1, <3>2
    <3>4. QED
      BY <3>2, <3>3
  <2>9. QED
    BY <2>1, <2>5, <2>6, <2>7, <2>8
<1> HIDE DEF refused, taken, O, Q, all, outcomes, refusal
<1>10. Len(outcomes) = Len(jobs) /\ outcomes \in Seq(all)
  <2> DEFINE b == refused \o taken
  <2>1. b \in Seq(all) /\ Len(b) = Len(refused) + Len(taken)
    BY <1>9, ConcatProperties
  <2>2. Len(valid) \in Nat /\ Len(invalid) \in Nat
    BY <1>6, LenProperties
  <2> HIDE DEF b
  <2>3. QED
    BY <1>6, <1>8, <1>9, <2>1, <2>2 DEF b, N
<1>11. queued = PickedBy(Q, taken)
  <2>1. PickedBy(Q, outcomes) = PickedBy(Q, taken)
    BY <1>8, <1>9, OthersAreNotPicked
  <2>2. \A i \in DOMAIN outcomes : outcomes[i].queued <=> outcomes[i] \in Q
    <3>1. \A i \in DOMAIN outcomes : outcomes[i] \in all
      BY <1>10, LenProperties, ElementOfSeq
    <3>2. QED
      BY <1>4, <3>1
  <2>3. {i \in DOMAIN outcomes : outcomes[i].queued} = {i \in DOMAIN outcomes : outcomes[i] \in Q}
    BY <2>2
  <2>4. queued = PickedBy(Q, outcomes)
    BY <2>3 DEF PickedBy
  <2>5. QED
    BY <2>1, <2>4
<1> HIDE DEF queued
<1>12. [i \in DOMAIN queued |-> queued[i].job.task] = Mapped(g, queued)
  <2>1. queued \in Seq(O)
    BY <1>9, <1>11, PickedByType
  <2>2. \A i \in DOMAIN queued : queued[i] \in O
    BY <2>1, LenProperties, ElementOfSeq
  <2>3. \A i \in DOMAIN queued : g[queued[i]] = queued[i].job.task
    BY <2>2 DEF g
  <2>4. QED
    BY <2>3 DEF Mapped
<1>13. [i \in DOMAIN kept |-> Trim(kept[i].task)] = Mapped(h, kept)
  <2>1. \A i \in DOMAIN kept : kept[i] \in E
    BY <1>6, LenProperties, ElementOfSeq
  <2>2. \A i \in DOMAIN kept : h[kept[i]] = Trim(kept[i].task)
    BY <2>1 DEF h
  <2>3. QED
    BY <2>2 DEF Mapped
<1>14. Mapped(g, queued) = Mapped(h, kept)
  BY <1>3, <1>5, <1>7, <1>11
<1>15. QED
  BY <1>10, <1>12, <1>13, <1>14 DEF Answered, outcomes, queued, kept

-----------------------------------------------------------------------------
(* The instances that TLC evaluates.                                       *)

LEMMA EnvironmentsAre ==
    Identity \in Environments({"n", "e", None, "b", " "}) /\ NoBranch \in Environments({"n", "e", None, "b", " "})
<1> DEFINE V == {"n", "e", None, "b", " "}
<1>1. Identity \in Environments(V)
  BY DEF Identity, Environments
<1> DEFINE n == "n"
           e == "e"
           b == "b"
           x == " "
<1>2. NoBranch = [[name |-> n, email |-> e, remote |-> None, branch |-> b] EXCEPT !.branch = x]
  BY DEF NoBranch, Identity
<1>3. n \in V /\ e \in V /\ x \in V /\ None \in V
  OBVIOUS
<1> HIDE DEF n, e, b, x, V
<1>4. NoBranch \in Environments(V)
  BY <1>2, <1>3 DEF Environments
<1>5. QED
  BY <1>1, <1>4 DEF V

LEMMA SubmissionsHold == SubmittedMeansRun /\ FilesMeanTheSame /\ ReadyMeansPrepared
<1> DEFINE V == {"n", "e", None, "b", " "}
<1>1. Identity \in Environments(V) /\ NoBranch \in Environments(V)
  BY EnvironmentsAre
<1> HIDE DEF V
<1>2. SubmittedMeansRun
  <2> DEFINE K == {"--project", "--max-jobs", "--publish", "--browser", "2", "0", "dir", "missing", " "}
  <2>1. K \cap {"--verbose", "--file"} = {}
    OBVIOUS
  <2> HIDE DEF K
  <2>2. ASSUME NEW line \in Lines(K, 4), NEW env \in {Identity, NoBranch} PROVE SubmitMeansRun(line, env)
    <3>1. line \in Seq(K) /\ env \in Environments(V)
      BY <1>1, LinesAreSequences
    <3>2. QED
      BY <2>1, <3>1, AnySubmissionMeansRun
  <2>3. QED
    BY <2>2 DEF SubmittedMeansRun, K
<1>3. FilesMeanTheSame
  <2> DEFINE T == {<<" ", "word">>, <<" ">>, <<>>}
             M == {"dir", "missing", ".", " ", "name", ""}
             P == {None}
  <2>1. FileLines \subseteq Rows(T, M, P)
    <3> DEFINE K == {"comment", "malformed", "job"}
               J == {"job"}
               R == {"comment", "malformed"}
               e == <<>>
               S == {<<" ", "word">>, <<" ">>}
               Q == {"dir", "missing"}
               N == {" ", "name"}
               A == {FileLine(k, t, p, n) : k \in J, t \in S, p \in Q, n \in N}
               B == {FileLine(k, e, ".", "") : k \in R}
    <3>1. ASSUME NEW k \in K, NEW t \in T, NEW p \in M, NEW n \in M
          PROVE  FileLine(k, t, p, n) \in Rows(T, M, P)
      <4>1. Relative(p) \in [dir : P, name : M]
        BY DEF Relative
      <4>2. k \in {"blank", "comment", "malformed", "job"}
        OBVIOUS
      <4> HIDE DEF T, M, P
      <4>3. QED
        BY <4>1, <4>2 DEF Rows, FileLine
    <3>2. S \subseteq T /\ Q \subseteq M /\ N \subseteq M /\ "." \in M /\ "" \in M /\ e \in T
          /\ J \subseteq K /\ R \subseteq K
      OBVIOUS
    <3>3. FileLines = A \cup B
      BY DEF FileLines
    <3> HIDE DEF T, M, P, K, J, R, e, S, Q, N
    <3>4. A \subseteq Rows(T, M, P)
      <4>1. ASSUME NEW k \in J, NEW t \in S, NEW p \in Q, NEW n \in N
            PROVE  FileLine(k, t, p, n) \in Rows(T, M, P)
        BY <3>1, <3>2
      <4>2. QED
        BY ONLY <4>1
    <3>5. B \subseteq Rows(T, M, P)
      BY <3>1, <3>2
    <3> HIDE DEF A, B
    <3>6. QED
      BY <3>3, <3>4, <3>5
  <2> HIDE DEF T, M, P
  <2>2. ASSUME NEW content \in Lines(FileLines, MaxRequests + 1), NEW env \in {Identity, NoBranch},
               NEW publish \in {<<>>, <<"--publish">>}
        PROVE  FileMeansTheSame(content, env, publish)
    <3>1. MaxRequests + 1 \in Nat
      BY SubmissionAssumption
    <3>2. content \in Seq(FileLines)
      BY <3>1, LinesAreSequences
    <3>3. content \in Seq(Rows(T, M, P))
      <4>1. Len(content) \in Nat /\ content \in [1 .. Len(content) -> FileLines]
        BY <3>2, LenProperties
      <4>2. content \in [1 .. Len(content) -> Rows(T, M, P)]
        BY <2>1, <4>1
      <4>3. QED
        BY <4>1, <4>2
    <3>4. env \in Environments(V)
      BY <1>1
    <3>5. QED
      BY <3>3, <3>4, AnyFileMeansTheSame
  <2>3. QED
    BY <2>2 DEF FilesMeanTheSame
<1>4. ReadyMeansPrepared
  BY AnyMachineIsPrepared DEF ReadyMeansPrepared
<1>5. QED
  BY <1>2, <1>3, <1>4

\* The options of a line that asks for publication, or for nothing.
LEMMA PublishRead ==
    ASSUME NEW l \in {<<>>, <<"--publish">>}
    PROVE  RunConfiguration(Scan(RunGrammar, l)) = PublishingRun(l # <<>>)
<1> DEFINE e == <<>>
           none == {}
           f == "--publish"
           x == {f}
           g == RunGrammar
<1>1. Told(g) /\ f \in g.flags
  BY GrammarsAreTold DEF RunGrammar
<1>2. NothingScanned = Accepted(none, None, e, e)
  BY DEF NothingScanned, Accepted
<1>3. none \cup {f} = x /\ f \in x /\ f \notin none /\ "--browser" \notin x /\ "--browser" \notin none
  OBVIOUS
<1>4. \A o \in {"--verbose", "--json"} : o \notin x /\ o \notin none
  OBVIOUS
<1>5. DOMAIN e = {} /\ l \in {e, <<f>>} /\ <<f>> # e
  OBVIOUS
<1>6. Scanned(g, e) = NothingScanned
  BY <1>1, ScannedEmpty
<1>7. Scanned(g, <<f>>) = Argument(g, NothingScanned, f)
  BY <1>1, ScannedOne
<1> HIDE DEF e, none, x, g
<1>8. Argument(g, Accepted(none, None, e, e), f) = Accepted(none \cup {f}, None, e, e)
  BY ONLY <1>1, FlagRead
<1>9. Scanned(g, <<f>>) = Accepted(x, None, e, e)
  BY <1>2, <1>3, <1>7, <1>8
<1> HIDE DEF f
<1>10. CASE l = e
  <2>1. Complete(Accepted(none, None, e, e)) = Accepted(none, None, e, e)
    BY <1>4, AcceptedIsComplete
  <2>2. Scan(g, l) = Accepted(none, None, e, e)
    BY <1>2, <1>6, <1>10, <2>1 DEF Scan
  <2>3. RunConfiguration(Scan(g, l)) = PublishingRun("--publish" \in none)
    BY <1>3, <1>5, <2>2, RunIsRead
  <2>4. ("--publish" \in none) = (l # <<>>)
    BY <1>3, <1>10 DEF e, f
  <2>5. QED
    BY <2>3, <2>4 DEF g
<1>11. CASE l = <<f>>
  <2>1. Complete(Accepted(x, None, e, e)) = Accepted(x, None, e, e)
    BY <1>4, AcceptedIsComplete
  <2>2. Scan(g, l) = Accepted(x, None, e, e)
    BY <1>9, <1>11, <2>1 DEF Scan
  <2>3. RunConfiguration(Scan(g, l)) = PublishingRun("--publish" \in x)
    BY <1>3, <1>5, <2>2, RunIsRead
  <2>4. ("--publish" \in x) = (l # <<>>)
    BY <1>3, <1>5, <1>11 DEF e, f
  <2>5. QED
    BY <2>3, <2>4 DEF g
<1>12. QED
  BY <1>5, <1>10, <1>11

LEMMA PublishingFields ==
    ASSUME NEW b
    PROVE  /\ PublishingRun(b).publish = b
           /\ PublishingRun(b).max_iterations = DEFAULT_MAX_ITERATIONS
           /\ PublishingRun(b).max_jobs = DEFAULT_MAX_JOBS
<1> DEFINE no == FALSE
<1>1. PublishingRun(b) = [max_iterations |-> DEFAULT_MAX_ITERATIONS, max_jobs |-> DEFAULT_MAX_JOBS,
                          browser |-> no, publish |-> b]
  BY DEF PublishingRun
<1> HIDE DEF no
<1>2. QED
  BY <1>1

\* Which of the jobs that TLC submits are valid and have a repository.
LEMMA AskedIs ==
    ASSUME NEW p \in {"dir", "missing"}, NEW t, NEW l, NEW b,
           RunConfiguration(Scan(RunGrammar, l)) = PublishingRun(b)
    PROVE  /\ (IsValid(AskedFor(p, t, l)) /\ IsFound(AskedFor(p, t, l)))
                <=> (p = "dir" /\ ~IsBlank(t) /\ ~b)
           /\ AskedFor(p, t, l).project.name = p /\ AskedFor(p, t, l).task = t
           /\ AskedFor(p, t, l).configuration.run.publish = b
<1> DEFINE j == AskedFor(p, t, l)
           run == RunConfiguration(Scan(RunGrammar, l))
           c == With(run, NoGit)
           place == Relative(p)
<1>1. j = Job(place, "", t, c)
  BY DEF AskedFor
<1>2. run = PublishingRun(b)
  OBVIOUS
<1>4. DEFAULT_MAX_ITERATIONS # 0 /\ DEFAULT_MAX_JOBS # 0
  BY ONLY DEF DEFAULT_MAX_ITERATIONS, DEFAULT_MAX_JOBS
<1>6. place.dir = None /\ place.name = p /\ DOMAIN place = {"dir", "name"}
  BY DEF Relative
<1> HIDE DEF run, j
<1>7. run.publish = b /\ run.max_iterations # 0 /\ run.max_jobs # 0
  BY <1>2, <1>4, PublishingFields
<1>8. c.run = run /\ c.git = NoGit
  BY DEF With
<1> HIDE DEF c, place
<1>9. j.project = place /\ j.task = t /\ j.configuration = c
  BY ONLY <1>1 DEF Job
<1>10. IsFound(j) <=> p = "dir"
  <2>1. (p \in {"missing"} \cup Blank) <=> p = "missing"
    BY DEF Blank
  <2>2. Canonicalize(place, "daemon") = IF p = "missing" THEN Refused ELSE [place EXCEPT !.dir = "daemon"]
    BY <1>6, <2>1 DEF Canonicalize
  <2>3. [place EXCEPT !.dir = "daemon"] # Refused
    <3>1. DOMAIN Refused = {"refused"}
      BY DEF Refused
    <3>2. QED
      BY <1>6, <3>1
  <2>4. QED
    BY <1>9, <2>2, <2>3 DEF IsFound
<1>11. (ToRunConfiguration(c) # Refused) <=> ~b
  <2> DEFINE git == IF c.git = NoGit THEN NoGit ELSE GitPublishConfig(c.git)
  <2>1. git = NoGit /\ NoGit # Refused /\ With(c.run, git) # Refused
    BY <1>8, RecordsDiffer
  <2>2. ToRunConfiguration(c) = IF \/ c.run.max_iterations = 0 \/ c.run.max_jobs = 0
                                   \/ git = Refused \/ (c.run.publish /\ git = NoGit)
                                THEN Refused ELSE With(c.run, git)
    BY DEF ToRunConfiguration
  <2> HIDE DEF git
  <2>3. c.run.max_iterations # 0 /\ c.run.max_jobs # 0 /\ c.run.publish = b
    BY <1>7, <1>8
  <2>4. QED
    BY <2>1, <2>2, <2>3
<1>12. IsValid(j) <=> ~IsBlank(t) /\ ~b
  BY <1>9, <1>11 DEF IsValid
<1>13. j.project.name = p /\ j.configuration.run.publish = b
  BY <1>6, <1>7, <1>8, <1>9
<1>14. QED
  BY <1>9, <1>10, <1>12, <1>13 DEF j

LEMMA BlankTask ==
    /\ ~IsBlank(<<"word">>) /\ <<"word">> # <<" ">>
    /\ ~IsBlank(<<"2">>) /\ <<"2">> # <<" ">>
    /\ IsBlank(<<" ">>)
<1>1. \A w : IsBlank(<<w>>) <=> w \in Blank
  BY DEF IsBlank
<1>2. "word" \notin Blank /\ "2" \notin Blank /\ " " \in Blank
  BY DEF Blank
<1>3. \A v, w : v # w => <<v>> # <<w>>
  OBVIOUS
<1>4. QED
  BY <1>1, <1>2, <1>3

LEMMA AnswersHold == SubmissionsAreAnswered
<1> DEFINE P == {"dir", "missing"}
           T == {<<"word">>, <<"2">>, <<" ">>}
           L == {<<>>, <<"--publish">>}
           Asked == {AskedFor(p, t, l) : p \in P, t \in T, l \in L}
           Blanks == <<" ">>
           Good(j) == j.project.name = "dir" /\ j.task # Blanks /\ ~j.configuration.run.publish
           Named(j) == IsJob(j) /\ (Good(j) <=> (IsValid(j) /\ IsFound(j)))
<1>0. ASSUME NEW p \in P, NEW t \in T, NEW l \in L PROVE Named(AskedFor(p, t, l))
  <2> DEFINE a == AskedFor(p, t, l)
             q == l # <<>>
  <2>1. t = Blanks <=> IsBlank(t)
    BY BlankTask
  <2>2. RunConfiguration(Scan(RunGrammar, l)) = PublishingRun(q)
    BY PublishRead
  <2>3. p \in {"dir", "missing"}
    OBVIOUS
  <2> HIDE DEF q, P, T, L
  <2>4. /\ (IsValid(a) /\ IsFound(a)) <=> (p = "dir" /\ ~IsBlank(t) /\ ~q)
        /\ a.project.name = p /\ a.task = t /\ a.configuration.run.publish = q
    BY ONLY <2>2, <2>3, AskedIs
  <2>5. IsJob(a)
    BY DEF IsJob, AskedFor
  <2> HIDE DEF a, Blanks
  <2>6. (p = "dir" /\ ~IsBlank(t) /\ ~q) <=> Good(a)
    BY <2>1, <2>4
  <2>7. Named(a)
    BY <2>4, <2>5, <2>6
  <2>8. QED
    BY <2>7 DEF a
<1>1. ASSUME NEW j \in Asked PROVE Named(j)
  <2> HIDE DEF Named, P, T, L
  <2>1. QED
    BY <1>0
<1>2. SubmissionsAreAnswered <=> \A jobs \in Lines(Asked, MaxRequests) \ {<<>>} :
                                    Answered(jobs, {i \in DOMAIN jobs : Good(jobs[i])})
  BY DEF SubmissionsAreAnswered
<1> HIDE DEF Asked, Blanks
<1>3. ASSUME NEW jobs \in Lines(Asked, MaxRequests) \ {<<>>}
      PROVE  Answered(jobs, {i \in DOMAIN jobs : Good(jobs[i])})
  <2>1. jobs \in Seq(Asked) /\ jobs # <<>>
    BY LinesAreSequences, SubmissionAssumption
  <2>2. Len(jobs) <= MaxRequests
    <3>1. PICK k \in 0 .. MaxRequests : jobs \in [1 .. k -> Asked]
      BY DEF Lines
    <3>2. QED
      BY <3>1, SubmissionAssumption
  <2>3. \A i \in DOMAIN jobs : jobs[i] \in Asked
    BY <2>1, LenProperties, ElementOfSeq
  <2>4. \A j \in Asked : IsJob(j)
    BY <1>1
  <2>5. Answered(jobs, {i \in DOMAIN jobs : IsValid(jobs[i]) /\ IsFound(jobs[i])})
    BY <2>1, <2>2, <2>4, AnySubmissionIsAnswered
  <2>6. \A j \in Asked : Good(j) <=> (IsValid(j) /\ IsFound(j))
    BY <1>1
  <2> HIDE DEF Good
  <2>7. {i \in DOMAIN jobs : IsValid(jobs[i]) /\ IsFound(jobs[i])} = {i \in DOMAIN jobs : Good(jobs[i])}
    BY <2>3, <2>6
  <2>8. QED
    BY <2>5, <2>7
<1>4. QED
  BY <1>2, <1>3

\* The same task means the same job whichever way it is given: typed, submitted, forwarded to
\* another process, or read from a file.
THEOREM WorkAlwaysMeansTheSame == Spec => []WorkMeansTheSame
<1>1. WorkMeansTheSame
  BY ArgumentsHold, SubmissionsHold, AnswersHold DEF WorkMeansTheSame
<1>2. QED
  BY <1>1, PTL

================================================================================
