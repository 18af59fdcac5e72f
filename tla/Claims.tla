-------------------------------- MODULE Claims --------------------------------
(***************************************************************************)
(* Lya processes that share one LYA_HOME and want to drive the same jobs   *)
(* and repositories: the repository claim and the job lock                 *)
(* (src/orchestrator/repository_lock.rs, lock.rs), the record of each job  *)
(* (state.rs), and the way from an accepted entry to a driven job          *)
(* (drive_job of main.rs, accept_one and execute of scheduler.rs, the      *)
(* daemon's driver in daemon/runner.rs).                                   *)
(*                                                                         *)
(* The operating system drops a lock when its handle closes or its process *)
(* dies.  A lock belongs to an open handle, so it is held by a process on  *)
(* behalf of one job, and a second handle of the same process is refused.  *)
(*                                                                         *)
(* The statuses of a record are what the claims tell apart: "running"      *)
(* stands for RUNNING, PAUSED, PUBLISHING and the quota waits (everything  *)
(* is_resumable accepts), "finished" for ACCEPTED, PUBLISHED, STOPPED and  *)
(* WAITING_HUMAN.                                                          *)
(***************************************************************************)
EXTENDS Naturals, FiniteSets

CONSTANTS
    Procs,   \* slots for processes
    Jobs,    \* job identifiers
    Repos,   \* canonical repository roots
    RepoOf,  \* RepositoryIdentity::resolve of a job's project path
    Free     \* nobody holds the lock

ASSUME RepoAssumption == RepoOf \in [Jobs -> Repos]
ASSUME FreeAssumption == Free \notin Procs \cup Jobs \cup (Procs \X Jobs)

VARIABLES
    record,    \* the persisted status of each job
    repoLock,  \* who holds each repository claim
    jobLock,   \* who holds each job lock
    phase,     \* how far a process is with a job
    mode       \* how it was asked to drive it

claimVars == <<record, repoLock, jobLock, phase, mode>>

Status == {"none", "queued", "running", "finished", "failed"}
Terminal == {"finished", "failed"}

\* start and resume are ScheduleMode; snapshot is "lya resume", which hands the
\* orchestrator the record it read before it claimed anything.
Modes == {"start", "resume", "snapshot"}

\* "failed" is a driver that returned an error, "settling" a scheduler that is
\* about to record that failure.
Phases == {"none", "queued", "repository", "locked", "driving", "ended", "failed",
           "unsettled", "settling"}

HoldsRepository == {"repository", "locked", "driving", "ended", "failed"}
HoldsJob == {"locked", "driving", "ended", "failed"}

Move(p, j, to) ==
    /\ phase' = [phase EXCEPT ![p][j] = to]
    /\ mode' = [mode EXCEPT ![p][j] = IF to = "none" THEN "start" ELSE @]

Enqueue(p, j, how) ==
    /\ phase' = [phase EXCEPT ![p][j] = "queued"]
    /\ mode' = [mode EXCEPT ![p][j] = how]

-----------------------------------------------------------------------------
(***************************************************************************)
(* The locks.                                                              *)
(***************************************************************************)

\* RepositoryLock::acquire succeeds.
AcquireRepository(p, j) ==
    /\ repoLock[RepoOf[j]] = Free
    /\ repoLock' = [repoLock EXCEPT ![RepoOf[j]] = <<p, j>>]

\* JobLock::acquire succeeds.
AcquireJob(p, j) ==
    /\ jobLock[j] = Free
    /\ jobLock' = [jobLock EXCEPT ![j] = p]

\* Closing every handle of a process, which is what the end of a process does.
DropAll(p) ==
    /\ repoLock' = [r \in Repos |->
                       IF \E j \in Jobs : repoLock[r] = <<p, j>> THEN Free ELSE repoLock[r]]
    /\ jobLock' = [j \in Jobs |-> IF jobLock[j] = p THEN Free ELSE jobLock[j]]

-----------------------------------------------------------------------------
(***************************************************************************)
(* Accepting and driving one job.                                          *)
(***************************************************************************)

Queued == {j \in Jobs : record[j] = "queued"}         \* queued_jobs
Resumable == {j \in Jobs : record[j] = "running"}     \* resumable_jobs

\* accept_one of a request to start: the record is written as QUEUED whatever it
\* said, then the entry joins the queue.
AcceptStart(p, j) ==
    /\ record' = [record EXCEPT ![j] = "queued"]
    /\ Enqueue(p, j, "start")
    /\ UNCHANGED <<repoLock, jobLock>>

\* accept_one of a request to resume: the record is read, never written.
AcceptResume(p, j) ==
    /\ \/ record[j] = "running" /\ Enqueue(p, j, "resume")
       \/ record[j] # "running" /\ UNCHANGED <<phase, mode>>
    /\ UNCHANGED <<record, repoLock, jobLock>>

\* Mutant: "lya run" and "lya resume" lock the job only.
SkipRepository(p, j) ==
    /\ phase[p][j] = "queued"
    /\ Move(p, j, "repository")
    /\ UNCHANGED <<record, repoLock, jobLock>>

\* The repository is claimed first ...
ClaimRepository(p, j) ==
    /\ phase[p][j] = "queued"
    /\ AcquireRepository(p, j)
    /\ Move(p, j, "repository")
    /\ UNCHANGED <<record, jobLock>>

\* ... or the attempt is over: somebody else holds it.
RefuseRepository(p, j) ==
    /\ phase[p][j] = "queued"
    /\ repoLock[RepoOf[j]] # Free
    /\ Move(p, j, "none")
    /\ UNCHANGED <<record, repoLock, jobLock>>

\* The job is locked second, under the repository claim.
LockJob(p, j) ==
    /\ phase[p][j] = "repository"
    /\ AcquireJob(p, j)
    /\ Move(p, j, "locked")
    /\ UNCHANGED <<record, repoLock>>

RefuseJob(p, j) ==
    /\ phase[p][j] = "repository"
    /\ jobLock[j] # Free
    /\ repoLock' = [repoLock EXCEPT ![RepoOf[j]] = Free]
    /\ Move(p, j, "none")
    /\ UNCHANGED <<record, jobLock>>

\* Mutant: the daemon resumes what it read when it accepted the entry.
ResumeWithoutReading(p, j) == TRUE

\* A resumed entry is read again under the locks (DaemonJobDriver::run), and the
\* resume plan refuses what can no longer be resumed.
StillResumable(p, j) == record[j] = "running"

\* The orchestrator's first write: a new job is recorded as running.
DriveStart(p, j) ==
    /\ mode[p][j] = "start"
    /\ record' = [record EXCEPT ![j] = "running"]
    /\ Move(p, j, "driving")

\* A resumed job goes on, or is parked for a human because the repository is not
\* what the record says.
DriveResume(p, j) ==
    /\ \/ mode[p][j] = "snapshot"
       \/ mode[p][j] = "resume" /\ StillResumable(p, j)
    /\ \/ record' = [record EXCEPT ![j] = "running"] /\ Move(p, j, "driving")
       \/ record' = [record EXCEPT ![j] = "finished"] /\ Move(p, j, "ended")

\* The driver fails before it writes: an unreadable or dirty repository, a record
\* that cannot be resumed.
DriveFails(p, j) ==
    /\ Move(p, j, "failed")
    /\ UNCHANGED record

Drive(p, j) ==
    /\ phase[p][j] = "locked"
    /\ DriveStart(p, j) \/ DriveResume(p, j) \/ DriveFails(p, j)
    /\ UNCHANGED <<repoLock, jobLock>>

\* The run of the job ends: with a terminal record, with one a later process may
\* resume (a pause, a quota wait), or with an error after some write.
EndDrive(p, j) ==
    /\ phase[p][j] = "driving"
    /\ \/ \E s \in Terminal \cup {"running"} : record' = [record EXCEPT ![j] = s]
          /\ Move(p, j, "ended")
       \/ UNCHANGED record /\ Move(p, j, "failed")
    /\ UNCHANGED <<repoLock, jobLock>>

\* The job lock is dropped, then the repository claim.  A scheduler then looks
\* whether it has to record the failure, without any lock.
Release(p, j, scheduled) ==
    /\ phase[p][j] \in {"ended", "failed"}
    /\ jobLock' = [jobLock EXCEPT ![j] = Free]
    /\ repoLock' = [repoLock EXCEPT ![RepoOf[j]] = Free]
    /\ Move(p, j, IF scheduled /\ phase[p][j] = "failed" THEN "unsettled" ELSE "none")
    /\ UNCHANGED record

\* Mutant: the failure is recorded with the phase of the driver.
SettleAsPhase(p, j) ==
    /\ phase[p][j] = "settling"
    /\ record' = [record EXCEPT ![j] = phase[p][j]]
    /\ Move(p, j, "none")
    /\ UNCHANGED <<repoLock, jobLock>>

\* settle_failed_queued_state reads the record ...
SettleRead(p, j) ==
    /\ phase[p][j] = "unsettled"
    /\ Move(p, j, IF record[j] = "queued" THEN "settling" ELSE "none")
    /\ UNCHANGED <<record, repoLock, jobLock>>

\* ... and writes it back as FAILED.
SettleWrite(p, j) ==
    /\ phase[p][j] = "settling"
    /\ record' = [record EXCEPT ![j] = "failed"]
    /\ Move(p, j, "none")
    /\ UNCHANGED <<repoLock, jobLock>>

\* What happens to one entry once it is in the hands of a worker.
WorkerStep(p, j, scheduled) ==
    \/ LockJob(p, j) \/ RefuseJob(p, j)
    \/ Drive(p, j) \/ EndDrive(p, j)
    \/ Release(p, j, scheduled)
    \/ SettleRead(p, j) \/ SettleWrite(p, j)

-----------------------------------------------------------------------------
Driving(p, j) == phase[p][j] \in {"locked", "driving", "ended", "failed"}

ClaimsTypeOK ==
    /\ record \in [Jobs -> Status]
    /\ repoLock \in [Repos -> {Free} \cup (Procs \X Jobs)]
    /\ jobLock \in [Jobs -> {Free} \cup Procs]
    /\ phase \in [Procs -> [Jobs -> Phases]]
    /\ mode \in [Procs -> [Jobs -> Modes]]

\* A repository is driven by one process for one job at a time, and a job by one
\* process, whatever commands run side by side and whoever dies
\* (repository_lock.rs:66, docs/daemon.md "Ownership and exclusion").
OneDriver ==
    \A p, q \in Procs, i, j \in Jobs :
        /\ Driving(p, i) /\ Driving(q, j)
        /\ i = j \/ RepoOf[i] = RepoOf[j]
        => p = q /\ i = j
===============================================================================
