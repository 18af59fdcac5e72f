--------------------------------- MODULE Home ---------------------------------
(***************************************************************************)
(* The commands of src/main.rs as processes over one LYA_HOME: lya run,    *)
(* lya resume, lya scheduler, lya daemon run, start and stop, the daemon's *)
(* life (Daemon::serve and recover of daemon/server.rs), its instance lock *)
(* and metadata (daemon/lock.rs), its endpoint (daemon/transport.rs) and   *)
(* the waiting of the client (daemon/client.rs).                           *)
(***************************************************************************)
EXTENDS Claims

CONSTANTS
    LegacyJobs,   \* the jobs of an old state.json, empty when there is none
    MaxLaunches,  \* bound: how many commands are given
    MaxCrashes    \* bound: how many processes die

ASSUME HomeAssumption ==
    LegacyJobs \subseteq Jobs /\ MaxLaunches \in Nat /\ MaxCrashes \in Nat

VARIABLES
    legacy,    \* the old state.json is there
    claim,     \* who holds daemon.lock
    endpoint,  \* the daemon listening on the socket; "stale" is a file nobody serves
    metadata,  \* the daemon that daemon.json describes
    cmd,       \* the command each process runs
    pc,        \* where it is
    toStart,   \* the requests to start it has read and not yet submitted
    toResume,  \* the requests to resume it has read and not yet submitted
    scan,      \* the jobs it has yet to look at
    cur,       \* the job it is looking at
    stopping,  \* its stop was requested
    asked,     \* the daemon that "lya daemon stop" talked to, until it is gone
    launches, crashes

listVars == <<toStart, toResume, scan, cur>>
daemonVars == <<claim, endpoint, metadata>>
budgetVars == <<launches, crashes>>
vars == <<claimVars, daemonVars, listVars, legacy, cmd, pc, stopping, asked, budgetVars>>

Init ==
    /\ record = [j \in Jobs |-> "none"]
    /\ repoLock = [r \in Repos |-> Free]
    /\ jobLock = [j \in Jobs |-> Free]
    /\ phase = [p \in Procs |-> [j \in Jobs |-> "none"]]
    /\ mode = [p \in Procs |-> [j \in Jobs |-> "start"]]
    /\ legacy = (LegacyJobs # {})
    /\ claim = Free /\ endpoint = Free /\ metadata = Free
    /\ cmd = [p \in Procs |-> "none"]
    /\ pc = [p \in Procs |-> "idle"]
    /\ toStart = [p \in Procs |-> {}]
    /\ toResume = [p \in Procs |-> {}]
    /\ scan = [p \in Procs |-> {}]
    /\ cur = [p \in Procs |-> Free]
    /\ stopping = [p \in Procs |-> FALSE]
    /\ asked = [p \in Procs |-> Free]
    /\ launches = 0 /\ crashes = 0

At(p, here) == pc[p] = here
Go(p, there) == pc' = [pc EXCEPT ![p] = there]

\* A job as new_job_id() makes it: no record and no process knows it.
Fresh == {j \in Jobs \ LegacyJobs :
            /\ record[j] = "none"
            /\ \A p \in Procs : phase[p][j] = "none" /\ j \notin toStart[p]}

\* What every command ends with; a daemon that is gone can no longer be waited for.
Gone(p) ==
    /\ cmd' = [cmd EXCEPT ![p] = "none"]
    /\ pc' = [pc EXCEPT ![p] = "idle"]
    /\ toStart' = [toStart EXCEPT ![p] = {}]
    /\ toResume' = [toResume EXCEPT ![p] = {}]
    /\ scan' = [scan EXCEPT ![p] = {}]
    /\ cur' = [cur EXCEPT ![p] = Free]
    /\ stopping' = [stopping EXCEPT ![p] = FALSE]
    /\ asked' = [q \in Procs |-> IF q = p \/ asked[q] = p THEN Free ELSE asked[q]]
    /\ UNCHANGED <<legacy, budgetVars>>

Exit(p) == Gone(p) /\ UNCHANGED <<claimVars, daemonVars>>

\* A step that only moves the process on.
Quiet == UNCHANGED <<cmd, stopping, asked, budgetVars>>

-----------------------------------------------------------------------------
(***************************************************************************)
(* Commands begin, and old state is migrated (prepare_home).               *)
(***************************************************************************)

Launch(p, c) ==
    /\ At(p, "idle")
    /\ launches < MaxLaunches
    /\ launches' = launches + 1
    /\ cmd' = [cmd EXCEPT ![p] = c]
    /\ Go(p, CASE c = "start" -> "identify" [] c = "stop" -> "connect" [] OTHER -> "migrate")
    /\ UNCHANGED <<claimVars, daemonVars, listVars, legacy, stopping, asked, crashes>>

\* "lya daemon start" asks first, and starts a detached "lya daemon run".
Identify(p) ==
    /\ At(p, "identify")
    /\ \/ endpoint \in Procs /\ Exit(p)
       \/ /\ endpoint \notin Procs
          /\ cmd' = [cmd EXCEPT ![p] = "daemon"]
          /\ Go(p, "migrate")
          /\ UNCHANGED <<claimVars, daemonVars, listVars, legacy, stopping, asked, budgetVars>>

MigrateBegins(p) ==
    /\ At(p, "migrate")
    /\ scan' = [scan EXCEPT ![p] = IF legacy THEN LegacyJobs ELSE {}]
    /\ Go(p, IF legacy THEN "migrating" ELSE "prepare")
    /\ UNCHANGED <<claimVars, daemonVars, legacy, toStart, toResume, cur>>
    /\ Quiet

\* A record that exists is kept ...
MigrateChecks(p) ==
    /\ At(p, "migrating")
    /\ \E j \in scan[p] :
          /\ scan' = [scan EXCEPT ![p] = @ \ {j}]
          /\ \/ record[j] # "none" /\ UNCHANGED <<pc, cur>>
             \/ record[j] = "none" /\ Go(p, "saving") /\ cur' = [cur EXCEPT ![p] = j]
    /\ UNCHANGED <<claimVars, daemonVars, legacy, toStart, toResume>>
    /\ Quiet

\* ... and one that did not is written.
MigrateSaves(p) ==
    /\ At(p, "saving")
    /\ record' = [record EXCEPT ![cur[p]] = "running"]
    /\ cur' = [cur EXCEPT ![p] = Free]
    /\ Go(p, "migrating")
    /\ UNCHANGED <<repoLock, jobLock, phase, mode, daemonVars, legacy, toStart, toResume, scan>>
    /\ Quiet

\* The old file is renamed; a command that finds it gone by then fails.
MigrateEnds(p) ==
    /\ At(p, "migrating")
    /\ scan[p] = {}
    /\ \/ ~legacy /\ Exit(p)
       \/ /\ legacy
          /\ legacy' = FALSE
          /\ Go(p, "prepare")
          /\ UNCHANGED <<claimVars, daemonVars, listVars>>
          /\ Quiet

-----------------------------------------------------------------------------
(***************************************************************************)
(* What the commands read before they claim anything.                      *)
(***************************************************************************)

\* lya run and lya resume go on with exactly one entry, held by no queue.
OneEntry(p, j, how) ==
    /\ Enqueue(p, j, how)
    /\ Go(p, "work")
    /\ UNCHANGED <<record, repoLock, jobLock, daemonVars, listVars, legacy>>
    /\ Quiet

PrepareRun(p) ==
    /\ At(p, "prepare") /\ cmd[p] = "run"
    /\ \/ \E j \in Fresh : OneEntry(p, j, "start")
       \/ Exit(p)   \* no private context, no Git configuration

\* What "lya resume" offers.
Candidates == Resumable

PrepareResume(p) ==
    /\ At(p, "prepare") /\ cmd[p] = "resume"
    /\ \/ \E j \in Candidates : OneEntry(p, j, "snapshot")
       \/ Exit(p)   \* nothing to resume, several and none named, no Git configuration

\* The jobs of the job file are new; --resume-queued adds what is queued.
PrepareScheduler(p) ==
    /\ At(p, "prepare") /\ cmd[p] = "scheduler"
    /\ \E file \in SUBSET Fresh, old \in {{}, Queued} :
          \/ file \cup old = {} /\ Exit(p)
          \/ /\ file \cup old # {}
             /\ toStart' = [toStart EXCEPT ![p] = file \cup old]
             /\ Go(p, "submit")
             /\ UNCHANGED <<claimVars, daemonVars, legacy, toResume, scan, cur>>
             /\ Quiet

PrepareDaemon(p) ==
    /\ At(p, "prepare") /\ cmd[p] = "daemon"
    /\ Go(p, "claim")
    /\ UNCHANGED <<claimVars, daemonVars, listVars, legacy>>
    /\ Quiet

\* Every request is accepted on its own: those to start first, then the others.
Submit(p) ==
    /\ At(p, "submit")
    /\ \/ \E j \in toStart[p] :
             /\ AcceptStart(p, j)
             /\ toStart' = [toStart EXCEPT ![p] = @ \ {j}]
             /\ UNCHANGED <<toResume, pc>>
       \/ /\ toStart[p] = {}
          /\ \E j \in toResume[p] :
                /\ AcceptResume(p, j)
                /\ toResume' = [toResume EXCEPT ![p] = @ \ {j}]
          /\ UNCHANGED <<toStart, pc>>
       \/ /\ toStart[p] = {} /\ toResume[p] = {}
          /\ Go(p, IF cmd[p] = "daemon" THEN "serve" ELSE "work")
          /\ UNCHANGED <<claimVars, toStart, toResume>>
    /\ UNCHANGED <<daemonVars, scan, cur, legacy>>
    /\ Quiet

-----------------------------------------------------------------------------
(***************************************************************************)
(* Daemon::serve.                                                          *)
(***************************************************************************)

\* Mutant: a daemon that does not answer counts as dead.
ClaimUnanswered(p) ==
    /\ At(p, "claim")
    /\ endpoint \notin Procs
    /\ claim' = p
    /\ Go(p, "bind")
    /\ UNCHANGED <<claimVars, endpoint, metadata, listVars, legacy>>
    /\ Quiet

\* The claim is taken first, and a second daemon is refused.
DaemonClaims(p) ==
    /\ At(p, "claim")
    /\ \/ claim # Free /\ Exit(p)
       \/ /\ claim = Free
          /\ claim' = p
          /\ Go(p, "bind")
          /\ UNCHANGED <<claimVars, endpoint, metadata, listVars, legacy>>
          /\ Quiet

\* A socket that nobody answers on is removed and bound again.
DaemonBinds(p) ==
    /\ At(p, "bind")
    /\ endpoint \notin Procs
    /\ endpoint' = p
    /\ Go(p, "publish")
    /\ UNCHANGED <<claimVars, claim, metadata, listVars, legacy>>
    /\ Quiet

PublishMetadata(p) ==
    /\ At(p, "publish")
    /\ metadata' = p
    /\ Go(p, "recover")
    /\ UNCHANGED <<claimVars, claim, endpoint, listVars, legacy>>
    /\ Quiet

\* recover(): queued work is read, unless --no-recover-queued was given ...
RecoverQueued(p) ==
    /\ At(p, "recover")
    /\ \E found \in {Queued, {}} : toStart' = [toStart EXCEPT ![p] = found]
    /\ Go(p, "interrupted")
    /\ UNCHANGED <<claimVars, daemonVars, toResume, scan, cur, legacy>>
    /\ Quiet

\* ... then interrupted work ...
RecoverInterrupted(p) ==
    /\ At(p, "interrupted")
    /\ scan' = [scan EXCEPT ![p] = Candidates]
    /\ Go(p, "probe")
    /\ UNCHANGED <<claimVars, daemonVars, toStart, toResume, cur, legacy>>
    /\ Quiet

\* ... whose locks are tried, one after the other, and given back at once.
Probe(p) ==
    /\ At(p, "probe")
    /\ \E j \in scan[p] :
          /\ scan' = [scan EXCEPT ![p] = @ \ {j}]
          /\ \/ jobLock[j] # Free /\ UNCHANGED <<jobLock, cur, pc>>
             \/ AcquireJob(p, j) /\ cur' = [cur EXCEPT ![p] = j] /\ Go(p, "probing")
    /\ UNCHANGED <<record, repoLock, phase, mode, daemonVars, toStart, toResume, legacy>>
    /\ Quiet

ProbeReturns(p) ==
    /\ At(p, "probing")
    /\ jobLock' = [jobLock EXCEPT ![cur[p]] = Free]
    /\ toResume' = [toResume EXCEPT ![p] = @ \cup {cur[p]}]
    /\ cur' = [cur EXCEPT ![p] = Free]
    /\ Go(p, "probe")
    /\ UNCHANGED <<record, repoLock, phase, mode, daemonVars, toStart, scan, legacy>>
    /\ Quiet

\* Without --resume-interrupted they are only reported.
RecoverEnds(p) ==
    /\ At(p, "probe")
    /\ scan[p] = {}
    /\ \E taken \in {toResume[p], {}} : toResume' = [toResume EXCEPT ![p] = taken]
    /\ Go(p, "submit")
    /\ UNCHANGED <<claimVars, daemonVars, toStart, scan, cur, legacy>>
    /\ Quiet

\* A client submits a new job.
DaemonSubmit(p) ==
    /\ At(p, "serve")
    /\ ~stopping[p]
    /\ \E j \in Fresh : AcceptStart(p, j)
    /\ UNCHANGED <<daemonVars, listVars, legacy, pc>>
    /\ Quiet

\* Ctrl+C: a graceful stop of the daemon or of the batch.
Interrupt(p) ==
    /\ pc[p] \in {"serve", "work"} /\ cmd[p] \in {"daemon", "scheduler"}
    /\ stopping' = [stopping EXCEPT ![p] = TRUE]
    /\ UNCHANGED <<claimVars, daemonVars, listVars, legacy, cmd, pc, asked, budgetVars>>

\* The accept loop ends, and the listener is dropped: the socket file stays.
DaemonDrains(p) ==
    /\ At(p, "serve")
    /\ stopping[p]
    /\ endpoint' = "stale"
    /\ Go(p, "drain")
    /\ UNCHANGED <<claimVars, claim, metadata, listVars, legacy>>
    /\ Quiet

Idle(p) == \A j \in Jobs : phase[p][j] = "none"


\* No worker is busy; what is still queued stays queued on disk.
Drained(p) == \A j \in Jobs : phase[p][j] \in {"none", "queued"}

Forget(p) ==
    /\ phase' = [phase EXCEPT ![p] = [j \in Jobs |-> "none"]]
    /\ mode' = [mode EXCEPT ![p] = [j \in Jobs |-> "start"]]

\* The scheduler has stopped; dropping the lock removes the metadata ...
DaemonStops(p) ==
    /\ At(p, "drain")
    /\ Drained(p)
    /\ Forget(p)
    /\ metadata' = Free
    /\ Go(p, "unlock")
    /\ UNCHANGED <<record, repoLock, jobLock, claim, endpoint, listVars, legacy>>
    /\ Quiet

\* ... and then gives up the claim.
DaemonUnlocks(p) ==
    /\ At(p, "unlock")
    /\ claim' = Free
    /\ Gone(p)
    /\ UNCHANGED <<claimVars, endpoint, metadata>>

-----------------------------------------------------------------------------
(***************************************************************************)
(* Workers of a foreground command, a batch or the daemon.                 *)
(***************************************************************************)

Scheduled(p) == cmd[p] \in {"scheduler", "daemon"}

\* A worker takes an entry whose repository no other worker of the process uses,
\* unless a stop was requested.
Begin(p, j) ==
    /\ pc[p] \in {"work", "serve"}
    /\ ~stopping[p]
    /\ \A i \in Jobs \ {j} : RepoOf[i] = RepoOf[j] => phase[p][i] \in {"none", "queued"}
    /\ ClaimRepository(p, j) \/ RefuseRepository(p, j)
    /\ UNCHANGED <<daemonVars, listVars, legacy, pc>>
    /\ Quiet

Work(p, j) ==
    /\ pc[p] \in {"work", "serve", "drain"}
    /\ WorkerStep(p, j, Scheduled(p))
    /\ UNCHANGED <<daemonVars, listVars, legacy, pc>>
    /\ Quiet

\* The command ends with its last entry.
Finish(p) ==
    /\ At(p, "work")
    /\ Idle(p) \/ (stopping[p] /\ Drained(p))
    /\ Forget(p)
    /\ Gone(p)
    /\ UNCHANGED <<record, repoLock, jobLock, daemonVars>>

-----------------------------------------------------------------------------
(***************************************************************************)
(* lya daemon stop.                                                        *)
(***************************************************************************)

\* The request reaches a daemon that serves; without one there is nothing to stop.
RequestShutdown(p) ==
    /\ At(p, "connect")
    /\ \/ endpoint \notin Procs /\ Exit(p)
       \/ /\ endpoint \in Procs
          /\ At(endpoint, "serve")
          /\ stopping' = [stopping EXCEPT ![endpoint] = TRUE]
          /\ asked' = [asked EXCEPT ![p] = endpoint]
          /\ Go(p, "poll")
          /\ UNCHANGED <<claimVars, daemonVars, listVars, legacy, cmd, budgetVars>>

\* Mutant: an endpoint that does not answer counts as released.
PollEndpoint(p) ==
    /\ At(p, "poll")
    /\ endpoint \notin Procs
    /\ Go(p, "stopped")
    /\ UNCHANGED <<claimVars, daemonVars, listVars, legacy>>
    /\ Quiet

\* is_held() finds out by taking the lock ...
Poll(p) ==
    /\ At(p, "poll")
    /\ claim = Free
    /\ claim' = p
    /\ Go(p, "held")
    /\ UNCHANGED <<claimVars, endpoint, metadata, listVars, legacy>>
    /\ Quiet

\* ... and gives it back, leaving the metadata alone.
PollReturns(p) ==
    /\ At(p, "held")
    /\ claim' = Free
    /\ Go(p, "stopped")
    /\ UNCHANGED <<claimVars, endpoint, metadata, listVars, legacy>>
    /\ Quiet

\* RELEASE_ATTEMPTS were not enough.
GiveUp(p) == At(p, "poll") /\ claim # Free /\ Exit(p)

ReportStopped(p) == At(p, "stopped") /\ Exit(p)

\* A process dies: the operating system closes its handles.
Crash(p) ==
    /\ ~At(p, "idle")
    /\ crashes < MaxCrashes
    /\ crashes' = crashes + 1
    /\ DropAll(p)
    /\ Forget(p)
    /\ claim' = IF claim = p THEN Free ELSE claim
    /\ endpoint' = IF endpoint = p THEN "stale" ELSE endpoint
    /\ cmd' = [cmd EXCEPT ![p] = "none"]
    /\ pc' = [pc EXCEPT ![p] = "idle"]
    /\ toStart' = [toStart EXCEPT ![p] = {}]
    /\ toResume' = [toResume EXCEPT ![p] = {}]
    /\ scan' = [scan EXCEPT ![p] = {}]
    /\ cur' = [cur EXCEPT ![p] = Free]
    /\ stopping' = [stopping EXCEPT ![p] = FALSE]
    /\ asked' = [q \in Procs |-> IF q = p \/ asked[q] = p THEN Free ELSE asked[q]]
    /\ UNCHANGED <<record, metadata, legacy, launches>>

-----------------------------------------------------------------------------
Commands == {"run", "resume", "scheduler", "daemon", "start", "stop"}

ProcessStep(p) ==
    \/ Identify(p)
    \/ MigrateBegins(p) \/ MigrateChecks(p) \/ MigrateSaves(p) \/ MigrateEnds(p)
    \/ PrepareRun(p) \/ PrepareResume(p) \/ PrepareScheduler(p) \/ PrepareDaemon(p)
    \/ Submit(p)
    \/ DaemonClaims(p) \/ DaemonBinds(p) \/ PublishMetadata(p)
    \/ RecoverQueued(p) \/ RecoverInterrupted(p) \/ Probe(p) \/ ProbeReturns(p) \/ RecoverEnds(p)
    \/ DaemonDrains(p) \/ DaemonStops(p) \/ DaemonUnlocks(p)
    \/ \E j \in Jobs : Begin(p, j) \/ Work(p, j)
    \/ Finish(p)
    \/ RequestShutdown(p) \/ Poll(p) \/ PollReturns(p) \/ ReportStopped(p)

Next ==
    \E p \in Procs :
        \/ \E c \in Commands : Launch(p, c)
        \/ ProcessStep(p)
        \/ DaemonSubmit(p) \/ Interrupt(p) \/ GiveUp(p) \/ Crash(p)

Spec == Init /\ [][Next]_vars /\ \A p \in Procs : WF_vars(ProcessStep(p))

-----------------------------------------------------------------------------
Places == {"idle", "identify", "migrate", "migrating", "saving", "prepare", "submit", "claim",
           "bind", "publish", "recover", "interrupted", "probe", "probing", "serve", "drain",
           "unlock", "work", "connect", "poll", "held", "stopped"}

TypeOK ==
    /\ ClaimsTypeOK
    /\ legacy \in BOOLEAN
    /\ claim \in {Free} \cup Procs
    /\ endpoint \in {Free, "stale"} \cup Procs
    /\ metadata \in {Free} \cup Procs
    /\ cmd \in [Procs -> Commands \cup {"none"}]
    /\ pc \in [Procs -> Places]
    /\ toStart \in [Procs -> SUBSET Jobs]
    /\ toResume \in [Procs -> SUBSET Jobs]
    /\ scan \in [Procs -> SUBSET Jobs]
    /\ cur \in [Procs -> {Free} \cup Jobs]
    /\ stopping \in [Procs -> BOOLEAN]
    /\ asked \in [Procs -> {Free} \cup Procs]
    /\ launches \in 0 .. MaxLaunches
    /\ crashes \in 0 .. MaxCrashes

\* A daemon that serves is the only one that holds the claim, listens on the
\* endpoint and is described by the metadata, whatever other daemons start, stop
\* or die, and whoever polls (daemon/lock.rs, transport.rs bind_socket).
ServingDaemonIsKnown ==
    \A p \in Procs : pc[p] = "serve" => claim = p /\ endpoint = p /\ metadata = p

\* "Lya daemon stopped." is said only once the daemon that was asked is gone, its
\* jobs included (stop_daemon: "Reporting before the daemon is gone would be a lie
\* a script could act on").
StoppedMeansGone ==
    \A p \in Procs : pc[p] = "stopped" => asked[p] = Free

\* Whoever asks for the daemon finds the one that serves, or that it is gone.
DaemonIsKnown == TypeOK /\ ServingDaemonIsKnown /\ StoppedMeansGone

\* A process has a job in hand from the moment it has read its record.
InHand(p, j) == j \in toStart[p] \cup toResume[p] \cup scan[p] \/ cur[p] = j \/ phase[p][j] # "none"

\* Nobody picks up a finished job; a process that had it in hand before it finished
\* may still rewrite its record, but never through the daemon's resume, which reads
\* it again under the locks (docs/persistence-and-recovery.md "Resuming a job").
FinishedJobsAreLeftAlone ==
    [][\A j \in Jobs : record[j] \in Terminal =>
          /\ \A p \in Procs : InHand(p, j)' => InHand(p, j)
          /\ \A p \in Procs :
                phase[p][j] = "locked" /\ mode[p][j] = "resume" /\ phase'[p][j] # "locked"
                => record'[j] = record[j]]_vars


===============================================================================
