------------------------------- MODULE Scheduler -------------------------------
(***************************************************************************)
(* The scheduler of src/orchestrator/scheduler.rs: a FIFO queue of jobs,   *)
(* a fixed set of workers that take the first job whose repository is      *)
(* free, admission of new work while they run, and the graceful stop.      *)
(*                                                                         *)
(* Every separate acquisition of a lock, load of an atomic flag or await   *)
(* of the code is a step of its own; only where the stop flag was seen     *)
(* set, what follows at once (giving an entry back, stopping a job) is in  *)
(* the same step, for the flag is never cleared.  The scheduler runs in    *)
(* one of two hands: "batch" is Scheduler::run ("lya scheduler"), where    *)
(* the set of jobs is fixed and admission closed before the workers start; *)
(* "daemon" is Scheduler::serve as src/daemon/server.rs uses it, which     *)
(* requests a stop and then closes admission.                              *)
(***************************************************************************)
EXTENDS Naturals, Sequences, FiniteSets

CONSTANTS
    Workers,         \* the execution slots, max_concurrent of them
    Jobs,            \* the requests submitted in a behaviour
    NoJob,           \* the entry of a worker that has none
    Repositories,
    RepositoryOf,    \* the repository of each job
    Resumed,         \* the jobs submitted with ScheduleMode::Resume
    Mode             \* who owns the scheduler

ASSUME SchedulerAssumption ==
    /\ IsFiniteSet(Workers)
    /\ IsFiniteSet(Jobs)
    /\ NoJob \notin Jobs
    /\ RepositoryOf \in [Jobs -> Repositories]
    /\ Resumed \subseteq Jobs
    /\ Mode \in {"batch", "daemon"}

VARIABLES
    pending,         \* QueueState.pending
    active,          \* QueueState.active: the repositories taken
    admissionOpen,   \* SchedulerShared.admission_open
    unseen,          \* the workers whose receiver has an unseen version of "progress"
    at,              \* what each worker does next
    entry,           \* the entry each worker holds
    submission,      \* how far each job's submission got
    record,          \* the status in each job's state.json
    results,         \* the outcome of each job: its worker's report, then SchedulerShared.results,
                     \* which is only read when every worker has ended
    stopRequested,   \* SchedulerControlInner.stop_requested
    stopper,         \* how far the owner's stop got
    controls,        \* SchedulerControlInner.active: the jobs with a registered sender
    stopped,         \* the jobs whose control was asked to stop
    (* History variable, read by the properties only. *)
    arrived          \* the jobs in the order they were queued

queueVars == <<pending, active>>
stopVars == <<stopRequested, stopper>>
controlVars == <<controls, stopped>>
workerVars == <<at, entry>>
vars == <<queueVars, stopVars, controlVars, workerVars, admissionOpen, unseen, submission, record, results, arrived>>

Records == {"None", "QUEUED", "RUNNING", "PARKED", "FINISHED", "FAILED"}
Reports == {"None", "Finished", "Failed", "Rejected"}
Submissions == {"None", "Checked", "Persisted", "Queued", "Answered", "Refused"}

\* From take_runnable to release a worker has its entry's repository.
Owning == {"taken", "claim", "register", "registered", "starting", "driving", "settle", "release"}
WorkerSteps == {"loop", "mark", "take", "isEmpty", "isOpen", "idle", "announce", "ended"} \cup Owning

Elements(s) == {s[i] : i \in DOMAIN s}
Without(s, i) == SubSeq(s, 1, i - 1) \o SubSeq(s, i + 1, Len(s))

-----------------------------------------------------------------------------
(* SchedulerAdmission.                                                     *)

AnnounceProgress == unseen' = Workers

\* submit looks at admission once, before the first request.
SubmitChecks(j) ==
    /\ Mode # "batch"
    /\ submission[j] = "None"
    /\ submission' = [submission EXCEPT ![j] = IF admissionOpen THEN "Checked" ELSE "Refused"]
    /\ UNCHANGED <<queueVars, stopVars, controlVars, workerVars, admissionOpen, unseen, record, results, arrived>>

\* accept_one: new work is persisted as QUEUED before it is queued; resumed work
\* keeps its record and needs a resumable one.
AcceptOne(j) ==
    /\ submission[j] = "Checked"
    /\ submission' = [submission EXCEPT ![j] = "Persisted"]
    /\ \/ j \notin Resumed /\ record' = [record EXCEPT ![j] = "QUEUED"]
       \/ j \in Resumed /\ record[j] = "PARKED" /\ UNCHANGED record
    /\ UNCHANGED <<queueVars, stopVars, controlVars, workerVars, admissionOpen, unseen, results, arrived>>

\* The repository cannot be resolved, the record cannot be written or read.
RejectOne(j) ==
    /\ submission[j] = "Checked"
    /\ submission' = [submission EXCEPT ![j] = "Answered"]
    /\ results' = [results EXCEPT ![j] = "Rejected"]
    /\ UNCHANGED <<queueVars, stopVars, controlVars, workerVars, admissionOpen, unseen, record, arrived>>

Enqueue(j) ==
    /\ submission[j] = "Persisted"
    /\ submission' = [submission EXCEPT ![j] = "Queued"]
    /\ pending' = Append(pending, j)
    /\ arrived' = Append(arrived, j)
    /\ UNCHANGED <<active, stopVars, controlVars, workerVars, admissionOpen, unseen, record, results>>

\* Mutant: a submission wakes nobody.
AnswerSilently(j) ==
    /\ submission[j] = "Queued"
    /\ submission' = [submission EXCEPT ![j] = "Answered"]
    /\ UNCHANGED <<queueVars, stopVars, controlVars, workerVars, admissionOpen, unseen, record, results, arrived>>

AnswerSubmission(j) ==
    /\ submission[j] = "Queued"
    /\ submission' = [submission EXCEPT ![j] = "Answered"]
    /\ AnnounceProgress
    /\ UNCHANGED <<queueVars, stopVars, controlVars, workerVars, admissionOpen, record, results, arrived>>

Submit(j) == SubmitChecks(j) \/ AcceptOne(j) \/ RejectOne(j) \/ Enqueue(j) \/ AnswerSubmission(j)

-----------------------------------------------------------------------------
(* worker: selecting an entry.                                             *)

Becomes(w, step) == at' = [at EXCEPT ![w] = step]

CheckStop(w) ==
    /\ at[w] = "loop"
    /\ Becomes(w, IF stopRequested THEN "ended" ELSE "mark")
    /\ UNCHANGED <<queueVars, stopVars, controlVars, entry, admissionOpen, unseen, submission, record, results, arrived>>

\* mark_unchanged: whatever was announced since the flag was read counts as seen.
MarkUnchanged(w) ==
    /\ at[w] = "mark"
    /\ unseen' = unseen \ {w}
    /\ Becomes(w, "take")
    /\ UNCHANGED <<queueVars, stopVars, controlVars, entry, admissionOpen, submission, record, results, arrived>>

\* Mutant: the repositories that are taken are not looked at.
RunnableAlways(i) == TRUE

Runnable(i) == RepositoryOf[pending[i]] \notin active

\* Mutant: the last runnable entry instead of the first.
TakeLastRunnable(w) ==
    \E i \in DOMAIN pending :
        /\ Runnable(i)
        /\ \A k \in i+1..Len(pending) : ~Runnable(k)
        /\ entry' = [entry EXCEPT ![w] = pending[i]]
        /\ active' = active \cup {RepositoryOf[pending[i]]}
        /\ pending' = Without(pending, i)
        /\ Becomes(w, "taken")

\* Mutant: the entry stays in the queue.
TakeWithoutRemoving(w) ==
    \E i \in DOMAIN pending :
        /\ Runnable(i)
        /\ \A k \in 1..i-1 : ~Runnable(k)
        /\ entry' = [entry EXCEPT ![w] = pending[i]]
        /\ active' = active \cup {RepositoryOf[pending[i]]}
        /\ Becomes(w, "taken")
        /\ UNCHANGED pending

\* take_runnable: the first entry whose repository is free.
TakeFirstRunnable(w) ==
    \E i \in DOMAIN pending :
        /\ Runnable(i)
        /\ \A k \in 1..i-1 : ~Runnable(k)
        /\ entry' = [entry EXCEPT ![w] = pending[i]]
        /\ active' = active \cup {RepositoryOf[pending[i]]}
        /\ pending' = Without(pending, i)
        /\ Becomes(w, "taken")

TakeRunnable(w) ==
    /\ at[w] = "take"
    /\ \/ TakeFirstRunnable(w)
       \/ /\ \A i \in DOMAIN pending : ~Runnable(i)
          /\ Becomes(w, "isEmpty")
          /\ UNCHANGED <<queueVars, entry>>
    /\ UNCHANGED <<stopVars, controlVars, admissionOpen, unseen, submission, record, results, arrived>>

\* A second acquisition of the queue's lock, then a load of the flag.
CheckEmpty(w) ==
    /\ at[w] = "isEmpty"
    /\ Becomes(w, IF pending = <<>> THEN "isOpen" ELSE "idle")
    /\ UNCHANGED <<queueVars, stopVars, controlVars, entry, admissionOpen, unseen, submission, record, results, arrived>>

CheckAdmission(w) ==
    /\ at[w] = "isOpen"
    /\ Becomes(w, IF admissionOpen THEN "idle" ELSE "ended")
    /\ UNCHANGED <<queueVars, stopVars, controlVars, entry, admissionOpen, unseen, submission, record, results, arrived>>

\* progress.changed().await
Awake(w) ==
    /\ at[w] = "idle"
    /\ w \in unseen
    /\ unseen' = unseen \ {w}
    /\ Becomes(w, "loop")
    /\ UNCHANGED <<queueVars, stopVars, controlVars, entry, admissionOpen, submission, record, results, arrived>>

\* Mutant: the entry is not put back.
DropTaken(w) ==
    /\ stopRequested
    /\ active' = active \ {RepositoryOf[entry[w]]}
    /\ entry' = [entry EXCEPT ![w] = NoJob]
    /\ Becomes(w, "ended")
    /\ UNCHANGED pending

\* release and requeue: an entry that was taken but never started goes back to
\* the front.
GiveBack(w) ==
    /\ stopRequested
    /\ active' = active \ {RepositoryOf[entry[w]]}
    /\ pending' = <<entry[w]>> \o pending
    /\ entry' = [entry EXCEPT ![w] = NoJob]
    /\ Becomes(w, "ended")

CheckTaken(w) ==
    /\ at[w] = "taken"
    /\ \/ GiveBack(w)
       \/ ~stopRequested /\ Becomes(w, "claim") /\ UNCHANGED <<queueVars, entry>>
    /\ UNCHANGED <<stopVars, controlVars, admissionOpen, unseen, submission, record, results, arrived>>

-----------------------------------------------------------------------------
(* execute: claiming, driving and releasing one job.                       *)

Report(w, outcome) == results' = [results EXCEPT ![entry[w]] = outcome]

\* The locks of the repository and of the job, which another process may hold.
Claim(w) ==
    /\ at[w] = "claim"
    /\ \/ Becomes(w, "register") /\ UNCHANGED results
       \/ Becomes(w, "release") /\ Report(w, "Rejected")
    /\ UNCHANGED <<queueVars, stopVars, controlVars, entry, admissionOpen, unseen, submission, record, arrived>>

\* register: the sender is published, then the stop flag is looked at.
Register(w) ==
    /\ at[w] = "register"
    /\ controls' = controls \cup {entry[w]}
    /\ Becomes(w, "registered")
    /\ UNCHANGED <<queueVars, stopVars, stopped, entry, admissionOpen, unseen, submission, record, results, arrived>>

\* Mutant: a stop that arrived while the job was starting is missed.
RecheckNothing(w) ==
    /\ at[w] = "registered"
    /\ Becomes(w, "starting")
    /\ UNCHANGED <<queueVars, stopVars, controlVars, entry, admissionOpen, unseen, submission, record, results, arrived>>

RecheckStop(w) ==
    /\ at[w] = "registered"
    /\ stopped' = IF stopRequested THEN stopped \cup {entry[w]} ELSE stopped
    /\ Becomes(w, "starting")
    /\ UNCHANGED <<queueVars, stopVars, controls, entry, admissionOpen, unseen, submission, record, results, arrived>>

\* The driver (an AutonomousOrchestrator) persists the job it was handed.
DriverStarts(w) ==
    /\ at[w] = "starting"
    /\ record' = [record EXCEPT ![entry[w]] = "RUNNING"]
    /\ Becomes(w, "driving")
    /\ UNCHANGED <<queueVars, stopVars, controlVars, entry, admissionOpen, unseen, submission, results, arrived>>

Deregister(w) == controls' = controls \ {entry[w]} /\ UNCHANGED stopped

\* It fails earlier than that: a dirty working tree, an unreadable repository.
DriverRefuses(w) ==
    /\ at[w] = "starting"
    /\ Report(w, "Failed")
    /\ Deregister(w)
    /\ Becomes(w, "settle")
    /\ UNCHANGED <<queueVars, stopVars, entry, admissionOpen, unseen, submission, record, arrived>>

DriverReturns(w) ==
    /\ at[w] = "driving"
    /\ \/ /\ record' \in {[record EXCEPT ![entry[w]] = r] : r \in {"FINISHED", "PARKED"}}
          /\ Report(w, "Finished")
          /\ Becomes(w, "release")
       \/ /\ record' = [record EXCEPT ![entry[w]] = "FAILED"]
          /\ Report(w, "Failed")
          /\ Becomes(w, "settle")
    /\ Deregister(w)
    /\ UNCHANGED <<queueVars, stopVars, entry, admissionOpen, unseen, submission, arrived>>

\* Mutant: the queue record of a job that never ran is left as it is.
SettleNothing(w) ==
    /\ at[w] = "settle"
    /\ Becomes(w, "release")
    /\ UNCHANGED <<queueVars, stopVars, controlVars, entry, admissionOpen, unseen, submission, record, results, arrived>>

\* settle_failed_queued_state, whose write is best effort in the code and does not
\* fail here.
SettleFailed(w) ==
    /\ at[w] = "settle"
    /\ record' = IF record[entry[w]] = "QUEUED" THEN [record EXCEPT ![entry[w]] = "FAILED"] ELSE record
    /\ Becomes(w, "release")
    /\ UNCHANGED <<queueVars, stopVars, controlVars, entry, admissionOpen, unseen, submission, results, arrived>>

Release(w) ==
    /\ at[w] = "release"
    /\ active' = active \ {RepositoryOf[entry[w]]}
    /\ entry' = [entry EXCEPT ![w] = NoJob]
    /\ Becomes(w, "announce")
    /\ UNCHANGED <<pending, stopVars, controlVars, admissionOpen, unseen, submission, record, results, arrived>>

\* Mutant: a released repository wakes nobody.
AnnounceNothing(w) ==
    /\ at[w] = "announce"
    /\ Becomes(w, "loop")
    /\ UNCHANGED <<queueVars, stopVars, controlVars, entry, admissionOpen, unseen, submission, record, results, arrived>>

Announce(w) ==
    /\ at[w] = "announce"
    /\ AnnounceProgress
    /\ Becomes(w, "loop")
    /\ UNCHANGED <<queueVars, stopVars, controlVars, entry, admissionOpen, submission, record, results, arrived>>

Drive(w) == DriverStarts(w) \/ DriverRefuses(w) \/ DriverReturns(w)

Step(w) ==
    \/ CheckStop(w) \/ MarkUnchanged(w) \/ TakeRunnable(w) \/ CheckEmpty(w) \/ CheckAdmission(w) \/ Awake(w)
    \/ CheckTaken(w) \/ Claim(w) \/ Register(w) \/ RecheckStop(w)
    \/ SettleFailed(w) \/ Release(w) \/ Announce(w)

-----------------------------------------------------------------------------
(* The owner: SchedulerControl::request_stop and SchedulerAdmission::close. *)

RequestStop ==
    /\ stopper = "None"
    /\ stopRequested' = TRUE
    /\ stopper' = "Flagged"
    /\ UNCHANGED <<queueVars, controlVars, workerVars, admissionOpen, unseen, submission, record, results, arrived>>

\* Under the lock of the registered senders.
StopActive ==
    /\ stopper = "Flagged"
    /\ stopped' = stopped \cup controls
    /\ stopper' = "Sent"
    /\ UNCHANGED <<queueVars, stopRequested, controls, workerVars, admissionOpen, unseen, submission, record, results, arrived>>

\* The flag, then the announcement: two steps, so a worker may see the one
\* without the other.
CloseAdmission ==
    /\ Mode = "daemon"
    /\ stopper = "Sent"
    /\ admissionOpen' = FALSE
    /\ stopper' = "Closing"
    /\ UNCHANGED <<queueVars, stopRequested, controlVars, workerVars, unseen, submission, record, results, arrived>>

\* Mutant: closing admission wakes nobody.
CloseSilently ==
    /\ stopper = "Closing"
    /\ stopper' = "Closed"
    /\ UNCHANGED <<queueVars, stopRequested, controlVars, workerVars, admissionOpen, unseen, submission, record, results, arrived>>

AnnounceClosed ==
    /\ stopper = "Closing"
    /\ AnnounceProgress
    /\ stopper' = "Closed"
    /\ UNCHANGED <<queueVars, stopRequested, controlVars, workerVars, admissionOpen, submission, record, results, arrived>>

-----------------------------------------------------------------------------

Enumerations == {s \in [1..Cardinality(Jobs) -> Jobs] : \A i, k \in DOMAIN s : s[i] = s[k] => i = k}

\* A batch was submitted, in any order, and admission closed before the workers
\* start; otherwise every job is still to be submitted.
Init ==
    /\ IF Mode = "batch" THEN pending \in Enumerations ELSE pending = <<>>
    /\ arrived = pending
    /\ submission = [j \in Jobs |-> IF Mode = "batch" THEN "Answered" ELSE "None"]
    /\ record = [j \in Jobs |-> IF j \in Resumed THEN "PARKED" ELSE IF Mode = "batch" THEN "QUEUED" ELSE "None"]
    /\ admissionOpen = (Mode # "batch")
    /\ active = {}
    /\ unseen = {}
    /\ at = [w \in Workers |-> "loop"]
    /\ entry = [w \in Workers |-> NoJob]
    /\ results = [j \in Jobs |-> "None"]
    /\ stopRequested = FALSE
    /\ stopper = "None"
    /\ controls = {}
    /\ stopped = {}

Next ==
    \/ \E j \in Jobs : Submit(j)
    \/ \E w \in Workers : Step(w) \/ Drive(w)
    \/ RequestStop \/ StopActive \/ CloseAdmission \/ AnnounceClosed

Spec == Init /\ [][Next]_vars

\* Every task of the runtime that can run does, and a driven job ends sooner or
\* later, by itself or by the stop it was sent.  Nobody has to submit a job or
\* to request a stop.
FairSpec ==
    /\ Spec
    /\ \A w \in Workers : WF_vars(Step(w)) /\ WF_vars(Drive(w))
    /\ \A j \in Jobs : WF_vars(AcceptOne(j) \/ RejectOne(j) \/ Enqueue(j) \/ AnswerSubmission(j))
    /\ WF_vars(StopActive)
    /\ WF_vars(CloseAdmission \/ AnnounceClosed)

-----------------------------------------------------------------------------
(* Properties.                                                             *)

TypeOK ==
    /\ pending \in Seq(Jobs)
    /\ active \subseteq Repositories
    /\ admissionOpen \in BOOLEAN
    /\ unseen \subseteq Workers
    /\ at \in [Workers -> WorkerSteps]
    /\ entry \in [Workers -> Jobs \cup {NoJob}]
    /\ submission \in [Jobs -> Submissions]
    /\ record \in [Jobs -> Records]
    /\ results \in [Jobs -> Reports]
    /\ stopRequested \in BOOLEAN
    /\ stopper \in {"None", "Flagged", "Sent", "Closing", "Closed"}
    /\ controls \subseteq Jobs
    /\ stopped \subseteq Jobs
    /\ arrived \in Seq(Jobs)

Owns(w, r) == at[w] \in Owning /\ RepositoryOf[entry[w]] = r

\* Two workers never have the same repository, so two jobs of one scheduler
\* never work in the same tree.
RepositoryExclusion == \A r \in Repositories : \A v, w \in Workers : Owns(v, r) /\ Owns(w, r) => v = w

Held == {entry[w] : w \in {v \in Workers : at[v] \in Owning}}

\* Work that was queued is waiting, held by a worker or reported, whatever stop
\* arrives at whatever moment; and waiting work is still on disk as it was
\* accepted, so the next scheduler finds it.
NoWorkIsLost ==
    /\ Elements(arrived) = Elements(pending) \cup Held \cup {j \in Elements(arrived) : results[j] # "None"}
    /\ \A i \in DOMAIN pending :
          record[pending[i]] = IF pending[i] \in Resumed THEN "PARKED" ELSE "QUEUED"

\* A job is held by at most one worker, and is not waiting at the same time: no
\* job is ever driven twice.
HeldOnce ==
    /\ \A v, w \in Workers : at[v] \in Owning /\ at[w] \in Owning /\ entry[v] = entry[w] => v = w
    /\ Held \cap Elements(pending) = {}
    /\ \A i, k \in DOMAIN pending : pending[i] = pending[k] => i = k

\* Once request_stop has returned, every job a worker drives was asked to stop,
\* also one that was just being started.
StopReachesEveryJob ==
    stopper \in {"Sent", "Closing", "Closed"} =>
        \A w \in Workers : at[w] \in {"starting", "driving"} => entry[w] \in stopped

\* A job that is reported as failed, and whose worker is done with it, is not
\* QUEUED any more: the report and the disk agree.
FailureIsOnDisk ==
    \A j \in Jobs : results[j] = "Failed" /\ j \notin Held => record[j] # "QUEUED"

\* Every piece of work is in one place, and the disk knows it.
WorkIsAccountedFor == NoWorkIsLost /\ HeldOnce /\ FailureIsOnDisk

Outcome(j) ==
    CASE j \in Held -> "running"
      [] j \in Elements(pending) \ Held -> "waiting"
      [] j \notin Held \cup Elements(pending) /\ j \in Elements(arrived) -> "done"
      [] OTHER -> "absent"

Queue == INSTANCE WorkQueue WITH order <- arrived, status <- [j \in Jobs |-> Outcome(j)],
                                 Slots <- Cardinality(Workers)

\* The scheduler is a work queue: jobs of one repository run one at a time and in
\* the order they were queued, on at most as many slots as there are workers.
ImplementsWorkQueue == Queue!Spec

Ended == \A w \in Workers : at[w] = "ended"

\* Nobody who waits sleeps through the work: as long as no stop is requested, a
\* queued job is driven or rejected some day.
QueuedWorkIsServed == \A j \in Jobs : j \in Elements(pending) ~> (results[j] # "None" \/ stopRequested)

\* A batch that nobody stops ends, with an outcome for every job.
BatchEnds == <>(stopRequested \/ (Ended /\ \A j \in Jobs : results[j] # "None"))

\* Scheduler::serve: "It resolves once [...] a graceful stop has been requested
\* and the active jobs have shut down."
StopEndsTheScheduler == stopRequested ~> Ended

\* What the code does keep of that: sooner or later no worker has a job any more, and
\* nothing but work that stays queued keeps a worker from its end.  Closing admission
\* wakes the workers, but one that reads the stop flag before the stop and calls
\* mark_unchanged after the announcement takes it for seen.  It ends if it then finds
\* the queue empty; if what is queued has a taken repository, or was given back while
\* it looked, it waits for an announcement that does not come.
StopShutsDownTheJobs ==
    stopRequested ~> [](Held = {} /\ \A w \in Workers : at[w] # "ended" => at[w] = "idle" /\ pending # <<>>)

\* The daemon's scheduler loses and doubles no work, keeps the order of each
\* repository, gets to everything that is queued, and lets no job run on when it is
\* told to stop.
DaemonServesItsQueue ==
    []WorkIsAccountedFor /\ ImplementsWorkQueue /\ QueuedWorkIsServed /\ StopShutsDownTheJobs

===============================================================================
