---------------------------------- MODULE Job ----------------------------------
(***************************************************************************)
(* One autonomous job: AutonomousOrchestrator of src/orchestrator/job.rs   *)
(* (run, resume, drive, publish, safe_point, stop), the resume plan of     *)
(* src/orchestrator/resume.rs, and the publication of module Publication.  *)
(*                                                                         *)
(* The state on disk is one record, replaced as a whole by every persist   *)
(* (src/orchestrator/state.rs, save_job).  One process at a time drives    *)
(* the job; it may die between any two steps, and a later one resumes from *)
(* the record.  The Supervisor, the Executor and the person at the         *)
(* terminal answer what they like.                                         *)
(***************************************************************************)
EXTENDS Publication

CONSTANTS
    MaxIterations,     \* RunConfiguration.max_iterations
    EventFaults        \* may writing an event fail?

ASSUME JobAssumption ==
    /\ MaxIterations \in Nat \ {0}
    /\ EventFaults \in BOOLEAN

VARIABLES
    job,          \* the JobState in the memory of the driving process
    disk,         \* the JobState in state.json
    saved,        \* its accepted_repository_state ("accepted" is the one in memory)
    reply,        \* what the Supervisor or the Executor answered
    after,        \* where the process goes when a safe point lets it pass
    pause,        \* the job's control: pause_requested
    inputOpen,    \* does anybody still hold a sender of the job's control?
    (* History variables, read by the properties only. *)
    seen,         \* the content of the working tree the last capture was taken of
    ranAt         \* the iteration of the last recorded Executor run

jobVars == <<job, disk, saved, reply, after, pause, inputOpen, seen, ranAt>>
allVars == <<vars, jobVars>>

Resumable == {"RUNNING", "PAUSED", "PUBLISHING", "WAITING_CLAUDE_QUOTA", "WAITING_OPENAI_QUOTA"}
Terminal == {"ACCEPTED", "PUBLISHED", "FAILED", "STOPPED", "WAITING_HUMAN"}
Statuses == Resumable \cup Terminal \cup {"QUEUED"}
Operations == {"None", "SupervisorReview", "ExecutorRun", "Publication"}
Decisions == {"CLAUDE", "ACCEPT", "HUMAN", "STOP"}
NoSnapshot == [head |-> 0, staged |-> FALSE, diff |-> {}]

JobState ==
    [status : Statuses, iteration : Nat, pending : Operations, decision : Decisions \cup {"None"},
     report : BOOLEAN, session : BOOLEAN, snapshot : Snapshot, quota : Operations,
     publish : BOOLEAN]

\* JobState::new, with the RunConfiguration's "publish".
NewJob(publish) ==
    [status |-> "RUNNING", iteration |-> 0, pending |-> "None", decision |-> "None",
     report |-> FALSE, session |-> FALSE, snapshot |-> NoSnapshot, quota |-> "None",
     publish |-> publish]

\* The process's own steps outside the publisher.
DriverSteps ==
    {"safe", "paused", "fresh", "review", "reviewing", "decide", "execute", "executing",
     "executorFailed", "captureRun", "enterPublish", "published", "resuming", "closing"}

-----------------------------------------------------------------------------
(* The steps' common parts.                                                *)

publicationVars == <<repoVars, stage, result, stop, outcome, reviewed, disturbed, writes>>

\* persist: the whole record is replaced.
Save(j) == job' = j /\ disk' = j /\ saved' = accepted'

\* The job's last write is followed by the events that report it ("closing").
Finish(j) == Save(j) /\ pc' = "closing" /\ UNCHANGED after
Fail == Finish([job EXCEPT !.status = "FAILED"])
WaitForHuman == Finish([job EXCEPT !.status = "WAITING_HUMAN"])

\* Mutant: the status and the operation change places.
WaitForQuotaSwapped(status, operation) ==
    Finish([job EXCEPT !.status = operation, !.pending = operation, !.quota = operation])

WaitForQuota(status, operation) ==
    Finish([job EXCEPT !.status = status, !.pending = operation, !.quota = operation])

ToSafePoint(next) == pc' = "safe" /\ after' = next

\* RepositoryState::collect fails as any Git command may.
CaptureFails == disturbed' = TRUE /\ UNCHANGED <<repoVars, stage, result, stop, outcome, reviewed, writes>>

Idle == UNCHANGED <<publicationVars, accepted, reply, pause, inputOpen, seen, ranAt>>

-----------------------------------------------------------------------------
(* safe_point and stop.                                                    *)

\* stop: the repository is captured if it can be.
StopJob ==
    /\ stop
    /\ \E snapshot \in {Capture, job.snapshot} :
          Finish([job EXCEPT !.status = "STOPPED", !.snapshot = snapshot])

SafePoint ==
    /\ pc = "safe"
    /\ Idle
    /\ \/ StopJob
       \/ ~stop /\ ~pause /\ pc' = after /\ UNCHANGED <<job, disk, saved, after>>
       \/ ~stop /\ pause /\ Save([job EXCEPT !.status = "PAUSED"]) /\ pc' = "paused" /\ UNCHANGED after

\* Mutant: a paused job only listens to a resume.
LeavePauseOnResume ==
    /\ pc = "paused"
    /\ Idle
    /\ \/ ~pause /\ Save([job EXCEPT !.status = "RUNNING"]) /\ pc' = after /\ UNCHANGED after
       \/ pause /\ ~inputOpen /\ Finish([job EXCEPT !.status = "PAUSED"])

\* A command arrived, or the input ended: then the job stays PAUSED for a later
\* process.
LeavePause ==
    /\ pc = "paused"
    /\ Idle
    /\ \/ StopJob
       \/ ~stop /\ ~pause /\ Save([job EXCEPT !.status = "RUNNING"]) /\ pc' = after /\ UNCHANGED after
       \/ ~stop /\ pause /\ ~inputOpen /\ Finish([job EXCEPT !.status = "PAUSED"])

-----------------------------------------------------------------------------
(* run and resume.                                                         *)

\* A job only starts on a clean working tree; otherwise nothing is written.
Run ==
    /\ pc = "down"
    /\ disk.status = "QUEUED"
    /\ IsClean(Capture)
    /\ UNCHANGED <<publicationVars, accepted, reply, pause, inputOpen, ranAt>>
    /\ Save([NewJob(disk.publish) EXCEPT !.snapshot = Capture])
    /\ seen' = tree
    /\ ToSafePoint("fresh")

\* Mutant: a finished job can be selected too.
LoadAnyJob ==
    /\ pc = "down"
    /\ disk.status # "QUEUED"
    /\ job' = disk
    /\ accepted' = saved
    /\ pc' = "resuming"
    /\ UNCHANGED <<publicationVars, disk, saved, reply, after, pause, inputOpen, seen, ranAt>>

\* resumable_jobs and select_job: only a resumable job is ever loaded.
Load ==
    /\ pc = "down"
    /\ disk.status \in Resumable
    /\ job' = disk
    /\ accepted' = saved
    /\ pc' = "resuming"
    /\ UNCHANGED <<publicationVars, disk, saved, reply, after, pause, inputOpen, seen, ranAt>>

\* ResumePlan::for_job on a resumable job: the continuation, or "Invalid".
ResumePlan(j, snapshot) ==
    LET continuation ==
            CASE j.pending = "None" -> "fresh"
              [] j.pending = "SupervisorReview" /\ j.iteration > 0 -> "review"
              [] j.pending = "ExecutorRun" /\ j.decision = "CLAUDE" /\ (j.report => j.session) -> "execute"
              [] j.pending = "Publication" /\ j.publish /\ snapshot # NoSnapshot
                    /\ j.decision = "ACCEPT" -> "enterPublish"
              [] OTHER -> "Invalid"
        mismatch ==
            \/ j.quota # "None" /\ j.quota # j.pending
            \/ j.status = "WAITING_CLAUDE_QUOTA" /\ continuation # "execute"
            \/ j.status = "WAITING_OPENAI_QUOTA" /\ continuation # "review"
            \/ j.status = "PUBLISHING" /\ continuation # "enterPublish"
    IN  IF mismatch THEN "Invalid" ELSE continuation

Plan == ResumePlan(job, accepted)

\* Anything but a publication needs the repository as it was last captured.
RepositoryUnchanged == Plan = "enterPublish" \/ Capture = job.snapshot

\* Mutant: the operation that was pending is forgotten by the first write.
ResumeJobForgetting ==
    /\ pc = "resuming"
    /\ Plan # "Invalid"
    /\ RepositoryUnchanged
    /\ UNCHANGED <<publicationVars, accepted, reply, pause, inputOpen, ranAt>>
    /\ Save([job EXCEPT !.status = "RUNNING", !.quota = "None", !.pending = "None"])
    /\ ToSafePoint(Plan)
    /\ seen' = tree

ResumeJob ==
    /\ pc = "resuming"
    /\ Plan # "Invalid"
    /\ RepositoryUnchanged
    /\ UNCHANGED <<publicationVars, accepted, reply, pause, inputOpen, ranAt>>
    /\ Save([job EXCEPT !.status = "RUNNING", !.quota = "None"])
    /\ ToSafePoint(Plan)
    /\ seen' = tree

ResumeParks ==
    /\ pc = "resuming"
    /\ Idle
    /\ Plan = "Invalid" \/ ~RepositoryUnchanged
    /\ WaitForHuman

\* The repository cannot be read: the resume is refused and nothing is written.
ResumeRefused ==
    /\ pc = "resuming"
    /\ Plan # "Invalid"
    /\ pc' = "closing"
    /\ CaptureFails
    /\ UNCHANGED <<accepted, jobVars>>

-----------------------------------------------------------------------------
(* drive: the Supervisor.                                                  *)

\* Mutant: one review too many.
SuperviseOnceMore ==
    /\ pc \in {"fresh", "review"}
    /\ Idle
    /\ \/ pc = "fresh" /\ job.iteration > MaxIterations /\ Fail
       \/ /\ pc = "review" \/ job.iteration <= MaxIterations
          /\ Save([job EXCEPT !.iteration = IF pc = "fresh" THEN @ + 1 ELSE @,
                              !.status = "RUNNING", !.pending = "SupervisorReview"])
          /\ pc' = "reviewing"
          /\ UNCHANGED after

\* A fresh review counts against the iteration limit, a repeated one does not.
Supervise ==
    /\ pc \in {"fresh", "review"}
    /\ Idle
    /\ \/ pc = "fresh" /\ job.iteration >= MaxIterations /\ Fail
       \/ /\ pc = "review" \/ job.iteration < MaxIterations
          /\ Save([job EXCEPT !.iteration = IF pc = "fresh" THEN @ + 1 ELSE @,
                              !.status = "RUNNING", !.pending = "SupervisorReview"])
          /\ pc' = "reviewing"
          /\ UNCHANGED after

SupervisorAnswers ==
    /\ pc = "reviewing"
    /\ reply' \in Decisions \cup {"Quota", "Error"}
    /\ ToSafePoint("decide")
    /\ UNCHANGED <<publicationVars, accepted, job, disk, saved, pause, inputOpen, seen, ranAt>>

DecideClaude ==
    /\ reply = "CLAUDE"
    /\ Save([job EXCEPT !.decision = "CLAUDE", !.pending = "ExecutorRun"])
    /\ ToSafePoint("execute")

\* Mutant: an accepted job is published although publication is disabled.
DecideAcceptPublishing ==
    /\ reply = "ACCEPT"
    /\ accepted' = job.snapshot
    /\ reviewed' = seen
    /\ job' = [job EXCEPT !.decision = "ACCEPT"]
    /\ ToSafePoint("enterPublish")
    /\ UNCHANGED <<disk, saved>>

\* With publication nothing is written here: the single write that records an
\* owed publication is EnterPublish's.
DecideAccept ==
    /\ reply = "ACCEPT"
    /\ accepted' = job.snapshot
    /\ reviewed' = seen
    /\ \/ /\ ~job.publish
          /\ Finish([job EXCEPT !.decision = "ACCEPT", !.status = "ACCEPTED", !.pending = "None"])
       \/ /\ job.publish
          /\ job' = [job EXCEPT !.decision = "ACCEPT"]
          /\ ToSafePoint("enterPublish")
          /\ UNCHANGED <<disk, saved>>

DecideOtherwise ==
    \/ reply = "HUMAN" /\ Finish([job EXCEPT !.decision = "HUMAN", !.status = "WAITING_HUMAN", !.pending = "None"])
    \/ reply = "STOP" /\ Finish([job EXCEPT !.decision = "STOP", !.status = "STOPPED", !.pending = "None"])
    \/ reply = "Quota" /\ WaitForQuota("WAITING_OPENAI_QUOTA", "SupervisorReview")
    \/ reply = "Error" /\ Fail

Decide ==
    /\ pc = "decide"
    /\ \/ DecideAccept
       \/ UNCHANGED <<accepted, reviewed>> /\ (DecideClaude \/ DecideOtherwise)
    /\ UNCHANGED <<repoVars, stage, result, stop, outcome, disturbed, writes>>
    /\ UNCHANGED <<reply, pause, inputOpen, seen, ranAt>>

-----------------------------------------------------------------------------
(* drive: the Executor.                                                    *)

\* Another pass needs the session of the first one.
Execute ==
    /\ pc = "execute"
    /\ Idle
    /\ \/ (job.decision # "CLAUDE" \/ (job.report /\ ~job.session)) /\ Fail
       \/ /\ job.decision = "CLAUDE" /\ (job.report => job.session)
          /\ ToSafePoint("executing")
          /\ UNCHANGED <<job, disk, saved>>

ExecutorWorks ==
    /\ pc = "executing"
    /\ Edit
    /\ UNCHANGED <<jobVars, accepted, stage, result, stop, pc, outcome, reviewed, disturbed, writes>>

\* Mutant: the run is still pending when it is recorded.
ExecutorReturnsPending ==
    /\ pc = "executing"
    /\ UNCHANGED <<publicationVars, accepted, reply, after, pause, inputOpen, seen>>
    /\ \E session \in BOOLEAN : Save([job EXCEPT !.session = @ \/ session, !.report = TRUE])
    /\ ranAt' = job.iteration
    /\ pc' = "captureRun"

\* The completed run is made durable before the repository is captured.
ExecutorReturns ==
    /\ pc = "executing"
    /\ UNCHANGED <<publicationVars, accepted, reply, after, pause, inputOpen, seen>>
    /\ \E session \in BOOLEAN :
          Save([job EXCEPT !.session = @ \/ session, !.report = TRUE, !.pending = "None"])
    /\ ranAt' = job.iteration
    /\ pc' = "captureRun"

CaptureRun ==
    /\ pc = "captureRun"
    /\ UNCHANGED <<accepted, reply, pause, inputOpen, ranAt>>
    /\ \/ /\ Save([job EXCEPT !.snapshot = Capture])
          /\ seen' = tree
          /\ ToSafePoint("fresh")
          /\ UNCHANGED publicationVars
       \/ Fail /\ CaptureFails /\ UNCHANGED seen

ExecutorAnswersError ==
    /\ pc = "executing"
    /\ reply' \in {"Quota", "Error"}
    /\ ToSafePoint("executorFailed")
    /\ UNCHANGED <<publicationVars, accepted, job, disk, saved, pause, inputOpen, seen, ranAt>>

ExecutorFailed ==
    /\ pc = "executorFailed"
    /\ Idle
    /\ \/ reply = "Quota" /\ WaitForQuota("WAITING_CLAUDE_QUOTA", "ExecutorRun")
       \/ reply = "Error" /\ Fail

\* ProcessCancellation: a requested stop ends a provider's process.
ProviderCancelled ==
    /\ pc \in {"reviewing", "executing"}
    /\ stop
    /\ reply' = "Error"
    /\ ToSafePoint(IF pc = "reviewing" THEN "decide" ELSE "executorFailed")
    /\ UNCHANGED <<publicationVars, accepted, job, disk, saved, pause, inputOpen, seen, ranAt>>

-----------------------------------------------------------------------------
(* publish.                                                                *)

\* Mutant: the status is written before the pending publication.
EnterPublishHalf ==
    /\ pc = "enterPublish"
    /\ Idle
    /\ Save([job EXCEPT !.status = "PUBLISHING"])
    /\ pc' = "enter"
    /\ UNCHANGED after

EnterPublish ==
    /\ pc = "enterPublish"
    /\ Idle
    /\ \/ (accepted = NoSnapshot \/ job.decision # "ACCEPT") /\ WaitForHuman
       \/ /\ accepted # NoSnapshot /\ job.decision = "ACCEPT"
          /\ Save([job EXCEPT !.status = "PUBLISHING", !.pending = "Publication"])
          /\ pc' = "enter"
          /\ UNCHANGED after

PublisherReturns ==
    /\ pc = "returned"
    /\ Idle
    /\ ToSafePoint("published")
    /\ UNCHANGED <<job, disk, saved>>

\* Mutant: a rejected push counts as published.
SettleRejected ==
    /\ pc = "published"
    /\ Idle
    /\ \/ outcome \in {"Ok", "Rejected"}
          /\ Finish([job EXCEPT !.status = "PUBLISHED", !.pending = "None", !.snapshot = Capture])
       \/ outcome = "Ambiguous" /\ WaitForHuman
       \/ outcome \notin {"Ok", "Rejected", "Ambiguous"} /\ Fail

SettlePublication ==
    /\ pc = "published"
    /\ Idle
    /\ \/ /\ outcome = "Ok" /\ IsClean(Capture)
          /\ Finish([job EXCEPT !.status = "PUBLISHED", !.pending = "None", !.snapshot = Capture])
       \/ outcome = "Ok" /\ Fail      \* a tree that is not clean, or cannot be read
       \/ outcome = "Ambiguous" /\ WaitForHuman
       \/ outcome \notin {"Ok", "Ambiguous"} /\ Fail

-----------------------------------------------------------------------------
(* The person at the terminal, the end of a process, and everybody else.   *)

Running == pc \notin {"down", "closing"}

RequestPauseOrResume ==
    /\ Running
    /\ inputOpen
    /\ pause' = ~pause
    /\ UNCHANGED <<vars, job, disk, saved, reply, after, inputOpen, seen, ranAt>>

RequestJobStop ==
    /\ Running
    /\ inputOpen
    /\ ~stop
    /\ stop' = TRUE
    /\ UNCHANGED <<repoVars, recordVars, historyVars, pc, outcome, jobVars>>

InputEnds ==
    /\ Running
    /\ inputOpen
    /\ inputOpen' = FALSE
    /\ UNCHANGED <<vars, job, disk, saved, reply, after, pause, seen, ranAt>>

\* What a process leaves behind: the record, the repository, nothing else.
ProcessGone ==
    /\ pc' = "down"
    /\ job' = disk'
    /\ accepted' = saved'
    /\ reply' = "None"
    /\ after' = "down"
    /\ stop' = FALSE
    /\ pause' = FALSE
    /\ inputOpen' = TRUE
    /\ outcome' = "None"
    /\ writes' = 0
    /\ UNCHANGED <<repoVars, stage, result, reviewed, disturbed, seen, ranAt>>

Close ==
    /\ pc = "closing"
    /\ UNCHANGED <<disk, saved>>
    /\ ProcessGone

JobCrash ==
    /\ Running
    /\ UNCHANGED <<disk, saved>>
    /\ ProcessGone

\* emit: an event that cannot be written fails the job, whatever it was.
EventFails ==
    /\ EventFaults
    /\ pc \in {"safe", "paused", "reviewing", "decide", "executing", "captureRun", "enter", "resuming", "closing"}
    /\ disk' = [job EXCEPT !.status = "FAILED"]
    /\ saved' = accepted
    /\ ProcessGone

JobOutsideEdit ==
    /\ pc = "down" \/ ConcurrentEditor
    /\ disk.status \notin Terminal
    /\ Edit
    /\ disturbed' = TRUE
    /\ UNCHANGED <<jobVars, recordVars, stop, pc, outcome, reviewed, writes>>

JobInit ==
    /\ \E c \in Content :
          /\ commits = <<[content |-> c, parent |-> 0, by |-> "other"]>>
          /\ index = c
          /\ tree = c
    /\ head = 1
    /\ remote = 1
    /\ accepted = NoSnapshot
    /\ saved = NoSnapshot
    /\ stage = "NONE"
    /\ result = NoResult
    /\ stop = FALSE
    /\ pause = FALSE
    /\ inputOpen = TRUE
    /\ pc = "down"
    /\ outcome = "None"
    /\ reply = "None"
    /\ after = "down"
    /\ \E publish \in BOOLEAN : job = [NewJob(publish) EXCEPT !.status = "QUEUED"]
    /\ disk = job
    /\ reviewed = tree
    /\ seen = tree
    /\ disturbed = FALSE
    /\ writes = 0
    /\ ranAt = 0

\* What the process does by itself, the answers of the providers aside.
DriverStep ==
    \/ SafePoint \/ LeavePause \/ ResumeJob \/ ResumeParks \/ ResumeRefused
    \/ Supervise \/ Decide \/ Execute \/ CaptureRun \/ ExecutorFailed \/ ProviderCancelled
    \/ EnterPublish \/ (PublisherStep /\ UNCHANGED jobVars) \/ PublisherReturns \/ SettlePublication
    \/ Close

JobNext ==
    \/ Run \/ Load
    \/ DriverStep
    \/ SupervisorAnswers \/ ExecutorWorks \/ ExecutorReturns \/ ExecutorAnswersError
    \/ RequestPauseOrResume \/ RequestJobStop \/ InputEnds
    \/ JobCrash \/ EventFails \/ JobOutsideEdit

JobSpec == JobInit /\ [][JobNext]_allVars

\* The process keeps running; nobody else has to do anything.
FairJobSpec == JobSpec /\ WF_allVars(DriverStep)

-----------------------------------------------------------------------------
(* Properties.                                                             *)

JobTypeOK ==
    /\ RepoTypeOK
    /\ {accepted, saved} \subseteq Snapshot
    /\ stage \in Stages
    /\ result \in [sha : Nat, push : PushStatuses]
    /\ {stop, pause, inputOpen, disturbed} \subseteq BOOLEAN
    /\ pc \in DriverSteps \cup PublisherSteps \cup {"returned", "down"}
    /\ after \in DriverSteps \cup {"down"}
    /\ outcome \in Outcomes
    /\ reply \in Decisions \cup {"None", "Quota", "Error"}
    /\ {job, disk} \subseteq JobState
    /\ {reviewed, seen} \subseteq Content
    /\ {writes, ranAt} \subseteq Nat

\* Every record a crash, a pause or a quota can leave behind is one ResumePlan
\* continues.  The one exception is a correction without a session, which drive
\* is about to fail anyway.
EveryRecordIsPlannable ==
    disk.status \in Resumable =>
        \/ ResumePlan(disk, saved) # "Invalid"
        \/ disk.pending = "ExecutorRun" /\ disk.report /\ ~disk.session

\* However often the job is interrupted and resumed, it never counts more
\* iterations than its limit, and every iteration has at most one recorded
\* Executor run.
IterationsAreBounded == ranAt <= disk.iteration /\ disk.iteration <= MaxIterations

\* An Executor run that is recorded as complete is never started again: the next
\* run belongs to a later iteration, so to a later review.
NoRunIsReplayed == [][pc # "executing" /\ pc' = "executing" => job.iteration > ranAt]_allVars

\* A job is PUBLISHED only with exactly the accepted files on the remote, through
\* whatever crashes, resumes and retried pushes it got there.
PublishedMeansPublished ==
    disk.status = "PUBLISHED" =>
        result.push = "PUSHED" /\ remote = result.sha /\ commits[remote].content = reviewed

\* As long as the job can still be resumed, a commit it made and recorded is
\* owed: the record says that a publication is pending.
RecordedCommitIsOwed == result # NoResult /\ disk.status \in Resumable => disk.pending = "Publication"

\* The record is one a later process can continue from: it has its type, its plan
\* and its iterations.
RecordIsSound == JobTypeOK /\ EveryRecordIsPlannable /\ IterationsAreBounded

\* A comment of job.rs (resume) says of a terminal status that "it is
\* already a decided outcome and is never rewritten".
TerminalIsFinal == [][disk.status \in Terminal => disk' = disk]_allVars

\* Nothing but a failure to write an event rewrites a decided outcome, and then
\* as FAILED: no process resumes a job that is over, or turns a failed one into a
\* success.
OutcomeIsFinal ==
    [][disk.status \in Terminal /\ disk' # disk => EventFaults /\ disk'.status = "FAILED"]_allVars

\* A stop ends the process that drives the job, even in the middle of a provider
\* call or of a pause.
StopEndsTheJob == stop ~> pc = "down"

===============================================================================
