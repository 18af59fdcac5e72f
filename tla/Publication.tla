------------------------------ MODULE Publication ------------------------------
(***************************************************************************)
(* The guarded Git publication of one accepted job:                        *)
(* src/orchestrator/publisher.rs (GitPublisher), driven by                 *)
(* AutonomousOrchestrator::publish of src/orchestrator/job.rs, which       *)
(* records every stage and every commit in the job's state.json.           *)
(*                                                                         *)
(* A process may die between any two steps.  The recorded stage and commit *)
(* survive it, and so does the repository; the next process goes through   *)
(* GitPublisher::recover.  Whoever else works in the repository edits it   *)
(* while no process drives the job and, when ConcurrentEditor, also while  *)
(* one does.                                                               *)
(***************************************************************************)
EXTENDS Repository

CONSTANT ConcurrentEditor    \* does anybody edit the repository under a running publication?

ASSUME EditorAssumption == ConcurrentEditor \in BOOLEAN

VARIABLES
    accepted,     \* JobState.accepted_repository_state: the capture the Supervisor accepted
    stage,        \* JobState.publish_stage, persisted by PublishProgress::record
    result,       \* JobState.publish_result, persisted by PublishProgress::record_commit
    stop,         \* the job's control: stop_requested
    pc,           \* what the driving process does next
    outcome,      \* what GitPublisher::publish or ::recover returned
    (* History variables, read by the properties only. *)
    reviewed,     \* the content of the working tree the accepted capture was taken of
    disturbed,    \* has anybody else edited the repository since that capture, or a read of it failed?
    writes        \* Git writes started since the stop was requested

recordVars == <<accepted, stage, result>>
historyVars == <<reviewed, disturbed, writes>>
vars == <<repoVars, recordVars, historyVars, stop, pc, outcome>>

Stages == {"NONE", "VERIFYING", "STAGING", "STAGED", "COMMITTING", "COMMITTED", "PUSHING", "PUSHED"}
NoResult == [sha |-> 0, push |-> "NONE"]
PushStatuses == {"NONE", "PENDING", "PUSHED", "REJECTED"}
Outcomes == {"None", "Ok", "Stopped", "Changed", "Mismatch", "Incomplete", "Error", "Rejected", "Ambiguous"}

\* The steps of the publisher, named for what comes next.
PublisherSteps ==
    {"enter", "publish", "verify", "add", "verifyStaged", "checkHead", "toCommit", "commit",
     "recordCommit", "committed", "toPush", "push", "recordPush", "pushed",
     "proveCommit", "proveIndex", "addAgain", "verifyAgain"}

-----------------------------------------------------------------------------
(* The steps' common parts.                                                *)

Return(o) == pc' = "returned" /\ outcome' = o
Goto(next) == pc' = next /\ UNCHANGED outcome

\* PublishProgress::record and ::record_commit write the job's state.json.
Record(s) == stage' = s /\ UNCHANGED <<accepted, result>>
RecordCommit(sha, push) == result' = [sha |-> sha, push |-> push] /\ UNCHANGED <<accepted, stage>>

\* The check between two stages: a requested stop ends the publication there.
UnlessStopped(s, next) ==
    \/ stop /\ Return("Stopped") /\ UNCHANGED recordVars
    \/ ~stop /\ Record(s) /\ Goto(next)

Refuse(o) == Return(o) /\ UNCHANGED recordVars

OwnWrite == writes' = IF stop THEN writes + 1 ELSE writes
Quiet == UNCHANGED <<repoVars, historyVars, stop>>

\* verify_before_staging, without the branch and remote checks, which fail as
\* any Git command may (GitCommandFails).
VerifyBeforeStaging ==
    IF ~IsCompleteForPublication(accepted) THEN "Incomplete"
    ELSE IF Capture # accepted THEN "Changed" ELSE "Ok"

\* Mutant: any staged change will do.
StagedIsSomething == index # HeadContent

\* verify_staged_state: the staged change is the accepted change.
StagedIsAccepted == Diff(HeadContent, index) = accepted.diff

\* verify_recorded_commit: HEAD is the recorded commit, its parent the accepted
\* HEAD, its paths the accepted ones, and nothing else changed since.
RecordedCommitIsProven ==
    /\ head = result.sha
    /\ commits[head].parent = accepted.head
    /\ (commits[commits[head].parent].content = HeadContent) = (accepted.diff = {})
    /\ IsClean(Capture)

-----------------------------------------------------------------------------
(* GitPublisher::publish.                                                  *)

BeginPublish ==
    /\ pc = "publish"
    /\ UnlessStopped("VERIFYING", "verify")
    /\ Quiet

VerifySnapshot ==
    /\ pc = "verify"
    /\ \/ VerifyBeforeStaging = "Ok" /\ UnlessStopped("STAGING", "add")
       \/ VerifyBeforeStaging # "Ok" /\ Refuse(VerifyBeforeStaging)
    /\ Quiet

StageAll(at, next) ==
    /\ pc = at
    /\ GitAddAll
    /\ OwnWrite
    /\ Goto(next)
    /\ UNCHANGED <<recordVars, reviewed, disturbed, stop>>

\* Mutant: a stop is not looked at after staging.
VerifyStagedIgnoringStop(at, next) ==
    /\ pc = at
    /\ \/ StagedIsAccepted /\ Record("STAGED") /\ Goto(next)
       \/ ~StagedIsAccepted /\ Refuse("Mismatch")
    /\ Quiet

VerifyStaged(at, next) ==
    /\ pc = at
    /\ \/ StagedIsAccepted /\ UnlessStopped("STAGED", next)
       \/ ~StagedIsAccepted /\ Refuse("Mismatch")
    /\ Quiet

\* The HEAD the reviewed change was made on is checked once more, right before
\* the commit.
CheckHead ==
    /\ pc = "checkHead"
    /\ \/ head = accepted.head /\ UnlessStopped("COMMITTING", "commit")
       \/ head # accepted.head /\ Refuse("Changed")
    /\ Quiet

\* commit_accepted_state and push_commit, shared with recovery.
BeginCommit ==
    /\ pc = "toCommit"
    /\ Record("COMMITTING")
    /\ Goto("commit")
    /\ Quiet

CommitStaged ==
    /\ pc = "commit"
    /\ GitCommit("lya")
    /\ OwnWrite
    /\ Goto("recordCommit")
    /\ UNCHANGED <<recordVars, reviewed, disturbed, stop>>

\* Mutant: the commit is recorded only when it is pushed.
RecordNewCommitLater ==
    /\ pc = "recordCommit"
    /\ Goto("committed")
    /\ UNCHANGED recordVars
    /\ Quiet

RecordNewCommit ==
    /\ pc = "recordCommit"
    /\ RecordCommit(head, "PENDING")
    /\ Goto("committed")
    /\ Quiet

RecordCommitted ==
    /\ pc = "committed"
    /\ Record("COMMITTED")
    /\ Goto("toPush")
    /\ Quiet

BeginPush ==
    /\ pc = "toPush"
    /\ UnlessStopped("PUSHING", "push")
    /\ Quiet

PushAccepted ==
    /\ pc = "push"
    /\ GitPush
    /\ OwnWrite
    /\ Goto("recordPush")
    /\ UNCHANGED <<recordVars, reviewed, disturbed, stop>>

\* Mutant: the status of "git push" is not looked at.
PushRejectionIgnored ==
    /\ pc = "push"
    /\ Goto("recordPush")
    /\ UNCHANGED recordVars
    /\ Quiet

\* A push that failed may still have reached the remote: only its answer is lost.
PushRejected ==
    /\ pc = "push"
    /\ \/ GitPush /\ OwnWrite
       \/ UNCHANGED <<repoVars, writes>>
    /\ RecordCommit(result.sha, "REJECTED")
    /\ Return("Rejected")
    /\ UNCHANGED <<reviewed, disturbed, stop>>

RecordPushed ==
    /\ pc = "recordPush"
    /\ RecordCommit(result.sha, "PUSHED")
    /\ Goto("pushed")
    /\ Quiet

FinishPush ==
    /\ pc = "pushed"
    /\ Record("PUSHED")
    /\ Return("Ok")
    /\ Quiet

-----------------------------------------------------------------------------
(* GitPublisher::recover.                                                  *)

\* AutonomousOrchestrator::publish: a recorded stage or commit means that a
\* process was already inside the guarded sequence.
Recovering == stage # "NONE" \/ result # NoResult

\* Mutant: a commit that was not pushed is published anew.
RepublishRecordedCommit ==
    /\ result # NoResult
    /\ \/ result.push = "PUSHED" /\ Refuse("Ok")
       \/ result.push # "PUSHED" /\ Record("VERIFYING") /\ Goto("publish")

RecoverRecordedCommit ==
    /\ result # NoResult
    /\ \/ result.push = "PUSHED" /\ Refuse("Ok")
       \/ result.push # "PUSHED" /\ Record("VERIFYING") /\ Goto("proveCommit")

\* Mutant: HEAD is not compared with the accepted one.
RecoverOnAnyHead ==
    /\ result = NoResult
    /\ \/ stage \in {"COMMITTED", "PUSHING", "PUSHED"} /\ Refuse("Ambiguous")
       \/ stage \in {"STAGING", "STAGED", "COMMITTING"} /\ Goto("proveIndex") /\ UNCHANGED recordVars
       \/ stage \in {"NONE", "VERIFYING"} /\ Goto("publish") /\ UNCHANGED recordVars

RecoverWithoutCommit ==
    /\ result = NoResult
    /\ \/ (head # accepted.head \/ stage \in {"COMMITTED", "PUSHING", "PUSHED"}) /\ Refuse("Ambiguous")
       \/ /\ head = accepted.head
          /\ \/ stage \in {"STAGING", "STAGED", "COMMITTING"} /\ Goto("proveIndex")
             \/ stage \in {"NONE", "VERIFYING"} /\ Goto("publish")
          /\ UNCHANGED recordVars

Enter ==
    /\ pc = "enter"
    /\ \/ ~Recovering /\ Goto("publish") /\ UNCHANGED recordVars
       \/ /\ Recovering
          /\ \/ stop /\ Refuse("Stopped")
             \/ ~stop /\ ~IsCompleteForPublication(accepted) /\ Refuse("Incomplete")
             \/ /\ ~stop /\ IsCompleteForPublication(accepted)
                /\ RecoverRecordedCommit \/ RecoverWithoutCommit
    /\ Quiet

ProveCommit ==
    /\ pc = "proveCommit"
    /\ \/ RecordedCommitIsProven /\ UnlessStopped("PUSHING", "push")
       \/ ~RecordedCommitIsProven /\ Refuse("Ambiguous")
    /\ Quiet

\* Mutant: an index that already holds the change is not recognised.
ProveIndexUnstaged ==
    /\ pc = "proveIndex"
    /\ \/ VerifyBeforeStaging = "Ok" /\ UnlessStopped("STAGING", "addAgain")
       \/ VerifyBeforeStaging # "Ok" /\ Refuse("Ambiguous")
    /\ Quiet

\* Mutant: what cannot be proven is tried again.
ProveIndexForever ==
    /\ pc = "proveIndex"
    /\ \/ VerifyBeforeStaging = "Ok" /\ UnlessStopped("STAGING", "addAgain")
       \/ VerifyBeforeStaging # "Ok" /\ Goto("enter") /\ UNCHANGED recordVars
    /\ Quiet

\* Either nothing was staged yet, or the index already holds exactly the
\* accepted change.
ProveIndex ==
    /\ pc = "proveIndex"
    /\ \/ VerifyBeforeStaging = "Ok" /\ UnlessStopped("STAGING", "addAgain")
       \/ VerifyBeforeStaging = "Incomplete" /\ Refuse("Incomplete")
       \/ VerifyBeforeStaging = "Changed" /\ StagedIsAccepted /\ UnlessStopped("STAGED", "toCommit")
       \/ VerifyBeforeStaging = "Changed" /\ ~StagedIsAccepted /\ Refuse("Ambiguous")
    /\ Quiet

-----------------------------------------------------------------------------
\* Any Git command and any write of state.json may fail: a hook refuses the
\* commit, the branch is not the configured one, the remote is missing.  While
\* the index is being proven, a failed read of the staged change is ambiguous.
GitCommandFails ==
    /\ pc \in PublisherSteps
    /\ \/ Refuse("Error")
       \/ pc = "proveIndex" /\ VerifyBeforeStaging = "Changed" /\ Refuse("Ambiguous")
    /\ disturbed' = TRUE
    /\ UNCHANGED <<repoVars, reviewed, writes, stop>>

PublisherStep ==
    \/ BeginPublish \/ VerifySnapshot \/ CheckHead \/ BeginCommit
    \/ StageAll("add", "verifyStaged") \/ StageAll("addAgain", "verifyAgain")
    \/ VerifyStaged("verifyStaged", "checkHead") \/ VerifyStaged("verifyAgain", "toCommit")
    \/ CommitStaged \/ RecordNewCommit \/ RecordCommitted
    \/ BeginPush \/ PushAccepted \/ PushRejected \/ RecordPushed \/ FinishPush
    \/ Enter \/ ProveCommit \/ ProveIndex
    \/ GitCommandFails

RequestStop ==
    /\ pc \in PublisherSteps
    /\ ~stop
    /\ stop' = TRUE
    /\ UNCHANGED <<repoVars, recordVars, historyVars, pc, outcome>>

\* The outcome becomes the job's terminal status; the publication is over.
Settle ==
    /\ pc = "returned"
    /\ pc' = "over"
    /\ UNCHANGED <<repoVars, recordVars, historyVars, stop, outcome>>

\* The process dies, or leaves the job paused at the safe point that follows
\* the publisher's return.
Crash ==
    /\ pc \in PublisherSteps \cup {"returned"}
    /\ pc' = "down"
    /\ outcome' = "None"
    /\ stop' = FALSE
    /\ writes' = 0
    /\ UNCHANGED <<repoVars, recordVars, reviewed, disturbed>>

Resume ==
    /\ pc = "down"
    /\ pc' = "enter"
    /\ UNCHANGED <<repoVars, recordVars, historyVars, stop, outcome>>

OutsideEdit ==
    /\ pc = "down" \/ (ConcurrentEditor /\ pc # "over")
    /\ Edit
    /\ disturbed' = TRUE
    /\ UNCHANGED <<recordVars, reviewed, writes, stop, pc, outcome>>

\* One commit exists, the remote has it, and the files are in any state the
\* Executor may have left behind.
Init ==
    /\ \E c \in Content : commits = <<[content |-> c, parent |-> 0, by |-> "other"]>>
    /\ head = 1
    /\ remote = 1
    /\ index \in Content
    /\ tree \in Content
    /\ accepted = Capture
    /\ stage = "NONE"
    /\ result = NoResult
    /\ stop = FALSE
    /\ pc = "enter"
    /\ outcome = "None"
    /\ reviewed = tree
    /\ disturbed = FALSE
    /\ writes = 0

Next == PublisherStep \/ RequestStop \/ Settle \/ Crash \/ Resume \/ OutsideEdit

Spec == Init /\ [][Next]_vars

\* The process takes its next step: it is never stuck in the publisher.
FairSpec == Spec /\ WF_vars(PublisherStep) /\ WF_vars(Settle)

-----------------------------------------------------------------------------
(* Properties.                                                             *)

TypeOK ==
    /\ RepoTypeOK
    /\ accepted \in Snapshot
    /\ stage \in Stages
    /\ result \in [sha : Nat, push : PushStatuses]
    /\ stop \in BOOLEAN
    /\ pc \in PublisherSteps \cup {"returned", "over", "down"}
    /\ outcome \in Outcomes
    /\ reviewed \in Content
    /\ disturbed \in BOOLEAN
    /\ writes \in Nat

LyasCommits == {c \in DOMAIN commits : commits[c].by = "lya"}

\* Whatever crashes, retries and outside edits between two processes happen,
\* every commit Lya makes holds exactly the files the Supervisor accepted, on
\* top of the HEAD it accepted them on: no second commit on top of a first one,
\* nothing a person left in the tree or in the index swept in.
OnlyReviewedIsCommitted ==
    \A c \in LyasCommits : commits[c].content = reviewed /\ commits[c].parent = accepted.head

\* A content whose capture was truncated or binary was not reviewed in full and
\* is never committed by Lya.
OpaqueIsNeverCommitted == \A c \in LyasCommits : commits[c].content \notin Opaque

\* What the job's record says is pushed is the remote's branch.
PushedIsOnRemote == result.push = "PUSHED" => remote = result.sha /\ result.sha \in LyasCommits

\* The remote only ever moves to a commit that is already recorded in the job's
\* state, so a crash after "git push" never loses track of what was published.
RemoteMovesToRecordedCommit == [][remote' # remote => result.sha = remote']_vars

\* Once a commit is recorded Lya never makes another one, not even when somebody
\* edits the repository at the same time.
RecordedCommitIsFinal == [][LyasCommits' # LyasCommits => result = NoResult]_vars

\* Both together: what is on the remote, and which commit is the job's, is never
\* lost track of.
CommitIsTracked == RemoteMovesToRecordedCommit /\ RecordedCommitIsFinal

\* After a stop was requested at most the Git write already under way is made.
StopBoundsWrites == writes <= 1

\* An interrupted publication is only handed to a human for a reason: an outside
\* edit or a failed read, a commit no record describes, or a change that was
\* already staged when it was reviewed.  Every other crash is recovered.
AmbiguityHasACause ==
    outcome = "Ambiguous" =>
        disturbed \/ accepted.staged \/ (LyasCommits # {} /\ result = NoResult)

\* The publisher returns, unless its process dies first.
PublicationReturns == pc \in PublisherSteps ~> pc \in {"over", "down"}

===============================================================================
