# A verification project for Lya

Lya drives autonomous coding jobs: a *Supervisor* (a language model) reviews a
Git repository and decides, an *Executor* (Claude Code) edits it, and when the
Supervisor accepts, Lya may commit and push the accepted change. Jobs survive
crashes, pauses and provider quotas; a scheduler runs several of them, inside
one command or inside a daemon that clients submit to, watch and control. This
directory holds TLA+ modules for these parts, TLC configurations for small
instances, and TLAPS proofs for all instances.

Paths below are relative to the repository's root.

## 1. Inventory

| part | source | state | operations | hard behaviour |
|---|---|---|---|---|
| repository capture | `src/orchestrator/repository.rs` | none: a snapshot of HEAD, status, diff, untracked files | `collect`, `is_clean`, `is_complete_for_publication` | "git diff" shows the working tree against the *index*; captures are truncated at a limit |
| guarded publication | `src/orchestrator/publisher.rs` | the recorded stage and commit, the repository, the remote | `publish`, `recover` | a crash between any two Git commands; a person editing meanwhile; a push whose answer is lost |
| autonomous job | `src/orchestrator/job.rs` | `JobState` in memory and in `state.json` | `run`, `resume`, `drive`, `publish`, `safe_point`, `stop`, the parks, the chain of follow-up jobs | crash and resume at every step, stop and pause at every safe point, failing events |
| resume plan | `src/orchestrator/resume.rs` | none | `ResumePlan::for_job`, `select_job` | must continue every record a crash can leave |
| job state | `src/orchestrator/state.rs` | one `state.json` per job | `save_job`, `load_job`, `load_all`, `migrate_legacy` | replaced as a whole by a rename; two processes that migrate |
| job control | `src/orchestrator/control.rs` | two flags and a channel | `send`, `request_stop`, `next`, `drain` | the flag is set before the command is queued; who still holds a sender |
| scheduler | `src/orchestrator/scheduler.rs` | queue, active repositories, admission flag, senders, results | `submit`, `close`, `worker`, `execute`, `request_stop` | several tasks, several locks and flags, a version counter to wait on |
| locks | `src/orchestrator/{lock,repository_lock}.rs`, `src/daemon/lock.rs` | lock files, `daemon.json` | acquire, probe, release | several processes over one home directory; a probe takes the lock for a moment |
| inventory, job files | `src/orchestrator/{inventory,batch}.rs` | none | list, select, read a file of jobs | unreadable records; the listing must agree with what a resume accepts |
| daemon | `src/daemon/{server,runner}.rs` | connections, the scheduler it owns | submit, control, attach, status, stop, recovery at start | shutdown while requests arrive; connections that stall |
| live events | `src/daemon/{attach,events}.rs` | one broadcast channel per job | subscribe, replay, join | replay and live stream must meet without gap or duplicate |
| transport, protocol, client | `src/daemon/{transport,protocol,client}.rs` | a buffer per connection | frame, encode, decode, wait for the daemon | reads that end anywhere, messages over the limit, another version |
| job events | `src/orchestrator/events.rs` | `events.jsonl` | append, render | a failing or torn write; texts of several lines and several jobs on one terminal |
| providers | `src/orchestrator/{supervisor,executor}.rs`, `src/process.rs`, `src/process/tree.rs` | child processes, output files | decide, execute, cancel, classify | cancellation of a process tree; a helper that outlives its parent; a stale output file |
| command line | `src/main.rs` | — | parsing, dispatch, migration, interrupt handler | the same work given in several ways must mean the same |
| local agent | `src/{agent,runtime}.rs`, `src/llm/`, `src/tools/` | conversation, workspace | chat loop, tools | links that lead out of the workspace; calls written as text |
| transport security | `src/daemon/security.rs` | none | permissions, peer identity | — |

How they interact: the command line or a scheduler's worker builds one
`AutonomousOrchestrator` per job and calls `run` or `resume`. It calls the
Supervisor and the Executor (child processes), captures the repository, persists
the job after every decision, and calls `GitPublisher::publish` or `::recover`,
which calls back (`PublishProgress`) to persist each stage and each commit. A
person's commands reach it through the control channel. A scheduler gives each of
its workers the first queued job whose repository no other worker has; the daemon
owns one scheduler and hands it submissions. Every event of a driven job goes to
its log and then to a broadcast channel on which attached clients watch. Lock
files keep the processes that share one `LYA_HOME` apart.

What makes each part correct is stated in the modules, next to the properties;
what is hard to test is the list `hazards` of `PROJECT.json`.

## 2. Modules

| module | models | extends |
|---|---|---|
| `Repository` | the three trees of a repository, its commits and its remote; what one capture sees; the Git commands Lya and others run | |
| `Publication` | `GitPublisher` step by step, crash, resume, outside edits | `Repository` |
| `Job` | `AutonomousOrchestrator`, `ResumePlan`, the record on disk; the publisher's steps are those of `Publication` | `Publication` |
| `Control` | the control channel, the instructions of a person, the chain of jobs | |
| `Scheduler` | queue, workers, admission, graceful stop | |
| `WorkQueue` | the abstract promise: at most so many slots, one job per repository at a time and in order | |
| `Claims` | repository claims and job locks of several processes, and the record under them | |
| `Home` | the commands of `lya` as processes over one home; the daemon's life and its instance lock | `Claims` |
| `Attach` | a driver's events, the log, the broadcast channel, an event stream | |
| `Connection` | the daemon's connections and requests around those streams | `Attach` |
| `Provider` | a provider call: process tree, cancellation, timeout, pipes, output file, result | `Decision` |
| `Decision` | a Supervisor's answer and the classification of failures (operators) | |
| `Workspace` | paths, links and the file tools (operators) | |
| `Agent` | the chat loop over a workspace | `Workspace` |
| `Wire` | JSON lines over a byte stream (operators) | |
| `Narration` | how events are rendered (operators) | |
| `Arguments` | command lines (operators) | |
| `Submission` | the work a command line or a job file means (operators) | `Arguments`, `Inventory` |
| `Inventory` | atomic writes, listing, selection (operators) | |
| `Induction` | lemmas: induction in first-order form, and what the folds of the community modules compute | |
| `JobProofs`, `SchedulerProofs`, `ControlProofs`, `ProviderProofs` | theorems and their proofs | the module of that name (`JobProofs`: `Publication` too) |
| `HomeProofs`, `ConnectionProofs`, `AgentProofs` | theorems and their proofs, also about the operators of `Arguments`, `Submission`, `Inventory`, `Wire` and `Narration` | `MCHome`, `MCConnection`, `MCAgent`; `Induction` |
| `MCPublication`, `MCJob`, `MCScheduler`, `MCConnection`, `MCHome`, `MCProvider`, `MCAgent`, `MCControl` | instances for TLC | |

Operators whose comment starts with "Mutant" are deliberately wrong variants of
the definition that follows them: `PROJECT.json` lists which property each one
breaks. They are not part of any specification.

### Repository

A `Content` is the state of all files. A commit is a record of content, parent
and author; its position in `commits` is its SHA. `Capture` keeps the one
asymmetry of `RepositoryState::collect` that publication depends on: the diff is
taken between working tree and index, so what is already staged only shows as a
flag. Files whose capture is truncated or binary are the `Opaque` contents: two
of them look the same in a capture.

### Publication

`pc` names the next statement of the publisher; every Git command and every
durable write is a step, so a `Crash` may fall between any two. `stage` and
`result` are what `JobPublicationProgress` persists (`record`, `record_commit`).
`GitCommandFails` stands for every failing command or write: hooks, a wrong
branch, a missing remote, a full disk. `PushRejected` covers the push that
reached the remote although its answer was lost. `OutsideEdit` is a person who
edits, stages, commits or resets: always while no process runs and, if
`ConcurrentEditor`, at any time. `reviewed`, `disturbed` and `writes` are history
variables that only properties read. A record write that fails leaves memory and
disk apart in the code for the rest of that process, which then only returns an
error; the model keeps the one value that survives, the one on disk.

### Job

`disk` is `state.json`, replaced as a whole by `Save`; `job` is the record in the
memory of the process. `accepted` (memory) and `saved` (disk) are the accepted
snapshot. `pc` is `safe` at a safe point, with `after` telling where the code
goes from there. Providers answer anything (`SupervisorAnswers`,
`ExecutorReturns`, `ExecutorAnswersError`), and the Executor may edit the
repository in any way before it answers (`ExecutorWorks`). `closing` is the time
between the last write of a job and the end of its process, in which the events
that report the outcome are emitted; `EventFails` is `emit`'s error path, which
persists `FAILED`. `publish` of the record is the persisted `RunConfiguration`.
Instructions, sessions and the chain of jobs are in `Control`.

### Control

`queue` is the mpsc channel, `sending` the command whose flag a sender has stored
and that it has not queued yet, `holders` the senders somebody still holds: when
the last one is gone a paused job ends (`LeavePaused`). `Drain`, `TakeNext`,
`Handle` and `Apply` are the parts of a safe point; instructions are applied to
the record within `MaxActive` and `MaxBytes`. `request` is the list a turn was
started with. `Settle`, `NextJob` and `Ends` are `continue_sequentially`. What a
provider decides is left to `Job`: a turn only matters here for its instructions.

### Scheduler and WorkQueue

Every separate acquisition of a lock, load of an atomic and await is a step of a
worker (`at`); the load of the stop flag and `mark_unchanged` behind it are two, since
a stop, the close and their announcement may fall between them. Only what a worker does
once it has seen the stop is one step with the load. `unseen` is the watch
channel: the workers whose receiver has a version it has not seen; `announce_progress` fills it, `mark_unchanged` and
`changed` remove one worker. The driver of a job is reduced to what it writes:
`RUNNING`, then a final or parked record, or nothing at all if it refuses. A lock
held by another process is a `Claim` that fails. `Mode` tells the owner: a batch
(`Scheduler::run`) or the daemon (`Scheduler::serve`, then `request_stop`, then
`close`). `results` holds a job's outcome from the moment its worker knows it;
the code pushes it into the shared list when the repository is released, and
reads that list only when every worker has ended. Left out: failures of the event
sink, which only change what `drive` returns, and a failing write of
`settle_failed_queued_state`, which is best effort in the code.

### Claims and Home

`Claims` has the way from an accepted entry to a driven job: `phase` says how far
a process is with a job, `mode` whether it starts it, resumes it by reading the
record again under the locks, or drives the `snapshot` that `lya resume` read
before it claimed anything. A lock belongs to a handle and dies with its process.
`Home` adds the commands (`cmd`, `pc`), the migration of an old `state.json`, the
daemon's claim, endpoint and metadata, its recovery (`RecoverQueued`, `Probe`,
`ProbeReturns`, `RecoverInterrupted`), its shutdown, and `lya daemon stop`, which
polls until the daemon is gone. A process may die at any step.

### Attach and Connection

A driver runs a job and possibly its successor. An event is appended to the log
(which may tear the line), is `pending`, and is then broadcast to every subscribed
`inbox` of bounded `Capacity`; a full one is `missed`. A session records where a
connection is and what it has `shown`: load, subscribe, read the log, replay
through the bounded guard, join the live stream. `Connection` adds the accept
loop, the handshake timeout, the requests, clients that vanish or stall, and the
daemon's exit.

### Provider and Decision

One call at a time, on either platform. `at` follows `ProcessSpec::run`: spawn,
claim the tree, listen, wait, terminate, collect the pipes; `cancelled` is set in
two steps (flag, then notification). A `helper` may be inside the tree, outside
it, or hold no pipe. `output` is the call whose decision the output file holds.
`Decision` reads an answer (`Accepted`), persists it and reads it back, and tells
a quota from other failures.

### Workspace and Agent

The workspace is any directory graph over `Names` with links that may lead out of
it; `Walk` resolves a path as `canonicalize` does, and each tool is an operator
on the file system. A tool's check of a path and its use are one step: what somebody
else changes between the two is not modelled. `Agent` runs the loop: ask, read the calls
(native, or Qwen's text notation), run them, answer each. A command that is run may do
anything. A text call is read as the code reads it: every line of a value is trimmed
(`Trim`), and a call without parameters is not a call.

### Wire, Narration, Arguments, Submission, Inventory

Pure code, translated to operators and checked over all inputs of a bounded
domain. Their properties start with `Init =>` in the MC modules, so that TLC
evaluates them once. `Wire`: a byte is a name, a stream may be cut after any byte
and be read in chunks that end anywhere. `Narration`: a text is a sequence of
characters, a block a sequence of lines with an indentation and a job prefix.
`Arguments`: a command is a grammar, its parser a fold over the line; `Dispatch` and
`Understood` take whole command lines, with the commands that read no options at all
(`supervisor`, the text of `control ... send`, the prompt of the local agent).
`Submission`: what is run, submitted or read from a file, in the shell's or in the
daemon's directory and environment. `Inventory`: a write that dies or fails after
any of its steps, and what is then listed and chosen.

## 3. Runs

| run | instance | states | what it shows |
|---|---|---|---|
| `publication` | 3 contents, one of them opaque, 3 commits | 416k | only the reviewed, complete change is committed, once, and pushed before it is recorded as pushed; a stop bounds the writes; every ambiguity has a cause; the publisher returns |
| `job` | 2 contents, 2 iterations, events may fail | 1.6M | every record can be continued and is within its iterations (`RecordIsSound`), PUBLISHED means published, a recorded commit is owed, no run is replayed, an outcome changes only to FAILED by a failing event, a stop ends the process |
| `job_event_fault` | 1 iteration, events may fail | – | *violation*: a decided outcome is rewritten as FAILED |
| `control` | 1 client and the interrupt handler, 3 requests, 3 instructions, 2 jobs, 1 crash | 905k | instructions keep their order, their limits and their turns; a chain starts no more jobs and a stop lets start no more turns than allowed; a resume ends a pause and a stop ends the chain in every order of flag and command |
| `control_carried` | 1 request, no crash | – | *violation*: an instruction reaches the next job of the chain |
| `scheduler_batch` | 2 workers, 3 jobs, 2 repositories | 893k | exclusion, no work lost or doubled, refinement of `WorkQueue`, a stop reaches every job, a batch ends |
| `scheduler_serve` | 2 workers, 2 jobs of one repository, one a resume | 620k | the same under submissions, then stop and close; a job that was accepted is driven unless a stop comes, and after a stop every driven job is shut down and its repository released. That the scheduler ends is not among it (see `scheduler_stop_hangs`) |
| `scheduler_stop_hangs` | as `scheduler_batch` | – | *violation*: a stopped batch may never end; with `Mode = "daemon"` the same instance shows it of the daemon |
| `home` | 2 processes, 2 jobs of one repository, 3 commands, 1 crash | 410k | one driver per repository and job, the serving daemon is the known one, "stopped" means gone, finished jobs are left alone, a shutdown completes once the scheduler has ended; and the operators of `Submission`, `Arguments` and `Inventory` |
| `connection` | 1 client, 4 events, 1 crash | 554k | a viewer sees every event once and in order or is cut off; a running chain can be controlled; streams and silent connections end; a job never waits for a viewer; and the operators of `Wire` and `Narration` |
| `provider` | 2 calls, 1 crash, both platforms | 165k | nothing outlives a kill, a result is of its own call, a cancelled call ends; and the operators of `Decision` |
| `agent` | 2 names, 2 spare directories, 2 rounds of 2 calls | 524k | tools stay in the workspace, what was written is read, each call is answered once, a call written as text is made with exactly its parameters, and is missed if it has none; the run ends |

The violations are the `findings` of `PROJECT.json`; each quotes the sentence of
the repository it contradicts.

Several properties are conjunctions of named parts (`WorkIsAccountedFor ==
NoWorkIsLost /\ HeldOnce /\ FailureIsOnDisk`); the parts carry their own comments,
and there is a mutant for each part that can go wrong by itself.

Why the bounds are enough. Three contents are the files of the first commit,
the reviewed ones and those somebody else leaves there; in `publication` one of
them is opaque, for the truncated capture. Three commits allow the initial one,
Lya's and one of somebody else in either order. Crashes of a publication and of a
job are not bounded. Two iterations allow a first run and a correction with its
session. In `control`, three instructions, one of which counts double, meet both
limits of 2, the second job is the last that `MaxJobs` allows, and the
interrupt adds a stop to what the client asks. `MaxBacklog = 1` lets the client
send when the channel is empty; the interrupt's stop and a command whose flag was
stored earlier still queue behind another one. Two workers and three jobs, two of
them for one repository, let one worker be blocked, one be driving and one entry be
waiting. In `home` any two commands meet, a third one is given after one of them
ended or died, and `MaxRequests = 2` is passed by files of three lines. In
`connection` a guard of one, a replay of two and a channel of three stand in the
order of the code's 256, 500 and 1024, and four events fill each of them, with the
next one still open; viewers only share the channel, from which each has its own
queue. `MaxMessageBytes = 5` and `Shown = 2`
lie within the texts that are enumerated. Two calls are what it takes for one to
leave something to the next. Two spare directories make paths of two components
through a directory that was just created or is a link.

Deadlock is not checked: a publication that is over, a job with an outcome, a
scheduler whose workers have ended and a home in which no more commands are given
rightly stop.

Fairness. A process that is not killed takes its next step: weak fairness of the
publisher's, the driver's and each command's own steps. Providers need not answer
and people need not do anything; a stop ends a provider call by cancellation,
which the process runner does without the provider's help (`provider` checks that).
In the scheduler every task that can run does, and a driven job ends sooner or
later; nobody has to submit or to stop. In `Connection` the driver and the
daemon's tasks go on and the handshake timeout expires; clients need not do
anything. In `Provider` Lya's steps, the notification of a cancellation and the
timeout are fair, the child and its helpers are not. In `Control` the driver and a
sender that has stored its flag go on; a turn only ends for certain when a stop is
requested. `Agent` assumes that the model server answers, since the code sets no
timeout for it.

## 4. Proofs

All theorems hold for every value of the constants that the named assumptions
allow. They are checked by TLAPS with the SMT, Zenon and LS4 back ends. Every safety
property of a run that speaks of the states or the steps of a specification is a
theorem; where a run checks an invariant, the inductive invariant that proves it was
checked on the same instance first. A leaf that takes a back end more than about two
seconds names it and allows it a minute (`SMTT(60)`, `ZenonT(60)`), so that the proofs
also check on a machine that is slow or busy.

`Induction`

* The provers are first-order: they cannot instantiate the library's induction theorems,
  which take an operator. Induction is stated about sets instead: a set that has 0 and
  with every number its successor has all of them (`SetInduction`, `SetInductionUpTo`;
  from the library's well-foundedness of strict inclusion). A proof puts the numbers for
  which its claim holds into a set.
* A fold over a sequence is a recursive function on sets of positions. `FoldExists` shows
  that there is such a function, `ChosenFolds` and `Folding` that the one `FoldLeft`
  chooses takes one step after another, `FlattenIs`, `FlattenAppend` and `FlattenConcat`
  the same for `FlattenSeq`. What a fold computes for inputs of any length rests on these.

`JobProofs`: the publication

* `TypeCorrect`. Inductive invariant: `TypeOK` and `ParentsPrecede` (a parent is an
  older commit; otherwise a branch that moves back could leave the history).
* `CommitsAreReviewed`, `CommitsAreComplete` (assuming `~ConcurrentEditor`). That
  every commit holds the reviewed files on the accepted HEAD is not inductive: a
  commit is right because of what was proven steps, or a whole process, earlier.
  `Reviewed` adds what each step may rely on (`Proven`: the accepted capture is
  complete, HEAD is the accepted one, the staged change is the accepted one) and
  that the accepted capture shows the reviewed files (`AcceptedIsReviewed`). The
  central lemma, `StagedIsReviewed`, says that equal complete diffs determine the
  staged files. The assumption is needed: see the first deviation in section 5.
* `RecordedCommitIsTheLast` (no assumption). `NothingRecorded`: no step on the way
  to a commit is taken once a commit is recorded.
* `PushedCommitsAreOnRemote`, `RemoteIsRecorded` (assuming `~ConcurrentEditor`).
  `Tracked`: between its record and the record of its push the commit is what the
  branch points to, and the remote has it before the record says so.
* `CommitsAreTracked` joins the two action properties: it is `CommitIsTracked` of
  the run `publication`.
* `StopEndsWriting` (no assumption): also with a person who edits all the time, at
  most the Git write under way follows a stop. `StopCounts`: one write was made at
  most, and none where the next step writes without looking at the stop.
* `AmbiguityIsExplained` (no assumption): a publication that nobody disturbed is
  never reported as ambiguous. That takes all an undisturbed process finds, in every
  state a crash can leave: `Explained` says of each step whether the commit is made
  and recorded (`ReadyToCommit`, `Committed`) and what the index, HEAD and the files
  are then.

`JobProofs`: the job (whose publication is the same publisher: the lemmas about the
publisher's steps serve both)

* `JobsAreTyped`, `RecordsAreSound`, `CommitsAreOwed`. `RecordInv` says of every step
  what is pending (`Located`), that the record on disk is the one in memory but for an
  acceptance that is not saved yet (`Mirrored`), that it is `Continuable`, that the
  iteration under way has no recorded run (`Counted`) and that a commit of Lya is owed
  until the job is over (`Owed`). With these a crash at any step leaves a record that
  `ResumePlan::for_job` accepts and that stands for what was done.
* `RunsAreNotReplayed`, `OutcomesAreFinal`: action properties, from the same
  invariant.
* `PublishedIsReviewed`, `JobsCommitWhatWasReviewed` (assuming `~ConcurrentEditor`):
  `ReviewInv` carries what a publication has proven through the whole job, its parks
  and its resumes.

`SchedulerProofs` (assuming finitely many workers)

* `TypeCorrect`, `RepositoriesAreExclusive`. `RepositoryExclusion` needs
  `OwnersAreActive`: the repository of every worker that holds an entry is in
  `active`, so nobody can take it again.
* `StopIsNeverLost`. `Findable`: from its registration on a job's sender is found by
  `request_stop`; whichever of the two looks second sees the other.
* `NoWorkIsLostOrDoubled`. `Ledger`: every admitted job waits once, or is held once,
  or has a result; what waits is recorded as it was accepted; what failed was settled
  before it is released.
* `SchedulerIsAWorkQueue`: the refinement of `WorkQueue`. The promise that jobs of one
  repository run in the order they were queued needs `InOrder`: what waits for a
  repository is behind the one that is held, whatever was queued in between.
* `WorkQueuesKeepTheirPromise`: whatever is a `WorkQueue` never has more jobs running
  than slots, and a job of it runs or is done only when all of its repository that were
  admitted before it are done, also when jobs are put back. `Sound` adds to that that
  every admitted job is in the order once: an order with repetitions would let a job
  overtake itself. `TheSchedulerKeepsThePromise` gives it to the scheduler through the
  refinement. No run checks it by itself: it follows from `ImplementsWorkQueue`.

`HomeProofs`

* `TheDaemonIsKnown`. `DaemonHas` says of every step of a daemon what it already has
  of claim, endpoint and metadata, `AskedIsThere` that who waits for a daemon waits for
  one that still holds its claim.
* `OneDriverForEach`. `LocksAreHeld`: two drivers would hold one lock. It needs that a
  probe holds the lock it tries (`ProbingHoldsTheJob`), or it would give back somebody
  else's.
* `FinishedJobsStayFinished`: an action property. `MigratedFirst`: nothing was driven
  as long as an old `state.json` is there, or a migration could pick up a job that
  another process has finished.
* `AnyListingAgrees`, for any number of jobs and whatever their records hold: what `lya
  jobs` calls resumable is what `lya resume` continues. `SortedIs`: finitely many jobs
  have exactly one order by time and identifier, so that the two commands, which sort
  different sets, mean the same job. `AnyRecordSurvives`, for any number of saves that
  return, fail or die at any step. `JobsAreAlwaysFound` applies both to the instance the
  run evaluates.
* `AnySubmissionMeansRun`, for lines of any length and any environment, without
  `--verbose` and `--file`, which only one of the two commands has: the grammars of `lya
  run` and `lya submit` read such a line alike (`SameArgument`, `SameScan`), and a
  resolved job that has a task passes the daemon, its restart and its driver with
  nothing changed but the blanks around the task (`SubmittedOne`, `AllDelivered`).
* `AnyFileMeansTheSame`, for job files of any lines. What has been read of a file is
  either refused, for good, or a list of at most `MaxRequests` resolved requests with
  tasks (`FileFold`), so that nothing the daemon checks again can fail but the Git
  settings, which fail for both commands alike.
* `AnySubmissionIsAnswered`: that picking by a property and changing each element
  commute with appending (`PickedByAppend`, `MappedAppend`) gives the order of the
  answers for any jobs.
* `AnyStartIsForwarded`, `AnySentIsTyped`, `AnyMistypedIsRefused`, `AnyMachineIsPrepared`:
  any line, any words, any machine. `AnyMistypedIsRefused` is about whole command lines:
  where options are read, a mistyped one starts nothing; the commands that read none take
  it as part of their text, exactly as it was typed, and do start (deviation 24). A
  mistyped option that stands where another option takes its value is that value, so
  the theorem is about lines without such options.
* `WorkAlwaysMeansTheSame` applies these theorems, and `AnyExecutorMeansRun` on what
  `lya executor` and `lya run` both accept, to the instance the run evaluates.

`ControlProofs`

* `WhatIsSentIsKept`. The instructions on their way, from the record through the
  driver's memory to the channel (`Everywhere`), are in the order in which they were
  sent, each at most once; what was heard is applied before anybody passes the safe
  point (`HeardIsApplied`).
* `ChainsAreBounded`. `TurnsAreCounted`: who is past a safe point passed it before the
  stop, and did not start yet. The record's place in the chain is the number of jobs
  that were started (`RecordTypes`).

  Assumptions: the script of a client names no instruction twice (two instructions
  with the same text are two), and an instruction is no other command.

`ConnectionProofs` (assuming finitely many clients, and `GuardCapacity < MaxReplayed`,
256 and 500 in the code)

* `StreamsAreExact`. For every viewer there is, at every point of its connection, an
  account of which events it was shown, which its replay still has to write, which are
  in its channel, and which of those the guard will suppress (`ReplayOk`, `LiveOk`,
  `InboxOk`); and of the log, which has every event that is not lost, in order
  (`ChainOk`). The subscription comes before the log is read, so that these overlap;
  the proof is that the overlap is in the guard as long as it fits. Where it does not
  the code shows events twice, or late (deviation 16): `EventsAreShownOnce` and
  `NothingIsSkipped` name that condition.
* `ChainsAreControllable`: a running chain is in the daemon's table.
* `RequestsAreServed`, `AnswersAreTaken`, for any number of messages with texts of any
  length, a stream that ends after any byte and any reads. The reader's state after `k`
  bytes is determined by the messages before byte `k` and by what of the next one was
  read (`AllIsRead`); an encoded text has no line feed of its own, and decoding it gives
  it back.
* `ABlockShowsOrSaysSo`, `EveryJobIsNamed`, `TheHistoryIsKept`, for any texts, any jobs
  that narrate in any order, and any events and failing writes. `EveryJobIsNamed`
  assumes that the characters a job's texts are made of tell the job (`Separate`): that
  is how the formula knows whose text a line shows.
* `StreamsAreAlwaysUnderstood` applies these to the instance the run evaluates.

`ProviderProofs`

* `AKillLeavesNothing`. Between the kill and the end of the call the child does not run
  (`KilledIsEnded`), so that it can start no helper in the killed tree.
* `ResultsAreOfTheirCall`. `OneChild`, `OutputIsOurs`: the old decision is removed
  before the child is spawned, and after that only this call or one that outlived its
  Lya writes the file. What follows the process is `Decision`: a decision is read back
  as it was written (`DecisionsSurviveARestart`), and only a provider's diagnostics
  make a quota (`QuotaIsADiagnostic`).

`AgentProofs`

* `ToolsAreConfined`, for any directories and links and any calls. `FilesOk`: what is
  outside is as it was, and no file inside has a text from outside. That what was
  written is found again needs that no tool but the command changes a directory or a
  link that leads somewhere (`KeepsPlaces`) and that a path resolved as a whole and
  one resolved by its parent lead to the same place (`CanonicalIsStepwise`).
  Assumptions (`WorkspaceAssumption`): there is a name, finitely many directories,
  and the text of the outside file is none that is written.
* `ConversationsAreSound`. `RoundsOk`: each answer but the last is `Complete`, and the
  last has the results of all calls but those that are left.

* `AnyCallIsRead`: a call that a model writes as text is made with exactly its parameters,
  for any number of them and values of any lines, and of a repeated name the last. What
  arrives of a value is its `Essence`: without the indentation of its lines and the blank
  lines around it (`EssenceIs`). A call without parameters, and only that, is not read.
  `ParameterRead` is the step of the induction: what was read before a parameter has
  nothing to do with how it is read. `CallsAreAlwaysRead` is the instance of the run.

  A path has at most two components (`Requests`, a bound of the model): the folds of
  `Canonical` and `CreateDirectory` are unrolled.

What the proofs found. `CASE` guards that overlap are a choice that TLC always makes
the same way: `ControlAnswer`, `ParameterLine`, `Argument`, `Walk` and `Outcome` had
such guards and now state the order in which the code looks. That nothing is skipped
in a stream holds only as long as the guard is not outrun, which the proof attempt
showed for a replay longer than the guard and the property of the run now says.

Every invariant and every action property of the runs is proved. Only model-checked:
all liveness (under fairness, out of the prover's reach).

## 5. Known deviations

Besides the three findings, modelling met places where the code does something
else than a sentence of the repository says, or something a reader may not expect.
The models do what the code does; no property claims the opposite.

Publication and jobs

1. `publisher.rs:592`: the staged content is checked, then committed. What a person
   stages or edits in between is committed although `docs/git-publication.md:92`
   says "If the repository changed between review and publication, Lya refuses to
   publish it." (`ConcurrentEditor` in `Publication`.)
2. `job.rs:629`: the completed run is persisted before the repository is captured and
   that capture persisted (644). A process lost in between leaves the snapshot of
   before the run, and the resume, which finds a changed repository, parks the job
   for a human. `docs/persistence-and-recovery.md:196` says that "losing the process
   the moment the Executor returns" lets the resumed job continue "with a new
   review".
3. `job.rs:601`: a job that waits for the Executor's quota is persisted with the
   snapshot of before the run. If the Executor had edited a file by then, the resume
   parks the job for a human; `docs/autonomous-jobs.md:232` calls a quota "a parked,
   resumable state rather than a dead end".
4. `job.rs:1004`: a stop between commit and push persists STOPPED, which no process
   resumes, while `docs/git-publication.md:119` says that a later process can
   "continue at the push".
5. One unreadable `state.json` makes `load_all` fail: resume, the daemon's start and
   its status fail, while `lya jobs` lists the others.

Scheduler and processes

6. `scheduler.rs:1169`: the stop flag is looked at for the last time before the locks
   and the registration. A job whose worker is past that line still starts when the stop
   comes then, and is persisted as RUNNING and at once as STOPPED, which is not
   recovered;
   `scheduler.rs:191` says "no new job is started", `docs/scheduler.md:148` "Jobs
   that never started stay `QUEUED`".
7. Queued jobs are read without their locks, and `accept_one` (`scheduler.rs:835`)
   then writes the record as QUEUED again, over whatever another process made of it
   meanwhile; `lya resume` drives the record it read before it locked it. The "four
   situations" of `docs/scheduler.md:84` can be confused in that window.
8. `is_held` and the recovery of the daemon take a lock for a moment to look at it: a
   daemon or a `lya resume` started at that moment is refused.
9. A queued job refused because another process holds its repository stays QUEUED
   and is not tried again by that daemon.
10. `scheduler.rs:1152`: the queue and the admission flag are read one after the other;
    `scheduler_serve` shows that no accepted job is left behind in the window. Without
    a stop, that is: `scheduler.rs:987` says that `serve` resolves "once a graceful stop
    has been requested and the active jobs have shut down", and the finding of
    `scheduler_stop_hangs` holds of the daemon too. Between a worker's load of the stop flag (1113) and its
    `mark_unchanged` (1127) the daemon requests the stop, closes and announces
    (`server.rs:305`); the mark swallows that announcement, the worker finds the
    repository of the queued job taken and waits (1157), the other one gives its entry
    back without announcing it (1182), and the daemon's shutdown never ends.
11. `--resume-queued` replaces the limits a queued job was submitted with by those of
    the invocation; the daemon keeps them. Two processes that migrate an old
    `state.json` at once may both save a job.

Control

12. The Executor's request is built before one more safe point, so an instruction taken
    there waits for the following turn. An instruction left by a crash is applied
    only when another command arrives; one that is acknowledged but still in the
    channel is lost with the process.
13. The interrupt handler keeps a sender (`control.rs:151`), so a paused `lya run`
    whose input ended does not end.
14. A follow-up job of a chain cannot be controlled by its own name (`server.rs:587`).

Daemon and events

15. `runner.rs:82`: a viewer that passes `may_attach` and subscribes after the release
    of the channel waits until it leaves, against the comment above that line; the
    channel of a follow-up job is never released. `EndOfJobEndsStreams` is stated for
    those that were subscribed.
16. The guard against repeated events holds 256 while 500 are replayed. With more than
    256 events between subscription and read some are shown twice, and with more than
    500 the oldest come after newer ones; `attach.rs:15` says that the guard "keeps the
    join seamless", `attach.rs:150` that "remembering the tail is enough". A torn line
    of the log takes the next event with it.
17. `decode_request` parses a message before it looks at its version, so an unknown
    message of a newer client is INVALID_REQUEST. Answers are bounded when read, not
    when written; a request that is too long closes the connection without an answer.
18. Submissions that are rejected are answered first, with an empty `job_id`, not in
    the order they were submitted.
19. `lya scheduler --json` writes from two sinks with a mutex each and in several
    small writes: lines may interleave, against "one JSON object per line and nothing
    else" (`docs/scheduler.md:133`).
20. The second line of an error in the scheduler's output has no job prefix; long
    reasons are cut in verbose output too.

Providers and the local agent

21. After the child's end `ProcessSpec::run` waits for its pipes, also beyond the
    timeout (`docs/autonomous-jobs.md:87`: "a 120-second timeout"), when a helper
    outside the tree holds them.
22. On Unix a codex that outlives a killed Lya may write its decision into the file of
    the next review (`DecisionIsOfThisCall` names that case). An Executor that exits
    with 0 and reports an error is taken for a report.
23. Values in Qwen's notation lose the blank lines around them and the indentation of
    each of their lines (`ollama.rs:145`), so that a file written that way is not
    indented. A call without parameters, as all calls of `get_current_directory` are, is
    not recognised (`ollama.rs:186`), and its text is taken for the final answer. An
    answer with an empty list of calls does not end the run; there is no timeout for
    the model server; commands are not confined to the workspace. The file tools check a
    path and then use it (`filesystem.rs:168`): who changes a directory in between, a
    command left running for example, is not noticed, and the model has no such step.

Command line

24. `docs/cli-reference.md:3` says that "an unknown `--flag` is refused with the
    offending name and that command's usage line". `lya supervisor --brwser x` starts a
    Supervisor with the option in its task (`main.rs:856`), `lya --brwser` asks the local agent (`main.rs:203`), and
    `lya --help --brwser` ignores it. `MistypedOptionsAreRefused` names the three
    commands that read no options.
25. The help lists options that `scheduler` and `submit` refuse; the daemon trims a task,
    `lya run` does not.
26. `docs/autonomous-jobs.md:107` says that `ACCEPTED` and `PUBLISHED` are successful and
    "the other terminal statuses are not"; `is_successful_outcome` (`state.rs:86`) also
    counts `STOPPED`, besides `PAUSED` and the waits. No property is about
    exit statuses.

## 6. Not modelled

`src/daemon/security.rs` and the named pipes of Windows: access control and peer
identities of the operating system, without a state or an order of steps of Lya's.
Fixed wording, colours, times and table layout; prompt texts; what Git, the
providers and the model server do inside (they may answer anything). Where the home
directory is on Windows (`orchestrator/home.rs`: `USERPROFILE`, then drive and path), and what
somebody else changes between a file tool's check of a path and its use
(`filesystem.rs:168-241`). `Home` and `Connection` take the scheduler as ended once no
worker drives a job, so what keeps it from ending after a stop is seen in `Scheduler`
only. The unit tests inside the source files are not modelled either.

## 7. Plan

The model is complete in the sense of section 6, and every safety property of the
runs is proved. What could be added:

1. `Connection`: the account of a viewer whose guard was outrun, that is, exactly
   which events are shown twice or left out (deviation 16).
2. `Home` over `Job`: the records of `Claims` as an abstraction of those of `Job`.
3. What is left of `CommitsAreReviewed` and `PublishedIsReviewed` with a concurrent
   editor: which of the four conditions of a commit still hold.
