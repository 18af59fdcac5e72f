-------------------------------- MODULE Control --------------------------------
(***************************************************************************)
(* Job control: the channel of src/orchestrator/control.rs between those   *)
(* who command a job and the process that drives it, the safe points of    *)
(* src/orchestrator/job.rs at which it listens, the instructions of        *)
(* "/send", and the sequential chain of jobs that shares one channel       *)
(* (run_sequential, resume_sequential, continue_sequentially).             *)
(*                                                                         *)
(* A sender first stores a flag and then queues the command, so a safe     *)
(* point may see either of them without the other.  What a provider does,  *)
(* what the Supervisor decides and what the repository holds is module     *)
(* Job's; here a turn only matters for the instructions its request has.   *)
(***************************************************************************)
EXTENDS Naturals, Sequences, SequencesExt, FiniteSets

CONSTANTS
    Clients,        \* the typed-command reader, or the daemon's connections
    Script,         \* the instructions, in the order they are sent
    Large,          \* those of them that take two units of the byte budget
    MaxActive,      \* MAX_ACTIVE_USER_INSTRUCTIONS
    MaxBytes,       \* MAX_ACTIVE_USER_INSTRUCTION_BYTES
    MaxJobs,        \* RunConfiguration.max_jobs
    MaxTurns,       \* RunConfiguration.max_iterations
    MaxBacklog,     \* bounds the channel, which itself has no bound
    MaxRequests,    \* bounds the commands of the clients
    MaxCrashes      \* bounds the processes that die

\* An instruction is one message of one person: the same text sent twice is two.
ASSUME ControlAssumption ==
    /\ Script \in Seq(ToSet(Script)) /\ IsInjective(Script)
    /\ Large \subseteq ToSet(Script)
    /\ {MaxActive, MaxBytes, MaxJobs, MaxTurns, MaxBacklog} \subseteq Nat \ {0}
    /\ {MaxRequests, MaxCrashes} \subseteq Nat

VARIABLES
    pauseRequested, stopRequested,   \* ControlFlags
    queue,      \* the mpsc channel
    sending,    \* [sender -> the command whose flag is stored and that is not queued yet]
    holders,    \* the senders somebody still holds
    job,        \* the JobState in memory
    disk,       \* the JobState in state.json
    commands,   \* what the safe point took and has yet to handle
    after,      \* where the driver goes when the safe point lets it pass
    request,    \* the user_instructions of the request of the current turn
    pc,
    sent, requests, crashes,
    (* History variables, read by the properties only. *)
    order,      \* the instructions in the order they were queued
    given,      \* [instruction -> the job not yet finished then; 0 for none]
    heard,      \* the instructions this process took for the job and did not refuse
    due,        \* those of them heard when the current stage began
    wanted,     \* the last of "Pause" and "Resume" anybody asked for
    late,       \* turns started since a stop was requested
    started     \* jobs started in this chain

flagVars == <<pauseRequested, stopRequested>>
channelVars == <<flagVars, queue, sending, holders, sent, requests, order, given, wanted>>
driverVars == <<job, disk, commands, after, request, pc, heard, due, late, started>>
vars == <<channelVars, driverVars, crashes>>

Interrupt == "interrupt"
Senders == Clients \cup {Interrupt}
NoCommand == "None"
Instructions == ToSet(Script)
Plain == {"Pause", "Resume", "Stop", "Status"}    \* a Diff is a Status of the repository
Command == Plain \cup Instructions

ASSUME CommandAssumption == Instructions \cap (Plain \cup {NoCommand}) = {}

Resumable == {"RUNNING", "PAUSED", "PUBLISHING"}
Statuses == Resumable \cup {"PUBLISHED", "STOPPED", "FAILED"}

\* Of the JobState: what control changes, and the job's place in its chain.
NewJob(index) ==
    [status |-> "RUNNING", index |-> index, turn |-> 0, operation |-> "supervise",
     pending |-> <<>>, applied |-> <<>>]

Driving == pc \notin {"down", "over"}

-----------------------------------------------------------------------------
(* ControlSender.                                                          *)

\* Mutant: a resume is left to whoever takes the command.
StoreFlagForPause(s, c) ==
    /\ sending[s] = NoCommand
    /\ sending' = [sending EXCEPT ![s] = c]
    /\ pauseRequested' = (pauseRequested \/ c = "Pause")
    /\ stopRequested' = (stopRequested \/ c = "Stop")
    /\ wanted' = IF c \in {"Pause", "Resume"} THEN c ELSE wanted

\* send, first half.  A stop also cancels the running provider: the cancellation
\* and the flag are the same bit here.
StoreFlag(s, c) ==
    /\ sending[s] = NoCommand
    /\ sending' = [sending EXCEPT ![s] = c]
    /\ pauseRequested' = IF c \in {"Pause", "Resume"} THEN c = "Pause" ELSE pauseRequested
    /\ stopRequested' = (stopRequested \/ c = "Stop")
    /\ wanted' = IF c \in {"Pause", "Resume"} THEN c ELSE wanted

Flagged == {"Pause", "Resume", "Stop"}

\* What is in the channel stays there until a safe point, or a pause, takes it.
Queued(c) ==
    /\ queue' = Append(queue, c)
    /\ order' = IF c \in Instructions THEN Append(order, c) ELSE order
    /\ given' = IF c \in Instructions /\ job.status \in Resumable
                   THEN [given EXCEPT ![c] = job.index] ELSE given

\* send, second half.
Enqueue(s) ==
    /\ Driving
    /\ sending[s] # NoCommand
    /\ Queued(sending[s])
    /\ sending' = [sending EXCEPT ![s] = NoCommand]
    /\ UNCHANGED <<flagVars, holders, sent, requests, wanted, driverVars, crashes>>

\* A typed line, or a CONTROL message of the daemon's protocol.  A command
\* without a flag is queued in one step.
ClientSends(s, c) ==
    /\ Driving
    /\ s \in holders \cap Clients
    /\ Len(queue) < MaxBacklog
    /\ requests < MaxRequests
    /\ requests' = requests + 1
    /\ \/ sent < Len(Script) /\ c = Script[sent + 1] /\ sent' = sent + 1
       \/ c \in Plain /\ UNCHANGED sent
    /\ \/ c \in Flagged /\ StoreFlag(s, c) /\ UNCHANGED <<queue, order, given>>
       \/ c \notin Flagged /\ sending[s] = NoCommand /\ Queued(c) /\ UNCHANGED <<flagVars, sending, wanted>>
    /\ UNCHANGED <<holders, driverVars, crashes>>

\* start_control: the interrupt handler keeps its sender as long as the process
\* lives, unless the signal cannot be waited for.
Armed == {Senders, Clients}

\* Mutant: the flag is enough.
InterruptSilently ==
    /\ Driving
    /\ Interrupt \in holders
    /\ ~stopRequested
    /\ stopRequested' = TRUE
    /\ UNCHANGED <<pauseRequested, queue, sending, holders, sent, requests, order, given, wanted, driverVars, crashes>>

\* spawn_interrupt_handler: the first Ctrl+C is a stop.
FirstInterrupt ==
    /\ Driving
    /\ Interrupt \in holders
    /\ ~stopRequested
    /\ StoreFlag(Interrupt, "Stop")
    /\ UNCHANGED <<queue, holders, sent, requests, order, given, driverVars, crashes>>

\* The input ends, or the connection does.
SenderGone(s) ==
    /\ Driving
    /\ s \in holders \cap Clients
    /\ sending[s] = NoCommand
    /\ holders' = holders \ {s}
    /\ UNCHANGED <<flagVars, queue, sending, sent, requests, order, given, wanted, driverVars, crashes>>

-----------------------------------------------------------------------------
(* safe_point, handle_control_command and apply_queued_instructions.       *)

Save(j) == job' = j /\ disk' = j
Bytes(i) == IF i \in Large THEN 2 ELSE 1
ByteCount(s) == Len(s) + Cardinality({n \in DOMAIN s : s[n] \in Large})

\* Mutant: only the instructions already applied are counted.
RefusesByApplied(j, i) ==
    \/ Len(j.applied) >= MaxActive
    \/ ByteCount(j.applied) + Bytes(i) > MaxBytes

\* instruction_budget_refusal, with active_instruction_count and
\* active_instruction_bytes.
BudgetRefuses(j, i) ==
    LET active == j.applied \o j.pending
    IN  \/ Len(active) >= MaxActive
        \/ ByteCount(active) + Bytes(i) > MaxBytes

ToSafePoint(next) == pc' = "safe" /\ after' = next

\* drain: everything queued so far.
Drain ==
    /\ pc = "safe"
    /\ commands' = queue
    /\ queue' = <<>>
    /\ pc' = "handling"
    /\ UNCHANGED <<flagVars, sending, holders, sent, requests, order, given, wanted>>
    /\ UNCHANGED <<job, disk, after, request, heard, due, late, started, crashes>>

\* next: a paused job takes one command at a time.
TakeNext ==
    /\ pc = "paused"
    /\ queue # <<>>
    /\ commands' = <<Head(queue)>>
    /\ queue' = Tail(queue)
    /\ pc' = "handling"
    /\ UNCHANGED <<flagVars, sending, holders, sent, requests, order, given, wanted>>
    /\ UNCHANGED <<job, disk, after, request, heard, due, late, started, crashes>>

\* A command that was handled is followed by what is still pending.
ToApply(j) == pc' = IF j.pending = <<>> THEN "handling" ELSE "applying"

\* An instruction over the budget is reported and forgotten; any other is made
\* durable before it is applied.
HandleSend(i) ==
    \/ /\ BudgetRefuses(job, i)
       /\ UNCHANGED <<job, disk, heard, pc>>
    \/ /\ ~BudgetRefuses(job, i)
       /\ Save([job EXCEPT !.pending = Append(@, i)])
       /\ heard' = heard \cup {i}
       /\ pc' = "applying"

\* Every other command only reports something: the flags are already stored.
Handle ==
    /\ pc = "handling"
    /\ commands # <<>>
    /\ commands' = Tail(commands)
    /\ \/ Head(commands) \in Instructions /\ HandleSend(Head(commands))
       \/ Head(commands) \in Plain /\ ToApply(job) /\ UNCHANGED <<job, disk, heard>>
    /\ UNCHANGED <<channelVars, after, request, due, late, started, crashes>>

\* Mutant: the newest first.
ApplyNewest ==
    /\ pc = "applying"
    /\ Save([job EXCEPT !.pending = Front(@), !.applied = Append(@, Last(job.pending))])
    /\ ToApply(job')
    /\ UNCHANGED <<channelVars, commands, after, request, heard, due, late, started, crashes>>

\* apply_queued_instructions: one write for each of them.
Apply ==
    /\ pc = "applying"
    /\ Save([job EXCEPT !.pending = Tail(@), !.applied = Append(@, Head(job.pending))])
    /\ ToApply(job')
    /\ UNCHANGED <<channelVars, commands, after, request, heard, due, late, started, crashes>>

\* The driver goes on with "after"; a stage begins where a turn is prepared.
Pass == /\ pc' = after
        /\ due' = IF after \in {"supervise", "review", "execute"} THEN heard ELSE due

\* Mutant: the flag only matters once its command was taken.
StopTaken == stopRequested /\ sending[Interrupt] = NoCommand

\* stop_requested, which every safe point asks.
MustStop == stopRequested

\* What safe_point decides when nothing is left to handle, first at its boundary
\* and then after every command a paused job takes.
Check ==
    /\ pc = "handling"
    /\ commands = <<>>
    /\ \/ MustStop /\ Save([job EXCEPT !.status = "STOPPED"]) /\ pc' = "ended" /\ UNCHANGED due
       \/ /\ ~MustStop /\ ~pauseRequested
          /\ Pass
          /\ IF job.status = "PAUSED" THEN Save([job EXCEPT !.status = "RUNNING"]) ELSE UNCHANGED <<job, disk>>
       \/ /\ ~MustStop /\ pauseRequested
          /\ Save([job EXCEPT !.status = "PAUSED"])
          /\ pc' = "paused"
          /\ UNCHANGED due
    /\ UNCHANGED <<channelVars, commands, after, request, heard, late, started, crashes>>

\* leave_paused_for_a_later_process: nobody is left who could resume it.
LeavePaused ==
    /\ pc = "paused"
    /\ queue = <<>>
    /\ holders = {}
    /\ \A s \in Senders : sending[s] = NoCommand
    /\ Save([job EXCEPT !.status = "PAUSED"])
    /\ pc' = "ended"
    /\ UNCHANGED <<channelVars, commands, after, request, heard, due, late, started, crashes>>

-----------------------------------------------------------------------------
(* drive: where a request is built, and the safe points around it.         *)

\* A request is moved into the call it is for.
TurnOver == request' = <<>> /\ due' = {}
Late == late' = IF stopRequested THEN late + 1 ELSE late

\* The request is built after the safe point and used at once.  A review that is
\* repeated after a crash does not count.
Supervise ==
    /\ pc \in {"supervise", "review"}
    /\ \/ /\ pc = "review" \/ job.turn < MaxTurns
          /\ Save([job EXCEPT !.status = "RUNNING", !.turn = IF pc = "review" THEN @ ELSE @ + 1,
                              !.operation = "review"])
          /\ request' = job.applied
          /\ pc' = "reviewing"
          /\ Late
       \/ /\ pc = "supervise" /\ job.turn = MaxTurns
          /\ Save([job EXCEPT !.status = "FAILED"])
          /\ pc' = "ended"
          /\ UNCHANGED <<request, late>>
    /\ UNCHANGED <<channelVars, commands, after, heard, due, started, crashes>>

\* The Supervisor answers, or is cancelled; either way the job is at a safe point.
Reviewed ==
    /\ pc = "reviewing"
    /\ \E next \in {"execute", "publish", "fail"} : ToSafePoint(next)
    /\ TurnOver
    /\ UNCHANGED <<channelVars, job, disk, commands, heard, late, started, crashes>>

\* Mutant: the Executor is only told what is new.
ExecuteBare ==
    /\ pc = "execute"
    /\ Save([job EXCEPT !.operation = "execute"])
    /\ request' = job.pending
    /\ ToSafePoint("start")
    /\ UNCHANGED <<channelVars, commands, heard, due, late, started, crashes>>

\* The Executor's request is built before one more safe point: what that one
\* hears waits for the next turn.
Execute ==
    /\ pc = "execute"
    /\ Save([job EXCEPT !.operation = "execute"])
    /\ request' = job.applied
    /\ ToSafePoint("start")
    /\ UNCHANGED <<channelVars, commands, heard, due, late, started, crashes>>

StartExecutor ==
    /\ pc = "start"
    /\ pc' = "executing"
    /\ Late
    /\ UNCHANGED <<channelVars, job, disk, commands, after, request, heard, due, started, crashes>>

Executed ==
    /\ pc = "executing"
    /\ \/ Save([job EXCEPT !.operation = "supervise"]) /\ ToSafePoint("supervise")
       \/ UNCHANGED <<job, disk>> /\ ToSafePoint("fail")
    /\ TurnOver
    /\ UNCHANGED <<channelVars, commands, heard, late, started, crashes>>

\* publish: the publisher itself looks at the stop flag only, never at the queue.
Publish ==
    /\ pc = "publish"
    /\ Save([job EXCEPT !.status = "PUBLISHING", !.operation = "publish"])
    /\ \E next \in {"settle", "fail"} : ToSafePoint(next)
    /\ UNCHANGED <<channelVars, commands, request, heard, due, late, started, crashes>>

Settle ==
    /\ pc \in {"settle", "fail"}
    /\ Save([job EXCEPT !.status = IF pc = "settle" THEN "PUBLISHED" ELSE "FAILED"])
    /\ pc' = "ended"
    /\ UNCHANGED <<channelVars, commands, after, request, heard, due, late, started, crashes>>

-----------------------------------------------------------------------------
(* The chain.                                                              *)

\* Mutant: one job too many.
ContinuesOnceMore == job.status = "PUBLISHED" /\ ~stopRequested /\ job.index <= MaxJobs

\* What continue_sequentially needs before it starts another job; whether the
\* Supervisor proposed one is open.
ChainContinues == job.status = "PUBLISHED" /\ ~stopRequested /\ job.index < MaxJobs

NextJob ==
    /\ pc = "ended"
    /\ ChainContinues
    /\ Save(NewJob(job.index + 1))
    /\ ToSafePoint("supervise")
    /\ heard' = {}
    /\ started' = started + 1
    /\ UNCHANGED <<channelVars, commands, request, due, late, crashes>>

\* The run is over: its receiver is dropped with everything still queued.
Ends ==
    /\ pc = "ended"
    /\ pc' = "over"
    /\ queue' = <<>>
    /\ sending' = [s \in Senders |-> NoCommand]
    /\ UNCHANGED <<flagVars, holders, sent, requests, order, given, wanted>>
    /\ UNCHANGED <<job, disk, commands, after, request, heard, due, late, started, crashes>>

\* A process dies, or the second Ctrl+C ends it; only the record is left.
Crash ==
    /\ Driving
    /\ crashes < MaxCrashes
    /\ crashes' = crashes + 1
    /\ pc' = "down"
    /\ job' = disk
    /\ queue' = <<>>
    /\ sending' = [s \in Senders |-> NoCommand]
    /\ commands' = <<>>
    /\ request' = <<>>
    /\ heard' = {}
    /\ due' = {}
    /\ UNCHANGED <<flagVars, holders, sent, requests, order, given, wanted, disk, after, late, started>>

\* Mutant: the chain is counted from the job that is resumed.
ResumeAsFirst ==
    /\ pc \in {"down", "over"}
    /\ disk.status \in Resumable
    /\ Save([disk EXCEPT !.status = "RUNNING", !.index = 1])
    /\ holders' = Senders
    /\ pauseRequested' = FALSE
    /\ stopRequested' = FALSE
    /\ wanted' = "Resume"
    /\ late' = 0
    /\ ToSafePoint(disk.operation)
    /\ UNCHANGED <<queue, sending, sent, requests, order, given, commands, request, heard, due, started, crashes>>

\* resume_sequential in a later process: a new channel, the index of the record.
ResumeChain ==
    /\ pc \in {"down", "over"}
    /\ disk.status \in Resumable
    /\ Save([disk EXCEPT !.status = "RUNNING"])
    /\ holders' = Senders
    /\ pauseRequested' = FALSE
    /\ stopRequested' = FALSE
    /\ wanted' = "Resume"
    /\ late' = 0
    /\ ToSafePoint(disk.operation)
    /\ UNCHANGED <<queue, sending, sent, requests, order, given, commands, request, heard, due, started, crashes>>

Init ==
    /\ pauseRequested = FALSE /\ stopRequested = FALSE
    /\ queue = <<>>
    /\ sending = [s \in Senders |-> NoCommand]
    /\ holders \in Armed
    /\ job = NewJob(1) /\ disk = NewJob(1)
    /\ commands = <<>>
    /\ request = <<>>
    /\ pc = "safe" /\ after = "supervise"
    /\ sent = 0 /\ requests = 0 /\ crashes = 0
    /\ order = <<>>
    /\ given = [i \in Instructions |-> 0]
    /\ heard = {} /\ due = {}
    /\ wanted = "Resume"
    /\ late = 0
    /\ started = 1

\* What the driving process does; a provider that is cancelled answers.
DriverStep ==
    \/ Drain \/ TakeNext \/ Handle \/ Apply \/ Check \/ LeavePaused
    \/ Supervise \/ Execute \/ StartExecutor \/ Publish \/ Settle \/ NextJob \/ Ends
    \/ stopRequested /\ (Reviewed \/ Executed)

Next ==
    \/ DriverStep
    \/ Reviewed \/ Executed
    \/ \E s \in Senders : Enqueue(s) \/ SenderGone(s) \/ (\E c \in Command : ClientSends(s, c))
    \/ FirstInterrupt
    \/ Crash \/ ResumeChain

\* The process keeps running, and a sender that stored its flag goes on to queue
\* the command: there is no await between the two.
Spec == Init /\ [][Next]_vars /\ WF_vars(DriverStep) /\ \A s \in Senders : WF_vars(Enqueue(s))

-----------------------------------------------------------------------------
(* Properties.                                                             *)

JobState ==
    [status : Statuses, index : 1 .. MaxJobs, turn : 0 .. MaxTurns,
     operation : {"supervise", "review", "execute", "publish"},
     pending : Seq(Instructions), applied : Seq(Instructions)]

TypeOK ==
    /\ {pauseRequested, stopRequested} \subseteq BOOLEAN
    /\ queue \in Seq(Command) /\ commands \in Seq(Command)
    /\ sending \in [Senders -> Command \cup {NoCommand}]
    /\ holders \subseteq Senders
    /\ {job, disk} \subseteq JobState
    /\ ToSet(request) \subseteq Instructions
    /\ pc \in {"safe", "handling", "applying", "paused", "supervise", "review", "reviewing", "execute", "start",
               "executing", "publish", "settle", "fail", "ended", "over", "down"}

\* instruction_budget_refusal: whatever a crash left pending, the prompt of a job
\* never holds more instructions, or more bytes of them, than its limits.
InstructionsAreBounded ==
    LET active == disk.applied \o disk.pending
    IN  Len(active) <= MaxActive /\ ByteCount(active) <= MaxBytes

\* "/send" queues "in order": across the channel, a safe point cut short by a
\* crash and the resumed process, a job's instructions keep the order in which
\* they were queued, and none is there twice.
InstructionsKeepTheirOrder ==
    LET all == job.applied \o job.pending \o commands \o queue
        place(i) == CHOOSE n \in DOMAIN order : order[n] = i
    IN  \A m, n \in DOMAIN all :
            m < n /\ {all[m], all[n]} \subseteq Instructions => place(all[m]) < place(all[n])

\* Every instruction a safe point took before a stage began is in the request of
\* that stage's turn, the Supervisor's as the Executor's.
TurnsSeeTheInstructions == pc \in {"reviewing", "executing"} => due \subseteq ToSet(request)

\* What a person sends reaches the turns that follow, in order and within the limits.
InstructionsAreKept ==
    TypeOK /\ InstructionsAreBounded /\ InstructionsKeepTheirOrder /\ TurnsSeeTheInstructions

\* However often the chain is interrupted and resumed, it never starts more jobs
\* than --max-jobs allows.
ChainIsBounded == started <= MaxJobs

\* Once a stop is requested, at most the turn that had already passed its safe
\* point still starts, even when the command itself is not queued yet.
StopBoundsTurns == late <= 1

\* Nothing more is started than was asked for.
WorkIsBounded == ChainIsBounded /\ StopBoundsTurns

\* A job that was told to resume does not stay paused, unless it is paused again:
\* no order of flag and command loses the resume.
ResumeEndsThePause == (pc = "paused" /\ wanted = "Resume") ~> (pc # "paused" \/ wanted = "Pause")

\* A stop ends the process, in a provider call and in a pause nobody else is left
\* to end, and no later job of the chain is started.
StopEndsTheChain == stopRequested ~> ~Driving

\* No request of a person is lost while the job waits or works.
RequestsAreHeard == ResumeEndsThePause /\ StopEndsTheChain

\* docs/autonomous-jobs.md: an instruction "is never carried into a sequential
\* next job, which starts from its own task alone".
InstructionsStayWithTheirJob == \A i \in ToSet(job.applied) : given[i] \in {0, job.index}

===============================================================================
