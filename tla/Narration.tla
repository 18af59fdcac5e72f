------------------------------- MODULE Narration -------------------------------
(***************************************************************************)
(* What a person or a program reads of a run: the blocks that job events   *)
(* are rendered as (src/orchestrator/events.rs), the scheduler's lines     *)
(* among them (src/orchestrator/scheduler.rs), and the daemon's history    *)
(* (src/daemon/events.rs).  A text is a sequence of characters, a rendered *)
(* block a sequence of lines; a line keeps its indentation, the job prefix *)
(* in front of it and its text.  Colours, times and fixed wording are      *)
(* left out: a fixed word is the character "w".                            *)
(***************************************************************************)
EXTENDS Naturals, Sequences, FiniteSets, SequencesExt

CONSTANT
    Shown              \* characters shown of a long text: 180 or 360 in the code

ASSUME NarrationAssumption == Shown \in Nat \ {0}

NoTag == "none"

Line(indent, text) == [tag |-> NoTag, indent |-> indent, text |-> text]

(* One more character: a line feed starts a part, any other one ends the last. *)
Extend(lines, c) ==
  IF c = "lf" THEN Append(lines, <<>>) ELSE [lines EXCEPT ![Len(lines)] = Append(@, c)]

(* The parts between line feeds, the last one included. *)
SplitLines(text) == FoldLeft(Extend, << <<>> >>, text)

(* str::lines: no empty part after the last line feed. *)
LinesOf(text) ==
  LET lines == SplitLines(text)
  IN  IF Last(lines) = <<>> THEN Front(lines) ELSE lines

(* detail: only the first line of a value is indented. *)
Detail(text) ==
  LET lines == SplitLines(text)
  IN  [i \in DOMAIN lines |-> Line(IF i = 1 THEN 6 ELSE 0, lines[i])]

(* full: every line is indented, the first one twice. *)
Full(text) ==
  LET lines == LinesOf(text)
  IN  IF lines = <<>> THEN <<Line(6, <<>>)>>
      ELSE [i \in DOMAIN lines |-> Line(IF i = 1 THEN 12 ELSE 6, lines[i])]

(* Mutant: a cut text looks complete. *)
TruncateSilently(text) == IF Len(text) <= Shown THEN text ELSE SubSeq(text, 1, Shown)

(* truncate, truncate_response. *)
Truncate(text) == IF Len(text) <= Shown THEN text ELSE SubSeq(text, 1, Shown) \o <<"...">>

Fixed == <<Line(6, <<"w">>)>>

Optional(present, lines) == IF present THEN lines ELSE <<>>

Named(text) == <<"w">> \o text

-----------------------------------------------------------------------------
(* render_human, by the heading of the block.  An event has a kind, the    *)
(* text it carries, and the set of the optional parts it has.              *)

JobBlock(e) == IF e.kind = "JobStarted" THEN Detail(Truncate(e.text)) ELSE <<>>

SupervisorBlock(e, verbose) ==
  CASE e.kind = "SupervisorStarted" -> Fixed \o Optional(verbose, Full(e.text))
    [] e.kind = "SupervisorFinished" ->
         Optional("reason" \in e.has, Detail(Truncate(e.text)))
         \o Optional("commit_title" \in e.has, Detail(Named(e.text)))
         \o Optional("prompt" \in e.has,
                     IF verbose THEN Full(<<"w", "lf">> \o e.text) ELSE Detail(Named(Truncate(e.text))))
         \o Optional("next_prompt" \in e.has, Detail(Named(Truncate(e.text))))

ClaudeBlock(e, verbose) ==
  CASE e.kind = "ExecutorStarted" -> Fixed
    [] e.kind = "ExecutorFinished" ->
         Optional("session_id" \in e.has, Fixed)
         \o IF verbose
            THEN Optional("duration_ms" \in e.has, Fixed) \o Optional("turns" \in e.has, Fixed)
                 \o Optional("total_cost_usd" \in e.has, Fixed) \o Full(e.text)
            ELSE Detail(Truncate(e.text))

(* A diff stat is shown on one line. *)
OneLine(text) == [i \in DOMAIN text |-> IF text[i] = "lf" THEN "w" ELSE text[i]]

DiffStat(text) ==
  Optional(\E i \in DOMAIN text : text[i] # "lf", Detail(Named(Truncate(OneLine(text)))))

RepositoryBlock(e, verbose) ==
  Fixed \o Optional("changed" \in e.has, Fixed) \o Optional("untracked" \in e.has, Fixed)
  \o DiffStat(e.text) \o Optional("truncated" \in e.has, Fixed)
  \o Optional(verbose /\ "binary" \in e.has, Fixed)

PublishBlock(e) ==
  CASE e.kind = "PublishStarted" -> Detail(Named(e.text))
    [] e.kind = "PublishStageChanged" -> <<>>
    [] e.kind = "Published" -> Fixed

WaitingBlock(e) ==
  CASE e.kind \in {"WaitingForQuota", "WaitingForHuman", "Paused"} -> Detail(e.text)
    [] e.kind = "PauseRequested" -> Fixed
    [] e.kind = "Resumed" -> <<>>

ControlBlock(e, verbose) ==
  Fixed \o CASE e.kind = "StopRequested" -> <<>>
             [] e.kind \in {"UserInstructionQueued", "UserInstructionRejected"} ->
                  Detail(Truncate(e.text))
             [] e.kind = "UserInstructionApplied" -> Optional(verbose, Full(e.text))

ResumeBlock(e) ==
  CASE e.kind \in {"ResumeStarted", "ResumeValidated", "QuotaRetryStarted"} -> Fixed
    [] e.kind = "ResumeRejected" -> Detail(e.text)

StatusBlock(e) ==
  Fixed \o Fixed \o Optional("session_id" \in e.has, Fixed)
  \o Optional("publish_stage" \in e.has, Fixed) \o Optional("requested" \in e.has, Fixed)

DiffBlock(e) ==
  Optional("clean" \in e.has, Fixed) \o Optional("changed" \in e.has, Fixed)
  \o Optional("untracked" \in e.has, Fixed) \o DiffStat(e.text)

EndBlock(e) == Detail(e.text)

JobKinds == {"JobStarted", "JobFinished"}

SupervisorKinds == {"SupervisorStarted", "SupervisorFinished"}

ClaudeKinds == {"ExecutorStarted", "ExecutorFinished"}

PublishKinds == {"PublishStarted", "PublishStageChanged", "Published"}

WaitingKinds == {"WaitingForQuota", "WaitingForHuman", "PauseRequested", "Paused", "Resumed"}

ControlKinds == {"StopRequested", "UserInstructionQueued", "UserInstructionApplied",
                 "UserInstructionRejected"}

ResumeKinds == {"ResumeStarted", "ResumeValidated", "ResumeRejected", "QuotaRetryStarted"}

EndKinds == {"ControlMessage", "Stopped", "Failed"}

JobEventKind ==
  JobKinds \cup SupervisorKinds \cup ClaudeKinds \cup PublishKinds \cup WaitingKinds
  \cup ControlKinds \cup ResumeKinds \cup EndKinds
  \cup {"RepositoryCaptured", "StatusReported", "DiffReported"}

Body(e, verbose) ==
  CASE e.kind \in JobKinds            -> JobBlock(e)
    [] e.kind \in SupervisorKinds     -> SupervisorBlock(e, verbose)
    [] e.kind \in ClaudeKinds         -> ClaudeBlock(e, verbose)
    [] e.kind = "RepositoryCaptured"  -> RepositoryBlock(e, verbose)
    [] e.kind \in PublishKinds        -> PublishBlock(e)
    [] e.kind \in WaitingKinds        -> WaitingBlock(e)
    [] e.kind \in ControlKinds        -> ControlBlock(e, verbose)
    [] e.kind \in ResumeKinds         -> ResumeBlock(e)
    [] e.kind = "StatusReported"      -> StatusBlock(e)
    [] e.kind = "DiffReported"        -> DiffBlock(e)
    [] e.kind \in EndKinds            -> EndBlock(e)

RenderHuman(e, verbose) == <<Line(0, <<e.job>>)>> \o Body(e, verbose)

IsEmptyLine(line) == line.indent = 0 /\ line.text = <<>>

(* Mutant: the block is prefixed, not its lines. *)
PrefixBlock(block, job) ==
  [i \in DOMAIN block |-> IF i = 1 THEN [block[i] EXCEPT !.tag = job] ELSE block[i]]

(* prefix_lines: an empty line stays empty. *)
PrefixLines(block, job) ==
  [i \in DOMAIN block |-> IF IsEmptyLine(block[i]) THEN block[i] ELSE [block[i] EXCEPT !.tag = job]]

-----------------------------------------------------------------------------
(* Standard output.  A sink writes under a lock of its own, so what it     *)
(* emits is written in order; two sinks on the same output share nothing   *)
(* but the output, and interleave between any two writes.                  *)

(* HumanEventSink with the job context: one write per event. *)
EmitHuman(e, verbose) == <<PrefixLines(RenderHuman(e, verbose), e.job)>>

(* render_scheduler_event: one write; "scheduler" marks its line.          *)
EmitScheduler(text) == <<[Detail(Named(text)) EXCEPT ![1] = Line(0, <<"scheduler">> \o @.text)]>>

Interleavings(a, b) ==
  LET n == Len(a) + Len(b)
      Before(places, i) == Cardinality({k \in places : k <= i})
  IN  {[i \in 1..n |-> IF i \in places THEN a[Before(places, i)]
                       ELSE b[i - Before(places, i)]] :
         places \in {p \in SUBSET (1..n) : Cardinality(p) = Len(a)}}

-----------------------------------------------------------------------------
(* The daemon's events. *)
DurableKinds == {"DaemonStarted", "QueuedWorkRecovered", "InterruptedWorkParked",
                 "InterruptedWorkResumed", "SchedulerStarted", "SchedulerStopped",
                 "JobsSubmitted", "ControlDelivered", "DaemonStopping", "DaemonStopped"}

TransientKinds == {"ClientConnected", "ClientDisconnected", "ClientRejected", "JobAttached",
                   "JobDetached"}

IsDurable(kind) == kind \in DurableKinds

(* Mutant: the narration is written before the log. *)
NarrationFirst(out, kind, fails, terminal) ==
  LET told == IF terminal \/ IsDurable(kind) THEN Append(out.narration, kind) ELSE out.narration
  IN  IF "narration" \in fails THEN out
      ELSE [log |-> IF "log" \notin fails /\ IsDurable(kind) THEN Append(out.log, kind) ELSE out.log,
            narration |-> told]

(* One event through CompositeDaemonSink: the log keeps the durable ones,  *)
(* then the narration shows all of them on a terminal and the durable ones *)
(* in a file.  A sink that fails ends the emission; nobody is told.        *)
EmitDaemon(out, kind, fails, terminal) ==
  LET logged == IF IsDurable(kind) /\ "log" \notin fails
                THEN [out EXCEPT !.log = Append(@, kind)] ELSE out
  IN  IF \/ IsDurable(kind) /\ "log" \in fails
         \/ "narration" \in fails
         \/ ~terminal /\ ~IsDurable(kind)
      THEN logged
      ELSE [logged EXCEPT !.narration = Append(@, kind)]

-----------------------------------------------------------------------------
SaidBy(job) == UNION {[1..n -> {job, "lf"}] : n \in 0..3}

Parts == {"reason", "prompt", "clean", "truncated", "session_id", "requested"}

Events(job) ==
  [kind : JobEventKind, job : {job}, text : SaidBy(job), has : {{}, {"prompt"}, {"reason"}, Parts}]

Mentions(line, job) == \E i \in DOMAIN line.text : line.text[i] = job

(* Two jobs and the scheduler narrate at once: whatever the order of their *)
(* writes, and whatever an agent, a person or a provider wrote, every line *)
(* that shows something of a job names that job.                           *)
LinesNameTheirJob(out, jobs) ==
  LET lines == FlattenSeq(out)
  IN  \A i \in DOMAIN lines, job \in jobs :
        Mentions(lines[i], job) => lines[i].tag = job

EveryLineNamesItsJob ==
  \A one \in Events("1"), verbose \in BOOLEAN :
    LET two == [kind |-> "Failed", job |-> "2", text |-> <<"2", "lf", "2">>, has |-> {}]
    IN  \A out \in Interleavings(EmitHuman(one, verbose) \o EmitHuman(two, verbose),
                                 EmitScheduler(<<"w">>)) :
          LinesNameTheirJob(out, {"1", "2"})

Count(text, char) == Cardinality({i \in DOMAIN text : text[i] = char})

(* What an agent or a person said and a block shows is shown whole, or     *)
(* marked as cut; with --verbose a review request, a prompt for the        *)
(* Executor and its answer are never cut.                                  *)
ShowsOrSaysSo(e, verbose) ==
  LET lines == Body(e, verbose)
      shown == FlattenSeq([i \in DOMAIN lines |-> lines[i].text])
      visible == Count(shown, e.job)
      said == Count(e.text, e.job)
  IN  /\ visible > 0 /\ Count(shown, "...") = 0 => visible >= said
      /\ verbose /\ e.kind \in {"SupervisorStarted", "ExecutorFinished", "UserInstructionApplied"} =>
           visible = said

CutTextSaysSo == \A e \in Events("1"), verbose \in BOOLEAN : ShowsOrSaysSo(e, verbose)

(* The daemon's history: whatever the narration does, the permanent log    *)
(* has every durable event it could write, in order, and nothing of the    *)
(* clients that came and went; what was captured into a file instead of a  *)
(* terminal never tells more than the log.                                 *)
History(kinds, fails, terminal) ==
  FoldLeft(LAMBDA out, i : EmitDaemon(out, kinds[i], fails[i], terminal),
           [log |-> <<>>, narration |-> <<>>], [i \in DOMAIN kinds |-> i])

HistoryIsKept(kinds, fails, terminal) ==
  LET out == History(kinds, fails, terminal)
      Kept(i) == IF kinds[i] \in DurableKinds /\ "log" \notin fails[i] THEN <<kinds[i]>> ELSE <<>>
  IN  /\ out.log = FlattenSeq([i \in DOMAIN kinds |-> Kept(i)])
      /\ ~terminal => Len(out.narration) <= Len(out.log)

DaemonHistoryIsKept ==
  \A kinds \in [1..3 -> {"JobsSubmitted", "ClientConnected", "DaemonStopped"}],
     fails \in [1..3 -> SUBSET {"log", "narration"}], terminal \in BOOLEAN :
    HistoryIsKept(kinds, fails, terminal)
=============================================================================
