------------------------------ MODULE Arguments ------------------------------
(***************************************************************************)
(* The command lines of `lya` (src/main.rs).  A command line is a sequence *)
(* of arguments, an argument a string; what a parser tells apart is        *)
(* whether it is one of its options, whether it starts with two dashes and *)
(* which number it reads as.  Every parser is one left-to-right pass that  *)
(* an option with a value takes two arguments of, so the pass is a fold    *)
(* over the line and a command is described by its grammar.  The wording   *)
(* of an error is left out: a line is refused or gives options.            *)
(***************************************************************************)
EXTENDS Naturals, Sequences, SequencesExt

(* What the shell and the file system contribute: the arguments that start *)
(* with two dashes, what an argument reads as, and the blank ones.         *)
Dashed == {"--project", "--resume", "--browser", "--timeout-seconds", "--max-turns",
           "--max-iterations", "--max-jobs", "--max-concurrent", "--publish",
           "--verbose", "--json", "--file", "--job", "--replay", "--resumable",
           "--resume-queued", "--resume-interrupted", "--no-recover-queued", "--other"}

Reads == [t \in {"0", "1", "2", "+2", "10", "5000000000"} |->
            CASE t = "0" -> 0 [] t = "1" -> 1 [] t = "2" -> 2 [] t = "+2" -> 2
              [] t = "10" -> 10 [] t = "5000000000" -> 5000]

(* u32::from_str refuses what u64 and usize still read. *)
FitsU32(t) == t \in DOMAIN Reads \ {"5000000000"}

Display(n) == CHOOSE t \in DOMAIN Reads \ {"+2"} : Reads[t] = n

Blank == {"", " "}

Refused == [refused |-> TRUE]

None == "none"

-----------------------------------------------------------------------------
(* Grammars: the flags, the options whose value is taken as it is, the     *)
(* limits (a positive u32), the sizes (a positive usize), the numbers that *)
(* may be zero, and how many free words are accepted.                      *)
RunGrammar ==
  [flags |-> {"--browser", "--publish", "--verbose", "--json"}, values |-> {"--project"},
   limits |-> {"--max-iterations", "--max-jobs"}, sizes |-> {}, numbers |-> {},
   words |-> "many"]

SchedulerGrammar ==
  [flags |-> {"--resume-queued", "--browser", "--publish", "--verbose", "--json"},
   values |-> {}, limits |-> {"--max-iterations", "--max-jobs"},
   sizes |-> {"--max-concurrent"}, numbers |-> {}, words |-> "one"]

SubmitGrammar ==
  [flags |-> {"--browser", "--publish", "--json"}, values |-> {"--project", "--file"},
   limits |-> {"--max-iterations", "--max-jobs"}, sizes |-> {}, numbers |-> {},
   words |-> "many"]

DaemonGrammar ==
  [flags |-> {"--resume-interrupted", "--no-recover-queued", "--verbose", "--json"},
   values |-> {}, limits |-> {}, sizes |-> {"--max-concurrent"}, numbers |-> {},
   words |-> "none"]

ResumeGrammar ==
  [flags |-> {"--verbose", "--json"}, values |-> {"--job"}, limits |-> {}, sizes |-> {},
   numbers |-> {}, words |-> "none"]

AttachGrammar ==
  [flags |-> {"--replay", "--verbose", "--json"}, values |-> {}, limits |-> {},
   sizes |-> {}, numbers |-> {}, words |-> "one"]

JobsGrammar ==
  [flags |-> {"--resumable", "--json"}, values |-> {}, limits |-> {}, sizes |-> {},
   numbers |-> {}, words |-> "none"]

ExecutorGrammar ==
  [flags |-> {"--browser"}, values |-> {"--project", "--resume"}, limits |-> {},
   sizes |-> {}, numbers |-> {"--timeout-seconds", "--max-turns"}, words |-> "many"]

(* The options of a grammar that take the next argument as their value.    *)
Valued(g) == g.values \cup g.limits \cup g.sizes \cup g.numbers

(* Whether option o may take argument t.  The next argument is the value   *)
(* whatever it looks like: `--project --json` names a directory `--json`.  *)
Acceptable(g, o, t) ==
  CASE o \in g.values  -> TRUE
    [] o \in g.limits  -> FitsU32(t) /\ Reads[t] > 0
    [] o \in g.sizes   -> t \in DOMAIN Reads /\ Reads[t] > 0
    [] o \in g.numbers -> IF o = "--max-turns" THEN FitsU32(t) ELSE t \in DOMAIN Reads

(* Mutant: an unknown option is a word like any other. *)
DashesAreWords(g, s, t) ==
  IF ~s.ok THEN s
  ELSE IF s.option # None
  THEN IF Acceptable(g, s.option, t)
       THEN [s EXCEPT !.option = None,
                      !.value = [o \in DOMAIN @ \cup {s.option} |->
                                   IF o = s.option THEN t ELSE @[o]]]
       ELSE [s EXCEPT !.ok = FALSE]
  ELSE
  CASE t \in g.flags -> [s EXCEPT !.flag = @ \cup {t}]
    [] t \in Valued(g) -> [s EXCEPT !.option = t]
    [] OTHER -> [s EXCEPT !.words = Append(@, t)]

(* One argument: s.option is the option that waits for its value, s.ok     *)
(* whether every argument so far was accepted.  A repeated option wins.    *)
Argument(g, s, t) ==
  IF ~s.ok THEN s
  ELSE IF s.option # None
  THEN IF Acceptable(g, s.option, t)
       THEN [s EXCEPT !.option = None,
                      !.value = [o \in DOMAIN @ \cup {s.option} |->
                                   IF o = s.option THEN t ELSE @[o]]]
       ELSE [s EXCEPT !.ok = FALSE]
  ELSE
  CASE t \in g.flags -> [s EXCEPT !.flag = @ \cup {t}]
    [] t \in Valued(g) -> [s EXCEPT !.option = t]
    [] OTHER ->
         IF \/ t \in Dashed \/ g.words = "none"
            \/ g.words = "one" /\ s.words # <<>>
         THEN [s EXCEPT !.ok = FALSE]
         ELSE [s EXCEPT !.words = Append(@, t)]

NothingScanned == [ok |-> TRUE, option |-> None, flag |-> {}, value |-> <<>>, words |-> <<>>]

(* The arguments of a line, one after the other. *)
Scanned(g, line) == FoldLeft(LAMBDA s, t : Argument(g, s, t), NothingScanned, line)

(* A line whose last option has no value is refused, and so is one that    *)
(* asks for two outputs.                                                   *)
Complete(s) ==
  [s EXCEPT !.ok = @ /\ s.option = None /\ ~({"--verbose", "--json"} \subseteq s.flag)]

Scan(g, line) == Complete(Scanned(g, line))

Given(s, o, default) == IF o \in DOMAIN s.value THEN s.value[o] ELSE default

Number(s, o, default) == IF o \in DOMAIN s.value THEN Reads[s.value[o]] ELSE default

Output(s) == IF "--json" \in s.flag THEN "json"
             ELSE IF "--verbose" \in s.flag THEN "verbose" ELSE "normal"

-----------------------------------------------------------------------------
(* Paths: a directory name that exists is resolved against the directory   *)
(* of the process that resolves it, a resolved one stays what it is.       *)
Relative(name) == [dir |-> None, name |-> name]

Canonicalize(path, cwd) ==
  IF path.dir # None THEN path
  ELSE IF path.name \in {"missing"} \cup Blank THEN Refused
  ELSE [path EXCEPT !.dir = cwd]

DEFAULT_MAX_ITERATIONS == 10

DEFAULT_MAX_JOBS == 10

DEFAULT_MAX_CONCURRENT == 2

RunConfiguration(s) ==
  [max_iterations |-> Number(s, "--max-iterations", DEFAULT_MAX_ITERATIONS),
   max_jobs |-> Number(s, "--max-jobs", DEFAULT_MAX_JOBS),
   browser |-> "--browser" \in s.flag, publish |-> "--publish" \in s.flag]

(* main: only the first argument picks the command, `daemon` looks at the  *)
(* second too, and whatever is not a command is a prompt.                  *)
Subcommands == {"supervisor", "executor", "run", "resume", "jobs", "scheduler", "submit",
             "attach", "control"}

DaemonCommands ==
  [run |-> "daemon run", start |-> "daemon start", stop |-> "daemon stop", status |-> "daemon status"]

Dispatch(arguments) ==
  LET Picks(command, k) == [command |-> command, rest |-> SubSeq(arguments, k + 1, Len(arguments))]
      DaemonCommand ==
        IF Len(arguments) > 1 /\ arguments[2] \in DOMAIN DaemonCommands
        THEN Picks(DaemonCommands[arguments[2]], 2) ELSE Refused
  IN  IF arguments = <<>> THEN Refused
      ELSE LET first == arguments[1]
           IN  CASE first \in {"-h", "--help"} -> Picks("help", 1)
                 [] first \in {"-V", "--version"} -> Picks("version", 1)
                 [] first = "doctor" -> IF Len(arguments) = 1 THEN Picks("doctor", 1) ELSE Refused
                 [] first = "daemon" -> DaemonCommand
                 [] first \in Subcommands -> Picks(first, 1)
                 [] OTHER -> Picks("agent", 0)

(* `lya run`: a task, and a project that exists.                           *)
ParseRun(line, cwd) ==
  LET s == Scan(RunGrammar, line)
      path == Canonicalize(Relative(Given(s, "--project", ".")), cwd)
  IN  IF ~s.ok \/ s.words = <<>> \/ path = Refused THEN Refused
      ELSE [project |-> path, task |-> s.words, run |-> RunConfiguration(s),
            output |-> Output(s)]

(* `lya scheduler`: a job file, the queued jobs, or both.                  *)
ParseScheduler(line) ==
  LET s == Scan(SchedulerGrammar, line)
  IN  IF ~s.ok \/ (s.words = <<>> /\ "--resume-queued" \notin s.flag) THEN Refused
      ELSE [job_file |-> s.words, resume_queued |-> "--resume-queued" \in s.flag,
            max_concurrent |-> Number(s, "--max-concurrent", DEFAULT_MAX_CONCURRENT),
            run |-> RunConfiguration(s), output |-> Output(s)]

(* `lya submit`: a task or a job file, never both; a project goes with a   *)
(* task only, and is resolved by the shell that typed it.                  *)
ParseSubmit(line, cwd) ==
  LET s == Scan(SubmitGrammar, line)
      path == Canonicalize(Relative(Given(s, "--project", ".")), cwd)
  IN  CASE ~s.ok -> Refused
        [] s.ok /\ "--file" \in DOMAIN s.value ->
             IF s.words # <<>> \/ "--project" \in DOMAIN s.value THEN Refused
             ELSE [file |-> s.value["--file"], run |-> RunConfiguration(s)]
        [] OTHER ->
             IF s.words = <<>> \/ path = Refused THEN Refused
             ELSE [project |-> path, task |-> s.words, run |-> RunConfiguration(s)]

(* `lya daemon run` and `lya daemon start`.                                *)
ParseDaemon(line) ==
  LET s == Scan(DaemonGrammar, line)
  IN  IF ~s.ok THEN Refused
      ELSE [max_concurrent |-> Number(s, "--max-concurrent", DEFAULT_MAX_CONCURRENT),
            resume_interrupted |-> "--resume-interrupted" \in s.flag,
            recover_queued |-> "--no-recover-queued" \notin s.flag,
            output |-> Output(s),
            explicit_output |-> {"--verbose", "--json"} \cap s.flag # {}]

ParseResume(line) ==
  LET s == Scan(ResumeGrammar, line)
  IN  IF ~s.ok THEN Refused ELSE [job |-> Given(s, "--job", None), output |-> Output(s)]

ParseAttach(line) ==
  LET s == Scan(AttachGrammar, line)
  IN  IF ~s.ok \/ s.words = <<>> THEN Refused
      ELSE [job |-> s.words[1], replay |-> "--replay" \in s.flag, output |-> Output(s)]

ParseJobs(line) ==
  LET s == Scan(JobsGrammar, line)
  IN  IF ~s.ok THEN Refused
      ELSE [resumable |-> "--resumable" \in s.flag, json |-> "--json" \in s.flag]

(* `lya executor`: one invocation; the last session, timeout and turn      *)
(* limit win, and the prompt may be empty.                                 *)
ParseExecutor(line, cwd) ==
  LET s == Scan(ExecutorGrammar, line)
      path == Canonicalize(Relative(Given(s, "--project", ".")), cwd)
  IN  IF ~s.ok \/ path = Refused THEN Refused
      ELSE [project |-> path, prompt |-> s.words, session |-> Given(s, "--resume", None),
            browser |-> "--browser" \in s.flag,
            timeout |-> Number(s, "--timeout-seconds", None),
            max_turns |-> Number(s, "--max-turns", None)]

(* Mutant: only the size of the daemon is handed over. *)
ForwardSizeOnly(o) == <<"--max-concurrent", Display(o.max_concurrent), "--json">>

(* The arguments `lya daemon start` starts the detached daemon with.       *)
Forwarded(o) ==
  <<"--max-concurrent", Display(o.max_concurrent)>>
  \o (IF o.resume_interrupted THEN <<"--resume-interrupted">> ELSE <<>>)
  \o (IF ~o.recover_queued THEN <<"--no-recover-queued">> ELSE <<>>)
  \o <<"--json">>

-----------------------------------------------------------------------------
(* Control commands, typed at a job's terminal and sent to the daemon.     *)
Bare == {"pause", "resume", "stop", "status", "diff"}

Sent(command, words) == [command |-> command, words |-> words]

(* A typed line is a word that starts with a slash, and the words after    *)
(* it; "help" only prints.  The result is a command, a note or a refusal.  *)
ParseControlCommand(word, rest) ==
  LET empty == \A i \in DOMAIN rest : rest[i] \in Blank
  IN  CASE word \in Bare \cup {"help"} ->
             IF ~empty THEN Refused ELSE IF word = "help" THEN Sent("note", <<>>) ELSE Sent(word, <<>>)
        [] word = "send" -> IF empty THEN Refused ELSE Sent("send", rest)
        [] OTHER -> Refused

(* Mutant: what follows a bare command is ignored. *)
IgnoreTheRest(arguments) ==
  IF Len(arguments) < 2 \/ arguments[1] \in Dashed THEN Refused
  ELSE IF arguments[2] \in Bare THEN Sent(arguments[2], <<>>)
  ELSE IF arguments[2] = "send" THEN Sent("send", SubSeq(arguments, 3, Len(arguments)))
  ELSE Refused

(* `lya control <job> <command> ...`: any argument after a bare command is *)
(* refused, a blank one too.                                               *)
ParseControl(arguments) ==
  LET rest == SubSeq(arguments, 3, Len(arguments))
  IN  CASE Len(arguments) < 2 \/ (arguments # <<>> /\ arguments[1] \in Dashed) -> Refused
        [] Len(arguments) >= 2 /\ arguments[1] \notin Dashed /\ arguments[2] = "send" ->
             IF \A i \in DOMAIN rest : rest[i] \in Blank THEN Refused
             ELSE Sent("send", rest)
        [] OTHER -> IF arguments[2] \in Bare /\ rest = <<>> THEN Sent(arguments[2], <<>>)
                    ELSE Refused

(* Two commands take whatever is typed, options too, as their text: the    *)
(* task of `lya supervisor` and the prompt of the local agent.             *)
ParseSupervisor(line) ==
  IF \A i \in DOMAIN line : line[i] \in Blank THEN Refused ELSE Sent("supervisor", line)

ParseAgent(line) == IF line \in {<<>>, <<"">>} THEN Refused ELSE Sent("agent", line)

(* `lya daemon start` has no output to choose, `lya daemon stop` and       *)
(* `lya daemon status` hardly an option.                                   *)
ParseStart(line) ==
  LET o == ParseDaemon(line)
  IN  IF o = Refused THEN Refused ELSE IF o.explicit_output THEN Refused ELSE o

ParseStop(line) == IF line = <<>> THEN Sent("daemon stop", <<>>) ELSE Refused

ParseStatus(line) == IF line \in {<<>>, <<"--json">>} THEN Sent("daemon status", line) ELSE Refused

(* Help, the version and the doctor's report only print.                   *)
Printed == [printed |-> TRUE]

(* What a command line is taken for by the command that it picks.          *)
Understood(arguments) ==
  LET c == Dispatch(arguments)
  IN  IF c = Refused THEN Refused
      ELSE CASE c.command = "supervisor" -> ParseSupervisor(c.rest)
             [] c.command = "executor" -> ParseExecutor(c.rest, "cwd")
             [] c.command = "run" -> ParseRun(c.rest, "cwd")
             [] c.command = "resume" -> ParseResume(c.rest)
             [] c.command = "jobs" -> ParseJobs(c.rest)
             [] c.command = "scheduler" -> ParseScheduler(c.rest)
             [] c.command = "submit" -> ParseSubmit(c.rest, "cwd")
             [] c.command = "attach" -> ParseAttach(c.rest)
             [] c.command = "control" -> ParseControl(c.rest)
             [] c.command = "daemon run" -> ParseDaemon(c.rest)
             [] c.command = "daemon start" -> ParseStart(c.rest)
             [] c.command = "daemon stop" -> ParseStop(c.rest)
             [] c.command = "daemon status" -> ParseStatus(c.rest)
             [] c.command = "agent" -> ParseAgent(c.rest)
             [] OTHER -> Printed

(* ControlRequest::to_command on the daemon's side; an instruction of more *)
(* than limit words is beyond the byte budget of a job.                    *)
ToCommand(request, limit) ==
  IF request # Refused /\ request.command = "send"
     /\ (Len(request.words) > limit \/ \A i \in DOMAIN request.words : request.words[i] \in Blank)
  THEN Refused ELSE request

-----------------------------------------------------------------------------
Lines(tokens, n) == UNION {[1..k -> tokens] : k \in 0..n}

(* `lya daemon start` starts a `lya daemon run` that means the same: the   *)
(* arguments it forwards are accepted and give the configuration the user  *)
(* asked for, whatever the order and the spelling he used.                 *)
ForwardsTheSame(line) ==
  LET o == ParseDaemon(line)
  IN  o # Refused /\ ~o.explicit_output =>
        ParseDaemon(Forwarded(o)) = [o EXCEPT !.output = "json", !.explicit_output = TRUE]

ForwardedMeansTheSame ==
  \A line \in Lines(DaemonGrammar.flags \cup {"--max-concurrent", "0", "+2", "5000000000", "word"}, 4) :
    ForwardsTheSame(line)

(* Where a command line reads options, a mistyped one that does not stand  *)
(* as the value of another starts nothing: it is never a job, a file or    *)
(* part of a task.  Three commands read no options, and it is part of      *)
(* their text, which they take with every argument as it was typed: the    *)
(* task of `lya supervisor`, an instruction sent with `lya control`, and   *)
(* the prompt of the local agent, which is any line that begins with no    *)
(* command.                                                                *)
RefusesMistyped(arguments) ==
  LET c == Dispatch(arguments)
      got == Understood(arguments)
  IN  "--other" \in ToSet(arguments) =>
        \/ got \in {Refused, Printed}
        \/ c.command \in {"supervisor", "agent"} /\ got = Sent(c.command, c.rest)
        \/ c.command = "control" /\ got = Sent("send", SubSeq(c.rest, 3, Len(c.rest)))

MistypedOptionsAreRefused ==
  \A first \in Subcommands \cup {"daemon", "doctor", "--help", "--other", "word"},
     line \in Lines({"--other", "--browser", "--json", "word", "run", "stop", "send"}, 3) :
    RefusesMistyped(<<first>> \o line)

(* `lya executor` and `lya run` agree on the project and the words of what *)
(* both accept.                                                            *)
ExecutorReadsAsRun(line) ==
  LET run == ParseRun(line, "cwd")
      executor == ParseExecutor(line, "cwd")
  IN  run # Refused /\ executor # Refused =>
        executor.project = run.project /\ executor.prompt = run.task

ExecutorMeansRun ==
  \A line \in Lines({"--other", "--project", "--browser", "word", "dir"}, 4) : ExecutorReadsAsRun(line)

(* A command sent with `lya control` reaches the job as the command the    *)
(* same words give when they are typed at its terminal: what the daemon    *)
(* delivers is never something else than what was typed there, and an      *)
(* argument a typed command refuses is refused when it is sent.            *)
SendsTheTyped(word, rest, limit) ==
  LET sent == ToCommand(ParseControl(<<"job", word>> \o rest), limit)
  IN  sent # Refused => sent = ParseControlCommand(word, rest)

SentMeansTyped ==
  \A word \in Bare \cup {"send", "help", "word"}, rest \in Lines({" ", "word", "--json"}, 2) :
    SendsTheTyped(word, rest, 1)
=============================================================================
