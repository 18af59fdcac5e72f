------------------------------ MODULE Submission ------------------------------
(***************************************************************************)
(* How work becomes a job, from the shell to the record on disk: `lya run` *)
(* drives it itself, `lya scheduler` reads a job file, `lya submit` hands  *)
(* either of them to the daemon (src/main.rs, src/orchestrator/batch.rs,   *)
(* src/daemon/protocol.rs, DaemonState::submit and recover of              *)
(* src/daemon/server.rs, accept_one of src/orchestrator/scheduler.rs).     *)
(* The shell and the daemon have working directories and environments of   *)
(* their own; a task is its sequence of words.                             *)
(***************************************************************************)
EXTENDS Arguments, Inventory

CONSTANT
    MaxRequests        \* batch::MAX_REQUESTS, 256 in the code

ASSUME SubmissionAssumption == MaxRequests \in Nat \ {0}

IsBlank(words) == \A i \in DOMAIN words : words[i] \in Blank

Trim(words) ==
  LET text == {i \in DOMAIN words : words[i] \notin Blank}
  IN  IF text = {} THEN <<>>
      ELSE SubSeq(words, CHOOSE i \in text : \A k \in text : i <= k,
                         CHOOSE i \in text : \A k \in text : i >= k)

ProjectName(path) == IF path.name \in Blank THEN "current-project" ELSE path.name

NamedOr(name, path) == IF name \in Blank THEN ProjectName(path) ELSE name

NoGit == [none |-> TRUE]

(* GitPublishConfig::new. *)
GitPublishConfig(git) ==
  IF \E f \in DOMAIN git : git[f] \in Blank THEN Refused ELSE git

(* A variable that is not set reads as blank, but for the remote's.        *)
FromEnvironment(env) ==
  GitPublishConfig([env EXCEPT !.remote = IF @ = None THEN "origin" ELSE @])

(* Publication is configured in the shell that was asked to publish.       *)
GitFor(run, env) == IF run.publish THEN FromEnvironment(env) ELSE NoGit

With(run, git) == [run |-> run, git |-> git]

-----------------------------------------------------------------------------
(* What a command needs before it does anything: a home, and the private   *)
(* context kept in it (src/orchestrator/home.rs, context.rs, doctor.rs).   *)
(* shell.home gives the variables that name the home, a sequence of names. *)
LyaHome(shell) ==
  IF shell.home.LYA_HOME \notin {None, ""} THEN <<shell.home.LYA_HOME>>
  ELSE IF shell.home.HOME \notin {None, ""} THEN <<shell.home.HOME, ".lya">>
  ELSE <<>>

(* PrivateContext::load: "text", "missing" or "unreadable". *)
PrivateContext(shell) ==
  LET home == LyaHome(shell)
  IN  IF home \in DOMAIN shell.context THEN shell.context[home] ELSE "missing"

(* load_required_private_context. *)
Prepared(shell) == LyaHome(shell) # <<>> /\ PrivateContext(shell) = "text"

(* `lya doctor`: shell.programs are the programs found along PATH.         *)
DoctorReady(shell) ==
  /\ LyaHome(shell) # <<>>
  /\ PrivateContext(shell) = "text"
  /\ {"git", "codex", "claude"} \subseteq shell.programs

-----------------------------------------------------------------------------
(* A persisted job: what drives it reads nothing else.                     *)
Job(path, name, task, configuration) ==
  [project |-> path, name |-> name, task |-> task, configuration |-> configuration]

-----------------------------------------------------------------------------
(* Job files.  A line is blank, a comment, malformed, or a project, a task *)
(* and an optional name.                                                   *)

(* Mutant: one job too many is let in. *)
EntryTooMany(state, line, base) ==
  LET path == Canonicalize(line.project, base)
  IN  CASE ~state.ok \/ line.kind \in {"blank", "comment"} -> state
        [] OTHER ->
             IF \/ line.kind = "malformed" \/ IsBlank(line.task)
                \/ path = Refused \/ Len(state.requests) > MaxRequests
             THEN [state EXCEPT !.ok = FALSE]
             ELSE [state EXCEPT !.requests =
                     Append(@, [project |-> path, name |-> NamedOr(line.name, path),
                                task |-> line.task])]

Entry(state, line, base) ==
  LET path == Canonicalize(line.project, base)
  IN  CASE ~state.ok \/ line.kind \in {"blank", "comment"} -> state
        [] OTHER ->
             IF \/ line.kind = "malformed" \/ IsBlank(line.task)
                \/ path = Refused \/ Len(state.requests) = MaxRequests
             THEN [state EXCEPT !.ok = FALSE]
             ELSE [state EXCEPT !.requests =
                     Append(@, [project |-> path, name |-> NamedOr(line.name, path),
                                task |-> line.task])]

NoEntries == [ok |-> TRUE, requests |-> <<>>]

(* The lines of a file, one after the other. *)
FileRead(content, base) == FoldLeft(LAMBDA s, line : Entry(s, line, base), NoEntries, content)

(* A file that is refused gives no request, as one without a job does.     *)
ParseJobFile(content, base) ==
  LET state == FileRead(content, base)
  IN  IF state.ok THEN state.requests ELSE <<>>

-----------------------------------------------------------------------------
(* What is asked for becomes jobs that all have the options of the command *)
(* line, unless these do not give the Git settings they need.              *)
Configured(requests, run, git) ==
  IF git = Refused THEN <<>>
  ELSE [i \in DOMAIN requests |->
          Job(requests[i].project, requests[i].name, requests[i].task, With(run, git))]

Request(path, task) == [project |-> path, name |-> ProjectName(path), task |-> task]

(* `lya run`: the job it starts, or none.                                  *)
RunJobs(o, shell) ==
  IF o = Refused \/ ~Prepared(shell) \/ IsBlank(o.task) THEN <<>>
  ELSE Configured(<<Request(o.project, o.task)>>, o.run, GitFor(o.run, shell.env))

(* `lya scheduler`: the jobs left in the queue, then those of the file;    *)
(* every job adopts the invocation's options.  A file that gives no        *)
(* request is refused with the queued jobs.                                *)
SchedulerJobs(o, shell) ==
  LET WithQueued(parsed) ==
        IF o.job_file # <<>> /\ parsed = <<>> THEN <<>>
        ELSE (IF o.resume_queued THEN shell.queued ELSE <<>>) \o parsed
  IN  IF o = Refused \/ ~Prepared(shell) THEN <<>>
      ELSE Configured(WithQueued(IF o.job_file = <<>> THEN <<>>
                                 ELSE ParseJobFile(shell.files[o.job_file[1]], shell.cwd)),
                      o.run, GitFor(o.run, shell.env))

(* `lya submit`: the jobs it asks the daemon for.                          *)
SubmitJobs(o, shell) ==
  IF o = Refused \/ LyaHome(shell) = <<>> THEN <<>>
  ELSE Configured(IF "file" \in DOMAIN o THEN ParseJobFile(shell.files[o.file], shell.cwd)
                  ELSE <<Request(o.project, o.task)>>,
                  o.run, GitFor(o.run, shell.env))

(* What a command line starts or asks the daemon for.                      *)
Started(arguments, shell) ==
  LET Starts(c) ==
        CASE c = Refused -> <<>>
          [] c # Refused /\ c.command = "run" -> RunJobs(ParseRun(c.rest, shell.cwd), shell)
          [] c # Refused /\ c.command = "scheduler" ->
               SchedulerJobs(ParseScheduler(c.rest), shell)
          [] c # Refused /\ c.command = "submit" ->
               SubmitJobs(ParseSubmit(c.rest, shell.cwd), shell)
          [] OTHER -> <<>>
  IN  Starts(Dispatch(arguments))

-----------------------------------------------------------------------------
(* The daemon's side.                                                      *)

(* RunOptions::to_run_configuration: what arrives is checked again.        *)
ToRunConfiguration(c) ==
  LET git == IF c.git = NoGit THEN NoGit ELSE GitPublishConfig(c.git)
  IN  IF \/ c.run.max_iterations = 0 \/ c.run.max_jobs = 0
         \/ git = Refused \/ (c.run.publish /\ git = NoGit)
      THEN Refused ELSE With(c.run, git)

(* accept_one: the repository is resolved and the job recorded as QUEUED.  *)
AcceptOne(request, cwd) ==
  LET path == Canonicalize(request.project, cwd)
  IN  IF path = Refused THEN [queued |-> FALSE]
      ELSE [queued |-> TRUE, job |-> [request EXCEPT !.project = path]]

IsValid(job) == ~IsBlank(job.task) /\ ToRunConfiguration(job.configuration) # Refused

ValidPlaces(jobs) == {i \in DOMAIN jobs : IsValid(jobs[i])}

(* A valid job is given to the scheduler by its name and its text. *)
SubmitOne(job, cwd) ==
  AcceptOne([job EXCEPT !.name = NamedOr(@, job.project), !.task = Trim(@)], cwd)

(* Mutant: a job that is not valid is passed over. *)
SkipInvalid(jobs, cwd) ==
  LET valid == Picked(jobs, ValidPlaces(jobs))
  IN  IF jobs = <<>> \/ Len(jobs) > MaxRequests THEN <<>>
      ELSE [i \in DOMAIN valid |-> SubmitOne(valid[i], cwd)]

(* DaemonState::submit: the jobs it refuses itself are answered before the *)
(* ones it hands to the scheduler.                                         *)
DaemonAccepts(jobs, cwd) ==
  LET valid == Picked(jobs, ValidPlaces(jobs))
      invalid == Picked(jobs, DOMAIN jobs \ ValidPlaces(jobs))
  IN  IF jobs = <<>> \/ Len(jobs) > MaxRequests THEN <<>>
      ELSE [i \in DOMAIN invalid |-> [queued |-> FALSE]]
           \o [i \in DOMAIN valid |-> SubmitOne(valid[i], cwd)]

(* Mutant: recovered work gets the daemon's defaults. *)
RecoverWithDefaults(job) ==
  [job EXCEPT !.configuration = With(RunConfiguration(Scan(RunGrammar, <<>>)), NoGit)]

(* recover: a QUEUED job is submitted again with the options it has.       *)
Recovered(job) == AcceptOne(job, "daemon").job

(* What the driver of a job records again when it starts it.               *)
Driven(job) ==
  LET c == job.configuration
      publishes == c.run.publish /\ c.git # NoGit
  IN  [job EXCEPT !.configuration =
         With([c.run EXCEPT !.publish = publishes], IF publishes THEN c.git ELSE NoGit)]

(* `lya submit` succeeds when every job was queued.                        *)
SubmitSucceeds(outcomes) == outcomes # <<>> /\ \A i \in DOMAIN outcomes : outcomes[i].queued

-----------------------------------------------------------------------------
Identity == [name |-> "n", email |-> "e", remote |-> None, branch |-> "b"]

FileLine(k, t, p, n) == [kind |-> k, task |-> t, project |-> Relative(p), name |-> n]

FileLines ==
  {FileLine(k, t, p, n) :
     k \in {"job"}, t \in {<<" ", "word">>, <<" ">>}, p \in {"dir", "missing"},
     n \in {" ", "name"}}
  \cup {FileLine(k, <<>>, ".", "") : k \in {"comment", "malformed"}}

NoBranch == [Identity EXCEPT !.branch = " "]

(* A shell on a machine that is ready, with a file and a queue of jobs.    *)
Shell(env, content, queued) ==
  [cwd |-> "shell", env |-> env, home |-> [LYA_HOME |-> "h", HOME |-> None],
   context |-> [h \in {<<"h">>} |-> "text"], programs |-> {"git", "codex", "claude"},
   files |-> [f \in {"file"} |-> content], queued |-> queued]

(* The jobs a submission leaves on disk once the daemon has been started   *)
(* again and its driver has begun: none unless all of them are queued.     *)
Delivered(jobs) ==
  LET Restarted(outcomes) ==
        IF ~SubmitSucceeds(outcomes) THEN <<>>
        ELSE [i \in DOMAIN outcomes |-> Driven(Recovered(outcomes[i].job))]
  IN  Restarted(DaemonAccepts(jobs, "daemon"))

Trimmed(jobs) == [i \in DOMAIN jobs |-> [jobs[i] EXCEPT !.task = Trim(@)]]

(* A task given to `lya submit` becomes the job `lya run` would drive with *)
(* the same arguments: same project although the daemon runs elsewhere,    *)
(* same limits, same Git identity although the daemon has another          *)
(* environment, also when the daemon was restarted in between; only the    *)
(* blanks around the task are gone.  What one refuses the other refuses.   *)
SubmitMeansRun(line, env) ==
  LET shell == Shell(env, <<>>, <<>>)
  IN  Delivered(Started(<<"submit">> \o line, shell)) = Trimmed(Started(<<"run">> \o line, shell))

SubmittedMeansRun ==
  \A line \in Lines({"--project", "--max-jobs", "--publish", "--browser", "2", "0",
                     "dir", "missing", " "}, 4), env \in {Identity, NoBranch} :
    SubmitMeansRun(line, env)

(* The same job file means the same jobs to `lya scheduler` and to         *)
(* `lya submit --file`, and a file with a line nobody understands, a       *)
(* project nobody finds or too many jobs gives none to either, nor the     *)
(* jobs that are queued already.                                           *)
Agree(jobs, queued, all) ==
  IF jobs = <<>> THEN all = <<>>
  ELSE /\ Tail(all) = jobs
       /\ all[1] = [queued[1] EXCEPT !.configuration = jobs[1].configuration]

FileMeansTheSame(content, env, publish) ==
  LET shell == Shell(env, content, <<>>)
      queued == Started(<<"run", "dir">>, shell)
      scheduled == Started(<<"scheduler">> \o publish \o <<"file">>, shell)
  IN  /\ Delivered(Started(<<"submit">> \o publish \o <<"--file", "file">>, shell)) = Trimmed(scheduled)
      /\ Agree(scheduled, queued,
               Started(<<"scheduler", "--resume-queued">> \o publish \o <<"file">>,
                       [shell EXCEPT !.queued = queued]))

FilesMeanTheSame ==
  \A content \in Lines(FileLines, MaxRequests + 1), env \in {Identity, NoBranch},
     publish \in {<<>>, <<"--publish">>} : FileMeansTheSame(content, env, publish)

(* A machine that `lya doctor` calls ready gets past every preparation:    *)
(* whatever the home is named by, a task that is accepted there becomes a  *)
(* job, and a machine without a home or a readable context starts none     *)
(* itself although its shell may still hand work to a daemon.              *)
IsPrepared(shell) ==
  /\ DoctorReady(shell) =>
       /\ Started(<<"run", "dir">>, shell) # <<>>
       /\ Started(<<"submit", "dir">>, shell) # <<>>
  /\ Started(<<"run", "dir">>, shell) # <<>> => Started(<<"submit", "dir">>, shell) # <<>>

ReadyMeansPrepared ==
  \A lya_home \in {None, "", "h"}, home \in {None, "", "u"},
     context \in [{<<"h">>, <<"u", ".lya">>} -> {"text", "missing", "unreadable"}],
     programs \in SUBSET {"git", "codex", "claude"} :
    IsPrepared([Shell(Identity, <<>>, <<>>) EXCEPT
                  !.home = [LYA_HOME |-> lya_home, HOME |-> home],
                  !.context = context, !.programs = programs])

(* Every job of a submission is answered, and the queued answers are, in   *)
(* the submitted order, the jobs that are valid and have a repository.     *)
Answered(jobs, good) ==
  LET outcomes == DaemonAccepts(jobs, "daemon")
      queued == Picked(outcomes, {i \in DOMAIN outcomes : outcomes[i].queued})
      kept == Picked(jobs, good)
  IN  /\ Len(outcomes) = Len(jobs)
      /\ [i \in DOMAIN queued |-> queued[i].job.task] = [i \in DOMAIN kept |-> Trim(kept[i].task)]

AskedFor(p, t, l) == Job(Relative(p), "", t, With(RunConfiguration(Scan(RunGrammar, l)), NoGit))

SubmissionsAreAnswered ==
  LET Asked == {AskedFor(p, t, l) : p \in {"dir", "missing"}, t \in {<<"word">>, <<"2">>, <<" ">>},
                                    l \in {<<>>, <<"--publish">>}}
      Good(j) == j.project.name = "dir" /\ j.task # <<" ">> /\ ~j.configuration.run.publish
  IN  \A jobs \in Lines(Asked, MaxRequests) \ {<<>>} :
        Answered(jobs, {i \in DOMAIN jobs : Good(jobs[i])})
=============================================================================
