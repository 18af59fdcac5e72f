------------------------------- MODULE Provider -------------------------------
(***************************************************************************)
(* One provider call at a time: the Supervisor (codex) or the Executor     *)
(* (claude) as a child process (src/process.rs, src/process/tree.rs), its  *)
(* timeout and its cancellation, the helper processes it starts, the file  *)
(* it leaves its decision in (supervisor.rs), and what the call returns.   *)
(*                                                                         *)
(* Call n has a child and at most one helper.  A helper that holds the     *)
(* child's output pipe keeps the pipe open; a quiet one does not; one      *)
(* outside the claimed tree may, until it ends.                            *)
(***************************************************************************)
EXTENDS Decision, Naturals, FiniteSets

CONSTANTS
    MaxCalls,     \* bound: calls that are made
    MaxCrashes    \* bound: how often Lya dies

ASSUME ProviderAssumption == MaxCalls \in Nat \ {0} /\ MaxCrashes \in Nat

Calls == 1 .. MaxCalls

VARIABLES
    windows,    \* the platform: a Job Object claims the tree, or a process group
    n,          \* the current call, 0 before the first
    kind,       \* whom each call asks, "supervisor" or "executor"
    at,         \* where ProcessSpec::run and its caller are
    child,      \* the direct child of each call
    helper,     \* its helper
    code,       \* how the child of the current call ended
    stdin,      \* the task that writes the prompt
    claimed,    \* the tree of the current call is Lya's
    cancelled,  \* cancel(): "no", "set" (the flag), "notified" (whoever listens)
    listening,  \* its Notified was created
    woken,      \* and was notified
    expired,    \* the timeout has passed
    output,     \* the call whose decision is in the output file, 0 when there is none
    result,     \* what the call returned
    decided,    \* the call whose decision was read
    orphans,    \* calls whose Lya died before they were over
    crashes

procVars == <<child, helper, code, stdin, claimed>>
cancelVars == <<cancelled, listening, woken, expired>>
resultVars == <<output, result, decided>>
lifeVars == <<windows, orphans, crashes>>
vars == <<n, kind, at, procVars, cancelVars, resultVars, lifeVars>>

Init ==
    /\ windows \in BOOLEAN
    /\ n = 0 /\ at = "idle"
    /\ kind = [c \in 0 .. MaxCalls |-> "supervisor"]
    /\ child = [c \in 0 .. MaxCalls |-> "none"]
    /\ helper = [c \in 0 .. MaxCalls |-> "none"]
    /\ code = "none" /\ stdin = "none" /\ claimed = FALSE
    /\ cancelled = "no" /\ listening = FALSE /\ woken = FALSE /\ expired = FALSE
    /\ output = 0 /\ result = "none" /\ decided = 0
    /\ orphans = {} /\ crashes = 0

Return(how) == result' = how /\ at' = "over"

\* Whoever belongs to the tree: not a helper started before the tree was claimed.
InTree(h) == h \in {"member", "quiet"}

\* ProcessTree is dropped: a Job Object kills what is left in it, a group does not.
TreeDropped(h) == IF windows /\ InTree(h) THEN "gone" ELSE h

-----------------------------------------------------------------------------
(***************************************************************************)
(* The call, up to the child.                                              *)
(***************************************************************************)

\* decide() or execute(), with a fresh cancellation.
Begin ==
    /\ at \in {"idle", "over"}
    /\ n < MaxCalls
    /\ n' = n + 1
    /\ \/ kind' = [kind EXCEPT ![n + 1] = "supervisor"] /\ at' = "prepare"
       \/ kind' = [kind EXCEPT ![n + 1] = "executor"] /\ at' = "validate"
    /\ code' = "none" /\ stdin' = "none" /\ claimed' = FALSE
    /\ cancelled' = "no" /\ listening' = FALSE /\ woken' = FALSE /\ expired' = FALSE
    /\ result' = "none" /\ decided' = 0
    /\ UNCHANGED <<child, helper, output, lifeVars>>

\* ExecutorRequest::validate.
Validate ==
    /\ at = "validate"
    /\ \/ Return("invalid_request")
       \/ at' = "spawn" /\ UNCHANGED result
    /\ UNCHANGED <<n, kind, procVars, cancelVars, output, decided, lifeVars>>

\* Mutant: the file of an earlier call is left for the next one to overwrite.
KeepOutput ==
    /\ at = "prepare"
    /\ at' = "spawn"
    /\ UNCHANGED <<n, kind, procVars, cancelVars, resultVars, lifeVars>>

\* prepare_output_files: the schema is written, the old decision removed.
PrepareOutputFiles ==
    /\ at = "prepare"
    /\ \/ output' = 0 /\ at' = "spawn" /\ UNCHANGED result
       \/ Return("setup") /\ UNCHANGED output
    /\ UNCHANGED <<n, kind, procVars, cancelVars, decided, lifeVars>>

\* Mutant: a child that cannot be started returns its missing exit code.
SpawnReturnsCode ==
    /\ at = "spawn"
    /\ \/ child' = [child EXCEPT ![n] = "running"] /\ stdin' = "writing" /\ at' = "attach"
          /\ UNCHANGED result
       \/ Return("no_code") /\ UNCHANGED <<child, stdin>>
    /\ UNCHANGED <<n, kind, helper, code, claimed, cancelVars, output, decided, lifeVars>>

\* The child is started in a tree of its own, with its streams piped.
Spawn ==
    /\ at = "spawn"
    /\ \/ child' = [child EXCEPT ![n] = "running"] /\ stdin' = "writing" /\ at' = "attach"
          /\ UNCHANGED result
       \/ \E how \in {"missing", "process"} : Return(how) /\ UNCHANGED <<child, stdin>>
    /\ UNCHANGED <<n, kind, helper, code, claimed, cancelVars, output, decided, lifeVars>>

\* ProcessTree::attach, then the tasks that write and read the streams.  Windows
\* may refuse the Job Object; the call goes on without one.
AttachTree ==
    /\ at = "attach"
    /\ claimed' \in (IF windows THEN BOOLEAN ELSE {TRUE})
    /\ at' = "listen"
    /\ UNCHANGED <<n, kind, child, helper, code, stdin, cancelVars, resultVars, lifeVars>>

-----------------------------------------------------------------------------
(***************************************************************************)
(* Waiting: the child, the cancellation and the timeout race.              *)
(***************************************************************************)

\* cancelled(): the notification is created first ...
Listen ==
    /\ at = "listen"
    /\ listening' = TRUE
    /\ at' = "check"
    /\ UNCHANGED <<n, kind, procVars, cancelled, woken, expired, resultVars, lifeVars>>

\* Mutant: the notification alone is relied on.
WaitWithoutChecking ==
    /\ at = "check"
    /\ at' = "wait"
    /\ UNCHANGED <<n, kind, procVars, cancelVars, resultVars, lifeVars>>

\* ... then the flag is read.
CheckCancelled ==
    /\ at = "check"
    /\ at' = IF cancelled # "no" THEN "cancel" ELSE "wait"
    /\ UNCHANGED <<n, kind, procVars, cancelVars, resultVars, lifeVars>>

\* Another task cancels: the flag is set ...
CancelSets ==
    /\ at \notin {"idle", "over", "down"}
    /\ cancelled = "no"
    /\ cancelled' = "set"
    /\ UNCHANGED <<n, kind, at, procVars, listening, woken, expired, resultVars, lifeVars>>

\* ... then whoever listens is woken; whoever listens later is not.
CancelNotifies ==
    /\ cancelled = "set"
    /\ cancelled' = "notified"
    /\ woken' = listening
    /\ UNCHANGED <<n, kind, at, procVars, listening, expired, resultVars, lifeVars>>

\* Only the Supervisor has a timeout inside a job.
Expire ==
    /\ kind[n] = "supervisor"
    /\ at \in {"listen", "check", "wait"}
    /\ ~expired
    /\ expired' = TRUE
    /\ UNCHANGED <<n, kind, at, procVars, cancelled, listening, woken, resultVars, lifeVars>>

\* child.wait() is ready: the child is reaped.
ChildEnded ==
    /\ at = "wait"
    /\ child[n] = "ended"
    /\ child' = [child EXCEPT ![n] = "reaped"]
    /\ at' = "collect"
    /\ UNCHANGED <<n, kind, helper, code, stdin, claimed, cancelVars, resultVars, lifeVars>>

Cancelled ==
    /\ at = "wait"
    /\ woken
    /\ at' = "cancel"
    /\ UNCHANGED <<n, kind, procVars, cancelVars, resultVars, lifeVars>>

TimedOut ==
    /\ at = "wait"
    /\ expired
    /\ at' = "timeout"
    /\ UNCHANGED <<n, kind, procVars, cancelVars, resultVars, lifeVars>>

\* Mutant: only the direct child is killed.
KillChildOnly ==
    /\ at \in {"cancel", "timeout"}
    /\ child' = [child EXCEPT ![n] = "ended"]
    /\ code' = "killed"
    /\ at' = IF at = "cancel" THEN "cancelling" ELSE "timing_out"
    /\ UNCHANGED <<n, kind, helper, stdin, claimed, cancelVars, resultVars, lifeVars>>

\* terminate_tree_then_reap: the whole tree is killed ...
TerminateTree ==
    /\ at \in {"cancel", "timeout"}
    /\ helper' = [helper EXCEPT ![n] = IF InTree(@) THEN "gone" ELSE @]
    /\ child' = [child EXCEPT ![n] = "ended"]
    /\ code' = "killed"
    /\ at' = IF at = "cancel" THEN "cancelling" ELSE "timing_out"
    /\ UNCHANGED <<n, kind, stdin, claimed, cancelVars, resultVars, lifeVars>>

\* The output of a call ends when nobody holds the pipe any more.
PipesClosed == child[n] # "running" /\ helper[n] \notin {"member", "outside"}

\* ... then the child is reaped, and the output read to its end.
EndOfKilled ==
    /\ at \in {"cancelling", "timing_out"}
    /\ PipesClosed
    /\ child' = [child EXCEPT ![n] = "reaped"]
    /\ helper' = [helper EXCEPT ![n] = TreeDropped(@)]
    /\ stdin' = "none"
    /\ Return(IF at = "cancelling" THEN "cancelled" ELSE "timeout")
    /\ UNCHANGED <<n, kind, code, claimed, cancelVars, output, decided, lifeVars>>

\* A child that ended by itself: the prompt and the output are waited for.
Collect ==
    /\ at = "collect"
    /\ PipesClosed
    /\ \/ stdin' = "written" /\ at' = "classify" /\ UNCHANGED result
       \/ stdin' = "broken" /\ Return("process")
    /\ helper' = [helper EXCEPT ![n] = TreeDropped(@)]
    /\ UNCHANGED <<n, kind, child, code, claimed, cancelVars, output, decided, lifeVars>>

\* What an exit code and an output mean (decide, execute, classify_failure).  A
\* zero exit code is a decision or a report unless the output cannot be read.
Classify ==
    /\ at = "classify"
    /\ \/ /\ code = "failure"
          /\ \E stderrSays \in BOOLEAN, envelope \in Envelopes :
                Return(IF QuotaRecognised(stderrSays, envelope) THEN "quota" ELSE "failed")
          /\ UNCHANGED decided
       \/ /\ code = "success" /\ kind[n] = "executor"
          /\ \E how \in {"report", "invalid_output"} : Return(how)
          /\ UNCHANGED decided
       \/ /\ code = "success" /\ kind[n] = "supervisor" /\ output # 0
          /\ \/ Return("decision") /\ decided' = output
             \/ Return("invalid_decision") /\ UNCHANGED decided
       \/ /\ code = "success" /\ kind[n] = "supervisor" /\ output = 0
          /\ Return("invalid_output")
          /\ UNCHANGED decided
    /\ UNCHANGED <<n, kind, procVars, cancelVars, output, lifeVars>>

-----------------------------------------------------------------------------
(***************************************************************************)
(* The providers, and the death of Lya.                                    *)
(***************************************************************************)

\* On Windows a helper started before the claim, or without one, is outside it.
StartHelper(c) ==
    /\ child[c] = "running"
    /\ helper[c] = "none"
    /\ \E h \in IF windows /\ ~claimed THEN {"outside"} ELSE {"member", "quiet"} :
          helper' = [helper EXCEPT ![c] = h]
    /\ UNCHANGED <<n, kind, at, child, code, stdin, claimed, cancelVars, resultVars, lifeVars>>

HelperEnds(c) ==
    /\ helper[c] \in {"member", "quiet", "outside"}
    /\ helper' = [helper EXCEPT ![c] = "gone"]
    /\ UNCHANGED <<n, kind, at, child, code, stdin, claimed, cancelVars, resultVars, lifeVars>>

\* codex writes its last message to the output file of the job.
WriteOutput(c) ==
    /\ child[c] = "running"
    /\ kind[c] = "supervisor"
    /\ output' = c
    /\ UNCHANGED <<n, kind, at, procVars, cancelVars, result, decided, lifeVars>>

ChildExits(c) ==
    /\ child[c] = "running"
    /\ child' = [child EXCEPT ![c] = IF c \in orphans THEN "reaped" ELSE "ended"]
    /\ code' \in IF c = n /\ c \notin orphans THEN {"success", "failure"} ELSE {code}
    /\ UNCHANGED <<n, kind, at, helper, stdin, claimed, cancelVars, resultVars, lifeVars>>

\* Lya dies.  On Windows the tree goes with it.
Crash ==
    /\ at \notin {"idle", "over", "down"}
    /\ crashes < MaxCrashes
    /\ crashes' = crashes + 1
    /\ at' = "down"
    /\ orphans' = orphans \cup {n}
    /\ child' = [child EXCEPT ![n] =
                   IF @ = "ended" \/ (@ = "running" /\ windows /\ claimed) THEN "reaped" ELSE @]
    /\ helper' = [helper EXCEPT ![n] = TreeDropped(@)]
    /\ UNCHANGED <<windows, n, kind, code, stdin, claimed, cancelVars, resultVars>>

Restart ==
    /\ at = "down"
    /\ at' = "idle"
    /\ UNCHANGED <<n, kind, procVars, cancelVars, resultVars, lifeVars>>

-----------------------------------------------------------------------------
RunStep ==
    \/ Validate \/ PrepareOutputFiles \/ Spawn \/ AttachTree
    \/ Listen \/ CheckCancelled
    \/ ChildEnded \/ Cancelled \/ TimedOut
    \/ TerminateTree \/ EndOfKilled \/ Collect \/ Classify

Next ==
    \/ Begin \/ RunStep \/ CancelSets \/ CancelNotifies \/ Expire
    \/ \E c \in Calls :
          StartHelper(c) \/ HelperEnds(c) \/ WriteOutput(c) \/ ChildExits(c)
    \/ Crash \/ Restart

\* The runtime polls the call and the canceller finishes cancel(); a timer fires.
\* Nothing is assumed of the providers.
Spec ==
    /\ Init /\ [][Next]_vars
    /\ WF_vars(RunStep) /\ WF_vars(CancelNotifies) /\ WF_vars(Expire)

-----------------------------------------------------------------------------
Results == {"none", "invalid_request", "setup", "missing", "process", "cancelled", "timeout",
            "quota", "failed", "report", "decision", "invalid_decision", "invalid_output"}

TypeOK ==
    /\ n \in 0 .. MaxCalls
    /\ windows \in BOOLEAN /\ claimed \in BOOLEAN
    /\ kind \in [0 .. MaxCalls -> {"supervisor", "executor"}]
    /\ at \in {"idle", "prepare", "validate", "spawn", "attach", "listen", "check", "wait",
               "cancel", "timeout", "cancelling", "timing_out", "collect", "classify", "over",
               "down"}
    /\ child \in [0 .. MaxCalls -> {"none", "running", "ended", "reaped"}]
    /\ helper \in [0 .. MaxCalls -> {"none", "member", "quiet", "outside", "gone"}]
    /\ code \in {"none", "success", "failure", "killed"}
    /\ stdin \in {"none", "writing", "written", "broken"}
    /\ cancelled \in {"no", "set", "notified"}
    /\ {listening, woken, expired} \subseteq BOOLEAN
    /\ output \in 0 .. MaxCalls /\ decided \in 0 .. MaxCalls
    /\ result \in Results
    /\ orphans \subseteq Calls
    /\ crashes \in 0 .. MaxCrashes

\* A call that reports a cancellation or a timeout leaves nothing of its tree behind
\* (docs/autonomous-jobs.md "Provider process-tree cancellation").
NothingOutlivesAKill ==
    result \in {"cancelled", "timeout"} => child[n] = "reaped" /\ ~InTree(helper[n])

\* The decision a review returns was written by that review's own codex, never by an
\* earlier one, unless that one outlived a Lya that died
\* (prepare_output_files).
DecisionIsOfThisCall ==
    result = "decision" => decided = n \/ decided \in orphans

\* A call ends as what it was: with its own decision, which a restart keeps, or as
\* a quota only if the provider said so.
ResultsAreTheCalls ==
    /\ TypeOK /\ DecisionIsOfThisCall
    /\ Init => DecisionsSurviveARestart /\ QuotaIsADiagnostic

\* Whoever is cancelled while its child runs is over soon, even when the child never
\* ends by itself; only a provider that had ended already, or a helper outside the
\* tree, makes Lya wait for the rest of the output (ProcessCancellation).
CancellationEndsTheCall ==
    (at \in {"listen", "check", "wait"} /\ cancelled # "no")
        ~> (at \in {"over", "down"} \/ at = "collect" \/ helper[n] = "outside")

===============================================================================
