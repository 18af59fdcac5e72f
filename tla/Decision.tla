------------------------------- MODULE Decision -------------------------------
(***************************************************************************)
(* What Lya makes of a provider's answer: the Supervisor's decision        *)
(* (src/orchestrator/supervisor.rs, written to disk with every job record  *)
(* and read back from it) and the classification of a failed call          *)
(* (supervisor.rs, executor.rs).  A text is either missing, null, blank or *)
(* a real text.                                                            *)
(***************************************************************************)

Actions == {"CLAUDE", "ACCEPT", "HUMAN", "STOP"}
Texts == {"missing", "null", "blank", "text"}
RawDecisions ==
    [action : Actions \cup {"other"}, prompt : Texts, commit_title : Texts,
     next_prompt : Texts, reason : Texts]

Required(v) == v = "text"
NonEmptyOptional(v) == v # "blank"
RejectPresent(v) == v \notin {"blank", "text"}

\* Mutant: null counts as missing.
NullIsMissing(v) == v = "text"

NullableOptional(v) == v \in {"null", "text"}

\* into_decision accepts.
Accepted(raw) ==
    \/ /\ raw.action = "CLAUDE"
       /\ RejectPresent(raw.commit_title) /\ RejectPresent(raw.next_prompt)
       /\ Required(raw.prompt)
       /\ NonEmptyOptional(raw.reason)
    \/ /\ raw.action = "ACCEPT"
       /\ RejectPresent(raw.prompt)
       /\ Required(raw.commit_title)
       /\ NullableOptional(raw.next_prompt)
       /\ NonEmptyOptional(raw.reason)
    \/ /\ raw.action \in {"HUMAN", "STOP"}
       /\ RejectPresent(raw.prompt) /\ RejectPresent(raw.commit_title)
       /\ RejectPresent(raw.next_prompt)
       /\ Required(raw.reason)

\* The fields an accepted decision keeps; the others do not exist any more.
Kept(action) ==
    CASE action = "CLAUDE" -> {"prompt", "reason"}
      [] action = "ACCEPT" -> {"commit_title", "next_prompt", "reason"}
      [] OTHER -> {"reason"}

Decision(raw) ==
    [action |-> raw.action,
     given |-> {f \in Kept(raw.action) : raw[f] = "text"}]

\* A decision is written with all five fields.
Serialize(decision) ==
    [f \in {"action", "prompt", "commit_title", "next_prompt", "reason"} |->
        CASE f = "action" -> decision.action
          [] f \in decision.given -> "text"
          [] OTHER -> "null"]

\* What SUPERVISOR_DECISION_SCHEMA and the role prompt ask the Supervisor for: all
\* five fields, those that do not apply set to null, and no empty text.
Conforming(raw) ==
    /\ \A f \in DOMAIN raw \ {"action"} : raw[f] \in {"null", "text"}
    /\ CASE raw.action = "CLAUDE" ->
              raw.prompt = "text" /\ raw.commit_title = "null" /\ raw.next_prompt = "null"
         [] raw.action = "ACCEPT" -> raw.commit_title = "text" /\ raw.prompt = "null"
         [] raw.action \in {"HUMAN", "STOP"} ->
              /\ raw.reason = "text"
              /\ raw.prompt = "null" /\ raw.commit_title = "null" /\ raw.next_prompt = "null"
         [] OTHER -> FALSE

\* A decision that Lya acts on can be written into the job's record and read back
\* as the same decision, and everything the prompt asks for is accepted: otherwise
\* a job that was interrupted after a review could not be loaded again
\* (Serialize and Deserialize for SupervisorDecision).
DecisionsSurviveARestart ==
    \A raw \in RawDecisions :
        /\ Conforming(raw) => Accepted(raw)
        /\ Accepted(raw) =>
              /\ Accepted(Serialize(Decision(raw)))
              /\ Decision(Serialize(Decision(raw))) = Decision(raw)

-----------------------------------------------------------------------------
(***************************************************************************)
(* A call that failed.  The envelope is what Claude Code printed; "says"   *)
(* tells whether message_indicates_quota recognises a text.                *)
(***************************************************************************)
Envelopes ==
    [json : BOOLEAN, isError : BOOLEAN, subtypeSays : BOOLEAN, resultSays : BOOLEAN]

\* Mutant: the answer is searched as well.
AnyTextSays(stderrSays, envelope) ==
    stderrSays \/ (envelope.json /\ (envelope.subtypeSays \/ envelope.resultSays))

\* classify_failure: the structured signal, then the diagnostics.
QuotaRecognised(stderrSays, envelope) ==
    \/ envelope.json /\ envelope.isError /\ envelope.subtypeSays
    \/ stderrSays
    \/ envelope.json /\ envelope.isError /\ envelope.resultSays

\* Text that is the Executor's answer to the task never parks a job as waiting for
\* quota (executor.rs: "It never reads a successful envelope's result").
QuotaIsADiagnostic ==
    \A envelope \in Envelopes :
        QuotaRecognised(FALSE, envelope) => envelope.json /\ envelope.isError
===============================================================================
