-------------------------------- MODULE MCAgent --------------------------------
(***************************************************************************)
(* Agent on a small instance.  How the calls that a model writes as text   *)
(* are read is a matter of operators, which TLC evaluates once, in the     *)
(* initial states.                                                         *)
(***************************************************************************)
EXTENDS Agent

\* A call that Qwen writes as text is made with exactly the parameters that were written,
\* without indentation and the blank lines around them, and not made if there are none
\* (llm/ollama.rs).
CallsAreRead == Init => QwenCallsAreRead
===============================================================================
