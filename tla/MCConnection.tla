----------------------------- MODULE MCConnection -----------------------------
(* Connection on a small instance.  What the daemon and its clients read   *)
(* (Wire) and write (Narration) is a matter of operators, which TLC        *)
(* evaluates once, in the initial state.                                   *)
EXTENDS Connection, Wire, Narration

MessagesArriveWhole == RequestsArriveWhole /\ AnswersArriveWhole
NarrationIsReadable == EveryLineNamesItsJob /\ CutTextSaysSo /\ DaemonHistoryIsKept

\* What is written to a shared stream is understood by whoever reads it.  Requests and
\* answers are read as they were sent, or refused: a connection that is cut, chunked or
\* too long never yields another message (transport.rs, protocol.rs).  What several jobs
\* and a daemon print at once can be told apart, and nothing is shortened without saying
\* so (orchestrator/events.rs, daemon/events.rs).
StreamsAreUnderstood == Init => MessagesArriveWhole /\ NarrationIsReadable

===============================================================================
