-------------------------------- MODULE MCHome --------------------------------
(* Home on small instances: every job belongs to the same repository.  How *)
(* the processes of a home read their command lines (Arguments), submit    *)
(* work (Submission) and list it (Inventory) is a matter of operators,     *)
(* which TLC evaluates once, in the initial state.                         *)
EXTENDS Home, Submission

CONSTANT shared

SameRepository == [j \in Jobs |-> shared]

\* The same task means the same job whichever way it is given: typed, submitted,
\* forwarded to another process, or read from a file (main.rs, jobs_file.rs).
WorkMeansTheSame ==
    Init => /\ SubmittedMeansRun /\ FilesMeanTheSame /\ SubmissionsAreAnswered
            /\ ForwardedMeansTheSame /\ SentMeansTyped /\ MistypedOptionsAreRefused
            /\ ExecutorMeansRun /\ ReadyMeansPrepared

\* What is listed as resumable is what a resume accepts, and a write that was cut
\* short hides no job (inventory.rs, state.rs).
JobsAreFound == Init => ListingAgreesWithResume /\ RecordsSurviveWrites

===============================================================================
