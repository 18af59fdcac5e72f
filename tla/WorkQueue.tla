------------------------------- MODULE WorkQueue -------------------------------
(***************************************************************************)
(* What the scheduler of src/orchestrator/scheduler.rs promises            *)
(* (docs/scheduler.md): at most Slots jobs run at a time, and the jobs of  *)
(* one repository run one after the other, in the order they were          *)
(* admitted.  A job that was handed out but not started may be put back.   *)
(***************************************************************************)
EXTENDS Naturals, Sequences, FiniteSets

CONSTANTS Jobs, RepositoryOf, Slots

VARIABLES
    order,     \* the admitted jobs, in the order of their admission
    status     \* what became of each job

queueVars == <<order, status>>

Running == {j \in Jobs : status[j] = "running"}

\* Every job of the same repository that was admitted before the i-th is done.
ItsTurn(i) ==
    \A k \in 1..i-1 : RepositoryOf[order[k]] = RepositoryOf[order[i]] => status[order[k]] = "done"

Init ==
    /\ order \in Seq(Jobs)
    /\ \A i, k \in DOMAIN order : order[i] = order[k] => i = k
    /\ status = [j \in Jobs |-> IF \E i \in DOMAIN order : order[i] = j THEN "waiting" ELSE "absent"]

Admit(j) ==
    /\ status[j] = "absent"
    /\ order' = Append(order, j)
    /\ status' = [status EXCEPT ![j] = "waiting"]

Start(i) ==
    /\ status[order[i]] = "waiting"
    /\ Cardinality(Running) < Slots
    /\ ItsTurn(i)
    /\ status' = [status EXCEPT ![order[i]] = "running"]
    /\ UNCHANGED order

PutBack(j) ==
    /\ status[j] = "running"
    /\ status' = [status EXCEPT ![j] = "waiting"]
    /\ UNCHANGED order

Finish(j) ==
    /\ status[j] = "running"
    /\ status' = [status EXCEPT ![j] = "done"]
    /\ UNCHANGED order

Next ==
    \/ \E j \in Jobs : Admit(j) \/ PutBack(j) \/ Finish(j)
    \/ \E i \in DOMAIN order : Start(i)

Spec == Init /\ [][Next]_queueVars

\* There is a slot for every job that runs, and a job runs or is done only when the jobs of
\* its repository that were admitted before it are done.
Promise ==
    /\ Cardinality(Running) <= Slots
    /\ \A i \in DOMAIN order : status[order[i]] \in {"running", "done"} => ItsTurn(i)

===============================================================================
