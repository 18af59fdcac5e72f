---------------------------- MODULE SchedulerProofs ----------------------------
(***************************************************************************)
(* What the scheduler keeps for any number of workers, jobs and            *)
(* repositories: two workers never have the same repository, a stop        *)
(* reaches every job, no work is lost or doubled, and the scheduler is a   *)
(* work queue.                                                             *)
(***************************************************************************)
EXTENDS Scheduler, FiniteSetTheorems, TLAPS

\* What a worker between take_runnable and release has: an entry, and that
\* entry's repository in QueueState.active.
OwnersAreActive ==
    \A w \in Workers : at[w] \in Owning => entry[w] \in Jobs /\ RepositoryOf[entry[w]] \in active

\* The inductive invariant.  RepositoryExclusion alone is not inductive: a worker
\* takes a repository because it is not in "active", so everything a worker owns
\* has to be there.
Inv == TypeOK /\ OwnersAreActive /\ RepositoryExclusion

-----------------------------------------------------------------------------

\* QueueState::take_runnable removes one entry from the queue: what is left is
\* still a queue of jobs.
LEMMA RemovingKeepsTheQueue ==
    ASSUME NEW s \in Seq(Jobs), NEW i \in DOMAIN s
    PROVE  Without(s, i) \in Seq(Jobs) /\ s[i] \in Jobs
<1>1. i \in 1..Len(s)
  OBVIOUS
<1>2. SubSeq(s, 1, i - 1) \in Seq(Jobs)
  BY <1>1
<1>3. SubSeq(s, i + 1, Len(s)) \in Seq(Jobs)
  BY <1>1
<1>4. QED
  BY <1>1, <1>2, <1>3 DEF Without

\* Init: nobody has anything.
LEMMA InitInv == Init => Inv
<1>1. ASSUME Init PROVE Inv
  <2>1. pending \in Seq(Jobs)
    <3>1. Cardinality(Jobs) \in Nat
      BY SchedulerAssumption, FS_CardinalityType
    <3>2. \A s \in Enumerations : s \in Seq(Jobs)
      BY <3>1 DEF Enumerations
    <3>3. <<>> \in Seq(Jobs)
      OBVIOUS
    <3>4. QED
      BY <1>1, <3>2, <3>3 DEF Init
  <2>2. TypeOK
    BY <1>1, <2>1, SchedulerAssumption DEF Init, TypeOK, WorkerSteps, Submissions, Records, Reports
  <2>3. OwnersAreActive /\ RepositoryExclusion
    BY <1>1 DEF Init, OwnersAreActive, RepositoryExclusion, Owns, Owning
  <2>4. QED
    BY <2>2, <2>3 DEF Inv
<1>2. QED
  BY <1>1

-----------------------------------------------------------------------------
(* Every step keeps the types.                                             *)

\* What a submission does: SchedulerAdmission::submit and ::accept_one.
LEMMA SubmitKeepsTypes ==
    ASSUME TypeOK, NEW j \in Jobs, Submit(j) PROVE TypeOK'
<1>1. CASE SubmitChecks(j)
  BY <1>1 DEF TypeOK, SubmitChecks, Submissions, queueVars, stopVars, controlVars, workerVars
<1>2. CASE AcceptOne(j)
  BY <1>2 DEF TypeOK, AcceptOne, Submissions, Records, queueVars, stopVars, controlVars, workerVars
<1>3. CASE RejectOne(j)
  BY <1>3 DEF TypeOK, RejectOne, Submissions, Reports, queueVars, stopVars, controlVars, workerVars
<1>4. CASE Enqueue(j)
  BY <1>4 DEF TypeOK, Enqueue, Submissions, stopVars, controlVars, workerVars
<1>5. CASE AnswerSubmission(j)
  BY <1>5 DEF TypeOK, AnswerSubmission, AnnounceProgress, Submissions, queueVars, stopVars, controlVars, workerVars
<1>6. QED
  BY <1>1, <1>2, <1>3, <1>4, <1>5 DEF Submit

\* What a worker does before it has an entry.
LEMMA SelectionKeepsTypes ==
    ASSUME TypeOK, NEW w \in Workers,
           CheckStop(w) \/ MarkUnchanged(w) \/ TakeRunnable(w) \/ CheckEmpty(w) \/ CheckAdmission(w) \/ Awake(w)
    PROVE  TypeOK'
<1>1. CASE CheckStop(w) \/ MarkUnchanged(w)
  BY <1>1 DEF TypeOK, CheckStop, MarkUnchanged, Becomes, WorkerSteps, queueVars, stopVars, controlVars
<1>2. CASE TakeRunnable(w)
  <2>1. CASE TakeFirstRunnable(w)
    <3>1. PICK i \in DOMAIN pending :
              /\ entry' = [entry EXCEPT ![w] = pending[i]]
              /\ active' = active \cup {RepositoryOf[pending[i]]}
              /\ pending' = Without(pending, i)
              /\ Becomes(w, "taken")
      BY <2>1 DEF TakeFirstRunnable
    <3>2. pending' \in Seq(Jobs) /\ pending[i] \in Jobs
      BY <3>1, RemovingKeepsTheQueue DEF TypeOK
    <3>3. RepositoryOf[pending[i]] \in Repositories
      BY <3>2, SchedulerAssumption
    <3>4. QED
      BY <1>2, <3>1, <3>2, <3>3 DEF TypeOK, TakeRunnable, Becomes, WorkerSteps, Owning, stopVars, controlVars
  <2>2. CASE Becomes(w, "isEmpty") /\ UNCHANGED <<queueVars, entry>>
    BY <1>2, <2>2 DEF TypeOK, TakeRunnable, Becomes, WorkerSteps, queueVars, stopVars, controlVars
  <2>3. QED
    BY <1>2, <2>1, <2>2 DEF TakeRunnable
<1>3. CASE CheckEmpty(w) \/ CheckAdmission(w) \/ Awake(w)
  BY <1>3 DEF TypeOK, CheckEmpty, CheckAdmission, Awake, Becomes, WorkerSteps, queueVars, stopVars, controlVars
<1>4. QED
  BY <1>1, <1>2, <1>3

\* What a worker does with its entry, once it is known to have one.
LEMMA ExecutionKeepsTypes ==
    ASSUME TypeOK, OwnersAreActive, NEW w \in Workers,
           CheckTaken(w) \/ Claim(w) \/ Register(w) \/ RecheckStop(w) \/ Drive(w)
               \/ SettleFailed(w) \/ Release(w) \/ Announce(w)
    PROVE  TypeOK'
<1>1. CASE CheckTaken(w)
  <2>1. entry[w] \in Jobs
    BY <1>1 DEF OwnersAreActive, CheckTaken, Owning
  <2>2. CASE GiveBack(w)
    <3>1. pending' \in Seq(Jobs)
      BY <2>1, <2>2 DEF TypeOK, GiveBack
    <3>2. QED
      BY <1>1, <2>2, <3>1 DEF TypeOK, CheckTaken, GiveBack, Becomes, WorkerSteps, stopVars, controlVars
  <2>3. CASE Becomes(w, "claim") /\ UNCHANGED <<queueVars, entry>>
    BY <1>1, <2>3 DEF TypeOK, CheckTaken, Becomes, WorkerSteps, Owning, queueVars, stopVars, controlVars
  <2>4. QED
    BY <1>1, <2>2, <2>3 DEF CheckTaken
<1>2. CASE Claim(w)
  BY <1>2 DEF TypeOK, Claim, Report, Becomes, WorkerSteps, Owning, Reports, queueVars, stopVars, controlVars
<1>3. CASE Register(w) \/ RecheckStop(w)
  <2>1. entry[w] \in Jobs
    BY <1>3 DEF OwnersAreActive, Register, RecheckStop, Owning
  <2>2. QED
    BY <1>3, <2>1 DEF TypeOK, Register, RecheckStop, Becomes, WorkerSteps, Owning, queueVars, stopVars
<1>4. CASE Drive(w)
  <2>1. CASE DriverStarts(w)
    BY <2>1 DEF TypeOK, DriverStarts, Becomes, WorkerSteps, Owning, Records, queueVars, stopVars, controlVars
  <2>2. CASE DriverRefuses(w)
    BY <2>2 DEF TypeOK, DriverRefuses, Report, Deregister, Becomes, WorkerSteps, Owning, Reports, queueVars, stopVars
  <2>3. CASE DriverReturns(w)
    <3>1. record' \in [Jobs -> Records]
      BY <2>3 DEF TypeOK, DriverReturns, Records
    <3>2. results' \in [Jobs -> Reports]
      BY <2>3 DEF TypeOK, DriverReturns, Report, Reports
    <3>3. at' \in [Workers -> WorkerSteps]
      BY <2>3 DEF TypeOK, DriverReturns, Becomes, WorkerSteps, Owning
    <3>4. QED
      BY <2>3, <3>1, <3>2, <3>3 DEF TypeOK, DriverReturns, Deregister, queueVars, stopVars
  <2>4. QED
    BY <1>4, <2>1, <2>2, <2>3 DEF Drive
<1>5. CASE SettleFailed(w)
  BY <1>5 DEF TypeOK, SettleFailed, Becomes, WorkerSteps, Owning, Records, queueVars, stopVars, controlVars
<1>6. CASE Release(w)
  BY <1>6 DEF TypeOK, Release, Becomes, WorkerSteps, stopVars, controlVars
<1>7. CASE Announce(w)
  BY <1>7 DEF TypeOK, Announce, AnnounceProgress, Becomes, WorkerSteps, queueVars, stopVars, controlVars
<1>8. QED
  BY <1>1, <1>2, <1>3, <1>4, <1>5, <1>6, <1>7

\* What the owner does: SchedulerControl::request_stop, SchedulerAdmission::close.
LEMMA OwnerKeepsTypes ==
    ASSUME TypeOK, RequestStop \/ StopActive \/ CloseAdmission \/ AnnounceClosed PROVE TypeOK'
<1>1. CASE RequestStop \/ CloseAdmission
  BY <1>1 DEF TypeOK, RequestStop, CloseAdmission, queueVars, controlVars, workerVars
<1>2. CASE StopActive \/ AnnounceClosed
  BY <1>2 DEF TypeOK, StopActive, AnnounceClosed, AnnounceProgress, queueVars, controlVars, workerVars
<1>3. QED
  BY <1>1, <1>2

-----------------------------------------------------------------------------
(* Every step keeps the repositories apart.                                *)

\* A step that leaves the entries and QueueState.active alone, and after which no
\* worker owns anything it did not own before, changes nothing.
LEMMA Untouched ==
    ASSUME TypeOK, OwnersAreActive, RepositoryExclusion, UNCHANGED <<active, entry>>,
           \A w \in Workers : at'[w] \in Owning => at[w] \in Owning
    PROVE  OwnersAreActive' /\ RepositoryExclusion'
BY DEF OwnersAreActive, RepositoryExclusion, Owns

\* One worker moves from one of its own steps to another.
LEMMA WorkerUntouched ==
    ASSUME TypeOK, OwnersAreActive, RepositoryExclusion, UNCHANGED <<active, entry>>,
           NEW w \in Workers, NEW next, Becomes(w, next), next \in Owning => at[w] \in Owning
    PROVE  OwnersAreActive' /\ RepositoryExclusion'
<1>1. \A v \in Workers : at'[v] \in Owning => at[v] \in Owning
  BY DEF Becomes, TypeOK
<1>2. QED
  BY <1>1, Untouched

\* take_runnable: the repository is not in "active", so nobody has it yet.
LEMMA TakeKeepsApart ==
    ASSUME TypeOK, OwnersAreActive, RepositoryExclusion, NEW w \in Workers, TakeFirstRunnable(w)
    PROVE  OwnersAreActive' /\ RepositoryExclusion'
<1>1. PICK i \in DOMAIN pending :
          /\ RepositoryOf[pending[i]] \notin active
          /\ entry' = [entry EXCEPT ![w] = pending[i]]
          /\ active' = active \cup {RepositoryOf[pending[i]]}
          /\ at' = [at EXCEPT ![w] = "taken"]
  BY DEF TakeFirstRunnable, Runnable, Becomes
<1>2. pending[i] \in Jobs
  BY RemovingKeepsTheQueue DEF TypeOK
<1>3. \A v \in Workers : v # w => at'[v] = at[v] /\ entry'[v] = entry[v]
  BY <1>1 DEF TypeOK
<1>4. at'[w] = "taken" /\ entry'[w] = pending[i]
  BY <1>1 DEF TypeOK
<1>5. OwnersAreActive'
  BY <1>1, <1>2, <1>3, <1>4 DEF OwnersAreActive
<1>6. RepositoryExclusion'
  BY <1>1, <1>3, <1>4 DEF OwnersAreActive, RepositoryExclusion, Owns
<1>7. QED
  BY <1>5, <1>6

\* release: the worker gives up its own repository; what the others have is
\* another one, and stays in "active".
LEMMA GivingUpKeepsApart ==
    ASSUME TypeOK, OwnersAreActive, RepositoryExclusion, NEW w \in Workers, at[w] \in Owning,
           NEW next, next \notin Owning, Becomes(w, next),
           active' = active \ {RepositoryOf[entry[w]]}, entry' = [entry EXCEPT ![w] = NoJob]
    PROVE  OwnersAreActive' /\ RepositoryExclusion'
<1>1. \A v \in Workers : v # w => at'[v] = at[v] /\ entry'[v] = entry[v]
  BY DEF TypeOK, Becomes
<1>2. at'[w] \notin Owning
  BY DEF TypeOK, Becomes
<1>3. \A v \in Workers : v # w /\ at[v] \in Owning => RepositoryOf[entry[v]] # RepositoryOf[entry[w]]
  <2>1. SUFFICES ASSUME NEW v \in Workers, v # w, at[v] \in Owning,
                        RepositoryOf[entry[v]] = RepositoryOf[entry[w]]
                 PROVE  FALSE
    OBVIOUS
  <2>2. RepositoryOf[entry[w]] \in Repositories
    BY SchedulerAssumption DEF OwnersAreActive
  <2>3. QED
    BY <2>1, <2>2 DEF RepositoryExclusion, Owns
<1>4. OwnersAreActive'
  BY <1>1, <1>2, <1>3 DEF OwnersAreActive
<1>5. RepositoryExclusion'
  BY <1>1, <1>2 DEF RepositoryExclusion, Owns
<1>6. QED
  BY <1>4, <1>5

\* Every step of a worker.
LEMMA WorkerKeepsApart ==
    ASSUME TypeOK, OwnersAreActive, RepositoryExclusion, NEW w \in Workers, Step(w) \/ Drive(w)
    PROVE  OwnersAreActive' /\ RepositoryExclusion'
<1>1. CASE CheckStop(w) \/ MarkUnchanged(w)
  <2>1. at[w] \notin Owning /\ \E next : Becomes(w, next) /\ next \notin Owning
    BY <1>1 DEF CheckStop, MarkUnchanged, Owning
  <2>2. UNCHANGED <<active, entry>>
    BY <1>1 DEF CheckStop, MarkUnchanged, queueVars
  <2>3. QED
    BY <2>1, <2>2, WorkerUntouched
<1>2. CASE TakeRunnable(w)
  <2>1. CASE Becomes(w, "isEmpty") /\ UNCHANGED <<queueVars, entry>>
    BY <2>1, WorkerUntouched DEF queueVars, Owning
  <2>2. QED
    BY <1>2, <2>1, TakeKeepsApart DEF TakeRunnable
<1>3. CASE CheckEmpty(w)
  BY <1>3, WorkerUntouched DEF CheckEmpty, queueVars, Owning
<1>4. CASE CheckAdmission(w)
  BY <1>4, WorkerUntouched DEF CheckAdmission, queueVars, Owning
<1>5. CASE Awake(w)
  BY <1>5, WorkerUntouched DEF Awake, queueVars, Owning
<1>6. CASE CheckTaken(w)
  <2>1. at[w] \in Owning
    BY <1>6 DEF CheckTaken, Owning
  <2>2. CASE GiveBack(w)
    <3>1. "ended" \notin Owning
      BY DEF Owning
    <3>2. QED
      BY <2>1, <2>2, <3>1, GivingUpKeepsApart DEF GiveBack
  <2>3. CASE Becomes(w, "claim") /\ UNCHANGED <<queueVars, entry>>
    BY <2>1, <2>3, WorkerUntouched DEF queueVars
  <2>4. QED
    BY <1>6, <2>2, <2>3 DEF CheckTaken
<1>7. CASE Claim(w)
  BY <1>7, WorkerUntouched DEF Claim, queueVars, Owning
<1>8. CASE Register(w)
  BY <1>8, WorkerUntouched DEF Register, queueVars, Owning
<1>9. CASE RecheckStop(w)
  BY <1>9, WorkerUntouched DEF RecheckStop, queueVars, Owning
<1>10. CASE SettleFailed(w)
  BY <1>10, WorkerUntouched DEF SettleFailed, queueVars, Owning
<1>11. CASE Release(w)
  <2>1. at[w] \in Owning /\ "announce" \notin Owning
    BY <1>11 DEF Release, Owning
  <2>2. QED
    BY <1>11, <2>1, GivingUpKeepsApart DEF Release
<1>12. CASE Announce(w)
  BY <1>12, WorkerUntouched DEF Announce, queueVars, Owning
<1>13. CASE DriverStarts(w)
  BY <1>13, WorkerUntouched DEF DriverStarts, queueVars, Owning
<1>14. CASE DriverRefuses(w)
  BY <1>14, WorkerUntouched DEF DriverRefuses, queueVars, Owning
<1>15. CASE DriverReturns(w)
  BY <1>15, WorkerUntouched DEF DriverReturns, queueVars, Owning
<1>16. QED
  BY <1>1, <1>2, <1>3, <1>4, <1>5, <1>6, <1>7, <1>8, <1>9, <1>10, <1>11, <1>12, <1>13, <1>14, <1>15
  DEF Step, Drive

\* Submissions and the owner's stop leave the workers alone.
LEMMA OthersKeepApart ==
    ASSUME TypeOK, OwnersAreActive, RepositoryExclusion,
           (\E j \in Jobs : Submit(j)) \/ RequestStop \/ StopActive \/ CloseAdmission \/ AnnounceClosed
    PROVE  OwnersAreActive' /\ RepositoryExclusion'
<1>1. UNCHANGED <<active, entry, at>>
  BY DEF Submit, SubmitChecks, AcceptOne, RejectOne, Enqueue, AnswerSubmission,
         RequestStop, StopActive, CloseAdmission, AnnounceClosed, queueVars, workerVars
<1>2. QED
  BY <1>1, Untouched

\* The invariant is inductive.
LEMMA NextInv == Inv /\ [Next]_vars => Inv'
<1>1. SUFFICES ASSUME TypeOK, OwnersAreActive, RepositoryExclusion, [Next]_vars PROVE Inv'
  BY DEF Inv
<1>2. CASE \E j \in Jobs : Submit(j)
  BY <1>1, <1>2, SubmitKeepsTypes, OthersKeepApart DEF Inv
<1>3. CASE \E w \in Workers : Step(w) \/ Drive(w)
  BY <1>1, <1>3, SelectionKeepsTypes, ExecutionKeepsTypes, WorkerKeepsApart DEF Inv, Step
<1>4. CASE RequestStop \/ StopActive \/ CloseAdmission \/ AnnounceClosed
  BY <1>1, <1>4, OwnerKeepsTypes, OthersKeepApart DEF Inv
<1>5. CASE UNCHANGED vars
  <2>1. TypeOK'
    BY <1>1, <1>5 DEF TypeOK, vars, queueVars, stopVars, controlVars, workerVars
  <2>2. OwnersAreActive' /\ RepositoryExclusion'
    BY <1>1, <1>5, Untouched DEF vars, queueVars, workerVars
  <2>3. QED
    BY <2>1, <2>2 DEF Inv
<1>6. QED
  BY <1>1, <1>2, <1>3, <1>4, <1>5 DEF Next

\* The variables of a scheduler keep their types.
THEOREM TypeCorrect == Spec => []TypeOK
<1>1. Inv => TypeOK
  BY DEF Inv
<1>2. QED
  BY <1>1, InitInv, NextInv, PTL DEF Spec

\* take_runnable, release and the requeue of a stopped worker together keep two
\* workers out of the same repository.
THEOREM RepositoriesAreExclusive == Spec => []RepositoryExclusion
<1>1. Inv => RepositoryExclusion
  BY DEF Inv
<1>2. QED
  BY <1>1, InitInv, NextInv, PTL DEF Spec

-----------------------------------------------------------------------------
(* A stop reaches every job.                                               *)

Driving == {"starting", "driving"}
Registered == {"registered"} \cup Driving

\* SchedulerControl::register: from then on request_stop finds the job's sender.
Findable == \A w \in Workers : at[w] \in Registered => entry[w] \in controls

\* StopReachesEveryJob strengthened: what StopActive reaches is what is findable.
StopInv == Findable /\ StopReachesEveryJob /\ (stopper # "None" => stopRequested)

\* A step that leaves the stop and the senders alone, and after which no job is
\* driven that was not driven before, changes nothing.
LEMMA StopUntouched ==
    ASSUME StopInv, UNCHANGED <<stopVars, controlVars>>,
           \A w \in Workers : at'[w] \in Registered => entry'[w] = entry[w] /\ at[w] \in Registered,
           \A w \in Workers : at'[w] \in Driving => at[w] \in Driving
    PROVE  StopInv'
BY DEF StopInv, Findable, StopReachesEveryJob, Registered, Driving, stopVars, controlVars

\* The steps of a worker that has no driven job before or after.
LEMMA SelectionKeepsStop ==
    ASSUME TypeOK, StopInv, NEW w \in Workers,
           \/ CheckStop(w) \/ MarkUnchanged(w) \/ TakeRunnable(w) \/ CheckEmpty(w) \/ CheckAdmission(w) \/ Awake(w)
           \/ CheckTaken(w) \/ Claim(w) \/ SettleFailed(w) \/ Release(w) \/ Announce(w)
    PROVE  StopInv'
<1>1. UNCHANGED <<stopVars, controlVars>>
  BY DEF CheckStop, MarkUnchanged, TakeRunnable, CheckEmpty, CheckAdmission, Awake, CheckTaken, Claim, SettleFailed, Release, Announce
<1>2. PICK next \in WorkerSteps \ Registered : at' = [at EXCEPT ![w] = next]
  BY DEF CheckStop, MarkUnchanged, TakeRunnable, TakeFirstRunnable, CheckEmpty, CheckAdmission, Awake, CheckTaken, GiveBack,
         Claim, SettleFailed, Release, Announce, Becomes, WorkerSteps, Owning, Registered, Driving
<1>3. \E e : entry' = [entry EXCEPT ![w] = e] \/ entry' = entry
  BY DEF CheckStop, MarkUnchanged, TakeRunnable, TakeFirstRunnable, CheckEmpty, CheckAdmission, Awake, CheckTaken, GiveBack,
         Claim, SettleFailed, Release, Announce
<1>4. \A v \in Workers : at'[v] \in Registered => entry'[v] = entry[v] /\ at'[v] = at[v]
  BY <1>2, <1>3 DEF TypeOK
<1>5. QED
  BY <1>1, <1>4, StopUntouched DEF Registered

\* register publishes the sender first and looks at the flag then: a stop that
\* is requested in between finds the sender.
LEMMA RegisterKeepsStop ==
    ASSUME TypeOK, StopInv, NEW w \in Workers, Register(w) \/ RecheckStop(w)
    PROVE  StopInv'
<1>1. CASE Register(w)
  <2>1. /\ at' = [at EXCEPT ![w] = "registered"]
        /\ controls' = controls \cup {entry[w]}
        /\ UNCHANGED <<entry, stopped, stopVars>>
    BY <1>1 DEF Register, Becomes
  <2>2. QED
    BY <2>1 DEF TypeOK, StopInv, Findable, StopReachesEveryJob, Registered, Driving, stopVars
<1>2. CASE RecheckStop(w)
  <2>1. /\ at[w] = "registered"
        /\ at' = [at EXCEPT ![w] = "starting"]
        /\ stopped' = IF stopRequested THEN stopped \cup {entry[w]} ELSE stopped
        /\ UNCHANGED <<entry, controls, stopVars>>
    BY <1>2 DEF RecheckStop, Becomes
  <2>2. Findable'
    BY <2>1 DEF TypeOK, StopInv, Findable, Registered, Driving
  <2>3. StopReachesEveryJob'
    BY <2>1 DEF TypeOK, StopInv, StopReachesEveryJob, stopVars
  <2>4. QED
    BY <2>1, <2>2, <2>3 DEF StopInv, stopVars
<1>3. QED
  BY <1>1, <1>2

\* A job that returns takes only its own sender away: no other worker has the
\* same job, because no other worker has the same repository.
LEMMA DriveKeepsStop ==
    ASSUME Inv, StopInv, NEW w \in Workers, Drive(w)
    PROVE  StopInv'
<1>1. CASE DriverStarts(w)
  <2>1. at[w] = "starting" /\ at' = [at EXCEPT ![w] = "driving"] /\ UNCHANGED <<entry, stopVars, controlVars>>
    BY <1>1 DEF DriverStarts, Becomes
  <2>2. QED
    BY <2>1, StopUntouched DEF Inv, TypeOK, Registered, Driving
<1>2. CASE DriverRefuses(w) \/ DriverReturns(w)
  <2>1. at[w] \in Driving /\ controls' = controls \ {entry[w]} /\ UNCHANGED <<entry, stopped, stopVars>>
    BY <1>2 DEF DriverRefuses, DriverReturns, Deregister, Driving
  <2>2. PICK next \in {"settle", "release"} : at' = [at EXCEPT ![w] = next]
    BY <1>2 DEF DriverRefuses, DriverReturns, Becomes
  <2>3. \A v \in Workers : at'[v] \in Registered => v # w /\ at'[v] = at[v]
    BY <2>2 DEF Inv, TypeOK, Registered, Driving
  <2>4. \A v \in Workers : v # w /\ at[v] \in Registered => entry[v] # entry[w]
    <3>1. at[w] \in Owning /\ RepositoryOf[entry[w]] \in Repositories
      BY <2>1, SchedulerAssumption DEF Inv, OwnersAreActive, Driving, Owning
    <3>2. \A v \in Workers : at[v] \in Registered => at[v] \in Owning
      BY DEF Registered, Driving, Owning
    <3>3. QED
      BY <3>1, <3>2 DEF Inv, RepositoryExclusion, Owns
  <2>5. Findable'
    BY <2>1, <2>3, <2>4 DEF StopInv, Findable
  <2>6. StopReachesEveryJob'
    BY <2>1, <2>3 DEF StopInv, StopReachesEveryJob, Registered, Driving, stopVars
  <2>7. QED
    BY <2>1, <2>5, <2>6 DEF StopInv, stopVars
<1>3. QED
  BY <1>1, <1>2 DEF Drive

\* Submissions and the owner's own steps.
LEMMA OthersKeepStop ==
    ASSUME StopInv,
           (\E j \in Jobs : Submit(j)) \/ RequestStop \/ StopActive \/ CloseAdmission \/ AnnounceClosed
    PROVE  StopInv'
<1>1. CASE \E j \in Jobs : Submit(j)
  <2>1. UNCHANGED <<stopVars, controlVars, at, entry>>
    BY <1>1 DEF Submit, SubmitChecks, AcceptOne, RejectOne, Enqueue, AnswerSubmission, workerVars
  <2>2. QED
    BY <2>1, StopUntouched
<1>2. CASE RequestStop
  BY <1>2 DEF RequestStop, StopInv, Findable, StopReachesEveryJob, controlVars, workerVars
<1>3. CASE StopActive
  BY <1>3 DEF StopActive, StopInv, Findable, StopReachesEveryJob, Registered, Driving, workerVars
<1>4. CASE CloseAdmission
  BY <1>4 DEF CloseAdmission, StopInv, Findable, StopReachesEveryJob, controlVars, workerVars
<1>5. CASE AnnounceClosed
  BY <1>5 DEF AnnounceClosed, StopInv, Findable, StopReachesEveryJob, controlVars, workerVars
<1>6. QED
  BY <1>1, <1>2, <1>3, <1>4, <1>5

\* register and request_stop together lose no stop: whichever comes first, every
\* job that is driven after request_stop returned was asked to stop.
THEOREM StopIsNeverLost == Spec => []StopReachesEveryJob
<1>1. Init => StopInv
  BY DEF Init, StopInv, Findable, StopReachesEveryJob, Registered, Driving
<1>2. Inv /\ StopInv /\ [Next]_vars => StopInv'
  <2>1. SUFFICES ASSUME Inv, StopInv, [Next]_vars PROVE StopInv'
    OBVIOUS
  <2>2. CASE UNCHANGED vars
    BY <2>1, <2>2, StopUntouched DEF vars, workerVars
  <2>3. CASE \E w \in Workers : Step(w) \/ Drive(w)
    BY <2>1, <2>3, SelectionKeepsStop, RegisterKeepsStop, DriveKeepsStop DEF Step, Inv
  <2>4. QED
    BY <2>1, <2>2, <2>3, OthersKeepStop DEF Next
<1>3. StopInv => StopReachesEveryJob
  BY DEF StopInv
<1>4. QED
  BY <1>1, <1>2, <1>3, InitInv, NextInv, PTL DEF Spec

-----------------------------------------------------------------------------
(* Every piece of work is in one place.                                    *)

Admitted == Elements(arrived)
Waiting == Elements(pending)
Once(s) == \A i, k \in DOMAIN s : s[i] = s[k] => i = k
AsAccepted(j) == record[j] = IF j \in Resumed THEN "PARKED" ELSE "QUEUED"

\* What is waiting or held was queued once, and is not both.
Placed ==
    /\ Waiting \cup Held \subseteq Admitted
    /\ Waiting \cap Held = {}
    /\ Once(pending)
    /\ Once(arrived)

\* A job whose submission has not reached the queue is not known to it; accept_one
\* has written its record before it is queued.
Submitted ==
    \A j \in Jobs : submission[j] \in {"None", "Checked", "Persisted", "Refused"} =>
        /\ j \notin Admitted
        /\ results[j] = "None"
        /\ submission[j] = "Persisted" => AsAccepted(j)

\* A job that waits, or was taken and not started, is as it was accepted; one whose
\* worker is about to release it was reported, and settled when it failed.
OnDisk ==
    /\ \A j \in Waiting : AsAccepted(j) /\ results[j] = "None"
    /\ \A w \in Workers :
          /\ at[w] = "taken" => AsAccepted(entry[w]) /\ results[entry[w]] = "None"
          /\ at[w] \in {"settle", "release"} => results[entry[w]] # "None"
          /\ at[w] = "release" /\ results[entry[w]] = "Failed" => record[entry[w]] # "QUEUED"

NoneForgotten == Admitted \subseteq Waiting \cup Held \cup {j \in Jobs : results[j] # "None"}

\* WorkIsAccountedFor strengthened.
Ledger == Placed /\ Submitted /\ OnDisk /\ NoneForgotten /\ FailureIsOnDisk

\* The entries of a queue of jobs are jobs.
LEMMA QueuedAreJobs ==
    ASSUME NEW s \in Seq(Jobs)
    PROVE  Elements(s) \subseteq Jobs
BY DEF Elements

\* QueueState::take_runnable takes one entry away and keeps the order of the rest.
LEMMA WithoutShifts ==
    ASSUME NEW s \in Seq(Jobs), NEW i \in DOMAIN s
    PROVE  /\ DOMAIN Without(s, i) = 1 .. Len(s) - 1
           /\ \A k \in 1 .. Len(s) - 1 : Without(s, i)[k] = IF k < i THEN s[k] ELSE s[k + 1]
<1>1. i \in 1 .. Len(s) /\ Len(s) \in Nat
  OBVIOUS
<1> DEFINE a == SubSeq(s, 1, i - 1)
           b == SubSeq(s, i + 1, Len(s))
<1>2. a \in Seq(Jobs) /\ Len(a) = i - 1 /\ \A k \in 1 .. i - 1 : a[k] = s[k]
  BY <1>1
<1>3. b \in Seq(Jobs) /\ Len(b) = Len(s) - i /\ \A k \in 1 .. Len(s) - i : b[k] = s[k + i]
  BY <1>1
<1> HIDE DEF a, b
<1>4. /\ a \o b \in Seq(Jobs)
      /\ Len(a \o b) = Len(s) - 1
      /\ \A k \in 1 .. Len(s) - 1 : (a \o b)[k] = IF k <= i - 1 THEN a[k] ELSE b[k - (i - 1)]
  BY <1>1, <1>2, <1>3, SMTT(60)
<1>5. ASSUME NEW k \in 1 .. Len(s) - 1 PROVE (a \o b)[k] = IF k < i THEN s[k] ELSE s[k + 1]
  <2>1. CASE k < i
    <3>1. k <= i - 1 /\ k \in 1 .. i - 1
      BY <1>1, <2>1
    <3>2. QED
      BY <1>2, <1>4, <2>1, <3>1
  <2>2. CASE ~(k < i)
    <3>1. ~(k <= i - 1) /\ k - (i - 1) \in 1 .. Len(s) - i /\ k - (i - 1) + i = k + 1
      BY <1>1, <2>2
    <3>2. QED
      BY <1>3, <1>4, <2>2, <3>1
  <2>3. QED
    BY <2>1, <2>2
<1>6. DOMAIN (a \o b) = 1 .. Len(s) - 1
  BY <1>4
<1>7. QED
  BY <1>5, <1>6 DEF Without, a, b

\* What is left when an entry is taken: every other entry, once.
LEMMA RemovingTakesOne ==
    ASSUME NEW s \in Seq(Jobs), NEW i \in DOMAIN s, Once(s)
    PROVE  Elements(Without(s, i)) = Elements(s) \ {s[i]} /\ Once(Without(s, i))
<1>1. i \in 1 .. Len(s) /\ Len(s) \in Nat /\ DOMAIN s = 1 .. Len(s)
  OBVIOUS
<1> DEFINE u == Without(s, i)
<1>2. DOMAIN u = 1 .. Len(s) - 1 /\ \A k \in 1 .. Len(s) - 1 : u[k] = IF k < i THEN s[k] ELSE s[k + 1]
  BY WithoutShifts
<1> HIDE DEF u
<1>3. Elements(u) \subseteq Elements(s) \ {s[i]}
  BY <1>1, <1>2 DEF Elements, Once
<1>4. ASSUME NEW j \in Elements(s) \ {s[i]} PROVE j \in Elements(u)
  <2>1. PICK k \in 1 .. Len(s) : s[k] = j /\ k # i
    BY <1>1, <1>4 DEF Elements
  <2>2. CASE k < i
    BY <1>1, <1>2, <2>1, <2>2 DEF Elements
  <2>3. CASE k > i
    <3>1. k - 1 \in 1 .. Len(s) - 1 /\ u[k - 1] = s[k]
      BY <1>1, <1>2, <2>1, <2>3
    <3>2. QED
      BY <1>2, <2>1, <3>1 DEF Elements
  <2>4. QED
    BY <1>1, <2>1, <2>2, <2>3
<1>5. Once(u)
  <2>1. SUFFICES ASSUME NEW k \in 1 .. Len(s) - 1, NEW l \in 1 .. Len(s) - 1, u[k] = u[l] PROVE k = l
    BY <1>2 DEF Once
  <2>2. PICK m \in 1 .. Len(s) : m = (IF k < i THEN k ELSE k + 1) /\ u[k] = s[m]
    BY <1>1, <1>2
  <2>3. PICK n \in 1 .. Len(s) : n = (IF l < i THEN l ELSE l + 1) /\ u[l] = s[n]
    BY <1>1, <1>2
  <2>4. m = n
    BY <1>1, <2>1, <2>2, <2>3 DEF Once
  <2>5. QED
    BY <1>1, <2>2, <2>3, <2>4
<1>6. QED
  BY <1>3, <1>4, <1>5 DEF u

\* QueueState.pending.push_back.
LEMMA AppendingAddsOne ==
    ASSUME NEW s \in Seq(Jobs), NEW j \in Jobs
    PROVE  /\ Elements(Append(s, j)) = Elements(s) \cup {j}
           /\ Once(s) /\ j \notin Elements(s) => Once(Append(s, j))
<1>1. /\ DOMAIN Append(s, j) = 1 .. Len(s) + 1 /\ DOMAIN s = 1 .. Len(s) /\ Len(s) \in Nat
      /\ Append(s, j)[Len(s) + 1] = j
      /\ \A k \in 1 .. Len(s) : Append(s, j)[k] = s[k]
  OBVIOUS
<1>2. Elements(Append(s, j)) = Elements(s) \cup {j}
  BY <1>1 DEF Elements
<1>3. Once(s) /\ j \notin Elements(s) => Once(Append(s, j))
  BY <1>1 DEF Elements, Once
<1>4. QED
  BY <1>2, <1>3

\* QueueState.pending.push_front.
LEMMA PuttingFirstAddsOne ==
    ASSUME NEW s \in Seq(Jobs), NEW j \in Jobs
    PROVE  /\ <<j>> \o s \in Seq(Jobs)
           /\ DOMAIN (<<j>> \o s) = 1 .. Len(s) + 1
           /\ (<<j>> \o s)[1] = j
           /\ \A k \in 1 .. Len(s) : (<<j>> \o s)[k + 1] = s[k]
           /\ Elements(<<j>> \o s) = Elements(s) \cup {j}
           /\ Once(s) /\ j \notin Elements(s) => Once(<<j>> \o s)
<1> DEFINE t == <<j>> \o s
<1>1. /\ t \in Seq(Jobs)
      /\ DOMAIN t = 1 .. Len(s) + 1 /\ DOMAIN s = 1 .. Len(s) /\ Len(s) \in Nat
      /\ t[1] = j
      /\ \A k \in 1 .. Len(s) : t[k + 1] = s[k]
  OBVIOUS
<1> HIDE DEF t
<1>2. \A k \in 2 .. Len(s) + 1 : k - 1 \in 1 .. Len(s) /\ t[k] = s[k - 1]
  BY <1>1
<1> DEFINE Later(k) == k \in 2 .. Len(s) + 1
<1>3. \A k \in 1 .. Len(s) + 1 : k = 1 \/ Later(k)
  BY <1>1
<1>4. \A k \in 1 .. Len(s) : s[k] \in Elements(s)
  BY <1>1 DEF Elements
<1>5. Elements(t) = Elements(s) \cup {j}
  <2>1. Elements(t) \subseteq Elements(s) \cup {j}
    BY <1>1, <1>2, <1>3, SMTT(60) DEF Elements
  <2>2. Elements(s) \subseteq Elements(t)
    <3>1. \A k \in 1 .. Len(s) : k + 1 \in 1 .. Len(s) + 1
      BY <1>1
    <3>2. QED
      BY <1>1, <3>1 DEF Elements
  <2>3. 1 \in 1 .. Len(s) + 1
    BY <1>1
  <2>4. QED
    BY <1>1, <2>1, <2>2, <2>3 DEF Elements
<1>6. ASSUME Once(s), j \notin Elements(s) PROVE Once(t)
  <2>1. SUFFICES ASSUME NEW k \in 1 .. Len(s) + 1, NEW l \in 1 .. Len(s) + 1, t[k] = t[l] PROVE k = l
    BY <1>1 DEF Once
  <2>2. \A m \in 2 .. Len(s) + 1 : t[m] # j
    BY <1>2, <1>4, <1>6
  <2>3. CASE k = 1 \/ l = 1
    BY <1>1, <1>3, <2>1, <2>2, <2>3
  <2>4. CASE Later(k) /\ Later(l)
    <3>1. k - 1 \in 1 .. Len(s) /\ l - 1 \in 1 .. Len(s) /\ s[k - 1] = s[l - 1]
      BY <1>2, <2>1, <2>4
    <3>2. k - 1 = l - 1
      BY <1>1, <1>6, <3>1 DEF Once
    <3>3. QED
      BY <2>1, <3>2
  <2>5. QED
    BY <1>3, <2>3, <2>4
<1>7. QED
  BY <1>1, <1>5, <1>6 DEF t

-----------------------------------------------------------------------------
\* Who holds what: the entries of the workers between take_runnable and release.
LEMMA HeldByOne ==
    ASSUME Inv, NEW v \in Workers, NEW w \in Workers,
           at[v] \in Owning, at[w] \in Owning, entry[v] = entry[w]
    PROVE  v = w
<1>1. RepositoryOf[entry[w]] \in Repositories
  BY SchedulerAssumption DEF Inv, OwnersAreActive
<1>2. QED
  BY <1>1 DEF Inv, RepositoryExclusion, Owns

\* The jobs that are held change only when a worker takes one or gives one up.
LEMMA HeldUnchanged ==
    ASSUME UNCHANGED entry, \A w \in Workers : at'[w] \in Owning <=> at[w] \in Owning
    PROVE  Held' = Held
BY DEF Held

\* A step of one worker from one of its own steps to another, or from a step
\* without an entry to another.
LEMMA HeldKept ==
    ASSUME TypeOK, NEW w \in Workers, NEW next, Becomes(w, next), UNCHANGED entry,
           next \in Owning <=> at[w] \in Owning
    PROVE  Held' = Held
<1>1. \A v \in Workers : at'[v] \in Owning <=> at[v] \in Owning
  BY DEF TypeOK, Becomes
<1>2. QED
  BY <1>1, HeldUnchanged

\* take_runnable adds the entry it took.
LEMMA HeldTaken ==
    ASSUME TypeOK, NEW w \in Workers, NEW j \in Jobs, at[w] \notin Owning,
           Becomes(w, "taken"), entry' = [entry EXCEPT ![w] = j]
    PROVE  Held' = Held \cup {j}
<1>1. \A v \in Workers : v # w => at'[v] = at[v] /\ entry'[v] = entry[v]
  BY DEF TypeOK, Becomes
<1>2. at'[w] \in Owning /\ entry'[w] = j
  BY DEF TypeOK, Becomes, Owning
<1>3. QED
  BY <1>1, <1>2 DEF Held

\* release removes the entry of the worker, which nobody else has.
LEMMA HeldGivenUp ==
    ASSUME Inv, NEW w \in Workers, at[w] \in Owning, NEW next, next \notin Owning,
           Becomes(w, next), entry' = [entry EXCEPT ![w] = NoJob]
    PROVE  Held' = Held \ {entry[w]}
<1>1. \A v \in Workers : v # w => at'[v] = at[v] /\ entry'[v] = entry[v]
  BY DEF Inv, TypeOK, Becomes
<1>2. at'[w] \notin Owning
  BY DEF Inv, TypeOK, Becomes
<1>3. \A v \in Workers : v # w /\ at[v] \in Owning => entry[v] # entry[w]
  BY HeldByOne
<1>4. QED
  BY <1>1, <1>2, <1>3 DEF Held

-----------------------------------------------------------------------------
(* Every step keeps the ledger.                                            *)

\* The queue is empty, or holds the jobs of the batch.
LEMMA InitLedger == Init => Ledger
<1>1. ASSUME Init PROVE Ledger
  <2>1. Held = {} /\ arrived = pending
    BY <1>1 DEF Init, Held, Owning
  <2>2. Once(pending)
    BY <1>1 DEF Init, Enumerations, Once
  <2>3. pending \in Seq(Jobs)
    BY <1>1, InitInv DEF Inv, TypeOK
  <2>4. Placed /\ NoneForgotten
    BY <2>1, <2>2 DEF Placed, NoneForgotten, Waiting, Admitted
  <2>5. Submitted
    <3>1. CASE Mode = "batch"
      BY <1>1, <3>1 DEF Init, Submitted
    <3>2. CASE Mode # "batch"
      BY <1>1, <3>2, <2>1 DEF Init, Submitted, Admitted, Elements
    <3>3. QED
      BY <3>1, <3>2
  <2>6. OnDisk
    <3>1. CASE Mode = "batch"
      BY <1>1, <3>1, <2>3, QueuedAreJobs DEF Init, OnDisk, Waiting, AsAccepted
    <3>2. CASE Mode # "batch"
      BY <1>1, <3>2 DEF Init, OnDisk, Waiting, Elements
    <3>3. QED
      BY <3>1, <3>2
  <2>7. FailureIsOnDisk
    BY <1>1 DEF Init, FailureIsOnDisk
  <2>8. QED
    BY <2>4, <2>5, <2>6, <2>7 DEF Ledger
<1>2. QED
  BY <1>1

\* A step that leaves the queue, the entries and the records alone, and that
\* brings no worker to a step at which the ledger says more.
LEMMA LedgerUntouched ==
    ASSUME Ledger, UNCHANGED <<pending, arrived, submission, record, results, entry>>,
           \A w \in Workers : at'[w] \in Owning <=> at[w] \in Owning,
           \A w \in Workers : at'[w] \in {"taken", "settle", "release"} => at'[w] = at[w]
    PROVE  Ledger'
<1>1. Held' = Held
  BY HeldUnchanged
<1>2. Waiting' = Waiting /\ Admitted' = Admitted
  BY DEF Waiting, Admitted
<1>3. Placed' /\ NoneForgotten' /\ FailureIsOnDisk'
  BY <1>1, <1>2 DEF Ledger, Placed, NoneForgotten, FailureIsOnDisk, Once
<1>4. Submitted'
  BY <1>2 DEF Ledger, Submitted, AsAccepted
<1>5. OnDisk'
  BY <1>2 DEF Ledger, OnDisk, AsAccepted
<1>6. QED
  BY <1>3, <1>4, <1>5 DEF Ledger

\* One worker that has nothing to report moves on.
LEMMA LedgerWorkerUntouched ==
    ASSUME TypeOK, Ledger, UNCHANGED <<pending, arrived, submission, record, results, entry>>,
           NEW w \in Workers, NEW next, Becomes(w, next), next \notin {"taken", "settle", "release"},
           next \in Owning <=> at[w] \in Owning
    PROVE  Ledger'
<1>1. \A v \in Workers : v # w => at'[v] = at[v]
  BY DEF TypeOK, Becomes
<1>2. at'[w] = next
  BY DEF TypeOK, Becomes
<1>3. QED
  BY <1>1, <1>2, LedgerUntouched

\* One worker writes the record or the report of its own entry, which is nobody
\* else's and is not waiting.
LEMMA LedgerDriven ==
    ASSUME Inv, Ledger, UNCHANGED <<pending, arrived, submission, entry>>,
           NEW w \in Workers, at[w] \in Owning,
           NEW next \in Owning \ {"taken"}, Becomes(w, next),
           \A j \in Jobs \ {entry[w]} : record'[j] = record[j] /\ results'[j] = results[j],
           next \in {"settle", "release"} => results'[entry[w]] # "None",
           next = "release" /\ results'[entry[w]] = "Failed" => record'[entry[w]] # "QUEUED"
    PROVE  Ledger'
<1>1. Held' = Held
  BY HeldKept DEF Inv
<1>2. Waiting' = Waiting /\ Admitted' = Admitted
  BY DEF Waiting, Admitted
<1>3. entry[w] \in Held /\ entry[w] \in Admitted /\ entry[w] \notin Waiting
  BY DEF Ledger, Placed, Held
<1>4. Waiting \subseteq Jobs /\ Admitted \subseteq Jobs
  BY QueuedAreJobs DEF Inv, TypeOK, Waiting, Admitted
<1>5. Placed'
  BY <1>1, <1>2 DEF Ledger, Placed, Once
<1>6. NoneForgotten' /\ FailureIsOnDisk'
  BY <1>1, <1>2, <1>3 DEF Ledger, NoneForgotten, FailureIsOnDisk
<1>7. Submitted'
  BY <1>2, <1>3 DEF Ledger, Submitted, AsAccepted
<1>8. OnDisk'
  <2>1. \A j \in Waiting : AsAccepted(j)' /\ results'[j] = "None"
    BY <1>3, <1>4 DEF Ledger, OnDisk, AsAccepted
  <2>2. at'[w] = next /\ entry'[w] = entry[w]
    BY DEF Inv, TypeOK, Becomes
  <2>3. ASSUME NEW v \in Workers, v # w, at[v] \in Owning
        PROVE  at'[v] = at[v] /\ entry[v] \in Jobs \ {entry[w]}
    BY <2>3, HeldByOne DEF Inv, TypeOK, Becomes, OwnersAreActive
  <2>4. ASSUME NEW v \in Workers, v # w PROVE at'[v] = at[v]
    BY <2>4 DEF Inv, TypeOK, Becomes
  <2>5. "taken" \in Owning /\ "settle" \in Owning /\ "release" \in Owning
    BY DEF Owning
  <2>6. ASSUME NEW v \in Workers
        PROVE  /\ at'[v] = "taken" => AsAccepted(entry[v])' /\ results'[entry[v]] = "None"
               /\ at'[v] \in {"settle", "release"} => results'[entry[v]] # "None"
               /\ at'[v] = "release" /\ results'[entry[v]] = "Failed" => record'[entry[v]] # "QUEUED"
    <3>1. CASE v = w
      BY <2>2, <3>1
    <3>2. CASE v # w
      BY <2>3, <2>4, <2>5, <3>2 DEF Ledger, OnDisk, AsAccepted
    <3>3. QED
      BY <3>1, <3>2
  <2>7. QED
    BY <1>2, <2>1, <2>6 DEF OnDisk, AsAccepted
<1>9. QED
  BY <1>5, <1>6, <1>7, <1>8 DEF Ledger

\* take_runnable moves one job from the queue to a worker.
LEMMA TakeKeepsLedger ==
    ASSUME Inv, Ledger, NEW w \in Workers, TakeRunnable(w), TakeFirstRunnable(w)
    PROVE  Ledger'
<1>1. PICK i \in DOMAIN pending :
          /\ entry' = [entry EXCEPT ![w] = pending[i]]
          /\ pending' = Without(pending, i)
          /\ Becomes(w, "taken")
  BY DEF TakeFirstRunnable
<1> DEFINE j == pending[i]
<1>2. at[w] = "take" /\ UNCHANGED <<submission, record, results, arrived>>
  BY DEF TakeRunnable
<1>3. j \in Jobs /\ j \in Waiting
  BY RemovingKeepsTheQueue DEF Inv, TypeOK, Waiting, Elements
<1>4. Waiting' = Waiting \ {j} /\ Once(pending')
  BY <1>1, RemovingTakesOne DEF Inv, TypeOK, Ledger, Placed, Waiting
<1> HIDE DEF j
<1>5. Held' = Held \cup {j}
  BY <1>1, <1>2, <1>3, HeldTaken DEF Inv, Owning, j
<1>6. Admitted' = Admitted
  BY <1>2 DEF Admitted
<1>7. Placed'
  BY <1>2, <1>3, <1>4, <1>5, <1>6 DEF Ledger, Placed, Once
<1>8. NoneForgotten' /\ FailureIsOnDisk'
  BY <1>2, <1>3, <1>4, <1>5, <1>6 DEF Ledger, NoneForgotten, FailureIsOnDisk
<1>9. Submitted'
  BY <1>2, <1>6 DEF Ledger, Submitted, AsAccepted
<1>10. OnDisk'
  <2>1. \A v \in Workers : v # w => at'[v] = at[v] /\ entry'[v] = entry[v]
    BY <1>1 DEF Inv, TypeOK, Becomes
  <2>2. at'[w] = "taken" /\ entry'[w] = j
    BY <1>1 DEF Inv, TypeOK, Becomes, j
  <2>3. QED
    BY <1>2, <1>3, <1>4, <2>1, <2>2 DEF Ledger, OnDisk, AsAccepted
<1>11. QED
  BY <1>7, <1>8, <1>9, <1>10 DEF Ledger

\* A worker that was stopped puts its entry back: it is waiting again, as it was.
LEMMA GiveBackKeepsLedger ==
    ASSUME Inv, Ledger, NEW w \in Workers, CheckTaken(w), GiveBack(w)
    PROVE  Ledger'
<1> DEFINE j == entry[w]
<1>1. at[w] = "taken" /\ at[w] \in Owning /\ "ended" \notin Owning
  BY DEF CheckTaken, Owning
<1>2. /\ pending' = <<j>> \o pending
      /\ entry' = [entry EXCEPT ![w] = NoJob]
      /\ Becomes(w, "ended")
      /\ UNCHANGED <<submission, record, results, arrived>>
  BY DEF CheckTaken, GiveBack
<1>3. j \in Jobs /\ j \in Held
  BY <1>1 DEF Inv, OwnersAreActive, Held
<1>4. Held' = Held \ {j}
  BY <1>1, <1>2, HeldGivenUp
<1> HIDE DEF j
<1>5. Waiting' = Waiting \cup {j} /\ Once(pending')
  BY <1>2, <1>3, PuttingFirstAddsOne DEF Inv, TypeOK, Ledger, Placed, Waiting
<1>6. Admitted' = Admitted
  BY <1>2 DEF Admitted
<1>7. Placed'
  BY <1>2, <1>3, <1>4, <1>5, <1>6 DEF Ledger, Placed, Once
<1>8. AsAccepted(j) /\ results[j] = "None"
  BY <1>1 DEF Ledger, OnDisk, j
<1>9. NoneForgotten' /\ FailureIsOnDisk'
  BY <1>2, <1>3, <1>4, <1>5, <1>6, <1>8 DEF Ledger, NoneForgotten, FailureIsOnDisk
<1>10. Submitted'
  BY <1>2, <1>6 DEF Ledger, Submitted, AsAccepted
<1>11. OnDisk'
  <2>1. \A v \in Workers : v # w => at'[v] = at[v] /\ entry'[v] = entry[v]
    BY <1>2 DEF Inv, TypeOK, Becomes
  <2>2. at'[w] = "ended"
    BY <1>2 DEF Inv, TypeOK, Becomes
  <2>3. QED
    BY <1>2, <1>3, <1>5, <1>8, <2>1, <2>2 DEF Ledger, OnDisk, AsAccepted
<1>12. QED
  BY <1>7, <1>9, <1>10, <1>11 DEF Ledger

\* release: the job was reported, and settled when it failed.
LEMMA ReleaseKeepsLedger ==
    ASSUME Inv, Ledger, NEW w \in Workers, Release(w)
    PROVE  Ledger'
<1> DEFINE j == entry[w]
<1>1. at[w] = "release" /\ at[w] \in Owning /\ "announce" \notin Owning
  BY DEF Release, Owning
<1>2. /\ entry' = [entry EXCEPT ![w] = NoJob]
      /\ Becomes(w, "announce")
      /\ UNCHANGED <<pending, submission, record, results, arrived>>
  BY DEF Release
<1>3. j \in Jobs /\ j \in Held
  BY <1>1 DEF Inv, OwnersAreActive, Held
<1>4. Held' = Held \ {j}
  BY <1>1, <1>2, HeldGivenUp
<1>5. results[j] # "None" /\ (results[j] = "Failed" => record[j] # "QUEUED")
  BY <1>1 DEF Ledger, OnDisk
<1> HIDE DEF j
<1>6. Waiting' = Waiting /\ Admitted' = Admitted
  BY <1>2 DEF Waiting, Admitted
<1>7. Placed'
  BY <1>2, <1>4, <1>6 DEF Ledger, Placed, Once
<1>8. NoneForgotten' /\ FailureIsOnDisk'
  BY <1>2, <1>3, <1>4, <1>5, <1>6 DEF Ledger, NoneForgotten, FailureIsOnDisk
<1>9. Submitted'
  BY <1>2, <1>6 DEF Ledger, Submitted, AsAccepted
<1>10. OnDisk'
  <2>1. \A v \in Workers : v # w => at'[v] = at[v] /\ entry'[v] = entry[v]
    BY <1>2 DEF Inv, TypeOK, Becomes
  <2>2. at'[w] = "announce"
    BY <1>2 DEF Inv, TypeOK, Becomes
  <2>3. QED
    BY <1>2, <1>6, <2>1, <2>2 DEF Ledger, OnDisk, AsAccepted
<1>11. QED
  BY <1>7, <1>8, <1>9, <1>10 DEF Ledger

\* A job that is being submitted is not in the queue before accept_one has put it
\* there, with its record written.
LEMMA SubmitKeepsLedger ==
    ASSUME Inv, Ledger, NEW j \in Jobs, Submit(j)
    PROVE  Ledger'
<1>1. UNCHANGED <<at, entry>>
  BY DEF Submit, SubmitChecks, AcceptOne, RejectOne, Enqueue, AnswerSubmission, workerVars
<1>2. Held' = Held
  BY <1>1 DEF Held
<1>3. Waiting \subseteq Admitted /\ Held \subseteq Admitted /\ Admitted \subseteq Jobs
  BY QueuedAreJobs DEF Inv, TypeOK, Admitted, Ledger, Placed
<1>4. \A w \in Workers : at[w] \in {"taken", "settle", "release"} => entry[w] \in Held
  BY DEF Held, Owning
<1>5. CASE SubmitChecks(j) \/ AnswerSubmission(j)
  <2>1. UNCHANGED <<pending, arrived, record, results>>
    BY <1>5 DEF SubmitChecks, AnswerSubmission, queueVars
  <2>2. Waiting' = Waiting /\ Admitted' = Admitted
    BY <2>1 DEF Waiting, Admitted
  <2>3. Placed' /\ NoneForgotten' /\ FailureIsOnDisk' /\ OnDisk'
    BY <1>1, <1>2, <2>1, <2>2
    DEF Ledger, Placed, Once, NoneForgotten, FailureIsOnDisk, OnDisk, AsAccepted
  <2>4. Submitted'
    BY <1>5, <2>1, <2>2 DEF SubmitChecks, AnswerSubmission, Inv, TypeOK, Ledger, Submitted, AsAccepted
  <2>5. QED
    BY <2>3, <2>4 DEF Ledger
<1>6. CASE AcceptOne(j) \/ RejectOne(j)
  <2>1. /\ submission[j] = "Checked"
        /\ submission' \in {[submission EXCEPT ![j] = "Persisted"], [submission EXCEPT ![j] = "Answered"]}
        /\ \A k \in Jobs \ {j} : record'[k] = record[k] /\ results'[k] = results[k]
        /\ UNCHANGED <<pending, arrived>>
    BY <1>6 DEF AcceptOne, RejectOne, queueVars, Inv, TypeOK
  <2>2. Waiting' = Waiting /\ Admitted' = Admitted
    BY <2>1 DEF Waiting, Admitted
  <2>3. j \notin Admitted /\ results[j] = "None"
    BY <2>1 DEF Ledger, Submitted
  <2>4. Placed'
    BY <1>2, <2>1, <2>2 DEF Ledger, Placed, Once
  <2>5. NoneForgotten'
    BY <1>2, <1>3, <2>1, <2>2, <2>3 DEF Ledger, NoneForgotten
  <2>6. results'[j] # "Failed"
    BY <1>6, <2>3 DEF AcceptOne, RejectOne, Inv, TypeOK
  <2>7. FailureIsOnDisk'
    BY <1>2, <2>1, <2>6 DEF Ledger, FailureIsOnDisk
  <2>8. OnDisk'
    BY <1>1, <1>3, <1>4, <2>1, <2>2, <2>3 DEF Ledger, OnDisk, AsAccepted
  <2>9. AcceptOne(j) => AsAccepted(j)' /\ UNCHANGED results
    BY DEF AcceptOne, AsAccepted, Inv, TypeOK
  <2>10. RejectOne(j) => submission'[j] = "Answered"
    BY DEF RejectOne, Inv, TypeOK
  <2>11. Submitted'
    BY <1>6, <2>1, <2>2, <2>3, <2>9, <2>10 DEF Ledger, Submitted, AsAccepted, Inv, TypeOK
  <2>12. QED
    BY <2>4, <2>5, <2>7, <2>8, <2>11 DEF Ledger
<1>7. CASE Enqueue(j)
  <2>1. /\ submission[j] = "Persisted"
        /\ submission' = [submission EXCEPT ![j] = "Queued"]
        /\ pending' = Append(pending, j)
        /\ arrived' = Append(arrived, j)
        /\ UNCHANGED <<record, results>>
    BY <1>7 DEF Enqueue
  <2>2. j \notin Admitted /\ results[j] = "None" /\ AsAccepted(j)
    BY <2>1 DEF Ledger, Submitted
  <2>3. /\ Waiting' = Waiting \cup {j} /\ Admitted' = Admitted \cup {j}
        /\ Once(pending') /\ Once(arrived')
    BY <1>3, <2>1, <2>2, AppendingAddsOne DEF Inv, TypeOK, Waiting, Admitted, Ledger, Placed
  <2>4. Placed'
    BY <1>2, <1>3, <2>2, <2>3 DEF Ledger, Placed
  <2>5. NoneForgotten' /\ FailureIsOnDisk'
    BY <1>2, <2>1, <2>3 DEF Ledger, NoneForgotten, FailureIsOnDisk
  <2>6. Submitted'
    BY <2>1, <2>3 DEF Ledger, Submitted, AsAccepted, Inv, TypeOK
  <2>7. OnDisk'
    <3>1. \A k \in Jobs : (AsAccepted(k) <=> AsAccepted(k)') /\ results'[k] = results[k]
      BY <2>1 DEF AsAccepted
    <3>2. \A w \in Workers : at[w] \in {"taken", "settle", "release"} => entry[w] \in Jobs
      BY <1>3, <1>4
    <3>3. \A k \in Waiting' : AsAccepted(k)' /\ results'[k] = "None"
      BY <1>3, <2>2, <2>3, <3>1 DEF Ledger, OnDisk
    <3>4. \A w \in Workers : at[w] = "taken" => AsAccepted(entry[w])'
      BY <1>1, <3>1, <3>2 DEF Ledger, OnDisk
    <3>5. QED
      BY <1>1, <2>1, <3>3, <3>4 DEF Ledger, OnDisk, AsAccepted
  <2>8. QED
    BY <2>4, <2>5, <2>6, <2>7 DEF Ledger
<1>8. QED
  BY <1>5, <1>6, <1>7 DEF Submit

\* The steps of a worker between two of those.
LEMMA WorkerKeepsLedger ==
    ASSUME Inv, Ledger, NEW w \in Workers, Step(w) \/ Drive(w)
    PROVE  Ledger'
<1>0. TypeOK
  BY DEF Inv
<1>1. CASE CheckStop(w)
  <2>1. CASE Becomes(w, "ended")
    BY <1>0, <1>1, <2>1, LedgerWorkerUntouched DEF CheckStop, queueVars, Owning
  <2>2. CASE Becomes(w, "mark")
    BY <1>0, <1>1, <2>2, LedgerWorkerUntouched DEF CheckStop, queueVars, Owning
  <2>3. QED
    BY <1>1, <2>1, <2>2 DEF CheckStop
<1>2. CASE MarkUnchanged(w)
  BY <1>0, <1>2, LedgerWorkerUntouched DEF MarkUnchanged, queueVars, Owning
<1>3. CASE TakeRunnable(w)
  <2>1. CASE Becomes(w, "isEmpty") /\ UNCHANGED <<queueVars, entry>>
    BY <1>0, <1>3, <2>1, LedgerWorkerUntouched DEF TakeRunnable, queueVars, Owning
  <2>2. QED
    BY <1>3, <2>1, TakeKeepsLedger DEF TakeRunnable
<1>4. CASE CheckEmpty(w)
  BY <1>0, <1>4, LedgerWorkerUntouched DEF CheckEmpty, queueVars, Owning
<1>5. CASE CheckAdmission(w)
  BY <1>0, <1>5, LedgerWorkerUntouched DEF CheckAdmission, queueVars, Owning
<1>6. CASE Awake(w)
  BY <1>0, <1>6, LedgerWorkerUntouched DEF Awake, queueVars, Owning
<1>7. CASE CheckTaken(w)
  <2>1. CASE Becomes(w, "claim") /\ UNCHANGED <<queueVars, entry>>
    BY <1>0, <1>7, <2>1, LedgerWorkerUntouched DEF CheckTaken, queueVars, Owning
  <2>2. QED
    BY <1>7, <2>1, GiveBackKeepsLedger DEF CheckTaken
<1>8. CASE Claim(w)
  <2>1. at[w] \in Owning /\ entry[w] \in Jobs
    BY <1>8 DEF Claim, Owning, Inv, OwnersAreActive
  <2>2. CASE Becomes(w, "register") /\ UNCHANGED results
    BY <1>0, <1>8, <2>2, LedgerWorkerUntouched DEF Claim, queueVars, Owning
  <2>3. CASE Becomes(w, "release") /\ Report(w, "Rejected")
    <3>1. /\ "release" \in Owning \ {"taken"} /\ results'[entry[w]] = "Rejected"
          /\ UNCHANGED <<pending, arrived, submission, entry>>
          /\ \A j \in Jobs \ {entry[w]} : record'[j] = record[j] /\ results'[j] = results[j]
      BY <1>0, <1>8, <2>1, <2>3 DEF Claim, Report, queueVars, Owning, TypeOK
    <3>2. QED
      BY <2>1, <2>3, <3>1, LedgerDriven
  <2>4. QED
    BY <1>8, <2>2, <2>3 DEF Claim
<1>9. CASE Register(w)
  BY <1>0, <1>9, LedgerWorkerUntouched DEF Register, queueVars, Owning
<1>10. CASE RecheckStop(w)
  BY <1>0, <1>10, LedgerWorkerUntouched DEF RecheckStop, queueVars, Owning
<1>11. CASE SettleFailed(w)
  <2>1. at[w] = "settle" /\ at[w] \in Owning /\ entry[w] \in Jobs /\ results[entry[w]] # "None"
    BY <1>11 DEF SettleFailed, Owning, Inv, OwnersAreActive, Ledger, OnDisk
  <2>2. /\ "release" \in Owning \ {"taken"} /\ Becomes(w, "release")
        /\ results' = results /\ record'[entry[w]] # "QUEUED"
        /\ UNCHANGED <<pending, arrived, submission, entry>>
        /\ \A j \in Jobs \ {entry[w]} : record'[j] = record[j]
    BY <1>0, <1>11, <2>1 DEF SettleFailed, queueVars, Owning, TypeOK
  <2>3. QED
    BY <2>1, <2>2, LedgerDriven
<1>12. CASE Release(w)
  BY <1>12, ReleaseKeepsLedger
<1>13. CASE Announce(w)
  BY <1>0, <1>13, LedgerWorkerUntouched DEF Announce, queueVars, Owning
<1>14. CASE DriverStarts(w)
  <2>1. at[w] \in Owning /\ entry[w] \in Jobs
    BY <1>14 DEF DriverStarts, Owning, Inv, OwnersAreActive
  <2>2. /\ "driving" \in Owning \ {"taken"} /\ Becomes(w, "driving")
        /\ UNCHANGED <<pending, arrived, submission, entry, results>>
        /\ \A j \in Jobs \ {entry[w]} : record'[j] = record[j]
    BY <1>0, <1>14, <2>1 DEF DriverStarts, queueVars, Owning, TypeOK
  <2>3. QED
    BY <2>1, <2>2, LedgerDriven
<1>15. CASE DriverRefuses(w)
  <2>1. at[w] \in Owning /\ entry[w] \in Jobs
    BY <1>15 DEF DriverRefuses, Owning, Inv, OwnersAreActive
  <2>2. /\ "settle" \in Owning \ {"taken"} /\ Becomes(w, "settle")
        /\ UNCHANGED <<pending, arrived, submission, entry, record>>
        /\ results'[entry[w]] = "Failed"
        /\ \A j \in Jobs \ {entry[w]} : results'[j] = results[j]
    BY <1>0, <1>15, <2>1 DEF DriverRefuses, Report, queueVars, Owning, TypeOK
  <2>3. QED
    BY <2>1, <2>2, LedgerDriven
<1>16. CASE DriverReturns(w)
  <2>1. at[w] \in Owning /\ entry[w] \in Jobs
    BY <1>16 DEF DriverReturns, Owning, Inv, OwnersAreActive
  <2>2. PICK next \in {"release", "settle"}, outcome \in {"Finished", "Failed"} :
            /\ Becomes(w, next)
            /\ results' = [results EXCEPT ![entry[w]] = outcome]
            /\ next = "release" => outcome = "Finished"
    BY <1>16 DEF DriverReturns, Report
  <2>3. /\ UNCHANGED <<pending, arrived, submission, entry>>
        /\ \A j \in Jobs \ {entry[w]} : record'[j] = record[j] /\ results'[j] = results[j]
    BY <1>0, <1>16, <2>1, <2>2 DEF DriverReturns, queueVars, TypeOK
  <2>4. next \in Owning \ {"taken"} /\ results'[entry[w]] = outcome
    BY <1>0, <2>1, <2>2 DEF Owning, TypeOK
  <2>5. QED
    BY <2>1, <2>2, <2>3, <2>4, LedgerDriven
<1>17. QED
  BY <1>1, <1>2, <1>3, <1>4, <1>5, <1>6, <1>7, <1>8, <1>9, <1>10, <1>11, <1>12, <1>13, <1>14, <1>15, <1>16
  DEF Step, Drive

\* The ledger is inductive, under the invariant above.
LEMMA NextLedger == Inv /\ Ledger /\ [Next]_vars => Ledger'
<1>1. SUFFICES ASSUME Inv, Ledger, [Next]_vars PROVE Ledger'
  OBVIOUS
<1>2. CASE RequestStop \/ StopActive \/ CloseAdmission \/ AnnounceClosed \/ UNCHANGED vars
  <2>1. UNCHANGED <<pending, arrived, submission, record, results, entry, at>>
    BY <1>2 DEF RequestStop, StopActive, CloseAdmission, AnnounceClosed, vars, queueVars, workerVars
  <2>2. QED
    BY <1>1, <2>1, LedgerUntouched
<1>3. CASE \E j \in Jobs : Submit(j)
  BY <1>1, <1>3, SubmitKeepsLedger
<1>4. CASE \E w \in Workers : Step(w) \/ Drive(w)
  BY <1>1, <1>4, WorkerKeepsLedger
<1>5. QED
  BY <1>1, <1>2, <1>3, <1>4 DEF Next

\* Whatever stop arrives at whatever moment, a queued job is waiting, held by one
\* worker or reported, no job is driven twice, and the disk says what the report
\* says (take_runnable, requeue and settle_failed_queued_state of scheduler.rs).
THEOREM NoWorkIsLostOrDoubled == Spec => []WorkIsAccountedFor
<1>1. Inv /\ Ledger => WorkIsAccountedFor
  <2>1. SUFFICES ASSUME Inv, Ledger PROVE WorkIsAccountedFor
    OBVIOUS
  <2>2. Waiting \subseteq Jobs /\ Admitted \subseteq Jobs
    BY <2>1, QueuedAreJobs DEF Inv, TypeOK, Waiting, Admitted
  <2>3. NoWorkIsLost
    <3>1. Admitted = Waiting \cup Held \cup {j \in Admitted : results[j] # "None"}
      BY <2>1, <2>2 DEF Ledger, Placed, NoneForgotten
    <3>2. \A i \in DOMAIN pending : pending[i] \in Waiting
      BY DEF Waiting, Elements
    <3>3. QED
      BY <2>1, <3>1, <3>2 DEF Ledger, OnDisk, AsAccepted, NoWorkIsLost, Admitted, Waiting
  <2>4. HeldOnce
    BY <2>1, HeldByOne DEF Ledger, Placed, HeldOnce, Once, Waiting
  <2>5. QED
    BY <2>1, <2>3, <2>4 DEF Ledger, WorkIsAccountedFor
<1>2. QED
  BY <1>1, InitInv, NextInv, InitLedger, NextLedger, PTL DEF Spec

-----------------------------------------------------------------------------
(* The scheduler is a work queue.                                          *)

\* The job i comes before the job j.
Before(s, i, j) == \E a, b \in DOMAIN s : a < b /\ s[a] = i /\ s[b] = j

SameRepository(i, j) == RepositoryOf[i] = RepositoryOf[j]

\* The jobs of one repository wait in the order they were queued, behind the one
\* that is held: what is taken next is always the oldest.
InOrder ==
    /\ \A i, k \in DOMAIN pending :
          i < k /\ SameRepository(pending[i], pending[k]) => Before(arrived, pending[i], pending[k])
    /\ \A w \in Workers : at[w] \in Owning =>
          \A j \in Waiting : SameRepository(entry[w], j) => Before(arrived, entry[w], j)

\* A step that takes nothing from the queue and puts nothing into it.
LEMMA OrderUntouched ==
    ASSUME InOrder, UNCHANGED <<pending, arrived>>,
           \A w \in Workers : at'[w] \in Owning => at[w] \in Owning /\ entry'[w] = entry[w]
    PROVE  InOrder'
BY DEF InOrder, Before, Waiting, SameRepository

\* A job joins the queue as the last one in both orders.
LEMMA EnqueueKeepsOrder ==
    ASSUME Inv, Ledger, InOrder, NEW j \in Jobs, Enqueue(j)
    PROVE  InOrder'
<1>1. /\ pending' = Append(pending, j) /\ arrived' = Append(arrived, j)
      /\ UNCHANGED <<at, entry>>
  BY DEF Enqueue, workerVars
<1>2. pending \in Seq(Jobs) /\ arrived \in Seq(Jobs)
  BY DEF Inv, TypeOK
<1>3. /\ DOMAIN arrived = 1 .. Len(arrived) /\ Len(arrived) \in Nat
      /\ DOMAIN arrived' = 1 .. Len(arrived) + 1
      /\ arrived'[Len(arrived) + 1] = j
      /\ \A a \in 1 .. Len(arrived) : arrived'[a] = arrived[a]
  BY <1>1, <1>2
<1>4. /\ DOMAIN pending = 1 .. Len(pending) /\ Len(pending) \in Nat
      /\ DOMAIN pending' = 1 .. Len(pending) + 1
      /\ pending'[Len(pending) + 1] = j
      /\ \A i \in 1 .. Len(pending) : pending'[i] = pending[i]
  BY <1>1, <1>2
<1>5. ASSUME NEW i, NEW k, Before(arrived, i, k) PROVE Before(arrived', i, k)
  BY <1>3, <1>5 DEF Before
<1>6. ASSUME NEW i \in Admitted PROVE Before(arrived', i, j)
  <2>1. PICK a \in 1 .. Len(arrived) : arrived[a] = i
    BY <1>3, <1>6 DEF Admitted, Elements
  <2>2. a < Len(arrived) + 1 /\ a \in DOMAIN arrived' /\ Len(arrived) + 1 \in DOMAIN arrived'
    BY <1>3
  <2>3. QED
    BY <1>3, <2>1, <2>2 DEF Before
<1>7. \A i \in DOMAIN pending : pending[i] \in Admitted
  BY DEF Ledger, Placed, Waiting, Elements
<1>8. \A w \in Workers : at[w] \in Owning => entry[w] \in Admitted
  BY DEF Ledger, Placed, Held
<1>9. Waiting' = Waiting \cup {j}
  BY <1>1, <1>2, AppendingAddsOne DEF Waiting
<1>10. ASSUME NEW i \in 1 .. Len(pending) + 1, NEW k \in 1 .. Len(pending) + 1, i < k,
              SameRepository(pending'[i], pending'[k])
       PROVE  Before(arrived', pending'[i], pending'[k])
  <2>1. i \in 1 .. Len(pending)
    BY <1>4, <1>10
  <2>2. CASE k = Len(pending) + 1
    BY <1>4, <1>6, <1>7, <2>1, <2>2
  <2>3. CASE k \in 1 .. Len(pending)
    <3>1. Before(arrived, pending[i], pending[k])
      BY <1>4, <1>10, <2>1, <2>3 DEF InOrder
    <3>2. QED
      BY <1>4, <1>5, <2>1, <2>3, <3>1
  <2>4. QED
    BY <1>4, <2>2, <2>3
<1>11. ASSUME NEW w \in Workers, at[w] \in Owning, NEW k \in Waiting', SameRepository(entry[w], k)
       PROVE  Before(arrived', entry[w], k)
  BY <1>5, <1>6, <1>8, <1>9, <1>11 DEF InOrder
<1>12. QED
  BY <1>1, <1>4, <1>10, <1>11 DEF InOrder, SameRepository

\* The first runnable entry has no older one of its repository before it.
LEMMA TakeKeepsOrder ==
    ASSUME Inv, Ledger, InOrder, NEW w \in Workers, TakeRunnable(w), TakeFirstRunnable(w)
    PROVE  InOrder'
<1>1. PICK i \in DOMAIN pending :
          /\ RepositoryOf[pending[i]] \notin active
          /\ \A k \in 1 .. i - 1 : RepositoryOf[pending[k]] \in active
          /\ entry' = [entry EXCEPT ![w] = pending[i]]
          /\ pending' = Without(pending, i)
          /\ Becomes(w, "taken")
  BY DEF TakeFirstRunnable, Runnable
<1>2. arrived' = arrived /\ pending \in Seq(Jobs)
  BY DEF TakeRunnable, Inv, TypeOK
<1>3. \A k, l : Before(arrived', k, l) <=> Before(arrived, k, l)
  BY <1>2
<1>4. i \in 1 .. Len(pending) /\ Len(pending) \in Nat /\ DOMAIN pending = 1 .. Len(pending)
  BY <1>1, <1>2
<1>5. /\ DOMAIN pending' = 1 .. Len(pending) - 1
      /\ \A k \in 1 .. Len(pending) - 1 : pending'[k] = IF k < i THEN pending[k] ELSE pending[k + 1]
  BY <1>1, <1>2, WithoutShifts
<1>6. ASSUME NEW k \in 1 .. Len(pending) - 1, NEW l \in 1 .. Len(pending) - 1, k < l,
             SameRepository(pending'[k], pending'[l])
      PROVE  Before(arrived, pending'[k], pending'[l])
  <2>1. PICK m \in 1 .. Len(pending) : m = (IF k < i THEN k ELSE k + 1) /\ pending'[k] = pending[m]
    BY <1>4, <1>5
  <2>2. PICK n \in 1 .. Len(pending) : n = (IF l < i THEN l ELSE l + 1) /\ pending'[l] = pending[n]
    BY <1>4, <1>5
  <2>3. m < n
    BY <1>4, <1>6, <2>1, <2>2
  <2>4. QED
    BY <1>4, <1>6, <2>1, <2>2, <2>3 DEF InOrder
<1>7. Waiting' = Waiting \ {pending[i]}
  BY <1>1, <1>2, RemovingTakesOne DEF Ledger, Placed, Waiting
<1>8. ASSUME NEW j \in Waiting', SameRepository(pending[i], j) PROVE Before(arrived, pending[i], j)
  <2>1. PICK k \in 1 .. Len(pending) : pending[k] = j /\ k # i
    BY <1>4, <1>7, <1>8 DEF Waiting, Elements
  <2>2. k > i
    <3>1. ~(k \in 1 .. i - 1)
      BY <1>1, <1>8, <2>1 DEF SameRepository
    <3>2. QED
      BY <1>4, <2>1, <3>1
  <2>3. QED
    BY <1>4, <1>8, <2>1, <2>2 DEF InOrder
<1>9. \A v \in Workers : v # w => at'[v] = at[v] /\ entry'[v] = entry[v]
  BY <1>1 DEF Inv, TypeOK, Becomes
<1>10. entry'[w] = pending[i]
  BY <1>1 DEF Inv, TypeOK
<1>11. ASSUME NEW v \in Workers, at'[v] \in Owning, NEW j \in Waiting', SameRepository(entry'[v], j)
       PROVE  Before(arrived, entry'[v], j)
  <2>1. CASE v = w
    BY <1>8, <1>10, <1>11, <2>1
  <2>2. CASE v # w
    BY <1>7, <1>9, <1>11, <2>2 DEF InOrder
  <2>3. QED
    BY <2>1, <2>2
<1>12. QED
  BY <1>3, <1>5, <1>6, <1>11 DEF InOrder, SameRepository

\* An entry that is put back to the front is older than the ones it passes.
LEMMA GiveBackKeepsOrder ==
    ASSUME Inv, Ledger, InOrder, NEW w \in Workers, CheckTaken(w), GiveBack(w)
    PROVE  InOrder'
<1> DEFINE j == entry[w]
<1>1. at[w] \in Owning
  BY DEF CheckTaken, Owning
<1>2. /\ pending' = <<j>> \o pending
      /\ entry' = [entry EXCEPT ![w] = NoJob]
      /\ at' = [at EXCEPT ![w] = "ended"]
      /\ arrived' = arrived
  BY DEF CheckTaken, GiveBack, Becomes
<1>3. j \in Jobs /\ pending \in Seq(Jobs)
  BY <1>1 DEF Inv, TypeOK, OwnersAreActive
<1>4. \A k, l : Before(arrived', k, l) <=> Before(arrived, k, l)
  BY <1>2
<1>5. ASSUME NEW k \in Waiting, SameRepository(j, k) PROVE Before(arrived, j, k)
  BY <1>1, <1>5 DEF InOrder
<1>6. ASSUME NEW v \in Workers, v # w, at[v] \in Owning PROVE ~SameRepository(entry[v], j)
  <2>1. RepositoryOf[j] \in Repositories
    BY <1>3, SchedulerAssumption
  <2>2. QED
    BY <1>1, <1>6, <2>1 DEF Inv, RepositoryExclusion, Owns, SameRepository
<1>7. \A v \in Workers : at'[v] \in Owning => v # w /\ at'[v] = at[v] /\ entry'[v] = entry[v]
  BY <1>2 DEF Inv, TypeOK, Owning
<1> HIDE DEF j
<1>8. /\ DOMAIN pending' = 1 .. Len(pending) + 1
      /\ pending'[1] = j
      /\ \A k \in 1 .. Len(pending) : pending'[k + 1] = pending[k]
      /\ Waiting' = Waiting \cup {j}
  BY <1>2, <1>3, PuttingFirstAddsOne DEF Waiting
<1>9. DOMAIN pending = 1 .. Len(pending) /\ Len(pending) \in Nat
  BY <1>3
<1>10. ASSUME NEW k \in 1 .. Len(pending) + 1, NEW l \in 1 .. Len(pending) + 1, k < l,
              SameRepository(pending'[k], pending'[l])
       PROVE  Before(arrived, pending'[k], pending'[l])
  <2>1. l - 1 \in 1 .. Len(pending) /\ pending'[l] = pending[l - 1]
    <3>1. l - 1 \in 1 .. Len(pending) /\ (l - 1) + 1 = l
      BY <1>9, <1>10
    <3>2. QED
      BY <1>8, <3>1
  <2>2. CASE k = 1
    BY <1>5, <1>8, <1>9, <1>10, <2>1, <2>2 DEF Waiting, Elements
  <2>3. CASE k # 1
    <3>1. k - 1 \in 1 .. Len(pending) /\ (k - 1) + 1 = k /\ k - 1 < l - 1
      BY <1>9, <1>10, <2>3
    <3>2. pending'[k] = pending[k - 1]
      BY <1>8, <3>1
    <3>3. QED
      BY <1>9, <1>10, <2>1, <3>1, <3>2 DEF InOrder
  <2>4. QED
    BY <2>2, <2>3
<1>11. ASSUME NEW v \in Workers, at'[v] \in Owning, NEW k \in Waiting', SameRepository(entry'[v], k)
       PROVE  Before(arrived, entry'[v], k)
  BY <1>6, <1>7, <1>8, <1>11 DEF InOrder
<1>12. QED
  BY <1>4, <1>8, <1>10, <1>11 DEF InOrder, SameRepository

\* The order is inductive, under the invariants above.
LEMMA NextInOrder == Inv /\ Ledger /\ InOrder /\ [Next]_vars => InOrder'
<1>1. SUFFICES ASSUME Inv, Ledger, InOrder, [Next]_vars PROVE InOrder'
  OBVIOUS
<1>2. CASE RequestStop \/ StopActive \/ CloseAdmission \/ AnnounceClosed \/ UNCHANGED vars
  <2>1. UNCHANGED <<pending, arrived, entry, at>>
    BY <1>2 DEF RequestStop, StopActive, CloseAdmission, AnnounceClosed, vars, queueVars, workerVars
  <2>2. QED
    BY <1>1, <2>1, OrderUntouched
<1>3. ASSUME NEW j \in Jobs, Submit(j) PROVE InOrder'
  <2>1. CASE SubmitChecks(j) \/ AcceptOne(j) \/ RejectOne(j) \/ AnswerSubmission(j)
    <3>1. UNCHANGED <<pending, arrived, entry, at>>
      BY <2>1 DEF SubmitChecks, AcceptOne, RejectOne, AnswerSubmission, queueVars, workerVars
    <3>2. QED
      BY <1>1, <3>1, OrderUntouched
  <2>2. QED
    BY <1>1, <1>3, <2>1, EnqueueKeepsOrder DEF Submit
<1>4. ASSUME NEW w \in Workers, Step(w) \/ Drive(w) PROVE InOrder'
  <2>1. CASE TakeRunnable(w) /\ TakeFirstRunnable(w)
    BY <1>1, <2>1, TakeKeepsOrder
  <2>2. CASE CheckTaken(w) /\ GiveBack(w)
    BY <1>1, <2>2, GiveBackKeepsOrder
  <2>3. CASE Release(w)
    <3>1. /\ UNCHANGED <<pending, arrived>>
          /\ \A v \in Workers : at'[v] \in Owning => v # w /\ at'[v] = at[v] /\ entry'[v] = entry[v]
      BY <1>1, <2>3 DEF Release, Becomes, Inv, TypeOK, Owning
    <3>2. QED
      BY <1>1, <3>1, OrderUntouched
  <2>4. CASE /\ UNCHANGED <<pending, arrived, entry>>
             /\ \E next : at' = [at EXCEPT ![w] = next] /\ (next \in Owning => at[w] \in Owning)
    <3>1. \A v \in Workers : at'[v] \in Owning => at[v] \in Owning
      BY <1>1, <2>4 DEF Inv, TypeOK
    <3>2. QED
      BY <1>1, <2>4, <3>1, OrderUntouched
  <2>5. CASE CheckStop(w) \/ MarkUnchanged(w) \/ CheckEmpty(w) \/ CheckAdmission(w) \/ Awake(w) \/ Announce(w)
    <3>1. \E next : at' = [at EXCEPT ![w] = next] /\ next \notin Owning
      BY <2>5, ZenonT(60) DEF CheckStop, MarkUnchanged, CheckEmpty, CheckAdmission, Awake, Announce, Becomes, Owning
    <3>2. QED
      BY <2>4, <2>5, <3>1 DEF CheckStop, MarkUnchanged, CheckEmpty, CheckAdmission, Awake, Announce, queueVars
  <2>6. CASE TakeRunnable(w) /\ Becomes(w, "isEmpty") /\ UNCHANGED <<queueVars, entry>>
    <3>1. at' = [at EXCEPT ![w] = "isEmpty"] /\ "isEmpty" \notin Owning /\ UNCHANGED <<pending, arrived, entry>>
      BY <2>6 DEF TakeRunnable, Becomes, queueVars, Owning
    <3>2. QED
      BY <2>4, <3>1
  <2>7. CASE CheckTaken(w) /\ Becomes(w, "claim") /\ UNCHANGED <<queueVars, entry>>
    <3>1. at' = [at EXCEPT ![w] = "claim"] /\ at[w] \in Owning /\ UNCHANGED <<pending, arrived, entry>>
      BY <2>7 DEF CheckTaken, Becomes, queueVars, Owning
    <3>2. QED
      BY <2>4, <3>1
  <2>8. CASE Claim(w) \/ Register(w) \/ RecheckStop(w) \/ SettleFailed(w) \/ Drive(w)
    <3>1. at[w] \in Owning /\ \E next : at' = [at EXCEPT ![w] = next]
      BY <2>8 DEF Claim, Register, RecheckStop, SettleFailed, Drive, DriverStarts, DriverRefuses, DriverReturns,
                  Becomes, Owning
    <3>2. UNCHANGED <<pending, arrived, entry>>
      BY <2>8 DEF Claim, Register, RecheckStop, SettleFailed, Drive, DriverStarts, DriverRefuses, DriverReturns,
                  queueVars
    <3>3. QED
      BY <2>4, <3>1, <3>2
  <2>9. QED
    BY <1>4, <2>1, <2>2, <2>3, <2>5, <2>6, <2>7, <2>8 DEF Step, TakeRunnable, CheckTaken
<1>5. QED
  BY <1>1, <1>2, <1>3, <1>4 DEF Next

\* The status the work queue sees.
Status == [j \in Jobs |-> Outcome(j)]

\* What the work queue sees is told by three sets of jobs.
LEMMA StatusIs ==
    ASSUME NEW j \in Jobs
    PROVE  /\ Status[j] = IF j \in Held THEN "running" ELSE IF j \in Waiting THEN "waiting"
                          ELSE IF j \in Admitted THEN "done" ELSE "absent"
           /\ Status'[j] = IF j \in Held' THEN "running" ELSE IF j \in Waiting' THEN "waiting"
                           ELSE IF j \in Admitted' THEN "done" ELSE "absent"
<1>1. Status[j] = Outcome(j) /\ Status'[j] = Outcome(j)'
  BY DEF Status
<1>2. Outcome(j) = IF j \in Held THEN "running" ELSE IF j \in Waiting THEN "waiting"
                   ELSE IF j \in Admitted THEN "done" ELSE "absent"
  BY DEF Outcome, Waiting, Admitted
<1>3. Outcome(j)' = IF j \in Held' THEN "running" ELSE IF j \in Waiting' THEN "waiting"
                    ELSE IF j \in Admitted' THEN "done" ELSE "absent"
  BY DEF Outcome, Waiting, Admitted
<1>4. QED
  BY <1>1, <1>2, <1>3

\* A step that moves one job only: the others look the same.
LEMMA StatusMoves ==
    ASSUME NEW j \in Jobs, NEW s, Status'[j] = s,
           \A k \in Jobs \ {j} : Status'[k] = Status[k]
    PROVE  Status' = [Status EXCEPT ![j] = s]
BY DEF Status

\* A step that leaves the three sets and the order alone is invisible.
LEMMA InvisibleStep ==
    ASSUME arrived' = arrived, Waiting' = Waiting, Held' = Held
    PROVE  UNCHANGED Queue!queueVars
<1>1. \A j \in Jobs : Outcome(j)' = Outcome(j)
  BY DEF Outcome, Waiting
<1>2. QED
  BY <1>1 DEF Queue!queueVars

\* The work queue counts as the scheduler does.
LEMMA QueueCounts ==
    ASSUME NEW S
    PROVE  Queue!Cardinality(S) = Cardinality(S)
BY DEF Queue!Cardinality, Cardinality

\* A worker that has no entry is a free slot.
LEMMA ThereIsASlot ==
    ASSUME Inv, NEW w \in Workers, at[w] \notin Owning
    PROVE  Cardinality(Held) < Cardinality(Workers)
<1> DEFINE Owners == {v \in Workers : at[v] \in Owning}
           f == [v \in Owners |-> entry[v]]
<1>1. Owners \in SUBSET (Workers \ {w})
  OBVIOUS
<1>2. /\ IsFiniteSet(Workers \ {w})
      /\ Cardinality(Workers \ {w}) = Cardinality(Workers) - 1
      /\ Cardinality(Workers) \in Nat
  BY SchedulerAssumption, FS_RemoveElement, FS_CardinalityType
<1>3. IsFiniteSet(Owners) /\ Cardinality(Owners) <= Cardinality(Workers \ {w})
  BY <1>1, <1>2, FS_Subset
<1>4. f \in Surjection(Owners, Held)
  BY DEF Surjection, Held
<1> HIDE DEF f
<1>5. IsFiniteSet(Held) /\ Cardinality(Held) <= Cardinality(Owners)
  BY <1>3, <1>4, FS_Surjection
<1>6. Cardinality(Held) \in Nat /\ Cardinality(Owners) \in Nat
  BY <1>3, <1>5, FS_CardinalityType
<1>7. QED
  BY <1>2, <1>3, <1>5, <1>6

\* take_runnable hands out the oldest job of a repository nobody works in.
LEMMA TakeIsStart ==
    ASSUME Inv, Ledger, InOrder, NEW w \in Workers, TakeRunnable(w), TakeFirstRunnable(w)
    PROVE  \E n \in DOMAIN arrived : Queue!Start(n)
<1>1. PICK i \in DOMAIN pending :
          /\ RepositoryOf[pending[i]] \notin active
          /\ \A k \in 1 .. i - 1 : RepositoryOf[pending[k]] \in active
          /\ entry' = [entry EXCEPT ![w] = pending[i]]
          /\ pending' = Without(pending, i)
          /\ Becomes(w, "taken")
  BY DEF TakeFirstRunnable, Runnable
<1> DEFINE j == pending[i]
<1>2. arrived' = arrived /\ at[w] \notin Owning /\ pending \in Seq(Jobs) /\ arrived \in Seq(Jobs)
  BY DEF TakeRunnable, Owning, Inv, TypeOK
<1>3. j \in Jobs /\ j \in Waiting /\ j \notin Held
  BY <1>2, QueuedAreJobs DEF Waiting, Elements, Ledger, Placed
<1>4. Waiting' = Waiting \ {j} /\ Held' = Held \cup {j} /\ Admitted' = Admitted
  BY <1>1, <1>2, <1>3, RemovingTakesOne, HeldTaken DEF Inv, Ledger, Placed, Waiting, Admitted
<1>5. PICK n \in DOMAIN arrived : arrived[n] = j
  BY <1>3 DEF Ledger, Placed, Admitted, Elements
<1>6. DOMAIN arrived = 1 .. Len(arrived) /\ DOMAIN pending = 1 .. Len(pending)
      /\ Len(arrived) \in Nat /\ Len(pending) \in Nat
  BY <1>2
<1>7. ASSUME NEW m \in 1 .. n - 1, SameRepository(arrived[m], j) PROVE Status[arrived[m]] = "done"
  <2>1. m \in DOMAIN arrived /\ m < n /\ arrived[m] \in Admitted /\ arrived[m] \in Jobs
    BY <1>2, <1>5, <1>6 DEF Admitted, Elements
  <2>2. arrived[m] \notin Held
    BY <1>1, <1>7 DEF Held, Inv, OwnersAreActive, SameRepository
  <2>3. arrived[m] \notin Waiting
    <3>1. SUFFICES ASSUME NEW k \in 1 .. Len(pending), pending[k] = arrived[m] PROVE FALSE
      BY <1>6 DEF Waiting, Elements
    <3>2. k >= i
      <4>1. ~(k \in 1 .. i - 1)
        BY <1>1, <1>7, <3>1 DEF SameRepository
      <4>2. QED
        BY <1>1, <1>6, <4>1
    <3>3. k # i
      BY <1>5, <1>6, <2>1, <3>1 DEF Ledger, Placed, Once
    <3>4. Before(arrived, j, arrived[m])
      BY <1>1, <1>6, <1>7, <3>1, <3>2, <3>3, SMTT(60) DEF InOrder, SameRepository
    <3>5. n < m
      BY <1>5, <2>1, <3>4 DEF Before, Ledger, Placed, Once
    <3>6. QED
      BY <1>6, <2>1, <3>5
  <2>4. QED
    BY <2>1, <2>2, <2>3, StatusIs
<1> HIDE DEF j
<1>8. Queue!ItsTurn(n)
  BY <1>5, <1>7 DEF Queue!ItsTurn, Status, SameRepository
<1>9. Status[j] = "waiting" /\ Status'[j] = "running" /\ \A k \in Jobs \ {j} : Status'[k] = Status[k]
  BY <1>3, <1>4, StatusIs
<1>10. Status' = [Status EXCEPT ![j] = "running"]
  BY <1>3, <1>9, StatusMoves
<1>11. Queue!Cardinality(Queue!Running) < Cardinality(Workers)
  <2>1. Held \subseteq Jobs
    BY DEF Held, Inv, OwnersAreActive
  <2>2. Queue!Running = Held
    BY <2>1, StatusIs DEF Queue!Running, Status
  <2>3. QED
    BY <1>2, <2>2, ThereIsASlot, QueueCounts
<1>12. Queue!Start(n)
  BY <1>2, <1>5, <1>8, <1>9, <1>10, <1>11 DEF Queue!Start, Status
<1>13. QED
  BY <1>12

\* A stopped worker puts its job back, a released one is done with it.
LEMMA GivingUpIsSeen ==
    ASSUME Inv, Ledger, NEW w \in Workers
    PROVE  /\ CheckTaken(w) /\ GiveBack(w) => \E j \in Jobs : Queue!PutBack(j)
           /\ Release(w) => \E j \in Jobs : Queue!Finish(j)
<1> DEFINE j == entry[w]
<1>1. ASSUME CheckTaken(w), GiveBack(w) PROVE Queue!PutBack(j) /\ j \in Jobs
  <2>1. at[w] \in Owning /\ "ended" \notin Owning /\ arrived' = arrived /\ pending' = <<j>> \o pending
    BY <1>1 DEF CheckTaken, GiveBack, Owning
  <2>2. j \in Jobs /\ j \in Held
    BY <2>1 DEF Inv, OwnersAreActive, Held
  <2>3. Held' = Held \ {j} /\ Waiting' = Waiting \cup {j} /\ Admitted' = Admitted
    <3>1. Held' = Held \ {j}
      BY <1>1, <2>1, HeldGivenUp DEF GiveBack
    <3>2. Waiting' = Waiting \cup {j}
      BY <2>1, <2>2, PuttingFirstAddsOne DEF Inv, TypeOK, Waiting
    <3>3. QED
      BY <2>1, <3>1, <3>2 DEF Admitted
  <2> HIDE DEF j
  <2>4. Status[j] = "running" /\ Status'[j] = "waiting" /\ \A k \in Jobs \ {j} : Status'[k] = Status[k]
    BY <2>2, <2>3, StatusIs
  <2>5. Status' = [Status EXCEPT ![j] = "waiting"]
    BY <2>2, <2>4, StatusMoves
  <2>6. QED
    BY <2>1, <2>2, <2>4, <2>5 DEF Queue!PutBack, Status
<1>2. ASSUME Release(w) PROVE Queue!Finish(j) /\ j \in Jobs
  <2>1. at[w] \in Owning /\ "announce" \notin Owning /\ UNCHANGED <<arrived, pending>>
    BY <1>2 DEF Release, Owning
  <2>2. j \in Jobs /\ j \in Held /\ j \notin Waiting /\ j \in Admitted
    BY <2>1 DEF Inv, OwnersAreActive, Held, Ledger, Placed
  <2>3. Held' = Held \ {j} /\ Waiting' = Waiting /\ Admitted' = Admitted
    BY <1>2, <2>1, HeldGivenUp DEF Release, Waiting, Admitted
  <2> HIDE DEF j
  <2>4. Status[j] = "running" /\ Status'[j] = "done" /\ \A k \in Jobs \ {j} : Status'[k] = Status[k]
    BY <2>2, <2>3, StatusIs
  <2>5. Status' = [Status EXCEPT ![j] = "done"]
    BY <2>2, <2>4, StatusMoves
  <2>6. QED
    BY <2>1, <2>2, <2>4, <2>5 DEF Queue!Finish, Status
<1>3. QED
  BY <1>1, <1>2

\* accept_one admits a job that was not in the queue.
LEMMA EnqueueIsAdmit ==
    ASSUME Inv, Ledger, NEW j \in Jobs, Enqueue(j)
    PROVE  Queue!Admit(j)
<1>1. j \notin Admitted /\ j \notin Held /\ j \notin Waiting
  BY DEF Enqueue, Ledger, Submitted, Placed
<1>2. pending' = Append(pending, j) /\ arrived' = Append(arrived, j) /\ UNCHANGED <<at, entry>>
  BY DEF Enqueue, workerVars
<1>3. Held' = Held /\ Waiting' = Waiting \cup {j} /\ Admitted' = Admitted \cup {j}
  BY <1>2, AppendingAddsOne DEF Inv, TypeOK, Held, Waiting, Admitted
<1>4. Status[j] = "absent" /\ Status'[j] = "waiting" /\ \A k \in Jobs \ {j} : Status'[k] = Status[k]
  BY <1>1, <1>3, StatusIs
<1>5. Status' = [Status EXCEPT ![j] = "waiting"]
  BY <1>4, StatusMoves
<1>6. QED
  BY <1>2, <1>4, <1>5 DEF Queue!Admit, Status

\* Every step of the scheduler is a step of the work queue, or invisible.
LEMMA StepIsQueueStep ==
    ASSUME Inv, Ledger, InOrder, [Next]_vars
    PROVE  [Queue!Next]_Queue!queueVars
<1>1. CASE RequestStop \/ StopActive \/ CloseAdmission \/ AnnounceClosed \/ UNCHANGED vars
  <2>1. UNCHANGED <<pending, arrived, at, entry>>
    BY <1>1 DEF RequestStop, StopActive, CloseAdmission, AnnounceClosed, vars, queueVars, workerVars
  <2>2. QED
    BY <2>1, InvisibleStep DEF Waiting, Held
<1>2. ASSUME NEW j \in Jobs, Submit(j) PROVE [Queue!Next]_Queue!queueVars
  <2>1. CASE SubmitChecks(j) \/ AcceptOne(j) \/ RejectOne(j) \/ AnswerSubmission(j)
    <3>1. UNCHANGED <<pending, arrived, at, entry>>
      BY <2>1 DEF SubmitChecks, AcceptOne, RejectOne, AnswerSubmission, queueVars, workerVars
    <3>2. QED
      BY <3>1, InvisibleStep DEF Waiting, Held
  <2>2. CASE Enqueue(j)
    BY <2>2, EnqueueIsAdmit DEF Queue!Next
  <2>3. QED
    BY <1>2, <2>1, <2>2 DEF Submit
<1>3. ASSUME NEW w \in Workers, Step(w) \/ Drive(w) PROVE [Queue!Next]_Queue!queueVars
  <2>1. CASE TakeRunnable(w) /\ TakeFirstRunnable(w)
    BY <2>1, TakeIsStart DEF Queue!Next
  <2>2. CASE (CheckTaken(w) /\ GiveBack(w)) \/ Release(w)
    BY <2>2, GivingUpIsSeen DEF Queue!Next
  <2>3. ASSUME NEW next, Becomes(w, next), next \in Owning <=> at[w] \in Owning, UNCHANGED <<pending, arrived, entry>>
        PROVE  UNCHANGED Queue!queueVars
    BY <2>3, HeldKept, InvisibleStep DEF Inv, Waiting
  <2>4. CASE CheckStop(w) \/ MarkUnchanged(w) \/ CheckEmpty(w) \/ CheckAdmission(w) \/ Awake(w) \/ Announce(w)
    <3>1. at[w] \notin Owning /\ \E next : Becomes(w, next) /\ next \notin Owning
      BY <2>4 DEF CheckStop, MarkUnchanged, CheckEmpty, CheckAdmission, Awake, Announce, Owning
    <3>2. QED
      BY <2>3, <2>4, <3>1 DEF CheckStop, MarkUnchanged, CheckEmpty, CheckAdmission, Awake, Announce, queueVars
  <2>5. CASE TakeRunnable(w) /\ Becomes(w, "isEmpty") /\ UNCHANGED <<queueVars, entry>>
    <3>1. at[w] \notin Owning /\ "isEmpty" \notin Owning /\ UNCHANGED <<pending, arrived, entry>>
      BY <2>5 DEF TakeRunnable, queueVars, Owning
    <3>2. QED
      BY <2>3, <2>5, <3>1
  <2>6. CASE CheckTaken(w) /\ Becomes(w, "claim") /\ UNCHANGED <<queueVars, entry>>
    <3>1. at[w] \in Owning /\ "claim" \in Owning /\ UNCHANGED <<pending, arrived, entry>>
      BY <2>6 DEF CheckTaken, queueVars, Owning
    <3>2. QED
      BY <2>3, <2>6, <3>1
  <2>7. CASE Claim(w) \/ Register(w) \/ RecheckStop(w) \/ SettleFailed(w) \/ Drive(w)
    <3>1. at[w] \in Owning /\ \E next : Becomes(w, next) /\ next \in Owning
      BY <2>7 DEF Claim, Register, RecheckStop, SettleFailed, Drive, DriverStarts, DriverRefuses, DriverReturns, Owning
    <3>2. UNCHANGED <<pending, arrived, entry>>
      BY <2>7 DEF Claim, Register, RecheckStop, SettleFailed, Drive, DriverStarts, DriverRefuses, DriverReturns,
                  queueVars
    <3>3. QED
      BY <2>3, <3>1, <3>2
  <2>8. QED
    BY <1>3, <2>1, <2>2, <2>4, <2>5, <2>6, <2>7 DEF Step, TakeRunnable, CheckTaken
<1>4. QED
  BY <1>1, <1>2, <1>3 DEF Next

\* A scheduler starts in an order of waiting jobs.
LEMMA InitIsQueueInit == Init => InOrder /\ Queue!Init
<1>1. SUFFICES ASSUME Init PROVE InOrder /\ Queue!Init
  OBVIOUS
<1>2. Held = {} /\ arrived = pending /\ pending \in Seq(Jobs) /\ Waiting = Admitted
  BY <1>1, InitInv DEF Init, Held, Owning, Inv, TypeOK, Waiting, Admitted
<1>3. InOrder
  BY <1>1, <1>2 DEF Init, InOrder, Before, Owning
<1>4. \A j \in Jobs : Outcome(j) = IF \E i \in DOMAIN arrived : arrived[i] = j THEN "waiting" ELSE "absent"
  BY <1>2 DEF Outcome, Waiting, Admitted, Elements
<1>5. Queue!Init
  BY <1>1, <1>2, <1>4, InitLedger DEF Queue!Init, Ledger, Placed, Once
<1>6. QED
  BY <1>3, <1>5

\* The scheduler is a work queue for any number of workers and jobs: at most as
\* many jobs run as there are workers, and the jobs of one repository run one at a
\* time in the order they were queued (docs/scheduler.md, take_runnable, requeue).
THEOREM SchedulerIsAWorkQueue == Spec => ImplementsWorkQueue
<1>1. Inv /\ Ledger /\ InOrder /\ [Next]_vars => [Queue!Next]_Queue!queueVars
  BY StepIsQueueStep
<1>2. QED
  BY <1>1, InitInv, NextInv, InitLedger, NextLedger, NextInOrder, InitIsQueueInit, PTL
  DEF Spec, ImplementsWorkQueue, Queue!Spec

-----------------------------------------------------------------------------
(* What any work queue keeps, and the scheduler with it.                   *)

Runs(s) == {j \in Jobs : s[j] = "running"}

\* The jobs of the i-th one's repository that were admitted before it are done.
Turn(o, s, i) == \A k \in 1 .. i - 1 : SameRepository(o[k], o[i]) => s[o[k]] = "done"

\* The inductive invariant of a work queue with the order o, the status s and n slots: who
\* was admitted is in the order once, and everybody else is absent.
Sound(o, s, n) ==
    /\ o \in Seq(Jobs) /\ Once(o)
    /\ s \in [Jobs -> {"absent", "waiting", "running", "done"}]
    /\ \A j \in Jobs : s[j] = "absent" <=> j \notin Elements(o)
    /\ IsFiniteSet(Runs(s)) /\ Cardinality(Runs(s)) <= n
    /\ \A i \in DOMAIN o : s[o[i]] \in {"running", "done"} => Turn(o, s, i)

LEMMA AdmitKeepsSound ==
    ASSUME NEW o, NEW s, NEW n, Sound(o, s, n), NEW j \in Jobs, s[j] = "absent"
    PROVE  Sound(Append(o, j), [s EXCEPT ![j] = "waiting"], n)
<1> DEFINE p == Append(o, j)
           t == [s EXCEPT ![j] = "waiting"]
           N == Len(o)
<1>1. /\ N \in Nat /\ DOMAIN o = 1 .. N /\ p \in Seq(Jobs) /\ DOMAIN p = 1 .. N + 1
      /\ p[N + 1] = j /\ \A i \in 1 .. N : p[i] = o[i]
  BY DEF Sound
<1>2. \A i \in 1 .. N : o[i] # j /\ o[i] \in Jobs
  BY <1>1 DEF Sound, Elements
<1>3. \A k \in Jobs : t[k] = IF k = j THEN "waiting" ELSE s[k]
  BY DEF Sound
<1>4. t \in [Jobs -> {"absent", "waiting", "running", "done"}]
  BY DEF Sound
<1> HIDE DEF p, t, N
<1>5. Runs(t) = Runs(s)
  BY <1>3 DEF Runs
<1>6. Once(p)
  <2>1. SUFFICES ASSUME NEW i \in 1 .. N + 1, NEW k \in 1 .. N + 1, p[i] = p[k] PROVE i = k
    BY <1>1 DEF Once
  <2>2. (i \in 1 .. N \/ i = N + 1) /\ (k \in 1 .. N \/ k = N + 1)
    BY <1>1
  <2>3. QED
    BY <1>1, <1>2, <2>1, <2>2 DEF Sound, Once
<1>7. ASSUME NEW k \in Jobs PROVE t[k] = "absent" <=> k \notin Elements(p)
  <2>1. k \in Elements(p) <=> (k \in Elements(o) \/ k = j)
    <3>1. N + 1 \in DOMAIN p /\ \A i \in DOMAIN o : i \in DOMAIN p
      BY <1>1
    <3>2. \A i \in DOMAIN p : i \in DOMAIN o \/ i = N + 1
      BY <1>1
    <3>3. QED
      BY <1>1, <3>1, <3>2 DEF Elements
  <2>2. QED
    BY <1>3, <2>1 DEF Sound
<1>8. ASSUME NEW i \in DOMAIN p, t[p[i]] \in {"running", "done"} PROVE Turn(p, t, i)
  <2>1. i \in 1 .. N
    BY <1>1, <1>3, <1>8
  <2>2. p[i] = o[i] /\ t[o[i]] = s[o[i]]
    BY <1>1, <1>2, <1>3, <2>1
  <2>3. Turn(o, s, i)
    BY <1>1, <1>8, <2>1, <2>2 DEF Sound
  <2>4. \A k \in 1 .. i - 1 : k \in 1 .. N
    BY <1>1, <2>1
  <2>5. QED
    BY <1>1, <1>2, <1>3, <2>2, <2>3, <2>4 DEF Turn
<1>9. QED
  BY <1>1, <1>4, <1>5, <1>6, <1>7, <1>8 DEF Sound, p, t

\* A job is started in its turn, when there is a slot.
LEMMA StartKeepsSound ==
    ASSUME NEW o, NEW s, NEW n \in Nat, Sound(o, s, n), NEW i \in DOMAIN o, s[o[i]] = "waiting",
           Cardinality(Runs(s)) < n, Turn(o, s, i)
    PROVE  Sound(o, [s EXCEPT ![o[i]] = "running"], n)
<1> DEFINE j == o[i]
           t == [s EXCEPT ![j] = "running"]
<1>1. j \in Jobs /\ DOMAIN o = 1 .. Len(o) /\ Len(o) \in Nat /\ \A k \in DOMAIN o : o[k] \in Jobs
  BY DEF Sound
<1>2. (\A k \in Jobs : t[k] = IF k = j THEN "running" ELSE s[k])
      /\ t \in [Jobs -> {"absent", "waiting", "running", "done"}]
  BY <1>1 DEF Sound
<1>3. s[j] = "waiting" /\ Turn(o, s, i) /\ \A k \in DOMAIN o : o[k] = j => k = i
  BY DEF Sound, Once
<1> HIDE DEF j, t
<1>4. IsFiniteSet(Runs(t)) /\ Cardinality(Runs(t)) <= n
  <2>1. Runs(t) = Runs(s) \cup {j} /\ j \notin Runs(s)
    BY <1>1, <1>2, <1>3 DEF Runs
  <2>2. IsFiniteSet(Runs(s)) /\ Cardinality(Runs(s)) \in Nat
    BY FS_CardinalityType DEF Sound
  <2>3. IsFiniteSet(Runs(t)) /\ Cardinality(Runs(t)) = Cardinality(Runs(s)) + 1
    BY <2>1, <2>2, FS_AddElement
  <2>4. QED
    BY <2>2, <2>3
<1>5. ASSUME NEW k \in DOMAIN o, t[o[k]] \in {"running", "done"} PROVE Turn(o, t, k)
  <2>1. Turn(o, s, k)
    <3>1. CASE o[k] = j
      BY <1>3, <3>1
    <3>2. CASE o[k] # j
      BY <1>1, <1>2, <1>5, <3>2 DEF Sound
    <3>3. QED
      BY <3>1, <3>2
  <2>2. \A m \in 1 .. k - 1 : m \in DOMAIN o
    BY <1>1
  <2>3. QED
    BY <1>1, <1>2, <1>3, <2>1, <2>2 DEF Turn
<1>6. \A k \in Jobs : t[k] = "absent" <=> k \notin Elements(o)
  BY <1>1, <1>2, <1>3 DEF Sound
<1>7. QED
  BY <1>2, <1>4, <1>5, <1>6 DEF Sound, t, j

\* A job that runs is put back, or is done.
LEMMA LeaveKeepsSound ==
    ASSUME NEW o, NEW s, NEW n \in Nat, Sound(o, s, n), NEW j \in Jobs, s[j] = "running",
           NEW v \in {"waiting", "done"}
    PROVE  Sound(o, [s EXCEPT ![j] = v], n)
<1> DEFINE t == [s EXCEPT ![j] = v]
<1>1. DOMAIN o = 1 .. Len(o) /\ Len(o) \in Nat /\ \A k \in DOMAIN o : o[k] \in Jobs
  BY DEF Sound
<1>2. (\A k \in Jobs : t[k] = IF k = j THEN v ELSE s[k])
      /\ t \in [Jobs -> {"absent", "waiting", "running", "done"}]
  BY DEF Sound
<1> HIDE DEF t
<1>3. IsFiniteSet(Runs(t)) /\ Cardinality(Runs(t)) <= n
  <2>1. Runs(t) \subseteq Runs(s)
    BY <1>2 DEF Runs
  <2>2. IsFiniteSet(Runs(s)) /\ Cardinality(Runs(s)) <= n
    BY DEF Sound
  <2>3. IsFiniteSet(Runs(t)) /\ Cardinality(Runs(t)) <= Cardinality(Runs(s))
    BY <2>1, <2>2, FS_Subset
  <2>4. Cardinality(Runs(t)) \in Nat /\ Cardinality(Runs(s)) \in Nat
    BY <2>2, <2>3, FS_CardinalityType
  <2>5. QED
    BY <2>2, <2>3, <2>4
<1>4. ASSUME NEW k \in DOMAIN o, t[o[k]] \in {"running", "done"} PROVE Turn(o, t, k)
  <2>1. s[o[k]] \in {"running", "done"}
    BY <1>1, <1>2, <1>4
  <2>2. Turn(o, s, k)
    BY <2>1 DEF Sound
  <2>3. \A m \in 1 .. k - 1 : m \in DOMAIN o
    BY <1>1
  <2>4. \A m \in 1 .. k - 1 : s[o[m]] = "done" => t[o[m]] = "done"
    BY <1>1, <1>2, <2>3
  <2>5. QED
    BY <2>2, <2>4 DEF Turn
<1>5. \A k \in Jobs : t[k] = "absent" <=> k \notin Elements(o)
  BY <1>2 DEF Sound
<1>6. QED
  BY <1>2, <1>3, <1>4, <1>5 DEF Sound, t

\* A step of the work queue keeps it.
LEMMA QueueStepKeepsSound ==
    ASSUME NEW n \in Nat, n = Cardinality(Workers), Sound(arrived, Status, n), [Queue!Next]_Queue!queueVars
    PROVE  Sound(arrived', Status', n)
<1>1. Queue!Running = Runs(Status) /\ Queue!Cardinality(Runs(Status)) = Cardinality(Runs(Status))
  BY QueueCounts DEF Queue!Running, Runs, Status
<1>2. ASSUME NEW j \in Jobs, Queue!Admit(j) PROVE Sound(arrived', Status', n)
  <2>1. Status[j] = "absent" /\ arrived' = Append(arrived, j) /\ Status' = [Status EXCEPT ![j] = "waiting"]
    BY <1>2 DEF Queue!Admit, Status
  <2>2. QED
    BY <2>1, AdmitKeepsSound
<1>3. ASSUME NEW j \in Jobs, Queue!PutBack(j) PROVE Sound(arrived', Status', n)
  <2>1. Status[j] = "running" /\ arrived' = arrived /\ Status' = [Status EXCEPT ![j] = "waiting"]
    BY <1>3 DEF Queue!PutBack, Status
  <2>2. QED
    BY <2>1, LeaveKeepsSound
<1>4. ASSUME NEW j \in Jobs, Queue!Finish(j) PROVE Sound(arrived', Status', n)
  <2>1. Status[j] = "running" /\ arrived' = arrived /\ Status' = [Status EXCEPT ![j] = "done"]
    BY <1>4 DEF Queue!Finish, Status
  <2>2. QED
    BY <2>1, LeaveKeepsSound
<1>5. ASSUME NEW i \in DOMAIN arrived, Queue!Start(i) PROVE Sound(arrived', Status', n)
  <2>1. /\ Status[arrived[i]] = "waiting" /\ arrived' = arrived
        /\ Status' = [Status EXCEPT ![arrived[i]] = "running"]
    BY <1>5 DEF Queue!Start, Status
  <2>2. Queue!Cardinality(Queue!Running) < n
    BY <1>5 DEF Queue!Start
  <2>3. Turn(arrived, Status, i)
    BY <1>5 DEF Queue!Start, Queue!ItsTurn, Turn, SameRepository, Status
  <2>4. QED
    BY <1>1, <2>1, <2>2, <2>3, StartKeepsSound
<1>6. CASE UNCHANGED Queue!queueVars
  <2>1. arrived' = arrived /\ Status' = Status
    BY <1>6 DEF Queue!queueVars, Status
  <2>2. QED
    BY <2>1
<1>7. QED
  BY <1>2, <1>3, <1>4, <1>5, <1>6 DEF Queue!Next

\* Whatever is a work queue keeps its promise: there is a slot for every job that runs, and a
\* job runs, or is done, only when those of its repository that were admitted before it are
\* done, also when jobs are put back.
THEOREM WorkQueuesKeepTheirPromise == Queue!Spec => []Queue!Promise
<1> DEFINE n == Cardinality(Workers)
<1>1. n \in Nat
  BY SchedulerAssumption, FS_CardinalityType
<1>2. Queue!Init => Sound(arrived, Status, n)
  <2>1. SUFFICES ASSUME Queue!Init PROVE Sound(arrived, Status, n)
    OBVIOUS
  <2>2. /\ arrived \in Seq(Jobs) /\ Once(arrived)
        /\ Status = [j \in Jobs |-> IF \E i \in DOMAIN arrived : arrived[i] = j THEN "waiting" ELSE "absent"]
    BY <2>1 DEF Queue!Init, Once, Status
  <2>3. Runs(Status) = {} /\ IsFiniteSet({}) /\ Cardinality({}) = 0
    BY <2>2, FS_EmptySet DEF Runs
  <2>4. \A i \in DOMAIN arrived : arrived[i] \in Jobs /\ Status[arrived[i]] = "waiting"
    BY <2>2
  <2>5. Status \in [Jobs -> {"absent", "waiting", "running", "done"}]
    BY <2>2
  <2>6. \A j \in Jobs : Status[j] = "absent" <=> j \notin Elements(arrived)
    BY <2>2 DEF Elements
  <2> HIDE DEF n
  <2>7. IsFiniteSet(Runs(Status)) /\ Cardinality(Runs(Status)) <= n
    <3>1. IsFiniteSet(Runs(Status)) /\ Cardinality(Runs(Status)) = 0
      BY <2>3
    <3>2. QED
      BY <1>1, <3>1
  <2>8. \A i \in DOMAIN arrived : Status[arrived[i]] \in {"running", "done"} => Turn(arrived, Status, i)
    BY <2>4
  <2>9. QED
    BY <2>2, <2>5, <2>6, <2>7, <2>8 DEF Sound
<1>3. Sound(arrived, Status, n) /\ [Queue!Next]_Queue!queueVars => Sound(arrived', Status', n)
  BY <1>1, QueueStepKeepsSound
<1>4. Sound(arrived, Status, n) => Queue!Promise
  <2>1. Queue!Running = Runs(Status) /\ Queue!Cardinality(Runs(Status)) = Cardinality(Runs(Status))
    BY QueueCounts DEF Queue!Running, Runs, Status
  <2>2. SUFFICES ASSUME Sound(arrived, Status, n) PROVE Queue!Promise
    OBVIOUS
  <2>3. Queue!Cardinality(Queue!Running) <= n
    BY <2>1, <2>2 DEF Sound
  <2>4. ASSUME NEW i \in DOMAIN arrived, Status[arrived[i]] \in {"running", "done"} PROVE Queue!ItsTurn(i)
    BY <2>2, <2>4 DEF Sound, Turn, Queue!ItsTurn, SameRepository, Status
  <2>5. QED
    BY <2>3, <2>4 DEF Queue!Promise, Status
<1>5. Sound(arrived, Status, n)' <=> Sound(arrived', Status', n)
  BY DEF Sound, Turn, Runs, Once, Elements
<1>6. QED
  BY <1>2, <1>3, <1>4, <1>5, PTL DEF Queue!Spec

\* So does the scheduler: at most as many jobs run as there are workers, and the jobs of one
\* repository begin and end in the order they were queued (take_runnable, requeue, release).
THEOREM TheSchedulerKeepsThePromise == Spec => []Queue!Promise
BY SchedulerIsAWorkQueue, WorkQueuesKeepTheirPromise, PTL DEF ImplementsWorkQueue

=============================================================================
