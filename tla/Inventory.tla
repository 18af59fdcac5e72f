------------------------------ MODULE Inventory ------------------------------
(***************************************************************************)
(* What a process finds in LYA_HOME/jobs: one record written atomically    *)
(* and read back (src/orchestrator/state.rs), the listing of `lya jobs`    *)
(* (src/orchestrator/inventory.rs), the work a scheduler or a daemon takes *)
(* up (queued_jobs of src/orchestrator/scheduler.rs, status of             *)
(* src/daemon/server.rs) and the job `lya resume` chooses                  *)
(* (src/orchestrator/resume.rs).  A job's identifier is its place in the   *)
(* order of identifiers; of a record only its status, its two times and    *)
(* whether ResumePlan::for_job finds a continuation in it are kept.        *)
(***************************************************************************)
EXTENDS Naturals, Sequences, FiniteSets, SequencesExt

Missing == [file |-> "missing"]

Corrupt == [file |-> "corrupt"]

Record(id, status, consistent, created, updated) ==
  [file |-> "record", id |-> id, status |-> status, consistent |-> consistent,
   created |-> created, updated |-> updated]

ResumableStatus(job) == job.status \in {"RUNNING", "PAUSED", "PUBLISHING", "WAITING_QUOTA"}

(* ResumePlan::for_job accepts the job (module Job has the plan itself).   *)
HasPlan(job) == ResumableStatus(job) /\ job.consistent

-----------------------------------------------------------------------------
(* write_atomically: a temporary file of its own, written, synced, renamed *)
(* over the record.  The write dies after k of these four steps, or step k *)
(* fails and the temporary file is removed.                                *)

(* Mutant: the record is written in place. *)
WriteInPlace(at, job, k, ends) ==
  [at EXCEPT !.state = IF k = 0 THEN @ ELSE IF k < 3 THEN Corrupt ELSE job]

WriteAtomically(at, job, k, ends) ==
  [state |-> IF k = 4 /\ ends # "fails" THEN job ELSE at.state,
   temporary |-> at.temporary
                 + (IF ends = "dies" /\ k \in 1..3 THEN 1 ELSE 0)]

Saved(k, ends) == k = 4 /\ ends = "returns"

(* read_job looks at state.json only. *)
ReadJob(at) == at.state

-----------------------------------------------------------------------------
(* Listings: disk gives, for every job directory, what read_job returns.   *)

Unreadable(disk) == {id \in DOMAIN disk : disk[id] = Corrupt}

Readable(disk) == {disk[id] : id \in {i \in DOMAIN disk : disk[i].file = "record"}}

(* load_all: one record that cannot be read fails the whole listing.       *)
LoadAll(disk) == IF Unreadable(disk) # {} THEN {Corrupt} ELSE Readable(disk)

NewestFirst(x, y) == x.updated > y.updated \/ (x.updated = y.updated /\ x.id < y.id)

OldestFirst(x, y) == x.created < y.created \/ (x.created = y.created /\ x.id < y.id)

(* The jobs in the order that before, a set of pairs of them, gives.       *)
Sorted(jobs, before) ==
  CHOOSE s \in [1..Cardinality(jobs) -> jobs] :
    \A i, k \in DOMAIN s : i < k => <<s[i], s[k]>> \in before

ByUpdate(jobs) == Sorted(jobs, {p \in jobs \X jobs : NewestFirst(p[1], p[2])})

ByCreation(jobs) == Sorted(jobs, {p \in jobs \X jobs : OldestFirst(p[1], p[2])})

(* What a list has at the given places, in its order. *)
Picked(list, places) ==
  FlattenSeq([i \in DOMAIN list |-> IF i \in places THEN <<list[i]>> ELSE <<>>])

(* queued_jobs, resumable_jobs: the records of a listing that succeeded.   *)
QueuedJobs(disk) == ByCreation({j \in LoadAll(disk) : j # Corrupt /\ j.status = "QUEUED"})

ResumableJobs(disk) == ByUpdate({j \in LoadAll(disk) : j # Corrupt /\ ResumableStatus(j)})

(* select_job: the requested job, or the only one there is.                *)
SelectJob(jobs, requested) ==
  IF requested = 0 THEN IF Len(jobs) = 1 THEN <<jobs[1]>> ELSE <<>>
  ELSE Picked(jobs, {i \in DOMAIN jobs : jobs[i].id = requested})

(* `lya resume`, up to the plan: the job it continues, if it does.         *)
Resumes(disk, requested) ==
  LET selected == SelectJob(ResumableJobs(disk), requested)
  IN  Picked(selected, {i \in DOMAIN selected : HasPlan(selected[i])})

(* resume_error_message: the reason that is told.                          *)
Refusal(disk, requested) ==
  CASE Unreadable(disk) # {} -> "unreadable"
    [] requested # 0 /\ Unreadable(disk) = {} /\ disk[requested] = Missing -> "unknown"
    [] requested # 0 /\ Unreadable(disk) = {} /\ disk[requested] # Missing ->
         IF ResumableStatus(disk[requested]) THEN "inconsistent" ELSE "not resumable"
    [] OTHER -> IF Len(ResumableJobs(disk)) = 0 THEN "none"
                ELSE IF Len(ResumableJobs(disk)) > 1 THEN "ambiguous" ELSE "inconsistent"

-----------------------------------------------------------------------------
(* `lya jobs`.                                                             *)

(* Mutant: the listing judges a job by its status. *)
SummaryByStatus(job) == [id |-> job.id, status |-> job.status, updated |-> job.updated,
                         resumable |-> ResumableStatus(job)]

Summary(job) == [id |-> job.id, status |-> job.status, updated |-> job.updated,
                 resumable |-> HasPlan(job)]

(* JobInventory::collect: an unreadable job is an entry of its own.        *)
Collect(disk) ==
  [jobs |-> LET found == ByUpdate(Readable(disk))
            IN  [i \in DOMAIN found |-> Summary(found[i])],
   unreadable |-> Unreadable(disk)]

OnlyResumable(inventory) ==
  [inventory EXCEPT !.jobs = Picked(@, {i \in DOMAIN @ : @[i].resumable})]

(* The exit code of `lya jobs`. *)
ListSucceeds(inventory) == inventory.unreadable = {}

(* render: jobs whose status promises more than their record keeps.        *)
Blocked(inventory) ==
  {i \in DOMAIN inventory.jobs : ResumableStatus(inventory.jobs[i]) /\ ~inventory.jobs[i].resumable}

(* DaemonState::status, for a daemon that drives the jobs `active`.        *)
StatusAnswer(disk, active) ==
  [active |-> {id \in active : disk[id].file = "record"},
   queued |-> {j.id : j \in ToSet(QueuedJobs(disk))},
   resumable |-> {j.id : j \in ToSet(ResumableJobs(disk))} \ active]

-----------------------------------------------------------------------------
Ids == 1..3

Contents(id) ==
  {Missing, Corrupt} \cup
  {Record(id, s, c, t, 3 - t) : s \in {"PAUSED", "QUEUED", "ACCEPTED"}, c \in BOOLEAN, t \in 1..2}

Disks == {d \in [Ids -> UNION {Contents(id) : id \in Ids}] : \A id \in Ids : d[id] \in Contents(id)}

Contained(inventory, id) == {i \in DOMAIN inventory.jobs : inventory.jobs[i].id = id}

(* `lya jobs` and `lya resume` agree.  Every readable job is listed once,  *)
(* newest first, whatever the others' files hold; the jobs it calls        *)
(* resumable are, as long as every file can be read, exactly those         *)
(* `lya resume --job` continues, and the one `lya resume` continues by     *)
(* itself is the only candidate.  A job that cannot be read fails both     *)
(* commands instead of being passed over.                                  *)
AgreesWithResume(disk) ==
  LET all == Collect(disk)
      resumable == OnlyResumable(all)
      ids == DOMAIN disk
  IN  /\ \A id \in ids : Cardinality(Contained(all, id)) = IF disk[id].file = "record" THEN 1 ELSE 0
      /\ \A i, k \in DOMAIN all.jobs : i < k => all.jobs[i].updated >= all.jobs[k].updated
      /\ ListSucceeds(all) =>
           /\ \A id \in ids : (Resumes(disk, id) # <<>>) = (Contained(resumable, id) # {})
           /\ Resumes(disk, 0) # <<>> => Len(resumable.jobs) = 1
           /\ \A i \in Blocked(all) : Refusal(disk, all.jobs[i].id) = "inconsistent"
           /\ StatusAnswer(disk, {}).resumable
                = {resumable.jobs[i].id : i \in DOMAIN resumable.jobs}
                  \cup {all.jobs[i].id : i \in Blocked(all)}
      /\ ~ListSucceeds(all) => \A id \in ids \cup {0} : Resumes(disk, id) = <<>>

ListingAgreesWithResume == \A disk \in Disks : AgreesWithResume(disk)

(* A save of a job: it returns, fails or dies with its process, after k of *)
(* its steps.                                                              *)
Save(at, save) == WriteAtomically(at, save.job, save.k, save.ends)

AfterSaves(at, saves) == FoldLeft(Save, at, saves)

(* A record is never lost to a write: after any saves, each of which       *)
(* returned, failed or died with its process at any of its steps, what is  *)
(* read back is the last record whose save returned, or a later one.       *)
RecordSurvives(old, saves) ==
  LET found == ReadJob(AfterSaves(old, saves))
      From(n) == {saves[i].job : i \in {m \in DOMAIN saves : m >= n}}
  IN  /\ found \in {old.state} \cup From(1)
      /\ \A n \in DOMAIN saves : Saved(saves[n].k, saves[n].ends) => found \in From(n)

(* The saves of a job: each cut short before its last step, or at it. *)
Saves(job) ==
  {[job |-> job, k |-> k, ends |-> ends] : k \in 0..3, ends \in {"fails", "dies"}}
  \cup {[job |-> job, k |-> 4, ends |-> ends] : ends \in {"returns", "fails", "dies"}}

RecordsSurviveWrites ==
  \A one \in Saves(Record(1, "PAUSED", TRUE, 1, 2)), two \in Saves(Record(1, "ACCEPTED", TRUE, 1, 3)) :
     RecordSurvives([state |-> Record(1, "QUEUED", TRUE, 1, 1), temporary |-> 0], <<one, two>>)
=============================================================================
