------------------------------- MODULE JobProofs -------------------------------
(***************************************************************************)
(* The publisher on its own, and the jobs that use it.                     *)
(*                                                                         *)
(* A publication commits nothing but what was reviewed, for every set of   *)
(* contents and any number of crashes, retries and edits in between, as    *)
(* long as nobody edits the repository under a running publication.  Also  *)
(* where somebody does, it commits once, a stop ends its writes, and an    *)
(* ambiguous result has a cause.                                           *)
(*                                                                         *)
(* The record of a job is one a later process can continue from, no        *)
(* Executor run is made twice, a decided outcome stays, and a job is only  *)
(* PUBLISHED with what was reviewed on the remote: for every number of     *)
(* iterations, crashes, pauses, stops and quota waits.                     *)
(***************************************************************************)
EXTENDS Job, TLAPS

\* A parent is an older commit, so a branch that moves back stays on a commit.
ParentsPrecede == \A c \in DOMAIN commits : commits[c].parent < c

TypeInv == TypeOK /\ ParentsPrecede

-----------------------------------------------------------------------------
(* The repository keeps its types.                                         *)

\* What RepositoryState::collect shows of a change is well-formed.
LEMMA DiffType ==
    ASSUME NEW from \in Content, NEW to \in Content
    PROVE  Diff(from, to) \in SUBSET (Content \X (Content \cup {Truncated}))
BY DEF Diff, Shown

\* A new commit is put at the end of the history, on top of an existing one.
LEMMA CommitKeepsTypes ==
    ASSUME RepoTypeOK, ParentsPrecede, NEW author \in Authors, GitCommit(author)
    PROVE  RepoTypeOK' /\ ParentsPrecede'
<1> DEFINE new == [content |-> index, parent |-> head, by |-> author]
<1>1. new \in Commit /\ head \in Nat /\ head < Len(commits) + 1
  BY DEF RepoTypeOK, Commit
<1>2. commits \in Seq(Commit) /\ commits' = Append(commits, new)
  BY DEF GitCommit, RepoTypeOK
<1>3. commits' \in Seq(Commit) /\ Len(commits') = Len(commits) + 1
  BY <1>1, <1>2
<1>4. \A c \in DOMAIN commits : commits'[c] = commits[c]
  BY <1>1, <1>2
<1>5. commits'[Len(commits) + 1] = new
  BY <1>1, <1>2
<1>6. RepoTypeOK'
  BY <1>3 DEF GitCommit, RepoTypeOK
<1>7. ParentsPrecede'
  BY <1>1, <1>2, <1>3, <1>4, <1>5 DEF ParentsPrecede
<1>8. QED
  BY <1>6, <1>7

\* Whatever anybody else does to the repository keeps it one.
LEMMA EditKeepsTypes ==
    ASSUME RepoTypeOK, ParentsPrecede, Edit
    PROVE  RepoTypeOK' /\ ParentsPrecede'
<1>1. CASE EditTree \/ GitAddAll
  BY <1>1 DEF EditTree, GitAddAll, RepoTypeOK, ParentsPrecede
<1>2. CASE GitCommit("other")
  BY <1>2, CommitKeepsTypes DEF Authors
<1>3. CASE ResetHead
  <2>1. head \in DOMAIN commits /\ commits[head] \in Commit
    BY DEF RepoTypeOK
  <2>2. commits[head].parent \in Nat /\ commits[head].parent < head
    BY <2>1 DEF Commit, ParentsPrecede
  <2>3. commits[head].parent \in 1..Len(commits)
    BY <1>3, <2>1, <2>2 DEF ResetHead, RepoTypeOK
  <2>4. commits[commits[head].parent].content \in Content
    <3>1. commits[commits[head].parent] \in Commit
      BY <2>3 DEF RepoTypeOK
    <3>2. QED
      BY <3>1 DEF Commit
  <2>5. QED
    BY <1>3, <2>3, <2>4 DEF ResetHead, RepoTypeOK, ParentsPrecede
<1>4. QED
  BY <1>1, <1>2, <1>3 DEF Edit

\* A step that leaves the repository alone.
LEMMA QuietKeepsTypes ==
    ASSUME RepoTypeOK, ParentsPrecede, UNCHANGED repoVars
    PROVE  RepoTypeOK' /\ ParentsPrecede'
BY DEF RepoTypeOK, ParentsPrecede, repoVars

-----------------------------------------------------------------------------
(* Every step keeps the types.                                             *)

\* The steps that only read the repository.
LEMMA ReadingKeepsTypes ==
    ASSUME TypeInv,
           \/ BeginPublish \/ VerifySnapshot \/ CheckHead \/ BeginCommit \/ RecordNewCommit \/ RecordCommitted
           \/ VerifyStaged("verifyStaged", "checkHead") \/ VerifyStaged("verifyAgain", "toCommit")
           \/ BeginPush \/ RecordPushed \/ FinishPush \/ Enter \/ ProveCommit \/ ProveIndex
    PROVE  TypeInv'
<1>1. RepoTypeOK' /\ ParentsPrecede' /\ UNCHANGED <<historyVars, stop>>
  <2>1. Quiet
    BY DEF BeginPublish, VerifySnapshot, CheckHead, BeginCommit, RecordNewCommit, RecordCommitted, VerifyStaged,
           BeginPush, RecordPushed, FinishPush, Enter, ProveCommit, ProveIndex
  <2>2. QED
    BY <2>1, QuietKeepsTypes DEF TypeInv, TypeOK, Quiet
<1>2. UNCHANGED accepted /\ stage' \in Stages
  BY DEF TypeInv, TypeOK, Stages, BeginPublish, VerifySnapshot, CheckHead, BeginCommit, RecordNewCommit,
         RecordCommitted, VerifyStaged, BeginPush, RecordPushed, FinishPush, Enter, ProveCommit, ProveIndex,
         RecoverRecordedCommit, RecoverWithoutCommit, UnlessStopped, Refuse, Record, RecordCommit, recordVars
<1>3. pc' \in PublisherSteps \cup {"returned"} /\ outcome' \in Outcomes
  BY DEF TypeInv, TypeOK, PublisherSteps, Outcomes, BeginPublish, VerifySnapshot, CheckHead, BeginCommit,
         RecordNewCommit, RecordCommitted, VerifyStaged, BeginPush, RecordPushed, FinishPush, Enter, ProveCommit,
         ProveIndex, RecoverRecordedCommit, RecoverWithoutCommit, UnlessStopped, Refuse, Return, Goto,
         VerifyBeforeStaging
<1>4. result' \in [sha : Nat, push : PushStatuses]
  <2>1. head \in Nat
    BY DEF TypeInv, TypeOK, RepoTypeOK
  <2>2. CASE RecordNewCommit \/ RecordPushed
    BY <2>1, <2>2 DEF TypeInv, TypeOK, PushStatuses, RecordNewCommit, RecordPushed, RecordCommit
  <2>3. CASE ~(RecordNewCommit \/ RecordPushed)
    <3>1. UNCHANGED result
      BY <2>3 DEF BeginPublish, VerifySnapshot, CheckHead, BeginCommit, RecordCommitted, VerifyStaged,
             BeginPush, FinishPush, Enter, ProveCommit, ProveIndex,
             RecoverRecordedCommit, RecoverWithoutCommit, UnlessStopped, Refuse, Record, recordVars
    <3>2. QED
      BY <3>1 DEF TypeInv, TypeOK
  <2>4. QED
    BY <2>2, <2>3
<1>5. QED
  BY <1>1, <1>2, <1>3, <1>4 DEF TypeInv, TypeOK, historyVars

\* The steps that write to the repository: "git add --all", "git commit" and
\* "git push".
LEMMA WritingKeepsTypes ==
    ASSUME TypeInv,
           \/ StageAll("add", "verifyStaged") \/ StageAll("addAgain", "verifyAgain")
           \/ CommitStaged \/ PushAccepted \/ PushRejected
    PROVE  TypeInv'
<1>1. RepoTypeOK' /\ ParentsPrecede'
  <2>1. CASE GitAddAll \/ GitPush
    BY <2>1 DEF TypeInv, TypeOK, RepoTypeOK, ParentsPrecede, GitAddAll, GitPush
  <2>2. CASE GitCommit("lya")
    BY <2>2, CommitKeepsTypes DEF TypeInv, TypeOK, Authors
  <2>3. QED
    BY <2>1, <2>2, QuietKeepsTypes DEF TypeInv, TypeOK, StageAll, CommitStaged, PushAccepted, PushRejected
<1>2. UNCHANGED <<accepted, stage, reviewed, disturbed, stop>> /\ writes' \in Nat
  BY DEF TypeInv, TypeOK, StageAll, CommitStaged, PushAccepted, PushRejected, OwnWrite, RecordCommit, recordVars
<1>3. pc' \in PublisherSteps \cup {"returned"} /\ outcome' \in Outcomes
  BY DEF TypeInv, TypeOK, PublisherSteps, Outcomes, StageAll, CommitStaged, PushAccepted, PushRejected, Return, Goto
<1>4. result' \in [sha : Nat, push : PushStatuses]
  BY DEF TypeInv, TypeOK, PushStatuses, StageAll, CommitStaged, PushAccepted, PushRejected, RecordCommit, recordVars
<1>5. QED
  BY <1>1, <1>2, <1>3, <1>4 DEF TypeInv, TypeOK

\* A failed command, and everything around the publisher.
LEMMA EnvironmentKeepsTypes ==
    ASSUME TypeInv, GitCommandFails \/ RequestStop \/ Settle \/ Crash \/ Resume \/ OutsideEdit
    PROVE  TypeInv'
<1>1. CASE OutsideEdit
  BY <1>1, EditKeepsTypes DEF TypeInv, TypeOK, OutsideEdit, recordVars
<1>2. CASE GitCommandFails
  BY <1>2, QuietKeepsTypes DEF TypeInv, TypeOK, GitCommandFails, Refuse, Return, Outcomes, recordVars
<1>3. CASE RequestStop \/ Settle \/ Crash \/ Resume
  <2>1. RepoTypeOK' /\ ParentsPrecede' /\ UNCHANGED recordVars
    BY <1>3, QuietKeepsTypes DEF TypeInv, TypeOK, RequestStop, Settle, Crash, Resume
  <2>2. CASE RequestStop
    BY <2>1, <2>2 DEF TypeInv, TypeOK, RequestStop, recordVars, historyVars
  <2>3. CASE Settle
    BY <2>1, <2>3 DEF TypeInv, TypeOK, Settle, recordVars, historyVars
  <2>4. CASE Crash
    BY <2>1, <2>4 DEF TypeInv, TypeOK, Crash, Outcomes, recordVars
  <2>5. CASE Resume
    BY <2>1, <2>5 DEF TypeInv, TypeOK, Resume, PublisherSteps, recordVars, historyVars
  <2>6. QED
    BY <1>3, <2>2, <2>3, <2>4, <2>5
<1>4. QED
  BY <1>1, <1>2, <1>3

\* An accepted job starts its publication well-typed.
LEMMA InitTypes == Init => TypeInv
<1>1. SUFFICES ASSUME Init PROVE TypeInv
  OBVIOUS
<1>2. PICK c \in Content : commits = <<[content |-> c, parent |-> 0, by |-> "other"]>>
  BY <1>1 DEF Init
<1>3. Len(commits) = 1 /\ commits[1] = [content |-> c, parent |-> 0, by |-> "other"] /\ DOMAIN commits = {1}
  BY <1>2
<1>4. RepoTypeOK /\ ParentsPrecede
  BY <1>1, <1>2, <1>3 DEF Init, RepoTypeOK, ParentsPrecede, Commit, Authors
<1>5. accepted \in Snapshot
  <2>1. Diff(index, tree) \in SUBSET (Content \X (Content \cup {Truncated}))
    BY <1>1, DiffType DEF Init
  <2>2. QED
    BY <1>1, <2>1 DEF Init, Capture, Snapshot
<1>6. QED
  BY <1>1, <1>4, <1>5 DEF Init, TypeInv, TypeOK, Stages, NoResult, PushStatuses, PublisherSteps, Outcomes

\* Every step, of the publisher or of anybody else, keeps the types.
LEMMA NextTypes == TypeInv /\ [Next]_vars => TypeInv'
<1>1. SUFFICES ASSUME TypeInv, [Next]_vars PROVE TypeInv'
  OBVIOUS
<1>2. CASE UNCHANGED vars
  BY <1>1, <1>2, QuietKeepsTypes DEF TypeInv, TypeOK, vars, recordVars, historyVars
<1>3. QED
  BY <1>1, <1>2, ReadingKeepsTypes, WritingKeepsTypes, EnvironmentKeepsTypes DEF Next, PublisherStep

\* The variables of a publication keep their types, HEAD and the remote always
\* point to commits that exist.
THEOREM TypeCorrect == Spec => []TypeOK
<1>1. TypeInv => TypeOK
  BY DEF TypeInv
<1>2. QED
  BY <1>1, InitTypes, NextTypes, PTL DEF Spec

-----------------------------------------------------------------------------
(* Only what was reviewed is committed.                                    *)

\* The accepted capture shows a change towards the reviewed files.
AcceptedIsReviewed == \E b \in Content : accepted.diff = Diff(b, reviewed)

\* What the publisher has proven by the time it gets to each of its steps.
Proven ==
    /\ pc \in {"add", "verifyStaged", "addAgain", "verifyAgain", "checkHead", "toCommit", "commit"} =>
           IsCompleteForPublication(accepted)
    /\ pc \in {"proveIndex", "addAgain", "verifyAgain", "toCommit", "commit"} => head = accepted.head
    /\ pc \in {"checkHead", "toCommit", "commit"} => StagedIsAccepted

\* OnlyReviewedIsCommitted is not inductive: the commit is right because of what
\* was proven several steps, and possibly another process, earlier.
Reviewed == AcceptedIsReviewed /\ Proven /\ OnlyReviewedIsCommitted /\ OpaqueIsNeverCommitted

\* verify_staged_state compares two diffs.  Where the accepted one is complete and
\* something is staged, it determines the staged files.
LEMMA StagedIsReviewed ==
    ASSUME TypeOK, AcceptedIsReviewed, IsCompleteForPublication(accepted), StagedIsAccepted,
           index # HeadContent
    PROVE  index = reviewed /\ index \notin Opaque
<1>1. PICK b \in Content : accepted.diff = Diff(b, reviewed)
  BY DEF AcceptedIsReviewed
<1>2. accepted.diff = {<<HeadContent, Shown(index)>>}
  BY DEF StagedIsAccepted, Diff
<1>3. b # reviewed /\ accepted.diff = {<<b, Shown(reviewed)>>}
  BY <1>1, <1>2 DEF Diff
<1>4. Shown(index) = Shown(reviewed) /\ Shown(index) # Truncated
  <2> DEFINE staged == <<HeadContent, Shown(index)>>
  <2>1. staged \in accepted.diff
    BY <1>2
  <2>2. staged = <<b, Shown(reviewed)>>
    BY <1>3, <2>1
  <2>3. staged[2] = Shown(index) /\ staged[2] = Shown(reviewed)
    BY <2>2
  <2>4. staged[2] # Truncated
    BY <2>1 DEF IsCompleteForPublication
  <2>5. QED
    BY <2>3, <2>4
<1>5. index \notin Opaque /\ reviewed \notin Opaque
  BY <1>4 DEF Shown
<1>6. QED
  BY <1>4, <1>5 DEF Shown

\* A step that makes no commit and leaves the review alone keeps what is
\* committed.
LEMMA NoNewCommit ==
    ASSUME Reviewed, UNCHANGED <<commits, accepted, reviewed>>
    PROVE  AcceptedIsReviewed' /\ OnlyReviewedIsCommitted' /\ OpaqueIsNeverCommitted'
BY DEF Reviewed, AcceptedIsReviewed, OnlyReviewedIsCommitted, OpaqueIsNeverCommitted, LyasCommits

\* The steps that only read: each hands on what it has verified.
LEMMA ReadingKeepsReviewed ==
    ASSUME Reviewed,
           \/ BeginPublish \/ VerifySnapshot \/ CheckHead \/ BeginCommit \/ RecordNewCommit \/ RecordCommitted
           \/ VerifyStaged("verifyStaged", "checkHead") \/ VerifyStaged("verifyAgain", "toCommit")
           \/ BeginPush \/ RecordPushed \/ FinishPush \/ Enter \/ ProveCommit \/ ProveIndex
    PROVE  Reviewed'
<1>1. UNCHANGED <<commits, head, index, accepted, reviewed>>
  BY DEF BeginPublish, VerifySnapshot, CheckHead, BeginCommit, RecordNewCommit, RecordCommitted, VerifyStaged,
         BeginPush, RecordPushed, FinishPush, Enter, ProveCommit, ProveIndex, RecoverRecordedCommit,
         RecoverWithoutCommit, UnlessStopped, Refuse, Record, RecordCommit, recordVars, Quiet, repoVars, historyVars
<1>2. StagedIsAccepted' = StagedIsAccepted
  BY <1>1 DEF StagedIsAccepted, Diff, HeadContent
<1>3. Proven'
  <2>1. CASE VerifySnapshot \/ ProveIndex
    BY <1>1, <1>2, <2>1 DEF Reviewed, Proven, VerifySnapshot, ProveIndex, VerifyBeforeStaging, UnlessStopped,
       Refuse, Return, Goto, IsCompleteForPublication
  <2>2. CASE VerifyStaged("verifyStaged", "checkHead") \/ VerifyStaged("verifyAgain", "toCommit")
    BY <1>1, <1>2, <2>2 DEF Reviewed, Proven, VerifyStaged, UnlessStopped, Refuse, Return, Goto,
       IsCompleteForPublication
  <2>3. CASE CheckHead \/ BeginCommit
    BY <1>1, <1>2, <2>3 DEF Reviewed, Proven, CheckHead, BeginCommit, UnlessStopped, Refuse, Return, Goto,
       IsCompleteForPublication
  <2>4. CASE Enter
    BY <1>1, <2>4 DEF Proven, Enter, RecoverRecordedCommit, RecoverWithoutCommit, Refuse, Return, Goto
  <2>5. CASE BeginPublish \/ RecordNewCommit \/ RecordCommitted \/ BeginPush \/ RecordPushed \/ FinishPush \/ ProveCommit
    BY <2>5 DEF Proven, BeginPublish, RecordNewCommit, RecordCommitted, BeginPush, RecordPushed, FinishPush,
       ProveCommit, UnlessStopped, Refuse, Return, Goto
  <2>6. QED
    BY <2>1, <2>2, <2>3, <2>4, <2>5
<1>4. QED
  BY <1>1, <1>3, NoNewCommit DEF Reviewed

\* "git add --all" and "git push" do not move HEAD.
LEMMA StagingKeepsReviewed ==
    ASSUME Reviewed,
           StageAll("add", "verifyStaged") \/ StageAll("addAgain", "verifyAgain") \/ PushAccepted \/ PushRejected
    PROVE  Reviewed'
<1>1. UNCHANGED <<commits, head, accepted, reviewed>>
  BY DEF StageAll, PushAccepted, PushRejected, GitAddAll, GitPush, RecordCommit, recordVars, repoVars
<1>2. Proven'
  BY <1>1 DEF Reviewed, Proven, StageAll, PushAccepted, PushRejected, Return, Goto, IsCompleteForPublication
<1>3. QED
  BY <1>1, <1>2, NoNewCommit DEF Reviewed

\* "git commit": the staged files are the reviewed ones, on the accepted HEAD.
LEMMA CommitKeepsReviewed ==
    ASSUME TypeInv, Reviewed, CommitStaged
    PROVE  Reviewed'
<1>1. index = reviewed /\ index \notin Opaque /\ head = accepted.head
  BY StagedIsReviewed DEF TypeInv, Reviewed, Proven, CommitStaged, GitCommit
<1> DEFINE new == [content |-> index, parent |-> head, by |-> "lya"]
<1>2. commits' = Append(commits, new) /\ UNCHANGED <<accepted, reviewed>>
  BY DEF CommitStaged, GitCommit, recordVars
<1>3. commits \in Seq(Commit) /\ new \in Commit
  BY DEF TypeInv, TypeOK, RepoTypeOK, Commit, Authors
<1>4. \A c \in DOMAIN commits' : (c \in DOMAIN commits /\ commits'[c] = commits[c]) \/ commits'[c] = new
  BY <1>2, <1>3
<1>5. OnlyReviewedIsCommitted' /\ OpaqueIsNeverCommitted'
  BY <1>1, <1>2, <1>4 DEF Reviewed, OnlyReviewedIsCommitted, OpaqueIsNeverCommitted, LyasCommits
<1>6. AcceptedIsReviewed'
  BY <1>2 DEF Reviewed, AcceptedIsReviewed
<1>7. Proven'
  BY DEF Proven, CommitStaged, Goto
<1>8. QED
  BY <1>5, <1>6, <1>7 DEF Reviewed

\* Whatever anybody else does keeps the commits and adds only theirs.
LEMMA EditAddsOthers ==
    ASSUME RepoTypeOK, Edit
    PROVE  /\ \A c \in DOMAIN commits : c \in DOMAIN commits' /\ commits'[c] = commits[c]
           /\ \A c \in DOMAIN commits' :
                  (c \in DOMAIN commits /\ commits'[c] = commits[c]) \/ commits'[c].by = "other"
<1>1. CASE GitCommit("other")
  <2> DEFINE new == [content |-> index, parent |-> head, by |-> "other"]
  <2>1. commits' = Append(commits, new) /\ commits \in Seq(Commit) /\ new \in Commit
    BY <1>1 DEF GitCommit, RepoTypeOK, Commit, Authors
  <2>2. \A c \in DOMAIN commits : c \in DOMAIN commits' /\ commits'[c] = commits[c]
    BY <2>1
  <2>3. \A c \in DOMAIN commits' : (c \in DOMAIN commits /\ commits'[c] = commits[c]) \/ commits'[c] = new
    BY <2>1
  <2>4. QED
    BY <2>2, <2>3
<1>2. CASE ~GitCommit("other")
  BY <1>2 DEF Edit, EditTree, GitAddAll, ResetHead
<1>3. QED
  BY <1>1, <1>2

\* Somebody else's commits are not Lya's, and are only made while no process is
\* inside the publisher.
LEMMA EditKeepsReviewed ==
    ASSUME ~ConcurrentEditor, TypeInv, Reviewed, OutsideEdit
    PROVE  Reviewed'
<1>1. pc' = "down" /\ UNCHANGED <<accepted, reviewed>>
  BY DEF OutsideEdit, recordVars
<1>2. Proven'
  BY <1>1 DEF Proven
<1>3. AcceptedIsReviewed'
  BY <1>1 DEF Reviewed, AcceptedIsReviewed
<1>4. \A c \in DOMAIN commits' :
          (c \in DOMAIN commits /\ commits'[c] = commits[c]) \/ commits'[c].by = "other"
  BY EditAddsOthers DEF OutsideEdit, TypeInv, TypeOK
<1>5. OnlyReviewedIsCommitted' /\ OpaqueIsNeverCommitted'
  BY <1>1, <1>4 DEF Reviewed, OnlyReviewedIsCommitted, OpaqueIsNeverCommitted, LyasCommits
<1>6. QED
  BY <1>2, <1>3, <1>5 DEF Reviewed

\* A failed command, a stop, a crash and a restart.
LEMMA InterruptionKeepsReviewed ==
    ASSUME Reviewed, GitCommandFails \/ RequestStop \/ Settle \/ Crash \/ Resume
    PROVE  Reviewed'
<1>1. UNCHANGED <<commits, head, index, accepted, reviewed>>
  BY DEF GitCommandFails, RequestStop, Settle, Crash, Resume, Refuse, repoVars, recordVars, historyVars
<1>2. pc' = pc \/ pc' \in {"returned", "over", "down", "enter"}
  BY DEF GitCommandFails, RequestStop, Settle, Crash, Resume, Refuse, Return
<1>3. Proven'
  BY <1>1, <1>2 DEF Reviewed, Proven, StagedIsAccepted, Diff, HeadContent, IsCompleteForPublication
<1>4. QED
  BY <1>1, <1>3, NoNewCommit DEF Reviewed

\* An accepted job has committed nothing yet.
LEMMA InitReviewed == Init => Reviewed
<1>1. SUFFICES ASSUME Init PROVE Reviewed
  OBVIOUS
<1>2. commits[1].by = "other" /\ DOMAIN commits = {1}
  BY <1>1 DEF Init
<1>3. OnlyReviewedIsCommitted /\ OpaqueIsNeverCommitted
  BY <1>2 DEF OnlyReviewedIsCommitted, OpaqueIsNeverCommitted, LyasCommits
<1>4. AcceptedIsReviewed
  BY <1>1 DEF Init, AcceptedIsReviewed, Capture
<1>5. QED
  BY <1>1, <1>3, <1>4 DEF Init, Reviewed, Proven

\* Every step keeps what was reviewed and proven.
LEMMA NextReviewed ==
    ASSUME ~ConcurrentEditor
    PROVE  TypeInv /\ Reviewed /\ [Next]_vars => Reviewed'
<1>1. SUFFICES ASSUME TypeInv, Reviewed, [Next]_vars PROVE Reviewed'
  OBVIOUS
<1>2. CASE UNCHANGED vars
  <2>1. UNCHANGED <<commits, head, index, accepted, reviewed, pc>>
    BY <1>2 DEF vars, repoVars, recordVars, historyVars
  <2>2. Proven'
    BY <1>1, <2>1 DEF Reviewed, Proven, StagedIsAccepted, Diff, HeadContent, IsCompleteForPublication
  <2>3. QED
    BY <1>1, <2>1, <2>2, NoNewCommit DEF Reviewed
<1>3. QED
  BY <1>1, <1>2, ReadingKeepsReviewed, StagingKeepsReviewed, CommitKeepsReviewed, EditKeepsReviewed,
     InterruptionKeepsReviewed DEF Next, PublisherStep

\* Every commit of Lya holds exactly the reviewed files on the accepted HEAD,
\* whatever was interrupted, retried or edited between two processes.
THEOREM CommitsAreReviewed ==
    ASSUME ~ConcurrentEditor
    PROVE  Spec => []OnlyReviewedIsCommitted
<1>1. Reviewed => OnlyReviewedIsCommitted
  BY DEF Reviewed
<1>2. QED
  BY <1>1, InitTypes, NextTypes, InitReviewed, NextReviewed, PTL DEF Spec

\* No commit of Lya holds files whose capture was truncated or binary.
THEOREM CommitsAreComplete ==
    ASSUME ~ConcurrentEditor
    PROVE  Spec => []OpaqueIsNeverCommitted
<1>1. Reviewed => OpaqueIsNeverCommitted
  BY DEF Reviewed
<1>2. QED
  BY <1>1, InitTypes, NextTypes, InitReviewed, NextReviewed, PTL DEF Spec

-----------------------------------------------------------------------------
(* A recorded commit is the last one, also under a concurrent editor.      *)

\* The steps on the way to a commit.
Uncommitted ==
    {"publish", "verify", "add", "verifyStaged", "checkHead", "toCommit", "commit", "recordCommit",
     "proveIndex", "addAgain", "verifyAgain"}

NothingRecorded == pc \in Uncommitted => result = NoResult

\* recover only goes towards a commit where none is recorded, and the commit is
\* recorded when it is left.
LEMMA NextNothingRecorded == NothingRecorded /\ [Next]_vars => NothingRecorded'
<1>1. SUFFICES ASSUME NothingRecorded, [Next]_vars PROVE NothingRecorded'
  OBVIOUS
<1>2. CASE BeginPublish \/ VerifySnapshot \/ CheckHead \/ BeginCommit
  BY <1>1, <1>2 DEF NothingRecorded, Uncommitted, BeginPublish, VerifySnapshot, CheckHead, BeginCommit,
     UnlessStopped, Refuse, Record, Return, Goto, recordVars
<1>3. CASE \/ StageAll("add", "verifyStaged") \/ StageAll("addAgain", "verifyAgain")
           \/ VerifyStaged("verifyStaged", "checkHead") \/ VerifyStaged("verifyAgain", "toCommit")
  BY <1>1, <1>3 DEF NothingRecorded, Uncommitted, StageAll, VerifyStaged, UnlessStopped, Refuse, Record, Return,
     Goto, recordVars
<1>4. CASE CommitStaged
  BY <1>1, <1>4 DEF NothingRecorded, Uncommitted, CommitStaged, Goto, recordVars
<1>5. CASE RecordNewCommit \/ RecordCommitted \/ BeginPush \/ PushAccepted \/ PushRejected \/ RecordPushed \/ FinishPush
  BY <1>5 DEF NothingRecorded, Uncommitted, RecordNewCommit, RecordCommitted, BeginPush, PushAccepted, PushRejected,
     RecordPushed, FinishPush, UnlessStopped, Refuse, Return, Goto
<1>6. CASE Enter
  BY <1>6 DEF NothingRecorded, Uncommitted, Enter, Recovering, RecoverRecordedCommit, RecoverWithoutCommit, Refuse,
     Return, Goto, recordVars
<1>7. CASE ProveCommit \/ ProveIndex
  BY <1>1, <1>7 DEF NothingRecorded, Uncommitted, ProveCommit, ProveIndex, UnlessStopped, Refuse, Record, Return,
     Goto, recordVars
<1>8. CASE GitCommandFails \/ RequestStop \/ Settle \/ Crash \/ Resume \/ OutsideEdit \/ UNCHANGED vars
  BY <1>1, <1>8 DEF NothingRecorded, Uncommitted, GitCommandFails, RequestStop, Settle, Crash, Resume, OutsideEdit,
     Refuse, Return, recordVars, vars
<1>9. QED
  BY <1>1, <1>2, <1>3, <1>4, <1>5, <1>6, <1>7, <1>8 DEF Next, PublisherStep

\* Somebody else's edit neither makes nor removes a commit of Lya.
LEMMA EditKeepsLyasCommits ==
    ASSUME RepoTypeOK, Edit
    PROVE  LyasCommits' = LyasCommits
BY EditAddsOthers DEF LyasCommits

\* Only CommitStaged makes a commit of Lya.
LEMMA OtherStepsCommitNothing ==
    ASSUME TypeInv, [Next]_vars, ~CommitStaged
    PROVE  LyasCommits' = LyasCommits
<1>1. CASE OutsideEdit
  BY <1>1, EditKeepsLyasCommits DEF OutsideEdit, TypeInv, TypeOK
<1>2. CASE ~OutsideEdit
  <2>1. UNCHANGED commits
    BY <1>2 DEF Next, PublisherStep, BeginPublish, VerifySnapshot, CheckHead, BeginCommit, RecordNewCommit,
       RecordCommitted, StageAll, VerifyStaged, BeginPush, PushAccepted, PushRejected, RecordPushed, FinishPush,
       Enter, ProveCommit, ProveIndex, GitCommandFails, RequestStop, Settle, Crash, Resume, GitAddAll, GitPush,
       Quiet, repoVars, vars
  <2>2. QED
    BY <2>1 DEF LyasCommits
<1>3. QED
  BY <1>1, <1>2

\* Once a commit is recorded Lya makes no other, whoever edits the repository at
\* whatever moment.
THEOREM RecordedCommitIsTheLast == Spec => RecordedCommitIsFinal
<1>1. Init => NothingRecorded
  BY DEF Init, NothingRecorded
<1>2. TypeInv /\ NothingRecorded /\ [Next]_vars => [LyasCommits' # LyasCommits => result = NoResult]_vars
  BY OtherStepsCommitNothing DEF NothingRecorded, Uncommitted, CommitStaged
<1>3. QED
  BY <1>1, <1>2, InitTypes, NextTypes, NextNothingRecorded, PTL DEF Spec, RecordedCommitIsFinal

-----------------------------------------------------------------------------
(* What is recorded as pushed is on the remote.                            *)

\* The steps between the record of a commit and the record of its push.
Recorded == {"committed", "toPush", "push", "recordPush", "proveCommit"}

\* The recorded commit is Lya's, it is the one the branch points to when it is
\* pushed, and the remote has it before the record says so.
Tracked ==
    /\ result # NoResult => result.sha \in LyasCommits
    /\ pc = "recordCommit" => head \in LyasCommits
    /\ pc \in Recorded => result # NoResult /\ result.push # "PUSHED"
    /\ pc \in Recorded \ {"proveCommit"} => head = result.sha
    /\ pc = "recordPush" => remote = head
    /\ result.push = "PUSHED" => remote = result.sha

\* A commit of Lya stays one.
LEMMA LyasCommitsStay ==
    ASSUME TypeInv, [Next]_vars
    PROVE  LyasCommits \subseteq LyasCommits'
<1>1. CASE CommitStaged
  <2> DEFINE new == [content |-> index, parent |-> head, by |-> "lya"]
  <2>1. commits' = Append(commits, new) /\ commits \in Seq(Commit) /\ new \in Commit
    BY <1>1 DEF CommitStaged, GitCommit, TypeInv, TypeOK, RepoTypeOK, Commit, Authors
  <2>2. \A c \in DOMAIN commits : c \in DOMAIN commits' /\ commits'[c] = commits[c]
    BY <2>1
  <2>3. QED
    BY <2>2 DEF LyasCommits
<1>2. CASE ~CommitStaged
  BY <1>2, OtherStepsCommitNothing
<1>3. QED
  BY <1>1, <1>2

\* "git commit" leaves HEAD at a commit of Lya.
LEMMA CommitIsLyas ==
    ASSUME TypeInv, CommitStaged
    PROVE  head' \in LyasCommits'
<1> DEFINE new == [content |-> index, parent |-> head, by |-> "lya"]
<1>1. commits' = Append(commits, new) /\ commits \in Seq(Commit) /\ new \in Commit /\ head' = Len(commits) + 1
  BY DEF CommitStaged, GitCommit, TypeInv, TypeOK, RepoTypeOK, Commit, Authors
<1>2. head' \in DOMAIN commits' /\ commits'[head'] = new
  BY <1>1
<1>3. new.by = "lya"
  OBVIOUS
<1>4. QED
  BY <1>2, <1>3 DEF LyasCommits

\* Every step keeps the commit, its record and the remote together.
LEMMA NextTracked ==
    ASSUME ~ConcurrentEditor
    PROVE  TypeInv /\ Tracked /\ [Next]_vars => Tracked'
<1>1. SUFFICES ASSUME TypeInv, Tracked, [Next]_vars PROVE Tracked'
  OBVIOUS
<1>2. LyasCommits \subseteq LyasCommits'
  BY <1>1, LyasCommitsStay
<1>3. CASE \/ BeginPublish \/ VerifySnapshot \/ CheckHead \/ BeginCommit \/ ProveIndex
           \/ VerifyStaged("verifyStaged", "checkHead") \/ VerifyStaged("verifyAgain", "toCommit")
  <2>1. UNCHANGED <<head, remote, result>> /\ pc' \notin Recorded \cup {"recordCommit"}
    BY <1>3 DEF Recorded, BeginPublish, VerifySnapshot, CheckHead, BeginCommit, ProveIndex, VerifyStaged,
       UnlessStopped, Refuse, Record, Return, Goto, recordVars, Quiet, repoVars
  <2>2. QED
    BY <1>1, <1>2, <2>1 DEF Tracked, Recorded
<1>4. CASE StageAll("add", "verifyStaged") \/ StageAll("addAgain", "verifyAgain")
  <2>1. UNCHANGED <<head, remote, result>> /\ pc' \notin Recorded \cup {"recordCommit"}
    BY <1>4 DEF Recorded, StageAll, GitAddAll, Goto, recordVars
  <2>2. QED
    BY <1>1, <1>2, <2>1 DEF Tracked, Recorded
<1>5. CASE CommitStaged
  <2>1. UNCHANGED <<remote, result>> /\ pc' = "recordCommit"
    BY <1>5 DEF CommitStaged, GitCommit, Goto, recordVars
  <2>2. QED
    BY <1>1, <1>2, <1>5, <2>1, CommitIsLyas DEF Tracked, Recorded
<1>6. CASE RecordNewCommit
  BY <1>1, <1>2, <1>6 DEF Tracked, Recorded, RecordNewCommit, RecordCommit, Goto, Quiet, repoVars, NoResult
<1>7. CASE RecordCommitted \/ BeginPush
  BY <1>1, <1>2, <1>7 DEF Tracked, Recorded, RecordCommitted, BeginPush, UnlessStopped, Refuse, Record, Return, Goto,
     recordVars, Quiet, repoVars
<1>8. CASE PushAccepted
  BY <1>1, <1>2, <1>8 DEF Tracked, Recorded, PushAccepted, GitPush, Goto, recordVars
<1>9. CASE PushRejected
  BY <1>1, <1>2, <1>9 DEF Tracked, Recorded, PushRejected, RecordCommit, Return
<1>10. CASE RecordPushed \/ FinishPush
  BY <1>1, <1>2, <1>10 DEF Tracked, Recorded, RecordPushed, FinishPush, RecordCommit, Record, Return, Goto, Quiet,
     repoVars
<1>11. CASE Enter
  BY <1>1, <1>2, <1>11 DEF Tracked, Recorded, Enter, RecoverRecordedCommit, RecoverWithoutCommit, Refuse, Record,
     Return, Goto, recordVars, Quiet, repoVars
<1>12. CASE ProveCommit
  BY <1>1, <1>2, <1>12 DEF Tracked, Recorded, ProveCommit, RecordedCommitIsProven, UnlessStopped, Refuse, Record,
     Return, Goto, recordVars, Quiet, repoVars
<1>13. CASE GitCommandFails \/ RequestStop \/ Settle \/ Crash \/ Resume \/ UNCHANGED vars
  <2>1. UNCHANGED <<head, remote, result>> /\ (pc' = pc \/ pc' \in {"returned", "over", "down", "enter"})
    BY <1>13 DEF GitCommandFails, RequestStop, Settle, Crash, Resume, Refuse, Return, recordVars, repoVars, vars
  <2>2. QED
    BY <1>1, <1>2, <2>1 DEF Tracked, Recorded
<1>14. CASE OutsideEdit
  <2>1. UNCHANGED <<remote, result>> /\ pc' = "down"
    BY <1>14 DEF OutsideEdit, Edit, EditTree, GitAddAll, GitCommit, ResetHead, recordVars
  <2>2. QED
    BY <1>1, <1>2, <2>1 DEF Tracked, Recorded
<1>15. QED
  BY <1>1, <1>3, <1>4, <1>5, <1>6, <1>7, <1>8, <1>9, <1>10, <1>11, <1>12, <1>13, <1>14 DEF Next, PublisherStep

\* An accepted job has nothing recorded yet.
LEMMA InitTracked == Init => Tracked
BY DEF Init, Tracked, Recorded, NoResult

\* What the job's record says is pushed is what the remote's branch points to, and
\* it is Lya's commit.
THEOREM PushedCommitsAreOnRemote ==
    ASSUME ~ConcurrentEditor
    PROVE  Spec => []PushedIsOnRemote
<1>1. Tracked => PushedIsOnRemote
  BY DEF Tracked, PushedIsOnRemote, NoResult
<1>2. QED
  BY <1>1, InitTypes, NextTypes, InitTracked, NextTracked, PTL DEF Spec

\* The remote never moves to a commit that is not recorded yet.
THEOREM RemoteIsRecorded ==
    ASSUME ~ConcurrentEditor
    PROVE  Spec => RemoteMovesToRecordedCommit
<1>1. Tracked /\ [Next]_vars => [remote' # remote => result.sha = remote']_vars
  <2>1. SUFFICES ASSUME Tracked, Next, ~(PushAccepted \/ PushRejected) PROVE UNCHANGED remote
    BY DEF Tracked, Recorded, PushAccepted, PushRejected, GitPush, repoVars
  <2>2. CASE OutsideEdit
    BY <2>2 DEF OutsideEdit, Edit, EditTree, GitAddAll, GitCommit, ResetHead
  <2>3. CASE ~OutsideEdit
    BY <2>1, <2>3 DEF Next, PublisherStep, BeginPublish, VerifySnapshot, CheckHead, BeginCommit, RecordNewCommit,
       RecordCommitted, StageAll, VerifyStaged, BeginPush, CommitStaged, RecordPushed, FinishPush, Enter, ProveCommit,
       ProveIndex, GitCommandFails, RequestStop, Settle, Crash, Resume, GitAddAll, GitCommit, Quiet, repoVars
  <2>4. QED
    BY <2>2, <2>3
<1>2. QED
  BY <1>1, InitTypes, NextTypes, InitTracked, NextTracked, PTL DEF Spec, RemoteMovesToRecordedCommit

\* Which commit is the job's, and which one the remote shows, is never lost track
\* of.
THEOREM CommitsAreTracked ==
    ASSUME ~ConcurrentEditor
    PROVE  Spec => CommitIsTracked
<1>1. Spec => RemoteMovesToRecordedCommit
  BY RemoteIsRecorded
<1>2. Spec => RecordedCommitIsFinal
  BY RecordedCommitIsTheLast
<1>3. QED
  BY <1>1, <1>2, PTL DEF CommitIsTracked

-----------------------------------------------------------------------------
(* A stop ends the Git writes, also under a concurrent editor.             *)

\* The steps that write, or that lead to a write without looking at the stop
\* again.
WriteReady == {"add", "addAgain", "toCommit", "commit", "push"}

\* At most one write was made since the stop, and none where another one is next.
StopCounts ==
    /\ ~stop \/ pc \in WriteReady => writes = 0
    /\ writes \in {0, 1}

\* Between any two Git writes the stop is looked at.
LEMMA NextStopCounts == StopCounts /\ [Next]_vars => StopCounts'
<1>1. SUFFICES ASSUME StopCounts, [Next]_vars PROVE StopCounts'
  OBVIOUS
<1>2. CASE StageAll("add", "verifyStaged") \/ StageAll("addAgain", "verifyAgain") \/ CommitStaged \/ PushAccepted
  <2>1. writes = 0 /\ pc' \notin WriteReady /\ OwnWrite /\ UNCHANGED stop
    BY <1>1, <1>2 DEF StopCounts, WriteReady, StageAll, CommitStaged, PushAccepted, Goto
  <2>2. QED
    BY <1>1, <2>1 DEF StopCounts, OwnWrite
<1>3. CASE PushRejected
  BY <1>1, <1>3 DEF StopCounts, WriteReady, PushRejected, OwnWrite, Return
<1>4. CASE \/ BeginPublish \/ VerifySnapshot \/ CheckHead \/ BeginCommit \/ RecordNewCommit \/ RecordCommitted
           \/ VerifyStaged("verifyStaged", "checkHead") \/ VerifyStaged("verifyAgain", "toCommit")
           \/ BeginPush \/ RecordPushed \/ FinishPush \/ Enter \/ ProveCommit \/ ProveIndex
  <2>1. UNCHANGED <<writes, stop>>
    BY <1>4 DEF BeginPublish, VerifySnapshot, CheckHead, BeginCommit, RecordNewCommit, RecordCommitted, VerifyStaged,
       BeginPush, RecordPushed, FinishPush, Enter, ProveCommit, ProveIndex, Quiet, historyVars
  <2>2. pc' \in WriteReady => ~stop \/ pc = "toCommit"
    BY <1>4 DEF WriteReady, BeginPublish, VerifySnapshot, CheckHead, BeginCommit, RecordNewCommit, RecordCommitted,
       VerifyStaged, BeginPush, RecordPushed, FinishPush, Enter, RecoverRecordedCommit, RecoverWithoutCommit,
       ProveCommit, ProveIndex, UnlessStopped, Refuse, Return, Goto
  <2>3. QED
    BY <1>1, <2>1, <2>2 DEF StopCounts, WriteReady
<1>5. CASE RequestStop \/ Crash
  BY <1>1, <1>5 DEF StopCounts, WriteReady, RequestStop, Crash, historyVars
<1>6. CASE GitCommandFails \/ Settle \/ Resume \/ OutsideEdit \/ UNCHANGED vars
  <2>1. UNCHANGED <<writes, stop>> /\ (pc' = pc \/ pc' \in {"returned", "over", "enter"})
    BY <1>6 DEF GitCommandFails, Settle, Resume, OutsideEdit, Refuse, Return, historyVars, vars
  <2>2. QED
    BY <1>1, <2>1 DEF StopCounts, WriteReady
<1>7. QED
  BY <1>1, <1>2, <1>3, <1>4, <1>5, <1>6 DEF Next, PublisherStep

\* After a stop was requested at most the Git write already under way is made, for
\* any repository and whoever else edits it.
THEOREM StopEndsWriting == Spec => []StopBoundsWrites
<1>1. Init => StopCounts
  BY DEF Init, StopCounts, WriteReady
<1>2. StopCounts => StopBoundsWrites
  BY DEF StopCounts, StopBoundsWrites
<1>3. QED
  BY <1>1, <1>2, NextStopCounts, PTL DEF Spec

-----------------------------------------------------------------------------
(* An ambiguous publication has a cause, also under a concurrent editor.   *)

\* Nobody has edited the repository since the accepted capture, no command has
\* failed, and the capture shows all of the change.
Undisturbed == ~disturbed /\ ~accepted.staged

\* The steps on the way to "git commit", and those after its commit is recorded.
BeforeTheCommit == Uncommitted \ {"recordCommit"}
AfterTheRecord == Recorded \cup {"pushed"}

\* Until Lya commits, the branch and the files are those of the capture; only the
\* index may already hold them.
ReadyToCommit ==
    /\ head = accepted.head
    /\ accepted.diff = Diff(HeadContent, tree)
    /\ index \in {HeadContent, tree}
    /\ result = NoResult
    /\ stage \notin {"COMMITTED", "PUSHING", "PUSHED"}
    /\ pc \notin AfterTheRecord \cup {"recordCommit"}
    /\ pc = "commit" => stage # "NONE"

\* From then on HEAD is that commit, on top of the accepted one and with nothing
\* changed since, and no process goes towards a second one.
Committed ==
    /\ head # accepted.head
    /\ commits[head].parent = accepted.head
    /\ (commits[accepted.head].content = HeadContent) = (accepted.diff = {})
    /\ IsClean(Capture)
    /\ result # NoResult => result.sha = head
    /\ stage # "NONE"
    /\ pc \in AfterTheRecord => result # NoResult
    /\ pc \notin BeforeTheCommit

\* AmbiguityHasACause is not inductive: it takes all that an undisturbed process
\* finds when it resumes.
Explained ==
    Undisturbed =>
        /\ LyasCommits = {} => ReadyToCommit
        /\ LyasCommits # {} => Committed
        /\ outcome = "Ambiguous" => LyasCommits # {} /\ result = NoResult /\ pc \in {"returned", "over"}

\* An undisturbed repository in which nothing is staged is the accepted one.
LEMMA UnstagedIsAccepted ==
    ASSUME TypeInv, Undisturbed, ReadyToCommit, index = HeadContent
    PROVE  Capture = accepted
<1>1. accepted = [head |-> accepted.head, staged |-> accepted.staged, diff |-> accepted.diff]
  BY DEF TypeInv, TypeOK, Snapshot
<1>2. accepted.staged = FALSE
  BY DEF Undisturbed, TypeInv, TypeOK, Snapshot
<1>3. accepted.head = head /\ accepted.diff = Diff(index, tree)
  BY DEF ReadyToCommit
<1>4. (index # HeadContent) = FALSE
  OBVIOUS
<1>5. QED
  BY <1>1, <1>2, <1>3, <1>4 DEF Capture

\* A step of the publisher that leaves the repository and the commit's record
\* alone, and goes where an undisturbed repository lets it.
LEMMA QuietStepIsExplained ==
    ASSUME Undisturbed, Explained, pc \in PublisherSteps,
           UNCHANGED <<repoVars, accepted, result, disturbed>>,
           \/ stage' = stage
           \/ stage' \in {"VERIFYING", "STAGING", "STAGED", "COMMITTING"}
           \/ stage' # "NONE" /\ result # NoResult,
           pc' \in AfterTheRecord => result # NoResult,
           pc' # "recordCommit",
           pc' = "commit" => stage' # "NONE",
           pc' \in BeforeTheCommit => pc \in BeforeTheCommit \/ stage = "NONE" \/ head = accepted.head,
           outcome' = "Ambiguous" =>
               outcome' = outcome \/ (LyasCommits # {} /\ result = NoResult /\ pc' = "returned")
    PROVE  Explained'
<1>1. LyasCommits' = LyasCommits
  BY DEF LyasCommits, repoVars
<1>2. ASSUME LyasCommits = {} PROVE ReadyToCommit'
  <2>1. ReadyToCommit
    BY <1>2 DEF Explained
  <2>2. stage' \notin {"COMMITTED", "PUSHING", "PUSHED"} /\ pc' \notin AfterTheRecord
    BY <2>1 DEF ReadyToCommit
  <2>3. QED
    BY <2>1, <2>2 DEF ReadyToCommit, repoVars, Diff, HeadContent
<1>3. ASSUME LyasCommits # {} PROVE Committed'
  <2>1. Committed
    BY <1>3 DEF Explained
  <2>2. stage' # "NONE" /\ pc' \notin BeforeTheCommit
    BY <2>1 DEF Committed
  <2>3. QED
    BY <2>1, <2>2 DEF Committed, repoVars, IsClean, Capture, Diff, HeadContent
<1>4. outcome # "Ambiguous"
  BY DEF Explained, PublisherSteps
<1>5. QED
  BY <1>1, <1>2, <1>3, <1>4 DEF Explained

\* The reading steps on the way to the commit, and after its record.
LEMMA VerifyingIsExplained ==
    ASSUME Undisturbed, Explained,
           \/ BeginPublish \/ VerifySnapshot \/ CheckHead \/ BeginCommit
           \/ VerifyStaged("verifyStaged", "checkHead") \/ VerifyStaged("verifyAgain", "toCommit")
           \/ RecordCommitted \/ BeginPush \/ FinishPush
    PROVE  Explained'
<1>1. UNCHANGED <<repoVars, accepted, result, disturbed>>
  BY DEF BeginPublish, VerifySnapshot, CheckHead, BeginCommit, VerifyStaged, RecordCommitted, BeginPush, FinishPush,
     UnlessStopped, Refuse, Record, recordVars, Quiet, historyVars
<1>2. outcome' = outcome \/ outcome' # "Ambiguous"
  BY DEF BeginPublish, VerifySnapshot, CheckHead, BeginCommit, VerifyStaged, RecordCommitted, BeginPush, FinishPush,
     UnlessStopped, Refuse, Return, Goto, VerifyBeforeStaging
<1>3. CASE \/ BeginPublish \/ VerifySnapshot \/ CheckHead \/ BeginCommit
           \/ VerifyStaged("verifyStaged", "checkHead") \/ VerifyStaged("verifyAgain", "toCommit")
  <2>1. pc \in BeforeTheCommit /\ pc \in PublisherSteps /\ pc' \in BeforeTheCommit \cup {"returned"}
    BY <1>3 DEF BeforeTheCommit, Uncommitted, PublisherSteps, BeginPublish, VerifySnapshot, CheckHead, BeginCommit,
       VerifyStaged, UnlessStopped, Refuse, Return, Goto
  <2>2. stage' = stage \/ stage' \in {"VERIFYING", "STAGING", "STAGED", "COMMITTING"}
    BY <1>3 DEF BeginPublish, VerifySnapshot, CheckHead, BeginCommit, VerifyStaged, UnlessStopped, Refuse, Record,
       recordVars
  <2>3. pc' \notin AfterTheRecord /\ pc' # "recordCommit"
    BY <2>1 DEF BeforeTheCommit, Uncommitted, AfterTheRecord, Recorded
  <2>4. pc' = "commit" => stage' = "COMMITTING"
    BY <1>3 DEF BeginPublish, VerifySnapshot, CheckHead, BeginCommit, VerifyStaged, UnlessStopped, Refuse, Record,
       Return, Goto
  <2>5. QED
    BY <1>1, <1>2, <2>1, <2>2, <2>3, <2>4, QuietStepIsExplained
<1>4. CASE RecordCommitted \/ BeginPush \/ FinishPush
  <2>1. pc \in AfterTheRecord /\ pc \in PublisherSteps /\ pc' \in AfterTheRecord \cup {"returned"}
    BY <1>4 DEF AfterTheRecord, Recorded, PublisherSteps, RecordCommitted, BeginPush, FinishPush, UnlessStopped,
       Return, Goto
  <2>2. result # NoResult
    BY <2>1 DEF Explained, ReadyToCommit, Committed
  <2>3. stage' = stage \/ stage' # "NONE"
    BY <1>4 DEF RecordCommitted, BeginPush, FinishPush, UnlessStopped, Record, recordVars
  <2>4. pc' \notin BeforeTheCommit /\ pc' \notin {"recordCommit", "commit"}
    BY <2>1 DEF BeforeTheCommit, Uncommitted, AfterTheRecord, Recorded
  <2>5. QED
    BY <1>1, <1>2, <2>1, <2>2, <2>3, <2>4, QuietStepIsExplained
<1>5. QED
  BY <1>3, <1>4

\* A process that resumes the publication: it only gives up where a commit was
\* made that no record describes.
LEMMA RecoveringIsExplained ==
    ASSUME TypeInv, Undisturbed, Explained, Enter \/ ProveCommit \/ ProveIndex
    PROVE  Explained'
<1>1. UNCHANGED <<repoVars, accepted, result, disturbed>>
  BY DEF Enter, RecoverRecordedCommit, RecoverWithoutCommit, ProveCommit, ProveIndex, UnlessStopped, Refuse, Record,
     recordVars, Quiet, historyVars
<1>2. CASE Enter
  <2>1. pc \in PublisherSteps /\ pc' \notin {"recordCommit", "commit"} /\ (stage' = stage \/ stage' = "VERIFYING")
    BY <1>2 DEF Enter, RecoverRecordedCommit, RecoverWithoutCommit, Refuse, Record, Return, Goto, recordVars,
       PublisherSteps
  <2>2. pc' \in AfterTheRecord => result # NoResult
    BY <1>2 DEF Enter, RecoverRecordedCommit, RecoverWithoutCommit, Refuse, Return, Goto, AfterTheRecord, Recorded
  <2>3. pc' \in BeforeTheCommit => stage = "NONE" \/ head = accepted.head
    BY <1>2 DEF Enter, Recovering, RecoverRecordedCommit, RecoverWithoutCommit, Refuse, Return, Goto,
       BeforeTheCommit, Uncommitted
  <2>4. outcome' = "Ambiguous" =>
            outcome' = outcome \/ (LyasCommits # {} /\ result = NoResult /\ pc' = "returned")
    BY <1>2 DEF Enter, RecoverRecordedCommit, RecoverWithoutCommit, Refuse, Return, Goto, Explained, ReadyToCommit
  <2>5. QED
    BY <1>1, <2>1, <2>2, <2>3, <2>4, QuietStepIsExplained
<1>3. CASE ProveCommit
  <2>1. pc = "proveCommit" /\ pc \in AfterTheRecord
    BY <1>3 DEF ProveCommit, AfterTheRecord, Recorded
  <2>2. Committed /\ result # NoResult
    BY <2>1 DEF Explained, ReadyToCommit, Committed
  <2>3. RecordedCommitIsProven
    BY <2>2 DEF Committed, RecordedCommitIsProven
  <2>4. UnlessStopped("PUSHING", "push")
    BY <1>3, <2>3 DEF ProveCommit
  <2>5. pc' \in {"push", "returned"} /\ (stage' = stage \/ stage' # "NONE") /\ (outcome' = outcome \/ outcome' = "Stopped")
    BY <2>4 DEF UnlessStopped, Return, Goto, Record, recordVars
  <2>6. QED
    BY <1>1, <2>1, <2>2, <2>5, QuietStepIsExplained DEF BeforeTheCommit, Uncommitted, PublisherSteps
<1>4. CASE ProveIndex
  <2>1. pc = "proveIndex" /\ pc \in BeforeTheCommit /\ pc \in PublisherSteps
    BY <1>4 DEF ProveIndex, BeforeTheCommit, Uncommitted, PublisherSteps
  <2>2. ReadyToCommit
    BY <2>1 DEF Explained, Committed
  <2>3. VerifyBeforeStaging = "Changed" => StagedIsAccepted
    <3>1. VerifyBeforeStaging = "Changed" => index # HeadContent
      BY <2>2, UnstagedIsAccepted DEF VerifyBeforeStaging
    <3>2. QED
      BY <2>2, <3>1 DEF ReadyToCommit, StagedIsAccepted
  <2>4. /\ pc' \in BeforeTheCommit \cup {"returned"} /\ pc' \notin AfterTheRecord
        /\ pc' \notin {"recordCommit", "commit"}
    BY <1>4 DEF ProveIndex, UnlessStopped, Refuse, Return, Goto, BeforeTheCommit, Uncommitted, AfterTheRecord, Recorded
  <2>5. stage' = stage \/ stage' \in {"STAGING", "STAGED"}
    BY <1>4 DEF ProveIndex, UnlessStopped, Refuse, Record, recordVars
  <2>6. outcome' = outcome \/ outcome' # "Ambiguous"
    BY <1>4, <2>3 DEF ProveIndex, UnlessStopped, Refuse, Return, Goto
  <2>7. QED
    BY <1>1, <2>1, <2>4, <2>5, <2>6, QuietStepIsExplained
<1>5. QED
  BY <1>2, <1>3, <1>4

\* "git add --all" stages the accepted files, "git push" moves nothing but the
\* remote, and the records say what was done.
LEMMA WritingIsExplained ==
    ASSUME TypeInv, Undisturbed, Explained,
           \/ StageAll("add", "verifyStaged") \/ StageAll("addAgain", "verifyAgain")
           \/ RecordNewCommit \/ PushAccepted \/ PushRejected \/ RecordPushed
    PROVE  Explained'
<1>1. UNCHANGED <<commits, head, tree, accepted, disturbed, stage>> /\ LyasCommits' = LyasCommits
  BY DEF StageAll, RecordNewCommit, PushAccepted, PushRejected, RecordPushed, RecordCommit, recordVars, GitAddAll,
     GitPush, Quiet, historyVars, repoVars, LyasCommits
<1>2. outcome' # "Ambiguous"
  BY DEF Explained, StageAll, RecordNewCommit, PushAccepted, PushRejected, RecordPushed, Goto, Return
<1>3. CASE StageAll("add", "verifyStaged") \/ StageAll("addAgain", "verifyAgain")
  <2>1. LyasCommits = {} /\ ReadyToCommit
    BY <1>3 DEF Explained, Committed, StageAll, BeforeTheCommit, Uncommitted
  <2>2. index' = tree /\ result' = result /\ pc' \in {"verifyStaged", "verifyAgain"}
    BY <1>3 DEF StageAll, GitAddAll, recordVars, Goto
  <2>3. ReadyToCommit'
    BY <1>1, <2>1, <2>2 DEF ReadyToCommit, HeadContent, Diff, AfterTheRecord, Recorded
  <2>4. QED
    BY <1>1, <1>2, <2>1, <2>3 DEF Explained
<1>4. CASE RecordNewCommit \/ PushAccepted \/ PushRejected \/ RecordPushed
  <2>1. LyasCommits # {} /\ Committed
    BY <1>4 DEF Explained, ReadyToCommit, RecordNewCommit, PushAccepted, PushRejected, RecordPushed, AfterTheRecord,
       Recorded
  <2>2. UNCHANGED index /\ pc' \notin BeforeTheCommit
    BY <1>4 DEF RecordNewCommit, PushAccepted, PushRejected, RecordPushed, GitPush, Quiet, repoVars, Goto, Return,
       BeforeTheCommit, Uncommitted
  <2>3. result' # NoResult /\ result'.sha = head
    <3>1. CASE RecordNewCommit
      BY <3>1 DEF RecordNewCommit, RecordCommit, NoResult
    <3>2. CASE PushAccepted \/ PushRejected \/ RecordPushed
      <4>1. result # NoResult /\ result.sha = head
        BY <2>1, <3>2 DEF Committed, PushAccepted, PushRejected, RecordPushed, AfterTheRecord, Recorded
      <4>2. result' = result \/ \E push \in {"REJECTED", "PUSHED"} : result' = [sha |-> result.sha, push |-> push]
        BY <3>2 DEF PushAccepted, PushRejected, RecordPushed, RecordCommit, recordVars
      <4>3. QED
        BY <4>1, <4>2 DEF NoResult
    <3>3. QED
      BY <1>4, <3>1, <3>2
  <2>4. IsClean(Capture)' = IsClean(Capture)
    BY <1>1, <2>2 DEF IsClean, Capture, Diff, HeadContent
  <2>5. Committed'
    BY <1>1, <2>1, <2>2, <2>3, <2>4 DEF Committed, HeadContent
  <2>6. QED
    BY <1>1, <1>2, <2>1, <2>5 DEF Explained
<1>5. QED
  BY <1>3, <1>4

\* "git commit" puts the accepted files on top of the accepted HEAD and leaves
\* nothing changed.
LEMMA CommittingIsExplained ==
    ASSUME TypeInv, Undisturbed, Explained, CommitStaged
    PROVE  Explained'
<1>1. ReadyToCommit
  BY DEF Explained, Committed, CommitStaged, BeforeTheCommit, Uncommitted
<1> DEFINE new == [content |-> index, parent |-> head, by |-> "lya"]
<1>2. index # HeadContent /\ index = tree /\ head = accepted.head
  BY <1>1 DEF CommitStaged, GitCommit, ReadyToCommit
<1>3. UNCHANGED <<index, tree, accepted, result, stage, outcome>> /\ pc' = "recordCommit"
  BY DEF CommitStaged, GitCommit, Goto, recordVars
<1>4. /\ commits'[head'].content = index /\ commits'[head'].parent = head
      /\ commits'[head] = commits[head] /\ head' # head
  <2>1. commits' = Append(commits, new) /\ head' = Len(commits) + 1
    BY DEF CommitStaged, GitCommit
  <2>2. commits \in Seq(Commit) /\ new \in Commit /\ head \in 1..Len(commits)
    BY DEF TypeInv, TypeOK, RepoTypeOK, Commit, Authors
  <2>3. commits'[head'] = new /\ commits'[head] = commits[head] /\ head' # head
    BY <2>1, <2>2
  <2>4. new.content = index /\ new.parent = head
    OBVIOUS
  <2>5. QED
    BY <2>3, <2>4
<1> HIDE DEF new
<1>5. accepted.diff # {} /\ (commits'[accepted.head].content # commits'[head'].content)
  BY <1>1, <1>2, <1>4 DEF ReadyToCommit, Diff, HeadContent
<1>6. IsClean(Capture)'
  BY <1>2, <1>3, <1>4 DEF IsClean, Capture, Diff, HeadContent
<1>7. stage # "NONE"
  BY <1>1 DEF ReadyToCommit, CommitStaged
<1>8. LyasCommits' # {}
  BY CommitIsLyas
<1>9. Committed'
  BY <1>1, <1>2, <1>3, <1>4, <1>5, <1>6, <1>7 DEF Committed, ReadyToCommit, HeadContent, AfterTheRecord, Recorded,
     BeforeTheCommit
<1>10. outcome' # "Ambiguous"
  BY <1>3 DEF Explained, CommitStaged
<1>11. QED
  BY <1>8, <1>9, <1>10 DEF Explained

\* A stop, a crash, a restart and the end of a publication.
LEMMA InterruptionIsExplained ==
    ASSUME Undisturbed, Explained, RequestStop \/ Settle \/ Crash \/ Resume \/ UNCHANGED vars
    PROVE  Explained'
<1>1. UNCHANGED <<repoVars, accepted, stage, result, disturbed>> /\ LyasCommits' = LyasCommits
  BY DEF RequestStop, Settle, Crash, Resume, vars, recordVars, historyVars, repoVars, LyasCommits
<1>2. pc' = pc \/ pc' \in {"over", "down", "enter"}
  BY DEF RequestStop, Settle, Crash, Resume, vars
<1>3. outcome' = "Ambiguous" => outcome = "Ambiguous" /\ (pc' = pc \/ pc' = "over")
  <2>1. CASE Resume
    BY <2>1 DEF Resume, Explained
  <2>2. CASE RequestStop \/ Settle \/ Crash \/ UNCHANGED vars
    BY <2>2 DEF RequestStop, Settle, Crash, vars
  <2>3. QED
    BY <2>1, <2>2
<1>4. ReadyToCommit => ReadyToCommit'
  BY <1>1, <1>2 DEF ReadyToCommit, repoVars, Diff, HeadContent, AfterTheRecord, Recorded
<1>5. Committed => Committed'
  <2>1. IsClean(Capture)' = IsClean(Capture)
    BY <1>1 DEF repoVars, IsClean, Capture, Diff, HeadContent
  <2>2. QED
    BY <1>1, <1>2, <2>1 DEF Committed, repoVars, HeadContent, AfterTheRecord, Recorded, BeforeTheCommit, Uncommitted
<1>6. QED
  BY <1>1, <1>3, <1>4, <1>5 DEF Explained

\* Every step keeps the explanation.
LEMMA NextExplained == TypeInv /\ Explained /\ [Next]_vars => Explained'
<1>1. SUFFICES ASSUME TypeInv, Explained, [Next]_vars, Undisturbed' PROVE Explained'
  BY DEF Explained
<1>2. ~GitCommandFails /\ ~OutsideEdit
  BY <1>1 DEF GitCommandFails, OutsideEdit, Undisturbed
<1>3. UNCHANGED <<accepted, disturbed>>
  BY <1>1, <1>2 DEF Next, PublisherStep, BeginPublish, VerifySnapshot, CheckHead, BeginCommit, RecordNewCommit,
     RecordCommitted, StageAll, VerifyStaged, BeginPush, CommitStaged, PushAccepted, PushRejected, RecordPushed,
     FinishPush, Enter, RecoverRecordedCommit, RecoverWithoutCommit, ProveCommit, ProveIndex, RequestStop, Settle,
     Crash, Resume, UnlessStopped, Refuse, Record, RecordCommit, recordVars, historyVars, Quiet, vars
<1>4. Undisturbed
  BY <1>1, <1>3 DEF Undisturbed
<1>5. QED
  BY <1>1, <1>2, <1>4, VerifyingIsExplained, RecoveringIsExplained, WritingIsExplained, CommittingIsExplained,
     InterruptionIsExplained DEF Next, PublisherStep

\* An accepted job has not committed and is not ambiguous.
LEMMA InitExplained == Init => Explained
<1>1. SUFFICES ASSUME Init, Undisturbed PROVE Explained
  BY DEF Explained
<1>2. commits[1].by = "other" /\ DOMAIN commits = {1}
  BY <1>1 DEF Init
<1>3. LyasCommits = {}
  BY <1>2 DEF LyasCommits
<1>4. accepted.head = head /\ accepted.staged = (index # HeadContent) /\ accepted.diff = Diff(index, tree)
  BY <1>1 DEF Init, Capture
<1>5. index = HeadContent
  BY <1>1, <1>4 DEF Undisturbed
<1>6. ReadyToCommit
  BY <1>1, <1>4, <1>5 DEF Init, ReadyToCommit, AfterTheRecord, Recorded
<1>7. QED
  BY <1>1, <1>3, <1>6 DEF Init, Explained

\* An interrupted publication is only handed to a human for a reason, for any
\* repository and any number of crashes, retries and edits.
THEOREM AmbiguityIsExplained == Spec => []AmbiguityHasACause
<1>1. TypeInv /\ Explained => AmbiguityHasACause
  BY DEF TypeInv, TypeOK, Explained, Undisturbed, AmbiguityHasACause
<1>2. QED
  BY <1>1, InitTypes, NextTypes, InitExplained, NextExplained, PTL DEF Spec

-----------------------------------------------------------------------------
(* Jobs.                                                                   *)

JobTypes == JobTypeOK /\ ParentsPrecede

-----------------------------------------------------------------------------
(* The types.                                                              *)

\* RepositoryState::collect returns a snapshot of the repository.
LEMMA CaptureIsTyped ==
    ASSUME RepoTypeOK
    PROVE  Capture \in Snapshot
<1>1. Diff(index, tree) \in SUBSET (Content \X (Content \cup {Truncated}))
  BY DiffType DEF RepoTypeOK
<1>2. QED
  BY <1>1 DEF RepoTypeOK, Capture, Snapshot

\* A publisher's step leads to another one or returns.
LEMMA PublisherStaysInside ==
    ASSUME PublisherStep
    PROVE  pc \in PublisherSteps /\ pc' \in PublisherSteps \cup {"returned"}
BY DEF PublisherStep, PublisherSteps, BeginPublish, VerifySnapshot, CheckHead, BeginCommit, RecordNewCommit,
   RecordCommitted, StageAll, VerifyStaged, BeginPush, CommitStaged, PushAccepted, PushRejected, RecordPushed,
   FinishPush, Enter, RecoverRecordedCommit, RecoverWithoutCommit, ProveCommit, ProveIndex, GitCommandFails,
   UnlessStopped, Refuse, Return, Goto

\* The publication's own types hold inside the publisher.
LEMMA PublicationTypes ==
    ASSUME JobTypes, pc \in PublisherSteps
    PROVE  TypeInv
BY DEF JobTypes, JobTypeOK, TypeInv, TypeOK

\* The publisher's steps keep the types.
LEMMA PublisherKeepsJobTypes ==
    ASSUME JobTypes, PublisherStep, UNCHANGED jobVars
    PROVE  JobTypes'
<1>1. TypeInv'
  BY PublisherStaysInside, PublicationTypes, ReadingKeepsTypes, WritingKeepsTypes, EnvironmentKeepsTypes
     DEF PublisherStep
<1>2. pc' \in PublisherSteps \cup {"returned"}
  BY PublisherStaysInside
<1>3. QED
  BY <1>1, <1>2 DEF JobTypes, JobTypeOK, TypeInv, TypeOK, jobVars

\* The steps that only move the process, or its control.
LEMMA MovingKeepsJobTypes ==
    ASSUME JobTypes,
           \/ SupervisorAnswers \/ ExecutorAnswersError \/ ProviderCancelled \/ PublisherReturns
           \/ RequestPauseOrResume \/ RequestJobStop \/ InputEnds \/ ResumeRefused
           \/ UNCHANGED allVars
    PROVE  JobTypes'
<1>1. UNCHANGED <<commits, head, index, tree, remote, job, disk, saved, accepted, stage, result, reviewed, seen, writes,
                  ranAt>>
  BY DEF SupervisorAnswers, ExecutorAnswersError, ProviderCancelled, PublisherReturns, RequestPauseOrResume,
     RequestJobStop, InputEnds, ResumeRefused, CaptureFails, Idle, publicationVars, vars, allVars, jobVars,
     repoVars, recordVars, historyVars
<1>2. {stop, pause, inputOpen, disturbed}' \subseteq BOOLEAN /\ outcome' \in Outcomes
  BY DEF JobTypes, JobTypeOK, SupervisorAnswers, ExecutorAnswersError, ProviderCancelled, PublisherReturns,
     RequestPauseOrResume, RequestJobStop, InputEnds, ResumeRefused, CaptureFails, Idle, publicationVars, vars,
     allVars, jobVars, repoVars, recordVars, historyVars
<1>3. /\ pc' \in DriverSteps \cup PublisherSteps \cup {"returned", "down"}
      /\ after' \in DriverSteps \cup {"down"}
      /\ reply' \in Decisions \cup {"None", "Quota", "Error"}
  BY DEF JobTypes, JobTypeOK, SupervisorAnswers, ExecutorAnswersError, ProviderCancelled, PublisherReturns,
     RequestPauseOrResume, RequestJobStop, InputEnds, ResumeRefused, CaptureFails, Idle, publicationVars, vars,
     allVars, jobVars, repoVars, recordVars, historyVars, ToSafePoint, DriverSteps
<1>4. RepoTypeOK' /\ ParentsPrecede'
  BY <1>1 DEF JobTypes, JobTypeOK, RepoTypeOK, ParentsPrecede
<1>5. QED
  BY <1>1, <1>2, <1>3, <1>4 DEF JobTypes, JobTypeOK

\* Somebody edits the repository.
LEMMA EditingKeepsJobTypes ==
    ASSUME JobTypes, ExecutorWorks \/ JobOutsideEdit
    PROVE  JobTypes'
<1>1. RepoTypeOK' /\ ParentsPrecede'
  BY EditKeepsTypes DEF JobTypes, JobTypeOK, ExecutorWorks, JobOutsideEdit
<1>2. UNCHANGED <<jobVars, accepted, stage, result, stop, pc, outcome, reviewed, writes>> /\ disturbed' \in BOOLEAN
  BY DEF JobTypes, JobTypeOK, ExecutorWorks, JobOutsideEdit, recordVars
<1>3. QED
  BY <1>1, <1>2 DEF JobTypes, JobTypeOK, jobVars
\* The steps that write the record, or leave it to a later process.
Writing ==
    \/ SafePoint \/ LeavePause \/ Run \/ Load \/ ResumeJob \/ ResumeParks \/ Supervise \/ Decide \/ Execute
    \/ ExecutorReturns \/ CaptureRun \/ ExecutorFailed \/ EnterPublish \/ SettlePublication
    \/ Close \/ JobCrash \/ EventFails

\* A job that ends or is parked keeps its record one.
LEMMA EndsAreTyped ==
    ASSUME job \in JobState,
           \/ Fail \/ WaitForHuman
           \/ \E status \in Resumable, operation \in Operations : WaitForQuota(status, operation)
    PROVE  job' \in JobState /\ disk' \in JobState
<1>1. CASE Fail \/ WaitForHuman
  <2>1. PICK status \in Statuses : Save([job EXCEPT !.status = status])
    BY <1>1 DEF Fail, WaitForHuman, Finish, Statuses, Terminal
  <2>2. QED
    BY <2>1 DEF Save, JobState
<1>2. CASE \E status \in Resumable, operation \in Operations : WaitForQuota(status, operation)
  <2>1. PICK status \in Statuses, operation \in Operations :
            Save([job EXCEPT !.status = status, !.pending = operation, !.quota = operation])
    BY <1>2 DEF WaitForQuota, Finish, Statuses
  <2>2. QED
    BY <2>1 DEF Save, JobState
<1>3. QED
  BY <1>1, <1>2

\* What they write is a record.
LEMMA RecordsAreTyped ==
    ASSUME JobTypes, Writing
    PROVE  job' \in JobState /\ disk' \in JobState
<1>1. job \in JobState /\ disk \in JobState /\ Capture \in Snapshot /\ job.snapshot \in Snapshot
  BY CaptureIsTyped DEF JobTypes, JobTypeOK, JobState
<1>2. CASE SafePoint \/ LeavePause
  <2>1. CASE StopJob
    <3>1. PICK snapshot \in {Capture, job.snapshot} :
              Finish([job EXCEPT !.status = "STOPPED", !.snapshot = snapshot])
      BY <2>1 DEF StopJob
    <3>2. QED
      BY <1>1, <3>1 DEF Finish, Save, JobState, Statuses, Terminal
  <2>2. CASE ~StopJob
    <3>1. \/ UNCHANGED <<job, disk>>
          \/ \E status \in Statuses : Save([job EXCEPT !.status = status])
      BY <1>2, <2>2 DEF SafePoint, LeavePause, Finish, Statuses, Resumable
    <3>2. QED
      BY <1>1, <3>1 DEF Save, JobState
  <2>3. QED
    BY <2>1, <2>2
<1>3. CASE Run
  <2>1. NoSnapshot \in Snapshot
    BY DEF NoSnapshot, Snapshot
  <2>2. job' = [NewJob(disk.publish) EXCEPT !.snapshot = Capture] /\ disk' = job'
    BY <1>3 DEF Run, Save
  <2>3. NewJob(disk.publish) \in JobState
    BY <1>1, <2>1 DEF NewJob, JobState, Statuses, Resumable, Operations
  <2>4. QED
    BY <1>1, <2>2, <2>3 DEF JobState
<1>4. CASE Load \/ Close \/ JobCrash
  BY <1>1, <1>4 DEF Load, Close, JobCrash, ProcessGone
<1>5. CASE ResumeJob \/ ResumeParks
  <2>1. CASE ResumeJob
    BY <1>1, <2>1 DEF ResumeJob, Save, JobState, Statuses, Resumable, Operations
  <2>2. CASE ResumeParks
    BY <1>1, <2>2, EndsAreTyped DEF ResumeParks
  <2>3. QED
    BY <1>5, <2>1, <2>2
<1>6. CASE Supervise
  <2>1. CASE Fail
    BY <1>1, <2>1, EndsAreTyped
  <2>2. CASE ~Fail
    <3> DEFINE n == IF pc = "fresh" THEN job.iteration + 1 ELSE job.iteration
    <3>1. n \in Nat
      BY <1>1 DEF JobState
    <3>2. Save([job EXCEPT !.iteration = n, !.status = "RUNNING", !.pending = "SupervisorReview"])
      BY <1>6, <2>2 DEF Supervise
    <3> HIDE DEF n
    <3>3. QED
      BY <1>1, <3>1, <3>2 DEF Save, JobState, Statuses, Resumable, Operations
  <2>3. QED
    BY <2>1, <2>2
<1>7. CASE Decide
  <2>1. CASE DecideAccept
    <3>1. CASE job.publish
      BY <1>1, <2>1, <3>1 DEF DecideAccept, JobState, Decisions
    <3>2. CASE ~job.publish
      <4>1. Save([job EXCEPT !.decision = "ACCEPT", !.status = "ACCEPTED", !.pending = "None"])
        BY <2>1, <3>2 DEF DecideAccept, Finish
      <4>2. QED
        BY <1>1, <4>1 DEF Save, JobState, Statuses, Terminal, Operations, Decisions
    <3>3. QED
      BY <3>1, <3>2
  <2>2. CASE DecideClaude
    BY <1>1, <2>2 DEF DecideClaude, Save, JobState, Operations, Decisions
  <2>3. CASE DecideOtherwise
    <3>1. CASE reply \in {"HUMAN", "STOP"}
      <4>1. \E status \in Statuses :
                Save([job EXCEPT !.decision = reply, !.status = status, !.pending = "None"])
        BY <2>3, <3>1 DEF DecideOtherwise, Finish, Statuses, Terminal
      <4>2. QED
        <5>1. reply \in Decisions /\ "None" \in Operations
          BY <3>1 DEF Decisions, Operations
        <5>2. QED
          BY <1>1, <4>1, <5>1, ZenonT(60) DEF Save, JobState
    <3>2. CASE reply \notin {"HUMAN", "STOP"}
      <4>1. Fail \/ \E status \in Resumable, operation \in Operations : WaitForQuota(status, operation)
        BY <2>3, <3>2 DEF DecideOtherwise, Resumable, Operations
      <4>2. QED
        BY <1>1, <4>1, EndsAreTyped
    <3>3. QED
      BY <3>1, <3>2
  <2>4. QED
    BY <1>7, <2>1, <2>2, <2>3 DEF Decide
<1>8. CASE Execute \/ ExecutorReturns
  <2>1. CASE Execute
    <3>1. Fail \/ UNCHANGED <<job, disk>>
      BY <2>1 DEF Execute
    <3>2. QED
      BY <1>1, <3>1, EndsAreTyped
  <2>2. CASE ExecutorReturns
    <3>1. PICK session \in BOOLEAN :
              Save([job EXCEPT !.session = @ \/ session, !.report = TRUE, !.pending = "None"])
      BY <2>2 DEF ExecutorReturns
    <3>2. job.session \in BOOLEAN
      BY <1>1 DEF JobState
    <3>3. (job.session \/ session) \in BOOLEAN
      BY <3>2
    <3>4. QED
      BY <1>1, <3>1, <3>3 DEF Save, JobState, Operations
  <2>3. QED
    BY <1>8, <2>1, <2>2
<1>9. CASE CaptureRun \/ ExecutorFailed
  <2>1. CASE CaptureRun
    <3>1. Fail \/ Save([job EXCEPT !.snapshot = Capture])
      BY <2>1 DEF CaptureRun
    <3>2. CASE Fail
      BY <1>1, <3>2, EndsAreTyped
    <3>3. CASE Save([job EXCEPT !.snapshot = Capture])
      BY <1>1, <3>3 DEF Save, JobState
    <3>4. QED
      BY <3>1, <3>2, <3>3
  <2>2. CASE ExecutorFailed
    <3>1. Fail \/ WaitForQuota("WAITING_CLAUDE_QUOTA", "ExecutorRun")
      BY <2>2 DEF ExecutorFailed
    <3>2. "WAITING_CLAUDE_QUOTA" \in Resumable /\ "ExecutorRun" \in Operations
      BY DEF Resumable, Operations
    <3>3. QED
      BY <1>1, <3>1, <3>2, EndsAreTyped
  <2>3. QED
    BY <1>9, <2>1, <2>2
<1>10. CASE EnterPublish \/ SettlePublication
  <2>1. CASE Fail \/ WaitForHuman
    BY <1>1, <2>1, EndsAreTyped
  <2>2. CASE EnterPublish /\ ~WaitForHuman
    <3>1. Save([job EXCEPT !.status = "PUBLISHING", !.pending = "Publication"])
      BY <2>2 DEF EnterPublish
    <3>2. QED
      BY <1>1, <3>1 DEF Save, JobState, Statuses, Resumable, Operations
  <2>3. CASE SettlePublication /\ ~Fail /\ ~WaitForHuman
    <3>1. Save([job EXCEPT !.status = "PUBLISHED", !.pending = "None", !.snapshot = Capture])
      BY <2>3 DEF SettlePublication, Finish
    <3>2. QED
      BY <1>1, <3>1 DEF Save, JobState, Statuses, Terminal, Operations
  <2>4. QED
    BY <1>10, <2>1, <2>2, <2>3
<1>11. CASE EventFails
  BY <1>1, <1>11 DEF EventFails, ProcessGone, JobState, Statuses, Terminal
<1>12. QED
  BY <1>2, <1>3, <1>4, <1>5, <1>6, <1>7, <1>8, <1>9, <1>10, <1>11 DEF Writing

LEMMA WritingKeepsJobTypes ==
    ASSUME JobTypes, Writing
    PROVE  JobTypes'
<1>1. UNCHANGED <<commits, head, index, tree, remote, stage, result>>
  BY DEF Writing, SafePoint, LeavePause, Run, Load, ResumeJob, ResumeParks, Supervise, Decide, Execute,
     ExecutorReturns, CaptureRun, ExecutorFailed, EnterPublish, SettlePublication, Close, JobCrash, EventFails,
     CaptureFails, ProcessGone, Idle, publicationVars, repoVars
<1>2. RepoTypeOK' /\ ParentsPrecede'
  BY <1>1 DEF JobTypes, JobTypeOK, RepoTypeOK, ParentsPrecede
<1>3. accepted' \in Snapshot /\ saved' \in Snapshot /\ reviewed' \in Content /\ seen' \in Content
  <2>1. accepted' \in {accepted, saved, job.snapshot} /\ saved' \in {accepted, saved, job.snapshot}
    BY DEF Writing, SafePoint, LeavePause, Run, Load, ResumeJob, ResumeParks, Supervise, Decide, Execute,
       ExecutorReturns, CaptureRun, ExecutorFailed, EnterPublish, SettlePublication, Close, JobCrash, EventFails,
       StopJob, WaitForHuman, Fail, WaitForQuota, DecideAccept, DecideClaude, DecideOtherwise, Finish, Save,
       ProcessGone, Idle
  <2>2. reviewed' \in {reviewed, seen} /\ seen' \in {seen, tree}
    BY DEF Writing, SafePoint, LeavePause, Run, Load, ResumeJob, ResumeParks, Supervise, Decide, Execute,
       ExecutorReturns, CaptureRun, ExecutorFailed, EnterPublish, SettlePublication, Close, JobCrash, EventFails,
       CaptureFails, DecideAccept, ProcessGone, Idle, publicationVars
  <2>3. job.snapshot \in Snapshot /\ accepted \in Snapshot /\ saved \in Snapshot
    BY DEF JobTypes, JobTypeOK, JobState
  <2>4. reviewed \in Content /\ seen \in Content /\ tree \in Content
    BY DEF JobTypes, JobTypeOK, RepoTypeOK
  <2>5. QED
    BY <2>1, <2>2, <2>3, <2>4
<1>4. /\ stop' \in BOOLEAN /\ pause' \in BOOLEAN /\ inputOpen' \in BOOLEAN /\ disturbed' \in BOOLEAN
      /\ outcome' \in Outcomes
      /\ reply' \in Decisions \cup {"None", "Quota", "Error"} /\ writes' \in Nat
  <2>1. /\ stop' \in {stop, FALSE} /\ pause' \in {pause, FALSE} /\ inputOpen' \in {inputOpen, TRUE}
        /\ disturbed' \in {disturbed, TRUE} /\ outcome' \in {outcome, "None"} /\ reply' \in {reply, "None"}
        /\ writes' \in {writes, 0}
    BY DEF Writing, SafePoint, LeavePause, Run, Load, ResumeJob, ResumeParks, Supervise, Decide,
       Execute, ExecutorReturns, CaptureRun, ExecutorFailed, EnterPublish, SettlePublication, Close, JobCrash,
       EventFails, CaptureFails, ProcessGone, Idle, publicationVars
  <2>2. {stop, pause, inputOpen, disturbed} \subseteq BOOLEAN /\ outcome \in Outcomes /\ writes \in Nat
    BY DEF JobTypes, JobTypeOK
  <2>3. reply \in Decisions \cup {"None", "Quota", "Error"}
    BY DEF JobTypes, JobTypeOK
  <2>4. writes' \in Nat /\ reply' \in Decisions \cup {"None", "Quota", "Error"} /\ outcome' \in Outcomes
    BY <2>1, <2>2, <2>3 DEF Outcomes
  <2>5. QED
    BY <2>1, <2>2, <2>4
<1>5. ranAt' \in Nat
  BY DEF JobTypes, JobTypeOK, JobState, Writing, SafePoint, LeavePause, Run, Load, ResumeJob, ResumeParks, Supervise,
     Decide, Execute, ExecutorReturns, CaptureRun, ExecutorFailed, EnterPublish, SettlePublication, Close, JobCrash,
     EventFails, ProcessGone, Idle
<1>6. after' \in DriverSteps \cup {"down"}
  <2>1. CASE ResumeJob
    BY <2>1 DEF ResumeJob, ToSafePoint, Plan, ResumePlan, DriverSteps
  <2>2. CASE ~ResumeJob
    BY <2>2 DEF JobTypes, JobTypeOK, Writing, SafePoint, LeavePause, Run, Load, ResumeParks, Supervise, Decide,
       Execute, ExecutorReturns, CaptureRun, ExecutorFailed, EnterPublish, SettlePublication, Close, JobCrash,
       EventFails, StopJob, WaitForHuman, Fail, WaitForQuota, DecideAccept, DecideClaude, DecideOtherwise, Finish,
       ToSafePoint, ProcessGone, DriverSteps
  <2>3. QED
    BY <2>1, <2>2
<1>7. pc' \in DriverSteps \cup PublisherSteps \cup {"returned", "down"}
  BY DEF JobTypes, JobTypeOK, Writing, SafePoint, LeavePause, Run, Load, ResumeJob, ResumeParks, Supervise, Decide,
     Execute, ExecutorReturns, CaptureRun, ExecutorFailed, EnterPublish, SettlePublication, Close, JobCrash,
     EventFails, StopJob, WaitForHuman, Fail, WaitForQuota, DecideAccept, DecideClaude, DecideOtherwise, Finish,
     ToSafePoint, ProcessGone, DriverSteps, PublisherSteps
<1>8. QED
  BY <1>1, <1>2, <1>3, <1>4, <1>5, <1>6, <1>7, RecordsAreTyped DEF JobTypes, JobTypeOK

\* Every step is a step of the publisher, of an editor, or of the process.
LEMMA JobSteps ==
    ASSUME [JobNext]_allVars
    PROVE  \/ PublisherStep /\ UNCHANGED jobVars
           \/ ExecutorWorks \/ JobOutsideEdit
           \/ SupervisorAnswers \/ ExecutorAnswersError \/ ProviderCancelled \/ PublisherReturns
           \/ RequestPauseOrResume \/ RequestJobStop \/ InputEnds \/ ResumeRefused
           \/ Writing
           \/ UNCHANGED allVars
BY DEF JobNext, DriverStep, Writing

LEMMA NextJobTypes == JobTypes /\ [JobNext]_allVars => JobTypes'
BY JobSteps, PublisherKeepsJobTypes, MovingKeepsJobTypes, EditingKeepsJobTypes, WritingKeepsJobTypes

\* A queued job is well-typed.
LEMMA InitJobTypes == JobInit => JobTypes
<1>1. SUFFICES ASSUME JobInit PROVE JobTypes
  OBVIOUS
<1>2. PICK c \in Content :
          commits = <<[content |-> c, parent |-> 0, by |-> "other"]>> /\ index = c /\ tree = c
  BY <1>1 DEF JobInit
<1>3. Len(commits) = 1 /\ commits[1] = [content |-> c, parent |-> 0, by |-> "other"] /\ DOMAIN commits = {1}
  BY <1>2
<1>4. RepoTypeOK /\ ParentsPrecede
  BY <1>1, <1>2, <1>3 DEF JobInit, RepoTypeOK, ParentsPrecede, Commit, Authors
<1>5. NoSnapshot \in Snapshot
  BY DEF NoSnapshot, Snapshot
<1>6. job \in JobState /\ disk \in JobState
  <2>1. PICK publish \in BOOLEAN : job = [NewJob(publish) EXCEPT !.status = "QUEUED"]
    BY <1>1 DEF JobInit
  <2>2. disk = job
    BY <1>1 DEF JobInit
  <2>3. QED
    BY <1>5, <2>1, <2>2 DEF NewJob, JobState, Statuses, Operations
<1>7. {reviewed, seen} \subseteq Content /\ {accepted, saved} \subseteq Snapshot
  BY <1>1, <1>2, <1>5 DEF JobInit
<1>8. /\ stage \in Stages /\ result \in [sha : Nat, push : PushStatuses] /\ outcome \in Outcomes
      /\ {writes, ranAt} \subseteq Nat
      /\ stop \in BOOLEAN /\ pause \in BOOLEAN /\ inputOpen \in BOOLEAN /\ disturbed \in BOOLEAN
  <2>1. stage = "NONE" /\ result = NoResult /\ outcome = "None" /\ writes = 0 /\ ranAt = 0
    BY <1>1 DEF JobInit
  <2>2. stop = FALSE /\ pause = FALSE /\ inputOpen = TRUE /\ disturbed = FALSE
    BY <1>1 DEF JobInit
  <2>3. result \in [sha : Nat, push : PushStatuses]
    BY <2>1 DEF NoResult, PushStatuses
  <2>4. stage \in Stages /\ outcome \in Outcomes
    BY <2>1 DEF Stages, Outcomes
  <2>5. stop \in BOOLEAN /\ pause \in BOOLEAN /\ inputOpen \in BOOLEAN /\ disturbed \in BOOLEAN
    BY <2>2
  <2>6. QED
    BY <2>1, <2>3, <2>4, <2>5
<1>9. pc = "down" /\ after = "down" /\ reply = "None"
  BY <1>1 DEF JobInit
<1>10. QED
  BY <1>4, <1>6, <1>7, <1>8, <1>9 DEF JobTypes, JobTypeOK

\* The variables of a job keep their types, whatever interrupts it and whoever edits
\* the repository meanwhile.
THEOREM JobsAreTyped == JobSpec => []JobTypeOK
<1>1. JobTypes => JobTypeOK
  BY DEF JobTypes
<1>2. QED
  BY <1>1, InitJobTypes, NextJobTypes, PTL DEF JobSpec

-----------------------------------------------------------------------------
(* The record, also under a concurrent editor.                             *)

\* Nothing drives the job, or nothing more than its last events is written.
Over == {"down", "closing"}

\* Where the process goes, a safe point on the way or not.
Heading == IF pc \in {"safe", "paused"} THEN after ELSE pc

\* What ResumePlan::for_job asks of a record.
Continuable(j, snapshot) ==
    /\ j.pending = "SupervisorReview" => j.iteration > 0
    /\ j.pending = "ExecutorRun" => j.decision = "CLAUDE"
    /\ j.pending = "Publication" => j.publish /\ snapshot # NoSnapshot /\ j.decision = "ACCEPT"
    /\ j.quota \in {"None", j.pending}
    /\ j.status = "WAITING_CLAUDE_QUOTA" => j.pending = "ExecutorRun"
    /\ j.status = "WAITING_OPENAI_QUOTA" => j.pending = "SupervisorReview"
    /\ j.status = "PUBLISHING" => j.pending = "Publication"
    /\ j.status = "QUEUED" => j.pending = "None" /\ j.iteration = 0

\* An acceptance is the one decision that is in memory before it is on disk: all
\* else is on disk as it is in memory.
UnsavedAcceptance == Heading = "enterPublish" /\ job.pending # "Publication"

Mirrored ==
    /\ disk = [job EXCEPT !.decision = disk.decision]
    /\ ~UnsavedAcceptance => disk = job /\ saved = accepted

\* What is pending at each of the process's steps.
Located ==
    /\ pc \in {"safe", "paused"} => after \in DriverSteps \ {"safe", "paused", "resuming", "closing"}
    /\ pc \notin Over => job.status \in Resumable
    /\ pc \notin Over \cup {"resuming"} =>
           job.quota = "None" /\ job.status \in {"RUNNING", "PAUSED", "PUBLISHING"}
    /\ Heading \in {"fresh", "captureRun"} => job.pending = "None"
    /\ Heading \in {"review", "reviewing", "decide"} => job.pending = "SupervisorReview"
    /\ Heading \in {"execute", "executing", "executorFailed"} => job.pending = "ExecutorRun"
    /\ Heading = "enterPublish" => job.publish /\ job.pending \in {"SupervisorReview", "Publication"}
    /\ Heading \in PublisherSteps \cup {"returned", "published"} => job.pending = "Publication"

\* The iteration that is under way has no recorded Executor run.
Counted ==
    /\ ranAt <= job.iteration /\ job.iteration <= MaxIterations
    /\ job.pending \in {"SupervisorReview", "ExecutorRun"} => ranAt < job.iteration

\* A commit of Lya is owed until the job is over.
Owed == (LyasCommits # {} \/ result # NoResult) => job.pending = "Publication" \/ job.status \in Terminal

RecordInv == JobTypes /\ Continuable(job, accepted) /\ Mirrored /\ Located /\ Counted /\ Owed

\* A step that writes nothing only has to go where the record lets it.
LEMMA MovingKeepsRecord ==
    ASSUME RecordInv, JobTypes', Located', UnsavedAcceptance' = UnsavedAcceptance,
           UNCHANGED <<job, disk, saved, accepted, ranAt>>,
           \/ LyasCommits' = LyasCommits /\ result' = result
           \/ job.pending = "Publication"
    PROVE  RecordInv'
<1>1. Continuable(job, accepted)' /\ Counted'
  BY DEF RecordInv, Continuable, Counted
<1>2. Mirrored'
  BY DEF RecordInv, Mirrored
<1>3. Owed'
  BY DEF RecordInv, Owed
<1>4. QED
  BY <1>1, <1>2, <1>3 DEF RecordInv

\* The publisher's steps, and everybody else's.
LEMMA OthersKeepRecord ==
    ASSUME RecordInv,
           \/ PublisherStep /\ UNCHANGED jobVars
           \/ ExecutorWorks \/ JobOutsideEdit
           \/ SupervisorAnswers \/ ExecutorAnswersError \/ ProviderCancelled \/ PublisherReturns
           \/ RequestPauseOrResume \/ RequestJobStop \/ InputEnds \/ ResumeRefused
           \/ UNCHANGED allVars
    PROVE  RecordInv'
<1>1. JobTypes'
  BY PublisherKeepsJobTypes, MovingKeepsJobTypes, EditingKeepsJobTypes DEF RecordInv
<1>2. CASE PublisherStep /\ UNCHANGED jobVars
  <2>1. pc \in PublisherSteps /\ pc' \in PublisherSteps \cup {"returned"} /\ UNCHANGED <<jobVars, accepted>>
    <3>1. UNCHANGED accepted
      BY <1>2 DEF PublisherStep, BeginPublish, VerifySnapshot, CheckHead, BeginCommit, RecordNewCommit,
         RecordCommitted, StageAll, VerifyStaged, BeginPush, CommitStaged, PushAccepted, PushRejected, RecordPushed,
         FinishPush, Enter, RecoverRecordedCommit, RecoverWithoutCommit, ProveCommit, ProveIndex, GitCommandFails,
         UnlessStopped, Refuse, Record, RecordCommit, recordVars
    <3>2. QED
      BY <1>2, <3>1, PublisherStaysInside
  <2>2. Heading \in PublisherSteps /\ Heading' \in PublisherSteps \cup {"returned"}
    BY <2>1 DEF Heading, PublisherSteps
  <2>3. job.pending = "Publication" /\ Located' /\ UnsavedAcceptance' = UnsavedAcceptance
    BY <2>1, <2>2 DEF RecordInv, Located, UnsavedAcceptance, jobVars, Over, PublisherSteps
  <2>4. QED
    BY <1>1, <2>1, <2>3, MovingKeepsRecord DEF jobVars
<1>3. CASE ExecutorWorks \/ JobOutsideEdit \/ RequestPauseOrResume \/ RequestJobStop \/ InputEnds \/ UNCHANGED allVars
  <2>1. LyasCommits' = LyasCommits
    <3>1. CASE Edit
      BY <3>1, EditKeepsLyasCommits DEF RecordInv, JobTypes, JobTypeOK
    <3>2. CASE UNCHANGED repoVars
      BY <3>2 DEF repoVars, LyasCommits
    <3>3. QED
      BY <1>3, <3>1, <3>2 DEF ExecutorWorks, JobOutsideEdit, RequestPauseOrResume, RequestJobStop, InputEnds, vars,
         allVars
  <2>2. UNCHANGED <<job, disk, saved, accepted, ranAt, result, pc, after>>
    BY <1>3 DEF ExecutorWorks, JobOutsideEdit, RequestPauseOrResume, RequestJobStop, InputEnds, vars, allVars, jobVars,
       recordVars
  <2>3. Located' /\ UnsavedAcceptance' = UnsavedAcceptance
    BY <2>2 DEF RecordInv, Located, UnsavedAcceptance, Heading
  <2>4. QED
    BY <1>1, <2>1, <2>2, <2>3, MovingKeepsRecord
<1>4. CASE SupervisorAnswers \/ ExecutorAnswersError \/ ProviderCancelled \/ PublisherReturns \/ ResumeRefused
  <2>1. UNCHANGED <<job, disk, saved, accepted, ranAt, result, commits>>
    BY <1>4 DEF SupervisorAnswers, ExecutorAnswersError, ProviderCancelled, PublisherReturns, ResumeRefused,
       CaptureFails, Idle, publicationVars, repoVars, jobVars
  <2>2. \/ pc = "reviewing" /\ pc' = "safe" /\ after' = "decide"
        \/ pc = "executing" /\ pc' = "safe" /\ after' = "executorFailed"
        \/ pc = "returned" /\ pc' = "safe" /\ after' = "published"
        \/ pc = "resuming" /\ pc' = "closing"
    BY <1>4 DEF SupervisorAnswers, ExecutorAnswersError, ProviderCancelled, PublisherReturns, ResumeRefused,
       ToSafePoint
  <2>3. Located' /\ UnsavedAcceptance' = UnsavedAcceptance
    BY <2>1, <2>2 DEF RecordInv, Located, UnsavedAcceptance, Heading, Over, DriverSteps, PublisherSteps
  <2>4. QED
    BY <1>1, <2>1, <2>3, MovingKeepsRecord DEF LyasCommits
<1>5. QED
  BY <1>2, <1>3, <1>4

\* The job's last write: what is recorded is continued, or over.
LEMMA FinishingKeepsRecord ==
    ASSUME RecordInv, JobTypes', NEW j \in JobState, Finish(j),
           Continuable(j, accepted'),
           j.iteration = job.iteration,
           \/ j.pending = job.pending
           \/ j.pending = "None" /\ j.status \in Terminal,
           job.status \notin Terminal,
           UNCHANGED <<commits, result, ranAt>>
    PROVE  RecordInv'
<1>1. job' = j /\ disk' = j /\ saved' = accepted' /\ pc' = "closing"
  BY DEF Finish, Save
<1>2. Continuable(job, accepted)'
  BY <1>1 DEF Continuable
<1>3. Mirrored'
  BY <1>1 DEF Mirrored, JobState
<1>4. Located'
  BY <1>1 DEF Located, Heading, Over, PublisherSteps
<1>5. Counted'
  BY <1>1 DEF RecordInv, Counted
<1>6. Owed'
  BY <1>1 DEF RecordInv, Owed, LyasCommits
<1>7. QED
  BY <1>2, <1>3, <1>4, <1>5, <1>6 DEF RecordInv

\* A write while the job runs.
LEMMA SavingKeepsRecord ==
    ASSUME RecordInv, JobTypes', NEW j \in JobState, Save(j), Located',
           Continuable(j, accepted'),
           j.iteration = job.iteration \/ (j.iteration = job.iteration + 1 /\ j.iteration <= MaxIterations),
           ranAt' = ranAt,
           j.pending \in {"SupervisorReview", "ExecutorRun"} =>
               ranAt < j.iteration,
           j.pending = job.pending \/ job.pending # "Publication",
           job.status \notin Terminal,
           UNCHANGED <<commits, result>>
    PROVE  RecordInv'
<1>1. job' = j /\ disk' = j /\ saved' = accepted'
  BY DEF Save
<1>2. Continuable(job, accepted)'
  BY <1>1 DEF Continuable
<1>3. Mirrored'
  BY <1>1 DEF Mirrored, JobState
<1>4. Counted'
  BY <1>1 DEF RecordInv, Counted, JobTypes, JobTypeOK, JobState
<1>5. Owed'
  BY <1>1 DEF RecordInv, Owed, LyasCommits
<1>6. QED
  BY <1>2, <1>3, <1>4, <1>5 DEF RecordInv

\* While the job runs it is not over, and nothing of it is left for another
\* process.
LEMMA RunningIsNotOver ==
    ASSUME RecordInv, pc \notin Over
    PROVE  job \in JobState /\ disk \in JobState /\ job.status \in Resumable /\ job.status \notin Terminal
BY DEF RecordInv, JobTypes, JobTypeOK, Located, Resumable, Terminal

\* safe_point: a stop, a pause, or on to the next step.
LEMMA SafePointKeepsRecord ==
    ASSUME RecordInv, JobTypes', SafePoint \/ LeavePause
    PROVE  RecordInv'
<1>1. /\ pc \in {"safe", "paused"} /\ Heading = after
      /\ UNCHANGED <<commits, result, ranAt, accepted>>
  BY DEF SafePoint, LeavePause, Heading, Idle, publicationVars, repoVars
<1>2. job \in JobState /\ job.status \notin Terminal /\ Capture \in Snapshot /\ job.snapshot \in Snapshot
  BY <1>1, RunningIsNotOver, CaptureIsTyped DEF Over, RecordInv, JobTypes, JobTypeOK, JobState
<1>3. CASE StopJob
  <2>1. PICK snapshot \in {Capture, job.snapshot} :
            Finish([job EXCEPT !.status = "STOPPED", !.snapshot = snapshot])
    BY <1>3 DEF StopJob
  <2> DEFINE j == [job EXCEPT !.status = "STOPPED", !.snapshot = snapshot]
  <2>2. /\ j \in JobState /\ j.status = "STOPPED"
        /\ UNCHANGED accepted /\ j.pending = job.pending /\ j.iteration = job.iteration /\ j.decision = job.decision
        /\ j.publish = job.publish /\ j.quota = job.quota
    BY <1>1, <1>2 DEF JobState, Statuses, Terminal
  <2> HIDE DEF j
  <2>3. Continuable(j, accepted')
    BY <2>2 DEF RecordInv, Continuable
  <2>4. QED
    BY <1>1, <1>2, <2>1, <2>2, <2>3, FinishingKeepsRecord DEF j
<1>4. CASE UNCHANGED <<job, disk, saved, after>> /\ pc' = after /\ pc = "safe"
  <2>1. Heading' = Heading
    BY <1>1, <1>4 DEF RecordInv, Located, Heading
  <2>2. Located' /\ UnsavedAcceptance' = UnsavedAcceptance
    BY <1>1, <1>4, <2>1 DEF RecordInv, Located, UnsavedAcceptance, Over, DriverSteps
  <2>3. QED
    BY <1>1, <1>4, <2>2, MovingKeepsRecord DEF LyasCommits
<1>5. CASE Save([job EXCEPT !.status = "PAUSED"]) /\ pc' = "paused" /\ UNCHANGED after
  <2> DEFINE j == [job EXCEPT !.status = "PAUSED"]
  <2>1. /\ j \in JobState /\ j.status = "PAUSED" /\ j.pending = job.pending /\ j.iteration = job.iteration
        /\ j.decision = job.decision /\ j.publish = job.publish /\ j.quota = job.quota
    BY <1>2 DEF JobState, Statuses, Resumable
  <2>2. job' = j /\ Heading' = Heading
    BY <1>1, <1>5 DEF Save, Heading
  <2> HIDE DEF j
  <2>3. Continuable(j, accepted')
    BY <1>1, <2>1 DEF RecordInv, Continuable
  <2>4. Located'
    BY <1>1, <1>5, <2>1, <2>2 DEF RecordInv, Located, Over, Resumable
  <2>5. QED
    BY <1>1, <1>2, <1>5, <2>1, <2>3, <2>4, SavingKeepsRecord DEF j, RecordInv, Counted
<1>6. CASE Save([job EXCEPT !.status = "RUNNING"]) /\ pc' = after /\ UNCHANGED after
  <2> DEFINE j == [job EXCEPT !.status = "RUNNING"]
  <2>1. /\ j \in JobState /\ j.status = "RUNNING" /\ j.pending = job.pending /\ j.iteration = job.iteration
        /\ j.decision = job.decision /\ j.publish = job.publish /\ j.quota = job.quota
    BY <1>2 DEF JobState, Statuses, Resumable
  <2>2. job' = j /\ Heading' = Heading
    BY <1>1, <1>6 DEF Save, Heading, RecordInv, Located
  <2> HIDE DEF j
  <2>3. Continuable(j, accepted')
    BY <1>1, <2>1 DEF RecordInv, Continuable
  <2>4. Located'
    BY <1>1, <1>6, <2>1, <2>2 DEF RecordInv, Located, Over, Resumable, DriverSteps
  <2>5. QED
    BY <1>1, <1>2, <1>6, <2>1, <2>3, <2>4, SavingKeepsRecord DEF j, RecordInv, Counted
<1>7. CASE Finish([job EXCEPT !.status = "PAUSED"])
  <2> DEFINE j == [job EXCEPT !.status = "PAUSED"]
  <2>1. /\ j \in JobState /\ j.status = "PAUSED" /\ j.pending = job.pending /\ j.iteration = job.iteration
        /\ j.decision = job.decision /\ j.publish = job.publish /\ j.quota = job.quota
    BY <1>2 DEF JobState, Statuses, Resumable
  <2> HIDE DEF j
  <2>2. Continuable(j, accepted')
    BY <1>1, <2>1 DEF RecordInv, Continuable
  <2>3. QED
    BY <1>1, <1>2, <1>7, <2>1, <2>2, FinishingKeepsRecord DEF j
<1>8. QED
  BY <1>1, <1>3, <1>4, <1>5, <1>6, <1>7 DEF SafePoint, LeavePause

\* Giving up keeps what was pending.
LEMMA GivingUpKeepsRecord ==
    ASSUME RecordInv, JobTypes', pc \notin Over, Fail \/ WaitForHuman, UNCHANGED <<commits, result, ranAt, accepted>>
    PROVE  RecordInv'
<1>1. job \in JobState /\ job.status \notin Terminal
  BY RunningIsNotOver
<1>2. PICK status \in {"FAILED", "WAITING_HUMAN"} : Finish([job EXCEPT !.status = status])
  BY DEF Fail, WaitForHuman
<1> DEFINE j == [job EXCEPT !.status = status]
<1>3. /\ j \in JobState /\ j.status = status /\ j.pending = job.pending /\ j.iteration = job.iteration
      /\ j.decision = job.decision /\ j.publish = job.publish /\ j.quota = job.quota
  BY <1>1 DEF JobState, Statuses, Terminal
<1> HIDE DEF j
<1>4. Continuable(j, accepted')
  BY <1>3 DEF RecordInv, Continuable
<1>5. QED
  BY <1>1, <1>2, <1>3, <1>4, FinishingKeepsRecord DEF j

\* The first process starts from a queued job, of which nothing is recorded.
LEMMA RunKeepsRecord ==
    ASSUME RecordInv, JobTypes', Run
    PROVE  RecordInv'
<1> DEFINE j == [NewJob(disk.publish) EXCEPT !.snapshot = Capture]
<1>1. /\ j.status = "RUNNING" /\ j.pending = "None" /\ j.iteration = 0 /\ j.quota = "None"
  BY DEF NewJob
<1>2. /\ job' = j /\ disk' = j /\ saved' = accepted' /\ pc' = "safe" /\ after' = "fresh"
      /\ UNCHANGED <<commits, result, ranAt>>
  BY DEF Run, Save, ToSafePoint, publicationVars, repoVars
<1> HIDE DEF j
<1>3. disk = job /\ job.status = "QUEUED" /\ job.pending = "None" /\ job.iteration = 0
  BY DEF RecordInv, Mirrored, UnsavedAcceptance, Heading, Run, Continuable
<1>4. ranAt = 0 /\ MaxIterations \in Nat
  BY <1>3, JobAssumption DEF RecordInv, Counted, JobTypes, JobTypeOK
<1>5. Continuable(job, accepted)' /\ Counted'
  BY <1>1, <1>2, <1>4 DEF Continuable, Counted
<1>6. Mirrored'
  BY <1>2 DEF Mirrored, JobTypes, JobTypeOK, JobState
<1>7. Located'
  BY <1>1, <1>2 DEF Located, Heading, Over, Resumable, DriverSteps, PublisherSteps
<1>8. Owed'
  BY <1>2, <1>3 DEF RecordInv, Owed, LyasCommits, Terminal
<1>9. QED
  BY <1>5, <1>6, <1>7, <1>8 DEF RecordInv

\* Another process only loads a job that is not over.
LEMMA LoadKeepsRecord ==
    ASSUME RecordInv, JobTypes', Load
    PROVE  RecordInv'
<1>1. disk = job /\ saved = accepted
  BY DEF RecordInv, Mirrored, UnsavedAcceptance, Heading, Load
<1>2. /\ UNCHANGED <<job, disk, saved, accepted, ranAt, result, commits>>
      /\ pc = "down" /\ pc' = "resuming" /\ job.status \in Resumable
  BY <1>1 DEF Load, publicationVars, repoVars
<1>3. Located' /\ UnsavedAcceptance' = UnsavedAcceptance
  BY <1>2 DEF Located, UnsavedAcceptance, Heading, Over, PublisherSteps
<1>4. QED
  BY <1>2, <1>3, MovingKeepsRecord DEF LyasCommits

\* ResumePlan::for_job continues with what is pending.
LEMMA PlanIsPending ==
    ASSUME RecordInv, Plan # "Invalid"
    PROVE  /\ Plan = "fresh" => job.pending = "None"
           /\ Plan = "review" => job.pending = "SupervisorReview"
           /\ Plan = "execute" => job.pending = "ExecutorRun"
           /\ Plan = "enterPublish" => job.pending = "Publication" /\ job.publish
           /\ Plan \in {"fresh", "review", "execute", "enterPublish"}
BY DEF RecordInv, JobTypes, JobTypeOK, JobState, Operations, Plan, ResumePlan

\* resume: the job goes on with what is pending, or waits for a human.
LEMMA ResumeKeepsRecord ==
    ASSUME RecordInv, JobTypes', ResumeJob \/ ResumeParks
    PROVE  RecordInv'
<1>1. pc = "resuming" /\ pc \notin Over /\ Heading = "resuming" /\ UNCHANGED <<commits, result, ranAt, accepted>>
  BY DEF ResumeJob, ResumeParks, Over, Heading, Idle, publicationVars, repoVars
<1>2. job \in JobState /\ job.status \notin Terminal
  BY <1>1, RunningIsNotOver
<1>3. CASE ResumeJob
  <2> DEFINE j == [job EXCEPT !.status = "RUNNING", !.quota = "None"]
  <2>1. /\ j \in JobState /\ j.status = "RUNNING" /\ j.pending = job.pending /\ j.iteration = job.iteration
        /\ j.decision = job.decision /\ j.publish = job.publish /\ j.quota = "None"
    BY <1>2 DEF JobState, Statuses, Resumable, Operations
  <2>2. Save(j) /\ job' = j /\ Plan # "Invalid" /\ pc' = "safe" /\ after' = Plan
    BY <1>3 DEF ResumeJob, Save, ToSafePoint
  <2> HIDE DEF j
  <2>3. Continuable(j, accepted')
    BY <1>1, <2>1 DEF RecordInv, Continuable
  <2>4. Located'
    BY <2>1, <2>2, PlanIsPending DEF Located, Heading, Over, Resumable, DriverSteps, PublisherSteps
  <2>5. QED
    BY <1>1, <1>2, <2>1, <2>2, <2>3, <2>4, SavingKeepsRecord DEF RecordInv, Counted
<1>4. CASE ResumeParks
  BY <1>1, <1>4, GivingUpKeepsRecord DEF ResumeParks
<1>5. QED
  BY <1>3, <1>4

\* A review starts a new iteration, or repeats the one of the current iteration.
LEMMA SuperviseKeepsRecord ==
    ASSUME RecordInv, JobTypes', Supervise
    PROVE  RecordInv'
<1>1. pc \in {"fresh", "review"} /\ pc \notin Over /\ Heading = pc /\ UNCHANGED <<commits, result, ranAt, accepted>>
  BY DEF Supervise, Over, Heading, Idle, publicationVars, repoVars
<1>2. job \in JobState /\ job.status \notin Terminal /\ job.iteration \in Nat /\ ranAt \in Nat /\ MaxIterations \in Nat
  BY <1>1, RunningIsNotOver, JobAssumption DEF JobState, RecordInv, JobTypes, JobTypeOK
<1>3. CASE Fail
  BY <1>1, <1>3, GivingUpKeepsRecord
<1>4. CASE ~Fail
  <2> DEFINE n == IF pc = "fresh" THEN job.iteration + 1 ELSE job.iteration
             j == [job EXCEPT !.iteration = n, !.status = "RUNNING", !.pending = "SupervisorReview"]
  <2>1. Save(j) /\ pc' = "reviewing" /\ (pc = "fresh" => job.iteration < MaxIterations)
    BY <1>4 DEF Supervise
  <2>2. n \in Nat /\ n > 0 /\ ranAt < n /\ n <= MaxIterations /\ (n = job.iteration \/ n = job.iteration + 1)
    BY <1>1, <1>2, <2>1 DEF RecordInv, Counted, Located, Continuable
  <2> HIDE DEF n
  <2>3. /\ j \in JobState /\ j.status = "RUNNING" /\ j.pending = "SupervisorReview" /\ j.iteration = n
        /\ j.quota = job.quota
    BY <1>2, <2>2 DEF JobState, Statuses, Resumable, Operations
  <2>4. job.quota = "None" /\ job.pending # "Publication"
    BY <1>1 DEF RecordInv, Located, Over
  <2> HIDE DEF j
  <2>5. Continuable(j, accepted')
    BY <2>2, <2>3, <2>4 DEF Continuable
  <2>6. job' = j
    BY <2>1 DEF Save
  <2>7. Located'
    BY <2>1, <2>3, <2>4, <2>6 DEF Located, Heading, Over, Resumable, PublisherSteps
  <2>8. QED
    BY <1>1, <1>2, <2>1, <2>2, <2>3, <2>4, <2>5, <2>7, SavingKeepsRecord
<1>5. QED
  BY <1>3, <1>4

\* A quota wait keeps what is pending, for the process that retries it.
LEMMA WaitingKeepsRecord ==
    ASSUME RecordInv, JobTypes', pc \notin Over, UNCHANGED <<commits, result, ranAt, accepted>>,
           \/ /\ WaitForQuota("WAITING_OPENAI_QUOTA", "SupervisorReview")
              /\ job.pending = "SupervisorReview"
           \/ /\ WaitForQuota("WAITING_CLAUDE_QUOTA", "ExecutorRun")
              /\ job.pending = "ExecutorRun"
    PROVE  RecordInv'
<1>1. job \in JobState /\ job.status \notin Terminal
  BY RunningIsNotOver
<1>2. PICK status \in {"WAITING_OPENAI_QUOTA", "WAITING_CLAUDE_QUOTA"} :
          /\ WaitForQuota(status, job.pending)
          /\ job.pending = IF status = "WAITING_OPENAI_QUOTA" THEN "SupervisorReview" ELSE "ExecutorRun"
  OBVIOUS
<1> DEFINE j == [job EXCEPT !.status = status, !.pending = job.pending, !.quota = job.pending]
<1>3. /\ j \in JobState /\ j.status = status /\ j.pending = job.pending /\ j.iteration = job.iteration
      /\ j.decision = job.decision /\ j.publish = job.publish /\ j.quota = job.pending
  BY <1>1 DEF JobState, Statuses, Resumable
<1>4. Finish(j)
  BY <1>2 DEF WaitForQuota
<1> HIDE DEF j
<1>5. Continuable(j, accepted')
  BY <1>2, <1>3 DEF RecordInv, Continuable
<1>6. QED
  BY <1>1, <1>3, <1>4, <1>5, FinishingKeepsRecord

\* The Supervisor's answer is recorded; an acceptance that is to be published is
\* in memory only.
LEMMA DecideKeepsRecord ==
    ASSUME RecordInv, JobTypes', Decide
    PROVE  RecordInv'
<1>1. /\ pc = "decide" /\ pc \notin Over /\ Heading = "decide" /\ UNCHANGED <<commits, result, ranAt>>
      /\ job.pending = "SupervisorReview" /\ job.quota = "None" /\ job.status \in {"RUNNING", "PAUSED", "PUBLISHING"}
  BY DEF Decide, Over, Heading, repoVars, RecordInv, Located
<1>2. job \in JobState /\ disk \in JobState /\ job.status \notin Terminal /\ job.iteration > 0
  BY <1>1, RunningIsNotOver DEF RecordInv, Continuable
<1>3. CASE DecideAccept /\ ~job.publish
  <2> DEFINE j == [job EXCEPT !.decision = "ACCEPT", !.status = "ACCEPTED", !.pending = "None"]
  <2>1. /\ j \in JobState /\ j.status = "ACCEPTED" /\ j.pending = "None" /\ j.iteration = job.iteration
        /\ j.quota = "None"
    BY <1>1, <1>2 DEF JobState, Statuses, Terminal, Operations, Decisions
  <2>2. Finish(j)
    BY <1>3 DEF DecideAccept
  <2> HIDE DEF j
  <2>3. Continuable(j, accepted')
    BY <2>1 DEF Continuable
  <2>4. j.status \in Terminal
    BY <2>1 DEF Terminal
  <2>5. QED
    BY <1>1, <1>2, <2>1, <2>2, <2>3, <2>4, FinishingKeepsRecord
<1>4. CASE DecideAccept /\ job.publish
  <2>1. job' = [job EXCEPT !.decision = "ACCEPT"] /\ UNCHANGED <<disk, saved>> /\ pc' = "safe" /\ after' = "enterPublish"
    BY <1>4 DEF DecideAccept, ToSafePoint, Finish
  <2>2. /\ job'.status = job.status /\ job'.pending = job.pending /\ job'.iteration = job.iteration
        /\ job'.publish = job.publish /\ job'.quota = job.quota
    BY <1>2, <2>1 DEF JobState
  <2>3. disk = job /\ saved = accepted
    BY <1>1 DEF RecordInv, Mirrored, UnsavedAcceptance
  <2>4. Heading' = "enterPublish"
    BY <2>1 DEF Heading
  <2>5. Mirrored'
    <3>1. disk' = [job' EXCEPT !.decision = disk'.decision]
      BY <1>2, <2>1, <2>3 DEF JobState
    <3>2. UnsavedAcceptance'
      BY <1>1, <2>2, <2>4 DEF UnsavedAcceptance
    <3>3. QED
      BY <3>1, <3>2 DEF Mirrored
  <2>6. Located'
    BY <1>1, <1>4, <2>1, <2>2, <2>4 DEF Located, Over, Resumable, DriverSteps, PublisherSteps
  <2>7. Continuable(job, accepted)' /\ Counted' /\ Owed'
    BY <1>1, <1>2, <2>2 DEF RecordInv, Continuable, Counted, Owed, LyasCommits
  <2>8. QED
    BY <2>5, <2>6, <2>7 DEF RecordInv
<1>5. CASE DecideClaude /\ UNCHANGED accepted
  <2> DEFINE j == [job EXCEPT !.decision = "CLAUDE", !.pending = "ExecutorRun"]
  <2>1. /\ j \in JobState /\ j.status = job.status /\ j.pending = "ExecutorRun" /\ j.iteration = job.iteration
        /\ j.quota = "None" /\ j.decision = "CLAUDE"
    BY <1>1, <1>2 DEF JobState, Operations, Decisions
  <2>2. Save(j) /\ job' = j /\ pc' = "safe" /\ after' = "execute"
    BY <1>5 DEF DecideClaude, Save, ToSafePoint
  <2> HIDE DEF j
  <2>3. job.status # "PUBLISHING"
    BY <1>1 DEF RecordInv, Continuable
  <2>4. Continuable(j, accepted')
    BY <1>1, <2>1, <2>3 DEF Continuable
  <2>5. Located'
    BY <1>1, <2>1, <2>2 DEF Located, Heading, Over, Resumable, DriverSteps, PublisherSteps
  <2>6. ranAt < j.iteration
    BY <1>1, <2>1 DEF RecordInv, Counted
  <2>7. QED
    BY <1>1, <1>2, <2>1, <2>2, <2>4, <2>5, <2>6, SavingKeepsRecord
<1>6. CASE DecideOtherwise /\ UNCHANGED accepted
  <2>1. CASE reply \in {"HUMAN", "STOP"}
    <3>1. PICK status \in {"WAITING_HUMAN", "STOPPED"} :
              Finish([job EXCEPT !.decision = reply, !.status = status, !.pending = "None"])
      BY <1>6, <2>1 DEF DecideOtherwise
    <3> DEFINE j == [job EXCEPT !.decision = reply, !.status = status, !.pending = "None"]
    <3>2. /\ j \in JobState /\ j.status = status /\ j.pending = "None" /\ j.iteration = job.iteration
          /\ j.quota = "None"
      BY <1>1, <1>2, <2>1 DEF JobState, Statuses, Terminal, Operations, Decisions
    <3> HIDE DEF j
    <3>3. Continuable(j, accepted') /\ j.status \in Terminal
      BY <3>2 DEF Continuable, Terminal
    <3>4. Finish(j)
      BY <3>1 DEF j
    <3>5. QED
      BY <1>1, <1>2, <3>2, <3>3, <3>4, FinishingKeepsRecord
  <2>2. CASE reply \notin {"HUMAN", "STOP"}
    BY <1>1, <1>6, <2>2, WaitingKeepsRecord, GivingUpKeepsRecord DEF DecideOtherwise
  <2>3. QED
    BY <2>1, <2>2
<1>7. QED
  BY <1>3, <1>4, <1>5, <1>6 DEF Decide, DecideAccept

\* The Executor's run is started, and its answer recorded as complete before
\* anything else happens.
LEMMA ExecuteKeepsRecord ==
    ASSUME RecordInv, JobTypes', Execute \/ ExecutorReturns \/ ExecutorFailed
    PROVE  RecordInv'
<1>1. /\ pc \in {"execute", "executing", "executorFailed"} /\ pc \notin Over /\ Heading = pc
      /\ UNCHANGED <<commits, result, accepted>>
  BY DEF Execute, ExecutorReturns, ExecutorFailed, Over, Heading, Idle, publicationVars, repoVars
<1>2. job \in JobState /\ job.status \notin Terminal
  BY <1>1, RunningIsNotOver
<1>3. /\ job.pending = "ExecutorRun" /\ job.quota = "None" /\ job.status \in {"RUNNING", "PAUSED"}
  BY <1>1 DEF RecordInv, Located, Over, Continuable
<1>4. CASE Execute /\ ~Fail
  <2>1. UNCHANGED <<job, disk, saved, ranAt>> /\ pc' = "safe" /\ after' = "executing"
    BY <1>4 DEF Execute, ToSafePoint, Idle
  <2>2. Located' /\ UnsavedAcceptance' = UnsavedAcceptance
    BY <1>1, <1>3, <2>1 DEF Located, UnsavedAcceptance, Heading, Over, Resumable, DriverSteps, PublisherSteps
  <2>3. QED
    BY <1>1, <2>1, <2>2, MovingKeepsRecord DEF LyasCommits
<1>5. CASE (Execute /\ Fail) \/ ExecutorFailed
  <2>1. UNCHANGED ranAt
    BY <1>5 DEF Execute, ExecutorFailed, Idle
  <2>2. QED
    BY <1>1, <1>3, <1>5, <2>1, WaitingKeepsRecord, GivingUpKeepsRecord DEF ExecutorFailed
<1>6. CASE ExecutorReturns
  <2>1. PICK session \in BOOLEAN : Save([job EXCEPT !.session = @ \/ session, !.report = TRUE, !.pending = "None"])
    BY <1>6 DEF ExecutorReturns
  <2> DEFINE j == [job EXCEPT !.session = @ \/ session, !.report = TRUE, !.pending = "None"]
  <2>2. j.status = job.status /\ j.pending = "None" /\ j.iteration = job.iteration /\ j.quota = "None"
    BY <1>2, <1>3 DEF JobState
  <2>3. job' = j /\ disk' = j /\ saved' = accepted' /\ pc' = "captureRun" /\ ranAt' = job.iteration
    BY <1>6, <2>1 DEF ExecutorReturns, Save
  <2> HIDE DEF j
  <2>4. Continuable(job, accepted)'
    BY <1>3, <2>2, <2>3 DEF Continuable
  <2>5. Counted'
    BY <1>2, <2>2, <2>3 DEF RecordInv, Counted, JobState
  <2>6. Mirrored'
    BY <2>3 DEF Mirrored, JobTypes, JobTypeOK, JobState
  <2>7. Located'
    BY <1>3, <2>2, <2>3 DEF Located, Heading, Over, Resumable, PublisherSteps
  <2>8. Owed'
    BY <1>1, <1>2, <1>3 DEF RecordInv, Owed, LyasCommits
  <2>9. QED
    BY <2>4, <2>5, <2>6, <2>7, <2>8 DEF RecordInv
<1>7. QED
  BY <1>4, <1>5, <1>6

\* The capture of what the Executor left.
LEMMA CaptureKeepsRecord ==
    ASSUME RecordInv, JobTypes', CaptureRun
    PROVE  RecordInv'
<1>1. /\ pc = "captureRun" /\ pc \notin Over /\ Heading = pc /\ UNCHANGED <<commits, result, accepted, ranAt>>
  BY DEF CaptureRun, CaptureFails, Over, Heading, publicationVars, repoVars
<1>2. job \in JobState /\ job.status \notin Terminal /\ Capture \in Snapshot
  BY <1>1, RunningIsNotOver, CaptureIsTyped DEF RecordInv, JobTypes, JobTypeOK
<1>3. CASE Fail
  BY <1>1, <1>3, GivingUpKeepsRecord
<1>4. CASE ~Fail
  <2> DEFINE j == [job EXCEPT !.snapshot = Capture]
  <2>1. /\ j \in JobState /\ j.status = job.status /\ j.pending = job.pending /\ j.iteration = job.iteration
        /\ j.decision = job.decision /\ j.publish = job.publish /\ j.quota = job.quota
    BY <1>2 DEF JobState
  <2>2. Save(j) /\ job' = j /\ pc' = "safe" /\ after' = "fresh"
    BY <1>4 DEF CaptureRun, Save, ToSafePoint
  <2> HIDE DEF j
  <2>3. Continuable(j, accepted')
    BY <1>1, <2>1 DEF RecordInv, Continuable
  <2>4. Located'
    BY <1>1, <2>1, <2>2 DEF RecordInv, Located, Heading, Over, Resumable, DriverSteps, PublisherSteps
  <2>5. QED
    BY <1>1, <1>2, <2>1, <2>2, <2>3, <2>4, SavingKeepsRecord DEF RecordInv, Counted
<1>5. QED
  BY <1>3, <1>4

\* The publication is entered with one write, and settled with another.
LEMMA PublishKeepsRecord ==
    ASSUME RecordInv, JobTypes', EnterPublish \/ SettlePublication
    PROVE  RecordInv'
<1>1. /\ pc \in {"enterPublish", "published"} /\ pc \notin Over /\ Heading = pc
      /\ UNCHANGED <<commits, result, accepted, ranAt>>
  BY DEF EnterPublish, SettlePublication, Over, Heading, Idle, publicationVars, repoVars
<1>2. job \in JobState /\ job.status \notin Terminal /\ Capture \in Snapshot
  BY <1>1, RunningIsNotOver, CaptureIsTyped DEF RecordInv, JobTypes, JobTypeOK
<1>3. CASE Fail \/ WaitForHuman
  BY <1>1, <1>3, GivingUpKeepsRecord
<1>4. CASE EnterPublish /\ ~WaitForHuman
  <2> DEFINE j == [job EXCEPT !.status = "PUBLISHING", !.pending = "Publication"]
  <2>1. /\ j \in JobState /\ j.status = "PUBLISHING" /\ j.pending = "Publication" /\ j.iteration = job.iteration
        /\ j.decision = job.decision /\ j.publish = job.publish /\ j.quota = job.quota
    BY <1>2 DEF JobState, Statuses, Resumable, Operations
  <2>2. Save(j) /\ job' = j /\ pc' = "enter" /\ accepted # NoSnapshot /\ job.decision = "ACCEPT" /\ Heading = "enterPublish"
    BY <1>1, <1>4 DEF EnterPublish, Save
  <2>3. job.publish /\ job.quota = "None"
    BY <1>1, <2>2 DEF RecordInv, Located, Over
  <2> HIDE DEF j
  <2>4. Continuable(j, accepted')
    BY <1>1, <2>1, <2>2, <2>3 DEF Continuable
  <2>5. Located'
    BY <2>1, <2>2, <2>3 DEF Located, Heading, Over, Resumable, PublisherSteps
  <2>6. job' = j /\ disk' = j /\ saved' = accepted'
    BY <2>2 DEF Save
  <2>7. Mirrored'
    BY <2>6 DEF Mirrored, JobTypes, JobTypeOK, JobState
  <2>8. Counted' /\ Owed'
    BY <1>1, <2>1, <2>6 DEF RecordInv, Counted, Owed
  <2>9. QED
    BY <1>1, <2>4, <2>5, <2>6, <2>7, <2>8 DEF RecordInv, Continuable
<1>5. CASE Finish([job EXCEPT !.status = "PUBLISHED", !.pending = "None", !.snapshot = Capture]) /\ pc = "published"
  <2> DEFINE j == [job EXCEPT !.status = "PUBLISHED", !.pending = "None", !.snapshot = Capture]
  <2>1. /\ j \in JobState /\ j.status = "PUBLISHED" /\ j.pending = "None" /\ j.iteration = job.iteration
        /\ j.quota = job.quota
    BY <1>2 DEF JobState, Statuses, Terminal, Operations
  <2> HIDE DEF j
  <2>2. job.quota = "None"
    BY <1>1 DEF RecordInv, Located, Over
  <2>3. Continuable(j, accepted') /\ j.status \in Terminal
    BY <2>1, <2>2 DEF Continuable, Terminal
  <2>4. Finish(j)
    BY <1>5 DEF j
  <2>5. QED
    BY <1>1, <1>2, <2>1, <2>3, <2>4, FinishingKeepsRecord
<1>6. QED
  BY <1>3, <1>4, <1>5 DEF EnterPublish, SettlePublication

\* What a process leaves behind is the record.
LEMMA EndingKeepsRecord ==
    ASSUME RecordInv, JobTypes', Close \/ JobCrash \/ EventFails
    PROVE  RecordInv'
<1>1. /\ job' = disk' /\ accepted' = saved' /\ pc' = "down" /\ after' = "down"
      /\ UNCHANGED <<commits, result, ranAt>>
  BY DEF Close, JobCrash, EventFails, ProcessGone, repoVars
<1>2. job \in JobState /\ disk \in JobState /\ disk' \in JobState
  BY DEF RecordInv, JobTypes, JobTypeOK
<1>3. /\ disk'.pending = job.pending /\ disk'.iteration = job.iteration /\ disk'.publish = job.publish
      /\ disk'.quota = job.quota
      /\ disk'.status \in {job.status, "FAILED"}
  <2>1. CASE EventFails
    BY <1>2, <2>1 DEF EventFails, JobState
  <2>2. CASE Close \/ JobCrash
    <3>1. disk' = disk /\ disk = [job EXCEPT !.decision = disk.decision]
      BY <2>2 DEF Close, JobCrash, RecordInv, Mirrored
    <3>2. QED
      BY <1>2, <3>1 DEF JobState
  <2>3. QED
    BY <2>1, <2>2
<1>4. Continuable(disk', saved')
  <2>1. CASE job.pending = "Publication" \/ EventFails \/ ~UnsavedAcceptance
    <3>1. disk'.decision = job.decision /\ saved' = accepted
      BY <1>2, <2>1 DEF Close, JobCrash, EventFails, RecordInv, Mirrored, UnsavedAcceptance, JobState
    <3>2. QED
      BY <1>3, <3>1 DEF RecordInv, Continuable
  <2>2. CASE UnsavedAcceptance
    <3>1. job.pending = "SupervisorReview"
      BY <2>2 DEF UnsavedAcceptance, RecordInv, Located
    <3>2. QED
      BY <1>3, <3>1 DEF RecordInv, Continuable
  <2>3. QED
    BY <2>1, <2>2
<1>5. Mirrored'
  BY <1>1, <1>2 DEF Mirrored, JobState
<1>6. Located'
  BY <1>1 DEF Located, Heading, Over, PublisherSteps
<1>7. Counted' /\ Owed'
  BY <1>1, <1>3 DEF RecordInv, Counted, Owed, LyasCommits, Terminal
<1>8. QED
  BY <1>1, <1>4, <1>5, <1>6, <1>7 DEF RecordInv

LEMMA NextRecordInv == RecordInv /\ [JobNext]_allVars => RecordInv'
<1>1. SUFFICES ASSUME RecordInv, [JobNext]_allVars PROVE RecordInv'
  OBVIOUS
<1>2. JobTypes'
  BY <1>1, NextJobTypes DEF RecordInv
<1>3. CASE Writing
  BY <1>1, <1>2, <1>3, SafePointKeepsRecord, RunKeepsRecord, LoadKeepsRecord, ResumeKeepsRecord, SuperviseKeepsRecord,
     DecideKeepsRecord, ExecuteKeepsRecord, CaptureKeepsRecord, PublishKeepsRecord, EndingKeepsRecord DEF Writing
<1>4. QED
  BY <1>1, <1>3, JobSteps, OthersKeepRecord

\* Nothing is recorded of a queued job.
LEMMA InitRecordInv == JobInit => RecordInv
<1>1. SUFFICES ASSUME JobInit PROVE RecordInv
  OBVIOUS
<1>2. PICK publish \in BOOLEAN : job = [NewJob(publish) EXCEPT !.status = "QUEUED"]
  BY <1>1 DEF JobInit
<1>3. job.status = "QUEUED" /\ job.pending = "None" /\ job.iteration = 0 /\ job.quota = "None"
  BY <1>2 DEF NewJob
<1>4. JobTypes /\ disk = job /\ saved = accepted /\ pc = "down" /\ ranAt = 0 /\ result = NoResult
  BY <1>1, InitJobTypes DEF JobInit
<1>5. LyasCommits = {}
  <2>1. PICK c \in Content : commits = <<[content |-> c, parent |-> 0, by |-> "other"]>>
    BY <1>1 DEF JobInit
  <2>2. DOMAIN commits = {1} /\ commits[1].by = "other"
    BY <2>1
  <2>3. QED
    BY <2>2 DEF LyasCommits
<1>6. Continuable(job, accepted) /\ Counted /\ Owed
  BY <1>3, <1>4, <1>5, JobAssumption DEF Continuable, Counted, Owed
<1>7. Mirrored
  BY <1>4 DEF Mirrored, JobTypes, JobTypeOK, JobState
<1>8. Located
  BY <1>4 DEF Located, Heading, Over, PublisherSteps
<1>9. QED
  BY <1>4, <1>6, <1>7, <1>8 DEF RecordInv

\* Where disk and memory differ, only in the decision, they agree on what the
\* properties of the record speak of.
LEMMA DiskIsAsInMemory ==
    ASSUME RecordInv
    PROVE  /\ disk.status = job.status /\ disk.pending = job.pending /\ disk.iteration = job.iteration
           /\ Continuable(disk, saved)
<1>1. job \in JobState /\ disk = [job EXCEPT !.decision = disk.decision]
  BY DEF RecordInv, JobTypes, JobTypeOK, Mirrored
<1>2. /\ disk.status = job.status /\ disk.pending = job.pending /\ disk.iteration = job.iteration
      /\ disk.publish = job.publish /\ disk.quota = job.quota
  BY <1>1 DEF JobState
<1>3. CASE UnsavedAcceptance
  <2>1. job.pending = "SupervisorReview"
    BY <1>3 DEF UnsavedAcceptance, RecordInv, Located
  <2>2. QED
    BY <1>2, <2>1 DEF RecordInv, Continuable
<1>4. CASE ~UnsavedAcceptance
  BY <1>2, <1>4 DEF RecordInv, Mirrored
<1>5. QED
  BY <1>2, <1>3, <1>4

\* A record that is continuable has a plan, unless it is a correction without a
\* session.
LEMMA ContinuableIsPlannable ==
    ASSUME RecordInv
    PROVE  EveryRecordIsPlannable
<1>1. SUFFICES ASSUME disk.status \in Resumable,
                      ~(disk.pending = "ExecutorRun" /\ disk.report /\ ~disk.session)
               PROVE  ResumePlan(disk, saved) # "Invalid"
  BY DEF EveryRecordIsPlannable
<1>2. Continuable(disk, saved) /\ disk \in JobState
  BY DiskIsAsInMemory DEF RecordInv, JobTypes, JobTypeOK
<1>3. disk.pending \in Operations
  BY <1>2 DEF JobState
<1>4. CASE disk.pending = "None"
  BY <1>2, <1>4 DEF ResumePlan, Continuable
<1>5. CASE disk.pending = "SupervisorReview"
  BY <1>2, <1>5 DEF ResumePlan, Continuable
<1>6. CASE disk.pending = "ExecutorRun"
  BY <1>1, <1>2, <1>6 DEF ResumePlan, Continuable, JobState
<1>7. CASE disk.pending = "Publication"
  BY <1>2, <1>7 DEF ResumePlan, Continuable
<1>8. QED
  BY <1>3, <1>4, <1>5, <1>6, <1>7 DEF Operations

\* Every record a crash, a pause or a quota leaves behind has a plan, and no
\* interruption makes a job count more iterations, or an iteration more recorded
\* Executor runs, than it may.
THEOREM RecordsAreSound == JobSpec => []RecordIsSound
<1>1. RecordInv => RecordIsSound
  <2>1. SUFFICES ASSUME RecordInv PROVE RecordIsSound
    OBVIOUS
  <2>2. IterationsAreBounded
    BY <2>1, DiskIsAsInMemory DEF RecordInv, Counted, IterationsAreBounded
  <2>3. QED
    BY <2>1, <2>2, ContinuableIsPlannable DEF RecordIsSound, RecordInv, JobTypes
<1>2. QED
  BY <1>1, InitRecordInv, NextRecordInv, PTL DEF JobSpec

\* A commit that is recorded is owed for as long as the job can be resumed.
THEOREM CommitsAreOwed == JobSpec => []RecordedCommitIsOwed
<1>1. RecordInv => RecordedCommitIsOwed
  BY DiskIsAsInMemory DEF RecordInv, Owed, RecordedCommitIsOwed, Resumable, Terminal
<1>2. QED
  BY <1>1, InitRecordInv, NextRecordInv, PTL DEF JobSpec

\* The Executor's process is only started from a safe point.
LEMMA OnlySafePointsExecute ==
    ASSUME RecordInv, [JobNext]_allVars, pc # "executing", pc' = "executing"
    PROVE  Heading = "executing"
<1>1. CASE SafePoint \/ LeavePause
  BY <1>1 DEF SafePoint, LeavePause, StopJob, Finish, Heading
<1>2. CASE ~(SafePoint \/ LeavePause) /\ Writing
  BY <1>2 DEF Writing, Run, Load, ResumeJob, ResumeParks, Supervise, Decide, Execute, ExecutorReturns, CaptureRun,
     ExecutorFailed, EnterPublish, SettlePublication, Close, JobCrash, EventFails, WaitForHuman, Fail, WaitForQuota,
     DecideAccept, DecideClaude, DecideOtherwise, Finish, ToSafePoint, ProcessGone
<1>3. CASE PublisherStep
  BY <1>3, PublisherStaysInside DEF PublisherSteps
<1>4. CASE ~Writing /\ ~PublisherStep
  BY <1>4, JobSteps DEF ExecutorWorks, JobOutsideEdit, SupervisorAnswers, ExecutorAnswersError, ProviderCancelled,
     PublisherReturns, RequestPauseOrResume, RequestJobStop, InputEnds, ResumeRefused, ToSafePoint, vars, allVars
<1>5. QED
  BY <1>1, <1>2, <1>3, <1>4

\* An Executor run that is recorded as complete is never started again, through
\* whatever crashes and resumes: a run belongs to an iteration without one.
THEOREM RunsAreNotReplayed == JobSpec => NoRunIsReplayed
<1>1. RecordInv /\ [JobNext]_allVars =>
          [pc # "executing" /\ pc' = "executing" => job.iteration > ranAt]_allVars
  <2>1. SUFFICES ASSUME RecordInv, [JobNext]_allVars, pc # "executing", pc' = "executing"
                 PROVE  job.iteration > ranAt
    OBVIOUS
  <2>2. job.pending = "ExecutorRun"
    BY <2>1, OnlySafePointsExecute DEF RecordInv, Located
  <2>3. ranAt \in Nat /\ job.iteration \in Nat
    BY <2>1 DEF RecordInv, JobTypes, JobTypeOK, JobState
  <2>4. QED
    BY <2>1, <2>2, <2>3 DEF RecordInv, Counted
<1>2. QED
  BY <1>1, InitRecordInv, NextRecordInv, PTL DEF JobSpec, NoRunIsReplayed

\* Nothing but an event that could not be written rewrites the record of a job
\* that is over, and then as FAILED.
THEOREM OutcomesAreFinal == JobSpec => OutcomeIsFinal
<1>1. RecordInv /\ [JobNext]_allVars =>
          [disk.status \in Terminal /\ disk' # disk => EventFaults /\ disk'.status = "FAILED"]_allVars
  <2>1. SUFFICES ASSUME RecordInv, [JobNext]_allVars, disk.status \in Terminal, disk' # disk
                 PROVE  EventFaults /\ disk'.status = "FAILED"
    OBVIOUS
  <2>2. pc \in Over /\ disk.status \notin Resumable /\ disk.status # "QUEUED"
    BY <2>1, DiskIsAsInMemory, RunningIsNotOver DEF Resumable, Terminal
  <2>3. EventFails
    <3>1. Writing
      BY <2>1, JobSteps DEF ExecutorWorks, JobOutsideEdit, SupervisorAnswers, ExecutorAnswersError,
         ProviderCancelled, PublisherReturns, RequestPauseOrResume, RequestJobStop, InputEnds, ResumeRefused, jobVars,
         allVars
    <3>2. QED
      BY <2>1, <2>2, <3>1 DEF Over, Writing, SafePoint, LeavePause, Run, Load, ResumeJob, ResumeParks, Supervise,
         Decide, Execute, ExecutorReturns, CaptureRun, ExecutorFailed, EnterPublish, SettlePublication, Close,
         JobCrash, Running
  <2>4. QED
    BY <2>1, <2>3 DEF EventFails, RecordInv, JobTypes, JobTypeOK, JobState
<1>2. QED
  BY <1>1, InitRecordInv, NextRecordInv, PTL DEF JobSpec, OutcomeIsFinal

-----------------------------------------------------------------------------
(* What is published, as long as nobody edits under a running publication. *)

\* A commit is on the way, or due: it is the accepted one.
Publishing == job.pending = "Publication" \/ Heading = "enterPublish"

\* Outside of a publication, the record shows the last capture.
SnapshotIsSeen ==
    pc \notin Over \cup {"resuming"} /\ job.pending # "Publication" =>
        \E b \in Content : job.snapshot.diff = Diff(b, seen)

\* The publisher's success is a recorded push.
SuccessIsPushed ==
    /\ outcome = "Ok" => result.push = "PUSHED"
    /\ pc = "pushed" => result.push = "PUSHED"
    /\ job.status = "PUBLISHED" => result.push = "PUSHED"

\* What a publication has proven and recorded, through the whole job.
ReviewInv ==
    /\ Tracked
    /\ NothingRecorded
    /\ Proven
    /\ OnlyReviewedIsCommitted
    /\ OpaqueIsNeverCommitted
    /\ Publishing => AcceptedIsReviewed
    /\ SnapshotIsSeen
    /\ SuccessIsPushed

\* The publisher's steps: what module Publication's invariants say of them holds
\* inside a job.
LEMMA PublisherKeepsReview ==
    ASSUME ~ConcurrentEditor, RecordInv, ReviewInv, PublisherStep, UNCHANGED jobVars
    PROVE  ReviewInv'
<1>1. pc \in PublisherSteps /\ pc' \in PublisherSteps \cup {"returned"} /\ TypeInv /\ [Next]_vars
  BY PublisherStaysInside, PublicationTypes DEF RecordInv, Next
<1>2. job.pending = "Publication" /\ job' = job /\ job.status \in Resumable
  <2>1. Heading \in PublisherSteps /\ pc \notin Over
    BY <1>1 DEF Heading, PublisherSteps, Over
  <2>2. QED
    BY <2>1 DEF RecordInv, Located, jobVars
<1>3. Reviewed /\ Tracked /\ NothingRecorded
  BY <1>2 DEF ReviewInv, Reviewed, Publishing
<1>4. Reviewed' /\ Tracked' /\ NothingRecorded'
  BY <1>1, <1>3, NextReviewed, NextTracked, NextNothingRecorded
<1>5. SnapshotIsSeen'
  BY <1>2 DEF SnapshotIsSeen
<1>6. SuccessIsPushed'
  <2>1. job'.status # "PUBLISHED"
    BY <1>2 DEF Resumable
  <2>2. CASE RecordPushed
    BY <2>1, <2>2 DEF SuccessIsPushed, RecordPushed, RecordCommit
  <2>3. CASE FinishPush
    BY <2>1, <2>3 DEF ReviewInv, SuccessIsPushed, FinishPush, Record, Return
  <2>4. CASE RecordNewCommit \/ PushRejected
    <3>1. result.push # "PUSHED"
      BY <2>4 DEF ReviewInv, NothingRecorded, Uncommitted, NoResult, Tracked, Recorded, RecordNewCommit, PushRejected
    <3>2. outcome' # "Ok" /\ pc' # "pushed"
      BY <2>4, <3>1 DEF ReviewInv, SuccessIsPushed, RecordNewCommit, PushRejected, Goto, Return
    <3>3. QED
      BY <2>1, <3>2 DEF SuccessIsPushed
  <2>5. CASE Enter
    BY <2>1, <2>5 DEF ReviewInv, SuccessIsPushed, Enter, RecoverRecordedCommit, RecoverWithoutCommit, Refuse, Record,
       Return, Goto, recordVars
  <2>6. CASE ~(RecordPushed \/ FinishPush \/ RecordNewCommit \/ PushRejected \/ Enter)
    <3>1. result' = result /\ pc' # "pushed" /\ (outcome' = outcome \/ outcome' # "Ok")
      BY <2>6 DEF PublisherStep, BeginPublish, VerifySnapshot, CheckHead, BeginCommit,
         RecordCommitted, StageAll, VerifyStaged, BeginPush, CommitStaged, PushAccepted, ProveCommit, ProveIndex,
         GitCommandFails, VerifyBeforeStaging, UnlessStopped, Refuse, Record, Return, Goto, recordVars
    <3>2. QED
      BY <2>1, <3>1 DEF ReviewInv, SuccessIsPushed
  <2>7. QED
    BY <2>2, <2>3, <2>4, <2>5, <2>6
<1>7. QED
  BY <1>4, <1>5, <1>6 DEF ReviewInv, Reviewed

\* The Executor and everybody else: their commits are not Lya's, and none of them
\* is made while the publisher runs.
LEMMA EditingKeepsReview ==
    ASSUME ~ConcurrentEditor, RecordInv, ReviewInv, ExecutorWorks \/ JobOutsideEdit
    PROVE  ReviewInv'
<1>1. pc \in {"down", "executing"} /\ UNCHANGED <<pc, after, job, seen, accepted, reviewed, result, outcome, remote>>
  BY DEF ExecutorWorks, JobOutsideEdit, Edit, EditTree, GitAddAll, GitCommit, ResetHead, jobVars, recordVars
<1>2. RepoTypeOK /\ Edit
  BY DEF RecordInv, JobTypes, JobTypeOK, ExecutorWorks, JobOutsideEdit
<1>3. LyasCommits' = LyasCommits /\ \A c \in LyasCommits : commits'[c] = commits[c]
  BY <1>2, EditKeepsLyasCommits, EditAddsOthers DEF LyasCommits
<1>4. Tracked' /\ NothingRecorded' /\ Proven'
  BY <1>1, <1>3 DEF ReviewInv, Tracked, Recorded, NothingRecorded, Uncommitted, Proven
<1>5. OnlyReviewedIsCommitted' /\ OpaqueIsNeverCommitted'
  BY <1>1, <1>3 DEF ReviewInv, OnlyReviewedIsCommitted, OpaqueIsNeverCommitted
<1>6. (Publishing => AcceptedIsReviewed)'
  BY <1>1 DEF ReviewInv, Publishing, Heading, AcceptedIsReviewed
<1>7. SnapshotIsSeen' /\ SuccessIsPushed'
  BY <1>1 DEF ReviewInv, SnapshotIsSeen, SuccessIsPushed
<1>8. QED
  BY <1>4, <1>5, <1>6, <1>7 DEF ReviewInv

\* A step outside the publisher leaves what is committed alone.
LEMMA DriverKeepsReview ==
    ASSUME ReviewInv, UNCHANGED <<commits, remote, result>>,
           pc' \notin PublisherSteps \ {"enter"},
           LyasCommits = {} \/ UNCHANGED <<accepted, reviewed>>,
           outcome' \in {outcome, "None"},
           job'.status = "PUBLISHED" => job.status = "PUBLISHED" \/ outcome = "Ok",
           (Publishing => AcceptedIsReviewed)', SnapshotIsSeen'
    PROVE  ReviewInv'
<1>1. LyasCommits' = LyasCommits
  BY DEF LyasCommits
<1>2. Tracked' /\ NothingRecorded' /\ Proven'
  BY <1>1 DEF ReviewInv, Tracked, Recorded, NothingRecorded, Uncommitted, Proven, PublisherSteps
<1>3. OnlyReviewedIsCommitted' /\ OpaqueIsNeverCommitted'
  BY <1>1 DEF ReviewInv, OnlyReviewedIsCommitted, OpaqueIsNeverCommitted
<1>4. SuccessIsPushed'
  BY DEF ReviewInv, SuccessIsPushed, PublisherSteps
<1>5. QED
  BY <1>2, <1>3, <1>4 DEF ReviewInv

\* The providers, the person at the terminal, and stuttering.
LEMMA MovingKeepsReview ==
    ASSUME RecordInv, ReviewInv,
           \/ SupervisorAnswers \/ ExecutorAnswersError \/ ProviderCancelled \/ PublisherReturns
           \/ RequestPauseOrResume \/ RequestJobStop \/ InputEnds \/ ResumeRefused
           \/ UNCHANGED allVars
    PROVE  ReviewInv'
<1>1. UNCHANGED <<commits, head, index, remote, result, accepted, reviewed, outcome, job, seen>>
  BY DEF SupervisorAnswers, ExecutorAnswersError, ProviderCancelled, PublisherReturns, RequestPauseOrResume,
     RequestJobStop, InputEnds, ResumeRefused, CaptureFails, Idle, publicationVars, vars, allVars, jobVars,
     repoVars, recordVars, historyVars
<1>2. CASE UNCHANGED <<pc, after>>
  BY <1>1, <1>2, SMTT(60) DEF ReviewInv, Tracked, LyasCommits, NothingRecorded, Proven, StagedIsAccepted, Diff,
     HeadContent, IsCompleteForPublication, OnlyReviewedIsCommitted, OpaqueIsNeverCommitted, Publishing, Heading,
     AcceptedIsReviewed, SnapshotIsSeen, SuccessIsPushed
<1>3. CASE \/ pc = "reviewing" /\ pc' = "safe" /\ after' = "decide"
           \/ pc = "executing" /\ pc' = "safe" /\ after' = "executorFailed"
           \/ pc = "returned" /\ pc' = "safe" /\ after' = "published"
           \/ pc = "resuming" /\ pc' = "closing"
  <2>1. (Publishing => AcceptedIsReviewed)'
    BY <1>1, <1>3 DEF ReviewInv, Publishing, Heading, AcceptedIsReviewed
  <2>2. SnapshotIsSeen'
    BY <1>1, <1>3 DEF ReviewInv, SnapshotIsSeen, Over
  <2>3. QED
    BY <1>1, <1>3, <2>1, <2>2, DriverKeepsReview DEF PublisherSteps
<1>4. QED
  BY <1>2, <1>3 DEF SupervisorAnswers, ExecutorAnswersError, ProviderCancelled, PublisherReturns,
     RequestPauseOrResume, RequestJobStop, InputEnds, ResumeRefused, ToSafePoint, vars, allVars, jobVars

\* Until its publication is recorded as pending, a running job has committed
\* nothing.
LEMMA NothingIsCommittedYet ==
    ASSUME RecordInv, pc \notin Over, job.pending # "Publication"
    PROVE  LyasCommits = {}
BY RunningIsNotOver DEF RecordInv, Owed

\* An acceptance is of the last capture.
LEMMA DecideKeepsReview ==
    ASSUME RecordInv, RecordInv', ReviewInv, Decide
    PROVE  ReviewInv'
<1>1. /\ pc = "decide" /\ pc \notin Over /\ Heading = "decide" /\ job.pending = "SupervisorReview"
      /\ UNCHANGED <<commits, remote, result, outcome, seen>>
  BY DEF Decide, Over, Heading, repoVars, RecordInv, Located
<1>2. job \in JobState /\ LyasCommits = {}
  BY <1>1, RunningIsNotOver, NothingIsCommittedYet
<1>3. /\ job'.snapshot = job.snapshot /\ job'.pending # "Publication" /\ job'.status # "PUBLISHED"
  <2>1. job.status # "PUBLISHED"
    BY <1>1, RunningIsNotOver DEF Terminal
  <2>2. CASE DecideAccept
    <3>1. \/ job' = [job EXCEPT !.decision = "ACCEPT"]
          \/ job' = [job EXCEPT !.decision = "ACCEPT", !.status = "ACCEPTED", !.pending = "None"]
      BY <2>2 DEF DecideAccept, Finish, Save
    <3>2. QED
      BY <1>1, <1>2, <2>1, <3>1 DEF JobState
  <2>3. CASE DecideClaude
    BY <1>2, <2>1, <2>3 DEF DecideClaude, Save, JobState
  <2>4. CASE DecideOtherwise
    <3>1. CASE reply \in {"HUMAN", "STOP"}
      <4>1. \E status \in {"WAITING_HUMAN", "STOPPED"} :
                job' = [job EXCEPT !.decision = reply, !.status = status, !.pending = "None"]
        BY <2>4, <3>1 DEF DecideOtherwise, Finish, Save
      <4>2. QED
        BY <1>2, <4>1 DEF JobState
    <3>2. CASE reply \notin {"HUMAN", "STOP"}
      <4>1. \/ job' = [job EXCEPT !.status = "WAITING_OPENAI_QUOTA", !.pending = "SupervisorReview",
                                  !.quota = "SupervisorReview"]
            \/ job' = [job EXCEPT !.status = "FAILED"]
        BY <2>4, <3>2 DEF DecideOtherwise, WaitForQuota, Fail, Finish, Save
      <4>2. QED
        BY <1>1, <1>2, <4>1 DEF JobState
    <3>3. QED
      BY <3>1, <3>2
  <2>5. QED
    BY <2>2, <2>3, <2>4 DEF Decide
<1>4. \E b \in Content : job.snapshot.diff = Diff(b, seen)
  BY <1>1 DEF ReviewInv, SnapshotIsSeen, Over
<1>5. SnapshotIsSeen'
  BY <1>1, <1>3, <1>4 DEF SnapshotIsSeen, Diff
<1>6. (Publishing => AcceptedIsReviewed)'
  <2>1. CASE DecideAccept
    BY <1>4, <2>1 DEF DecideAccept, AcceptedIsReviewed, Diff
  <2>2. CASE DecideClaude \/ DecideOtherwise
    BY <1>3, <2>2 DEF DecideClaude, DecideOtherwise, WaitForQuota, Fail, Finish, ToSafePoint, Publishing, Heading
  <2>3. QED
    BY <2>1, <2>2 DEF Decide
<1>7. pc' \in {"safe", "closing"}
  BY DEF Decide, DecideAccept, DecideClaude, DecideOtherwise, WaitForQuota, Fail, Finish, ToSafePoint
<1>8. QED
  BY <1>1, <1>2, <1>3, <1>5, <1>6, <1>7, DriverKeepsReview DEF PublisherSteps

\* Only a publication the publisher reports as pushed makes a job PUBLISHED.
LEMMA SettleKeepsReview ==
    ASSUME RecordInv, ReviewInv, SettlePublication
    PROVE  ReviewInv'
<1>1. /\ pc = "published" /\ Heading = "published" /\ job.pending = "Publication" /\ pc \notin Over
      /\ UNCHANGED <<commits, remote, result, outcome, accepted, reviewed>> /\ pc' = "closing"
  BY DEF SettlePublication, Fail, WaitForHuman, Finish, Heading, RecordInv, Located, Idle, publicationVars, repoVars,
     Over
<1>2. job \in JobState /\ job.status # "PUBLISHED"
  BY <1>1, RunningIsNotOver DEF Terminal
<1>3. job'.status = "PUBLISHED" => outcome = "Ok"
  BY <1>2 DEF SettlePublication, Fail, WaitForHuman, Finish, Save, JobState
<1>4. (Publishing => AcceptedIsReviewed)'
  BY <1>1 DEF ReviewInv, Publishing, AcceptedIsReviewed
<1>5. SnapshotIsSeen'
  BY <1>1 DEF SnapshotIsSeen, Over
<1>6. QED
  BY <1>1, <1>3, <1>4, <1>5, DriverKeepsReview DEF PublisherSteps

\* The captures: of a job that starts, of one that resumes and of an Executor's
\* run.
LEMMA CapturingKeepsReview ==
    ASSUME RecordInv, ReviewInv, Run \/ ResumeJob \/ CaptureRun
    PROVE  ReviewInv'
<1>1. /\ UNCHANGED <<commits, remote, result, outcome, accepted, reviewed, index, tree, head>>
      /\ job \in JobState /\ disk \in JobState /\ index \in Content /\ tree \in Content
  BY DEF Run, ResumeJob, CaptureRun, CaptureFails, publicationVars, repoVars, RecordInv, JobTypes, JobTypeOK, RepoTypeOK
<1>2. Capture.diff = Diff(index, tree)
  BY DEF Capture
<1>3. CASE Run
  <2>1. /\ job' = [NewJob(disk.publish) EXCEPT !.snapshot = Capture]
        /\ seen' = tree /\ pc' = "safe" /\ after' = "fresh"
    BY <1>3 DEF Run, Save, ToSafePoint
  <2>2. job'.snapshot = Capture /\ job'.status = "RUNNING" /\ job'.pending = "None"
    BY <2>1 DEF NewJob
  <2>3. SnapshotIsSeen'
    BY <1>1, <1>2, <2>1, <2>2 DEF SnapshotIsSeen, Diff
  <2>4. ~Publishing'
    BY <2>1, <2>2 DEF Publishing, Heading
  <2>5. QED
    BY <1>1, <2>1, <2>2, <2>3, <2>4, DriverKeepsReview DEF PublisherSteps
<1>4. CASE ResumeJob
  <2>1. /\ job' = [job EXCEPT !.status = "RUNNING", !.quota = "None"]
        /\ seen' = tree /\ pc' = "safe" /\ after' = Plan /\ Plan # "Invalid" /\ RepositoryUnchanged
    BY <1>4 DEF ResumeJob, Save, ToSafePoint
  <2>2. job'.snapshot = job.snapshot /\ job'.status = "RUNNING" /\ job'.pending = job.pending
    BY <1>1, <2>1 DEF JobState
  <2>3. SnapshotIsSeen'
    <3>1. job.pending # "Publication" => Capture = job.snapshot
      BY <2>1, PlanIsPending DEF RepositoryUnchanged
    <3>2. QED
      BY <1>1, <1>2, <2>1, <2>2, <3>1 DEF SnapshotIsSeen, Diff
  <2>4. (Publishing => AcceptedIsReviewed)'
    <3>1. Publishing' => job.pending = "Publication"
      BY <2>1, <2>2, PlanIsPending DEF Publishing, Heading
    <3>2. QED
      BY <1>1, <3>1 DEF ReviewInv, Publishing, AcceptedIsReviewed
  <2>5. QED
    BY <1>1, <2>1, <2>2, <2>3, <2>4, DriverKeepsReview DEF PublisherSteps
<1>5. CASE CaptureRun
  <2>1. pc = "captureRun" /\ Heading = "captureRun" /\ job.pending = "None" /\ job.status # "PUBLISHED"
    BY <1>5, RunningIsNotOver DEF CaptureRun, Heading, RecordInv, Located, Over, Terminal
  <2>2. CASE Fail
    <3>1. job'.pending = "None" /\ job'.status = "FAILED" /\ pc' = "closing"
      BY <1>1, <2>1, <2>2 DEF Fail, Finish, Save, JobState
    <3>2. SnapshotIsSeen' /\ ~Publishing'
      BY <3>1 DEF SnapshotIsSeen, Over, Publishing, Heading
    <3>3. QED
      BY <1>1, <3>1, <3>2, DriverKeepsReview DEF PublisherSteps
  <2>3. CASE ~Fail
    <3>1. /\ job' = [job EXCEPT !.snapshot = Capture] /\ seen' = tree /\ pc' = "safe" /\ after' = "fresh"
      BY <1>5, <2>3 DEF CaptureRun, Save, ToSafePoint
    <3>2. job'.snapshot = Capture /\ job'.status = job.status /\ job'.pending = "None"
      BY <1>1, <2>1, <3>1 DEF JobState
    <3>3. SnapshotIsSeen'
      BY <1>1, <1>2, <3>1, <3>2 DEF SnapshotIsSeen, Diff
    <3>4. ~Publishing'
      BY <3>1, <3>2 DEF Publishing, Heading
    <3>5. QED
      BY <1>1, <2>1, <3>1, <3>2, <3>3, <3>4, DriverKeepsReview DEF PublisherSteps
  <2>4. QED
    BY <2>2, <2>3
<1>6. QED
  BY <1>3, <1>4, <1>5

\* The steps that write the record and leave the capture and the acceptance as
\* they are.
LEMMA RecordingKeepsReview ==
    ASSUME RecordInv, ReviewInv,
           \/ SafePoint \/ LeavePause \/ ResumeParks \/ Supervise \/ Execute \/ ExecutorReturns \/ ExecutorFailed
           \/ EnterPublish
    PROVE  ReviewInv'
<1>1. /\ UNCHANGED <<commits, remote, result, outcome, accepted, reviewed, seen>> /\ pc \notin Over
  BY DEF SafePoint, LeavePause, ResumeParks, Supervise, Execute, ExecutorReturns, ExecutorFailed, EnterPublish, Idle,
     publicationVars, repoVars, Over
<1>2. job \in JobState /\ job.status # "PUBLISHED"
  BY <1>1, RunningIsNotOver DEF Terminal
<1>3. job'.status # "PUBLISHED" /\ (pc' # "closing" => job'.snapshot = job.snapshot)
  BY <1>2, ZenonT(60) DEF SafePoint, LeavePause, ResumeParks, Supervise, Execute, ExecutorReturns, ExecutorFailed,
     EnterPublish, StopJob, WaitForHuman, Fail, WaitForQuota, Finish, Save, JobState
<1>4. pc' \notin PublisherSteps \ {"enter"} /\ (pc = "resuming" => pc' = "closing")
  BY DEF SafePoint, LeavePause, ResumeParks, Supervise, Execute, ExecutorReturns, ExecutorFailed, EnterPublish, StopJob,
     WaitForHuman, Fail, WaitForQuota, Finish, ToSafePoint, RecordInv, Located, PublisherSteps, DriverSteps
<1>5. /\ job'.pending = "Publication" => Publishing
      /\ job.pending = "Publication" /\ pc' # "closing" => job'.pending = "Publication"
  <2>1. CASE SafePoint \/ LeavePause \/ ResumeParks \/ EnterPublish
    <3>1. job'.pending = job.pending \/ (job'.pending = "Publication" /\ Heading = "enterPublish")
      BY <1>2, <2>1 DEF SafePoint, LeavePause, ResumeParks, EnterPublish, StopJob, WaitForHuman, Finish, Save, JobState,
         Heading
    <3>2. QED
      BY <3>1 DEF Publishing
  <2>2. CASE Supervise \/ Execute \/ ExecutorReturns \/ ExecutorFailed
    <3>1. job.pending # "Publication"
      BY <2>2 DEF Supervise, Execute, ExecutorReturns, ExecutorFailed, RecordInv, Located, Heading
    <3>2. job'.pending \in {job.pending, "SupervisorReview", "None", "ExecutorRun"}
      BY <1>2, <2>2 DEF Supervise, Execute, ExecutorReturns, ExecutorFailed, Fail, WaitForQuota, Finish, Save, JobState
    <3>3. QED
      BY <3>1, <3>2
  <2>3. QED
    BY <2>1, <2>2
<1>6. Heading' = "enterPublish" => Heading = "enterPublish"
  BY DEF SafePoint, LeavePause, ResumeParks, Supervise, Execute, ExecutorReturns, ExecutorFailed, EnterPublish, StopJob,
     WaitForHuman, Fail, WaitForQuota, Finish, ToSafePoint, Heading, RecordInv, Located
<1>7. (Publishing => AcceptedIsReviewed)'
  BY <1>1, <1>5, <1>6 DEF ReviewInv, Publishing, AcceptedIsReviewed
<1>8. SnapshotIsSeen'
  BY <1>1, <1>3, <1>4, <1>5 DEF ReviewInv, SnapshotIsSeen, Over
<1>9. QED
  BY <1>1, <1>3, <1>4, <1>7, <1>8, DriverKeepsReview

\* A process that ends, and one that takes over, go on with what is on disk.
LEMMA EndingKeepsReview ==
    ASSUME RecordInv, RecordInv', ReviewInv, Load \/ Close \/ JobCrash \/ EventFails
    PROVE  ReviewInv'
<1>1. /\ UNCHANGED <<commits, remote, result, reviewed>> /\ pc' \in {"down", "resuming"}
      /\ outcome' \in {outcome, "None"}
  BY DEF Load, Close, JobCrash, EventFails, ProcessGone, publicationVars, repoVars
<1>2. job \in JobState /\ disk \in JobState /\ disk.pending = job.pending /\ disk.status = job.status
  BY DiskIsAsInMemory DEF RecordInv, JobTypes, JobTypeOK
<1>3. job'.pending = job.pending /\ job'.status \in {job.status, "FAILED"}
  BY <1>2 DEF Load, Close, JobCrash, EventFails, ProcessGone, JobState
<1>4. accepted' = accepted \/ (LyasCommits = {} /\ job.pending # "Publication")
  <2>1. CASE UnsavedAcceptance
    <3>1. pc \notin Over
      BY <2>1 DEF UnsavedAcceptance, Heading, Over
    <3>2. QED
      BY <2>1, <3>1, NothingIsCommittedYet DEF UnsavedAcceptance
  <2>2. CASE ~UnsavedAcceptance
    BY <2>2 DEF Load, Close, JobCrash, EventFails, ProcessGone, RecordInv, Mirrored
  <2>3. QED
    BY <2>1, <2>2
<1>5. (Publishing => AcceptedIsReviewed)'
  <2>1. Publishing' => job.pending = "Publication"
    BY <1>1, <1>3 DEF Publishing, Heading
  <2>2. QED
    BY <1>1, <1>4, <2>1 DEF ReviewInv, Publishing, AcceptedIsReviewed
<1>6. SnapshotIsSeen'
  BY <1>1 DEF SnapshotIsSeen, Over
<1>7. QED
  BY <1>1, <1>3, <1>4, <1>5, <1>6, DriverKeepsReview DEF PublisherSteps

LEMMA NextReviewInv ==
    ASSUME ~ConcurrentEditor
    PROVE  RecordInv /\ ReviewInv /\ [JobNext]_allVars => ReviewInv'
<1>1. SUFFICES ASSUME RecordInv, ReviewInv, [JobNext]_allVars PROVE ReviewInv'
  OBVIOUS
<1>2. RecordInv'
  BY <1>1, NextRecordInv
<1>3. CASE Writing
  BY <1>1, <1>2, <1>3, DecideKeepsReview, SettleKeepsReview, CapturingKeepsReview, RecordingKeepsReview,
     EndingKeepsReview DEF Writing
<1>4. QED
  BY <1>1, <1>3, JobSteps, PublisherKeepsReview, EditingKeepsReview, MovingKeepsReview

\* A queued job has reviewed and committed nothing.
LEMMA InitReviewInv == JobInit => ReviewInv
<1>1. SUFFICES ASSUME JobInit PROVE ReviewInv
  OBVIOUS
<1>2. PICK publish \in BOOLEAN : job = [NewJob(publish) EXCEPT !.status = "QUEUED"]
  BY <1>1 DEF JobInit
<1>3. job.status = "QUEUED" /\ job.pending = "None"
  BY <1>2 DEF NewJob
<1>4. pc = "down" /\ result = NoResult /\ outcome = "None"
  BY <1>1 DEF JobInit
<1>5. LyasCommits = {}
  <2>1. PICK c \in Content : commits = <<[content |-> c, parent |-> 0, by |-> "other"]>>
    BY <1>1 DEF JobInit
  <2>2. DOMAIN commits = {1} /\ commits[1].by = "other"
    BY <2>1
  <2>3. QED
    BY <2>2 DEF LyasCommits
<1>6. Tracked /\ NothingRecorded /\ Proven
  BY <1>4 DEF Tracked, Recorded, NothingRecorded, Uncommitted, Proven, NoResult
<1>7. OnlyReviewedIsCommitted /\ OpaqueIsNeverCommitted
  BY <1>5 DEF OnlyReviewedIsCommitted, OpaqueIsNeverCommitted
<1>8. ~Publishing /\ SnapshotIsSeen /\ SuccessIsPushed
  BY <1>3, <1>4 DEF Publishing, Heading, SnapshotIsSeen, Over, SuccessIsPushed
<1>9. QED
  BY <1>6, <1>7, <1>8 DEF ReviewInv

\* A job is PUBLISHED only with exactly the accepted files on the remote, through
\* whatever crashes, resumes and retried pushes it got there.
THEOREM PublishedIsReviewed ==
    ASSUME ~ConcurrentEditor
    PROVE  JobSpec => []PublishedMeansPublished
<1>1. RecordInv /\ ReviewInv => PublishedMeansPublished
  <2>1. SUFFICES ASSUME RecordInv, ReviewInv, disk.status = "PUBLISHED"
                 PROVE  result.push = "PUSHED" /\ remote = result.sha /\ commits[remote].content = reviewed
    BY DEF PublishedMeansPublished
  <2>2. result.push = "PUSHED"
    BY <2>1, DiskIsAsInMemory DEF ReviewInv, SuccessIsPushed
  <2>3. remote = result.sha /\ remote \in LyasCommits
    BY <2>1, <2>2 DEF ReviewInv, Tracked, NoResult
  <2>4. QED
    BY <2>1, <2>2, <2>3 DEF ReviewInv, OnlyReviewedIsCommitted
<1>2. QED
  BY <1>1, InitRecordInv, NextRecordInv, InitReviewInv, NextReviewInv, PTL DEF JobSpec

\* What module Publication promises of one publication holds through a whole job:
\* every commit of Lya, in whichever process and iteration, holds exactly what the
\* last acceptance reviewed.
THEOREM JobsCommitWhatWasReviewed ==
    ASSUME ~ConcurrentEditor
    PROVE  JobSpec => []OnlyReviewedIsCommitted
<1>1. ReviewInv => OnlyReviewedIsCommitted
  BY DEF ReviewInv
<1>2. QED
  BY <1>1, InitRecordInv, NextRecordInv, InitReviewInv, NextReviewInv, PTL DEF JobSpec

=============================================================================
