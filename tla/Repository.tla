------------------------------ MODULE Repository ------------------------------
(***************************************************************************)
(* The Git repository a job works in, as src/orchestrator/repository.rs    *)
(* and src/orchestrator/publisher.rs use it, and what one call of          *)
(* RepositoryState::collect sees of it.                                    *)
(*                                                                         *)
(* A Content is the state of all the files of a tree, untracked files      *)
(* included.  Three trees matter: the one of the commit at HEAD, the       *)
(* index, and the working tree.  A change to an Opaque content is too      *)
(* large or too binary to be captured in full: its diff is Truncated.      *)
(***************************************************************************)
EXTENDS Naturals, Sequences

CONSTANTS
    Content,      \* the states the files can be in
    Opaque,       \* those whose capture is truncated or binary
    Truncated,    \* what a capture shows of an opaque content
    MaxCommits    \* bound on the commit objects of a behaviour

ASSUME ContentAssumption ==
    /\ Opaque \subseteq Content
    /\ Truncated \notin Content
    /\ MaxCommits \in Nat

VARIABLES
    commits,      \* the commit objects, oldest first; a commit's position is its SHA
    head,         \* the commit the current branch points to
    index,        \* the staged tree
    tree,         \* the working tree
    remote        \* the commit the remote's branch points to

repoVars == <<commits, head, index, tree, remote>>

Authors == {"lya", "other"}
Commit == [content : Content, parent : Nat, by : Authors]

HeadContent == commits[head].content

RepoTypeOK ==
    /\ commits \in Seq(Commit)
    /\ head \in 1..Len(commits)
    /\ remote \in 1..Len(commits)
    /\ index \in Content
    /\ tree \in Content

\* The commits reachable from each commit: a parent always precedes its child.
History ==
    LET reach[c \in Nat] == IF c = 0 THEN {} ELSE {c} \cup reach[commits[c].parent]
    IN  reach

-----------------------------------------------------------------------------
(* What RepositoryState::collect returns.                                  *)

Shown(c) == IF c \in Opaque THEN Truncated ELSE c

\* The output of "git diff": the change between two trees, nothing when they
\* agree.
Diff(from, to) == IF from = to THEN {} ELSE {<<from, Shown(to)>>}

Snapshot == [head : Nat, staged : BOOLEAN, diff : SUBSET (Content \X (Content \cup {Truncated}))]

\* "git diff" compares the working tree with the INDEX: what is already staged
\* only shows as a flag of "git status --short", never by its content.
Capture == [head |-> head, staged |-> index # HeadContent, diff |-> Diff(index, tree)]

IsClean(snapshot) == ~snapshot.staged /\ snapshot.diff = {}

\* Mutant: truncated and binary captures are taken for complete.
AlwaysComplete(snapshot) == TRUE

IsCompleteForPublication(snapshot) == \A d \in snapshot.diff : d[2] # Truncated

-----------------------------------------------------------------------------
(* The Git commands that change the repository.                            *)

GitAddAll ==
    /\ index' = tree
    /\ UNCHANGED <<commits, head, tree, remote>>

\* "git commit" refuses to record a commit that changes nothing.
GitCommit(author) ==
    /\ index # HeadContent
    /\ Len(commits) < MaxCommits
    /\ commits' = Append(commits, [content |-> index, parent |-> head, by |-> author])
    /\ head' = Len(commits) + 1
    /\ UNCHANGED <<index, tree, remote>>

\* "git push <remote> <branch>" publishes whatever the branch points to, and
\* only as a fast-forward.
GitPush ==
    /\ remote \in History[head]
    /\ remote' = head
    /\ UNCHANGED <<commits, head, index, tree>>

-----------------------------------------------------------------------------
(* What anybody else, the Executor included, does to the repository.       *)

EditTree ==
    /\ \E c \in Content : tree' = c
    /\ UNCHANGED <<commits, head, index, remote>>

\* "git reset HEAD~1": the branch moves back, the working tree keeps its files.
ResetHead ==
    /\ commits[head].parent # 0
    /\ head' = commits[head].parent
    /\ index' = commits[commits[head].parent].content
    /\ UNCHANGED <<commits, tree, remote>>

Edit == EditTree \/ GitAddAll \/ GitCommit("other") \/ ResetHead

===============================================================================
