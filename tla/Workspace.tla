------------------------------- MODULE Workspace -------------------------------
(***************************************************************************)
(* The file tools of the local agent (src/tools/): how a requested path is *)
(* resolved through directories and links, and what each tool then does.   *)
(*                                                                         *)
(* Paths are sequences of names below the workspace.  A directory is a     *)
(* node; Out is one outside the workspace.  A link leads to a directory,   *)
(* to a file of Out, or nowhere.                                           *)
(***************************************************************************)
EXTENDS Naturals, Sequences, FiniteSets, SequencesExt

CONSTANTS
    Names,   \* names of files and directories
    Spare,   \* nodes for directories that are created
    Texts    \* what may be written

Ws == "workspace"
Out == "outside"
Dirs == {Ws, Out} \cup Spare

\* The directories are different ones, and as a text Out is what only a file of Out
\* says: nothing that is written can be taken for it.
ASSUME WorkspaceAssumption ==
    /\ Names # {} /\ IsFiniteSet(Spare)
    /\ {Ws, Out} \cap Spare = {} /\ Out \notin Texts

NoEntry == [type |-> "none", to |-> "none"]
File(text) == [type |-> "file", to |-> text]
Directory(node) == [type |-> "dir", to |-> node]
Link(target) == [type |-> "link", to |-> target]
Entries ==
    {NoEntry} \cup {File(t) : t \in Texts \cup {Out}} \cup {Directory(d) : d \in Spare}
        \cup {Link(t) : t \in Dirs \cup {"outside file", "nowhere"}}

\* Whatever a canonical path leads to: a directory, or a file in a directory.
Missing == [type |-> "missing", dir |-> Out, name |-> "none"]
DirAt(node) == [type |-> "dir", dir |-> node, name |-> "none"]
FileAt(node, name) == [type |-> "file", dir |-> node, name |-> name]

OutsideFile == CHOOSE n \in Names : TRUE

\* One component of a path, from a directory: a file has no components below it.
Walk(fs, place, name) ==
    IF place.type # "dir" THEN Missing
    ELSE LET entry == fs[place.dir][name]
         IN  CASE entry.type = "none" -> Missing
               [] entry.type = "file" -> FileAt(place.dir, name)
               [] entry.type = "dir" -> DirAt(entry.to)
               [] OTHER -> IF entry.to \in Dirs THEN DirAt(entry.to)
                           ELSE IF entry.to = "outside file" THEN FileAt(Out, OutsideFile)
                           ELSE Missing

\* canonicalize: every link is followed.
Canonical(fs, path) == FoldLeft(LAMBDA place, name : Walk(fs, place, name), DirAt(Ws), path)

\* starts_with(workspace), of a canonical path: not in Out nor in a directory made
\* there.
Below(fs, dirs) == dirs \cup {d \in Spare : \E p \in dirs, n \in Names : fs[p][n] = Directory(d)}
Inside(fs, place) == place.dir \notin Below(fs, Below(fs, {Out}))

\* validate_relative_path: a path with a root or a prefix, or with "..", is refused.
Requests == [relative : BOOLEAN, path : {<<>>} \cup [1 .. 1 -> Names] \cup [1 .. 2 -> Names]]
Valid(request) == request.relative

Refusal == [ok |-> FALSE, text |-> "none"]
Answer(text) == [ok |-> TRUE, text |-> text]

\* Mutant: only the requested path is looked at, not what it leads to.
ReadAnywhere(fs, request) ==
    LET place == Canonical(fs, request.path)
    IN  IF Valid(request) /\ place.type = "file" THEN Answer(fs[place.dir][place.name].to)
        ELSE Refusal

\* ReadFile: resolved as a whole, then read.
ReadFile(fs, request) ==
    LET place == Canonical(fs, request.path)
    IN  IF Valid(request) /\ place.type = "file" /\ Inside(fs, place)
        THEN Answer(fs[place.dir][place.name].to) ELSE Refusal

\* ListDirectory: resolved as a whole, and a directory; its links are left out.
ListDirectory(fs, request) ==
    LET place == Canonical(fs, request.path)
    IN  IF Valid(request) /\ place.type = "dir" /\ Inside(fs, place) THEN Answer("listing")
        ELSE Refusal

\* WriteFile::resolve_path: the parent must be inside, and so must whatever already
\* has the name; a link that leads nowhere is refused.
Writable(fs, request) ==
    /\ Valid(request) /\ request.path # <<>>
    /\ LET parent == Canonical(fs, Front(request.path))
       IN  /\ parent.type = "dir" /\ Inside(fs, parent)
           /\ LET entry == fs[parent.dir][Last(request.path)]
                  target == Walk(fs, parent, Last(request.path))
              IN  \/ entry.type = "none"
                  \/ target.type = "file" /\ Inside(fs, target)

\* Mutant: the file is written where the workspace begins.
WriteByName(fs, request, text) == [fs EXCEPT ![Ws][Last(request.path)] = File(text)]

\* fs::write follows the last link.
WriteFile(fs, request, text) ==
    LET parent == Canonical(fs, Front(request.path))
        target == Walk(fs, parent, Last(request.path))
        place == IF target.type = "missing" THEN FileAt(parent.dir, Last(request.path)) ELSE target
    IN  [fs EXCEPT ![place.dir][place.name] = File(text)]

\* CreateDirectory::create: what exists of the path must be a directory inside.
Creatable(fs, request) ==
    /\ Valid(request)
    /\ \A k \in 1 .. Len(request.path) :
          LET prefix == SubSeq(request.path, 1, k)
              parent == Canonical(fs, Front(prefix))
              place == Canonical(fs, prefix)
          IN  parent.type # "missing" =>
                  \/ place.type = "dir" /\ Inside(fs, place)
                  \/ parent.type = "dir" /\ fs[parent.dir][Last(prefix)].type = "none"

Unused(fs) == {d \in Spare : \A p \in Dirs, n \in Names : fs[p][n] # Directory(d)}

\* create_dir_all: one component after the other.
MakeStep(fs, place, name) ==
    LET next == Walk(fs, place, name)
    IN  IF next.type # "missing" THEN [fs |-> fs, place |-> next]
        ELSE LET node == CHOOSE d \in Unused(fs) : TRUE
             IN  [fs |-> [fs EXCEPT ![place.dir][name] = Directory(node)], place |-> DirAt(node)]

CreateDirectory(fs, request) ==
    FoldLeft(LAMBDA acc, name : MakeStep(acc.fs, acc.place, name),
             [fs |-> fs, place |-> DirAt(Ws)], request.path).fs
===============================================================================
