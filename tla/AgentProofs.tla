------------------------------ MODULE AgentProofs ------------------------------
(***************************************************************************)
(* The local agent, for any names, texts, directories and links, and any   *)
(* bounds on its rounds and calls: its file tools stay in the workspace,   *)
(* what it wrote is found again, and every call has its one result.  Then  *)
(* the calls that a model writes as text, with any parameters.             *)
(***************************************************************************)
EXTENDS MCAgent, Induction, TLAPS

Paths == {<<>>} \cup [1 .. 1 -> Names] \cup [1 .. 2 -> Names]

Outside == [n \in Names |-> IF n = OutsideFile THEN File(Out) ELSE NoEntry]

\* The files as the tools keep them: what is outside is as it was, and no file inside
\* has a text from outside.
FilesOk(f) ==
    /\ f \in [Dirs -> [Names -> Entries]]
    /\ f[Out] = Outside
    /\ \A d \in Dirs \ {Out}, n \in Names : f[d][n] # File(Out)

\* What a path can lead to.
Places == [type : {"missing", "dir", "file"}, dir : Dirs, name : Names \cup {"none"}]

PlaceOk(f, place) ==
    /\ place \in Places
    /\ place.type = "file" => place.name \in Names
    /\ place.type = "file" /\ place.dir # Out => f[place.dir][place.name].type = "file"

-----------------------------------------------------------------------------
(* Walking a path.                                                         *)

LEMMA MaxOf == Max({1}) = 1 /\ Max({2}) = 2 /\ Max({1, 2}) = 2
  BY DEF Max

\* What canonicalize finds, component by component.
LEMMA CanonicalNone ==
    ASSUME NEW f, NEW path, DOMAIN path = {}
    PROVE  Canonical(f, path) = DirAt(Ws)
<1> DEFINE step(s, g) == IF s = {} THEN DirAt(Ws)
                         ELSE LET x == Max(s) IN Walk(f, g[s \ {x}], path[x])
           Walks(g) == g = [s \in SUBSET {} |-> step(s, g)]
           iter == CHOOSE g : Walks(g)
           w == [s \in SUBSET {} |-> DirAt(Ws)]
<1>1. Canonical(f, path) = iter[{}]
  BY DEF Canonical, FoldLeft, MapThenFoldSet
<1>2. \A s \in SUBSET {} : s = {}
  OBVIOUS
<1>3. Walks(w)
  BY <1>2
<1>4. Walks(iter)
  BY <1>3
<1> HIDE DEF iter
<1>5. iter[{}] = DirAt(Ws)
  BY <1>4
<1>6. QED
  BY <1>1, <1>5

LEMMA CanonicalOne ==
    ASSUME NEW f, NEW path, DOMAIN path = {1}
    PROVE  Canonical(f, path) = Walk(f, DirAt(Ws), path[1])
<1> DEFINE step(s, g) == IF s = {} THEN DirAt(Ws)
                         ELSE LET x == Max(s) IN Walk(f, g[s \ {x}], path[x])
           Walks(g) == g = [s \in SUBSET {1} |-> step(s, g)]
           iter == CHOOSE g : Walks(g)
           w == [s \in SUBSET {1} |-> IF s = {} THEN DirAt(Ws) ELSE Walk(f, DirAt(Ws), path[1])]
<1>1. Canonical(f, path) = iter[{1}]
  BY DEF Canonical, FoldLeft, MapThenFoldSet
<1>2. \A s \in SUBSET {1} : s = {} \/ s = {1}
  OBVIOUS
<1>3. Walks(w)
  <2>1. ASSUME NEW s \in SUBSET {1} PROVE w[s] = step(s, w)
    <3>1. CASE s = {}
      BY <3>1
    <3>2. CASE s = {1}
      <4>1. s \ {Max(s)} = {} /\ Max(s) = 1
        BY <3>2, MaxOf
      <4>2. QED
        BY <3>2, <4>1
    <3>3. QED
      BY <1>2, <3>1, <3>2
  <2> HIDE DEF step
  <2>2. QED
    BY <2>1
<1> HIDE DEF w
<1>4. Walks(iter)
  BY <1>3
<1> HIDE DEF iter
<1>5. iter[{}] = DirAt(Ws)
  BY <1>4
<1>6. iter[{1}] = Walk(f, iter[{1} \ {1}], path[1])
  BY <1>4, MaxOf
<1>7. {1} \ {1} = {}
  OBVIOUS
<1>8. QED
  BY <1>1, <1>5, <1>6, <1>7

LEMMA CanonicalTwo ==
    ASSUME NEW f, NEW path, DOMAIN path = {1, 2}
    PROVE  Canonical(f, path) = Walk(f, Walk(f, DirAt(Ws), path[1]), path[2])
<1> DEFINE step(s, g) == IF s = {} THEN DirAt(Ws)
                         ELSE LET x == Max(s) IN Walk(f, g[s \ {x}], path[x])
           Walks(g) == g = [s \in SUBSET {1, 2} |-> step(s, g)]
           iter == CHOOSE g : Walks(g)
           a == DirAt(Ws)
           w == [s \in SUBSET {1, 2} |->
                    IF s = {} THEN a ELSE IF s = {1} THEN Walk(f, a, path[1])
                    ELSE IF s = {2} THEN Walk(f, a, path[2])
                    ELSE Walk(f, Walk(f, a, path[1]), path[2])]
<1>1. Canonical(f, path) = iter[{1, 2}]
  BY DEF Canonical, FoldLeft, MapThenFoldSet
<1>2. \A s \in SUBSET {1, 2} : s = {} \/ s = {1} \/ s = {2} \/ s = {1, 2}
  OBVIOUS
<1>3. Walks(w)
  <2>1. ASSUME NEW s \in SUBSET {1, 2} PROVE w[s] = step(s, w)
    <3>1. CASE s = {}
      BY <3>1
    <3>2. CASE s = {1}
      <4>1. s \ {Max(s)} = {} /\ Max(s) = 1
        BY <3>2, MaxOf
      <4>2. QED
        BY <3>2, <4>1
    <3>3. CASE s = {2}
      <4>1. s \ {Max(s)} = {} /\ Max(s) = 2
        BY <3>3, MaxOf
      <4>2. QED
        BY <3>3, <4>1
    <3>4. CASE s = {1, 2}
      <4>1. s \ {Max(s)} = {1} /\ Max(s) = 2
        BY <3>4, MaxOf
      <4>2. QED
        BY <3>4, <4>1
    <3>5. QED
      BY <1>2, <3>1, <3>2, <3>3, <3>4
  <2> HIDE DEF step
  <2>2. QED
    BY <2>1
<1> HIDE DEF w
<1>4. Walks(iter)
  BY <1>3
<1> HIDE DEF iter
<1>5. iter[{}] = a
  BY <1>4
<1>6. iter[{1}] = Walk(f, iter[{1} \ {1}], path[1])
  BY <1>4, MaxOf
<1>7. iter[{1, 2}] = Walk(f, iter[{1, 2} \ {2}], path[2])
  BY <1>4, MaxOf
<1>8. {1} \ {1} = {} /\ {1, 2} \ {2} = {1}
  OBVIOUS
<1>9. QED
  BY <1>1, <1>5, <1>6, <1>7, <1>8

\* The parent of a path, and its last component.
LEMMA PathParts ==
    ASSUME NEW path \in Paths
    PROVE  \/ path = <<>> /\ DOMAIN path = {} /\ Len(path) = 0
           \/ /\ DOMAIN path = {1} /\ Len(path) = 1 /\ path[1] \in Names
              /\ Front(path) = <<>> /\ DOMAIN Front(path) = {} /\ Last(path) = path[1]
              /\ path # <<>>
           \/ /\ DOMAIN path = {1, 2} /\ Len(path) = 2 /\ path[1] \in Names /\ path[2] \in Names
              /\ Front(path) \in Paths /\ DOMAIN Front(path) = {1} /\ Front(path)[1] = path[1]
              /\ Last(path) = path[2] /\ path # <<>>
<1>1. CASE path = <<>>
  BY <1>1
<1>2. CASE path \in [1 .. 1 -> Names]
  <2>1. path \in Seq(Names) /\ Len(path) = 1 /\ DOMAIN path = {1} /\ path[1] \in Names
    <3>1. 1 .. 1 = {1} /\ 1 \in Nat
      OBVIOUS
    <3>2. DOMAIN path = 1 .. 1 /\ path[1] \in Names
      BY <1>2, <3>1
    <3>3. path \in Seq(Names)
      <4>1. [1 .. 1 -> Names] \in {[1 .. n -> Names] : n \in Nat}
        BY <3>1, Zenon
      <4>2. Seq(Names) = UNION {[1 .. n -> Names] : n \in Nat}
        BY SeqDef
      <4>3. QED
        BY <1>2, <4>1, <4>2, Zenon
    <3>4. Len(path) = 1
      BY <3>2, <3>3
    <3>5. QED
      BY <3>1, <3>2, <3>3, <3>4
  <2>2. Front(path) = <<>> /\ DOMAIN Front(path) = {}
    BY <2>1 DEF Front
  <2>3. QED
    BY <2>1, <2>2 DEF Last
<1>3. CASE path \in [1 .. 2 -> Names]
  <2>1. 1 .. 2 = {1, 2} /\ 1 .. 1 = {1}
    OBVIOUS
  <2>2. /\ path \in Seq(Names) /\ DOMAIN path = 1 .. 2
        /\ path[1] \in Names /\ path[2] \in Names
    <3>1. path[1] \in Names /\ path[2] \in Names /\ DOMAIN path = 1 .. 2
      BY <1>3, <2>1
    <3>2. path \in Seq(Names)
      <4>1. 2 \in Nat
        OBVIOUS
      <4>2. [1 .. 2 -> Names] \in {[1 .. n -> Names] : n \in Nat}
        BY <4>1, Zenon
      <4>3. Seq(Names) = UNION {[1 .. n -> Names] : n \in Nat}
        BY SeqDef
      <4>4. QED
        BY <1>3, <4>2, <4>3, Zenon
    <3>3. QED
      BY <3>1, <3>2
  <2>3. Len(path) = 2
    BY <2>2
  <2>4. path # <<>>
    BY <2>3
  <2>5. /\ SubSeq(path, 1, 1) \in Seq(Names) /\ Len(SubSeq(path, 1, 1)) = 1
        /\ SubSeq(path, 1, 1)[1] = path[1]
    <3>1. \A i \in 1 .. 1 : path[i] \in Names
      BY <2>1, <2>2
    <3>2. QED
      BY <3>1, <2>1, SubSeqProperties
  <2>6. Front(path) = SubSeq(path, 1, 1)
    BY <2>3 DEF Front
  <2>7. Front(path) \in Seq(Names) /\ Len(Front(path)) = 1 /\ Front(path)[1] = path[1]
    BY <2>5, <2>6
  <2>8. Front(path) \in [1 .. 1 -> Names] /\ DOMAIN Front(path) = {1}
    BY <2>1, <2>7, SMTT(60)
  <2>9. QED
    BY <2>1, <2>2, <2>3, <2>4, <2>7, <2>8 DEF Last, Paths
<1>4. QED
  BY <1>1, <1>2, <1>3 DEF Paths

\* A path that is not empty leads to where its last component leads from its parent.
LEMMA CanonicalIsStepwise ==
    ASSUME NEW f, NEW path \in Paths, path # <<>>
    PROVE  /\ Canonical(f, path) = Walk(f, Canonical(f, Front(path)), Last(path))
           /\ Front(path) \in Paths /\ Last(path) \in Names
<1>1. CASE DOMAIN path = {1}
  <2>1. Front(path) = <<>> /\ DOMAIN Front(path) = {} /\ Last(path) = path[1] /\ path[1] \in Names
    BY <1>1, PathParts
  <2>2. QED
    BY <1>1, <2>1, CanonicalNone, CanonicalOne DEF Paths
<1>2. CASE DOMAIN path = {1, 2}
  <2>1. /\ Front(path) \in Paths /\ DOMAIN Front(path) = {1} /\ Front(path)[1] = path[1]
        /\ Last(path) = path[2] /\ path[2] \in Names
    BY <1>2, PathParts
  <2>2. QED
    BY <1>2, <2>1, CanonicalOne, CanonicalTwo
<1>3. QED
  BY <1>1, <1>2, PathParts

-----------------------------------------------------------------------------
(* What a tool reaches.                                                    *)

LEMMA Outer ==
    /\ Out \in Dirs /\ Ws \in Dirs /\ Ws # Out /\ OutsideFile \in Names /\ Out \notin Spare
    /\ DirAt(Ws) \in Places
<1>1. OutsideFile \in Names
  BY WorkspaceAssumption DEF OutsideFile
<1>2. Out \in Dirs /\ Ws \in Dirs /\ Ws # Out /\ Out \notin Spare
  BY WorkspaceAssumption DEF Dirs, Ws, Out
<1>3. QED
  BY <1>1, <1>2 DEF DirAt, Places

LEMMA EntryTypes ==
    ASSUME NEW f, FilesOk(f), NEW d \in Dirs, NEW n \in Names
    PROVE  /\ f[d][n] \in Entries
           /\ f[d][n].type \in {"none", "file", "dir", "link"}
           /\ f[d][n].type = "none" => f[d][n] = NoEntry
           /\ f[d][n].type = "file" => \E t \in Texts \cup {Out} : f[d][n] = File(t)
           /\ f[d][n].type = "dir" => f[d][n].to \in Spare
<1>1. f[d][n] \in Entries
  BY DEF FilesOk
<1> DEFINE e == f[d][n]
<1> HIDE DEF e
<1>2. \/ e = NoEntry \/ \E t \in Texts \cup {Out} : e = File(t)
      \/ \E node \in Spare : e = Directory(node)
      \/ \E t \in Dirs \cup {"outside file", "nowhere"} : e = Link(t)
  BY <1>1 DEF Entries, e
<1>3. /\ NoEntry.type = "none" /\ \A t : File(t).type = "file" /\ Link(t).type = "link"
      /\ \A t : Directory(t).type = "dir" /\ Directory(t).to = t
  BY DEF NoEntry, File, Directory, Link
<1>4. /\ e.type \in {"none", "file", "dir", "link"}
      /\ e.type = "none" => e = NoEntry
      /\ e.type = "file" => \E t \in Texts \cup {Out} : e = File(t)
      /\ e.type = "dir" => e.to \in Spare
  BY <1>2, <1>3
<1>5. QED
  BY <1>1, <1>4 DEF e

\* Nothing in Out is a directory that was made, so that Out is all that is outside.
LEMMA InsideIs ==
    ASSUME NEW f, FilesOk(f), NEW place
    PROVE  Inside(f, place) <=> place.dir # Out
<1>1. \A n \in Names, d \in Spare : f[Out][n] # Directory(d)
  BY DEF FilesOk, Outside, File, NoEntry, Directory
<1>2. Below(f, {Out}) = {Out}
  BY <1>1 DEF Below
<1>3. QED
  BY <1>2 DEF Inside

\* One component of a path leads to a place, and inside only to a file of that name
\* in that directory.
LEMMA WalkIs ==
    ASSUME NEW f, FilesOk(f), NEW place \in Places, NEW name \in Names
    PROVE  LET next == Walk(f, place, name)
               entry == f[place.dir][name]
           IN  /\ next \in Places /\ PlaceOk(f, next)
               /\ next.type = "file" /\ next.dir # Out =>
                     place.type = "dir" /\ entry.type = "file" /\ next = FileAt(place.dir, name)
               /\ place.type = "dir" /\ entry.type = "none" => next.type = "missing"
               /\ place.type = "dir" /\ entry.type = "file" => next = FileAt(place.dir, name)
<1> DEFINE next == Walk(f, place, name)
           entry == f[place.dir][name]
<1>1. place.dir \in Dirs /\ Out \in Dirs /\ OutsideFile \in Names
  BY Outer DEF Places
<1>2. /\ entry.type \in {"none", "file", "dir", "link"}
      /\ entry.type = "dir" => entry.to \in Spare
  BY <1>1, EntryTypes
<1>3. /\ Missing \in Places /\ Missing.type = "missing"
      /\ \A d \in Dirs : DirAt(d) \in Places /\ DirAt(d).type = "dir"
      /\ \A d \in Dirs, n \in Names :
            /\ FileAt(d, n) \in Places /\ FileAt(d, n).type = "file"
            /\ FileAt(d, n).dir = d /\ FileAt(d, n).name = n
  BY <1>1 DEF Missing, DirAt, FileAt, Places
<1>4. CASE place.type # "dir"
  <2>1. next = Missing
    BY <1>4 DEF Walk
  <2>2. QED
    BY <1>3, <1>4, <2>1 DEF PlaceOk
<1>5. CASE place.type = "dir" /\ entry.type = "none"
  <2>1. next = Missing
    BY <1>5 DEF Walk
  <2>2. QED
    BY <1>3, <1>5, <2>1 DEF PlaceOk
<1>6. CASE place.type = "dir" /\ entry.type = "file"
  <2>1. next = FileAt(place.dir, name)
    BY <1>6 DEF Walk
  <2>2. QED
    BY <1>1, <1>3, <1>6, <2>1 DEF PlaceOk
<1>7. CASE place.type = "dir" /\ entry.type \in {"dir", "link"}
  <2>1. \/ next = Missing \/ next = FileAt(Out, OutsideFile)
        \/ entry.to \in Dirs /\ next = DirAt(entry.to)
    BY <1>2, <1>7 DEF Walk, Dirs
  <2>2. QED
    BY <1>1, <1>3, <1>7, <2>1 DEF PlaceOk
<1>8. QED
  BY <1>2, <1>4, <1>5, <1>6, <1>7

LEMMA CanonicalIs ==
    ASSUME NEW f, FilesOk(f), NEW path \in Paths
    PROVE  Canonical(f, path) \in Places /\ PlaceOk(f, Canonical(f, path))
<1>1. DirAt(Ws) \in Places /\ PlaceOk(f, DirAt(Ws))
  BY Outer DEF PlaceOk, DirAt
<1>2. CASE path = <<>>
  BY <1>1, <1>2, PathParts, CanonicalNone
<1>3. CASE DOMAIN path = {1} /\ path[1] \in Names
  BY <1>1, <1>3, WalkIs, CanonicalOne
<1>4. CASE DOMAIN path = {1, 2} /\ path[1] \in Names /\ path[2] \in Names
  BY <1>1, <1>4, WalkIs, CanonicalTwo
<1>5. QED
  BY <1>2, <1>3, <1>4, PathParts

\* What the tools tell.
Told == Texts \cup {"none", "listing", "written", "created", "exit code", "workspace"}

LEMMA ReadIsInside ==
    ASSUME NEW f, FilesOk(f), NEW request \in Requests
    PROVE  ReadFile(f, request).text \in Told /\ ListDirectory(f, request).text \in Told
<1> DEFINE place == Canonical(f, request.path)
<1>1. request.path \in Paths
  BY DEF Requests, Paths
<1>2. place \in Places /\ PlaceOk(f, place) /\ (Inside(f, place) <=> place.dir # Out)
  BY <1>1, CanonicalIs, InsideIs
<1> HIDE DEF place
<1>3. ASSUME place.type = "file", Inside(f, place)
      PROVE  f[place.dir][place.name].to \in Texts
  <2>1. place.dir \in Dirs \ {Out} /\ place.name \in Names
    BY <1>2, <1>3 DEF PlaceOk, Places
  <2>2. f[place.dir][place.name].type = "file"
    BY <1>2, <1>3 DEF PlaceOk
  <2>3. PICK t \in Texts \cup {Out} : f[place.dir][place.name] = File(t)
    BY <2>1, <2>2, EntryTypes
  <2>4. t # Out
    BY <2>1, <2>3 DEF FilesOk
  <2>5. QED
    BY <2>3, <2>4 DEF File
<1>4. ReadFile(f, request).text \in Told
  BY <1>3 DEF ReadFile, Answer, Refusal, Told, place
<1>5. ListDirectory(f, request).text \in Told
  BY DEF ListDirectory, Answer, Refusal, Told
<1>6. QED
  BY <1>4, <1>5

-----------------------------------------------------------------------------
(* What a tool changes.                                                    *)

\* The directories and links stay as they are.
KeepsWays(f, g) ==
    \A d \in Dirs, n \in Names : f[d][n].type \in {"dir", "link"} => g[d][n] = f[d][n]

\* Whatever leads somewhere stays as it is.
KeepsPlaces(f, g) ==
    \A d \in Dirs, n \in Names : Walk(f, DirAt(d), n).type # "missing" => g[d][n] = f[d][n]

LEMMA WalkFromDirectory ==
    ASSUME NEW f, NEW place, NEW name, place.type = "dir"
    PROVE  Walk(f, place, name) = Walk(f, DirAt(place.dir), name)
  BY DEF Walk, DirAt

\* A directory is found again.
LEMMA DirectoriesStay ==
    ASSUME NEW f, NEW g, FilesOk(f), KeepsWays(f, g), NEW path \in Paths,
           Canonical(f, path).type = "dir"
    PROVE  Canonical(g, path) = Canonical(f, path)
<1>1. ASSUME NEW place \in Places, NEW name \in Names, Walk(f, place, name).type = "dir"
      PROVE  Walk(g, place, name) = Walk(f, place, name)
  <2>1. place.type = "dir" /\ place.dir \in Dirs
    BY <1>1 DEF Walk, Missing, Places
  <2>2. f[place.dir][name].type \in {"dir", "link"}
    <3>1. f[place.dir][name].type \in {"none", "file", "dir", "link"}
      BY <2>1, EntryTypes
    <3>2. QED
      BY <1>1, <2>1, <3>1, WalkIs DEF FileAt
  <2>3. QED
    BY <2>1, <2>2 DEF Walk, KeepsWays
<1>2. DirAt(Ws) \in Places
  BY Outer
<1>3. CASE path = <<>>
  BY <1>3, PathParts, CanonicalNone
<1>4. CASE DOMAIN path = {1} /\ path[1] \in Names
  BY <1>1, <1>2, <1>4, CanonicalOne
<1>5. CASE DOMAIN path = {1, 2} /\ path[1] \in Names /\ path[2] \in Names
  <2> DEFINE parent == Walk(f, DirAt(Ws), path[1])
  <2>1. parent \in Places /\ Canonical(f, path) = Walk(f, parent, path[2])
    BY <1>2, <1>5, WalkIs, CanonicalTwo
  <2>2. parent.type = "dir"
    <3> HIDE DEF parent
    <3>1. parent.type # "dir" => Walk(f, parent, path[2]) = Missing
      BY DEF Walk
    <3>2. QED
      BY <2>1, <3>1 DEF Missing
  <2>3. Walk(g, DirAt(Ws), path[1]) = parent
    BY <1>1, <1>2, <1>5, <2>2
  <2>4. Walk(g, parent, path[2]) = Walk(f, parent, path[2])
    BY <1>1, <1>5, <2>1
  <2>5. QED
    BY <1>5, <2>1, <2>3, <2>4, CanonicalTwo
<1>6. QED
  BY <1>3, <1>4, <1>5, PathParts

\* What a path leads to is found again.
LEMMA PlacesStay ==
    ASSUME NEW f, NEW g, FilesOk(f), KeepsPlaces(f, g), NEW path \in Paths,
           Canonical(f, path).type # "missing"
    PROVE  Canonical(g, path) = Canonical(f, path)
<1>1. ASSUME NEW place \in Places, NEW name \in Names, Walk(f, place, name).type # "missing"
      PROVE  Walk(g, place, name) = Walk(f, place, name) /\ place.type = "dir"
  <2>1. place.type = "dir" /\ place.dir \in Dirs
    BY <1>1 DEF Walk, Missing, Places
  <2>2. g[place.dir][name] = f[place.dir][name]
    BY <1>1, <2>1, WalkFromDirectory DEF KeepsPlaces
  <2>3. QED
    BY <2>1, <2>2 DEF Walk
<1>2. DirAt(Ws) \in Places
  BY Outer
<1>3. CASE path = <<>>
  BY <1>3, PathParts, CanonicalNone
<1>4. CASE DOMAIN path = {1} /\ path[1] \in Names
  BY <1>1, <1>2, <1>4, CanonicalOne
<1>5. CASE DOMAIN path = {1, 2} /\ path[1] \in Names /\ path[2] \in Names
  <2> DEFINE parent == Walk(f, DirAt(Ws), path[1])
  <2>1. parent \in Places /\ Canonical(f, path) = Walk(f, parent, path[2])
    BY <1>2, <1>5, WalkIs, CanonicalTwo
  <2>2. parent.type = "dir"
    <3> HIDE DEF parent
    <3>1. parent.type # "dir" => Walk(f, parent, path[2]) = Missing
      BY DEF Walk
    <3>2. QED
      BY <2>1, <3>1 DEF Missing
  <2>3. Walk(g, DirAt(Ws), path[1]) = parent
    BY <1>1, <1>2, <1>5, <2>2
  <2>4. Walk(g, parent, path[2]) = Walk(f, parent, path[2])
    BY <1>1, <1>5, <2>1
  <2>5. QED
    BY <1>5, <2>1, <2>3, <2>4, CanonicalTwo
<1>6. QED
  BY <1>3, <1>4, <1>5, PathParts

\* Where a text was written it is found.
FoundAt(f, path, text) ==
    LET place == Canonical(f, path)
    IN  /\ place.type = "file" /\ place.dir \in Dirs \ {Out} /\ place.name \in Names
        /\ f[place.dir][place.name] = File(text)

LEMMA FoundIsRead ==
    ASSUME NEW f, FilesOk(f), NEW path \in Paths, NEW text, FoundAt(f, path, text)
    PROVE  ReadFile(f, [relative |-> TRUE, path |-> path]) = Answer(text)
<1> DEFINE place == Canonical(f, path)
<1>1. place.type = "file" /\ Inside(f, place) /\ f[place.dir][place.name].to = text
  BY InsideIs DEF FoundAt, File
<1>2. QED
  BY <1>1 DEF ReadFile, Valid

LEMMA FoundStays ==
    ASSUME NEW f, NEW g, FilesOk(f), KeepsPlaces(f, g), NEW path \in Paths, NEW text,
           FoundAt(f, path, text)
    PROVE  FoundAt(g, path, text)
<1> DEFINE place == Canonical(f, path)
<1>1. /\ place.type = "file" /\ place.dir \in Dirs \ {Out} /\ place.name \in Names
      /\ f[place.dir][place.name] = File(text)
  BY DEF FoundAt
<1>2. Canonical(g, path) = place
  BY <1>1, PlacesStay
<1> HIDE DEF place
<1>3. Walk(f, DirAt(place.dir), place.name).type = "file"
  <2>1. /\ DirAt(place.dir) \in Places /\ DirAt(place.dir).type = "dir"
        /\ DirAt(place.dir).dir = place.dir
    BY <1>1 DEF DirAt, Places
  <2>2. f[place.dir][place.name].type = "file"
    BY <1>1 DEF File
  <2>3. Walk(f, DirAt(place.dir), place.name) = FileAt(place.dir, place.name)
    BY <1>1, <2>1, <2>2, WalkIs
  <2>4. QED
    BY <2>3 DEF FileAt
<1>4. g[place.dir][place.name] = File(text)
  BY <1>1, <1>3 DEF KeepsPlaces
<1>5. QED
  BY <1>1, <1>2, <1>4 DEF FoundAt

\* A write leaves what is outside alone, and is found again under its path.
LEMMA WriteIs ==
    ASSUME NEW f, FilesOk(f), NEW request \in Requests, NEW text \in Texts, Writable(f, request)
    PROVE  /\ FilesOk(WriteFile(f, request, text))
           /\ FoundAt(WriteFile(f, request, text), request.path, text)
           /\ request.path \in Paths \ {<<>>}
<1> DEFINE path == request.path
           name == Last(path)
           parent == Canonical(f, Front(path))
           target == Walk(f, parent, name)
           entry == f[parent.dir][name]
           g == WriteFile(f, request, text)
<1>1. path \in Paths /\ path # <<>>
  BY DEF Requests, Paths, Writable
<1>2. Front(path) \in Paths /\ name \in Names
  BY <1>1, CanonicalIsStepwise
<1>3. parent \in Places
  BY <1>2, CanonicalIs
<1>4. /\ parent.type = "dir" /\ Inside(f, parent)
      /\ entry.type = "none" \/ (target.type = "file" /\ Inside(f, target))
  BY DEF Writable
<1>5. g = LET place == IF target.type = "missing" THEN FileAt(parent.dir, name) ELSE target
          IN  [f EXCEPT ![place.dir][place.name] = File(text)]
  BY DEF WriteFile
<1> HIDE DEF path, name, parent, g
<1>6. parent.dir \in Dirs /\ parent.dir # Out
  BY <1>3, <1>4, InsideIs DEF Places
<1>7. /\ entry.type \in {"none", "file"}
      /\ g = [f EXCEPT ![parent.dir][name] = File(text)]
  <2>1. CASE entry.type = "none"
    <3>1. target.type = "missing"
      BY <1>2, <1>3, <1>4, <2>1, WalkIs
    <3>2. QED
      BY <2>1, <3>1, <1>5 DEF FileAt
  <2>2. CASE target.type = "file" /\ Inside(f, target)
    <3>1. target.dir # Out
      BY <2>2, InsideIs
    <3>2. entry.type = "file" /\ target = FileAt(parent.dir, name)
      BY <1>2, <1>3, <2>2, <3>1, WalkIs
    <3>3. QED
      BY <3>2, <2>2, <1>5 DEF FileAt
  <2>3. QED
    BY <1>4, <2>1, <2>2
<1>8. f \in [Dirs -> [Names -> Entries]] /\ File(text) \in Entries
  BY DEF FilesOk, Entries
<1>9. /\ g \in [Dirs -> [Names -> Entries]]
      /\ g[parent.dir][name] = File(text)
      /\ \A d \in Dirs, n \in Names : g[d][n] = f[d][n] \/ (d = parent.dir /\ n = name)
  BY <1>2, <1>6, <1>7, <1>8
<1>10. FilesOk(g)
  <2>1. g[Out] = Outside
    BY <1>6, <1>7, <1>8, Outer DEF FilesOk
  <2>2. File(text) # File(Out)
    BY WorkspaceAssumption DEF File
  <2>3. \A d \in Dirs \ {Out}, n \in Names : g[d][n] # File(Out)
    BY <1>9, <2>2 DEF FilesOk
  <2>4. QED
    BY <1>9, <2>1, <2>3 DEF FilesOk
<1>11. KeepsWays(f, g)
  BY <1>7, <1>9 DEF KeepsWays
<1>12. Canonical(g, path) = FileAt(parent.dir, name)
  <2>1. Canonical(g, Front(path)) = parent
    BY <1>2, <1>4, <1>11, DirectoriesStay DEF parent
  <2>2. Canonical(g, path) = Walk(g, parent, name)
    BY <1>1, <2>1, CanonicalIsStepwise DEF name
  <2>3. g[parent.dir][name].type = "file"
    BY <1>9 DEF File
  <2>4. QED
    BY <2>2, <2>3, <1>2, <1>3, <1>4, <1>10, WalkIs
<1>13. FoundAt(g, path, text)
  BY <1>2, <1>6, <1>9, <1>12 DEF FoundAt, FileAt
<1>14. QED
  BY <1>1, <1>10, <1>13 DEF g, path

-----------------------------------------------------------------------------
(* Directories that are created.                                           *)

LEMMA CreateNone ==
    ASSUME NEW f, NEW request, DOMAIN request.path = {}
    PROVE  CreateDirectory(f, request) = f
<1> DEFINE base == [fs |-> f, place |-> DirAt(Ws)]
           step(s, g) == IF s = {} THEN base
                         ELSE LET x == Max(s) IN MakeStep(g[s \ {x}].fs, g[s \ {x}].place, request.path[x])
           Makes(g) == g = [s \in SUBSET {} |-> step(s, g)]
           iter == CHOOSE g : Makes(g)
           w == [s \in SUBSET {} |-> base]
<1>1. CreateDirectory(f, request) = iter[{}].fs
  BY DEF CreateDirectory, FoldLeft, MapThenFoldSet
<1>2. \A s \in SUBSET {} : s = {}
  OBVIOUS
<1>3. Makes(w)
  BY <1>2, SMTT(60)
<1>4. Makes(iter)
  BY <1>3
<1> HIDE DEF iter
<1>5. iter[{}] = base
  BY <1>4
<1>6. QED
  BY <1>1, <1>5

LEMMA CreateOne ==
    ASSUME NEW f, NEW request, DOMAIN request.path = {1}
    PROVE  CreateDirectory(f, request) = MakeStep(f, DirAt(Ws), request.path[1]).fs
<1> DEFINE base == [fs |-> f, place |-> DirAt(Ws)]
           next(acc, x) == MakeStep(acc.fs, acc.place, request.path[x])
           step(s, g) == IF s = {} THEN base
                         ELSE LET x == Max(s) IN next(g[s \ {x}], x)
           Makes(g) == g = [s \in SUBSET {1} |-> step(s, g)]
           iter == CHOOSE g : Makes(g)
           w == [s \in SUBSET {1} |-> IF s = {} THEN base ELSE next(base, 1)]
<1>1. CreateDirectory(f, request) = iter[{1}].fs
  BY DEF CreateDirectory, FoldLeft, MapThenFoldSet
<1> HIDE DEF base, next
<1>2. \A s \in SUBSET {1} : s = {} \/ s = {1}
  OBVIOUS
<1>3. Makes(w)
  <2>1. ASSUME NEW s \in SUBSET {1} PROVE w[s] = step(s, w)
    <3>1. CASE s = {}
      BY <3>1
    <3>2. CASE s = {1}
      <4>1. s \ {Max(s)} = {} /\ Max(s) = 1
        BY <3>2, MaxOf
      <4>2. QED
        BY <3>2, <4>1
    <3>3. QED
      BY <1>2, <3>1, <3>2
  <2> HIDE DEF step
  <2>2. QED
    BY <2>1
<1> HIDE DEF w
<1>4. Makes(iter)
  BY <1>3
<1> HIDE DEF iter
<1>5. iter[{}] = base
  BY <1>4
<1>6. iter[{1}] = next(iter[{1} \ {1}], 1)
  BY <1>4, MaxOf
<1>7. {1} \ {1} = {}
  OBVIOUS
<1>8. iter[{1}] = next(base, 1)
  BY <1>5, <1>6, <1>7
<1>9. QED
  BY <1>1, <1>8 DEF base, next

LEMMA CreateTwo ==
    ASSUME NEW f, NEW request, DOMAIN request.path = {1, 2}
    PROVE  LET made == MakeStep(f, DirAt(Ws), request.path[1])
           IN  CreateDirectory(f, request) = MakeStep(made.fs, made.place, request.path[2]).fs
<1> DEFINE base == [fs |-> f, place |-> DirAt(Ws)]
           next(acc, x) == MakeStep(acc.fs, acc.place, request.path[x])
           step(s, g) == IF s = {} THEN base
                         ELSE LET x == Max(s) IN next(g[s \ {x}], x)
           Makes(g) == g = [s \in SUBSET {1, 2} |-> step(s, g)]
           iter == CHOOSE g : Makes(g)
           w == [s \in SUBSET {1, 2} |->
                    IF s = {} THEN base ELSE IF s = {1} THEN next(base, 1)
                    ELSE IF s = {2} THEN next(base, 2) ELSE next(next(base, 1), 2)]
<1>1. CreateDirectory(f, request) = iter[{1, 2}].fs
  BY DEF CreateDirectory, FoldLeft, MapThenFoldSet
<1> HIDE DEF base, next
<1>2. \A s \in SUBSET {1, 2} : s = {} \/ s = {1} \/ s = {2} \/ s = {1, 2}
  OBVIOUS
<1>3. Makes(w)
  <2>1. ASSUME NEW s \in SUBSET {1, 2} PROVE w[s] = step(s, w)
    <3>1. CASE s = {}
      BY <3>1
    <3>2. CASE s = {1}
      <4>1. s \ {Max(s)} = {} /\ Max(s) = 1
        BY <3>2, MaxOf
      <4>2. QED
        BY <3>2, <4>1
    <3>3. CASE s = {2}
      <4>1. s \ {Max(s)} = {} /\ Max(s) = 2
        BY <3>3, MaxOf
      <4>2. QED
        BY <3>3, <4>1
    <3>4. CASE s = {1, 2}
      <4>1. s \ {Max(s)} = {1} /\ Max(s) = 2
        BY <3>4, MaxOf
      <4>2. QED
        BY <3>4, <4>1
    <3>5. QED
      BY <1>2, <3>1, <3>2, <3>3, <3>4
  <2> HIDE DEF step
  <2>2. QED
    BY <2>1
<1> HIDE DEF w
<1>4. Makes(iter)
  BY <1>3
<1> HIDE DEF iter
<1>5. iter[{}] = base
  BY <1>4
<1>6. iter[{1}] = next(iter[{1} \ {1}], 1)
  BY <1>4, MaxOf
<1>7. iter[{1, 2}] = next(iter[{1, 2} \ {2}], 2)
  BY <1>4, MaxOf
<1>8. {1} \ {1} = {} /\ {1, 2} \ {2} = {1}
  OBVIOUS
<1>9. iter[{1, 2}] = next(next(base, 1), 2)
  BY <1>5, <1>6, <1>7, <1>8
<1>10. QED
  BY <1>1, <1>9 DEF base, next

\* One directory that is created, if it is not there.
LEMMA MadeIs ==
    ASSUME NEW f, FilesOk(f), NEW place \in Places, NEW name \in Names, place.type = "dir",
           place.dir # Out, Unused(f) # {}
    PROVE  LET next == Walk(f, place, name)
               made == MakeStep(f, place, name)
           IN  /\ FilesOk(made.fs) /\ KeepsPlaces(f, made.fs)
               /\ next.type # "missing" => made.fs = f /\ made.place = next
               /\ next.type = "missing" =>
                     \E d \in Unused(f) :
                        /\ made.place = DirAt(d) /\ d # Out
                        /\ Unused(f) \ {d} \subseteq Unused(made.fs)
<1> DEFINE next == Walk(f, place, name)
           made == MakeStep(f, place, name)
<1>1. CASE next.type # "missing"
  <2>1. made.fs = f /\ made.place = next
    BY <1>1 DEF MakeStep
  <2>2. KeepsPlaces(f, f)
    BY DEF KeepsPlaces
  <2>3. QED
    BY <1>1, <2>1, <2>2
<1>2. CASE next.type = "missing"
  <2> DEFINE node == CHOOSE d \in Unused(f) : TRUE
             g == [f EXCEPT ![place.dir][name] = Directory(node)]
  <2>1. made.fs = g /\ made.place = DirAt(node)
    BY <1>2 DEF MakeStep
  <2>2. node \in Unused(f) /\ node \in Spare /\ node # Out
    BY Outer DEF Unused
  <2> HIDE DEF node, made
  <2>3. /\ f \in [Dirs -> [Names -> Entries]] /\ place.dir \in Dirs \ {Out}
        /\ Directory(node) \in Entries
    BY <2>2 DEF FilesOk, Places, Entries
  <2>4. /\ g \in [Dirs -> [Names -> Entries]] /\ g[Out] = f[Out]
        /\ g[place.dir][name] = Directory(node)
        /\ \A d \in Dirs, n \in Names : g[d][n] = f[d][n] \/ (d = place.dir /\ n = name)
    BY <2>3, Outer
  <2> HIDE DEF g
  <2>5. FilesOk(g)
    <3>1. Directory(node) # File(Out)
      BY DEF Directory, File
    <3>2. QED
      BY <2>4, <3>1 DEF FilesOk
  <2>6. KeepsPlaces(f, g)
    <3>1. Walk(f, DirAt(place.dir), name).type = "missing"
      BY <1>2, WalkFromDirectory
    <3>2. QED
      BY <2>4, <3>1 DEF KeepsPlaces
  <2>7. Unused(f) \ {node} \subseteq Unused(g)
    <3>1. \A d : d # node => Directory(d) # Directory(node)
      BY DEF Directory
    <3>2. QED
      BY <2>4, <3>1 DEF Unused
  <2>8. QED
    BY <1>2, <2>1, <2>2, <2>5, <2>6, <2>7 DEF made
<1>3. QED
  BY <1>1, <1>2

LEMMA KeepsPlacesTwice ==
    ASSUME NEW f, NEW g, NEW h, KeepsPlaces(f, g), KeepsPlaces(g, h)
    PROVE  KeepsPlaces(f, h)
<1> SUFFICES ASSUME NEW d \in Dirs, NEW n \in Names, Walk(f, DirAt(d), n).type # "missing"
             PROVE  h[d][n] = f[d][n]
  BY DEF KeepsPlaces
<1>1. g[d][n] = f[d][n]
  BY DEF KeepsPlaces
<1>2. Walk(g, DirAt(d), n) = Walk(f, DirAt(d), n)
  BY <1>1 DEF Walk, DirAt
<1>3. QED
  BY <1>1, <1>2 DEF KeepsPlaces

\* The directory that was created hides nothing and lies inside.
LEMMA CreateIs ==
    ASSUME NEW f, FilesOk(f), NEW request \in Requests, Creatable(f, request),
           Cardinality(Unused(f)) >= Len(request.path)
    PROVE  FilesOk(CreateDirectory(f, request)) /\ KeepsPlaces(f, CreateDirectory(f, request))
<1> DEFINE path == request.path
           start == DirAt(Ws)
<1>1. path \in Paths
  BY DEF Requests, Paths
<1>2. start \in Places /\ start.type = "dir" /\ start.dir = Ws /\ Ws # Out /\ Ws \in Dirs
  BY Outer DEF DirAt
<1>3. IsFiniteSet(Unused(f)) /\ Cardinality(Unused(f)) \in Nat
  BY WorkspaceAssumption, FS_Subset, FS_CardinalityType DEF Unused
<1>4. CASE path = <<>>
  BY <1>1, <1>4, PathParts, CreateNone DEF KeepsPlaces
<1>5. ASSUME path # <<>> PROVE Unused(f) # {}
  <2>1. Len(path) >= 1
    BY <1>1, <1>5, PathParts
  <2>2. QED
    BY <2>1, <1>3, FS_EmptySet
<1> DEFINE made == MakeStep(f, start, path[1])
<1>6. CASE DOMAIN path = {1}
  <2>1. path[1] \in Names /\ path # <<>>
    BY <1>1, <1>6, PathParts
  <2>2. FilesOk(made.fs) /\ KeepsPlaces(f, made.fs)
    BY <1>2, <1>5, <2>1, MadeIs
  <2>3. QED
    BY <1>6, <2>2, CreateOne
<1>7. CASE DOMAIN path = {1, 2}
  <2> DEFINE front == Front(path)
             first == Walk(f, start, path[1])
  <2>1. /\ path[1] \in Names /\ path[2] \in Names /\ path # <<>> /\ Len(path) = 2
        /\ front \in Paths /\ DOMAIN front = {1} /\ front[1] = path[1] /\ Last(path) = path[2]
    BY <1>1, <1>7, PathParts
  <2>2. Last(front) = path[1] /\ Front(front) = <<>> /\ Len(front) = 1
    BY <2>1, PathParts
  <2>3. SubSeq(path, 1, 1) = front /\ SubSeq(path, 1, 2) = path
    <3>1. SubSeq(path, 1, 1) = front
      BY <2>1 DEF Front
    <3>2. path \in Seq(Names)
      <4>1. path \in [1 .. 2 -> Names]
        <5>1. path = <<>> \/ path \in [1 .. 1 -> Names] \/ path \in [1 .. 2 -> Names]
          BY <1>1 DEF Paths
        <5>2. 1 .. 1 = {1} /\ {1} # {1, 2}
          OBVIOUS
        <5>3. QED
          BY <1>7, <2>1, <5>1, <5>2
      <4>2. [1 .. 2 -> Names] \in {[1 .. n -> Names] : n \in Nat}
        OBVIOUS
      <4>3. Seq(Names) = UNION {[1 .. n -> Names] : n \in Nat}
        BY SeqDef
      <4>4. QED
        BY <4>1, <4>2, <4>3, Zenon
    <3>3. SubSeq(path, 1, Len(path)) = path
      BY <3>2
    <3>4. QED
      BY <3>1, <3>3, <2>1
  <2>4. Canonical(f, front) = first /\ Canonical(f, <<>>) = start
    BY <2>1, CanonicalOne, CanonicalNone
  <2>5. Canonical(f, path) = Walk(f, first, path[2])
    BY <1>7, CanonicalTwo
  <2>6. \/ first.type = "dir" /\ Inside(f, first)
        \/ f[Ws][path[1]].type = "none"
    <3>1. 1 \in 1 .. Len(path)
      BY <2>1
    <3>2. LET parent == Canonical(f, Front(front))
              place == Canonical(f, front)
          IN  parent.type # "missing" =>
                  \/ place.type = "dir" /\ Inside(f, place)
                  \/ parent.type = "dir" /\ f[parent.dir][Last(front)].type = "none"
      BY <2>3, <3>1 DEF Creatable
    <3>3. QED
      BY <1>2, <2>2, <2>4, <3>2
  <2>7. first.type # "missing" =>
           LET place == Walk(f, first, path[2])
           IN  \/ place.type = "dir" /\ Inside(f, place)
               \/ first.type = "dir" /\ f[first.dir][path[2]].type = "none"
    <3>1. 2 \in 1 .. Len(path)
      BY <2>1
    <3>2. LET parent == Canonical(f, front)
              place == Canonical(f, path)
          IN  parent.type # "missing" =>
                  \/ place.type = "dir" /\ Inside(f, place)
                  \/ parent.type = "dir" /\ f[parent.dir][Last(path)].type = "none"
      BY <2>3, <3>1 DEF Creatable
    <3>3. QED
      BY <2>1, <2>4, <2>5, <3>2
  <2>8. first \in Places
    BY <1>2, <2>1, WalkIs
  <2>9. /\ FilesOk(made.fs) /\ KeepsPlaces(f, made.fs)
        /\ first.type # "missing" => made.fs = f /\ made.place = first
        /\ first.type = "missing" =>
              \E d \in Unused(f) :
                 /\ made.place = DirAt(d) /\ d # Out /\ Unused(f) \ {d} \subseteq Unused(made.fs)
    BY <1>2, <1>5, <2>1, MadeIs
  <2>10. /\ made.place \in Places /\ made.place.type = "dir" /\ made.place.dir # Out
         /\ Unused(made.fs) # {}
    <3>1. CASE first.type # "missing"
      <4>1. first.type = "dir" /\ first.dir # Out
        <5>1. f[Ws][path[1]].type = "none" => first.type = "missing"
          BY <1>2, <2>1, WalkIs
        <5>2. QED
          BY <2>6, <3>1, <5>1, InsideIs
      <4>2. QED
        BY <1>5, <2>1, <2>8, <2>9, <3>1, <4>1
    <3>2. CASE first.type = "missing"
      <4>1. PICK d \in Unused(f) :
               made.place = DirAt(d) /\ d # Out /\ Unused(f) \ {d} \subseteq Unused(made.fs)
        BY <2>9, <3>2
      <4>2. made.place \in Places /\ made.place.type = "dir" /\ made.place.dir # Out
        BY <4>1 DEF DirAt, Places, Unused, Dirs
      <4>3. Cardinality(Unused(f) \ {d}) = Cardinality(Unused(f)) - 1 /\ IsFiniteSet(Unused(f) \ {d})
        BY <1>3, <4>1, FS_RemoveElement
      <4>4. Cardinality(Unused(f) \ {d}) # 0
        BY <1>3, <2>1, <4>3
      <4>5. Unused(f) \ {d} # {}
        BY <4>4, FS_EmptySet
      <4>6. QED
        BY <4>1, <4>2, <4>5
    <3>3. QED
      BY <3>1, <3>2
  <2>11. CreateDirectory(f, request) = MakeStep(made.fs, made.place, path[2]).fs
    BY <1>7, CreateTwo
  <2> HIDE DEF made
  <2>12. /\ FilesOk(MakeStep(made.fs, made.place, path[2]).fs)
         /\ KeepsPlaces(made.fs, MakeStep(made.fs, made.place, path[2]).fs)
    BY <2>1, <2>9, <2>10, MadeIs
  <2>13. QED
    BY <2>9, <2>11, <2>12, KeepsPlacesTwice
<1>8. QED
  BY <1>1, <1>4, <1>6, <1>7, PathParts

-----------------------------------------------------------------------------
(* The conversation.                                                       *)

Messages ==
    {User} \cup {Assistant(k) : k \in 0 .. MaxCalls}
        \cup [role : {"tool"}, calls : {{}}, id : Nat, text : Told]

Asked(m) == {i \in DOMAIN m : m[i].role = "assistant"}

\* The first k calls of the answer at i have their results, in their order.
Results(m, i, k) ==
    i + k <= Len(m) /\ \A n \in 1 .. k : m[i + n].role = "tool" /\ m[i + n].id = n

\* An answer whose calls were all answered before the model was asked again.
Complete(m, i) ==
    LET k == Cardinality(m[i].calls)
    IN  Results(m, i, k) /\ i + k < Len(m) /\ m[i + k + 1].role = "assistant"

\* The last answer, c of whose calls are still to be executed.
LastRound(m, a, c) ==
    LET k == Cardinality(m[a].calls)
    IN  /\ a \in Asked(m) /\ \A i \in Asked(m) : i <= a
        /\ c <= k /\ Len(m) = a + (k - c) /\ Results(m, a, k - c)

RoundsOk(m, c) ==
    \/ Asked(m) = {} /\ c = 0
    \/ \E a \in Asked(m) : LastRound(m, a, c) /\ \A i \in Asked(m) \ {a} : Complete(m, i)

LEMMA AssistantCalls ==
    ASSUME NEW k \in 0 .. MaxCalls
    PROVE  /\ Assistant(k).role = "assistant" /\ Cardinality(Assistant(k).calls) = k
           /\ k \in Nat
<1>1. k \in Nat
  BY AgentAssumption
<1>2. Cardinality(1 .. k) = k
  BY <1>1, FS_Interval
<1>3. QED
  BY <1>1, <1>2 DEF Assistant

LEMMA MessageTypes ==
    ASSUME NEW m \in Messages
    PROVE  /\ m.role = "assistant" => Cardinality(m.calls) \in Nat
           /\ m.text # Out
<1>1. CASE m = User
  BY <1>1 DEF User, Out
<1>2. CASE \E k \in 0 .. MaxCalls : m = Assistant(k)
  <2>1. PICK k \in 0 .. MaxCalls : m = Assistant(k)
    BY <1>2
  <2>2. m.text = "none"
    BY <2>1 DEF Assistant
  <2>3. QED
    BY <2>1, <2>2, AssistantCalls DEF Out
<1>3. CASE m \in [role : {"tool"}, calls : {{}}, id : Nat, text : Told]
  <2>1. m.role = "tool" /\ m.text \in Told
    BY <1>3
  <2>2. Out \notin Told
    BY WorkspaceAssumption DEF Told, Out
  <2>3. QED
    BY <2>1, <2>2
<1>4. QED
  BY <1>1, <1>2, <1>3 DEF Messages

LEMMA OneMore ==
    ASSUME NEW m \in Seq(Messages), NEW x \in Messages
    PROVE  LET u == Append(m, x)
           IN  /\ u \in Seq(Messages) /\ Len(m) \in Nat /\ Len(u) = Len(m) + 1
               /\ DOMAIN m = 1 .. Len(m) /\ DOMAIN u = 1 .. (Len(m) + 1)
               /\ \A i \in 1 .. Len(m) : u[i] = m[i]
               /\ u[Len(m) + 1] = x
               /\ Asked(u) = Asked(m) \cup (IF x.role = "assistant" THEN {Len(m) + 1} ELSE {})
<1> DEFINE u == Append(m, x)
<1>1. /\ u \in Seq(Messages) /\ Len(m) \in Nat /\ Len(u) = Len(m) + 1
      /\ DOMAIN m = 1 .. Len(m) /\ DOMAIN u = 1 .. (Len(m) + 1)
      /\ \A i \in 1 .. Len(m) : u[i] = m[i]
      /\ u[Len(m) + 1] = x
  OBVIOUS
<1> HIDE DEF u
<1>2. 1 .. (Len(m) + 1) = 1 .. Len(m) \cup {Len(m) + 1} /\ Len(m) + 1 \notin 1 .. Len(m)
  BY <1>1
<1>3. Asked(u) = Asked(m) \cup (IF x.role = "assistant" THEN {Len(m) + 1} ELSE {})
  BY <1>1, <1>2 DEF Asked
<1>4. QED
  BY <1>1, <1>3 DEF u

\* What was said stays said.
LEMMA ResultsStay ==
    ASSUME NEW m \in Seq(Messages), NEW x \in Messages, NEW i \in DOMAIN m, NEW k \in Nat,
           Results(m, i, k)
    PROVE  Results(Append(m, x), i, k)
<1> DEFINE u == Append(m, x)
<1>1. /\ Len(m) \in Nat /\ Len(u) = Len(m) + 1 /\ \A j \in 1 .. Len(m) : u[j] = m[j]
      /\ i \in 1 .. Len(m)
  BY OneMore
<1> HIDE DEF u
<1>2. \A n \in 1 .. k : i + n \in 1 .. Len(m)
  BY <1>1 DEF Results
<1>3. i + k <= Len(m) /\ \A n \in 1 .. k : m[i + n].role = "tool" /\ m[i + n].id = n
  BY DEF Results
<1>4. i + k <= Len(u)
  BY <1>1, <1>3
<1>5. \A n \in 1 .. k : u[i + n].role = "tool" /\ u[i + n].id = n
  BY <1>1, <1>2, <1>3
<1>6. Results(u, i, k)
  BY <1>4, <1>5 DEF Results
<1>7. QED
  BY <1>6 DEF u

LEMMA CompleteStays ==
    ASSUME NEW m \in Seq(Messages), NEW x \in Messages, NEW i \in Asked(m), Complete(m, i)
    PROVE  Complete(Append(m, x), i)
<1> DEFINE u == Append(m, x)
           k == Cardinality(m[i].calls)
<1>1. /\ Len(m) \in Nat /\ Len(u) = Len(m) + 1 /\ \A j \in 1 .. Len(m) : u[j] = m[j]
      /\ i \in 1 .. Len(m) /\ i \in DOMAIN m /\ m[i] \in Messages /\ m[i].role = "assistant"
  BY OneMore DEF Asked
<1>2. k \in Nat
  BY <1>1, MessageTypes
<1>3. Results(u, i, k)
  BY <1>1, <1>2, ResultsStay DEF Complete
<1>4. u[i] = m[i] /\ Cardinality(u[i].calls) = k
  BY <1>1
<1> HIDE DEF u, k
<1>5. i + k < Len(m) /\ m[i + k + 1].role = "assistant"
  BY DEF Complete, k
<1>6. i + k + 1 \in 1 .. Len(m) /\ i + k < Len(u)
  BY <1>1, <1>2, <1>5
<1>7. u[i + k + 1].role = "assistant"
  BY <1>1, <1>5, <1>6
<1>8. Complete(u, i)
  BY <1>3, <1>4, <1>6, <1>7 DEF Complete
<1>9. QED
  BY <1>8 DEF u

\* The next call is answered.
LEMMA ResultKeepsRounds ==
    ASSUME NEW m \in Seq(Messages), NEW c \in Nat, c > 0, RoundsOk(m, c), NEW x \in Messages,
           x.role = "tool",
           \A a : LastRound(m, a, c) => x.id = Cardinality(m[a].calls) - c + 1
    PROVE  RoundsOk(Append(m, x), c - 1)
<1> DEFINE u == Append(m, x)
<1>1. PICK a \in Asked(m) : LastRound(m, a, c) /\ \A i \in Asked(m) \ {a} : Complete(m, i)
  BY DEF RoundsOk
<1> DEFINE k == Cardinality(m[a].calls)
<1>2. /\ Len(m) \in Nat /\ Len(u) = Len(m) + 1 /\ \A j \in 1 .. Len(m) : u[j] = m[j]
      /\ u[Len(m) + 1] = x /\ Asked(u) = Asked(m)
      /\ a \in 1 .. Len(m) /\ a \in DOMAIN m /\ m[a] \in Messages /\ m[a].role = "assistant"
  BY OneMore DEF Asked
<1>3. k \in Nat
  BY <1>2, MessageTypes
<1>4. c <= k /\ Len(m) = a + (k - c) /\ Results(m, a, k - c) /\ x.id = k - c + 1
      /\ \A i \in Asked(m) : i <= a
  BY <1>1 DEF LastRound
<1>5. Cardinality(u[a].calls) = k
  BY <1>2
<1>6. Results(u, a, k - c)
  BY <1>2, <1>3, <1>4, ResultsStay, SMTT(60)
<1> HIDE DEF k, u
<1>7. Results(u, a, k - (c - 1))
  <2>1. a + (k - (c - 1)) <= Len(u)
    BY <1>2, <1>3, <1>4
  <2>2. ASSUME NEW n \in 1 .. (k - (c - 1)) PROVE u[a + n].role = "tool" /\ u[a + n].id = n
    <3>1. CASE n \in 1 .. (k - c)
      BY <3>1, <1>6 DEF Results
    <3>2. CASE n \notin 1 .. (k - c)
      <4>1. k - (c - 1) = k - c + 1 /\ k - c \in Nat /\ n \in 1 .. (k - c + 1)
        BY <1>3, <1>4
      <4>2. n = k - c + 1
        BY <3>2, <4>1
      <4>3. Len(m) = a + (k - c) /\ a \in Nat
        BY <1>2, <1>4
      <4>4. a + n = Len(m) + 1
        BY <4>1, <4>2, <4>3
      <4>5. QED
        BY <4>2, <4>4, <1>2, <1>4
    <3>3. QED
      BY <3>1, <3>2
  <2>3. QED
    BY <2>1, <2>2 DEF Results
<1>8. LastRound(u, a, c - 1)
  <2>1. c - 1 <= k /\ Len(u) = a + (k - (c - 1))
    BY <1>2, <1>3, <1>4
  <2>2. QED
    BY <1>2, <1>4, <1>5, <1>7, <2>1 DEF LastRound
<1>9. \A i \in Asked(u) \ {a} : Complete(u, i)
  BY <1>1, <1>2, CompleteStays DEF u
<1>10. RoundsOk(u, c - 1)
  BY <1>2, <1>8, <1>9 DEF RoundsOk
<1>11. QED
  BY <1>10 DEF u

\* The model answers again.
LEMMA AnswerKeepsRounds ==
    ASSUME NEW m \in Seq(Messages), RoundsOk(m, 0), NEW k \in 0 .. MaxCalls
    PROVE  RoundsOk(Append(m, Assistant(k)), k)
<1> DEFINE x == Assistant(k)
           u == Append(m, x)
           b == Len(m) + 1
<1>1. x \in Messages /\ x.role = "assistant" /\ Cardinality(x.calls) = k /\ k \in Nat
  BY AssistantCalls DEF Messages
<1>2. /\ Len(m) \in Nat /\ Len(u) = Len(m) + 1 /\ \A j \in 1 .. Len(m) : u[j] = m[j]
      /\ u[b] = x /\ Asked(u) = Asked(m) \cup {b} /\ DOMAIN m = 1 .. Len(m)
  BY <1>1, OneMore
<1>3. \A i \in Asked(m) : i \in 1 .. Len(m) /\ i < b
  BY <1>2 DEF Asked
<1>4. LastRound(u, b, k)
  <2>1. Results(u, b, k - k)
    BY <1>1, <1>2 DEF Results
  <2>2. Len(u) = b + (k - k) /\ k <= k
    BY <1>1, <1>2
  <2>3. b \in Asked(u) /\ \A i \in Asked(u) : i <= b
    BY <1>2, <1>3
  <2>4. Cardinality(u[b].calls) = k
    BY <1>1, <1>2
  <2> HIDE DEF u, b
  <2>5. QED
    BY <2>1, <2>2, <2>3, <2>4 DEF LastRound
<1>5. ASSUME NEW i \in Asked(m) PROVE Complete(u, i)
  <2>1. PICK a \in Asked(m) : LastRound(m, a, 0) /\ \A j \in Asked(m) \ {a} : Complete(m, j)
    BY <1>5 DEF RoundsOk
  <2>2. CASE i # a
    BY <2>1, <2>2, <1>1, CompleteStays
  <2>3. CASE i = a
    <3> DEFINE n == Cardinality(m[a].calls)
    <3>1. a \in DOMAIN m /\ m[a] \in Messages /\ m[a].role = "assistant" /\ a \in 1 .. Len(m)
      BY <1>2 DEF Asked
    <3>2. n \in Nat
      BY <3>1, MessageTypes
    <3>3. Len(m) = a + (n - 0) /\ Results(m, a, n - 0)
      BY <2>1 DEF LastRound
    <3>4. n - 0 = n
      BY <3>2
    <3>5. Results(u, a, n)
      BY <3>1, <3>2, <3>3, <3>4, <1>1, ResultsStay
    <3>6. Cardinality(u[a].calls) = n
      BY <3>1, <1>2
    <3> HIDE DEF n, u
    <3>7. a + n < Len(u) /\ a + n + 1 = b
      BY <3>1, <3>2, <3>3, <3>4, <1>2
    <3>8. Complete(u, a)
      BY <3>5, <3>6, <3>7, <1>1, <1>2 DEF Complete
    <3>9. QED
      BY <2>3, <3>8
  <2>4. QED
    BY <2>2, <2>3
<1> HIDE DEF u, b
<1>6. \A i \in Asked(u) \ {b} : Complete(u, i)
  BY <1>2, <1>5
<1>7. b \in Asked(u)
  BY <1>2
<1>8. RoundsOk(u, k)
  BY <1>4, <1>6, <1>7 DEF RoundsOk
<1>9. QED
  BY <1>8 DEF u

-----------------------------------------------------------------------------
(* The inductive invariant.                                                *)

\* What was written last is where it was written.
FilesInv ==
    /\ FilesOk(fs)
    /\ lastWrite # NoWrite =>
          lastWrite.path \in Paths /\ FoundAt(fs, lastWrite.path, lastWrite.text)

\* An answer is counted when it comes, a request before.
TalkInv ==
    /\ at \in {"loop", "chat", "tools", "over"}
    /\ outcome \in {"none", "limit", "llm_error", "answer"}
    /\ calls \in 0 .. MaxCalls /\ iterations \in 0 .. MaxIterations
    /\ messages \in Seq(Messages)
    /\ RoundsOk(messages, calls)
    /\ at # "tools" => calls = 0
    /\ Cardinality(Asked(messages)) <= iterations
    /\ at = "chat" => Cardinality(Asked(messages)) < iterations

LEMMA FilesStay ==
    ASSUME FilesInv, UNCHANGED <<fs, lastWrite>>
    PROVE  FilesInv'
  BY DEF FilesInv

\* The number of the call that is executed next.
LEMMA CallIdIs ==
    ASSUME messages \in Seq(Messages), NEW a, LastRound(messages, a, calls)
    PROVE  CallId = Cardinality(messages[a].calls) - calls + 1
<1>1. DOMAIN messages = 1 .. Len(messages) /\ Len(messages) \in Nat
  OBVIOUS
<1> DEFINE asked == {i \in 1 .. Len(messages) : messages[i].role = "assistant"}
<1>2. asked = Asked(messages)
  BY <1>1 DEF Asked
<1>3. a \in asked /\ \A i \in asked : i <= a /\ i \in Nat
  BY <1>1, <1>2 DEF LastRound
<1> HIDE DEF asked
<1>4. Max(asked) = a
  <2>1. \A x \in asked : (\A y \in asked : x >= y) => x = a
    BY <1>3
  <2>2. a \in asked /\ \A y \in asked : a >= y
    BY <1>3
  <2>3. QED
    BY <2>1, <2>2 DEF Max
<1>5. CallId = Cardinality(messages[Max(asked)].calls) - calls + 1
  BY <1>3 DEF CallId, SelectLastInSeq, asked
<1>6. QED
  BY <1>4, <1>5

\* The result of a call is the one of that call, and says nothing from outside.
LEMMA PushKeepsTalk ==
    ASSUME TalkInv, Tool, NEW result, result.text \in Told, Push(result)
    PROVE  TalkInv'
<1> DEFINE x == ToolResult(CallId, result)
           u == Append(messages, x)
<1>1. /\ messages \in Seq(Messages) /\ RoundsOk(messages, calls) /\ at = "tools"
      /\ calls \in Nat /\ calls > 0 /\ calls \in 0 .. MaxCalls
  BY AgentAssumption DEF TalkInv, Tool
<1>2. PICK a \in Asked(messages) : LastRound(messages, a, calls)
  BY <1>1 DEF RoundsOk
<1>3. \A b : LastRound(messages, b, calls) => CallId = Cardinality(messages[b].calls) - calls + 1
  BY <1>1, CallIdIs
<1>4. CallId \in Nat
  <2>1. messages[a] \in Messages /\ messages[a].role = "assistant"
    BY <1>1, <1>2 DEF Asked
  <2>2. Cardinality(messages[a].calls) \in Nat
    BY <2>1, MessageTypes
  <2>3. calls <= Cardinality(messages[a].calls)
    BY <1>2 DEF LastRound
  <2>4. CallId = Cardinality(messages[a].calls) - calls + 1
    BY <1>2, <1>3
  <2> HIDE DEF CallId
  <2>5. QED
    BY <1>1, <2>2, <2>3, <2>4
<1>5. x \in Messages /\ x.role = "tool" /\ x.id = CallId
  BY <1>4 DEF ToolResult, Messages
<1> HIDE DEF x
<1>6. u \in Seq(Messages) /\ Asked(u) = Asked(messages)
  <2>1. u \in Seq(Messages)
    BY <1>1, <1>5, OneMore
  <2>2. Asked(u) = Asked(messages) \cup (IF x.role = "assistant" THEN {Len(messages) + 1} ELSE {})
    BY <1>1, <1>5, OneMore
  <2>3. x.role # "assistant"
    BY <1>5
  <2>4. QED
    BY <2>1, <2>2, <2>3
<1>7. RoundsOk(u, calls - 1)
  BY <1>1, <1>3, <1>5, ResultKeepsRounds
<1>8. /\ messages' = u /\ calls' = calls - 1
      /\ at' = at /\ iterations' = iterations /\ outcome' = outcome
  BY DEF Push, x
<1> HIDE DEF u
<1>9. calls - 1 \in 0 .. MaxCalls
  BY <1>1, AgentAssumption
<1>10. RoundsOk(messages', calls') /\ Asked(messages') = Asked(messages) /\ calls' \in 0 .. MaxCalls
  BY <1>6, <1>7, <1>8, <1>9
<1>11. QED
  BY <1>1, <1>6, <1>8, <1>10 DEF TalkInv

LEMMA AskedIsFinite ==
    ASSUME NEW m \in Seq(Messages)
    PROVE  IsFiniteSet(Asked(m)) /\ Cardinality(Asked(m)) \in Nat
<1>1. DOMAIN m = 1 .. Len(m) /\ Len(m) \in Nat
  OBVIOUS
<1>2. IsFiniteSet(1 .. Len(m))
  BY <1>1, FS_Interval
<1>3. Asked(m) \in SUBSET (1 .. Len(m))
  BY <1>1 DEF Asked
<1>4. IsFiniteSet(Asked(m))
  BY <1>2, <1>3, FS_Subset
<1>5. QED
  BY <1>4, FS_CardinalityType

\* The run returns.
LEMMA ReturnKeeps ==
    ASSUME FilesInv, TalkInv, calls = 0, UNCHANGED iterations,
           NEW how \in {"limit", "llm_error", "answer"}, Return(how)
    PROVE  FilesInv' /\ TalkInv'
<1>1. /\ at' = "over" /\ outcome' = how /\ fs' = fs /\ calls' = calls /\ messages' = messages
      /\ lastWrite' = lastWrite /\ iterations' = iterations
  BY DEF Return
<1>2. /\ RoundsOk(messages', calls') /\ messages' \in Seq(Messages)
      /\ calls' \in 0 .. MaxCalls /\ iterations' \in 0 .. MaxIterations
      /\ Cardinality(Asked(messages')) <= iterations'
  BY <1>1 DEF TalkInv
<1>3. calls' = 0 /\ at' \in {"loop", "chat", "tools", "over"} /\ at' # "chat"
      /\ outcome' \in {"none", "limit", "llm_error", "answer"}
  BY <1>1
<1>4. TalkInv'
  BY <1>2, <1>3 DEF TalkInv
<1>5. QED
  BY <1>1, <1>4, FilesStay

LEMMA AskKeeps ==
    ASSUME FilesInv, TalkInv, Ask
    PROVE  FilesInv' /\ TalkInv'
<1>1. UNCHANGED <<fs, lastWrite>> /\ messages' = messages /\ calls' = calls /\ at = "loop"
  BY DEF Ask, Return
<1>2. calls = 0 /\ iterations \in Nat /\ iterations <= MaxIterations /\ MaxIterations \in Nat
  BY <1>1, AgentAssumption DEF TalkInv
<1>3. CASE Return("limit") /\ UNCHANGED iterations
  BY <1>2, <1>3, ReturnKeeps
<1>4. CASE iterations # MaxIterations /\ iterations' = iterations + 1 /\ at' = "chat"
           /\ UNCHANGED outcome
  <2>1. IsFiniteSet(Asked(messages)) /\ Cardinality(Asked(messages)) \in Nat
    BY AskedIsFinite DEF TalkInv
  <2>2. Cardinality(Asked(messages)) <= iterations
    BY DEF TalkInv
  <2> DEFINE card == Cardinality(Asked(messages))
             more == iterations + 1
  <2>3. card < more /\ card <= more /\ more \in 0 .. MaxIterations
    BY <1>2, <1>4, <2>1, <2>2
  <2>4. Cardinality(Asked(messages')) = card /\ iterations' = more
    BY <1>1, <1>4
  <2> HIDE DEF card, more
  <2>5. QED
    BY <1>1, <1>2, <1>4, <2>3, <2>4, FilesStay DEF TalkInv
<1>5. FilesInv'
  BY <1>1, FilesStay
<1>6. Ask => \/ Return("limit") /\ UNCHANGED iterations
             \/ /\ iterations # MaxIterations /\ iterations' = iterations + 1 /\ at' = "chat"
                /\ UNCHANGED outcome
  BY DEF Ask
<1>7. QED
  BY <1>3, <1>4, <1>5, <1>6

LEMMA ChatKeeps ==
    ASSUME FilesInv, TalkInv, ChatFails \/ ChatAnswers
    PROVE  FilesInv' /\ TalkInv'
<1>1. UNCHANGED <<fs, lastWrite, iterations>> /\ at = "chat"
  BY DEF ChatFails, ChatAnswers, Return
<1>2. FilesInv'
  BY <1>1, FilesStay
<1>3. /\ calls = 0 /\ messages \in Seq(Messages) /\ RoundsOk(messages, 0)
      /\ Cardinality(Asked(messages)) < iterations /\ iterations \in Nat
  BY <1>1, AgentAssumption DEF TalkInv
<1>4. CASE \E how \in {"llm_error", "answer"} : Return(how)
  BY <1>1, <1>3, <1>4, ReturnKeeps
<1>5. CASE \E k \in 0 .. MaxCalls :
             /\ messages' = Append(messages, Assistant(k)) /\ calls' = k /\ at' = "tools"
             /\ UNCHANGED outcome
  <2>1. PICK k \in 0 .. MaxCalls :
             /\ messages' = Append(messages, Assistant(k)) /\ calls' = k /\ at' = "tools"
             /\ UNCHANGED outcome
    BY <1>5
  <2> DEFINE u == Append(messages, Assistant(k))
             b == Len(messages) + 1
  <2>2. Assistant(k) \in Messages /\ Assistant(k).role = "assistant"
    BY AssistantCalls DEF Messages
  <2>3. u \in Seq(Messages) /\ Len(messages) \in Nat /\ DOMAIN messages = 1 .. Len(messages)
    BY <1>3, <2>2, OneMore
  <2>4. Asked(u) = Asked(messages) \cup {b}
    BY <1>3, <2>2, OneMore
  <2>5. RoundsOk(u, k)
    BY <1>3, AnswerKeepsRounds
  <2>6. IsFiniteSet(Asked(messages)) /\ Cardinality(Asked(messages)) \in Nat
    BY <1>3, AskedIsFinite
  <2>7. b \notin Asked(messages)
    BY <2>3 DEF Asked
  <2> HIDE DEF u, b
  <2>8. Cardinality(Asked(u)) = Cardinality(Asked(messages)) + 1
    BY <2>4, <2>6, <2>7, FS_AddElement
  <2> DEFINE old == Cardinality(Asked(messages))
             new == Cardinality(Asked(u))
  <2>9. new <= iterations
    <3>1. old < iterations /\ old \in Nat /\ new = old + 1
      BY <1>3, <2>6, <2>8
    <3> HIDE DEF old, new
    <3>2. QED
      BY <1>3, <3>1
  <2>10. messages' = u
    BY <2>1 DEF u
  <2>11. Cardinality(Asked(messages')) <= iterations'
    BY <1>1, <2>9, <2>10
  <2>12. RoundsOk(messages', calls') /\ messages' \in Seq(Messages)
    BY <2>1, <2>3, <2>5, <2>10
  <2>13. QED
    BY <1>1, <1>2, <2>1, <2>11, <2>12 DEF TalkInv
<1>6. QED
  BY <1>2, <1>4, <1>5 DEF ChatFails, ChatAnswers

LEMMA ToolRefusesKeeps ==
    ASSUME FilesInv, TalkInv, ToolRefuses
    PROVE  FilesInv' /\ TalkInv'
<1>1. Refusal.text \in Told
  BY DEF Refusal, Told
<1>2. QED
  BY <1>1, FilesStay, PushKeepsTalk DEF ToolRefuses

LEMMA ToolLocatesKeeps ==
    ASSUME FilesInv, TalkInv, ToolLocates
    PROVE  FilesInv' /\ TalkInv'
<1>1. Answer("workspace").text \in Told
  BY DEF Answer, Told
<1>2. QED
  BY <1>1, FilesStay, PushKeepsTalk DEF ToolLocates

LEMMA ToolReadsKeeps ==
    ASSUME FilesInv, TalkInv, ToolReads
    PROVE  FilesInv' /\ TalkInv'
<1>1. FilesOk(fs) /\ Tool /\ UNCHANGED <<fs, lastWrite>>
  BY DEF FilesInv, ToolReads
<1>2. PICK request \in Requests : Push(ReadFile(fs, request)) \/ Push(ListDirectory(fs, request))
  BY DEF ToolReads
<1>3. ReadFile(fs, request).text \in Told /\ ListDirectory(fs, request).text \in Told
  BY <1>1, ReadIsInside
<1>4. FilesInv'
  BY <1>1, FilesStay
<1>5. TalkInv'
  <2>1. CASE Push(ReadFile(fs, request))
    BY <1>1, <1>3, <2>1, PushKeepsTalk
  <2>2. CASE Push(ListDirectory(fs, request))
    BY <1>1, <1>3, <2>2, PushKeepsTalk
  <2>3. QED
    BY <1>2, <2>1, <2>2
<1>6. QED
  BY <1>4, <1>5

LEMMA ToolWritesKeeps ==
    ASSUME FilesInv, TalkInv, ToolWrites
    PROVE  FilesInv' /\ TalkInv'
<1>1. Tool /\ FilesOk(fs) /\ Refusal.text \in Told /\ Answer("written").text \in Told
  BY DEF ToolWrites, FilesInv, Refusal, Answer, Told
<1>2. PICK request \in Requests, text \in Texts :
          \/ ~Writable(fs, request) /\ Push(Refusal) /\ UNCHANGED <<fs, lastWrite>>
          \/ /\ Writable(fs, request)
             /\ fs' = WriteFile(fs, request, text)
             /\ lastWrite' = [path |-> request.path, text |-> text]
             /\ Push(Answer("written"))
  BY DEF ToolWrites
<1>3. CASE Push(Refusal) /\ UNCHANGED <<fs, lastWrite>>
  BY <1>1, <1>3, FilesStay, PushKeepsTalk
<1>4. CASE /\ Writable(fs, request)
           /\ fs' = WriteFile(fs, request, text)
           /\ lastWrite' = [path |-> request.path, text |-> text]
           /\ Push(Answer("written"))
  <2> DEFINE g == WriteFile(fs, request, text)
  <2>1. FilesOk(g) /\ FoundAt(g, request.path, text) /\ request.path \in Paths
    BY <1>1, <1>4, WriteIs
  <2> HIDE DEF g
  <2>2. fs' = g
    BY <1>4 DEF g
  <2>3. lastWrite'.path = request.path /\ lastWrite'.text = text
    BY <1>4
  <2>4. FilesInv'
    BY <2>1, <2>2, <2>3 DEF FilesInv
  <2>5. TalkInv'
    BY <1>1, <1>4, PushKeepsTalk
  <2>6. QED
    BY <2>4, <2>5
<1>5. QED
  BY <1>2, <1>3, <1>4

LEMMA ToolCreatesKeeps ==
    ASSUME FilesInv, TalkInv, ToolCreates
    PROVE  FilesInv' /\ TalkInv'
<1>1. Tool /\ FilesOk(fs) /\ Refusal.text \in Told /\ Answer("created").text \in Told
  BY DEF ToolCreates, FilesInv, Refusal, Answer, Told
<1>2. PICK request \in Requests :
          \/ ~Creatable(fs, request) /\ Push(Refusal) /\ UNCHANGED <<fs, lastWrite>>
          \/ /\ Creatable(fs, request)
             /\ Cardinality(Unused(fs)) >= Len(request.path)
             /\ fs' = CreateDirectory(fs, request)
             /\ Push(Answer("created"))
             /\ UNCHANGED lastWrite
  BY DEF ToolCreates
<1>3. CASE Push(Refusal) /\ UNCHANGED <<fs, lastWrite>>
  BY <1>1, <1>3, FilesStay, PushKeepsTalk
<1>4. CASE /\ Creatable(fs, request)
           /\ Cardinality(Unused(fs)) >= Len(request.path)
           /\ fs' = CreateDirectory(fs, request)
           /\ Push(Answer("created"))
           /\ UNCHANGED lastWrite
  <2> DEFINE g == CreateDirectory(fs, request)
  <2>1. FilesOk(g) /\ KeepsPlaces(fs, g)
    BY <1>1, <1>4, CreateIs
  <2> HIDE DEF g
  <2>2. lastWrite # NoWrite =>
            lastWrite.path \in Paths /\ FoundAt(g, lastWrite.path, lastWrite.text)
    BY <1>1, <2>1, FoundStays DEF FilesInv
  <2>3. fs' = g /\ lastWrite' = lastWrite
    BY <1>4 DEF g
  <2>4. FilesInv'
    BY <2>1, <2>2, <2>3 DEF FilesInv
  <2>5. TalkInv'
    BY <1>1, <1>4, PushKeepsTalk
  <2>6. QED
    BY <2>4, <2>5
<1>5. QED
  BY <1>2, <1>3, <1>4

LEMMA ToolCommandKeeps ==
    ASSUME FilesInv, TalkInv, ToolCommand
    PROVE  FilesInv' /\ TalkInv'
<1>1. Tool /\ FilesOk(fs) /\ Refusal.text \in Told /\ Answer("exit code").text \in Told
  BY DEF ToolCommand, FilesInv, Refusal, Answer, Told
<1>2. CASE Push(Refusal) /\ UNCHANGED <<fs, lastWrite>>
  BY <1>1, <1>2, FilesStay, PushKeepsTalk
<1>3. CASE \E n \in Names, entry \in {NoEntry, Link(Ws), Link(Out)} :
             /\ fs' = [fs EXCEPT ![Ws][n] = entry]
             /\ lastWrite' = NoWrite
             /\ Push(Answer("exit code"))
  <2>1. PICK n \in Names, entry \in {NoEntry, Link(Ws), Link(Out)} :
             /\ fs' = [fs EXCEPT ![Ws][n] = entry]
             /\ lastWrite' = NoWrite
             /\ Push(Answer("exit code"))
    BY <1>3
  <2> DEFINE g == [fs EXCEPT ![Ws][n] = entry]
  <2>2. entry \in Entries /\ entry # File(Out)
    <3>1. entry \in Entries
      BY Outer DEF Entries
    <3>2. NoEntry.type # File(Out).type /\ \A t : Link(t).type # File(Out).type
      BY DEF NoEntry, Link, File
    <3>3. QED
      BY <3>1, <3>2
  <2>3. /\ fs \in [Dirs -> [Names -> Entries]] /\ fs[Out] = Outside
        /\ \A d \in Dirs \ {Out}, m \in Names : fs[d][m] # File(Out)
    BY <1>1 DEF FilesOk
  <2>4. /\ g \in [Dirs -> [Names -> Entries]]
        /\ \A d \in Dirs, m \in Names : g[d][m] = fs[d][m] \/ g[d][m] = entry
        /\ g[Out] = fs[Out]
    BY <2>2, <2>3, Outer
  <2> HIDE DEF g
  <2>5. FilesOk(g)
    BY <2>2, <2>3, <2>4 DEF FilesOk
  <2>6. fs' = g
    BY <2>1 DEF g
  <2>7. FilesInv'
    BY <2>1, <2>5, <2>6 DEF FilesInv
  <2>8. TalkInv'
    BY <1>1, <2>1, PushKeepsTalk
  <2>9. QED
    BY <2>7, <2>8
<1>4. QED
  BY <1>2, <1>3 DEF ToolCommand

LEMMA ToolsDoneKeeps ==
    ASSUME FilesInv, TalkInv, ToolsDone
    PROVE  FilesInv' /\ TalkInv'
<1>1. FilesInv'
  BY FilesStay DEF ToolsDone
<1>2. TalkInv'
  BY DEF ToolsDone, TalkInv
<1>3. QED
  BY <1>1, <1>2

LEMMA InitIsSound == Init => FilesInv /\ TalkInv
<1> SUFFICES ASSUME Init PROVE FilesInv /\ TalkInv
  OBVIOUS
<1> DEFINE kinds == {NoEntry, Link(Out), Link("outside file"), Link("nowhere")}
                        \cup {File(t) : t \in Texts}
           entry(e, d, n) == CASE d = Ws -> e[n]
                               [] d = Out /\ n = OutsideFile -> File(Out)
                               [] OTHER -> NoEntry
<1>1. PICK e \in [Names -> kinds] : fs = [d \in Dirs |-> [n \in Names |-> entry(e, d, n)]]
  BY DEF Init
<1>2. kinds \subseteq Entries /\ \A x \in kinds : x # File(Out)
  <2>1. kinds \subseteq Entries
    BY Outer DEF Entries
  <2>2. \A t \in Texts : File(t) # File(Out)
    BY WorkspaceAssumption DEF File
  <2>3. NoEntry.type # File(Out).type /\ \A t : Link(t).type # File(Out).type
    BY DEF NoEntry, Link, File
  <2>4. QED
    BY <2>1, <2>2, <2>3
<1>3. NoEntry \in Entries /\ File(Out) \in Entries /\ NoEntry # File(Out)
  BY DEF Entries, NoEntry, File
<1> HIDE DEF kinds
<1>4. \A n \in Names :
        /\ entry(e, Ws, n) = e[n]
        /\ entry(e, Out, n) = IF n = OutsideFile THEN File(Out) ELSE NoEntry
        /\ \A d \in Dirs \ {Ws, Out} : entry(e, d, n) = NoEntry
  BY Outer
<1>5. \A d \in Dirs, n \in Names :
        entry(e, d, n) \in Entries /\ (d # Out => entry(e, d, n) # File(Out))
  BY <1>1, <1>2, <1>3, <1>4, Outer
<1> HIDE DEF entry
<1>6. FilesOk(fs)
  <2>1. fs \in [Dirs -> [Names -> Entries]]
    BY <1>1, <1>5
  <2>2. fs[Out] = Outside
    BY <1>1, <1>4, Outer DEF Outside
  <2>3. \A d \in Dirs \ {Out}, n \in Names : fs[d][n] # File(Out)
    BY <1>1, <1>5
  <2>4. QED
    BY <2>1, <2>2, <2>3 DEF FilesOk
<1>7. FilesInv
  BY <1>6 DEF FilesInv, Init
<1>8. messages = <<User>> /\ calls = 0 /\ iterations = 0 /\ at = "loop" /\ outcome = "none"
  BY DEF Init
<1>9. User \in Messages /\ User.role # "assistant"
  BY DEF Messages, User
<1>10. messages \in Seq(Messages) /\ Asked(messages) = {}
  BY <1>8, <1>9 DEF Asked
<1>11. Cardinality(Asked(messages)) = 0
  BY <1>10, FS_EmptySet
<1>12. TalkInv
  BY <1>8, <1>10, <1>11, AgentAssumption DEF TalkInv, RoundsOk
<1>13. QED
  BY <1>7, <1>12

LEMMA NextKeeps ==
    ASSUME FilesInv, TalkInv, [Next]_vars
    PROVE  FilesInv' /\ TalkInv'
<1>1. CASE UNCHANGED vars
  <2>1. FilesInv'
    BY <1>1, FilesStay DEF vars
  <2>2. TalkInv'
    BY <1>1 DEF vars, TalkInv
  <2>3. QED
    BY <2>1, <2>2
<1>2. CASE Next
  BY <1>2, AskKeeps, ChatKeeps, ToolRefusesKeeps, ToolLocatesKeeps, ToolReadsKeeps, ToolWritesKeeps,
     ToolCreatesKeeps, ToolCommandKeeps, ToolsDoneKeeps DEF Next, AgentStep
<1>3. QED
  BY <1>1, <1>2

LEMMA InvHolds == Spec => [](FilesInv /\ TalkInv)
  BY InitIsSound, NextKeeps, PTL DEF Spec

-----------------------------------------------------------------------------
(* What the invariant says.                                                *)

LEMMA RoundsAreAnswered ==
    ASSUME NEW m \in Seq(Messages), RoundsOk(m, 0), NEW i \in Asked(m)
    PROVE  LET k == Cardinality(m[i].calls)
           IN  Results(m, i, k) /\ (i + k < Len(m) => m[i + k + 1].role = "assistant")
<1> DEFINE k == Cardinality(m[i].calls)
<1>1. PICK a \in Asked(m) : LastRound(m, a, 0) /\ \A j \in Asked(m) \ {a} : Complete(m, j)
  BY DEF RoundsOk
<1>2. CASE i # a
  BY <1>1, <1>2 DEF Complete
<1>3. CASE i = a
  <2>1. m[i] \in Messages /\ m[i].role = "assistant" /\ i \in Nat
    BY DEF Asked
  <2>2. k \in Nat
    BY <2>1, MessageTypes
  <2>3. Len(m) = i + (k - 0) /\ Results(m, i, k - 0)
    BY <1>1, <1>3 DEF LastRound
  <2> HIDE DEF k
  <2>4. k - 0 = k /\ ~(i + k < Len(m))
    BY <2>1, <2>2, <2>3
  <2>5. Results(m, i, k)
    BY <2>3, <2>4
  <2>6. QED
    BY <2>4, <2>5 DEF k
<1>4. QED
  BY <1>2, <1>3

\* However the workspace is linked and whatever the model asks for, the file tools change
\* nothing outside it and tell nothing from outside, and what write_file wrote is what
\* read_file finds under the same path, although each resolves the path in its own way
\* (tools/filesystem.rs).
THEOREM ToolsAreConfined == Spec => []WorkspaceIsSound
<1>1. FilesInv /\ TalkInv => WorkspaceIsSound
  <2> SUFFICES ASSUME FilesInv, TalkInv PROVE WorkspaceIsSound
    OBVIOUS
  <2>1. \A i \in DOMAIN messages : messages[i].text # Out
    <3>1. messages \in Seq(Messages)
      BY DEF TalkInv
    <3>2. \A i \in DOMAIN messages : messages[i] \in Messages
      BY <3>1
    <3>3. QED
      BY <3>2, MessageTypes
  <2>2. ToolsStayInside
    BY <2>1 DEF ToolsStayInside, FilesInv, FilesOk, Outside
  <2>3. WrittenFilesAreRead
    BY FoundIsRead DEF WrittenFilesAreRead, FilesInv
  <2>4. QED
    BY <2>2, <2>3 DEF WorkspaceIsSound
<1>2. QED
  BY <1>1, InvHolds, PTL

\* The model is asked again only when each of its calls has its one result, in the order
\* of the calls, and not more often than the limit (Agent::run).
THEOREM ConversationsAreSound == Spec => []ConversationIsSound
<1>1. FilesInv /\ TalkInv => ConversationIsSound
  <2> SUFFICES ASSUME FilesInv, TalkInv PROVE ConversationIsSound
    OBVIOUS
  <2>1. /\ messages \in Seq(Messages) /\ RoundsOk(messages, calls) /\ iterations \in Nat
        /\ iterations <= MaxIterations
    BY AgentAssumption DEF TalkInv
  <2>2. TypeOK
    BY <2>1 DEF TalkInv, TypeOK, FilesInv, FilesOk
  <2>3. EveryCallIsAnswered
    <3> SUFFICES ASSUME at = "chat", NEW i \in DOMAIN messages, messages[i].role = "assistant"
                 PROVE  LET k == Cardinality(messages[i].calls)
                        IN  /\ i + k <= Len(messages)
                            /\ \A n \in 1 .. k : messages[i + n].role = "tool" /\ messages[i + n].id = n
                            /\ i + k < Len(messages) => messages[i + k + 1].role = "assistant"
      BY DEF EveryCallIsAnswered
    <3>1. calls = 0 /\ i \in Asked(messages)
      BY DEF TalkInv, Asked
    <3>2. QED
      BY <2>1, <3>1, RoundsAreAnswered DEF Results
  <2>4. RequestsAreBounded
    <3>1. {i \in DOMAIN messages : messages[i].role = "assistant"} = Asked(messages)
      BY DEF Asked
    <3>2. Cardinality(Asked(messages)) <= iterations
      BY DEF TalkInv
    <3> DEFINE card == Cardinality(Asked(messages))
    <3>3. card \in Nat
      BY <2>1, AskedIsFinite
    <3> HIDE DEF card
    <3>4. card <= MaxIterations
      BY <2>1, <3>2, <3>3, AgentAssumption DEF card
    <3>5. QED
      BY <3>1, <3>4 DEF RequestsAreBounded, card
  <2>5. QED
    BY <2>2, <2>3, <2>4 DEF ConversationIsSound
<1>2. QED
  BY <1>1, InvHolds, PTL

-----------------------------------------------------------------------------
(* Calls that a model writes as text.                                      *)

\* What a value is made of, as it is read and as it was typed, and what stands between
\* the marker of a function and the end of its call.
Spoken == {"text", "blank"}
Typed == Spoken \cup {"indented"}
Within == Typed \cup {"</parameter>", "</function>", "<parameter=path>", "<parameter=content>"}

Readings ==
    [given : SUBSET (Parameters \X Seq(Within)), name : Parameters \cup {"none"},
     value : Seq(Within), done : BOOLEAN, spoiled : BOOLEAN]

Unread == [given |-> {}, name |-> "none", value |-> <<>>, done |-> FALSE, spoiled |-> FALSE]

Read(lines) == FoldLeft(ParameterLine, Unread, lines)

ReadStep == [p \in Readings \X Within |-> ParameterLine(p[1], p[2])]

LEMMA TrimmedType ==
    ASSUME NEW value \in Seq(Within)
    PROVE  Trimmed(value) \in Seq(Within)
<1> DEFINE kept == {i \in DOMAIN value : \E j \in i .. Len(value) : value[j] # "blank"}
<1>1. Len(value) \in Nat /\ DOMAIN value = 1 .. Len(value)
  BY LenProperties
<1>2. kept \subseteq 1 .. Len(value) /\ IsFiniteSet(1 .. Len(value))
      /\ Cardinality(1 .. Len(value)) = Len(value)
  <2>1. 1 \in Int /\ Len(value) \in Int
    BY <1>1
  <2>2. IsFiniteSet(1 .. Len(value)) /\ Cardinality(1 .. Len(value)) = Len(value)
    BY <1>1, <2>1, FS_Interval, SMTT(60)
  <2>3. QED
    BY <1>1, <2>2
<1>3. Cardinality(kept) \in Nat /\ Cardinality(kept) <= Len(value)
  <2> HIDE DEF kept
  <2>1. QED
    BY <1>2, FS_Subset, FS_CardinalityType
<1> HIDE DEF kept
<1>4. \A i \in 1 .. Cardinality(kept) : value[i] \in Within
  BY <1>1, <1>3, ElementOfSeq
<1>5. SubSeq(value, 1, Cardinality(kept)) \in Seq(Within)
  BY <1>1, <1>3, <1>4, SubSeqProperties
<1>6. QED
  BY <1>5 DEF Trimmed, kept

LEMMA StoredType ==
    ASSUME NEW acc \in Readings
    PROVE  Stored(acc) \in Readings
<1>1. CASE acc.name = "none"
  BY <1>1 DEF Stored
<1>2. CASE acc.name # "none"
  <2>1. acc.name \in Parameters /\ acc.value \in Seq(Within) /\ acc.given \subseteq Parameters \X Seq(Within)
    BY <1>2 DEF Readings
  <2>2. <<acc.name, Trimmed(acc.value)>> \in Parameters \X Seq(Within)
    BY <2>1, TrimmedType
  <2> DEFINE g == {g \in acc.given : g[1] # acc.name} \cup {<<acc.name, Trimmed(acc.value)>>}
  <2>3. g \in SUBSET (Parameters \X Seq(Within))
    BY <2>1, <2>2
  <2>4. Stored(acc) = [given |-> g, name |-> "none", value |-> <<>>, done |-> acc.done,
                       spoiled |-> acc.spoiled]
    BY <1>2 DEF Stored, Readings
  <2>5. <<>> \in Seq(Within)
    OBVIOUS
  <2> HIDE DEF g
  <2>6. QED
    BY <2>3, <2>4, <2>5 DEF Readings
<1>3. QED
  BY <1>1, <1>2

\* What a line does, for each of the lines there are.
LEMMA LineIs ==
    ASSUME NEW acc \in Readings, ~acc.done
    PROVE  /\ ParameterLine(acc, "</parameter>") = Stored(acc)
           /\ ParameterLine(acc, "</function>") = [acc EXCEPT !.done = TRUE]
           /\ \A p \in Parameters : ParameterLine(acc, Opening(p)) = [Stored(acc) EXCEPT !.name = p]
           /\ \A line \in Typed :
                 ParameterLine(acc, line) =
                    IF acc.name = "none" \/ (line = "blank" /\ acc.value = <<>>) THEN acc
                    ELSE [acc EXCEPT !.value = Append(@, Trim(line))]
<1> DEFINE Opens(line) == \E p \in Parameters : line = Opening(p)
<1>0. ~Opens("</parameter>") /\ ~Opens("</function>")
  BY DEF Opening
<1>1. ParameterLine(acc, "</parameter>") = Stored(acc)
  BY <1>0 DEF ParameterLine
<1>2. ParameterLine(acc, "</function>") = [acc EXCEPT !.done = TRUE]
  BY <1>0 DEF ParameterLine
<1>3. ASSUME NEW p \in Parameters
      PROVE  ParameterLine(acc, Opening(p)) = [Stored(acc) EXCEPT !.name = p]
  <2>1. Opening(p) \notin {"</parameter>", "</function>", "<parameter=>"}
    BY DEF Opening
  <2>2. \A q \in Parameters : Opening(p) = Opening(q) <=> q = p
    BY DEF Opening, Parameters
  <2>3. (CHOOSE q \in Parameters : Opening(p) = Opening(q)) = p
    BY <2>2
  <2>4. \E q \in Parameters : Opening(p) = Opening(q)
    OBVIOUS
  <2> DEFINE line == Opening(p)
  <2> HIDE DEF line
  <2>5. /\ line \notin {"</parameter>", "</function>", "<parameter=>"}
        /\ (CHOOSE q \in Parameters : line = Opening(q)) = p
        /\ \E q \in Parameters : line = Opening(q)
    BY <2>1, <2>3, <2>4 DEF line
  <2>6. ParameterLine(acc, line) = [Stored(acc) EXCEPT !.name = p]
    BY <2>5 DEF ParameterLine
  <2>7. QED
    BY <2>6 DEF line
<1>4. ASSUME NEW line \in Typed
      PROVE  ParameterLine(acc, line) =
                IF acc.name = "none" \/ (line = "blank" /\ acc.value = <<>>) THEN acc
                ELSE [acc EXCEPT !.value = Append(@, Trim(line))]
  <2>1. line \notin {"</parameter>", "</function>", "<parameter=>"}
    BY DEF Spoken, Typed
  <2>2. ~ \E p \in Parameters : line = Opening(p)
    BY DEF Opening, Spoken, Typed
  <2>3. QED
    BY <2>1, <2>2 DEF ParameterLine
<1>5. QED
  BY <1>1, <1>2, <1>3, <1>4

LEMMA LineType ==
    ASSUME NEW acc \in Readings, NEW line \in Within
    PROVE  ParameterLine(acc, line) \in Readings
<1>1. CASE acc.done
  BY <1>1 DEF ParameterLine
<1>2. CASE ~acc.done
  <2>1. Stored(acc) \in Readings
    BY StoredType
  <2>2. CASE line = "</parameter>"
    BY <1>2, <2>1, <2>2, LineIs
  <2>3. CASE line = "</function>"
    <3>1. [acc EXCEPT !.done = TRUE] \in Readings
      BY DEF Readings
    <3>2. QED
      BY <1>2, <2>3, <3>1, LineIs
  <2>4. CASE \E p \in Parameters : line = Opening(p)
    <3>1. PICK p \in Parameters : line = Opening(p)
      BY <2>4
    <3>2. [Stored(acc) EXCEPT !.name = p] \in Readings
      BY <2>1 DEF Readings
    <3>3. QED
      BY <1>2, <3>1, <3>2, LineIs
  <2>5. CASE line \in Typed
    <3>1. Trim(line) \in Within
      BY <2>5 DEF Trim, Within, Typed, Spoken
    <3>2. [acc EXCEPT !.value = Append(@, Trim(line))] \in Readings
      <4>1. Append(acc.value, Trim(line)) \in Seq(Within)
        BY <3>1 DEF Readings
      <4>2. QED
        BY <4>1 DEF Readings
    <3>3. QED
      BY <1>2, <2>5, <3>2, LineIs
  <2>6. line \in {Opening("path"), Opening("content")}
        => \E p \in Parameters : line = Opening(p)
    BY DEF Parameters
  <2>7. QED
    BY <2>2, <2>3, <2>4, <2>5, <2>6 DEF Within, Opening
<1>3. QED
  BY <1>1, <1>2

LEMMA ReadFold ==
    ASSUME NEW s \in Seq(Within)
    PROVE  Folding(Readings, ReadStep, Unread, s, Read(s))
<1> DEFINE N == Len(s)
           Of(f) == [d \in SUBSET (DOMAIN s) |->
                       IF d = {} THEN Unread ELSE ParameterLine(f[d \ {Max(d)}], s[Max(d)])]
           iter == CHOOSE f : f = Of(f)
<1>1. ReadStep \in [Readings \X Within -> Readings]
  BY LineType DEF ReadStep
<1>2. Unread \in Readings
  <2>1. <<>> \in Seq(Within)
    OBVIOUS
  <2>2. QED
    BY <2>1 DEF Unread, Readings
<1>3. N \in Nat /\ DOMAIN s = 1 .. N /\ (\A i \in 1 .. N : s[i] \in Within)
      /\ s \in [1 .. N -> Within]
  BY LenProperties, ElementOfSeq
<1>4. \E f : f = Of(f)
  <2>1. PICK g \in [SUBSET (1 .. N) -> Readings] :
          \A d \in SUBSET (1 .. N) :
             g[d] = IF d = {} THEN Unread ELSE ReadStep[<<g[d \ {Max(d)}], s[Max(d)]>>]
    <3>1. \E g \in [SUBSET (1 .. N) -> Readings] : FoldFunctionOf(ReadStep, Unread, s, N, g)
      BY ONLY <1>1, <1>2, <1>3, FoldExists
    <3>2. QED
      BY <3>1 DEF FoldFunctionOf
  <2>2. ASSUME NEW d \in SUBSET (1 .. N)
        PROVE  g[d] = IF d = {} THEN Unread ELSE ParameterLine(g[d \ {Max(d)}], s[Max(d)])
    <3>1. CASE d = {}
      BY <2>1, <3>1
    <3>2. CASE d # {}
      <4>1. Max(d) \in 1 .. N
        BY <1>3, <3>2, MaxIsGreatest
      <4>2. g[d \ {Max(d)}] \in Readings /\ s[Max(d)] \in Within
        BY <1>3, <4>1
      <4>3. ReadStep[<<g[d \ {Max(d)}], s[Max(d)]>>] = ParameterLine(g[d \ {Max(d)}], s[Max(d)])
        BY <4>2 DEF ReadStep
      <4>4. QED
        BY <2>1, <3>2, <4>3
    <3>3. QED
      BY <3>1, <3>2
  <2>3. g = [d \in SUBSET (1 .. N) |-> g[d]]
    OBVIOUS
  <2>4. g = Of(g)
    BY <1>3, <2>2, <2>3
  <2>5. QED
    BY <2>4
<1>5. iter = Of(iter)
  BY <1>4
<1>6. Read(s) = iter[1 .. N]
  BY <1>3 DEF Read, FoldLeft, MapThenFoldSet
<1> HIDE DEF iter
<1>7. \A d \in SUBSET (1 .. N) :
        iter[d] = IF d = {} THEN Unread ELSE ParameterLine(iter[d \ {Max(d)}], s[Max(d)])
  BY <1>3, <1>5
<1>8. iter[1 .. 0] = Unread
  <2>1. 1 .. 0 = {} /\ 1 .. 0 \in SUBSET (1 .. N)
    OBVIOUS
  <2>2. QED
    BY <1>7, <2>1
<1>9. ASSUME NEW n \in 1 .. N, iter[1 .. n - 1] \in Readings
      PROVE  iter[1 .. n] = ReadStep[<<iter[1 .. n - 1], s[n]>>]
  <2>1. Max(1 .. n) = n /\ (1 .. n) \ {n} = 1 .. n - 1
    BY MaxOfInterval
  <2>2. 1 .. n \in SUBSET (1 .. N) /\ 1 .. n # {}
    <3>1. n \in 1 .. n /\ \A i \in 1 .. n : i \in 1 .. N
      BY <1>3
    <3>2. QED
      BY <3>1
  <2>3. iter[1 .. n] = ParameterLine(iter[1 .. n - 1], s[n])
    BY <1>7, <2>1, <2>2
  <2>4. QED
    BY <1>3, <1>9, <2>3 DEF ReadStep
<1>10. Folding(Readings, ReadStep, Unread, s, iter[1 .. Len(s)])
  <2>1. \A n \in 1 .. Len(s) : iter[1 .. n - 1] \in Readings
                               => iter[1 .. n] = ReadStep[<<iter[1 .. n - 1], s[n]>>]
    BY <1>9
  <2>2. QED
    BY ONLY <1>1, <1>2, <1>8, <2>1, ChosenFolds
<1>11. QED
  BY <1>6, <1>10

\* A body is read line by line.
LEMMA Reads ==
    /\ Read(<<>>) = Unread
    /\ \A s \in Seq(Within) : Read(s) \in Readings
    /\ \A s \in Seq(Within), e \in Within : Read(Append(s, e)) = ParameterLine(Read(s), e)
<1>1. Read(<<>>) = Unread
  <2>1. <<>> \in Seq(Within)
    OBVIOUS
  <2> DEFINE o == <<>>
  <2>2. Folding(Readings, ReadStep, Unread, <<>>, Read(o))
    BY <2>1, ReadFold
  <2> HIDE DEF o
  <2>3. Read(o) = Unread
    BY <2>2, FoldingEmpty
  <2>4. QED
    BY <2>3 DEF o
<1>2. ASSUME NEW s \in Seq(Within) PROVE Read(s) \in Readings
  BY ReadFold, FoldingType
<1>3. ASSUME NEW s \in Seq(Within), NEW e \in Within
      PROVE  Read(Append(s, e)) = ParameterLine(Read(s), e)
  <2>1. Append(s, e) \in Seq(Within)
    OBVIOUS
  <2>2. Read(Append(s, e)) = ReadStep[<<Read(s), e>>]
    <3>1. Folding(Readings, ReadStep, Unread, s, Read(s))
      BY ReadFold
    <3>2. Folding(Readings, ReadStep, Unread, Append(s, e), Read(Append(s, e)))
      BY <2>1, ReadFold
    <3>3. QED
      BY ONLY <3>1, <3>2, s \in Seq(Within), e \in Within, FoldingAppend
  <2>3. QED
    BY <1>2, <2>2 DEF ReadStep
<1>4. QED
  BY <1>1, <1>2, <1>3

-----------------------------------------------------------------------------
(* The lines of a value.                                                   *)

\* w is v without the blank lines that it begins with.
LeadsTo(v, w) ==
    \E k \in 0 .. Len(v) :
        /\ \A i \in 1 .. k : v[i] = "blank"
        /\ k < Len(v) => v[k + 1] = "text"
        /\ w = SubSeq(v, k + 1, Len(v))

LEMMA LeadGrows ==
    ASSUME NEW v \in Seq(Spoken), NEW w, LeadsTo(v, w), NEW line \in Spoken
    PROVE  IF line = "blank" /\ w = <<>> THEN LeadsTo(Append(v, line), w)
           ELSE LeadsTo(Append(v, line), Append(w, line))
<1> DEFINE n == Len(v)
           u == Append(v, line)
<1>1. n \in Nat /\ \A i \in 1 .. n : v[i] \in Spoken
  BY LenProperties, ElementOfSeq
<1>2. PICK k \in 0 .. n : /\ \A i \in 1 .. k : v[i] = "blank"
                          /\ k < n => v[k + 1] = "text"
                          /\ w = SubSeq(v, k + 1, n)
  BY DEF LeadsTo
<1>3. Len(u) = n + 1 /\ (\A i \in 1 .. n : u[i] = v[i]) /\ u[n + 1] = line /\ u \in Seq(Spoken)
  BY AppendProperties
<1>4. k \in Nat /\ k <= n
  BY <1>1, <1>2
<1>5. w \in Seq(Spoken) /\ Len(w) = n - k /\ \A i \in 1 .. n - k : w[i] = v[k + i]
  <2>1. \A i \in k + 1 .. n : v[i] \in Spoken
    BY <1>1, <1>4
  <2>2. w = [i \in 1 .. n - k |-> v[k + i]]
    <3>1. w = [i \in 1 .. n - (k + 1) + 1 |-> v[i + (k + 1) - 1]]
      BY <1>1, <1>2, <1>4, SubSeqProperties
    <3>2. QED
      BY <1>1, <1>4, <3>1
  <2>3. QED
    BY <1>1, <1>4, <2>1, <2>2
<1> HIDE DEF u
<1>6. CASE line = "blank" /\ w = <<>>
  <2>1. k = n
    BY <1>1, <1>4, <1>5, <1>6
  <2>2. n + 1 \in 0 .. Len(u) /\ (\A i \in 1 .. n + 1 : u[i] = "blank")
    BY <1>1, <1>2, <1>3, <1>6, <2>1
  <2> DEFINE m == n + 1
  <2>3. SubSeq(u, m + 1, Len(u)) = <<>>
    BY <1>1, <1>3
  <2>4. LeadsTo(u, w)
    <3>1. m \in 0 .. Len(u) /\ (\A i \in 1 .. m : u[i] = "blank") /\ ~(m < Len(u))
      BY <1>1, <1>3, <2>2
    <3>2. w = SubSeq(u, m + 1, Len(u))
      BY <1>6, <2>3
    <3> HIDE DEF m
    <3>3. QED
      BY <3>1, <3>2 DEF LeadsTo
  <2>5. QED
    BY <1>6, <2>4 DEF u
<1>7. CASE ~(line = "blank" /\ w = <<>>)
  <2>1. k \in 0 .. Len(u) /\ \A i \in 1 .. k : u[i] = "blank"
    BY <1>1, <1>2, <1>3, <1>4, SMTT(60)
  <2>2. u[k + 1] = "text"
    <3>1. CASE k < n
      BY <1>1, <1>2, <1>3, <1>4, <3>1, SMTT(60)
    <3>2. CASE k = n
      <4>1. w = <<>>
        BY <1>5, <1>1, <3>2
      <4>2. QED
        BY <1>3, <1>7, <3>2, <4>1 DEF Spoken
    <3>3. QED
      BY <1>4, <1>1, <3>1, <3>2
  <2>3. SubSeq(u, k + 1, Len(u)) = Append(w, line)
    <3> DEFINE a == SubSeq(u, k + 1, Len(u))
               b == Append(w, line)
    <3>1. a = [i \in 1 .. n + 1 - k |-> u[k + i]]
      <4>1. a = [i \in 1 .. Len(u) - (k + 1) + 1 |-> u[i + (k + 1) - 1]]
        BY <1>3, <1>4, <1>1
      <4>2. QED
        BY <1>1, <1>3, <1>4, <4>1
    <3>2. b \in Seq(Spoken) /\ Len(b) = n + 1 - k /\ b[n + 1 - k] = line
          /\ \A i \in 1 .. n - k : b[i] = w[i]
      BY <1>1, <1>4, <1>5, AppendProperties
    <3>3. b = [i \in 1 .. n + 1 - k |-> b[i]]
      BY <3>2, LenProperties
    <3>4. \A i \in 1 .. n + 1 - k : b[i] = u[k + i]
      <4>1. SUFFICES ASSUME NEW i \in 1 .. n + 1 - k PROVE b[i] = u[k + i]
        OBVIOUS
      <4>2. CASE i = n + 1 - k
        BY <1>1, <1>3, <1>4, <3>2, <4>2
      <4>3. CASE i # n + 1 - k
        <5>1. i \in 1 .. n - k /\ k + i \in 1 .. n
          BY <1>1, <1>4, <4>3
        <5>2. QED
          BY <1>3, <1>5, <3>2, <5>1
      <4>4. QED
        BY <4>2, <4>3
    <3> HIDE DEF a, b
    <3>5. a = b
      BY <3>1, <3>3, <3>4
    <3>6. QED
      BY <3>5 DEF a, b
  <2>4. LeadsTo(u, Append(w, line))
    BY <2>1, <2>2, <2>3 DEF LeadsTo
  <2>5. QED
    BY <1>7, <2>4 DEF u
<1>8. QED
  BY <1>6, <1>7

\* v from its first to its last line that says something.
Core(v) ==
    LET told == {i \in DOMAIN v : v[i] = "text"}
    IN  IF told = {} THEN <<>>
        ELSE SubSeq(v, CHOOSE i \in told : \A j \in told : i <= j,
                       CHOOSE i \in told : \A j \in told : i >= j)

LEMMA TrimmedIs ==
    ASSUME NEW v \in Seq(Spoken), NEW w, LeadsTo(v, w)
    PROVE  w \in Seq(Spoken) /\ Trimmed(w) = Core(v)
<1> DEFINE n == Len(v)
           told == {i \in DOMAIN v : v[i] = "text"}
           kept == {i \in DOMAIN w : \E j \in i .. Len(w) : w[j] # "blank"}
<1>1. n \in Nat /\ DOMAIN v = 1 .. n /\ \A i \in 1 .. n : v[i] \in Spoken
  BY LenProperties, ElementOfSeq
<1>2. PICK k \in 0 .. n : /\ \A i \in 1 .. k : v[i] = "blank"
                          /\ k < n => v[k + 1] = "text"
                          /\ w = SubSeq(v, k + 1, n)
  BY DEF LeadsTo
<1>3. k \in Nat /\ k <= n
  BY <1>1, <1>2
<1>4. w \in Seq(Spoken) /\ Len(w) = n - k /\ \A i \in 1 .. n - k : w[i] = v[k + i]
  <2>1. \A i \in k + 1 .. n : v[i] \in Spoken
    BY <1>1, <1>3
  <2>2. w = [i \in 1 .. n - k |-> v[k + i]]
    <3>1. w = [i \in 1 .. n - (k + 1) + 1 |-> v[i + (k + 1) - 1]]
      BY <1>1, <1>2, <1>3, SubSeqProperties
    <3>2. QED
      BY <1>1, <1>3, <3>1
  <2>3. QED
    BY <1>1, <1>3, <2>1, <2>2
<1>5. DOMAIN w = 1 .. n - k
  BY <1>4, LenProperties
<1>6. CASE told = {}
  <2>1. k = n
    <3>1. ~(k < n)
      <4>1. SUFFICES ASSUME k < n PROVE FALSE
        OBVIOUS
      <4>2. k + 1 \in told
        BY <1>1, <1>2, <1>3, <4>1
      <4>3. QED
        BY <1>6, <4>2
    <3>2. n \in Nat /\ k \in Nat /\ k <= n
      BY <1>1, <1>3
    <3> HIDE DEF n, told, kept
    <3>3. QED
      BY <3>1, <3>2
  <2>2. w = <<>> /\ kept = {}
    BY <1>1, <1>4, <1>5, <2>1
  <2>3. Cardinality({}) = 0
    BY FS_EmptySet
  <2>4. Trimmed(w) = <<>>
    BY <2>2, <2>3, SubSeqEmpty DEF Trimmed
  <2>5. Core(v) = <<>>
    BY <1>6 DEF Core
  <2>6. QED
    BY <1>4, <2>4, <2>5
<1>7. CASE told # {}
  <2>1. told \subseteq 1 .. n
    BY <1>1
  <2> DEFINE first == CHOOSE i \in told : \A j \in told : i <= j
             last == CHOOSE i \in told : \A j \in told : i >= j
  <2>2. last \in told /\ \A j \in told : last >= j
    <3>1. PICK m \in told : \A j \in told : j <= m
      <4> HIDE DEF told
      <4>1. Max(told) \in told /\ \A m \in told : m <= Max(told)
        BY <1>1, <1>7, <2>1, MaxIsGreatest
      <4>2. QED
        BY <4>1
    <3>2. \A j \in told : m >= j
      BY <1>1, <3>1
    <3> HIDE DEF told
    <3>3. QED
      BY <3>1, <3>2
  <2>3. k < n /\ k + 1 \in told
    BY <1>1, <1>2, <1>3, <1>7
  <2>4. \A i \in told : k + 1 <= i
    BY <1>1, <1>2, <1>3
  <2>5. first = k + 1
    <3>1. \A i \in told : (\A j \in told : i <= j) <=> i = k + 1
      BY <2>1, <1>1, <1>3, <2>3, <2>4
    <3> HIDE DEF told
    <3>2. QED
      BY <2>3, <3>1
  <2> HIDE DEF last, first
  <2>6. last \in 1 .. n /\ k < last
    BY <1>1, <1>3, <2>1, <2>2, <2>4
  <2>7. kept = 1 .. last - k
    <3>1. \A j \in 1 .. n - k : w[j] # "blank" <=> k + j \in told
      BY <1>1, <1>3, <1>4 DEF Spoken
    <3>2. ASSUME NEW i \in 1 .. last - k PROVE i \in kept
      <4>1. last - k \in i .. Len(w) /\ last - k \in 1 .. n - k /\ k + (last - k) = last /\ i \in DOMAIN w
        BY <1>1, <1>3, <1>4, <1>5, <2>6
      <4>2. w[last - k] # "blank"
        BY <2>2, <3>1, <4>1
      <4>3. QED
        BY <4>1, <4>2
    <3>3. ASSUME NEW i \in kept PROVE i \in 1 .. last - k
      <4>1. PICK j \in i .. Len(w) : w[j] # "blank"
        OBVIOUS
      <4>2. i \in 1 .. n - k /\ j \in 1 .. n - k
        BY <1>1, <1>3, <1>4, <1>5, <4>1
      <4>3. last >= k + j
        BY <2>2, <3>1, <4>1, <4>2
      <4>4. QED
        BY <1>1, <1>3, <2>6, <4>1, <4>2, <4>3
    <3> HIDE DEF kept
    <3>4. QED
      BY <3>2, <3>3
  <2>8. Cardinality(1 .. last - k) = last - k
    <3>1. last - k \in Nat /\ 1 \in Int /\ last - k \in Int
      BY <1>1, <1>3, <2>6
    <3>2. QED
      BY <3>1, FS_Interval
  <2>9. Trimmed(w) = SubSeq(w, 1, last - k)
    BY <2>7, <2>8 DEF Trimmed
  <2>10. Core(v) = SubSeq(v, k + 1, last)
    BY <1>7, <2>5 DEF Core, first, last
  <2>11. SubSeq(w, 1, last - k) = SubSeq(v, k + 1, last)
    <3>1. SubSeq(w, 1, last - k) = [i \in 1 .. last - k |-> w[i]]
      <4>1. SubSeq(w, 1, last - k) = [i \in 1 .. last - k - 1 + 1 |-> w[i + 1 - 1]]
        BY <1>1, <1>3, <2>6
      <4>2. QED
        BY <1>1, <1>3, <2>6, <4>1
    <3>2. SubSeq(v, k + 1, last) = [i \in 1 .. last - k |-> v[k + i]]
      <4>1. SubSeq(v, k + 1, last) = [i \in 1 .. last - (k + 1) + 1 |-> v[i + (k + 1) - 1]]
        BY <1>1, <1>3, <2>6
      <4>2. QED
        BY <1>1, <1>3, <2>6, <4>1
    <3>3. \A i \in 1 .. last - k : w[i] = v[k + i]
      BY <1>1, <1>3, <1>4, <2>6
    <3>4. QED
      BY <3>1, <3>2, <3>3
  <2>12. QED
    BY <1>4, <2>9, <2>10, <2>11
<1>8. QED
  BY <1>6, <1>7

\* What the lines of a value say, whatever their indentation.
Said(v) == [i \in DOMAIN v |-> IF v[i] = "blank" THEN "blank" ELSE "text"]

LEMMA TrimIs ==
    ASSUME NEW line \in Typed
    PROVE  /\ Trim(line) \in Spoken /\ (Trim(line) = "blank" <=> line = "blank")
           /\ Trim(line) = IF line = "blank" THEN "blank" ELSE "text"
BY DEF Trim, Typed, Spoken

LEMMA SaidType ==
    ASSUME NEW v \in Seq(Typed)
    PROVE  Said(v) \in Seq(Spoken) /\ Len(Said(v)) = Len(v)
<1>1. Len(v) \in Nat /\ DOMAIN v = 1 .. Len(v)
  BY LenProperties
<1>2. Said(v) = [i \in 1 .. Len(v) |-> IF v[i] = "blank" THEN "blank" ELSE "text"]
  BY <1>1 DEF Said
<1>3. \A i \in 1 .. Len(v) : (IF v[i] = "blank" THEN "blank" ELSE "text") \in Spoken
  BY DEF Spoken
<1>4. QED
  BY <1>1, <1>2, <1>3

LEMMA SaidAppend ==
    ASSUME NEW v \in Seq(Typed), NEW line \in Typed
    PROVE  Said(Append(v, line)) = Append(Said(v), Trim(line))
<1> DEFINE n == Len(v)
           a == Said(Append(v, line))
           b == Append(Said(v), Trim(line))
<1>1. n \in Nat /\ DOMAIN v = 1 .. n
  BY LenProperties
<1>2. /\ Append(v, line) \in Seq(Typed) /\ Len(Append(v, line)) = n + 1
      /\ (\A i \in 1 .. n : Append(v, line)[i] = v[i]) /\ Append(v, line)[n + 1] = line
  BY AppendProperties
<1>3. DOMAIN Append(v, line) = 1 .. n + 1
  BY <1>2, LenProperties
<1>4. a \in Seq(Spoken) /\ Len(a) = n + 1
  BY <1>2, SaidType
<1>5. \A i \in 1 .. n + 1 : a[i] = IF Append(v, line)[i] = "blank" THEN "blank" ELSE "text"
  BY <1>3 DEF Said
<1>6. Said(v) \in Seq(Spoken) /\ Len(Said(v)) = n /\ Trim(line) \in Spoken
  BY SaidType, TrimIs
<1>7. \A i \in 1 .. n : Said(v)[i] = IF v[i] = "blank" THEN "blank" ELSE "text"
  BY <1>1 DEF Said
<1>8. /\ b \in Seq(Spoken) /\ Len(b) = n + 1
      /\ (\A i \in 1 .. n : b[i] = Said(v)[i]) /\ b[n + 1] = Trim(line)
  BY <1>6, AppendProperties
<1>9. Trim(line) = IF line = "blank" THEN "blank" ELSE "text"
  BY TrimIs
<1> HIDE DEF a, b
<1>10. \A i \in 1 .. n + 1 : a[i] = b[i]
  <2>1. SUFFICES ASSUME NEW i \in 1 .. n + 1 PROVE a[i] = b[i]
    OBVIOUS
  <2>2. CASE i = n + 1
    BY <1>2, <1>5, <1>8, <1>9, <2>2
  <2>3. CASE i # n + 1
    <3>1. i \in 1 .. n
      BY <1>1, <2>3
    <3>2. QED
      BY <1>2, <1>5, <1>7, <1>8, <3>1
  <2>4. QED
    BY <2>2, <2>3
<1>11. a = b
  BY <1>4, <1>8, <1>10, SeqEqual, SMTT(60)
<1>12. QED
  BY <1>11 DEF a, b

\* The core of what was said is what is left of the value.
LEMMA EssenceIs ==
    ASSUME NEW v \in Seq(Typed), NEW w, LeadsTo(Said(v), w)
    PROVE  w \in Seq(Spoken) /\ Trimmed(w) = Essence(v)
<1>1. Said(v) \in Seq(Spoken)
  BY SaidType
<1>2. w \in Seq(Spoken) /\ Trimmed(w) = Core(Said(v))
  BY <1>1, TrimmedIs
<1>3. Essence(v) = Core(Said(v))
  BY Zenon DEF Essence, Core, Said
<1>4. QED
  BY <1>2, <1>3

LEMMA ValueLines ==
    ASSUME NEW s \in Seq(Within), ~Read(s).done, Read(s).name \in Parameters, Read(s).value = <<>>
    PROVE  \A v \in Seq(Typed) :
              \E w \in Seq(Spoken) : LeadsTo(Said(v), w) /\ Read(s \o v) = [Read(s) EXCEPT !.value = w]
<1> DEFINE a == Read(s)
           Ok(v) == \E w \in Seq(Spoken) : LeadsTo(Said(v), w) /\ Read(s \o v) = [a EXCEPT !.value = w]
           T == {v \in Seq(Typed) : Ok(v)}
<1>1. a \in Readings /\ ~a.done /\ a.name # "none"
  BY Reads DEF Parameters
<1>2. Typed \subseteq Within /\ Seq(Typed) \subseteq Seq(Within)
  BY DEF Within
<1>3. <<>> \in T
  <2>1. LeadsTo(Said(<<>>), <<>>)
    <3>1. 0 \in 0 .. Len(<<>>) /\ ~(0 < Len(<<>>)) /\ SubSeq(<<>>, 0 + 1, Len(<<>>)) = <<>>
      OBVIOUS
    <3>2. Said(<<>>) = <<>>
      BY DEF Said
    <3>3. QED
      BY <3>1, <3>2 DEF LeadsTo
  <2>2. s \o <<>> = s
    OBVIOUS
  <2>3. a = [a EXCEPT !.value = <<>>]
    BY <1>1 DEF Readings
  <2>4. <<>> \in Seq(Spoken) /\ <<>> \in Seq(Typed)
    OBVIOUS
  <2>5. QED
    BY <2>1, <2>2, <2>3, <2>4
<1>4. ASSUME NEW v \in Seq(Typed), NEW line \in Typed, v \in T PROVE Append(v, line) \in T
  <2>1. PICK w \in Seq(Spoken) : LeadsTo(Said(v), w) /\ Read(s \o v) = [a EXCEPT !.value = w]
    BY <1>4
  <2>2. s \o v \in Seq(Within) /\ s \o Append(v, line) = Append(s \o v, line) /\ line \in Within
    BY <1>2
  <2> DEFINE b == Read(s \o v)
             said == Trim(line)
             empty == line = "blank" /\ w = <<>>
  <2>3. Read(s \o Append(v, line)) = ParameterLine(b, line)
    BY <2>2, Reads
  <2>4. b \in Readings /\ ~b.done /\ b.name # "none" /\ b.value = w
    BY <1>1, <2>1, <2>2, Reads DEF Readings
  <2>5. ParameterLine(b, line) = IF empty THEN b ELSE [b EXCEPT !.value = Append(@, said)]
    BY <2>4, LineIs
  <2>6. [b EXCEPT !.value = Append(@, said)] = [a EXCEPT !.value = Append(w, said)]
    BY <1>1, <2>1, <2>4 DEF Readings
  <2>7. said \in Spoken /\ (said = "blank" <=> line = "blank")
    BY TrimIs
  <2>8. Append(v, line) \in Seq(Typed) /\ Append(w, said) \in Seq(Spoken)
    BY <2>7
  <2>9. Said(v) \in Seq(Spoken) /\ Said(Append(v, line)) = Append(Said(v), said)
    BY SaidType, SaidAppend
  <2> HIDE DEF said
  <2>10. CASE empty
    <3>1. LeadsTo(Append(Said(v), said), w)
      BY <2>1, <2>7, <2>9, <2>10, LeadGrows
    <3>2. QED
      BY <2>1, <2>3, <2>5, <2>8, <2>9, <2>10, <3>1
  <2>11. CASE ~empty
    <3>1. LeadsTo(Append(Said(v), said), Append(w, said))
      BY <2>1, <2>7, <2>9, <2>11, LeadGrows
    <3>2. QED
      BY <2>1, <2>3, <2>5, <2>6, <2>8, <2>9, <2>11, <3>1
  <2>12. QED
    BY <2>10, <2>11
<1> HIDE DEF Ok
<1>5. \A v \in Seq(Typed), line \in Typed : v \in T => Append(v, line) \in T
  BY <1>4
<1>6. \A v \in Seq(Typed) : v \in T
  <2> HIDE DEF T
  <2>1. QED
    BY <1>3, <1>5, SeqInduction
<1>7. QED
  BY <1>6 DEF Ok

-----------------------------------------------------------------------------
(* Parameters.                                                             *)

\* A parameter, with or without its closing marker.
Chunk(p, v, closed) ==
    <<Opening(p)>> \o v \o (IF closed THEN <<"</parameter>">> ELSE <<>>)

\* p has the value x, instead of the one that it had.
Put(given, p, x) == {g \in given : g[1] # p} \cup {<<p, x>>}

\* Between two parameters, or in one that is not closed.
Ready(acc) == acc \in Readings /\ ~acc.done /\ ~acc.spoiled /\ (acc.name = "none" => acc.value = <<>>)

LEMMA StoredIs ==
    ASSUME NEW acc, Ready(acc)
    PROVE  /\ Ready(Stored(acc)) /\ Stored(acc).name = "none" /\ Stored(acc).value = <<>>
           /\ Stored(Stored(acc)) = Stored(acc)
           /\ Stored(acc).given = IF acc.name = "none" THEN acc.given
                                  ELSE Put(acc.given, acc.name, Trimmed(acc.value))
<1>1. CASE acc.name = "none"
  BY <1>1 DEF Stored, Ready
<1>2. CASE acc.name # "none"
  <2>1. Stored(acc) \in Readings
    BY StoredType DEF Ready
  <2>2. Stored(acc) = [acc EXCEPT !.given = {g \in @ : g[1] # acc.name} \cup {<<acc.name, Trimmed(acc.value)>>},
                                  !.name = "none", !.value = <<>>]
    BY <1>2 DEF Stored
  <2>3. /\ Stored(acc).name = "none" /\ Stored(acc).value = <<>>
        /\ Stored(acc).done = acc.done /\ Stored(acc).spoiled = acc.spoiled
        /\ Stored(acc).given = Put(acc.given, acc.name, Trimmed(acc.value))
    BY <2>2 DEF Readings, Ready, Put
  <2>4. Stored(Stored(acc)) = Stored(acc)
    BY <2>3 DEF Stored
  <2>5. QED
    BY <1>2, <2>1, <2>3, <2>4 DEF Ready
<1>3. QED
  BY <1>1, <1>2

LEMMA ChunkType ==
    ASSUME NEW p \in Parameters, NEW v \in Seq(Typed), NEW closed \in BOOLEAN
    PROVE  Chunk(p, v, closed) \in Seq(Within)
<1>1. Opening(p) \in Within /\ v \in Seq(Within) /\ "</parameter>" \in Within
  BY DEF Within, Opening
<1>2. <<Opening(p)>> \in Seq(Within) /\ <<"</parameter>">> \in Seq(Within) /\ <<>> \in Seq(Within)
  BY <1>1
<1>3. (IF closed THEN <<"</parameter>">> ELSE <<>>) \in Seq(Within)
  BY <1>2
<1> DEFINE a == <<Opening(p)>>
           c == IF closed THEN <<"</parameter>">> ELSE <<>>
<1> HIDE DEF a, c
<1>4. a \in Seq(Within) /\ c \in Seq(Within)
  BY <1>2, <1>3 DEF a, c
<1>5. a \o v \o c \in Seq(Within)
  BY <1>1, <1>4, ConcatProperties
<1>6. QED
  BY <1>5 DEF Chunk, a, c

\* A parameter is read with its value, and replaces one of its name.
LEMMA ParameterRead ==
    ASSUME NEW s \in Seq(Within), Ready(Read(s)),
           NEW p \in Parameters, NEW v \in Seq(Typed), NEW closed \in BOOLEAN
    PROVE  /\ Ready(Read(s \o Chunk(p, v, closed)))
           /\ Stored(Read(s \o Chunk(p, v, closed))).given = Put(Stored(Read(s)).given, p, Essence(v))
<1> DEFINE a == Read(s)
           b == Stored(a)
           o == Opening(p)
           t == Append(s, o)
<1>1. Ready(b) /\ b.name = "none" /\ b.value = <<>>
  BY StoredIs
<1>2. o \in Within /\ v \in Seq(Within) /\ "</parameter>" \in Within
  BY DEF Within, Opening
<1>3. t \in Seq(Within)
  BY <1>2
<1>4. Read(t) = [b EXCEPT !.name = p]
  <2>1. Read(t) = ParameterLine(a, o)
    BY <1>2, Reads
  <2>2. a \in Readings /\ ~a.done
    BY DEF Ready
  <2>3. QED
    BY <2>1, <2>2, LineIs
<1>5. /\ ~Read(t).done /\ Read(t).name = p /\ Read(t).value = <<>> /\ ~Read(t).spoiled
      /\ Read(t).given = b.given
  BY <1>1, <1>4 DEF Ready, Readings
<1>6. PICK w \in Seq(Spoken) : LeadsTo(Said(v), w) /\ Read(t \o v) = [Read(t) EXCEPT !.value = w]
  BY <1>3, <1>5, ValueLines
<1> DEFINE c == Read(t \o v)
<1>7. t \o v \in Seq(Within)
  BY <1>2, <1>3, ConcatProperties
<1>8. c \in Readings
  BY <1>7, Reads
<1>9. p # "none"
  BY DEF Parameters
<1>10. Ready(c) /\ c.name = p /\ c.value = w /\ c.given = b.given
  <2>1. Read(t) \in Readings
    BY <1>3, Reads
  <2>2. c.name = p /\ c.value = w /\ c.given = b.given /\ ~c.done /\ ~c.spoiled
    BY <1>5, <1>6, <2>1 DEF Readings
  <2>3. QED
    BY <1>8, <1>9, <2>2 DEF Ready
<1>11. Stored(c).given = Put(b.given, p, Essence(v))
  <2>1. Trimmed(w) = Essence(v)
    BY <1>6, EssenceIs
  <2>2. Stored(c).given = Put(c.given, c.name, Trimmed(c.value))
    BY <1>9, <1>10, StoredIs
  <2>3. QED
    BY <1>10, <2>1, <2>2
<1>12. s \o (<<o>> \o v) = t \o v
  <2>1. <<o>> \in Seq(Within)
    BY <1>2
  <2>2. t = s \o <<o>>
    BY <1>2, AppendIsConcat
  <2>3. (s \o <<o>>) \o v = s \o (<<o>> \o v)
    BY <1>2, <2>1, ConcatAssociative
  <2>4. QED
    BY <2>2, <2>3
<1> DEFINE head == <<o>> \o v
<1>13. head \in Seq(Within)
  <2>1. <<o>> \in Seq(Within)
    BY <1>2
  <2>2. QED
    BY <1>2, <2>1, ConcatProperties
<1>14. CASE ~closed
  <2>1. Chunk(p, v, closed) = head
    BY <1>13, <1>14, ConcatEmptySeq DEF Chunk
  <2>2. QED
    BY <1>10, <1>11, <1>12, <2>1
<1>15. CASE closed
  <2> DEFINE e == "</parameter>"
  <2>1. Chunk(p, v, closed) = head \o <<e>>
    BY <1>15 DEF Chunk
  <2>2. <<e>> \in Seq(Within)
    BY <1>2
  <2>3. s \o (head \o <<e>>) = (s \o head) \o <<e>>
    BY <1>13, <2>2, ConcatAssociative
  <2>4. (t \o v) \o <<e>> = Append(t \o v, e)
    BY <1>2, <1>7, AppendIsConcat
  <2>5. s \o Chunk(p, v, closed) = Append(t \o v, e)
    BY <1>12, <2>1, <2>3, <2>4
  <2>6. Read(Append(t \o v, e)) = ParameterLine(c, e)
    BY <1>2, <1>7, Reads
  <2>7. ParameterLine(c, e) = Stored(c)
    BY <1>10, LineIs DEF Ready
  <2>8. Ready(Stored(c)) /\ Stored(Stored(c)) = Stored(c)
    BY <1>10, StoredIs
  <2>9. QED
    BY <1>11, <2>5, <2>6, <2>7, <2>8
<1>16. QED
  BY <1>14, <1>15

\* The parameters of a list, and those of them that are not replaced.
Lists == Seq(Parameters \X Seq(Typed))

Chunks(given, closed) == [i \in DOMAIN given |-> Chunk(given[i][1], given[i][2], closed)]

Final(given) == {i \in DOMAIN given : \A k \in DOMAIN given : k > i => given[k][1] # given[i][1]}

Meant(given) == {<<given[i][1], Essence(given[i][2])>> : i \in Final(given)}

LEMMA MeantGrows ==
    ASSUME NEW given \in Lists, NEW p \in Parameters, NEW v \in Seq(Typed)
    PROVE  Meant(Append(given, <<p, v>>)) = Put(Meant(given), p, Essence(v))
<1> DEFINE n == Len(given)
           more == Append(given, <<p, v>>)
<1>1. n \in Nat /\ DOMAIN given = 1 .. n
  BY LenProperties DEF Lists
<1>2. DOMAIN more = 1 .. n + 1 /\ (\A i \in 1 .. n : more[i] = given[i]) /\ more[n + 1] = <<p, v>>
  <2>1. <<p, v>> \in Parameters \X Seq(Typed)
    OBVIOUS
  <2>2. QED
    BY <1>1, <2>1, AppendProperties, LenProperties DEF Lists
<1> HIDE DEF more
<1>3. Final(more) = {i \in Final(given) : given[i][1] # p} \cup {n + 1}
  <2>1. ASSUME NEW i \in Final(more), i # n + 1 PROVE i \in Final(given) /\ given[i][1] # p
    <3>1. i \in 1 .. n
      BY <1>1, <1>2, <2>1 DEF Final
    <3>2. \A k \in 1 .. n : k > i => given[k][1] # given[i][1]
      BY <1>1, <1>2, <3>1 DEF Final
    <3>3. more[n + 1][1] # given[i][1]
      BY <1>1, <1>2, <3>1 DEF Final
    <3>4. QED
      BY <1>1, <1>2, <3>1, <3>2, <3>3 DEF Final
  <2>2. n + 1 \in Final(more)
    BY <1>1, <1>2 DEF Final
  <2>3. ASSUME NEW i \in Final(given), given[i][1] # p PROVE i \in Final(more)
    <3>1. i \in 1 .. n
      BY <1>1 DEF Final
    <3>2. \A k \in 1 .. n + 1 : k > i => more[k][1] # more[i][1]
      <4>1. SUFFICES ASSUME NEW k \in 1 .. n + 1, k > i PROVE more[k][1] # more[i][1]
        OBVIOUS
      <4>2. CASE k = n + 1
        BY <1>2, <2>3, <3>1, <4>2
      <4>3. CASE k # n + 1
        <5>1. k \in 1 .. n
          BY <1>1, <4>3
        <5>2. QED
          BY <1>1, <1>2, <3>1, <4>1, <5>1 DEF Final
      <4>4. QED
        BY <4>2, <4>3
    <3>3. QED
      BY <1>1, <1>2, <3>1, <3>2 DEF Final
  <2>4. QED
    BY <2>1, <2>2, <2>3
<1>4. Meant(more) = {<<more[i][1], Essence(more[i][2])>> : i \in {i \in Final(given) : given[i][1] # p}}
                    \cup {<<p, Essence(v)>>}
  BY <1>2, <1>3 DEF Meant
<1>5. \A i \in Final(given) : more[i] = given[i]
  BY <1>1, <1>2 DEF Final
<1>6. {<<more[i][1], Essence(more[i][2])>> : i \in {i \in Final(given) : given[i][1] # p}}
        = {g \in Meant(given) : g[1] # p}
  BY <1>5 DEF Meant
<1>7. QED
  BY <1>4, <1>6 DEF Put, more

LEMMA ListRead ==
    ASSUME NEW closed \in BOOLEAN
    PROVE  \A given \in Lists :
              /\ Chunks(given, closed) \in Seq(Seq(Within))
              /\ Ready(Read(FlattenSeq(Chunks(given, closed))))
              /\ Stored(Read(FlattenSeq(Chunks(given, closed)))).given = Meant(given)
<1> DEFINE E == Parameters \X Seq(Typed)
           All(given) == FlattenSeq(Chunks(given, closed))
           Ok(given) == /\ Chunks(given, closed) \in Seq(Seq(Within))
                        /\ Ready(Read(All(given)))
                        /\ Stored(Read(All(given))).given = Meant(given)
           T == {given \in Seq(E) : Ok(given)}
<1>1. <<>> \in T
  <2>1. Chunks(<<>>, closed) = <<>>
    BY DEF Chunks
  <2>2. Read(All(<<>>)) = Unread
    BY <2>1, FlattenEmpty, Reads
  <2>3. Ready(Unread)
    <3>1. Unread \in Readings
      <4>1. <<>> \in Seq(Within)
        OBVIOUS
      <4>2. QED
        BY <4>1 DEF Unread, Readings
    <3>2. QED
      BY <3>1 DEF Ready, Unread
  <2>4. Stored(Unread).given = {}
    BY DEF Stored, Unread
  <2>5. Meant(<<>>) = {}
    BY DEF Meant, Final
  <2>6. <<>> \in Seq(E) /\ <<>> \in Seq(Seq(Within))
    OBVIOUS
  <2>7. Ok(<<>>)
    BY <2>1, <2>2, <2>3, <2>4, <2>5, <2>6
  <2>8. QED
    BY <2>6, <2>7
<1>2. ASSUME NEW given \in Seq(E), NEW g \in E, given \in T PROVE Append(given, g) \in T
  <2> DEFINE n == Len(given)
             more == Append(given, g)
             chunk == Chunk(g[1], g[2], closed)
  <2>1. PICK p \in Parameters, v \in Seq(Typed) : g = <<p, v>>
    OBVIOUS
  <2>2. n \in Nat /\ DOMAIN given = 1 .. n
    BY LenProperties
  <2>3. DOMAIN more = 1 .. n + 1 /\ (\A i \in 1 .. n : more[i] = given[i]) /\ more[n + 1] = g
    BY <2>2, AppendProperties, LenProperties
  <2>4. chunk \in Seq(Within)
    BY <2>1, ChunkType
  <2>5. Ok(given)
    BY <1>2
  <2>6. Chunks(more, closed) = Append(Chunks(given, closed), chunk)
    <3> DEFINE cs == Chunks(given, closed)
               ds == Chunks(more, closed)
    <3>1. cs \in Seq(Seq(Within)) /\ Len(cs) = n /\ \A i \in 1 .. n : cs[i] = Chunk(given[i][1], given[i][2], closed)
      <4>1. cs = [i \in 1 .. n |-> Chunk(given[i][1], given[i][2], closed)]
        BY <2>2 DEF Chunks
      <4>2. cs \in Seq(Seq(Within))
        BY <2>5
      <4>3. QED
        BY <2>2, <4>1, <4>2, LenProperties
    <3>2. ds = [i \in 1 .. n + 1 |-> Chunk(more[i][1], more[i][2], closed)]
      BY <2>3 DEF Chunks
    <3> HIDE DEF cs, ds, more, chunk
    <3>3. /\ Append(cs, chunk) \in Seq(Seq(Within)) /\ Len(Append(cs, chunk)) = n + 1
          /\ (\A i \in 1 .. n : Append(cs, chunk)[i] = cs[i]) /\ Append(cs, chunk)[n + 1] = chunk
      BY <2>2, <2>4, <3>1, AppendProperties
    <3>4. ds \in Seq(Seq(Within)) /\ Len(ds) = n + 1
      <4>1. \A i \in 1 .. n + 1 : ds[i] \in Seq(Within)
        <5>1. SUFFICES ASSUME NEW i \in 1 .. n + 1 PROVE ds[i] \in Seq(Within)
          OBVIOUS
        <5>2. CASE i = n + 1
          BY <2>3, <2>4, <3>2, <5>2 DEF chunk
        <5>3. CASE i # n + 1
          <6>1. i \in 1 .. n
            BY <2>2, <5>3
          <6>2. cs[i] \in Seq(Within)
            BY <3>1, <6>1, ElementOfSeq
          <6>3. QED
            BY <2>3, <3>1, <3>2, <6>1, <6>2
        <5>4. QED
          BY <5>2, <5>3
      <4>2. ds = [i \in 1 .. n + 1 |-> ds[i]]
        BY <3>2
      <4>3. QED
        BY <2>2, <4>1, <4>2
    <3>5. \A i \in 1 .. n + 1 : ds[i] = Append(cs, chunk)[i]
      <4>1. SUFFICES ASSUME NEW i \in 1 .. n + 1 PROVE ds[i] = Append(cs, chunk)[i]
        OBVIOUS
      <4>2. CASE i = n + 1
        BY <2>3, <3>2, <3>3, <4>2 DEF chunk
      <4>3. CASE i # n + 1
        <5>1. i \in 1 .. n
          BY <2>2, <4>3
        <5>2. QED
          BY <2>3, <3>1, <3>2, <3>3, <5>1
      <4>4. QED
        BY <4>2, <4>3
    <3>6. ds = Append(cs, chunk)
      BY <3>3, <3>4, <3>5, SeqEqual, SMTT(60)
    <3>7. QED
      BY <3>6 DEF ds, cs
  <2>7. All(more) = All(given) \o chunk
    BY <2>4, <2>5, <2>6, FlattenAppend
  <2>8. All(given) \in Seq(Within)
    BY <2>5, FlattenType
  <2>9. Ready(Read(All(given))) /\ Stored(Read(All(given))).given = Meant(given)
    BY <2>5
  <2> HIDE DEF All
  <2>10. Ready(Read(All(given) \o chunk))
         /\ Stored(Read(All(given) \o chunk)).given = Put(Meant(given), p, Essence(v))
    BY <2>1, <2>8, <2>9, ParameterRead
  <2>11. Meant(more) = Put(Meant(given), p, Essence(v))
    BY <2>1, MeantGrows DEF Lists
  <2>12. Chunks(more, closed) \in Seq(Seq(Within))
    BY <2>4, <2>5, <2>6, AppendProperties
  <2>13. more \in Seq(E)
    OBVIOUS
  <2>14. QED
    BY <2>7, <2>10, <2>11, <2>12, <2>13
<1> HIDE DEF Ok
<1>3. \A given \in Seq(E), g \in E : given \in T => Append(given, g) \in T
  BY <1>2
<1>4. \A given \in Seq(E) : given \in T
  <2> HIDE DEF T, E
  <2>1. QED
    BY <1>1, <1>3, SeqInduction
<1>5. QED
  BY <1>4 DEF Lists, Ok

-----------------------------------------------------------------------------
(* The whole call.                                                         *)

Function(given, closed, functionClosed) ==
    FlattenSeq(Chunks(given, closed)) \o (IF functionClosed THEN <<"</function>">> ELSE <<>>)

LEMMA FunctionRead ==
    ASSUME NEW given \in Lists, NEW closed \in BOOLEAN, NEW functionClosed \in BOOLEAN
    PROVE  /\ Function(given, closed, functionClosed) \in Seq(Within)
           /\ ParseParameters(Function(given, closed, functionClosed)) = Meant(given)
<1> DEFINE body == FlattenSeq(Chunks(given, closed))
           e == "</function>"
           whole == Function(given, closed, functionClosed)
<1>1. body \in Seq(Within) /\ Ready(Read(body)) /\ Stored(Read(body)).given = Meant(given)
  BY ListRead, FlattenType
<1>2. whole \in Seq(Within) /\ ~Read(whole).spoiled /\ Stored(Read(whole)).given = Meant(given)
  <2>1. CASE ~functionClosed
    <3>1. whole = body
      BY <1>1, <2>1, ConcatEmptySeq DEF Function
    <3>2. QED
      BY <1>1, <3>1 DEF Ready
  <2>2. CASE functionClosed
    <3>1. whole = body \o <<e>>
      BY <2>2 DEF Function
    <3> HIDE DEF body, whole
    <3>2. e \in Within
      BY DEF Within
    <3>3. whole = Append(body, e)
      BY <1>1, <3>1, <3>2, AppendIsConcat
    <3> DEFINE r == Read(body)
    <3>4. Read(whole) = ParameterLine(r, e) /\ r \in Readings /\ ~r.done /\ ~r.spoiled
      BY <1>1, <3>2, <3>3, Reads DEF Ready
    <3>5. Read(whole) = [r EXCEPT !.done = TRUE]
      BY <3>4, LineIs
    <3> HIDE DEF r
    <3> DEFINE q == Read(whole)
    <3>6. q.given = r.given /\ q.name = r.name /\ q.value = r.value /\ ~q.spoiled /\ q \in Readings
      BY <3>4, <3>5 DEF Readings
    <3> HIDE DEF q
    <3>7. Stored(q).given = Stored(r).given
      <4>1. CASE r.name = "none"
        BY <3>6, <4>1 DEF Stored
      <4>2. CASE r.name # "none"
        <5>1. \A acc \in Readings : acc.name # "none" =>
                 Stored(acc).given = {g \in acc.given : g[1] # acc.name} \cup {<<acc.name, Trimmed(acc.value)>>}
          BY DEF Stored, Readings
        <5>2. QED
          BY <3>4, <3>6, <4>2, <5>1
      <4>3. QED
        BY <4>1, <4>2
    <3>8. whole \in Seq(Within)
      BY <1>1, <3>2, <3>3
    <3>9. QED
      BY <1>1, <3>6, <3>7, <3>8 DEF q, r
  <2>3. QED
    BY <2>1, <2>2
<1> HIDE DEF whole
<1>3. Read(whole) = FoldLeft(ParameterLine,
                        [given |-> {}, name |-> "none", value |-> <<>>, done |-> FALSE,
                         spoiled |-> FALSE], whole)
  BY DEF Read, Unread
<1>4. ParseParameters(whole) = IF Read(whole).spoiled THEN {} ELSE Stored(Read(whole)).given
  BY <1>3 DEF ParseParameters
<1>5. QED
  BY <1>2, <1>4 DEF whole

LEMMA LastIsMeant ==
    ASSUME NEW given \in Lists
    PROVE  Meant(given) = {} <=> given = <<>>
<1> DEFINE n == Len(given)
<1>1. CASE given = <<>>
  BY <1>1 DEF Meant, Final
<1>2. CASE given # <<>>
  <2>1. n \in Nat \ {0} /\ DOMAIN given = 1 .. n
    BY <1>2, LenProperties, EmptySeq DEF Lists
  <2>2. n \in Final(given)
    BY <2>1 DEF Final
  <2>3. QED
    BY <1>2, <2>2 DEF Meant
<1>3. QED
  BY <1>1, <1>2

LEMMA OnlyOne ==
    ASSUME NEW m \in Nat
    PROVE  Min({m}) = m
BY DEF Min

\* However many parameters a call has, of however many lines, also if a name is repeated:
\* the call that is made has exactly the parameters that Qwen wrote, without indentation
\* and the blank lines around each, whichever of the markers it forgot.  A call without
\* parameters, and only that, is not read (parse_qwen_tool_call, parse_qwen_parameters).
THEOREM AnyCallIsRead ==
    ASSUME NEW given \in Lists, NEW closed \in BOOLEAN, NEW functionClosed \in BOOLEAN,
           NEW last \in {"</tool_call>", "<tool_call>"}
    PROVE  IsRead(given, closed, functionClosed, last)
<1> DEFINE body == Function(given, closed, functionClosed)
           n == Len(body)
           content == Written(given, closed, functionClosed, last)
           after == body \o <<last>>
           AnyLine == Within \cup {"<function", "</tool_call>", "<tool_call>"}
<1>1. body \in Seq(Within) /\ ParseParameters(body) = Meant(given)
      /\ (Meant(given) = {} <=> given = <<>>)
  BY FunctionRead, LastIsMeant
<1>2. n \in Nat /\ \A i \in 1 .. n : body[i] \in Within
  BY <1>1, LenProperties, ElementOfSeq
<1>3. /\ body \in Seq(AnyLine) /\ <<last>> \in Seq(AnyLine) /\ <<"text", "<function">> \in Seq(AnyLine)
      /\ FlattenSeq(Chunks(given, closed)) \in Seq(AnyLine)
      /\ (IF functionClosed THEN <<"</function>">> ELSE <<>>) \in Seq(AnyLine)
  <2>1. Within \subseteq AnyLine
    OBVIOUS
  <2>2. \A s \in Seq(Within) : s \in Seq(AnyLine)
    BY <2>1
  <2>3. last \in AnyLine /\ "text" \in AnyLine /\ "<function" \in AnyLine /\ "</function>" \in AnyLine
    BY DEF Within, Typed, Spoken
  <2>4. FlattenSeq(Chunks(given, closed)) \in Seq(Within)
    BY ListRead, FlattenType
  <2> HIDE DEF AnyLine
  <2>5. <<last>> \in Seq(AnyLine) /\ <<"text", "<function">> \in Seq(AnyLine) /\ <<"</function>">> \in Seq(AnyLine)
        /\ <<>> \in Seq(AnyLine)
    BY <2>3
  <2>6. QED
    BY <1>1, <2>2, <2>4, <2>5
<1>4. content = <<"text", "<function">> \o after
  <2> DEFINE a == <<"text", "<function">>
             f == FlattenSeq(Chunks(given, closed))
             c == IF functionClosed THEN <<"</function>">> ELSE <<>>
             l == <<last>>
  <2>1. content = ((a \o f) \o c) \o l
    <3>1. Chunks(given, closed) =
            [i \in DOMAIN given |-> <<Opening(given[i][1])>> \o given[i][2]
                                       \o (IF closed THEN <<"</parameter>">> ELSE <<>>)]
      BY DEF Chunks, Chunk
    <3>2. QED
      BY <3>1 DEF Written
  <2>2. body = f \o c
    BY DEF Function
  <2> HIDE DEF a, f, c, l, AnyLine, body, content
  <2>3. a \in Seq(AnyLine) /\ f \in Seq(AnyLine) /\ c \in Seq(AnyLine) /\ l \in Seq(AnyLine)
    BY <1>3 DEF a, f, c, l
  <2>4. (a \o f) \o c = a \o (f \o c) /\ f \o c \in Seq(AnyLine)
    BY <2>3, ConcatAssociative, ConcatProperties, SMTT(60)
  <2>5. (a \o (f \o c)) \o l = a \o ((f \o c) \o l)
    BY <2>3, <2>4, ConcatAssociative, SMTT(60)
  <2>6. QED
    BY <2>1, <2>2, <2>4, <2>5 DEF a, l
<1> HIDE DEF body
<1>5. /\ after \in Seq(AnyLine) /\ Len(after) = n + 1 /\ after[n + 1] = last
      /\ \A i \in 1 .. n : after[i] = body[i]
  <2> HIDE DEF AnyLine
  <2>1. after \in Seq(AnyLine) /\ Len(after) = Len(body) + Len(<<last>>)
        /\ \A i \in 1 .. Len(body) + Len(<<last>>) :
              after[i] = IF i <= Len(body) THEN body[i] ELSE <<last>>[i - Len(body)]
    BY <1>3, ConcatProperties
  <2>2. Len(<<last>>) = 1 /\ <<last>>[1] = last
    OBVIOUS
  <2> HIDE DEF after
  <2>3. QED
    BY <1>2, <2>1, <2>2
<1> HIDE DEF content
<1>6. /\ content \in Seq(AnyLine) /\ Len(content) = n + 3
      /\ content[1] = "text" /\ content[2] = "<function"
      /\ \A i \in 1 .. n + 1 : content[i + 2] = after[i]
  <2> HIDE DEF AnyLine, after
  <2> DEFINE a == <<"text", "<function">>
  <2>1. Len(a) = 2 /\ a[1] = "text" /\ a[2] = "<function"
    OBVIOUS
  <2> HIDE DEF a
  <2>2. content = a \o after /\ a \in Seq(AnyLine)
    BY <1>3, <1>4 DEF a
  <2>3. /\ content \in Seq(AnyLine) /\ Len(content) = Len(a) + Len(after)
        /\ \A i \in 1 .. Len(a) + Len(after) :
              content[i] = IF i <= Len(a) THEN a[i] ELSE after[i - Len(a)]
    BY <1>5, <2>2, ConcatProperties
  <2>4. QED
    BY <1>2, <1>5, <2>1, <2>3
<1> HIDE DEF after
<1>7. \A i \in 1 .. n : after[i] \notin {"<function", "<function=>", "</tool_call>", "<tool_call>"}
  BY <1>2, <1>5 DEF Within, Typed, Spoken
<1>8. {i \in 1 .. Len(content) : content[i] \in {"<function", "<function=>"}} = {2}
  <2>1. \A i \in 1 .. n + 3 : content[i] \in {"<function", "<function=>"} <=> i = 2
    <3>1. SUFFICES ASSUME NEW i \in 1 .. n + 3
                   PROVE  content[i] \in {"<function", "<function=>"} <=> i = 2
      OBVIOUS
    <3>2. CASE i \in {1, 2}
      BY <1>6, <3>2
    <3>3. CASE i \notin {1, 2}
      <4>1. i - 2 \in 1 .. n + 1 /\ i - 2 + 2 = i
        BY <1>2, <3>3
      <4>2. content[i] = after[i - 2]
        BY <1>6, <4>1
      <4>3. CASE i - 2 \in 1 .. n
        BY <1>7, <3>3, <4>2, <4>3
      <4>4. CASE i - 2 = n + 1
        BY <1>5, <3>3, <4>2, <4>4
      <4>5. QED
        BY <1>2, <4>1, <4>3, <4>4
    <3>4. QED
      BY <3>2, <3>3
  <2>2. QED
    BY <1>2, <1>6, <2>1
<1>9. SelectInSeq(content, LAMBDA line : line \in {"<function", "<function=>"}) = 2
  BY <1>8, OnlyOne DEF SelectInSeq
<1>10. SubSeq(content, 2 + 1, Len(content)) = after
  <2> DEFINE s == SubSeq(content, 2 + 1, Len(content))
  <2>1. s = [i \in 1 .. n + 3 - (2 + 1) + 1 |-> content[i + (2 + 1) - 1]]
    BY <1>2, <1>6
  <2>2. s = [i \in 1 .. n + 1 |-> content[i + 2]]
    BY <1>2, <2>1
  <2>3. after = [i \in 1 .. n + 1 |-> after[i]]
    BY <1>5, LenProperties
  <2> HIDE DEF s
  <2>4. s = after
    BY <1>6, <2>2, <2>3
  <2>5. QED
    BY <2>4 DEF s
<1>11. \A m \in {"</tool_call>", "<tool_call>"} :
          {i \in 1 .. Len(after) : after[i] = m} = IF last = m THEN {n + 1} ELSE {}
  <2>1. ASSUME NEW m \in {"</tool_call>", "<tool_call>"}, NEW i \in 1 .. n + 1
        PROVE  after[i] = m <=> (last = m /\ i = n + 1)
    <3>1. CASE i = n + 1
      BY <1>5, <3>1
    <3>2. CASE i # n + 1
      <4>1. i \in 1 .. n
        BY <1>2, <3>2
      <4>2. QED
        BY <1>7, <3>2, <4>1
    <3>3. QED
      BY <3>1, <3>2
  <2>2. n + 1 \in 1 .. n + 1
    BY <1>2
  <2>3. QED
    BY <1>5, <2>1, <2>2
<1> DEFINE closing == SelectInSeq(after, LAMBDA line : line = "</tool_call>")
           opening == SelectInSeq(after, LAMBDA line : line = "<tool_call>")
           stop == IF closing # 0 THEN closing ELSE opening
<1>12. closing = IF last = "</tool_call>" THEN n + 1 ELSE 0
  <2>1. {i \in 1 .. Len(after) : after[i] = "</tool_call>"}
          = IF last = "</tool_call>" THEN {n + 1} ELSE {}
    BY <1>11
  <2>2. Min({n + 1}) = n + 1
    BY <1>2, OnlyOne
  <2>3. QED
    BY <2>1, <2>2 DEF SelectInSeq
<1>13. opening = IF last = "<tool_call>" THEN n + 1 ELSE 0
  <2>1. {i \in 1 .. Len(after) : after[i] = "<tool_call>"}
          = IF last = "<tool_call>" THEN {n + 1} ELSE {}
    BY <1>11
  <2>2. Min({n + 1}) = n + 1
    BY <1>2, OnlyOne
  <2>3. QED
    BY <2>1, <2>2 DEF SelectInSeq
<1> HIDE DEF closing, opening
<1>14. stop = n + 1 /\ stop # 0
  BY <1>2, <1>12, <1>13
<1>15. SubSeq(after, 1, n + 1 - 1) = body
  <2>1. SubSeq(after, 1, n + 1 - 1) = [i \in 1 .. n + 1 - 1 - 1 + 1 |-> after[i + 1 - 1]]
    BY <1>2, <1>5
  <2>2. SubSeq(after, 1, n + 1 - 1) = [i \in 1 .. n |-> after[i]]
    BY <1>2, <2>1
  <2>3. body = [i \in 1 .. n |-> body[i]]
    BY <1>1, LenProperties
  <2>4. QED
    BY <1>5, <2>2, <2>3
<1> DEFINE around == SubSeq(content, 1, 2 - 1) \o SubSeq(after, n + 1 + 1, Len(after))
<1>16. \E i \in DOMAIN around : around[i] # "blank"
  <2> DEFINE s == SubSeq(content, 1, 2 - 1)
             t == SubSeq(after, n + 1 + 1, Len(after))
  <2>1. s \in Seq(AnyLine) /\ Len(s) = 1 /\ s[1] = "text"
    <3>1. 1 \in Int /\ 2 - 1 \in Int /\ 2 - 1 = 1 /\ \A i \in 1 .. 2 - 1 : content[i] \in AnyLine
      BY <1>2, <1>6, ElementOfSeq
    <3> HIDE DEF AnyLine
    <3>2. /\ SubSeq(content, 1, 2 - 1) \in Seq(AnyLine)
          /\ Len(SubSeq(content, 1, 2 - 1)) = IF 1 <= 2 - 1 THEN 2 - 1 - 1 + 1 ELSE 0
          /\ \A i \in 1 .. 2 - 1 - 1 + 1 : SubSeq(content, 1, 2 - 1)[i] = content[1 + i - 1]
      BY <3>1, SubSeqProperties
    <3> HIDE DEF s
    <3>3. s \in Seq(AnyLine) /\ Len(s) = 1 /\ \A i \in 1 .. 1 : s[i] = content[1 + i - 1]
      BY <3>2 DEF s
    <3>4. QED
      BY <1>6, <3>3
  <2>2. t = <<>>
    <3>1. Len(after) < n + 1 + 1 /\ Len(after) \in Int /\ n + 1 + 1 \in Int
      BY <1>2, <1>5
    <3>2. QED
      BY <3>1, SubSeqEmpty
  <2> HIDE DEF s, t, AnyLine
  <2>3. around = s
    <3>1. s \o t = s
      BY <2>1, <2>2, ConcatEmptySeq
    <3>2. QED
      BY <3>1 DEF around, s, t
  <2>4. 1 \in DOMAIN s /\ s[1] # "blank"
    BY <2>1, LenProperties
  <2> HIDE DEF around
  <2>5. QED
    BY <2>3, <2>4
<1> HIDE DEF stop, around
<1>17. ParseToolCall(content) = IF given = <<>> THEN NoCall
                                ELSE [call |-> TRUE, given |-> Meant(given), rest |-> TRUE]
  <2> DEFINE start == SelectInSeq(content, LAMBDA line : line \in {"<function", "<function=>"})
  <2>1. start = 2
    BY <1>9
  <2> DEFINE rest == IF start = 0 THEN <<>> ELSE SubSeq(content, start + 1, Len(content))
  <2> HIDE DEF start
  <2>2. rest = after
    BY <1>10, <2>1
  <2> HIDE DEF rest
  <2>3. content[start] # "<function=>" /\ start # 0
    BY <1>6, <2>1
  <2>4. ParseParameters(SubSeq(rest, 1, stop - 1)) = Meant(given)
    <3>1. SubSeq(rest, 1, stop - 1) = body
      BY <1>14, <1>15, <2>2
    <3>2. QED
      BY <1>1, <3>1
  <2>5. SubSeq(content, 1, start - 1) \o SubSeq(rest, stop + 1, Len(rest)) = around
    BY <1>14, <2>1, <2>2 DEF around
  <2>6. stop = LET closing_ == SelectInSeq(rest, LAMBDA line : line = "</tool_call>")
                   opening_ == SelectInSeq(rest, LAMBDA line : line = "<tool_call>")
               IN  IF closing_ # 0 THEN closing_ ELSE opening_
    BY <2>2 DEF stop, closing, opening
  <2>7. QED
    BY <1>1, <1>14, <1>16, <2>3, <2>4, <2>5, <2>6 DEF ParseToolCall, start, rest
<1>18. QED
  BY <1>17 DEF IsRead, Meant, Final, NoCall, content

LEMMA CallsHold == QwenCallsAreRead
<1>1. \A v \in Values : v \in Seq(Typed)
  <2>1. ASSUME NEW k \in 0 .. 3, NEW v \in [1 .. k -> {"text", "indented", "blank"}] PROVE v \in Seq(Typed)
    <3>1. {"text", "indented", "blank"} = Typed
      BY DEF Spoken, Typed
    <3>2. v \in [1 .. k -> Typed]
      BY <3>1, Zenon
    <3>3. k \in Nat
      OBVIOUS
    <3> HIDE DEF Typed
    <3>4. QED
      BY <3>2, <3>3
  <2>2. QED
    BY <2>1 DEF Values
<1>2. ASSUME NEW given \in ParameterLists PROVE given \in Lists
  <2> DEFINE E == Parameters \X Seq(Typed)
  <2>1. CASE given \in {<<<<p, v>>>> : p \in Parameters, v \in Values}
    <3>1. PICK p \in Parameters, v \in Values : given = <<<<p, v>>>>
      BY <2>1
    <3>2. <<p, v>> \in E
      BY <1>1
    <3> HIDE DEF E
    <3>3. <<<<p, v>>>> \in Seq(E) 
      BY <3>2
    <3>4. QED
      BY <3>1, <3>3 DEF Lists, E
  <2>2. CASE given \in {<<<<p, v>>, <<q, w>>>> : p, q \in Parameters, v, w \in Values}
    <3>1. PICK p, q \in Parameters, v, w \in Values : given = <<<<p, v>>, <<q, w>>>>
      BY <2>2
    <3>2. <<p, v>> \in E /\ <<q, w>> \in E
      BY <1>1
    <3> HIDE DEF E
    <3>3. <<<<p, v>>, <<q, w>>>> \in Seq(E) 
      BY <3>2
    <3>4. QED
      BY <3>1, <3>3 DEF Lists, E
  <2>3. CASE given = <<>>
    BY <2>3 DEF Lists
  <2>4. QED
    BY <2>1, <2>2, <2>3 DEF ParameterLists
<1>3. ASSUME NEW given \in ParameterLists, NEW closed \in BOOLEAN, NEW functionClosed \in BOOLEAN,
             NEW last \in {"</tool_call>", "<tool_call>"}
      PROVE  IsRead(given, closed, functionClosed, last)
  BY <1>2, AnyCallIsRead
<1>4. QED
  BY <1>3 DEF QwenCallsAreRead

\* The calls of the instance that the run evaluates arrive like any others: those with
\* parameters with exactly these, those without as text.
THEOREM CallsAreAlwaysRead == Spec => []CallsAreRead
<1>1. CallsAreRead
  BY CallsHold DEF CallsAreRead
<1>2. QED
  BY <1>1, PTL

================================================================================
