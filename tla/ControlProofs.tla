----------------------------- MODULE ControlProofs -----------------------------
(***************************************************************************)
(* What the control channel of a job keeps, for any number of clients,     *)
(* instructions, jobs and turns: what a person sends reaches the turns     *)
(* that follow, in order and within the limits, a stop bounds the turns    *)
(* that still start, and a chain never starts more jobs than it may.       *)
(***************************************************************************)
EXTENDS Control, SequenceTheorems, FiniteSetTheorems, TLAPS

-----------------------------------------------------------------------------
(* The inductive invariant.                                                *)

\* Where a safe point can let the driver go.
Continuations == {"supervise", "review", "execute", "start", "publish", "settle", "fail"}

AtSafePoint == {"safe", "handling", "applying", "paused"}

\* Only a command with a flag is between its two halves, and what was sent was
\* queued at once.
ChannelTypes ==
    /\ pauseRequested \in BOOLEAN /\ stopRequested \in BOOLEAN
    /\ queue \in Seq(Command)
    /\ sending \in [Senders -> Flagged \cup {NoCommand}]
    /\ holders \subseteq Senders
    /\ order \in Seq(Instructions)
    /\ Len(order) = sent /\ sent <= Len(Script)
    /\ \A n \in 1 .. sent : order[n] = Script[n]

\* The record on disk is the one in memory at every step, and its place in the
\* chain is the number of jobs the chain started.
RecordTypes == job \in JobState /\ disk = job /\ started = job.index

PlaceTypes ==
    /\ commands \in Seq(Command)
    /\ request \in Seq(Instructions)
    /\ pc \in {"safe", "handling", "applying", "paused", "supervise", "review", "reviewing", "execute", "start",
               "executing", "publish", "settle", "fail", "ended", "over", "down"}
    /\ after \in Continuations
    /\ pc = "applying" => job.pending # <<>>

Types == ChannelTypes /\ RecordTypes /\ PlaceTypes

\* Whoever is past a safe point passed it before the stop, and did not start yet.
TurnsAreCounted ==
    /\ late \in 0 .. 1
    /\ ~stopRequested => late = 0
    /\ pc \in {"supervise", "review", "start"} => late = 0

\* What was heard is applied before the safe point lets anybody pass, and the
\* request built then holds it until the provider has it.
HeardIsApplied ==
    /\ heard \subseteq ToSet(job.applied) \cup ToSet(job.pending)
    /\ pc # "applying" /\ heard # {} => job.pending = <<>>
    /\ pc \in {"supervise", "review", "execute"} => due \subseteq ToSet(job.applied)
    /\ \/ pc \in {"reviewing", "executing", "start"}
       \/ pc \in AtSafePoint /\ after = "start"
       => due \subseteq ToSet(request)

\* "o" has the instruction i before the instruction j.
Before(o, i, j) == \E a, b \in DOMAIN o : a < b /\ o[a] = i /\ o[b] = j

\* The instructions among s are in o, in their order.
Follows(o, s) ==
    /\ \A n \in DOMAIN s : s[n] \in Instructions => \E a \in DOMAIN o : o[a] = s[n]
    /\ \A m, n \in DOMAIN s :
            m < n /\ s[m] \in Instructions /\ s[n] \in Instructions => Before(o, s[m], s[n])

\* Every place an instruction of the job can be, from the record to the channel.
Everywhere == job.applied \o job.pending \o commands \o queue

\* The inductive invariant.
Inv ==
    /\ Types
    /\ TurnsAreCounted
    /\ HeardIsApplied
    /\ Follows(order, Everywhere)
    /\ InstructionsAreBounded

-----------------------------------------------------------------------------
(* Sequences.                                                              *)

\* The head of a sequence moves to the end of the one before it.
LEMMA HeadMoves ==
    ASSUME NEW a \in Seq(Command), NEW b \in Seq(Command), b # <<>>
    PROVE  Append(a, Head(b)) \o Tail(b) = a \o b
<1>1. Head(b) \in Command /\ Head(b) = b[1] /\ Tail(b) \in Seq(Command) /\ Len(Tail(b)) = Len(b) - 1 /\ Len(b) \in Nat /\ Len(a) \in Nat
  BY HeadTailProperties
<1>2. \A i \in 1 .. Len(Tail(b)) : Tail(b)[i] = b[i + 1]
  BY HeadTailProperties
<1>3. /\ Append(a, Head(b)) \in Seq(Command) /\ Len(Append(a, Head(b))) = Len(a) + 1
      /\ \A i \in 1 .. Len(a) : Append(a, Head(b))[i] = a[i]
      /\ Append(a, Head(b))[Len(a) + 1] = b[1]
  BY <1>1, AppendProperties
<1> DEFINE s == Append(a, Head(b)) \o Tail(b)
           t == a \o b
<1>4. s \in Seq(Command) /\ t \in Seq(Command) /\ Len(s) = Len(t)
  BY <1>1, <1>3, ConcatProperties
<1>5. ASSUME NEW i \in 1 .. Len(s) PROVE s[i] = t[i]
  <2>1. i \in 1 .. (Len(a) + 1) + Len(Tail(b)) /\ i \in 1 .. Len(a) + Len(b)
    BY <1>1, <1>3, <1>5, ConcatProperties
  <2>2. s[i] = IF i <= Len(a) + 1 THEN Append(a, Head(b))[i] ELSE Tail(b)[i - (Len(a) + 1)]
    BY <1>1, <1>3, <2>1, ConcatProperties
  <2>3. t[i] = IF i <= Len(a) THEN a[i] ELSE b[i - Len(a)]
    BY <2>1, ConcatProperties
  <2>4. CASE i <= Len(a)
    BY <1>1, <1>3, <2>1, <2>2, <2>3, <2>4
  <2>5. CASE i = Len(a) + 1
    BY <1>1, <1>3, <2>2, <2>3, <2>5
  <2>6. CASE i > Len(a) + 1
    <3>1. i - (Len(a) + 1) \in 1 .. Len(Tail(b)) /\ (i - (Len(a) + 1)) + 1 = i - Len(a)
      BY <1>1, <2>1, <2>6
    <3>2. Tail(b)[i - (Len(a) + 1)] = b[i - Len(a)]
      BY <1>2, <3>1
    <3>3. QED
      BY <1>1, <2>1, <2>2, <2>3, <2>6, <3>2
  <2>7. QED
    BY <1>1, <2>1, <2>4, <2>5, <2>6
<1>6. QED
  BY <1>4, <1>5, SeqEqual

\* Appending to the second of two sequences appends to both together.
LEMMA AppendMoves ==
    ASSUME NEW a \in Seq(Command), NEW b \in Seq(Command), NEW x \in Command
    PROVE  a \o Append(b, x) = Append(a \o b, x)
<1>1. Append(b, x) = b \o <<x>> /\ Append(a \o b, x) = (a \o b) \o <<x>> /\ <<x>> \in Seq(Command)
  BY AppendIsConcat, ConcatProperties
<1>2. QED
  BY <1>1, ConcatAssociative

\* What is in a concatenation.
LEMMA InConcat ==
    ASSUME NEW a \in Seq(Command), NEW b \in Seq(Command)
    PROVE  ToSet(a \o b) = ToSet(a) \cup ToSet(b)
<1>1. ToSet(a \o b) \subseteq ToSet(a) \cup ToSet(b)
  <2>1. ASSUME NEW i \in DOMAIN (a \o b) PROVE (a \o b)[i] \in ToSet(a) \cup ToSet(b)
    <3>1. i \in 1 .. Len(a) + Len(b) /\ Len(a) \in Nat /\ Len(b) \in Nat
      BY <2>1, ConcatProperties
    <3>2. (a \o b)[i] = IF i <= Len(a) THEN a[i] ELSE b[i - Len(a)]
      BY <3>1, ConcatProperties
    <3>3. DOMAIN a = 1 .. Len(a) /\ DOMAIN b = 1 .. Len(b)
      OBVIOUS
    <3>4. QED
      BY <3>1, <3>2, <3>3 DEF ToSet
  <2>2. QED
    BY <2>1 DEF ToSet
<1>2. ToSet(a) \cup ToSet(b) \subseteq ToSet(a \o b)
  <2>1. DOMAIN a = 1 .. Len(a) /\ DOMAIN b = 1 .. Len(b) /\ DOMAIN (a \o b) = 1 .. Len(a) + Len(b)
        /\ Len(a) \in Nat /\ Len(b) \in Nat
    BY ConcatProperties
  <2>2. ASSUME NEW i \in DOMAIN a PROVE a[i] = (a \o b)[i] /\ i \in DOMAIN (a \o b)
    BY <2>1, <2>2, ConcatProperties
  <2>3. ASSUME NEW i \in DOMAIN b PROVE b[i] = (a \o b)[Len(a) + i] /\ Len(a) + i \in DOMAIN (a \o b)
    <3>1. Len(a) + i \in 1 .. Len(a) + Len(b) /\ ~(Len(a) + i <= Len(a)) /\ (Len(a) + i) - Len(a) = i
      BY <2>1, <2>3
    <3>2. QED
      BY <2>1, <3>1, ConcatProperties
  <2>4. QED
    BY <2>2, <2>3 DEF ToSet
<1>3. QED
  BY <1>1, <1>2

\* Joining sequences of commands.
LEMMA Joining ==
    ASSUME NEW a \in Seq(Command), NEW b \in Seq(Command), NEW c \in Seq(Command)
    PROVE  a \o b \in Seq(Command) /\ (a \o b) \o c = a \o (b \o c)
BY ConcatAssociative, ConcatProperties, SMTT(60)

LEMMA Nothing ==
    ASSUME NEW a \in Seq(Command)
    PROVE  <<>> \in Seq(Command) /\ a \o <<>> = a /\ <<>> \o a = a
BY ConcatEmptySeq, EmptySeq

LEMMA JoiningOne ==
    ASSUME NEW a \in Seq(Command), NEW x \in Command
    PROVE  <<x>> \in Seq(Command) /\ Append(a, x) = a \o <<x>> /\ Append(a, x) \in Seq(Command)
BY AppendIsConcat, AppendProperties

\* Every sequence an instruction of the job can be in.
LEMMA PlacesAreSequences ==
    ASSUME Types
    PROVE  /\ job.applied \in Seq(Command) /\ job.pending \in Seq(Command)
           /\ job.applied \in Seq(Instructions) /\ job.pending \in Seq(Instructions)
           /\ commands \in Seq(Command) /\ queue \in Seq(Command)
           /\ order \in Seq(Instructions)
           /\ job.applied \o job.pending \in Seq(Command)
           /\ job.applied \o job.pending \in Seq(Instructions)
           /\ job.applied \o job.pending \o commands \in Seq(Command)
           /\ Everywhere \in Seq(Command)
<1>1. job.applied \in Seq(Instructions) /\ job.pending \in Seq(Instructions)
  BY DEF Types, RecordTypes, JobState
<1>2. job.applied \in Seq(Command) /\ job.pending \in Seq(Command)
  <2>1. Instructions \subseteq Command
    BY DEF Command
  <2>2. QED
    BY <1>1, <2>1, SeqMonotonic
<1>3. commands \in Seq(Command) /\ queue \in Seq(Command) /\ order \in Seq(Instructions)
  BY DEF Types, ChannelTypes, PlaceTypes
<1>4. job.applied \o job.pending \in Seq(Instructions)
  BY <1>1, ConcatProperties
<1>5. job.applied \o job.pending \in Seq(Command)
  BY <1>2, ConcatProperties
<1>6. job.applied \o job.pending \o commands \in Seq(Command)
  BY <1>3, <1>5, ConcatProperties
<1>7. Everywhere \in Seq(Command)
  BY <1>3, <1>6, ConcatProperties DEF Everywhere
<1>8. QED
  BY <1>1, <1>2, <1>3, <1>4, <1>5, <1>6, <1>7

\* Two sequences that follow "o" together do so alone, and without what is
\* between two others.
LEMMA MiddleDropped ==
    ASSUME NEW o, NEW a \in Seq(Command), NEW b \in Seq(Command), NEW c \in Seq(Command), Follows(o, a \o b \o c)
    PROVE  Follows(o, a \o c)
<1> DEFINE s == a \o b \o c
           t == a \o c
           at(i) == IF i <= Len(a) THEN i ELSE i + Len(b)
<1>1. /\ Len(a) \in Nat /\ Len(b) \in Nat /\ Len(c) \in Nat /\ a \o b \in Seq(Command)
      /\ Len(a \o b) = Len(a) + Len(b)
      /\ DOMAIN s = 1 .. Len(a) + Len(b) + Len(c) /\ DOMAIN t = 1 .. Len(a) + Len(c)
  BY ConcatProperties
<1>2. ASSUME NEW i \in DOMAIN t PROVE at(i) \in DOMAIN s /\ t[i] = s[at(i)]
  <2>1. CASE i <= Len(a)
    <3>1. i \in 1 .. Len(a) + Len(b) /\ i \in 1 .. Len(a) + Len(c) /\ i \in 1 .. Len(a \o b) + Len(c)
      BY <1>1, <1>2, <2>1
    <3>2. t[i] = a[i]
      BY <2>1, <3>1, ConcatProperties
    <3>3. s[i] = (a \o b)[i]
      BY <1>1, <3>1, ConcatProperties
    <3>4. (a \o b)[i] = a[i]
      BY <2>1, <3>1, ConcatProperties
    <3>5. QED
      BY <1>1, <2>1, <3>1, <3>2, <3>3, <3>4
  <2>2. CASE ~(i <= Len(a))
    <3>1. /\ i \in 1 .. Len(a) + Len(c) /\ at(i) = i + Len(b) /\ at(i) \in 1 .. Len(a \o b) + Len(c)
          /\ ~(at(i) <= Len(a \o b)) /\ at(i) - Len(a \o b) = i - Len(a)
      BY <1>1, <1>2, <2>2
    <3>2. t[i] = c[i - Len(a)]
      BY <2>2, <3>1, ConcatProperties
    <3>3. s[at(i)] = c[at(i) - Len(a \o b)]
      BY <1>1, <3>1, ConcatProperties
    <3>4. QED
      BY <1>1, <3>1, <3>2, <3>3
  <2>3. QED
    BY <2>1, <2>2
<1>3. ASSUME NEW m \in DOMAIN t, NEW n \in DOMAIN t, m < n PROVE at(m) < at(n)
  BY <1>1, <1>3
<1>4. QED
  BY <1>2, <1>3 DEF Follows

\* Something new at the end of both.
LEMMA EndGrows ==
    ASSUME NEW o \in Seq(Instructions), NEW s \in Seq(Command), NEW c \in Command, Follows(o, s)
    PROVE  Follows(IF c \in Instructions THEN Append(o, c) ELSE o, Append(s, c))
<1> DEFINE p == IF c \in Instructions THEN Append(o, c) ELSE o
           t == Append(s, c)
<1>1. /\ DOMAIN s = 1 .. Len(s) /\ DOMAIN t = 1 .. Len(s) + 1 /\ Len(s) \in Nat
      /\ \A n \in 1 .. Len(s) : t[n] = s[n]
      /\ t[Len(s) + 1] = c
  BY AppendProperties
<1>2. /\ DOMAIN o = 1 .. Len(o) /\ Len(o) \in Nat
      /\ \A a \in DOMAIN o : a \in DOMAIN p /\ p[a] = o[a]
      /\ c \in Instructions => Len(o) + 1 \in DOMAIN p /\ p[Len(o) + 1] = c
  BY AppendProperties
<1>3. ASSUME NEW n \in DOMAIN t, t[n] \in Instructions PROVE \E a \in DOMAIN p : p[a] = t[n]
  <2>1. CASE n = Len(s) + 1
    BY <1>1, <1>2, <1>3, <2>1
  <2>2. CASE n \in DOMAIN s
    BY <1>1, <1>2, <1>3, <2>2 DEF Follows
  <2>3. QED
    BY <1>1, <2>1, <2>2, SMTT(60)
<1>4. ASSUME NEW m \in DOMAIN t, NEW n \in DOMAIN t, m < n, t[m] \in Instructions, t[n] \in Instructions
      PROVE  Before(p, t[m], t[n])
  <2>1. CASE n \in DOMAIN s
    <3>1. m \in DOMAIN s /\ t[m] = s[m] /\ t[n] = s[n]
      BY <1>1, <1>4, <2>1
    <3>2. Before(o, s[m], s[n])
      BY <1>4, <2>1, <3>1 DEF Follows
    <3>3. QED
      BY <1>2, <3>1, <3>2 DEF Before
  <2>2. CASE n = Len(s) + 1
    <3>1. m \in DOMAIN s /\ t[m] = s[m] /\ t[n] = c
      BY <1>1, <1>4, <2>2
    <3>2. PICK a \in DOMAIN o : o[a] = s[m]
      BY <1>4, <3>1 DEF Follows
    <3>3. a < Len(o) + 1 /\ p[a] = t[m] /\ p[Len(o) + 1] = t[n] /\ a \in DOMAIN p /\ Len(o) + 1 \in DOMAIN p
      BY <1>2, <1>4, <3>1, <3>2
    <3>4. QED
      BY <3>3 DEF Before
  <2>3. QED
    BY <1>1, <2>1, <2>2
<1>5. QED
  BY <1>3, <1>4 DEF Follows

\* The bytes of one more instruction.
LEMMA BytesAdd ==
    ASSUME NEW s \in Seq(Instructions), NEW i \in Instructions
    PROVE  ByteCount(Append(s, i)) = ByteCount(s) + Bytes(i) /\ ByteCount(s) \in Nat
<1> DEFINE t == Append(s, i)
           L == {n \in DOMAIN s : s[n] \in Large}
           M == {n \in DOMAIN t : t[n] \in Large}
<1>1. /\ DOMAIN s = 1 .. Len(s) /\ DOMAIN t = 1 .. Len(s) + 1 /\ Len(s) \in Nat /\ Len(t) = Len(s) + 1
      /\ \A n \in 1 .. Len(s) : t[n] = s[n]
      /\ t[Len(s) + 1] = i
  BY AppendProperties
<1>2. IsFiniteSet(L) /\ Cardinality(L) \in Nat
  <2>1. L \in SUBSET (1 .. Len(s)) /\ IsFiniteSet(1 .. Len(s))
    BY <1>1, FS_Interval
  <2>2. QED
    BY <2>1, FS_Subset, FS_CardinalityType
<1>3. Len(s) + 1 \notin L
  BY <1>1
<1>4. ByteCount(s) = Len(s) + Cardinality(L) /\ ByteCount(t) = Len(t) + Cardinality(M)
  BY DEF ByteCount
<1>5. Len(s) \in Nat /\ Len(t) = Len(s) + 1
  BY <1>1
<1>6. CASE i \in Large
  <2>1. M = L \cup {Len(s) + 1}
    BY <1>1, <1>6
  <2>2. Cardinality(M) = Cardinality(L) + 1
    BY <1>2, <1>3, <2>1, FS_AddElement
  <2>3. Bytes(i) = 2
    BY <1>6 DEF Bytes
  <2> HIDE DEF t, L, M
  <2>4. ByteCount(t) = ByteCount(s) + Bytes(i) /\ ByteCount(s) \in Nat
    BY <1>2, <1>4, <1>5, <2>2, <2>3
  <2>5. QED
    BY <2>4 DEF t
<1>7. CASE i \notin Large
  <2>1. M = L
    BY <1>1, <1>7
  <2>2. Bytes(i) = 1
    BY <1>7 DEF Bytes
  <2> HIDE DEF t, L, M
  <2>3. ByteCount(t) = ByteCount(s) + Bytes(i) /\ ByteCount(s) \in Nat
    BY <1>2, <1>4, <1>5, <2>1, <2>2
  <2>4. QED
    BY <2>3 DEF t
<1>8. QED
  BY <1>6, <1>7

LEMMA NothingIsBounded == ByteCount(<<>>) = 0 /\ Len(<<>>) = 0
<1>1. {n \in DOMAIN <<>> : <<>>[n] \in Large} = {}
  OBVIOUS
<1>2. QED
  BY <1>1, FS_EmptySet DEF ByteCount

-----------------------------------------------------------------------------
(* Types.                                                                  *)

\* The first state: a job that starts, and an empty channel.
LEMMA InitInv == Init => Inv
<1>1. SUFFICES ASSUME Init PROVE Inv
  OBVIOUS
<1>2. ChannelTypes
  <2>1. queue \in Seq(Command) /\ order \in Seq(Instructions) /\ Len(order) = 0 /\ sent = 0 /\ Len(Script) \in Nat
    BY <1>1, EmptySeq, ControlAssumption, LenProperties DEF Init
  <2>2. holders \subseteq Senders /\ sending \in [Senders -> Flagged \cup {NoCommand}]
    BY <1>1 DEF Init, Armed, Senders
  <2>3. pauseRequested \in BOOLEAN /\ stopRequested \in BOOLEAN
    BY <1>1 DEF Init
  <2>4. Len(order) = sent /\ sent <= Len(Script) /\ \A n \in 1 .. sent : order[n] = Script[n]
    BY <2>1
  <2>5. QED
    BY <2>1, <2>2, <2>3, <2>4 DEF ChannelTypes
<1>3. RecordTypes /\ job.applied = <<>> /\ job.pending = <<>>
  BY <1>1, EmptySeq, ControlAssumption DEF Init, RecordTypes, NewJob, JobState, Statuses, Resumable
<1>4. PlaceTypes
  BY <1>1, EmptySeq DEF Init, PlaceTypes, Continuations
<1>5. TurnsAreCounted /\ HeardIsApplied
  BY <1>1 DEF Init, TurnsAreCounted, HeardIsApplied, AtSafePoint
<1>6. Everywhere = <<>> /\ disk.applied \o disk.pending = <<>>
  <2>1. <<>> \o <<>> = <<>>
    BY ConcatEmptySeq, EmptySeq
  <2>2. QED
    BY <1>1, <1>3, <2>1 DEF Init, Everywhere, RecordTypes
<1>7. Follows(order, Everywhere)
  BY <1>6 DEF Follows
<1>8. InstructionsAreBounded
  BY <1>6, NothingIsBounded, ControlAssumption DEF InstructionsAreBounded
<1>9. QED
  BY <1>2, <1>3, <1>4, <1>5, <1>7, <1>8 DEF Inv, Types

\* The instruction that is sent next is new.
LEMMA SendingIsTyped ==
    ASSUME Types, NEW s \in Senders,
           Enqueue(s) \/ SenderGone(s) \/ (\E c \in Command : ClientSends(s, c)) \/ FirstInterrupt
    PROVE  ChannelTypes'
<1>1. \A c \in Flagged : c \in Command /\ c \notin Instructions
  BY CommandAssumption DEF Flagged, Command, Plain
<1>2. CASE Enqueue(s)
  <2>1. sending[s] \in Flagged /\ sending[s] # NoCommand
    BY <1>2 DEF Enqueue, Types, ChannelTypes
  <2>2. queue' \in Seq(Command) /\ order' = order
    BY <1>1, <1>2, <2>1, AppendProperties DEF Enqueue, Queued, Types, ChannelTypes
  <2>3. QED
    BY <1>2, <2>2 DEF Enqueue, Types, ChannelTypes, flagVars
<1>3. CASE SenderGone(s)
  BY <1>3 DEF SenderGone, Types, ChannelTypes, flagVars
<1>4. CASE FirstInterrupt
  BY <1>4 DEF FirstInterrupt, StoreFlag, Types, ChannelTypes, Flagged, Senders
<1>5. ASSUME NEW c \in Command, ClientSends(s, c) PROVE ChannelTypes'
  <2>1. \/ sent < Len(Script) /\ c = Script[sent + 1] /\ sent' = sent + 1
        \/ c \in Plain /\ sent' = sent
    BY <1>5 DEF ClientSends
  <2>2. CASE c \in Flagged
    <3>1. StoreFlag(s, c) /\ UNCHANGED <<queue, order, holders>> /\ c \notin Instructions
      BY <1>1, <1>5, <2>2 DEF ClientSends
    <3>2. sent' = sent
      <4>1. sent < Len(Script) /\ sent \in Nat => Script[sent + 1] \in Instructions
        BY ControlAssumption DEF Instructions, ToSet
      <4>2. QED
        BY <2>1, <3>1, <4>1 DEF Types, ChannelTypes
    <3>3. QED
      BY <2>2, <3>1, <3>2 DEF StoreFlag, Types, ChannelTypes
  <2>3. CASE c \notin Flagged
    <3>1. Queued(c) /\ UNCHANGED <<flagVars, sending, holders>>
      BY <1>5, <2>3 DEF ClientSends
    <3>2. queue' \in Seq(Command)
      BY <3>1, AppendProperties DEF Queued, Types, ChannelTypes
    <3>3. CASE c \in Instructions
      <4>1. sent < Len(Script) /\ c = Script[sent + 1] /\ sent' = sent + 1
        BY <2>1, <3>3, CommandAssumption
      <4>2. order' = Append(order, c) /\ order \in Seq(Instructions)
        BY <3>1, <3>3 DEF Queued, Types, ChannelTypes
      <4>3. /\ order' \in Seq(Instructions) /\ Len(order') = sent' /\ sent' <= Len(Script)
            /\ \A n \in 1 .. sent' : order'[n] = Script[n]
        BY <3>3, <4>1, <4>2, AppendProperties, ControlAssumption, SMTT(60) DEF Types, ChannelTypes
      <4>4. QED
        BY <3>1, <3>2, <4>3 DEF Types, ChannelTypes, flagVars
    <3>4. CASE c \notin Instructions
      <4>1. order' = order /\ sent' = sent
        <5>1. sent < Len(Script) /\ sent \in Nat => Script[sent + 1] \in Instructions
          BY ControlAssumption DEF Instructions, ToSet
        <5>2. QED
          BY <2>1, <3>1, <3>4, <5>1 DEF Queued, Types, ChannelTypes
      <4>2. QED
        BY <3>1, <3>2, <4>1 DEF Types, ChannelTypes, flagVars
    <3>5. QED
      BY <3>3, <3>4
  <2>4. QED
    BY <2>2, <2>3
<1>6. QED
  BY <1>2, <1>3, <1>4, <1>5

\* A safe point takes what is queued.
LEMMA TakingIsTyped ==
    ASSUME Types, Drain \/ TakeNext
    PROVE  Types'
<1>1. queue' \in Seq(Command) /\ commands' \in Seq(Command)
  <2>1. CASE Drain
    BY <2>1, EmptySeq DEF Drain, Types, ChannelTypes
  <2>2. CASE TakeNext
    <3>1. Head(queue) \in Command /\ Tail(queue) \in Seq(Command)
      BY <2>2, HeadTailProperties DEF TakeNext, Types, ChannelTypes
    <3>2. QED
      BY <2>2, <3>1 DEF TakeNext
  <2>3. QED
    BY <2>1, <2>2
<1>2. ChannelTypes'
  BY <1>1 DEF Drain, TakeNext, Types, ChannelTypes, flagVars
<1>3. RecordTypes' /\ PlaceTypes'
  BY <1>1 DEF Drain, TakeNext, Types, RecordTypes, PlaceTypes
<1>4. QED
  BY <1>2, <1>3 DEF Types

\* A command is handled.
LEMMA HandlingIsTyped ==
    ASSUME Types, Handle
    PROVE  Types'
<1>1. ChannelTypes'
  BY DEF Handle, Types, ChannelTypes, channelVars, flagVars
<1>2. Head(commands) \in Command /\ commands' \in Seq(Command)
  BY HeadTailProperties DEF Handle, Types, PlaceTypes
<1>3. job.pending \in Seq(Instructions) /\ job \in JobState /\ disk = job
  BY DEF Types, RecordTypes, JobState
<1>4. UNCHANGED <<after, request, started>>
  BY DEF Handle
<1>5. CASE UNCHANGED <<job, disk>> /\ pc' = "handling"
  BY <1>1, <1>2, <1>4, <1>5 DEF Types, RecordTypes, PlaceTypes
<1>6. CASE UNCHANGED <<job, disk>> /\ pc' = "applying" /\ job.pending # <<>>
  BY <1>1, <1>2, <1>4, <1>6 DEF Types, RecordTypes, PlaceTypes
<1>7. ASSUME NEW i \in Instructions, Save([job EXCEPT !.pending = Append(@, i)]), pc' = "applying" PROVE Types'
  <2>1. Append(job.pending, i) \in Seq(Instructions) /\ Append(job.pending, i) # <<>>
    BY <1>3, <1>7, AppendProperties
  <2>2. job' = [job EXCEPT !.pending = Append(job.pending, i)] /\ disk' = job'
    BY <1>7 DEF Save
  <2>3. job' \in JobState /\ job'.index = job.index /\ job'.pending # <<>>
    BY <1>3, <2>1, <2>2 DEF JobState
  <2>4. RecordTypes' /\ PlaceTypes'
    BY <1>2, <1>4, <1>7, <2>2, <2>3 DEF Types, RecordTypes, PlaceTypes
  <2>5. QED
    BY <1>1, <2>4 DEF Types
<1>8. QED
  BY <1>5, <1>6, <1>7 DEF Handle, HandleSend, ToApply

\* An instruction is applied.
LEMMA ApplyingIsTyped ==
    ASSUME Types, Apply
    PROVE  Types'
<1>1. ChannelTypes'
  BY DEF Apply, Types, ChannelTypes, channelVars, flagVars
<1>2. job \in JobState /\ job.pending \in Seq(Instructions) /\ job.applied \in Seq(Instructions) /\ job.pending # <<>>
  BY DEF Apply, Types, RecordTypes, PlaceTypes, JobState
<1>3. Tail(job.pending) \in Seq(Instructions) /\ Append(job.applied, Head(job.pending)) \in Seq(Instructions)
  BY <1>2, HeadTailProperties, AppendProperties
<1>4. /\ job' = [job EXCEPT !.pending = Tail(job.pending), !.applied = Append(job.applied, Head(job.pending))]
      /\ disk' = job'
  BY DEF Apply, Save
<1>5. job' \in JobState /\ job'.index = job.index
  BY <1>2, <1>3, <1>4 DEF JobState
<1>6. pc' = IF job'.pending = <<>> THEN "handling" ELSE "applying"
  BY DEF Apply, ToApply
<1>7. RecordTypes' /\ PlaceTypes'
  BY <1>4, <1>5, <1>6 DEF Apply, Types, RecordTypes, PlaceTypes
<1>8. QED
  BY <1>1, <1>7 DEF Types

\* The record gets another status, turn or operation; instructions and the place
\* in the chain stay.
Revised ==
    /\ job' \in JobState /\ disk' = job'
    /\ job'.index = job.index /\ job'.pending = job.pending /\ job'.applied = job.applied

LEMMA StatusIsRevised ==
    ASSUME RecordTypes, NEW s \in Statuses, Save([job EXCEPT !.status = s])
    PROVE  Revised
BY DEF RecordTypes, JobState, Save, Revised

LEMMA OperationIsRevised ==
    ASSUME RecordTypes, NEW o \in {"supervise", "review", "execute", "publish"},
           Save([job EXCEPT !.operation = o])
    PROVE  Revised
BY DEF RecordTypes, JobState, Save, Revised

LEMMA BothAreRevised ==
    ASSUME RecordTypes, NEW s \in Statuses, NEW o \in {"supervise", "review", "execute", "publish"},
           Save([job EXCEPT !.status = s, !.operation = o])
    PROVE  Revised
BY DEF RecordTypes, JobState, Save, Revised

LEMMA TurnIsRevised ==
    ASSUME RecordTypes, NEW n \in 0 .. MaxTurns,
           Save([job EXCEPT !.status = "RUNNING", !.turn = n, !.operation = "review"])
    PROVE  Revised
<1>1. "RUNNING" \in Statuses
  BY DEF Statuses, Resumable
<1>2. QED
  BY <1>1 DEF RecordTypes, JobState, Save, Revised

\* What the driver does at and between its safe points.
LEMMA DrivingIsTyped ==
    ASSUME Types,
           \/ Check \/ LeavePaused \/ Supervise \/ Reviewed \/ Execute \/ StartExecutor \/ Executed
           \/ Publish \/ Settle
    PROVE  ChannelTypes' /\ (Revised \/ UNCHANGED <<job, disk>>) /\ RecordTypes' /\ PlaceTypes'
<1>1. ChannelTypes'
  <2>1. UNCHANGED channelVars
    BY DEF Check, LeavePaused, Supervise, Reviewed, Execute, StartExecutor, Executed, Publish, Settle
  <2>2. QED
    BY <2>1 DEF Types, ChannelTypes, channelVars, flagVars
<1>2. RecordTypes
  BY DEF Types
<1>3. Revised \/ UNCHANGED <<job, disk>>
  <2>1. CASE Check \/ LeavePaused \/ Settle
    <3>1. (\E s \in Statuses : Save([job EXCEPT !.status = s])) \/ UNCHANGED <<job, disk>>
      <4>1. {"STOPPED", "RUNNING", "PAUSED", "PUBLISHED", "FAILED"} \subseteq Statuses
        BY DEF Statuses, Resumable
      <4>2. QED
        BY <2>1, <4>1 DEF Check, LeavePaused, Settle
    <3>2. QED
      BY <1>2, <3>1, StatusIsRevised
  <2>2. CASE Supervise
    <3>1. job.turn \in 0 .. MaxTurns /\ MaxTurns \in Nat
      BY <1>2, ControlAssumption DEF RecordTypes, JobState
    <3>2. CASE pc = "supervise" /\ job.turn = MaxTurns /\ Save([job EXCEPT !.status = "FAILED"])
      <4>1. "FAILED" \in Statuses
        BY DEF Statuses
      <4>2. QED
        BY <1>2, <3>2, <4>1, StatusIsRevised
    <3>3. CASE pc = "review" \/ job.turn < MaxTurns
      <4>1. PICK n \in 0 .. MaxTurns :
                Save([job EXCEPT !.status = "RUNNING", !.turn = n, !.operation = "review"])
        <5>1. CASE pc = "review"
          BY <2>2, <3>1, <5>1 DEF Supervise
        <5>2. CASE pc # "review"
          <6>1. job.turn + 1 \in 0 .. MaxTurns
            BY <3>1, <3>3, <5>2
          <6>2. job.turn # MaxTurns
            BY <3>1, <3>3, <5>2
          <6>3. Save([job EXCEPT !.status = "RUNNING", !.turn = job.turn + 1, !.operation = "review"])
            BY <2>2, <5>2, <6>2 DEF Supervise
          <6>4. QED
            BY <6>1, <6>3
        <5>3. QED
          BY <5>1, <5>2
      <4>2. QED
        BY <1>2, <4>1, TurnIsRevised
    <3>4. QED
      BY <2>2, <3>2, <3>3 DEF Supervise
  <2>3. CASE Reviewed \/ StartExecutor
    BY <2>3 DEF Reviewed, StartExecutor
  <2>4. CASE Execute \/ Executed
    <3>1. \/ Save([job EXCEPT !.operation = "execute"]) \/ Save([job EXCEPT !.operation = "supervise"])
          \/ UNCHANGED <<job, disk>>
      <4>1. Execute => Save([job EXCEPT !.operation = "execute"])
        BY DEF Execute
      <4>2. Executed => Save([job EXCEPT !.operation = "supervise"]) \/ UNCHANGED <<job, disk>>
        BY ZenonT(60) DEF Executed
      <4>3. QED
        BY <2>4, <4>1, <4>2
    <3>2. QED
      BY <1>2, <3>1, OperationIsRevised
  <2>5. CASE Publish
    <3>1. Save([job EXCEPT !.status = "PUBLISHING", !.operation = "publish"]) /\ "PUBLISHING" \in Statuses
      BY <2>5 DEF Publish, Statuses, Resumable
    <3>2. QED
      BY <1>2, <3>1, BothAreRevised
  <2>6. QED
    BY <2>1, <2>2, <2>3, <2>4, <2>5
<1>4. RecordTypes'
  <2>1. started' = started
    BY DEF Check, LeavePaused, Supervise, Reviewed, Execute, StartExecutor, Executed, Publish, Settle
  <2>2. QED
    BY <1>2, <1>3, <2>1 DEF RecordTypes, Revised
<1>5. PlaceTypes'
  <2>1. commands' = commands /\ (request' = request \/ request' = <<>> \/ request' = job.applied)
    BY DEF Check, LeavePaused, Supervise, Reviewed, Execute, StartExecutor, Executed, Publish, Settle, TurnOver
  <2>2. request' \in Seq(Instructions)
    BY <1>2, <2>1, EmptySeq DEF Types, PlaceTypes, RecordTypes, JobState
  <2>3. /\ pc' \in {"safe", "paused", "reviewing", "executing", "ended"} \cup Continuations
        /\ after' \in Continuations
    BY DEF Check, LeavePaused, Supervise, Reviewed, Execute, StartExecutor, Executed, Publish, Settle, Pass, ToSafePoint,
           Continuations, Types, PlaceTypes
  <2>4. QED
    BY <2>1, <2>2, <2>3 DEF Types, PlaceTypes, Continuations
<1>6. QED
  BY <1>1, <1>3, <1>4, <1>5

\* The next job of a chain, the end of a run, a crash and a later process.
LEMMA ChainIsTyped ==
    ASSUME Types, NextJob \/ Ends \/ Crash \/ ResumeChain
    PROVE  Types'
<1>1. job \in JobState /\ disk = job /\ started = job.index
  BY DEF Types, RecordTypes
<1>2. CASE NextJob
  <2>1. job' = NewJob(job.index + 1) /\ disk' = job' /\ job.index < MaxJobs /\ started' = started + 1
    BY <1>2 DEF NextJob, Save, ChainContinues
  <2>2. job.index + 1 \in 1 .. MaxJobs /\ 0 \in 0 .. MaxTurns
    BY <1>1, <2>1, ControlAssumption, SMTT(60) DEF JobState
  <2>3. RecordTypes'
    BY <1>1, <2>1, <2>2, EmptySeq DEF RecordTypes, JobState, NewJob, Statuses, Resumable
  <2>4. ChannelTypes' /\ PlaceTypes'
    BY <1>2 DEF NextJob, ToSafePoint, Types, ChannelTypes, PlaceTypes, channelVars, flagVars, Continuations
  <2>5. QED
    BY <2>3, <2>4 DEF Types
<1>3. CASE Ends \/ Crash
  <2>1. RecordTypes' /\ queue' = <<>> /\ sending' = [s \in Senders |-> NoCommand]
    BY <1>1, <1>3 DEF Ends, Crash, RecordTypes
  <2>2. ChannelTypes'
    BY <1>3, <2>1, EmptySeq DEF Ends, Crash, Types, ChannelTypes, flagVars
  <2>3. PlaceTypes'
    BY <1>3, EmptySeq DEF Ends, Crash, Types, PlaceTypes
  <2>4. QED
    BY <2>1, <2>2, <2>3 DEF Types
<1>4. CASE ResumeChain
  <2>1. job' = [job EXCEPT !.status = "RUNNING"] /\ disk' = job' /\ started' = started
    BY <1>1, <1>4 DEF ResumeChain, Save
  <2>2. RecordTypes'
    BY <1>1, <2>1 DEF RecordTypes, JobState, Statuses, Resumable
  <2>3. ChannelTypes'
    BY <1>4 DEF ResumeChain, Types, ChannelTypes
  <2>4. PlaceTypes'
    BY <1>1, <1>4 DEF ResumeChain, ToSafePoint, Types, PlaceTypes, JobState, Continuations
  <2>5. QED
    BY <2>2, <2>3, <2>4 DEF Types
<1>5. QED
  BY <1>2, <1>3, <1>4

-----------------------------------------------------------------------------
(* A stop bounds the turns that start.                                     *)

\* Only a safe point that saw no stop lets the driver pass.
LEMMA TurnsStayCounted == Types /\ TurnsAreCounted /\ [Next]_vars => TurnsAreCounted'
<1>1. SUFFICES ASSUME Types, TurnsAreCounted, [Next]_vars PROVE TurnsAreCounted'
  OBVIOUS
<1>2. CASE UNCHANGED vars
  BY <1>1, <1>2 DEF TurnsAreCounted, vars, channelVars, driverVars, flagVars
<1>3. CASE \E s \in Senders : Enqueue(s) \/ SenderGone(s) \/ (\E c \in Command : ClientSends(s, c))
  <2>1. UNCHANGED <<late, pc>> /\ (stopRequested => stopRequested')
    BY <1>1, <1>3 DEF Enqueue, SenderGone, ClientSends, StoreFlag, flagVars, driverVars, Types, ChannelTypes
  <2>2. QED
    BY <1>1, <2>1 DEF TurnsAreCounted
<1>4. CASE FirstInterrupt
  BY <1>1, <1>4 DEF TurnsAreCounted, FirstInterrupt, StoreFlag, driverVars
<1>5. CASE Drain \/ TakeNext \/ Handle \/ Apply
  <2>1. UNCHANGED <<late, stopRequested>> /\ pc' \in AtSafePoint
    BY <1>5 DEF Drain, TakeNext, Handle, HandleSend, Apply, ToApply, channelVars, flagVars, AtSafePoint
  <2>2. QED
    BY <1>1, <2>1 DEF TurnsAreCounted, AtSafePoint
<1>6. CASE Check
  <2>1. UNCHANGED <<late, stopRequested>> /\ (stopRequested => pc' = "ended")
    BY <1>6 DEF Check, MustStop, channelVars, flagVars
  <2>2. QED
    BY <1>1, <2>1 DEF TurnsAreCounted
<1>7. CASE Supervise \/ StartExecutor
  <2>1. late = 0 /\ stopRequested' = stopRequested /\ pc' \in {"reviewing", "executing", "ended"}
    BY <1>1, <1>7 DEF Supervise, StartExecutor, TurnsAreCounted, channelVars, flagVars
  <2>2. late' = late \/ (stopRequested /\ late' = late + 1)
    BY <1>7 DEF Supervise, StartExecutor, Late
  <2>3. QED
    BY <1>1, <2>1, <2>2 DEF TurnsAreCounted
<1>8. CASE LeavePaused \/ Reviewed \/ Executed \/ Execute \/ Publish \/ Settle \/ NextJob \/ Ends \/ Crash
  <2>1. UNCHANGED <<late, stopRequested>> /\ pc' \in {"safe", "ended", "over", "down"}
    BY <1>8 DEF LeavePaused, Reviewed, Executed, Execute, Publish, Settle, NextJob, Ends, Crash, ToSafePoint,
                channelVars, flagVars
  <2>2. QED
    BY <1>1, <2>1 DEF TurnsAreCounted
<1>9. CASE ResumeChain
  BY <1>9 DEF TurnsAreCounted, ResumeChain, ToSafePoint
<1>10. QED
  BY <1>1, <1>2, <1>3, <1>4, <1>5, <1>6, <1>7, <1>8, <1>9 DEF Next, DriverStep

-----------------------------------------------------------------------------
(* Turns see the instructions.                                             *)

\* A step that leaves the driver alone.
LEMMA HeardUntouched ==
    ASSUME HeardIsApplied, UNCHANGED <<job, pc, after, request, heard, due>>
    PROVE  HeardIsApplied'
BY DEF HeardIsApplied

LEMMA HandlingKeepsHeard ==
    ASSUME Types, HeardIsApplied, Handle
    PROVE  HeardIsApplied'
<1>1. UNCHANGED <<due, request, after>> /\ pc = "handling" /\ pc' \in {"handling", "applying"}
  BY DEF Handle, HandleSend, ToApply
<1>2. (after = "start" => due \subseteq ToSet(request)) /\ (heard # {} => job.pending = <<>>)
  BY <1>1 DEF HeardIsApplied, AtSafePoint
<1>3. CASE UNCHANGED <<job, heard>>
  BY <1>1, <1>2, <1>3 DEF HeardIsApplied
<1>4. ASSUME NEW i \in Instructions, Save([job EXCEPT !.pending = Append(@, i)]), heard' = heard \cup {i}, pc' = "applying"
      PROVE  HeardIsApplied'
  <2>1. job'.applied = job.applied /\ job'.pending = Append(job.pending, i) /\ job.pending \in Seq(Instructions)
    BY <1>4 DEF Save, Types, RecordTypes, JobState
  <2>2. ToSet(Append(job.pending, i)) = ToSet(job.pending) \cup {i}
    <3>1. /\ Append(job.pending, i) = job.pending \o <<i>> /\ <<i>> \in Seq(Command)
          /\ job.pending \in Seq(Command)
      BY PlacesAreSequences, JoiningOne DEF Command
    <3>2. ToSet(<<i>>) = {i}
      BY DEF ToSet
    <3>3. ToSet(job.pending \o <<i>>) = ToSet(job.pending) \cup ToSet(<<i>>)
      BY <3>1, InConcat
    <3>4. QED
      BY <3>1, <3>2, <3>3
  <2>3. QED
    BY <1>1, <1>2, <1>4, <2>1, <2>2 DEF HeardIsApplied
<1>5. QED
  BY <1>3, <1>4 DEF Handle, HandleSend

LEMMA ApplyingKeepsHeard ==
    ASSUME Types, HeardIsApplied, Apply
    PROVE  HeardIsApplied'
<1>1. /\ job.pending \in Seq(Instructions) /\ job.applied \in Seq(Instructions) /\ job.pending # <<>>
      /\ job \in JobState
  BY DEF Apply, Types, RecordTypes, PlaceTypes, JobState
<1>2. job'.applied = Append(job.applied, Head(job.pending)) /\ job'.pending = Tail(job.pending)
  BY <1>1 DEF Apply, Save, JobState
<1>3. job'.applied \in Seq(Command) /\ job'.pending \in Seq(Command)
  <2>1. Head(job.pending) \in Command /\ Tail(job.pending) \in Seq(Command)
    BY <1>1, PlacesAreSequences, HeadTailProperties
  <2>2. QED
    BY <1>2, <2>1, PlacesAreSequences, JoiningOne
<1>4. job'.applied \o job'.pending = job.applied \o job.pending
  BY <1>1, <1>2, PlacesAreSequences, HeadMoves
<1>5. ToSet(job'.applied) \cup ToSet(job'.pending) = ToSet(job.applied) \cup ToSet(job.pending)
  <2>1. ToSet(job.applied \o job.pending) = ToSet(job.applied) \cup ToSet(job.pending)
    BY PlacesAreSequences, InConcat
  <2>2. ToSet(job'.applied \o job'.pending) = ToSet(job'.applied) \cup ToSet(job'.pending)
    BY <1>3, InConcat
  <2>3. QED
    BY <1>4, <2>1, <2>2
<1>6. /\ UNCHANGED <<heard, due, request, after>> /\ pc = "applying" /\ pc' \in {"handling", "applying"}
      /\ pc' # "applying" => job'.pending = <<>>
  BY DEF Apply, ToApply
<1>7. QED
  BY <1>5, <1>6 DEF HeardIsApplied, AtSafePoint

LEMMA DrivingKeepsHeard ==
    ASSUME Types, HeardIsApplied,
           \/ Check \/ LeavePaused \/ Supervise \/ Reviewed \/ Execute \/ StartExecutor \/ Executed
           \/ Publish \/ Settle
    PROVE  HeardIsApplied'
<1>1. /\ pc # "applying" /\ pc' # "applying" /\ heard' = heard
      /\ job'.applied = job.applied /\ job'.pending = job.pending
  <2>1. pc # "applying" /\ heard' = heard
    BY DEF Check, LeavePaused, Supervise, Reviewed, Execute, StartExecutor, Executed, Publish, Settle
  <2>2. pc' # "applying"
    BY DEF Check, LeavePaused, Supervise, Reviewed, Execute, StartExecutor, Executed, Publish, Settle, Pass, ToSafePoint,
           Types, PlaceTypes, Continuations
  <2>3. QED
    BY <2>1, <2>2, DrivingIsTyped DEF Revised
<1>2. heard \subseteq ToSet(job.applied)
  <2>1. heard # {} => job.pending = <<>>
    BY <1>1 DEF HeardIsApplied
  <2>2. ToSet(<<>>) = {}
    BY DEF ToSet
  <2>3. QED
    BY <2>1, <2>2 DEF HeardIsApplied
<1>3. HeardIsApplied!1' /\ (heard' # {} => job'.pending = <<>>)
  BY <1>1 DEF HeardIsApplied
<1>4. CASE Check
  <2>1. UNCHANGED <<request, after>> /\ pc = "handling"
    BY <1>4 DEF Check
  <2>2. CASE pc' \in {"ended", "paused"} /\ due' = due
    BY <1>1, <1>3, <2>1, <2>2 DEF HeardIsApplied, AtSafePoint
  <2>3. CASE Pass
    <3>1. pc' = after /\ after \in Continuations
      BY <2>3 DEF Pass, Types, PlaceTypes
    <3>2. CASE after \in {"supervise", "review", "execute"}
      BY <1>1, <1>2, <1>3, <2>1, <2>3, <3>1, <3>2 DEF Pass, HeardIsApplied, AtSafePoint
    <3>3. CASE after \notin {"supervise", "review", "execute"}
      BY <1>1, <1>3, <2>1, <2>3, <3>1, <3>3 DEF Pass, HeardIsApplied, AtSafePoint, Continuations
    <3>4. QED
      BY <3>2, <3>3
  <2>4. QED
    BY <1>4, <2>2, <2>3 DEF Check
<1>5. CASE Supervise
  BY <1>1, <1>3, <1>5 DEF Supervise, HeardIsApplied, AtSafePoint
<1>6. CASE Execute
  BY <1>1, <1>3, <1>6 DEF Execute, ToSafePoint, HeardIsApplied, AtSafePoint
<1>7. CASE StartExecutor
  BY <1>1, <1>3, <1>7 DEF StartExecutor, HeardIsApplied, AtSafePoint
<1>8. CASE Reviewed \/ Executed
  BY <1>1, <1>3, <1>8 DEF Reviewed, Executed, TurnOver, ToSafePoint, HeardIsApplied, AtSafePoint
<1>9. CASE LeavePaused \/ Publish \/ Settle
  <2>1. pc' \in {"ended", "safe"} /\ due' = due /\ request' = request
        /\ (pc' = "safe" => after' \in {"settle", "fail"})
    BY <1>9 DEF LeavePaused, Publish, Settle, ToSafePoint
  <2>2. QED
    BY <1>1, <1>3, <2>1 DEF HeardIsApplied, AtSafePoint
<1>10. QED
  BY <1>4, <1>5, <1>6, <1>7, <1>8, <1>9

LEMMA ChainKeepsHeard ==
    ASSUME Types, HeardIsApplied, NextJob \/ Ends \/ Crash \/ ResumeChain
    PROVE  HeardIsApplied'
<1>1. CASE NextJob
  BY <1>1 DEF NextJob, ToSafePoint, HeardIsApplied, AtSafePoint
<1>2. CASE Ends
  BY <1>2 DEF Ends, HeardIsApplied, AtSafePoint
<1>3. CASE Crash
  BY <1>3 DEF Crash, HeardIsApplied, AtSafePoint
<1>4. CASE ResumeChain
  <2>1. job'.applied = job.applied /\ job'.pending = job.pending
    BY <1>4 DEF ResumeChain, Save, Types, RecordTypes, JobState
  <2>2. pc' = "safe" /\ after' # "start" /\ UNCHANGED <<heard, due>> /\ pc # "applying"
    BY <1>4 DEF ResumeChain, ToSafePoint, Types, RecordTypes, JobState
  <2>3. QED
    BY <2>1, <2>2 DEF HeardIsApplied
<1>5. QED
  BY <1>1, <1>2, <1>3, <1>4

-----------------------------------------------------------------------------
(* The instructions keep their order, and their bounds.                    *)

\* Something is queued: it is the last of all.
LEMMA QueueingKeepsOrder ==
    ASSUME Types, Follows(order, Everywhere), NEW c \in Command, Queued(c), UNCHANGED <<job, commands>>
    PROVE  Follows(order, Everywhere)'
<1>1. /\ queue' = Append(queue, c) /\ order' = IF c \in Instructions THEN Append(order, c) ELSE order
  BY DEF Queued
<1>2. Everywhere' = Append(Everywhere, c)
  BY <1>1, PlacesAreSequences, AppendMoves DEF Everywhere
<1>3. Follows(order', Append(Everywhere, c))
  BY <1>1, PlacesAreSequences, EndGrows
<1>4. QED
  BY <1>2, <1>3

\* What is taken, handled, applied or dropped leaves the rest as it was.
LEMMA TakingKeepsOrder ==
    ASSUME Types, Follows(order, Everywhere), Drain \/ TakeNext
    PROVE  Follows(order, Everywhere)'
<1> DEFINE kept == job.applied \o job.pending
<1>1. UNCHANGED <<order, job>> /\ kept \in Seq(Command) /\ commands \in Seq(Command) /\ queue \in Seq(Command)
  BY PlacesAreSequences DEF Drain, TakeNext
<1>2. Follows(order, kept \o queue)
  BY <1>1, MiddleDropped DEF Everywhere
<1>3. Everywhere' = kept \o queue
  <2>1. CASE Drain
    <3>1. Everywhere' = (kept \o queue) \o <<>> /\ kept \o queue \in Seq(Command)
      BY <1>1, <2>1, Joining DEF Drain, Everywhere
    <3>2. QED
      BY <3>1, Nothing
  <2>2. CASE TakeNext
    <3>1. /\ Everywhere' = (kept \o <<Head(queue)>>) \o Tail(queue) /\ queue # <<>>
          /\ Head(queue) \in Command /\ Tail(queue) \in Seq(Command)
      BY <1>1, <2>2, HeadTailProperties DEF TakeNext, Everywhere
    <3>2. kept \o <<Head(queue)>> = Append(kept, Head(queue))
      BY <1>1, <3>1, JoiningOne
    <3>3. Append(kept, Head(queue)) \o Tail(queue) = kept \o queue
      BY <1>1, <3>1, HeadMoves
    <3>4. QED
      BY <3>1, <3>2, <3>3
  <2>3. QED
    BY <2>1, <2>2
<1>4. QED
  BY <1>1, <1>2, <1>3

\* A command that is handled is the first of those taken.
LEMMA HandlingKeepsOrder ==
    ASSUME Types, Follows(order, Everywhere), Handle
    PROVE  Follows(order, Everywhere)'
<1> DEFINE kept == job.applied \o job.pending
           rest == Tail(commands)
<1>1. /\ UNCHANGED <<order, queue>> /\ commands' = rest /\ commands # <<>>
      /\ kept \in Seq(Command) /\ commands \in Seq(Command) /\ queue \in Seq(Command)
  BY PlacesAreSequences DEF Handle, channelVars
<1>2. Head(commands) \in Command /\ rest \in Seq(Command)
  BY <1>1, HeadTailProperties
<1>3. Everywhere = Append(kept, Head(commands)) \o rest \o queue
  BY <1>1, HeadMoves DEF Everywhere
<1>4. CASE job' = job
  <2>1. Append(kept, Head(commands)) \o rest \o queue = kept \o <<Head(commands)>> \o (rest \o queue)
    <3>1. Append(kept, Head(commands)) = kept \o <<Head(commands)>>
      BY <1>1, <1>2, JoiningOne
    <3>2. Append(kept, Head(commands)) \in Seq(Command)
      BY <1>1, <1>2, AppendProperties
    <3>3. Append(kept, Head(commands)) \o rest \o queue = Append(kept, Head(commands)) \o (rest \o queue)
      BY <1>1, <1>2, <3>2, Joining
    <3>4. QED
      BY <3>1, <3>3
  <2>2. <<Head(commands)>> \in Seq(Command) /\ rest \o queue \in Seq(Command)
    BY <1>1, <1>2, Joining
  <2>3. Follows(order, kept \o (rest \o queue))
    BY <1>1, <1>3, <2>1, <2>2, MiddleDropped
  <2>4. Everywhere' = kept \o (rest \o queue)
    <3>1. Everywhere' = (kept \o rest) \o queue
      BY <1>1, <1>4 DEF Everywhere
    <3> HIDE DEF kept, rest
    <3>2. (kept \o rest) \o queue = kept \o (rest \o queue)
      BY <1>1, <1>2, Joining, SMTT(60)
    <3>3. QED
      BY <3>1, <3>2
  <2>5. QED
    BY <1>1, <2>3, <2>4
<1>5. CASE job' # job
  <2>1. /\ Head(commands) \in Instructions /\ job \in JobState
        /\ job' = [job EXCEPT !.pending = Append(job.pending, Head(commands))]
    BY <1>5 DEF Handle, HandleSend, Save, Types, RecordTypes
  <2>2. job'.applied = job.applied /\ job'.pending = Append(job.pending, Head(commands))
    BY <2>1 DEF JobState
  <2>3. job'.applied \o job'.pending = Append(kept, Head(commands))
    <3>1. job.applied \in Seq(Command) /\ job.pending \in Seq(Command)
      BY PlacesAreSequences
    <3>2. job.applied \o Append(job.pending, Head(commands)) = Append(kept, Head(commands))
      BY <1>2, <3>1, AppendMoves
    <3>3. QED
      BY <2>2, <3>2
  <2>4. Everywhere' = Everywhere
    BY <1>1, <1>3, <2>3 DEF Everywhere
  <2>5. QED
    BY <1>1, <2>4
<1>6. QED
  BY <1>4, <1>5

LEMMA ApplyingKeepsOrder ==
    ASSUME Types, Follows(order, Everywhere), InstructionsAreBounded, Apply
    PROVE  Follows(order, Everywhere)' /\ InstructionsAreBounded'
<1>1. /\ job.pending # <<>> /\ job \in JobState /\ disk = job /\ disk' = job'
      /\ UNCHANGED <<order, queue, commands>>
  BY DEF Apply, Save, Types, RecordTypes, PlaceTypes, channelVars
<1>2. job'.applied = Append(job.applied, Head(job.pending)) /\ job'.pending = Tail(job.pending)
  BY <1>1 DEF Apply, Save, JobState
<1>3. job'.applied \o job'.pending = job.applied \o job.pending
  BY <1>1, <1>2, PlacesAreSequences, HeadMoves
<1>4. Everywhere' = Everywhere
  BY <1>1, <1>3 DEF Everywhere
<1>5. QED
  BY <1>1, <1>3, <1>4 DEF InstructionsAreBounded

\* instruction_budget_refusal counts what is applied and what is pending.
LEMMA HandlingKeepsBounds ==
    ASSUME Types, InstructionsAreBounded, Handle
    PROVE  InstructionsAreBounded'
<1>1. job \in JobState /\ disk = job
  BY DEF Types, RecordTypes
<1>2. CASE UNCHANGED disk
  BY <1>2 DEF InstructionsAreBounded
<1>3. ASSUME NEW i \in Instructions, ~BudgetRefuses(job, i), Save([job EXCEPT !.pending = Append(@, i)])
      PROVE  InstructionsAreBounded'
  <2> DEFINE active == job.applied \o job.pending
  <2>1. active \in Seq(Instructions) /\ Len(active) \in Nat /\ ByteCount(active) \in Nat /\ Bytes(i) \in Nat
    BY PlacesAreSequences, BytesAdd, LenProperties DEF Bytes
  <2>2. disk'.applied = job.applied /\ disk'.pending = Append(job.pending, i)
    BY <1>1, <1>3 DEF Save, JobState
  <2>3. disk'.applied \o disk'.pending = Append(active, i)
    <3>1. job.applied \in Seq(Command) /\ job.pending \in Seq(Command) /\ i \in Command
      BY PlacesAreSequences DEF Command
    <3>2. job.applied \o Append(job.pending, i) = Append(active, i)
      BY <3>1, AppendMoves
    <3>3. QED
      BY <2>2, <3>2
  <2>4. Len(Append(active, i)) = Len(active) + 1 /\ ByteCount(Append(active, i)) = ByteCount(active) + Bytes(i)
    BY <2>1, BytesAdd, AppendProperties, ZenonT(60)
  <2>5. ~(Len(active) >= MaxActive) /\ ~(ByteCount(active) + Bytes(i) > MaxBytes)
    BY <1>3 DEF BudgetRefuses
  <2>6. MaxActive \in Nat /\ MaxBytes \in Nat
    BY ControlAssumption
  <2> HIDE DEF active
  <2>7. Len(Append(active, i)) <= MaxActive /\ ByteCount(Append(active, i)) <= MaxBytes
    BY <2>1, <2>4, <2>5, <2>6
  <2>8. QED
    BY <2>3, <2>7 DEF InstructionsAreBounded
<1>4. QED
  BY <1>2, <1>3 DEF Handle, HandleSend

\* A step that leaves the instructions where they are, or drops those of a job
\* that is over and those of a process that died.
LEMMA OthersKeepOrder ==
    ASSUME Types, Follows(order, Everywhere), InstructionsAreBounded,
           \/ UNCHANGED <<order, job, disk, commands, queue>>
           \/ (UNCHANGED <<order, commands, queue>> /\ Revised)
           \/ NextJob \/ Ends \/ Crash \/ ResumeChain
    PROVE  Follows(order, Everywhere)' /\ InstructionsAreBounded'
<1>1. job \in JobState /\ disk = job
  BY DEF Types, RecordTypes
<1>2. CASE UNCHANGED <<order, job, disk, commands, queue>>
  BY <1>2 DEF Everywhere, InstructionsAreBounded
<1>3. CASE UNCHANGED <<order, commands, queue>> /\ Revised
  <2>1. Everywhere' = Everywhere
    BY <1>3 DEF Revised, Everywhere
  <2>2. QED
    BY <1>1, <1>3, <2>1 DEF Revised, InstructionsAreBounded
<1>4. CASE ResumeChain
  <2>1. Revised /\ UNCHANGED <<order, commands, queue>>
    BY <1>1, <1>4 DEF ResumeChain, Save, Revised, JobState, Statuses, Resumable
  <2>2. QED
    BY <1>3, <2>1
<1>5. CASE NextJob
  <2>1. /\ job'.applied = <<>> /\ job'.pending = <<>> /\ disk' = job' /\ UNCHANGED <<order, commands, queue>>
    BY <1>5 DEF NextJob, Save, NewJob, channelVars
  <2>2. <<>> \in Seq(Command) /\ <<>> \o <<>> = <<>>
    BY EmptySeq, Nothing
  <2>3. Everywhere' = <<>> \o commands \o queue
    BY <2>1, <2>2 DEF Everywhere
  <2>4. Follows(order, <<>> \o commands \o queue)
    <3> DEFINE kept == job.applied \o job.pending
               coming == commands \o queue
    <3>1. kept \in Seq(Command) /\ commands \in Seq(Command) /\ queue \in Seq(Command)
      BY PlacesAreSequences
    <3>2. coming \in Seq(Command) /\ kept \o commands \o queue = kept \o coming
      <4> HIDE DEF kept
      <4>1. QED
        BY <3>1, Joining, SMTT(60)
    <3>3. <<>> \o kept = kept /\ <<>> \o commands = commands
      BY <3>1, Nothing
    <3>4. <<>> \o kept \o coming = kept \o commands \o queue
      BY <3>2, <3>3
    <3>5. Follows(order, <<>> \o kept \o coming)
      BY <3>4 DEF Everywhere
    <3> HIDE DEF kept, coming
    <3>6. Follows(order, <<>> \o coming)
      BY <2>2, <3>1, <3>2, <3>5, MiddleDropped
    <3>7. <<>> \o coming = coming
      BY <3>2, Nothing
    <3>8. QED
      BY <3>3, <3>6, <3>7 DEF coming
  <2>5. InstructionsAreBounded'
    <3>1. ByteCount(<<>>) = 0 /\ Len(<<>>) = 0
      BY NothingIsBounded
    <3>2. 0 <= MaxActive /\ 0 <= MaxBytes
      BY ControlAssumption
    <3>3. disk'.applied \o disk'.pending = <<>>
      BY <2>1, <2>2
    <3>4. QED
      BY <3>1, <3>2, <3>3 DEF InstructionsAreBounded
  <2>6. QED
    BY <2>1, <2>3, <2>4, <2>5
<1>6. CASE Ends
  <2>1. Everywhere' = (job.applied \o job.pending \o commands) \o <<>> /\ UNCHANGED <<order, disk>>
    BY <1>6 DEF Ends, Everywhere
  <2>2. (job.applied \o job.pending \o commands) \o queue \o <<>> = Everywhere
    BY PlacesAreSequences, Nothing DEF Everywhere
  <2>3. Follows(order, (job.applied \o job.pending \o commands) \o <<>>)
    BY <2>2, PlacesAreSequences, EmptySeq, MiddleDropped
  <2>4. QED
    BY <2>1, <2>3 DEF InstructionsAreBounded
<1>7. CASE Crash
  <2> DEFINE kept == job.applied \o job.pending
  <2>1. Everywhere' = kept \o <<>> \o <<>> /\ UNCHANGED <<order, disk>>
    BY <1>1, <1>7 DEF Crash, Everywhere
  <2>2. kept \in Seq(Command) /\ commands \o queue \in Seq(Command) /\ <<>> \in Seq(Command)
    BY PlacesAreSequences, Joining, Nothing
  <2>3. kept \o (commands \o queue) \o <<>> = Everywhere
    <3>1. commands \in Seq(Command) /\ queue \in Seq(Command)
      BY PlacesAreSequences
    <3> HIDE DEF kept
    <3>2. kept \o commands \o queue = kept \o (commands \o queue)
      BY <2>2, <3>1, Joining, SMTT(60)
    <3>3. kept \o (commands \o queue) \in Seq(Command)
      BY <2>2, Joining
    <3>4. kept \o (commands \o queue) \o <<>> = kept \o (commands \o queue)
      BY <3>3, Nothing
    <3>5. QED
      BY <3>2, <3>4 DEF Everywhere, kept
  <2>4. Follows(order, kept \o <<>>)
    BY <2>2, <2>3, MiddleDropped
  <2>5. kept \o <<>> \o <<>> = kept \o <<>>
    BY <2>2, Nothing
  <2>6. QED
    BY <2>1, <2>4, <2>5 DEF InstructionsAreBounded
<1>8. QED
  BY <1>2, <1>3, <1>4, <1>5, <1>6, <1>7

-----------------------------------------------------------------------------
(* The theorems.                                                           *)

\* The invariant is inductive.
LEMMA NextInv == Inv /\ [Next]_vars => Inv'
<1>1. SUFFICES ASSUME Inv, [Next]_vars PROVE Inv'
  OBVIOUS
<1>2. Types /\ TurnsAreCounted /\ HeardIsApplied /\ Follows(order, Everywhere) /\ InstructionsAreBounded
  BY <1>1 DEF Inv
<1>3. TurnsAreCounted'
  BY <1>1, <1>2, TurnsStayCounted
<1>4. CASE UNCHANGED vars
  <2>1. Types'
    BY <1>2, <1>4
    DEF Types, ChannelTypes, RecordTypes, PlaceTypes, vars, channelVars, driverVars, flagVars
  <2>2. HeardIsApplied'
    BY <1>2, <1>4, HeardUntouched DEF vars, driverVars
  <2>3. Follows(order, Everywhere)' /\ InstructionsAreBounded'
    BY <1>2, <1>4, OthersKeepOrder DEF vars, channelVars, driverVars
  <2>4. QED
    BY <1>3, <2>1, <2>2, <2>3 DEF Inv
<1>5. ASSUME NEW s \in Senders,
             Enqueue(s) \/ SenderGone(s) \/ (\E c \in Command : ClientSends(s, c)) \/ FirstInterrupt
      PROVE  Inv'
  <2>1. ChannelTypes' /\ UNCHANGED driverVars
    BY <1>2, <1>5, SendingIsTyped DEF Enqueue, SenderGone, ClientSends, FirstInterrupt
  <2>2. Types'
    BY <1>2, <2>1 DEF Types, RecordTypes, PlaceTypes, driverVars
  <2>3. HeardIsApplied'
    BY <1>2, <2>1, HeardUntouched DEF driverVars
  <2>4. Follows(order, Everywhere)' /\ InstructionsAreBounded'
    <3>1. CASE UNCHANGED <<order, queue>>
      BY <1>2, <2>1, <3>1, OthersKeepOrder DEF driverVars
    <3>2. CASE \E c \in Command : Queued(c)
      BY <1>2, <2>1, <3>2, QueueingKeepsOrder DEF driverVars, InstructionsAreBounded
    <3>3. CASE Enqueue(s)
      BY <1>3, <1>2, <3>2, <3>3 DEF Enqueue, Types, ChannelTypes, Flagged, Command, Plain
    <3>4. QED
      BY <1>5, <3>1, <3>2, <3>3 DEF SenderGone, ClientSends, FirstInterrupt
  <2>5. QED
    BY <1>3, <2>2, <2>3, <2>4 DEF Inv
<1>6. CASE Drain \/ TakeNext
  <2>1. Types' /\ Follows(order, Everywhere)'
    BY <1>2, <1>6, TakingIsTyped, TakingKeepsOrder
  <2>2. UNCHANGED <<job, disk, after, request, heard, due>> /\ pc' = "handling" /\ pc \in {"safe", "paused"}
    BY <1>6 DEF Drain, TakeNext
  <2>3. HeardIsApplied' /\ InstructionsAreBounded'
    BY <1>2, <2>2 DEF HeardIsApplied, AtSafePoint, InstructionsAreBounded
  <2>4. QED
    BY <1>3, <2>1, <2>3 DEF Inv
<1>7. CASE Handle
  BY <1>2, <1>3, <1>7, HandlingIsTyped, HandlingKeepsHeard, HandlingKeepsOrder, HandlingKeepsBounds DEF Inv
<1>8. CASE Apply
  BY <1>2, <1>3, <1>8, ApplyingIsTyped, ApplyingKeepsHeard, ApplyingKeepsOrder DEF Inv
<1>9. CASE \/ Check \/ LeavePaused \/ Supervise \/ Reviewed \/ Execute \/ StartExecutor \/ Executed
           \/ Publish \/ Settle
  <2>1. UNCHANGED <<order, commands, queue>>
    BY <1>9 DEF Check, LeavePaused, Supervise, Reviewed, Execute, StartExecutor, Executed, Publish, Settle, channelVars
  <2>2. Follows(order, Everywhere)' /\ InstructionsAreBounded'
    BY <1>2, <1>9, <2>1, DrivingIsTyped, OthersKeepOrder
  <2>3. QED
    BY <1>2, <1>3, <1>9, <2>2, DrivingIsTyped, DrivingKeepsHeard DEF Inv, Types
<1>10. CASE NextJob \/ Ends \/ Crash \/ ResumeChain
  BY <1>2, <1>3, <1>10, ChainIsTyped, ChainKeepsHeard, OthersKeepOrder DEF Inv
<1>11. QED
  <2>1. CASE FirstInterrupt
    BY <1>5, <2>1 DEF Senders
  <2>2. QED
    BY <1>1, <1>4, <1>5, <1>6, <1>7, <1>8, <1>9, <1>10, <2>1 DEF Next, DriverStep

\* Places in the order are unique, because no instruction is sent twice.
LEMMA FollowingIsKept == Types /\ Follows(order, Everywhere) => InstructionsKeepTheirOrder
<1>1. SUFFICES ASSUME Types, Follows(order, Everywhere),
                      NEW m \in DOMAIN Everywhere, NEW n \in DOMAIN Everywhere,
                      m < n, Everywhere[m] \in Instructions, Everywhere[n] \in Instructions
               PROVE  (CHOOSE k \in DOMAIN order : order[k] = Everywhere[m])
                        < (CHOOSE k \in DOMAIN order : order[k] = Everywhere[n])
  BY DEF InstructionsKeepTheirOrder, Everywhere
<1>2. PICK a \in DOMAIN order, b \in DOMAIN order : a < b /\ order[a] = Everywhere[m] /\ order[b] = Everywhere[n]
  BY <1>1 DEF Follows, Before
<1>3. \A k, l \in DOMAIN order : order[k] = order[l] => k = l
  <2>1. DOMAIN order = 1 .. sent /\ \A k \in 1 .. sent : order[k] = Script[k] /\ k \in DOMAIN Script
    BY <1>1, ControlAssumption, SMTT(60) DEF Types, ChannelTypes
  <2>2. QED
    BY <2>1, ControlAssumption DEF IsInjective
<1>4. (CHOOSE k \in DOMAIN order : order[k] = Everywhere[m]) = a
  BY <1>2, <1>3
<1>5. (CHOOSE k \in DOMAIN order : order[k] = Everywhere[n]) = b
  BY <1>2, <1>3
<1>6. QED
  BY <1>2, <1>4, <1>5

\* control.rs, safe_point and apply_queued_instructions: through every interleaving
\* of senders and safe points, every crash and every resumed process, what a person
\* sends stays within the budget, keeps its order, and is in the requests of the
\* turns that begin after it was heard.
THEOREM WhatIsSentIsKept == Spec => []InstructionsAreKept
<1>1. Inv => InstructionsAreKept
  <2>1. SUFFICES ASSUME Inv PROVE InstructionsAreKept
    OBVIOUS
  <2>2. Types /\ HeardIsApplied /\ InstructionsAreBounded /\ InstructionsKeepTheirOrder
    BY <2>1, FollowingIsKept DEF Inv
  <2>3. TypeOK
    <3>1. [Senders -> Flagged \cup {NoCommand}] \subseteq [Senders -> Command \cup {NoCommand}]
      BY DEF Flagged, Command, Plain
    <3>2. ToSet(request) \subseteq Instructions
      BY <2>2 DEF Types, PlaceTypes, ToSet
    <3>3. QED
      BY <2>2, <3>1, <3>2 DEF TypeOK, Types, ChannelTypes, RecordTypes, PlaceTypes
  <2>4. TurnsSeeTheInstructions
    BY <2>2 DEF HeardIsApplied, TurnsSeeTheInstructions
  <2>5. QED
    BY <2>2, <2>3, <2>4 DEF InstructionsAreKept
<1>2. QED
  BY <1>1, InitInv, NextInv, PTL DEF Spec

\* continue_sequentially and stop_requested: however often a chain is interrupted
\* and resumed it starts at most max_jobs jobs, and after a stop at most the turn
\* that had already passed its safe point.
THEOREM ChainsAreBounded == Spec => []WorkIsBounded
<1>1. Inv => WorkIsBounded
  <2>1. SUFFICES ASSUME Inv PROVE WorkIsBounded
    OBVIOUS
  <2>2. started \in 1 .. MaxJobs /\ MaxJobs \in Nat /\ late \in 0 .. 1
    BY <2>1, ControlAssumption DEF Inv, Types, RecordTypes, JobState, TurnsAreCounted
  <2>3. QED
    BY <2>2 DEF WorkIsBounded, ChainIsBounded, StopBoundsTurns
<1>2. QED
  BY <1>1, InitInv, NextInv, PTL DEF Spec

=============================================================================
