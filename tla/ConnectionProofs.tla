---------------------------- MODULE ConnectionProofs ----------------------------
(***************************************************************************)
(* What the viewers of a job are shown, for any number of viewers, events  *)
(* and crashes and any sizes of the channels, the replay and the guard     *)
(* that is smaller than it: the join of the history and the live stream    *)
(* leaves nothing out and shows nothing twice, unless the guard is outrun. *)
(* Then what these streams are made of: the frames of any messages in any  *)
(* reads (Wire), and the narration of any events by any jobs (Narration).  *)
(***************************************************************************)
EXTENDS MCConnection, Induction, TLAPS

\* The lemmas are about any state of the chain and any session; a state of the chain
\* is what a session depends on.  The event that was logged last may not be offered
\* to the subscribers yet.
World ==
    [emitted |-> emitted,
     offered |-> IF pending = 0 THEN emitted ELSE emitted - 1,
     lost |-> lost, childFrom |-> childFrom, log |-> log,
     silent |-> driver \in {"released", "over"}]

InStream(w, job, e) == job = First \/ (w.childFrom # 0 /\ e >= w.childFrom)

\* What the viewer of s has to be shown, if not now then later.
Due(w, s) == {e \in 1 .. w.emitted : InStream(w, s.job, e) /\ e \notin w.lost}

Increasing(t) == \A i, k \in DOMAIN t : i < k => t[i] < t[k]

Guarded(s) == s.overlap <= GuardCapacity

-----------------------------------------------------------------------------
(* The inductive invariant.                                                *)

Receiving == {"read", "replay", "live"}

Sessions ==
    [at : {"out", "opening", "ready", "control", "attaching", "load", "subscribe", "read",
           "replay", "live", "history", "answer", "closing"},
     job : Jobs, replay : BOOLEAN, history : Seq(Nat), guard : Seq(Nat), inbox : Seq(Nat),
     missed : BOOLEAN, open : BOOLEAN, shown : Seq(Nat), base : Nat, overlap : Nat,
     left : BOOLEAN, stalled : BOOLEAN,
     loaded : {"none", "queued", "running", "parked", "terminal"}]

\* The two promises, of one session.
Once(w, s) ==
    \A i, k \in DOMAIN s.shown :
        i < k => s.shown[i] # s.shown[k] /\ (s.shown[i] < s.shown[k] \/ s.shown[k] \in w.lost)

NoGap(w, s) ==
    \A e \in Due(w, s), a, b \in ToSet(s.shown) : a < e /\ e < b => e \in ToSet(s.shown)

ShownOk(w, s) ==
    /\ ToSet(s.shown) \subseteq 1 .. w.emitted
    /\ Guarded(s) => Once(w, s) /\ NoGap(w, s)

\* The inbox has what was offered since the subscription and was not read from it,
\* as long as nothing was missed.
InboxOk(w, s) ==
    /\ s.base <= w.offered
    /\ Increasing(s.inbox)
    /\ \A e \in ToSet(s.inbox) : s.base < e /\ e <= w.offered /\ InStream(w, s.job, e)
    /\ ~s.open => w.silent
    /\ ~s.missed =>
          \A e \in Due(w, s) :
              s.base < e /\ e <= w.offered => e \in ToSet(s.inbox) \cup ToSet(s.shown)

\* Who does not receive has nothing of a stream, and who was not shown anything has
\* nothing to guard.
IdleOk(s) == s.inbox = <<>> /\ ~s.open /\ ~s.missed

NewOk(s) == s.shown = <<>> /\ s.overlap = 0 /\ s.guard = <<>>

\* While the history is written: what was read from the log is without a gap around
\* the subscription, unless it outruns the guard, and the guard remembers what the
\* stream may bring again.
ReplayOk(w, s) ==
    LET read == ToSet(s.shown) \cup ToSet(s.history)
    IN  /\ read \subseteq 1 .. w.emitted
        /\ Increasing(s.shown) /\ Increasing(s.history) /\ Increasing(s.guard)
        /\ \A a \in ToSet(s.shown), b \in ToSet(s.history) : a < b
        /\ ToSet(s.guard) \subseteq ToSet(s.shown) /\ Len(s.guard) <= GuardCapacity
        /\ s.overlap = Cardinality({e \in read : e > s.base})
        /\ Guarded(s) =>
              /\ \A e \in Due(w, s), h \in read :
                    (s.base < e /\ e < h) \/ (h < e /\ e <= s.base) => e \in read
              /\ \A e \in ToSet(s.shown) : s.base < e => e \in ToSet(s.guard)

\* While the stream is read: what was shown and may still come is in the guard, and
\* what still comes is newer than all that was shown, or its line in the log is broken.
LiveOk(w, s) ==
    /\ Increasing(s.guard) /\ ToSet(s.guard) \subseteq ToSet(s.shown)
    /\ Guarded(s) =>
          /\ \A e \in ToSet(s.shown) :
                e \in ToSet(s.inbox) \/ w.offered < e => e \in ToSet(s.guard)
          /\ \A e \in Due(w, s), b \in ToSet(s.shown) :
                e \in ToSet(s.inbox) /\ e < b => e \in ToSet(s.shown)
          /\ \A e \in Due(w, s), a \in ToSet(s.shown) :
                a < e /\ e <= s.base => e \in ToSet(s.shown)

SessionOk(w, s) ==
    /\ s \in Sessions
    /\ ShownOk(w, s)
    /\ s.at \in Receiving => InboxOk(w, s)
    /\ s.at \notin Receiving => IdleOk(s)
    /\ s.at \notin {"replay", "live", "closing"} => NewOk(s)
    /\ s.at = "replay" => ReplayOk(w, s)
    /\ s.at = "live" => LiveOk(w, s)

\* The log has every event that is not lost, in their order; a chain that is not
\* driven emits nothing.
ChainOk ==
    /\ driver \in {"none", "queued", "running", "ending", "released", "over"}
    /\ rec \in [Jobs -> {"none", "queued", "running", "parked", "terminal"}]
    /\ senders = IF driver \in {"running", "ending", "released"} THEN {First} ELSE {}
    /\ channels \subseteq Jobs
    /\ emitted \in 0 .. MaxEvents /\ childFrom \in 0 .. (emitted + 1)
    /\ log \in Seq(1 .. emitted) /\ Len(log) <= emitted /\ Increasing(log)
    /\ lost \subseteq 1 .. emitted
    /\ \A e \in 1 .. emitted : e \in ToSet(log) \/ e \in lost
    /\ pending \in {0, emitted}
    /\ driver \notin {"running", "ending"} => pending = 0
    /\ torn \in BOOLEAN /\ shutdown \in BOOLEAN

Inv ==
    /\ ChainOk
    /\ DOMAIN session = Clients
    /\ \A c \in Clients : SessionOk(World, session[c])
    /\ ConnectionsAreCounted

-----------------------------------------------------------------------------
(* Sequences of events.                                                    *)

LEMMA AppendSet ==
    ASSUME NEW S, NEW t \in Seq(S), NEW e
    PROVE  ToSet(Append(t, e)) = ToSet(t) \cup {e}
<1> DEFINE u == Append(t, e)
<1>1. /\ DOMAIN t = 1 .. Len(t) /\ DOMAIN u = 1 .. (Len(t) + 1) /\ Len(t) \in Nat
      /\ \A i \in 1 .. Len(t) : u[i] = t[i]
      /\ u[Len(t) + 1] = e
  OBVIOUS
<1> HIDE DEF u
<1>2. ToSet(u) \subseteq ToSet(t) \cup {e}
  BY <1>1 DEF ToSet
<1>3. ToSet(t) \subseteq ToSet(u)
  BY <1>1 DEF ToSet
<1>4. e \in ToSet(u)
  BY <1>1 DEF ToSet
<1>5. ToSet(u) = ToSet(t) \cup {e}
  BY <1>2, <1>3, <1>4
<1>6. QED
  BY <1>5 DEF u

LEMMA EmptySet == ToSet(<<>>) = {} /\ Increasing(<<>>)
  BY DEF ToSet, Increasing

\* A sequence of numbers is its head and its tail.
LEMMA HeadAndTail ==
    ASSUME NEW t \in Seq(Nat), t # <<>>
    PROVE  /\ Head(t) \in Nat /\ Tail(t) \in Seq(Nat)
           /\ ToSet(t) = {Head(t)} \cup ToSet(Tail(t))
           /\ Increasing(t) => Increasing(Tail(t)) /\ \A e \in ToSet(Tail(t)) : Head(t) < e
<1> DEFINE u == Tail(t)
<1>1. /\ Len(t) \in Nat \ {0} /\ DOMAIN t = 1 .. Len(t)
      /\ u \in Seq(Nat) /\ Len(u) = Len(t) - 1 /\ DOMAIN u = 1 .. (Len(t) - 1)
      /\ Head(t) = t[1] /\ \A i \in 1 .. (Len(t) - 1) : u[i] = t[i + 1]
      /\ \A i \in 1 .. Len(t) : t[i] \in Nat
  OBVIOUS
<1> HIDE DEF u
<1>2. ToSet(u) \subseteq ToSet(t) /\ Head(t) \in ToSet(t)
  <2>1. \A i \in 1 .. (Len(t) - 1) : u[i] \in ToSet(t)
    <3>1. TAKE i \in 1 .. (Len(t) - 1)
    <3>2. i + 1 \in 1 .. Len(t) /\ u[i] = t[i + 1]
      BY <1>1
    <3>3. QED
      BY <3>2, <1>1 DEF ToSet
  <2>2. ToSet(u) \subseteq ToSet(t)
    BY <1>1, <2>1 DEF ToSet
  <2>3. 1 \in DOMAIN t
    BY <1>1
  <2>4. Head(t) \in ToSet(t)
    BY <1>1, <2>3 DEF ToSet
  <2>5. QED
    BY <2>2, <2>4
<1>3. ASSUME NEW i \in 1 .. Len(t) PROVE t[i] = Head(t) \/ t[i] \in ToSet(u)
  <2>1. CASE i = 1
    BY <2>1, <1>1
  <2>2. CASE i # 1
    <3>1. i - 1 \in 1 .. (Len(t) - 1) /\ u[i - 1] = t[i]
      BY <2>2, <1>1
    <3>2. QED
      BY <3>1, <1>1 DEF ToSet
  <2>3. QED
    BY <2>1, <2>2
<1>4. ToSet(t) = {Head(t)} \cup ToSet(u)
  BY <1>1, <1>2, <1>3 DEF ToSet
<1>5. Increasing(t) => Increasing(u) /\ \A e \in ToSet(u) : Head(t) < e
  <2>1. SUFFICES ASSUME Increasing(t) PROVE Increasing(u) /\ \A e \in ToSet(u) : Head(t) < e
    OBVIOUS
  <2>2. \A i, k \in 1 .. Len(t) : i < k => t[i] < t[k]
    BY <1>1, <2>1 DEF Increasing
  <2>3. \A i \in 1 .. (Len(t) - 1) : t[1] < u[i]
    <3>1. TAKE i \in 1 .. (Len(t) - 1)
    <3>2. i + 1 \in 1 .. Len(t) /\ 1 \in 1 .. Len(t) /\ 1 < i + 1
      BY <1>1
    <3>3. QED
      BY <3>2, <2>2, <1>1
  <2>4. Increasing(u)
    <3>1. SUFFICES ASSUME NEW i \in 1 .. (Len(t) - 1), NEW k \in 1 .. (Len(t) - 1), i < k
                   PROVE  u[i] < u[k]
      BY <1>1 DEF Increasing
    <3>2. i + 1 \in 1 .. Len(t) /\ k + 1 \in 1 .. Len(t) /\ i + 1 < k + 1
      BY <1>1, <3>1
    <3>3. QED
      BY <3>2, <2>2, <1>1
  <2>5. QED
    BY <1>1, <2>3, <2>4 DEF ToSet
<1>6. QED
  BY <1>1, <1>4, <1>5 DEF u

LEMMA IncreasingAppend ==
    ASSUME NEW t \in Seq(Nat), NEW e \in Nat, Increasing(t), \A x \in ToSet(t) : x < e
    PROVE  Increasing(Append(t, e))
<1> DEFINE u == Append(t, e)
<1>1. /\ DOMAIN t = 1 .. Len(t) /\ DOMAIN u = 1 .. (Len(t) + 1) /\ Len(t) \in Nat
      /\ \A i \in 1 .. Len(t) : u[i] = t[i]
      /\ u[Len(t) + 1] = e
  OBVIOUS
<1>2. \A i \in 1 .. Len(t) : t[i] < e
  BY <1>1 DEF ToSet
<1> HIDE DEF u
<1>3. Increasing(u)
  BY <1>1, <1>2 DEF Increasing
<1>4. QED
  BY <1>3 DEF u

\* An increasing sequence has as many members as it is long.
LEMMA IncreasingCardinality ==
    ASSUME NEW t \in Seq(Nat), Increasing(t)
    PROVE  IsFiniteSet(ToSet(t)) /\ Cardinality(ToSet(t)) = Len(t)
<1>1. /\ Len(t) \in Nat /\ DOMAIN t = 1 .. Len(t)
      /\ \A i \in 1 .. Len(t) : t[i] \in Nat
  OBVIOUS
<1>2. IsFiniteSet(1 .. Len(t)) /\ Cardinality(1 .. Len(t)) = Len(t)
  BY <1>1, FS_Interval, SMTT(60)
<1>3. t \in [1 .. Len(t) -> ToSet(t)]
  BY <1>1 DEF ToSet
<1>4. \A i, k \in 1 .. Len(t) : t[i] = t[k] => i = k
  BY <1>1 DEF Increasing
<1>5. \A e \in ToSet(t) : \E i \in 1 .. Len(t) : t[i] = e
  BY <1>1 DEF ToSet
<1>6. t \in Bijection(1 .. Len(t), ToSet(t))
  BY <1>3, <1>4, <1>5 DEF Bijection, Injection, Surjection, IsInjective
<1>7. ExistsBijection(1 .. Len(t), ToSet(t))
  BY <1>6 DEF ExistsBijection
<1>8. QED
  BY <1>2, <1>7, FS_Bijection


\* What remains of an increasing sequence when one event is removed.
LEMMA RemoveFirstKeeps ==
    ASSUME NEW t \in Seq(Nat), NEW e, Increasing(t)
    PROVE  /\ RemoveFirst(t, e) \in Seq(Nat) /\ Increasing(RemoveFirst(t, e))
           /\ ToSet(t) \ {e} \subseteq ToSet(RemoveFirst(t, e))
           /\ ToSet(RemoveFirst(t, e)) \subseteq ToSet(t)
<1>1. /\ Len(t) \in Nat /\ DOMAIN t = 1 .. Len(t)
      /\ \A i \in 1 .. Len(t) : t[i] \in Nat
  OBVIOUS
<1>2. CASE ~\E i \in 1 .. Len(t) : t[i] = e
  BY <1>2 DEF RemoveFirst
<1>3. CASE \E i \in 1 .. Len(t) : t[i] = e
  <2>1. PICK i \in 1 .. Len(t) : t[i] = e
    BY <1>3
  <2> DEFINE found == {j \in 1 .. Len(t) : t[j] = e}
             before == SubSeq(t, 1, i - 1)
             behind == SubSeq(t, i + 1, Len(t))
             u == before \o behind
  <2>2. found = {i}
    BY <1>1, <2>1, SMTT(60) DEF Increasing
  <2>3. Min({i}) = i
    BY <1>1 DEF Min
  <2>4. SelectInSeq(t, LAMBDA v : v = e) = i
    BY <2>2, <2>3 DEF SelectInSeq
  <2>5. RemoveFirst(t, e) = u
    BY <1>3, <2>4 DEF RemoveFirst, RemoveAt
  <2>6. /\ before \in Seq(Nat) /\ Len(before) = i - 1
        /\ \A k \in 1 .. (i - 1) : before[k] = t[k]
    BY <1>1, SubSeqProperties
  <2>7. /\ behind \in Seq(Nat) /\ Len(behind) = Len(t) - i
        /\ \A k \in 1 .. (Len(t) - i) : behind[k] = t[i + k]
    <3>1. i + 1 \in Int /\ Len(t) \in Int /\ \A x \in (i + 1) .. Len(t) : t[x] \in Nat
      BY <1>1
    <3>2. /\ behind \in Seq(Nat)
          /\ Len(behind) = IF i + 1 <= Len(t) THEN Len(t) - (i + 1) + 1 ELSE 0
          /\ \A k \in 1 .. (Len(t) - (i + 1) + 1) : behind[k] = t[(i + 1) + k - 1]
      BY <3>1, SubSeqProperties
    <3> HIDE DEF behind
    <3>3. Len(behind) = Len(t) - i
      <4>1. i \in Int /\ i <= Len(t)
        BY <1>1
      <4>2. (IF i + 1 <= Len(t) THEN Len(t) - (i + 1) + 1 ELSE 0) = Len(t) - i
        BY <4>1, <3>1
      <4>3. QED
        BY <4>2, <3>2
    <3>4. ASSUME NEW k \in 1 .. (Len(t) - i) PROVE behind[k] = t[i + k]
      <4>1. k \in 1 .. (Len(t) - (i + 1) + 1) /\ (i + 1) + k - 1 = i + k
        BY <1>1
      <4>2. QED
        BY <4>1, <3>2
    <3>5. QED
      BY <3>2, <3>3, <3>4
  <2> HIDE DEF before, behind
  <2>8. /\ u \in Seq(Nat) /\ Len(u) = Len(t) - 1 /\ DOMAIN u = 1 .. (Len(t) - 1)
        /\ \A k \in 1 .. (Len(t) - 1) : u[k] = IF k < i THEN t[k] ELSE t[k + 1]
    <3>1. /\ u \in Seq(Nat) /\ Len(u) = Len(before) + Len(behind)
          /\ \A k \in 1 .. (Len(before) + Len(behind)) :
                u[k] = IF k <= Len(before) THEN before[k] ELSE behind[k - Len(before)]
      BY <2>6, <2>7, ConcatProperties
    <3>2. Len(before) + Len(behind) = Len(t) - 1
      BY <2>6, <2>7, <1>1
    <3>3. ASSUME NEW k \in 1 .. (Len(t) - 1)
          PROVE  u[k] = IF k < i THEN t[k] ELSE t[k + 1]
      <4>1. CASE k < i
        <5>1. k <= Len(before) /\ k \in 1 .. (i - 1)
          BY <4>1, <2>6, <1>1
        <5>2. QED
          BY <4>1, <5>1, <3>1, <3>2, <2>6
      <4>2. CASE ~(k < i)
        <5>1. k - (i - 1) \in 1 .. (Len(t) - i) /\ i + (k - (i - 1)) = k + 1
          BY <4>2, <1>1
        <5>2. ~(k <= Len(before)) /\ Len(before) = i - 1
          BY <4>2, <2>6, <1>1
        <5>3. u[k] = behind[k - (i - 1)]
          BY <5>2, <3>1, <3>2
        <5>4. QED
          BY <4>2, <5>1, <5>3, <2>7
      <4>3. QED
        BY <4>1, <4>2
    <3>4. QED
      BY <3>1, <3>2, <3>3, LenProperties
  <2> HIDE DEF u
  <2>9. Increasing(u)
    <3>1. SUFFICES ASSUME NEW j \in 1 .. (Len(t) - 1), NEW k \in 1 .. (Len(t) - 1), j < k
                   PROVE  u[j] < u[k]
      BY <2>8 DEF Increasing
    <3>2. \A a, b \in 1 .. Len(t) : a < b => t[a] < t[b]
      BY <1>1 DEF Increasing
    <3>3. j \in 1 .. Len(t) /\ j + 1 \in 1 .. Len(t) /\ k \in 1 .. Len(t) /\ k + 1 \in 1 .. Len(t)
      BY <1>1
    <3>4. /\ u[j] = IF j < i THEN t[j] ELSE t[j + 1]
          /\ u[k] = IF k < i THEN t[k] ELSE t[k + 1]
      BY <2>8
    <3>5. t[j] < t[k] /\ t[j] < t[k + 1] /\ t[j + 1] < t[k + 1]
      BY <3>1, <3>2, <3>3
    <3>6. j < i \/ ~(k < i)
      BY <3>1, <1>1
    <3>7. QED
      BY <3>4, <3>5, <3>6
  <2>10. ASSUME NEW x \in ToSet(t) \ {e} PROVE x \in ToSet(u)
    <3>1. PICK k \in 1 .. Len(t) : t[k] = x
      BY <1>1 DEF ToSet
    <3>2. k # i
      BY <2>1, <3>1
    <3>3. CASE k < i
      <4>1. k \in 1 .. (Len(t) - 1) /\ u[k] = x
        BY <3>3, <3>1, <2>8, <1>1, SMTT(60)
      <4>2. QED
        BY <4>1, <2>8 DEF ToSet
    <3>4. CASE i < k
      <4>1. k - 1 \in 1 .. (Len(t) - 1) /\ u[k - 1] = x
        BY <3>4, <3>1, <2>8, <1>1, SMTT(60)
      <4>2. QED
        BY <4>1, <2>8 DEF ToSet
    <3>5. QED
      BY <3>2, <3>3, <3>4
  <2>11. ToSet(u) \subseteq ToSet(t)
    <3>1. ASSUME NEW k \in 1 .. (Len(t) - 1) PROVE u[k] \in ToSet(t)
      <4>1. k \in 1 .. Len(t) /\ k + 1 \in 1 .. Len(t)
        BY <1>1
      <4>2. t[k] \in ToSet(t) /\ t[k + 1] \in ToSet(t)
        BY <4>1, <1>1 DEF ToSet
      <4>3. QED
        BY <4>2, <2>8
    <3>2. QED
      BY <3>1, <2>8 DEF ToSet
  <2>12. QED
    BY <2>5, <2>8, <2>9, <2>10, <2>11
<1>4. QED
  BY <1>2, <1>3

\* The end of an increasing sequence, from place k on: what is not in it is older.
LEMMA Suffix ==
    ASSUME NEW t \in Seq(Nat), Increasing(t), NEW k \in 1 .. (Len(t) + 1)
    PROVE  LET u == SubSeq(t, k, Len(t))
           IN  /\ u \in Seq(Nat) /\ Len(u) = Len(t) - k + 1 /\ Increasing(u)
               /\ ToSet(u) \subseteq ToSet(t)
               /\ \A e \in ToSet(t) \ ToSet(u) : (k # 1) /\ \A x \in ToSet(u) : e < x
<1> DEFINE u == SubSeq(t, k, Len(t))
<1>1. /\ Len(t) \in Nat /\ DOMAIN t = 1 .. Len(t)
      /\ \A i \in 1 .. Len(t) : t[i] \in Nat
  OBVIOUS
<1>2. /\ u \in Seq(Nat) /\ Len(u) = Len(t) - k + 1
      /\ \A i \in 1 .. (Len(t) - k + 1) : u[i] = t[k + i - 1]
  BY <1>1, SubSeqProperties
<1>3. DOMAIN u = 1 .. (Len(t) - k + 1)
  BY <1>2, LenProperties
<1> HIDE DEF u
<1>4. \A a, b \in 1 .. Len(t) : a < b => t[a] < t[b]
  BY <1>1 DEF Increasing
<1>5. Increasing(u)
  <2>1. SUFFICES ASSUME NEW i \in 1 .. (Len(t) - k + 1), NEW j \in 1 .. (Len(t) - k + 1), i < j
                 PROVE  u[i] < u[j]
    BY <1>3 DEF Increasing
  <2>2. /\ k + i - 1 \in 1 .. Len(t) /\ k + j - 1 \in 1 .. Len(t)
        /\ k + i - 1 < k + j - 1
    BY <1>1, <2>1
  <2>3. QED
    BY <2>2, <1>4, <1>2
<1>6. \A i \in 1 .. (Len(t) - k + 1) : \E a \in 1 .. Len(t) : a >= k /\ u[i] = t[a]
  <2>1. TAKE i \in 1 .. (Len(t) - k + 1)
  <2>2. k + i - 1 \in 1 .. Len(t) /\ k + i - 1 >= k
    BY <1>1
  <2>3. QED
    BY <2>2, <1>2
<1>7. ToSet(u) \subseteq ToSet(t)
  BY <1>1, <1>3, <1>6 DEF ToSet
<1>8. ASSUME NEW e \in ToSet(t) \ ToSet(u) PROVE k # 1 /\ \A x \in ToSet(u) : e < x
  <2>1. PICK a \in 1 .. Len(t) : t[a] = e
    BY <1>1 DEF ToSet
  <2>2. a < k
    <3>1. SUFFICES ASSUME ~(a < k) PROVE FALSE
      OBVIOUS
    <3>2. a - k + 1 \in 1 .. (Len(t) - k + 1) /\ k + (a - k + 1) - 1 = a
      BY <3>1, <1>1
    <3>3. u[a - k + 1] = e
      BY <3>2, <2>1, <1>2
    <3>4. e \in ToSet(u)
      BY <3>2, <3>3, <1>3 DEF ToSet
    <3>5. QED
      BY <3>4
  <2>3. ASSUME NEW x \in ToSet(u) PROVE e < x
    <3>1. PICK b \in 1 .. Len(t) : b >= k /\ x = t[b]
      BY <1>3, <1>6 DEF ToSet
    <3>2. a < b
      BY <2>2, <3>1
    <3>3. QED
      BY <2>1, <3>1, <3>2, <1>4
  <2>4. QED
    BY <2>2, <2>3
<1>9. QED
  BY <1>2, <1>5, <1>7, <1>8 DEF u


-----------------------------------------------------------------------------
(* Sessions: what others do.                                               *)

IsWorld(w) ==
    /\ w.emitted \in Nat /\ w.offered \in Nat /\ w.childFrom \in Nat
    /\ w.offered <= w.emitted /\ w.emitted <= w.offered + 1
    /\ w.lost \subseteq 1 .. w.emitted
    /\ w.silent \in BOOLEAN

\* The chain goes on, and what it offers is not received by anybody.
Grows(w, v) ==
    /\ w.emitted <= v.emitted /\ w.offered <= v.offered /\ w.lost \subseteq v.lost
    /\ w.silent => v.silent
    /\ \A e \in 1 .. w.emitted : \A job \in Jobs : InStream(w, job, e) <=> InStream(v, job, e)
    /\ \A e \in Nat : w.offered < e /\ e <= v.offered => e \in v.lost

LEMMA SessionTypes ==
    ASSUME NEW s \in Sessions
    PROVE  /\ s.job \in Jobs /\ s.base \in Nat /\ s.overlap \in Nat
           /\ s.shown \in Seq(Nat) /\ s.history \in Seq(Nat) /\ s.guard \in Seq(Nat)
           /\ s.inbox \in Seq(Nat)
           /\ s.open \in BOOLEAN /\ s.missed \in BOOLEAN
  BY DEF Sessions

LEMMA GrowKeeps ==
    ASSUME NEW w, NEW v, NEW s, IsWorld(w), IsWorld(v), Grows(w, v), SessionOk(w, s)
    PROVE  SessionOk(v, s)
<1>1. s \in Sessions
  BY DEF SessionOk
<1>2. \A e \in Due(v, s) : e <= w.emitted => e \in Due(w, s)
  BY <1>1, SessionTypes DEF Due, Grows, IsWorld
<1>3. /\ \A e \in Due(v, s) : e \in Nat
      /\ 1 .. w.emitted \subseteq 1 .. v.emitted
  BY DEF Due, Grows, IsWorld
<1>4. ShownOk(v, s)
  <2>1. ToSet(s.shown) \subseteq 1 .. w.emitted
    BY DEF SessionOk, ShownOk
  <2>2. Guarded(s) => Once(v, s)
    BY DEF SessionOk, ShownOk, Once, Grows
  <2>3. Guarded(s) => NoGap(v, s)
    BY <2>1, <1>2, <1>3 DEF SessionOk, ShownOk, NoGap, IsWorld
  <2>4. QED
    BY <2>1, <2>2, <2>3, <1>3 DEF ShownOk
<1>5. ASSUME InboxOk(w, s) PROVE InboxOk(v, s)
  <2>1. s.base <= v.offered
    BY <1>1, <1>5, SessionTypes DEF InboxOk, Grows, IsWorld
  <2>2. \A e \in ToSet(s.inbox) : e \in Nat
    BY <1>1, SessionTypes DEF ToSet
  <2>3. \A e \in ToSet(s.inbox) : s.base < e /\ e <= v.offered /\ InStream(v, s.job, e)
    <3>1. TAKE e \in ToSet(s.inbox)
    <3>2. e \in Nat /\ s.base < e /\ e <= w.offered /\ InStream(w, s.job, e)
      BY <1>5, <2>2 DEF InboxOk
    <3>3. e \in 1 .. w.emitted
      BY <1>1, SessionTypes, <3>2 DEF IsWorld
    <3>4. QED
      BY <1>1, SessionTypes, <3>2, <3>3 DEF Grows, IsWorld
  <2>4. ASSUME ~s.missed, NEW e \in Due(v, s), s.base < e, e <= v.offered
        PROVE  e \in ToSet(s.inbox) \cup ToSet(s.shown)
    <3>1. e \in Nat /\ e \notin v.lost
      BY <1>3 DEF Due
    <3>2. e <= w.offered
      BY <2>4, <3>1 DEF Grows, IsWorld
    <3>3. e \in Due(w, s)
      BY <3>1, <3>2, <1>2 DEF IsWorld
    <3>4. QED
      BY <2>4, <3>2, <3>3, <1>5 DEF InboxOk
  <2>5. QED
    BY <2>1, <2>3, <2>4, <1>5 DEF InboxOk, Grows
<1>6. ASSUME InboxOk(w, s), ReplayOk(w, s) PROVE ReplayOk(v, s)
  <2> DEFINE read == ToSet(s.shown) \cup ToSet(s.history)
  <2>1. read \subseteq 1 .. w.emitted
    BY <1>6 DEF ReplayOk
  <2>2. ASSUME Guarded(s), NEW e \in Due(v, s), NEW h \in read,
               (s.base < e /\ e < h) \/ (h < e /\ e <= s.base)
        PROVE  e \in read
    <3>1. e \in Nat /\ h \in Nat /\ h <= w.emitted /\ s.base \in Nat
      BY <1>1, SessionTypes, <1>3, <2>1 DEF IsWorld
    <3>2. e <= w.emitted
      BY <2>2, <3>1, <1>6 DEF IsWorld, InboxOk
    <3>3. QED
      BY <3>2, <2>2, <1>2, <1>6 DEF ReplayOk
  <2>3. QED
    BY <2>1, <2>2, <1>6, <1>3 DEF ReplayOk
<1>7. ASSUME InboxOk(w, s), LiveOk(w, s) PROVE LiveOk(v, s)
  <2>1. ToSet(s.shown) \subseteq 1 .. w.emitted
    BY DEF SessionOk, ShownOk
  <2>2. ASSUME Guarded(s), NEW e \in ToSet(s.shown), e \in ToSet(s.inbox) \/ v.offered < e
        PROVE  e \in ToSet(s.guard)
    <3>1. e \in ToSet(s.inbox) \/ w.offered < e
      BY <2>1, <2>2 DEF Grows, IsWorld
    <3>2. QED
      BY <2>2, <3>1, <1>7 DEF LiveOk
  <2>3. ASSUME Guarded(s), NEW e \in Due(v, s), NEW b \in ToSet(s.shown),
               e \in ToSet(s.inbox), e < b
        PROVE  e \in ToSet(s.shown)
    <3>1. e <= w.emitted
      BY <2>1, <2>3, <1>3 DEF IsWorld
    <3>2. QED
      BY <3>1, <2>3, <1>2, <1>7 DEF LiveOk
  <2>4. ASSUME Guarded(s), NEW e \in Due(v, s), NEW a \in ToSet(s.shown), a < e, e <= s.base
        PROVE  e \in ToSet(s.shown)
    <3>1. e <= w.emitted
      BY <2>4, <1>1, <1>3, <1>7, SessionTypes DEF IsWorld, InboxOk
    <3>2. QED
      BY <3>1, <2>4, <1>2, <1>7 DEF LiveOk
  <2>5. QED
    BY <2>2, <2>3, <2>4, <1>7 DEF LiveOk
<1>8. QED
  BY <1>1, <1>4, <1>5, <1>6, <1>7 DEF SessionOk, Receiving

\* A session that has no stream depends on nothing.
LEMMA FreshIsOk ==
    ASSUME NEW w, NEW s \in Sessions, s.at \notin Receiving, IdleOk(s), NewOk(s)
    PROVE  SessionOk(w, s)
<1>1. ToSet(s.shown) = {} /\ DOMAIN s.shown = {}
  BY DEF NewOk, ToSet
<1>2. ShownOk(w, s)
  BY <1>1 DEF ShownOk, Once, NoGap
<1>3. QED
  BY <1>2 DEF SessionOk, Receiving

LEMMA NoSessionIsOk ==
    ASSUME NEW w
    PROVE  SessionOk(w, NoSession) /\ NoSession \in Sessions
<1>1. NoSession \in Sessions
  BY DEF NoSession, Sessions, Jobs
<1>2. QED
  BY <1>1, FreshIsOk DEF NoSession, IdleOk, NewOk, Receiving

\* A stream that ends keeps what was shown.
LEMMA EndKeeps ==
    ASSUME NEW w, NEW s, SessionOk(w, s)
    PROVE  SessionOk(w, End(s))
<1> DEFINE r == End(s)
<1>1. s \in Sessions
  BY DEF SessionOk
<1>2. r \in Sessions
  <2>1. <<>> \in Seq(Nat) /\ 0 \in Nat
    OBVIOUS
  <2>2. QED
    BY <1>1, <2>1 DEF End, Sessions
<1>3. /\ r.at = "closing" /\ r.job = s.job /\ r.shown = s.shown /\ r.overlap = s.overlap
      /\ r.inbox = <<>> /\ ~r.open /\ ~r.missed
  BY <1>1 DEF End, Sessions
<1> HIDE DEF r
<1>4. ShownOk(w, r)
  BY <1>3 DEF SessionOk, ShownOk, Guarded, Once, NoGap, Due
<1>5. SessionOk(w, r)
  BY <1>2, <1>3, <1>4 DEF SessionOk, IdleOk, Receiving
<1>6. QED
  BY <1>5 DEF r

\* A client that leaves or stalls changes nothing of what it was shown.
LEMMA SameKeeps ==
    ASSUME NEW w, NEW s, NEW r \in Sessions, SessionOk(w, s),
           r.at = s.at, r.job = s.job, r.history = s.history, r.guard = s.guard,
           r.inbox = s.inbox, r.missed = s.missed, r.open = s.open, r.shown = s.shown,
           r.base = s.base, r.overlap = s.overlap
    PROVE  SessionOk(w, r)
<1>1. Due(w, r) = Due(w, s) /\ (Guarded(r) <=> Guarded(s))
  BY DEF Due, Guarded
<1>2. ShownOk(w, r) /\ (InboxOk(w, s) => InboxOk(w, r)) /\ (LiveOk(w, s) => LiveOk(w, r))
  BY <1>1 DEF SessionOk, ShownOk, Once, NoGap, InboxOk, LiveOk
<1>3. ReplayOk(w, s) => ReplayOk(w, r)
  BY <1>1 DEF ReplayOk
<1>4. QED
  BY <1>2, <1>3 DEF SessionOk, IdleOk, NewOk, Receiving

\* The channel of a chain that emits nothing any more is released.
LEMMA CloseKeeps ==
    ASSUME NEW w, NEW s, SessionOk(w, s), w.silent
    PROVE  SessionOk(w, [s EXCEPT !.open = FALSE])
<1> DEFINE r == [s EXCEPT !.open = FALSE]
<1>1. s \in Sessions
  BY DEF SessionOk
<1>2. /\ r \in Sessions /\ ~r.open
      /\ r.at = s.at /\ r.job = s.job /\ r.history = s.history /\ r.guard = s.guard
      /\ r.inbox = s.inbox /\ r.missed = s.missed /\ r.shown = s.shown
      /\ r.base = s.base /\ r.overlap = s.overlap
  BY <1>1 DEF Sessions
<1> HIDE DEF r
<1>3. Due(w, r) = Due(w, s) /\ (Guarded(r) <=> Guarded(s))
  BY <1>2 DEF Due, Guarded
<1>4. ShownOk(w, r) /\ (InboxOk(w, s) => InboxOk(w, r)) /\ (LiveOk(w, s) => LiveOk(w, r))
  BY <1>2, <1>3 DEF SessionOk, ShownOk, Once, NoGap, InboxOk, LiveOk
<1>5. ReplayOk(w, s) => ReplayOk(w, r)
  BY <1>2, <1>3 DEF ReplayOk
<1>6. SessionOk(w, r)
  BY <1>2, <1>4, <1>5 DEF SessionOk, IdleOk, NewOk, Receiving
<1>7. QED
  BY <1>6 DEF r


-----------------------------------------------------------------------------
(* Sessions: one more event is offered to the subscribers.                 *)

\* What is offered is the event that was logged last.
Offers(w, v) ==
    /\ v.emitted = w.emitted /\ w.offered = w.emitted - 1 /\ v.offered = w.emitted
    /\ v.lost = w.lost /\ v.childFrom = w.childFrom
    /\ ~w.silent /\ ~v.silent

LEMMA ReceivedTypes ==
    ASSUME NEW s \in Sessions, NEW e \in Nat
    PROVE  LET r == Received(s, e)
           IN  /\ r \in Sessions
               /\ r.at = s.at /\ r.job = s.job /\ r.history = s.history /\ r.guard = s.guard
               /\ r.open = s.open /\ r.shown = s.shown /\ r.base = s.base
               /\ r.overlap = s.overlap
               /\ \/ r.inbox = Append(s.inbox, e) /\ r.missed = s.missed
                  \/ s.inbox # <<>> /\ r.inbox = Append(Tail(s.inbox), e) /\ r.missed
<1>1. s.inbox \in Seq(Nat) /\ Append(s.inbox, e) \in Seq(Nat)
  BY DEF Sessions
<1>2. CASE Len(s.inbox) < Capacity
  <2>1. Received(s, e) = [s EXCEPT !.inbox = Append(@, e)]
    BY <1>2 DEF Received
  <2> DEFINE t == Append(s.inbox, e)
  <2>2. Received(s, e) = [s EXCEPT !.inbox = t] /\ t \in Seq(Nat)
    BY <2>1, <1>1
  <2> HIDE DEF t
  <2>3. QED
    BY <2>2 DEF Sessions, t
<1>3. CASE ~(Len(s.inbox) < Capacity)
  <2>1. s.inbox # <<>>
    BY <1>1, <1>3, AttachAssumption
  <2> DEFINE t == Append(Tail(s.inbox), e)
  <2>2. Received(s, e) = [s EXCEPT !.inbox = t, !.missed = TRUE] /\ t \in Seq(Nat)
    BY <1>1, <1>3, <2>1 DEF Received
  <2> HIDE DEF t
  <2>3. QED
    BY <2>1, <2>2 DEF Sessions, t
<1>4. QED
  BY <1>2, <1>3

LEMMA ReceiveKeeps ==
    ASSUME NEW w, NEW v, NEW s, IsWorld(w), IsWorld(v), Offers(w, v), SessionOk(w, s),
           s.open, InStream(w, s.job, w.emitted)
    PROVE  SessionOk(v, Received(s, w.emitted))
<1> DEFINE e == w.emitted
           r == Received(s, e)
<1>1. s \in Sessions /\ s.at \in Receiving /\ InboxOk(w, s)
  BY DEF SessionOk, IdleOk
<1>2. e \in Nat \ {0}
  BY DEF IsWorld, Offers
<1>3. /\ r \in Sessions
      /\ r.at = s.at /\ r.job = s.job /\ r.history = s.history /\ r.guard = s.guard
      /\ r.open = s.open /\ r.shown = s.shown /\ r.base = s.base /\ r.overlap = s.overlap
      /\ \/ r.inbox = Append(s.inbox, e) /\ r.missed = s.missed
         \/ s.inbox # <<>> /\ r.inbox = Append(Tail(s.inbox), e) /\ r.missed
  BY <1>1, <1>2, ReceivedTypes
<1> HIDE DEF r
<1>4. /\ Increasing(r.inbox) /\ e \in ToSet(r.inbox)
      /\ ToSet(r.inbox) \subseteq ToSet(s.inbox) \cup {e}
      /\ ~r.missed => ~s.missed /\ ToSet(r.inbox) = ToSet(s.inbox) \cup {e}
  <2>1. s.inbox \in Seq(Nat) /\ Increasing(s.inbox)
    BY <1>1, SessionTypes DEF InboxOk
  <2>2. \A x \in ToSet(s.inbox) : x \in Nat /\ x < e
    <3>1. \A x \in ToSet(s.inbox) : x \in Nat
      BY <2>1 DEF ToSet
    <3>2. QED
      BY <1>1, <1>2, <3>1 DEF InboxOk, Offers
  <2>3. CASE r.inbox = Append(s.inbox, e) /\ r.missed = s.missed
    <3>1. Increasing(r.inbox) /\ ToSet(r.inbox) = ToSet(s.inbox) \cup {e}
      BY <2>1, <2>2, <2>3, <1>2, IncreasingAppend, AppendSet
    <3>2. QED
      BY <3>1, <2>3
  <2>4. CASE s.inbox # <<>> /\ r.inbox = Append(Tail(s.inbox), e) /\ r.missed
    <3>1. /\ Tail(s.inbox) \in Seq(Nat) /\ Increasing(Tail(s.inbox))
          /\ ToSet(Tail(s.inbox)) \subseteq ToSet(s.inbox)
      BY <2>1, <2>4, HeadAndTail
    <3>2. Increasing(r.inbox) /\ ToSet(r.inbox) = ToSet(Tail(s.inbox)) \cup {e}
      BY <3>1, <2>2, <2>4, <1>2, IncreasingAppend, AppendSet, ZenonT(60)
    <3>3. QED
      BY <3>1, <3>2, <2>4
  <2>5. QED
    BY <1>3, <2>3, <2>4
<1>5. Due(v, r) = Due(w, s) /\ (Guarded(r) <=> Guarded(s)) /\ v.lost = w.lost
  BY <1>3 DEF Due, Guarded, Offers, InStream
<1>6. ShownOk(v, r)
  BY <1>3, <1>5 DEF SessionOk, ShownOk, Once, NoGap, Offers
<1>7. InboxOk(v, r)
  <2>1. s.base \in Nat /\ r.base <= v.offered /\ s.base < e
    BY <1>1, <1>2, <1>3, SessionTypes, SMTT(60) DEF InboxOk, Offers
  <2>2. \A x \in ToSet(r.inbox) : r.base < x /\ x <= v.offered /\ InStream(v, r.job, x)
    <3>1. TAKE x \in ToSet(r.inbox)
    <3>2. CASE x = e
      BY <3>2, <2>1, <1>2, <1>3 DEF Offers, InStream
    <3>3. CASE x \in ToSet(s.inbox)
      <4>1. x \in Nat
        BY <3>3, <1>1, SessionTypes DEF ToSet
      <4>2. QED
        BY <3>3, <4>1, <1>1, <1>2, <1>3 DEF InboxOk, Offers, InStream
    <3>4. QED
      BY <3>2, <3>3, <1>4
  <2>3. ASSUME ~r.missed, NEW x \in Due(v, r), r.base < x, x <= v.offered
        PROVE  x \in ToSet(r.inbox) \cup ToSet(r.shown)
    <3>1. x \in Nat /\ x \in Due(w, s)
      BY <1>5 DEF Due
    <3>2. x = e \/ x <= w.offered
      BY <3>1, <2>3, <1>2 DEF Offers
    <3>3. QED
      BY <3>1, <3>2, <2>3, <1>1, <1>3, <1>4 DEF InboxOk
  <2>4. QED
    BY <1>3, <1>4, <2>1, <2>2, <2>3
    DEF InboxOk
<1>8. ASSUME ReplayOk(w, s) PROVE ReplayOk(v, r)
  BY <1>3, <1>5, <1>8 DEF ReplayOk, Offers
<1>9. ASSUME LiveOk(w, s) PROVE LiveOk(v, r)
  <2>1. ToSet(s.shown) \subseteq 1 .. w.emitted
    BY DEF SessionOk, ShownOk
  <2>2. ASSUME Guarded(r), NEW x \in ToSet(r.shown), x \in ToSet(r.inbox) \/ v.offered < x
        PROVE  x \in ToSet(r.guard)
    <3>1. x \in ToSet(s.inbox) \/ w.offered < x
      BY <2>1, <2>2, <1>2, <1>3, <1>4 DEF Offers
    <3>2. QED
      BY <2>2, <3>1, <1>3, <1>5, <1>9 DEF LiveOk
  <2>3. ASSUME Guarded(r), NEW x \in Due(v, r), NEW b \in ToSet(r.shown),
               x \in ToSet(r.inbox), x < b
        PROVE  x \in ToSet(r.shown)
    <3>1. x # e
      BY <2>1, <2>3, <1>2, <1>3
    <3>2. QED
      BY <3>1, <2>3, <1>3, <1>4, <1>5, <1>9 DEF LiveOk
  <2>4. QED
    BY <2>2, <2>3, <1>3, <1>5, <1>9 DEF LiveOk
<1>10. SessionOk(v, r)
  BY <1>1, <1>3, <1>6, <1>7, <1>8, <1>9 DEF SessionOk, NewOk, Receiving
<1>11. QED
  BY <1>10 DEF r

\* Who is no subscriber of that event is owed nothing new.
LEMMA OthersKeep ==
    ASSUME NEW w, NEW v, NEW s, IsWorld(w), IsWorld(v), Offers(w, v), SessionOk(w, s),
           ~(s.open /\ InStream(w, s.job, w.emitted))
    PROVE  SessionOk(v, s)
<1>1. s \in Sessions
  BY DEF SessionOk
<1>2. Due(v, s) = Due(w, s) /\ v.lost = w.lost /\ v.emitted = w.emitted
  BY DEF Due, Offers, InStream
<1>3. ShownOk(v, s) /\ (ReplayOk(w, s) => ReplayOk(v, s))
  BY <1>2 DEF SessionOk, ShownOk, Once, NoGap, ReplayOk
<1>4. ASSUME InboxOk(w, s) PROVE InboxOk(v, s)
  <2>1. s.open
    BY <1>4 DEF InboxOk, Offers
  <2>2. \A x \in ToSet(s.inbox) : x \in Nat
    BY <1>1, SessionTypes DEF ToSet
  <2>3. \A x \in Due(v, s) : x \in Nat /\ x # w.emitted
    BY <2>1, <1>2 DEF Due
  <2>4. s.base <= v.offered
    BY <1>1, <1>4, SessionTypes DEF InboxOk, Offers, IsWorld
  <2>5. \A x \in ToSet(s.inbox) : s.base < x /\ x <= v.offered /\ InStream(v, s.job, x)
    BY <1>4, <2>2 DEF InboxOk, Offers, IsWorld, InStream
  <2>6. ASSUME NEW x \in Due(v, s), x <= v.offered PROVE x <= w.offered
    BY <2>3, <2>6 DEF Offers, IsWorld
  <2>7. QED
    BY <1>2, <1>4, <2>1, <2>4, <2>5, <2>6 DEF InboxOk
<1>5. ASSUME LiveOk(w, s) PROVE LiveOk(v, s)
  <2>1. ToSet(s.shown) \subseteq 1 .. w.emitted
    BY DEF SessionOk, ShownOk
  <2>2. \A x \in ToSet(s.shown) : ~(v.offered < x)
    BY <2>1 DEF Offers, IsWorld
  <2>3. QED
    BY <1>2, <1>5, <2>2 DEF LiveOk
<1>6. QED
  BY <1>1, <1>3, <1>4, <1>5 DEF SessionOk, Receiving


-----------------------------------------------------------------------------
(* Sessions: what their own task does.                                     *)

LEMMA SubscribeKeeps ==
    ASSUME NEW w, NEW s, IsWorld(w), SessionOk(w, s), s.at = "subscribe"
    PROVE  SessionOk(w, [s EXCEPT !.at = IF s.replay THEN "read" ELSE "live", !.open = TRUE,
                                  !.base = w.offered])
<1> DEFINE r == [s EXCEPT !.at = IF s.replay THEN "read" ELSE "live", !.open = TRUE,
                          !.base = w.offered]
<1>1. s \in Sessions /\ IdleOk(s) /\ NewOk(s)
  BY DEF SessionOk, Receiving
<1>2. /\ r \in Sessions /\ r.at \in {"read", "live"} /\ r.open /\ r.base = w.offered
      /\ r.inbox = <<>> /\ ~r.missed /\ NewOk(r)
  BY <1>1 DEF Sessions, IdleOk, NewOk, IsWorld
<1> HIDE DEF r
<1>3. ToSet(r.shown) = {} /\ ToSet(r.inbox) = {} /\ DOMAIN r.shown = {} /\ Increasing(r.inbox)
      /\ Increasing(r.guard) /\ ToSet(r.guard) = {}
  BY <1>2, EmptySet DEF NewOk
<1>4. \A e \in Due(w, r) : ~(w.offered < e /\ e <= w.offered)
  BY DEF Due, IsWorld
<1>5. ShownOk(w, r) /\ InboxOk(w, r) /\ LiveOk(w, r)
  BY <1>2, <1>3, <1>4 DEF ShownOk, Once, NoGap, InboxOk, LiveOk, IsWorld
<1>6. SessionOk(w, r)
  BY <1>2, <1>5 DEF SessionOk, Receiving
<1>7. QED
  BY <1>6 DEF r

\* The newest events of the log of a chain, and nothing of another log: in order and
\* without a gap, up to the last event.
Recorded(w, job, events) ==
    /\ events \in Seq(Nat) /\ Increasing(events) /\ ToSet(events) \subseteq 1 .. w.emitted
    /\ \A e \in 1 .. w.emitted, a \in ToSet(events) :
          a < e /\ e \notin w.lost => e \in ToSet(events)
    /\ \A e \in 1 .. w.emitted, b \in ToSet(events) :
          e < b /\ e \notin w.lost /\ e \notin ToSet(events)
            => Len(events) = MaxReplayed /\ \A x \in ToSet(events) : e < x

LEMMA ReadKeeps ==
    ASSUME NEW w, NEW s, NEW events, IsWorld(w), SessionOk(w, s), s.at = "read",
           Recorded(w, s.job, events)
    PROVE  SessionOk(w, [s EXCEPT !.at = "replay", !.history = events,
                            !.overlap = Cardinality({e \in ToSet(events) : e > s.base})])
<1> DEFINE newer == {e \in ToSet(events) : e > s.base}
           r == [s EXCEPT !.at = "replay", !.history = events, !.overlap = Cardinality(newer)]
<1>1. s \in Sessions /\ InboxOk(w, s) /\ NewOk(s)
  BY DEF SessionOk, Receiving
<1>2. /\ IsFiniteSet(ToSet(events)) /\ Cardinality(ToSet(events)) = Len(events)
      /\ events \in Seq(Nat) /\ Len(events) \in Nat
  BY IncreasingCardinality DEF Recorded
<1>3. Cardinality(newer) \in Nat
  BY <1>2, FS_Subset, FS_CardinalityType
<1> HIDE DEF newer
<1>4. /\ r \in Sessions /\ r.at = "replay" /\ r.job = s.job /\ r.history = events
      /\ r.guard = s.guard /\ r.inbox = s.inbox /\ r.missed = s.missed /\ r.open = s.open
      /\ r.shown = s.shown /\ r.base = s.base /\ r.overlap = Cardinality(newer)
  BY <1>1, <1>2, <1>3 DEF Sessions
<1> HIDE DEF r
<1>5. /\ Due(w, r) = Due(w, s)
      /\ r.shown = <<>> /\ r.guard = <<>> /\ ToSet(r.shown) = {} /\ DOMAIN r.shown = {}
  BY <1>1, <1>4, EmptySet DEF Due, NewOk
<1>6. ShownOk(w, r) /\ InboxOk(w, r)
  BY <1>1, <1>4, <1>5 DEF ShownOk, Once, NoGap, InboxOk
<1>7. ASSUME Guarded(r), NEW e \in Due(w, r), NEW h \in ToSet(events),
             (s.base < e /\ e < h) \/ (h < e /\ e <= s.base)
      PROVE  e \in ToSet(events)
  <2>1. e \in 1 .. w.emitted /\ e \notin w.lost
    BY DEF Due
  <2>2. CASE h < e
    BY <2>1, <2>2 DEF Recorded
  <2>3. CASE s.base < e /\ e < h
    <3>1. SUFFICES ASSUME e \notin ToSet(events) PROVE FALSE
      OBVIOUS
    <3>2. Len(events) = MaxReplayed /\ \A x \in ToSet(events) : e < x
      BY <2>1, <2>3, <3>1 DEF Recorded
    <3>3. s.base \in Nat /\ e \in Nat /\ ToSet(events) \subseteq Nat
      BY <1>1, <2>1, SessionTypes DEF Recorded
    <3>4. newer = ToSet(events)
      BY <2>3, <3>2, <3>3 DEF newer
    <3>5. r.overlap = MaxReplayed
      BY <1>2, <1>4, <3>2, <3>4
    <3>6. QED
      BY <1>7, <3>5, AttachAssumption DEF Guarded
  <2>4. QED
    BY <1>7, <2>2, <2>3
<1>8. ReplayOk(w, r)
  <2>1. ToSet(r.shown) \cup ToSet(r.history) = ToSet(events)
    BY <1>4, <1>5
  <2>2. r.overlap = Cardinality({e \in ToSet(r.shown) \cup ToSet(r.history) : e > r.base})
    BY <1>4, <2>1 DEF newer
  <2>3. Increasing(r.shown) /\ Increasing(r.history) /\ Increasing(r.guard)
    BY <1>4, <1>5, EmptySet DEF Recorded
  <2>4. ToSet(r.guard) \subseteq ToSet(r.shown) /\ Len(r.guard) <= GuardCapacity
    BY <1>5, EmptySet, AttachAssumption
  <2>5. QED
    BY <1>4, <1>5, <1>7, <2>1, <2>2, <2>3, <2>4 DEF ReplayOk, Recorded
<1>9. SessionOk(w, r)
  BY <1>4, <1>6, <1>8 DEF SessionOk, Receiving
<1>10. QED
  BY <1>9 DEF r, newer

\* The history is written: the guard remembers what is in the stream as well.
LEMMA ReplayDoneKeeps ==
    ASSUME NEW w, NEW s, IsWorld(w), SessionOk(w, s), s.at = "replay", s.history = <<>>
    PROVE  SessionOk(w, [s EXCEPT !.at = "live"])
<1> DEFINE r == [s EXCEPT !.at = "live"]
<1>1. s \in Sessions /\ InboxOk(w, s) /\ ReplayOk(w, s) /\ ShownOk(w, s)
  BY DEF SessionOk, Receiving
<1>2. /\ r \in Sessions /\ r.at = "live" /\ r.job = s.job /\ r.guard = s.guard
      /\ r.inbox = s.inbox /\ r.missed = s.missed /\ r.open = s.open
      /\ r.shown = s.shown /\ r.base = s.base /\ r.overlap = s.overlap
  BY <1>1 DEF Sessions
<1> HIDE DEF r
<1>3. Due(w, r) = Due(w, s) /\ (Guarded(r) <=> Guarded(s))
  BY <1>2 DEF Due, Guarded
<1>4. ShownOk(w, r) /\ InboxOk(w, r)
  BY <1>1, <1>2, <1>3 DEF ShownOk, Once, NoGap, InboxOk
<1>5. ToSet(s.shown) \cup ToSet(s.history) = ToSet(s.shown)
  BY EmptySet
<1>6. s.base \in Nat /\ ToSet(s.shown) \subseteq 1 .. w.emitted
  BY <1>1, SessionTypes DEF ShownOk
<1>7. ASSUME Guarded(s), NEW e \in ToSet(s.shown), e \in ToSet(s.inbox) \/ w.offered < e
      PROVE  e \in ToSet(s.guard)
  <2>1. s.base < e
    BY <1>1, <1>6, <1>7 DEF InboxOk, IsWorld
  <2>2. QED
    BY <1>1, <1>7, <2>1 DEF ReplayOk
<1>8. ASSUME Guarded(s), NEW e \in Due(w, s), NEW b \in ToSet(s.shown),
             e \in ToSet(s.inbox), e < b
      PROVE  e \in ToSet(s.shown)
  BY <1>1, <1>5, <1>8 DEF ReplayOk, InboxOk
<1>9. ASSUME Guarded(s), NEW e \in Due(w, s), NEW a \in ToSet(s.shown), a < e, e <= s.base
      PROVE  e \in ToSet(s.shown)
  BY <1>1, <1>5, <1>9 DEF ReplayOk
<1>10. LiveOk(w, r)
  BY <1>1, <1>2, <1>3, <1>7, <1>8, <1>9 DEF LiveOk, ReplayOk
<1>11. SessionOk(w, r)
  BY <1>2, <1>4, <1>10 DEF SessionOk, Receiving
<1>12. QED
  BY <1>11 DEF r


\* What the guard remembers when one more event of the history is written.
LEMMA GuardRecords ==
    ASSUME NEW g \in Seq(Nat), NEW e \in Nat, Increasing(g), Len(g) <= GuardCapacity,
           \A x \in ToSet(g) : x < e
    PROVE  LET h == GuardRecord(g, e)
           IN  /\ h \in Seq(Nat) /\ Increasing(h) /\ Len(h) <= GuardCapacity
               /\ e \in ToSet(h) /\ ToSet(h) \subseteq ToSet(g) \cup {e}
               /\ \/ ToSet(g) \subseteq ToSet(h)
                  \/ /\ Len(g) = GuardCapacity
                     /\ \A x \in ToSet(g) \ ToSet(h) : \A y \in ToSet(g) : x <= y
<1>1. Len(g) \in Nat /\ \A x \in ToSet(g) : x \in Nat
  BY DEF ToSet
<1>2. CASE Len(g) = GuardCapacity
  <2>1. g # <<>>
    BY <1>2, AttachAssumption
  <2>2. /\ Head(g) \in Nat /\ Tail(g) \in Seq(Nat)
        /\ ToSet(g) = {Head(g)} \cup ToSet(Tail(g))
        /\ Increasing(Tail(g)) /\ \A x \in ToSet(Tail(g)) : Head(g) < x
    BY <2>1, HeadAndTail
  <2> DEFINE h == Append(Tail(g), e)
  <2>3. GuardRecord(g, e) = h
    BY <1>2 DEF GuardRecord
  <2>4. h \in Seq(Nat) /\ Len(h) = Len(g)
    BY <2>1, <2>2
  <2>5. ToSet(h) = ToSet(Tail(g)) \cup {e} /\ Increasing(h)
    BY <2>2, AppendSet, IncreasingAppend
  <2> HIDE DEF h
  <2>6. \A x \in ToSet(g) \ ToSet(h) : x = Head(g)
    BY <2>2, <2>5
  <2>7. \A x \in ToSet(g) \ ToSet(h) : \A y \in ToSet(g) : x <= y
    BY <2>2, <2>6, <1>1
  <2>8. QED
    BY <1>2, <2>2, <2>3, <2>4, <2>5, <2>7
<1>3. CASE Len(g) # GuardCapacity
  <2> DEFINE h == Append(g, e)
  <2>1. GuardRecord(g, e) = h
    BY <1>3 DEF GuardRecord
  <2>2. h \in Seq(Nat) /\ Len(h) = Len(g) + 1
    OBVIOUS
  <2>3. ToSet(h) = ToSet(g) \cup {e} /\ Increasing(h)
    BY AppendSet, IncreasingAppend
  <2> HIDE DEF h
  <2>4. Len(h) <= GuardCapacity
    BY <1>1, <1>3, <2>2, AttachAssumption
  <2>5. QED
    BY <2>1, <2>2, <2>3, <2>4
<1>4. QED
  BY <1>2, <1>3

LEMMA ReplayKeeps ==
    ASSUME NEW w, NEW s, IsWorld(w), SessionOk(w, s), s.at = "replay", s.history # <<>>
    PROVE  SessionOk(w, [s EXCEPT !.history = Tail(@),
                                  !.guard = GuardRecord(@, Head(s.history)),
                                  !.shown = Append(@, Head(s.history))])
<1> DEFINE e == Head(s.history)
           r == [s EXCEPT !.history = Tail(@), !.guard = GuardRecord(@, e),
                          !.shown = Append(@, e)]
           read == ToSet(s.shown) \cup ToSet(s.history)
<1>1. s \in Sessions /\ InboxOk(w, s) /\ ReplayOk(w, s) /\ ShownOk(w, s)
  BY DEF SessionOk, Receiving
<1>2. /\ s.history \in Seq(Nat) /\ s.guard \in Seq(Nat) /\ s.shown \in Seq(Nat)
      /\ s.base \in Nat /\ s.overlap \in Nat
  BY <1>1, SessionTypes
<1>3. /\ e \in Nat /\ Tail(s.history) \in Seq(Nat)
      /\ ToSet(s.history) = {e} \cup ToSet(Tail(s.history))
      /\ Increasing(Tail(s.history)) /\ \A x \in ToSet(Tail(s.history)) : e < x
  BY <1>1, <1>2, HeadAndTail DEF ReplayOk
<1>4. \A x \in ToSet(s.shown) : x \in Nat /\ x < e
  <2>1. \A x \in ToSet(s.shown) : x \in Nat
    BY <1>2 DEF ToSet
  <2>2. QED
    BY <1>1, <1>3, <2>1 DEF ReplayOk
<1>5. \A x \in ToSet(s.guard) : x < e
  BY <1>1, <1>4 DEF ReplayOk
<1> DEFINE g == GuardRecord(s.guard, e)
<1>6. /\ g \in Seq(Nat) /\ Increasing(g) /\ Len(g) <= GuardCapacity
      /\ e \in ToSet(g) /\ ToSet(g) \subseteq ToSet(s.guard) \cup {e}
      /\ \/ ToSet(s.guard) \subseteq ToSet(g)
         \/ /\ Len(s.guard) = GuardCapacity
            /\ \A x \in ToSet(s.guard) \ ToSet(g) : \A y \in ToSet(s.guard) : x <= y
  BY <1>1, <1>2, <1>3, <1>5, GuardRecords DEF ReplayOk
<1>7. /\ Append(s.shown, e) \in Seq(Nat) /\ Increasing(Append(s.shown, e))
      /\ ToSet(Append(s.shown, e)) = ToSet(s.shown) \cup {e}
  BY <1>1, <1>2, <1>3, <1>4, AppendSet, IncreasingAppend DEF ReplayOk
<1> HIDE DEF g
<1>8. /\ r \in Sessions /\ r.at = "replay" /\ r.job = s.job /\ r.guard = g
      /\ r.history = Tail(s.history) /\ r.shown = Append(s.shown, e)
      /\ r.inbox = s.inbox /\ r.missed = s.missed /\ r.open = s.open
      /\ r.base = s.base /\ r.overlap = s.overlap
  <2> DEFINE t == Tail(s.history)
             u == Append(s.shown, e)
  <2>1. r = [s EXCEPT !.history = t, !.guard = g, !.shown = u]
    BY DEF g
  <2>2. t \in Seq(Nat) /\ u \in Seq(Nat)
    BY <1>3, <1>7
  <2> HIDE DEF r, t, u
  <2>3. QED
    BY <1>1, <1>6, <2>1, <2>2 DEF Sessions, t, u
<1> HIDE DEF r, e
<1>9. /\ Due(w, r) = Due(w, s) /\ (Guarded(r) <=> Guarded(s))
      /\ ToSet(r.shown) = ToSet(s.shown) \cup {e}
      /\ ToSet(r.shown) \cup ToSet(r.history) = read
      /\ Increasing(r.shown) /\ r.shown \in Seq(Nat)
  BY <1>3, <1>7, <1>8 DEF Due, Guarded
<1>10. \A a \in ToSet(r.shown), b \in ToSet(r.history) : a < b
  BY <1>3, <1>4, <1>8, <1>9, <1>1 DEF ReplayOk
<1>11. ShownOk(w, r)
  <2>1. ToSet(r.shown) \subseteq 1 .. w.emitted
    BY <1>1, <1>9 DEF ReplayOk
  <2>2. Once(w, r)
    <3>1. \A i \in DOMAIN r.shown : r.shown[i] \in Nat
      BY <1>9
    <3>2. QED
      BY <1>9, <3>1 DEF Once, Increasing
  <2>3. ASSUME Guarded(s), NEW x \in Due(w, r), NEW a \in ToSet(r.shown), NEW b \in ToSet(r.shown),
               a < x, x < b
        PROVE  x \in ToSet(r.shown)
    <3>1. x \in Nat /\ x \in Due(w, s) /\ a \in read /\ b \in read
      BY <1>9 DEF Due
    <3>2. x \in read
      BY <1>1, <1>2, <2>3, <3>1 DEF ReplayOk
    <3>3. b \in Nat
      BY <2>1
    <3>4. x \notin ToSet(r.history)
      BY <1>10, <2>3, <3>1, <3>3
    <3>5. QED
      BY <1>9, <3>2, <3>4
  <2>4. QED
    BY <2>1, <2>2, <2>3, <1>9 DEF ShownOk, NoGap
<1>12. InboxOk(w, r)
  BY <1>1, <1>8, <1>9 DEF InboxOk
<1>13. ASSUME Guarded(s), NEW x \in ToSet(r.shown), s.base < x
       PROVE  x \in ToSet(g)
  <2>1. CASE x = e
    BY <2>1, <1>6
  <2>2. CASE x \in ToSet(s.shown)
    <3>1. x \in ToSet(s.guard)
      BY <1>1, <1>13, <2>2 DEF ReplayOk
    <3>2. SUFFICES ASSUME x \notin ToSet(g) PROVE FALSE
      OBVIOUS
    <3>3. Len(s.guard) = GuardCapacity /\ \A y \in ToSet(s.guard) : x <= y
      BY <1>6, <3>1, <3>2
    <3> DEFINE newer == {y \in read : y > s.base}
               kept == ToSet(s.guard) \cup {e}
    <3>4. kept \subseteq newer
      <4>1. ToSet(s.guard) \subseteq ToSet(s.shown)
        BY <1>1 DEF ReplayOk
      <4>2. \A y \in ToSet(s.guard) : y > s.base
        BY <1>2, <1>4, <1>13, <2>2, <3>3, <4>1
      <4>3. e > s.base
        BY <1>2, <1>3, <1>4, <1>13, <2>2 DEF e
      <4>4. QED
        BY <1>3, <4>1, <4>2, <4>3
    <3>5. IsFiniteSet(read)
      <4>1. IsFiniteSet(ToSet(s.shown)) /\ IsFiniteSet(ToSet(s.history))
        BY <1>1, <1>2, IncreasingCardinality DEF ReplayOk
      <4>2. QED
        BY <4>1, FS_Union
    <3>6. IsFiniteSet(newer)
      BY <3>5, FS_Subset
    <3>7. IsFiniteSet(ToSet(s.guard)) /\ Cardinality(ToSet(s.guard)) = GuardCapacity
      BY <1>1, <1>2, <3>3, IncreasingCardinality DEF ReplayOk
    <3>8. e \notin ToSet(s.guard)
      BY <1>3, <1>5 DEF e
    <3>9. Cardinality(kept) = GuardCapacity + 1
      BY <3>7, <3>8, FS_AddElement
    <3>10. Cardinality(kept) <= Cardinality(newer)
      BY <3>4, <3>6, FS_Subset
    <3>11. s.overlap = Cardinality(newer)
      BY <1>1 DEF ReplayOk
    <3>12. QED
      BY <1>2, <1>13, <3>9, <3>10, <3>11, AttachAssumption DEF Guarded
  <2>3. QED
    BY <2>1, <2>2, <1>9
<1>14. ReplayOk(w, r)
  <2>1. ToSet(r.guard) \subseteq ToSet(r.shown)
    BY <1>1, <1>6, <1>8, <1>9 DEF ReplayOk
  <2>2. Increasing(r.history) /\ Increasing(r.guard) /\ Len(r.guard) <= GuardCapacity
    BY <1>3, <1>6, <1>8
  <2>3. r.overlap = Cardinality({x \in read : x > r.base}) /\ read \subseteq 1 .. w.emitted
    BY <1>1, <1>8 DEF ReplayOk
  <2>4. Guarded(r) =>
           \A x \in Due(w, r), h \in read :
              (r.base < x /\ x < h) \/ (h < x /\ x <= r.base) => x \in read
    BY <1>1, <1>8, <1>9 DEF ReplayOk
  <2>5. QED
    BY <1>8, <1>9, <1>10, <1>13, <2>1, <2>2, <2>3, <2>4 DEF ReplayOk
<1>15. SessionOk(w, r)
  BY <1>8, <1>11, <1>12, <1>14 DEF SessionOk, Receiving
<1>16. QED
  BY <1>15 DEF r, e


\* The head of the inbox of a session that reads its stream.
LEMMA InboxHead ==
    ASSUME NEW w, NEW s, SessionOk(w, s), s.at = "live", s.inbox # <<>>
    PROVE  LET e == Head(s.inbox)
           IN  /\ s.inbox \in Seq(Nat) /\ Tail(s.inbox) \in Seq(Nat)
               /\ e \in Nat /\ s.base < e /\ e <= w.offered /\ InStream(w, s.job, e)
               /\ ToSet(s.inbox) = {e} \cup ToSet(Tail(s.inbox))
               /\ Increasing(Tail(s.inbox)) /\ \A x \in ToSet(Tail(s.inbox)) : e < x
<1>1. s \in Sessions /\ InboxOk(w, s)
  BY DEF SessionOk, Receiving
<1>2. s.inbox \in Seq(Nat) /\ Increasing(s.inbox)
  BY <1>1, SessionTypes DEF InboxOk
<1>3. /\ Head(s.inbox) \in Nat /\ Tail(s.inbox) \in Seq(Nat)
      /\ ToSet(s.inbox) = {Head(s.inbox)} \cup ToSet(Tail(s.inbox))
      /\ Increasing(Tail(s.inbox)) /\ \A x \in ToSet(Tail(s.inbox)) : Head(s.inbox) < x
  BY <1>2, HeadAndTail
<1>4. QED
  BY <1>1, <1>2, <1>3 DEF InboxOk

\* An event that the replay showed is dropped.
LEMMA DropKeeps ==
    ASSUME NEW w, NEW s, IsWorld(w), SessionOk(w, s), s.at = "live", s.inbox # <<>>,
           AlreadyShown(s.guard, Head(s.inbox))
    PROVE  SessionOk(w, [s EXCEPT !.inbox = Tail(@), !.guard = RemoveFirst(@, Head(s.inbox))])
<1> DEFINE e == Head(s.inbox)
           g == RemoveFirst(s.guard, e)
           t == Tail(s.inbox)
           r == [s EXCEPT !.inbox = t, !.guard = g]
<1>1. s \in Sessions /\ InboxOk(w, s) /\ LiveOk(w, s) /\ ShownOk(w, s)
  BY DEF SessionOk, Receiving
<1>2. s.guard \in Seq(Nat) /\ s.shown \in Seq(Nat) /\ s.base \in Nat
  BY <1>1, SessionTypes
<1>3. /\ t \in Seq(Nat) /\ e \in Nat /\ ToSet(s.inbox) = {e} \cup ToSet(t)
      /\ Increasing(t) /\ \A x \in ToSet(t) : e < x
      /\ e <= w.offered
  BY InboxHead
<1>4. /\ g \in Seq(Nat) /\ Increasing(g) /\ ToSet(g) \subseteq ToSet(s.guard)
      /\ ToSet(s.guard) \ {e} \subseteq ToSet(g)
  BY <1>1, <1>2, RemoveFirstKeeps DEF LiveOk
<1>5. e \in ToSet(s.shown)
  <2>1. e \in ToSet(s.guard)
    BY <1>2 DEF AlreadyShown, Contains, ToSet
  <2>2. QED
    BY <2>1, <1>1 DEF LiveOk
<1> HIDE DEF g, t
<1>6. /\ r \in Sessions /\ r.at = "live" /\ r.job = s.job /\ r.guard = g /\ r.inbox = t
      /\ r.shown = s.shown /\ r.missed = s.missed /\ r.open = s.open
      /\ r.base = s.base /\ r.overlap = s.overlap
  BY <1>1, <1>3, <1>4 DEF Sessions
<1> HIDE DEF r, e
<1>7. Due(w, r) = Due(w, s) /\ (Guarded(r) <=> Guarded(s))
  BY <1>6 DEF Due, Guarded
<1>8. ShownOk(w, r)
  BY <1>1, <1>6, <1>7 DEF ShownOk, Once, NoGap
<1>9. InboxOk(w, r)
  BY <1>1, <1>3, <1>5, <1>6, <1>7 DEF InboxOk
<1>10. LiveOk(w, r)
  <2>1. ASSUME Guarded(s), NEW x \in ToSet(s.shown), x \in ToSet(t) \/ w.offered < x
        PROVE  x \in ToSet(g)
    <3>1. x \in Nat /\ ~(x < x)
      BY <1>2 DEF ToSet
    <3>2. x # e
      BY <1>3, <2>1, <3>1 DEF IsWorld
    <3>3. x \in ToSet(s.guard)
      BY <1>1, <1>3, <2>1 DEF LiveOk
    <3>4. QED
      BY <1>4, <3>2, <3>3
  <2>2. QED
    BY <1>1, <1>3, <1>4, <1>6, <1>7, <2>1 DEF LiveOk
<1>11. SessionOk(w, r)
  BY <1>6, <1>8, <1>9, <1>10 DEF SessionOk, Receiving
<1>12. QED
  BY <1>11 DEF r, e, g, t

\* An event that the guard does not know is shown: it is new, and newer than all
\* that was shown unless its line in the log is broken.
LEMMA ShowKeeps ==
    ASSUME NEW w, NEW s, IsWorld(w), SessionOk(w, s), s.at = "live", s.inbox # <<>>,
           ~s.missed, ~AlreadyShown(s.guard, Head(s.inbox))
    PROVE  SessionOk(w, [s EXCEPT !.inbox = Tail(@), !.shown = Append(@, Head(s.inbox))])
<1> DEFINE e == Head(s.inbox)
           t == Tail(s.inbox)
           u == Append(s.shown, e)
           r == [s EXCEPT !.inbox = t, !.shown = u]
<1>1. s \in Sessions /\ InboxOk(w, s) /\ LiveOk(w, s) /\ ShownOk(w, s)
  BY DEF SessionOk, Receiving
<1>2. s.guard \in Seq(Nat) /\ s.shown \in Seq(Nat) /\ s.base \in Nat
  BY <1>1, SessionTypes
<1>3. /\ t \in Seq(Nat) /\ e \in Nat /\ ToSet(s.inbox) = {e} \cup ToSet(t)
      /\ Increasing(t) /\ \A x \in ToSet(t) : e < x
      /\ s.base < e /\ e <= w.offered /\ InStream(w, s.job, e)
  BY InboxHead
<1>4. u \in Seq(Nat) /\ ToSet(u) = ToSet(s.shown) \cup {e}
  BY <1>2, <1>3, AppendSet
<1>5. /\ DOMAIN s.shown = 1 .. Len(s.shown) /\ DOMAIN u = 1 .. (Len(s.shown) + 1)
      /\ Len(s.shown) \in Nat
      /\ \A i \in DOMAIN s.shown : u[i] = s.shown[i] /\ s.shown[i] \in ToSet(s.shown)
      /\ u[Len(s.shown) + 1] = e
  BY <1>2 DEF ToSet
<1>6. e \notin ToSet(s.guard)
  <2>1. DOMAIN s.guard = 1 .. Len(s.guard)
    BY <1>2
  <2>2. \A i \in DOMAIN s.guard : s.guard[i] # e
    BY <2>1 DEF AlreadyShown, Contains
  <2>3. QED
    BY <2>2 DEF ToSet
<1>7. e \in 1 .. w.emitted /\ ToSet(s.shown) \subseteq 1 .. w.emitted
  BY <1>1, <1>2, <1>3, SMTT(60) DEF ShownOk, IsWorld
<1> HIDE DEF t, u
<1>8. /\ r \in Sessions /\ r.at = "live" /\ r.job = s.job /\ r.guard = s.guard /\ r.inbox = t
      /\ r.shown = u /\ r.missed = s.missed /\ r.open = s.open
      /\ r.base = s.base /\ r.overlap = s.overlap
  BY <1>1, <1>3, <1>4 DEF Sessions
<1> HIDE DEF r, e
<1>9. Due(w, r) = Due(w, s) /\ (Guarded(r) <=> Guarded(s))
  BY <1>8 DEF Due, Guarded
<1>10. Guarded(s) => e \notin ToSet(s.shown)
  BY <1>1, <1>3, <1>6 DEF LiveOk
<1>11. ASSUME Guarded(s), e \notin w.lost, NEW b \in ToSet(s.shown), e < b
       PROVE  FALSE
  <2>1. e \in Due(w, s)
    BY <1>3, <1>7, <1>11 DEF Due
  <2>2. e \in ToSet(s.shown)
    BY <1>1, <1>3, <1>11, <2>1 DEF LiveOk
  <2>3. QED
    BY <1>10, <1>11, <2>2
<1>12. Guarded(s) => Once(w, r)
  <2>1. SUFFICES ASSUME Guarded(s), NEW i \in DOMAIN u, NEW k \in DOMAIN u, i < k
                 PROVE  u[i] # u[k] /\ (u[i] < u[k] \/ u[k] \in w.lost)
    BY <1>8 DEF Once
  <2>2. i \in DOMAIN s.shown
    BY <1>5, <2>1
  <2>3. CASE k \in DOMAIN s.shown
    BY <1>1, <1>5, <2>1, <2>2, <2>3 DEF ShownOk, Once
  <2>4. CASE k = Len(s.shown) + 1
    <3>1. u[k] = e /\ u[i] \in ToSet(s.shown) /\ u[i] \in Nat
      BY <1>5, <1>7, <2>2, <2>4
    <3>2. u[i] # e
      BY <1>10, <2>1, <3>1
    <3>3. e \in w.lost \/ ~(e < u[i])
      BY <1>11, <2>1, <3>1
    <3>4. QED
      BY <1>3, <1>7, <3>1, <3>2, <3>3
  <2>5. QED
    BY <1>5, <2>1, <2>3, <2>4
<1>13. Guarded(s) => NoGap(w, r)
  <2>1. SUFFICES ASSUME Guarded(s), NEW x \in Due(w, s), NEW a \in ToSet(u), NEW b \in ToSet(u),
                        a < x, x < b, x # e
                 PROVE  x \in ToSet(s.shown)
    BY <1>4, <1>8, <1>9 DEF NoGap
  <2>2. x \in Nat /\ x \in 1 .. w.emitted
    BY DEF Due
  <2>3. ~(e < e)
    BY <1>7
  <2>4. CASE a \in ToSet(s.shown) /\ b \in ToSet(s.shown)
    BY <1>1, <2>1, <2>4 DEF ShownOk, NoGap
  <2>5. CASE a \in ToSet(s.shown) /\ b = e
    <3>1. CASE x <= s.base
      BY <1>1, <2>1, <2>5, <3>1 DEF LiveOk
    <3>2. CASE s.base < x
      <4>1. x <= w.offered
        BY <1>3, <1>7, <2>1, <2>2, <2>5 DEF IsWorld
      <4>2. x \in ToSet(s.inbox) \cup ToSet(s.shown)
        BY <1>1, <3>2, <4>1 DEF InboxOk
      <4>3. x \notin ToSet(s.inbox)
        BY <1>3, <1>7, <2>1, <2>2, <2>5
      <4>4. QED
        BY <4>2, <4>3
    <3>3. QED
      BY <1>2, <2>2, <3>1, <3>2
  <2>6. CASE a = e /\ b \in ToSet(s.shown)
    <3>1. s.base < x /\ x <= w.offered
      BY <1>2, <1>3, <1>7, <2>1, <2>2, <2>6 DEF IsWorld
    <3>2. x \in ToSet(s.inbox) \cup ToSet(s.shown)
      BY <1>1, <3>1 DEF InboxOk
    <3>3. x \in ToSet(s.inbox) => x \in ToSet(s.shown)
      BY <1>1, <2>1, <2>6 DEF LiveOk
    <3>4. QED
      BY <3>2, <3>3
  <2>7. QED
    <3>1. ~(a = e /\ b = e)
      BY <1>7, <2>1, <2>2
    <3>2. QED
      BY <1>4, <2>4, <2>5, <2>6, <3>1
<1>14. ShownOk(w, r)
  BY <1>4, <1>7, <1>8, <1>9, <1>12, <1>13 DEF ShownOk
<1>15. InboxOk(w, r)
  BY <1>1, <1>3, <1>4, <1>8, <1>9 DEF InboxOk
<1>16. LiveOk(w, r)
  <2>1. \A x \in ToSet(t) : x \in Nat
    BY <1>3 DEF ToSet
  <2>2. ASSUME Guarded(s), NEW x \in ToSet(u), x \in ToSet(t) \/ w.offered < x
        PROVE  x \in ToSet(s.guard)
    <3>1. x # e
      BY <1>3, <2>1, <2>2 DEF IsWorld
    <3>2. QED
      BY <1>1, <1>3, <1>4, <2>2, <3>1 DEF LiveOk
  <2>3. ASSUME Guarded(s), NEW x \in Due(w, s), NEW b \in ToSet(u), x \in ToSet(t), x < b
        PROVE  x \in ToSet(u)
    <3>1. b # e
      BY <1>3, <2>1, <2>3
    <3>2. QED
      BY <1>1, <1>3, <1>4, <2>3, <3>1 DEF LiveOk
  <2>4. ASSUME Guarded(s), NEW x \in Due(w, s), NEW a \in ToSet(u), a < x, x <= s.base
        PROVE  x \in ToSet(u)
    <3>1. x \in Nat
      BY DEF Due
    <3>2. a # e
      BY <1>2, <1>3, <1>7, <2>4, <3>1
    <3>3. QED
      BY <1>1, <1>4, <2>4, <3>2 DEF LiveOk
  <2>5. ToSet(s.guard) \subseteq ToSet(u) /\ Increasing(s.guard)
    BY <1>1, <1>4 DEF LiveOk
  <2>6. QED
    BY <1>8, <1>9, <2>2, <2>3, <2>4, <2>5 DEF LiveOk
<1>17. SessionOk(w, r)
  BY <1>8, <1>14, <1>15, <1>16 DEF SessionOk, Receiving
<1>18. QED
  BY <1>17 DEF r, e, t, u


\* The history of a job that is over is shown as it was recorded.
LEMMA TerminalKeeps ==
    ASSUME NEW w, NEW s, NEW events, IsWorld(w), SessionOk(w, s), s.at = "history",
           Recorded(w, s.job, events)
    PROVE  SessionOk(w, End([s EXCEPT !.shown = events]))
<1> DEFINE q == [s EXCEPT !.shown = events]
           r == End(q)
<1>1. s \in Sessions /\ NewOk(s)
  BY DEF SessionOk
<1>2. events \in Seq(Nat) /\ Increasing(events)
  BY DEF Recorded
<1>3. q \in Sessions /\ q.job = s.job /\ q.shown = events
  BY <1>1, <1>2 DEF Sessions
<1> HIDE DEF q
<1>4. r \in Sessions
  <2>1. <<>> \in Seq(Nat) /\ 0 \in Nat
    OBVIOUS
  <2>2. QED
    BY <1>3, <2>1 DEF End, Sessions
<1>5. /\ r.at = "closing" /\ r.job = q.job /\ r.shown = q.shown
      /\ r.inbox = <<>> /\ ~r.open /\ ~r.missed
  BY <1>3 DEF End, Sessions
<1> HIDE DEF r
<1>6. Once(w, r)
  <2>1. \A i \in DOMAIN events : events[i] \in Nat
    BY <1>2
  <2>2. QED
    BY <1>2, <1>3, <1>5, <2>1 DEF Once, Increasing
<1>7. NoGap(w, r)
  BY <1>3, <1>5 DEF NoGap, Due, Recorded
<1>8. ShownOk(w, r)
  BY <1>3, <1>5, <1>6, <1>7 DEF ShownOk, Recorded
<1>9. SessionOk(w, r)
  BY <1>4, <1>5, <1>8 DEF SessionOk, IdleOk, Receiving
<1>10. QED
  BY <1>9 DEF r, q

-----------------------------------------------------------------------------
(* The chain.                                                              *)

\* What the sessions depend on.
LEMMA WorldIsOne ==
    ASSUME ChainOk
    PROVE  /\ IsWorld(World)
           /\ World.emitted = emitted /\ World.lost = lost /\ World.childFrom = childFrom
           /\ World.log = log /\ World.silent = (driver \in {"released", "over"})
           /\ World.offered = IF pending = 0 THEN emitted ELSE emitted - 1
  BY AttachAssumption DEF ChainOk, World, IsWorld

LEMMA NextWorldIsOne ==
    ASSUME ChainOk'
    PROVE  IsWorld(World') /\ World'.silent = (driver' \in {"released", "over"})
<1>1. /\ emitted' \in Nat /\ childFrom' \in Nat /\ lost' \subseteq 1 .. emitted'
      /\ pending' = 0 \/ pending' = emitted'
  BY AttachAssumption DEF ChainOk
<1>2. /\ World'.emitted = emitted' /\ World'.lost = lost' /\ World'.childFrom = childFrom'
      /\ World'.silent = (driver' \in {"released", "over"})
      /\ World'.offered = IF pending' = 0 THEN emitted' ELSE emitted' - 1
  BY DEF World
<1>3. /\ World'.offered \in Nat /\ World'.offered <= emitted'
      /\ emitted' <= World'.offered + 1
  <2> DEFINE n == emitted'
             m == World'.offered
             p == pending'
  <2>1. n \in Nat /\ (p = 0 \/ p = n) /\ m = IF p = 0 THEN n ELSE n - 1
    BY <1>1, <1>2
  <2> HIDE DEF n, m, p
  <2>2. m \in Nat /\ m <= n /\ n <= m + 1
    BY <2>1
  <2>3. QED
    BY <2>2 DEF n, m
<1>4. World'.silent \in BOOLEAN
  BY <1>2
<1> DEFINE w == World'
<1>5. /\ w.emitted = emitted' /\ w.lost = lost' /\ w.childFrom = childFrom'
      /\ w.offered \in Nat /\ w.offered <= emitted' /\ emitted' <= w.offered + 1
      /\ w.silent \in BOOLEAN
  BY <1>2, <1>3, <1>4
<1> HIDE DEF w
<1>6. IsWorld(w)
  BY <1>1, <1>5 DEF IsWorld
<1>7. QED
  BY <1>2, <1>6 DEF w

\* recorded_events reads what the lemmas call recorded.
LEMMA RecordedEventsAre ==
    ASSUME ChainOk, NEW job \in Jobs
    PROVE  Recorded(World, job, RecordedEvents(job))
<1> DEFINE events == IF job = First THEN log ELSE <<>>
           k == IF Len(events) > MaxReplayed THEN Len(events) - MaxReplayed + 1 ELSE 1
           u == SubSeq(events, k, Len(events))
<1>1. World.emitted = emitted /\ World.lost = lost
  BY WorldIsOne
<1>2. RecordedEvents(job) = u
  BY DEF RecordedEvents
<1>3. /\ events \in Seq(Nat) /\ Increasing(events) /\ ToSet(events) \subseteq 1 .. emitted
  <2>1. CASE job = First
    <3>1. log \in Seq(1 .. emitted) /\ emitted \in Nat
      BY AttachAssumption DEF ChainOk
    <3>2. log \in Seq(Nat) /\ ToSet(log) \subseteq 1 .. emitted
      BY <3>1 DEF ToSet
    <3>3. QED
      BY <2>1, <3>2 DEF ChainOk
  <2>2. CASE job # First
    <3>1. events = <<>> /\ <<>> \in Seq(Nat)
      BY <2>2
    <3> HIDE DEF events
    <3>2. ToSet(events) = {} /\ Increasing(events)
      BY <3>1, EmptySet
    <3>3. QED
      BY <3>1, <3>2
  <2>3. QED
    BY <2>1, <2>2
<1>4. Len(events) \in Nat /\ k \in 1 .. (Len(events) + 1)
  BY <1>3, AttachAssumption, SMTT(60)
<1>5. Len(events) - k + 1 = MaxReplayed \/ k = 1
  BY <1>3, AttachAssumption
<1> HIDE DEF events, k
<1>6. /\ u \in Seq(Nat) /\ Len(u) = Len(events) - k + 1 /\ Increasing(u)
      /\ ToSet(u) \subseteq ToSet(events)
      /\ \A e \in ToSet(events) \ ToSet(u) : (k # 1) /\ \A x \in ToSet(u) : e < x
  BY <1>3, <1>4, Suffix
<1> HIDE DEF u
<1>7. ASSUME NEW a \in ToSet(u) PROVE a \in Nat /\ events = log
  BY <1>3, <1>6, EmptySet DEF events
<1>8. ASSUME NEW e \in 1 .. emitted, NEW a \in ToSet(u), e \notin lost
      PROVE  e \in ToSet(events)
  BY <1>7, <1>8 DEF ChainOk
<1>9. ASSUME NEW e \in 1 .. emitted, NEW a \in ToSet(u), a < e, e \notin lost
      PROVE  e \in ToSet(u)
  <2>1. SUFFICES ASSUME e \notin ToSet(u) PROVE FALSE
    OBVIOUS
  <2>2. e < a
    BY <1>6, <1>8, <1>9, <2>1
  <2>3. QED
    BY <1>7, <1>9, <2>2
<1>10. ASSUME NEW e \in 1 .. emitted, NEW b \in ToSet(u), e \notin lost, e \notin ToSet(u)
       PROVE  Len(u) = MaxReplayed /\ \A x \in ToSet(u) : e < x
  BY <1>5, <1>6, <1>8, <1>10
<1>11. QED
  BY <1>1, <1>2, <1>3, <1>6, <1>9, <1>10 DEF Recorded

\* What the driver does besides emitting to the subscribers only makes the chain grow.
LEMMA LogGrows ==
    ASSUME ChainOk, AppendEvent
    PROVE  ChainOk' /\ Grows(World, World')
<1>1. /\ emitted \in Nat /\ emitted' = emitted + 1 /\ emitted + 1 <= MaxEvents /\ MaxEvents \in Nat
      /\ pending = 0 /\ pending' = emitted + 1 /\ childFrom' = childFrom /\ driver' = driver
      /\ driver \in {"running", "ending"}
      /\ childFrom \in 0 .. (emitted + 1)
  BY AttachAssumption DEF ChainOk, AppendEvent
<1>2. /\ log \in Seq(1 .. emitted) /\ Len(log) <= emitted /\ Increasing(log) /\ Len(log) \in Nat
      /\ lost \subseteq 1 .. emitted
      /\ \A e \in 1 .. emitted : e \in ToSet(log) \/ e \in lost
  BY DEF ChainOk
<1>3. log \in Seq(Nat) /\ log \in Seq(1 .. (emitted + 1)) /\ \A e \in ToSet(log) : e \in 1 .. emitted
  BY <1>1, <1>2 DEF ToSet
<1>4. /\ log' \in Seq(1 .. (emitted + 1)) /\ Len(log') <= emitted + 1 /\ Increasing(log')
      /\ lost' \subseteq 1 .. (emitted + 1) /\ lost \subseteq lost'
      /\ \A e \in 1 .. (emitted + 1) : e \in ToSet(log') \/ e \in lost'
  <2>1. CASE torn
    <3>1. log' = log /\ lost' = lost \cup {emitted + 1}
      BY <2>1 DEF AppendEvent
    <3>2. QED
      BY <3>1, <1>1, <1>2, <1>3
  <2>2. CASE ~torn
    <3>1. log' = Append(log, emitted + 1) /\ lost' = lost
      BY <2>2 DEF AppendEvent
    <3>2. ToSet(log') = ToSet(log) \cup {emitted + 1}
      BY <3>1, <1>3, AppendSet
    <3>3. \A e \in ToSet(log) : e < emitted + 1
      BY <1>1, <1>3
    <3>4. Increasing(log')
      BY <3>1, <3>3, <1>1, <1>2, <1>3, IncreasingAppend
    <3>5. log' \in Seq(1 .. (emitted + 1)) /\ Len(log') = Len(log) + 1
      BY <3>1, <1>1, <1>3
    <3>6. lost' \subseteq 1 .. (emitted + 1)
      BY <3>1, <1>1, <1>2
    <3>7. \A e \in 1 .. (emitted + 1) : e \in ToSet(log') \/ e \in lost'
      BY <3>1, <3>2, <1>1, <1>2
    <3>8. QED
      BY <3>1, <3>4, <3>5, <3>6, <3>7, <1>1, <1>2
  <2>3. QED
    BY <2>1, <2>2
<1>5. ChainOk'
  <2>1. emitted' \in 0 .. MaxEvents /\ childFrom' \in 0 .. (emitted' + 1)
    BY <1>1
  <2>2. torn' \in BOOLEAN /\ shutdown' \in BOOLEAN
    BY DEF ChainOk, AppendEvent
  <2>3. /\ rec' \in [Jobs -> {"none", "queued", "running", "parked", "terminal"}]
        /\ senders' = IF driver' \in {"running", "ending", "released"} THEN {First} ELSE {}
        /\ channels' \subseteq Jobs
    BY DEF ChainOk, AppendEvent
  <2>4. QED
    BY <1>1, <1>4, <2>1, <2>2, <2>3 DEF ChainOk
<1>6. /\ World.emitted = emitted /\ World'.emitted = emitted + 1
      /\ World.offered = emitted /\ World'.offered = emitted
      /\ World.childFrom = childFrom /\ World'.childFrom = childFrom
      /\ World.lost = lost /\ World'.lost = lost' /\ World'.silent = World.silent
  BY <1>1 DEF World
<1>7. Grows(World, World')
  BY <1>1, <1>4, <1>6 DEF Grows, InStream
<1>8. QED
  BY <1>5, <1>7

LEMMA LogFails ==
    ASSUME ChainOk, AppendFails
    PROVE  ChainOk' /\ Grows(World, World')
<1>1. /\ emitted \in Nat /\ emitted' = emitted + 1 /\ emitted + 1 <= MaxEvents /\ MaxEvents \in Nat
      /\ pending = 0 /\ pending' = 0 /\ childFrom' = childFrom
      /\ driver = "running" /\ driver' = "ending"
      /\ childFrom \in 0 .. (emitted + 1) /\ lost' = lost \cup {emitted + 1} /\ log' = log
  BY AttachAssumption DEF ChainOk, AppendFails
<1>2. /\ log' \in Seq(1 .. (emitted + 1)) /\ Len(log') <= emitted + 1 /\ Increasing(log')
      /\ lost' \subseteq 1 .. (emitted + 1)
      /\ \A e \in 1 .. (emitted + 1) : e \in ToSet(log') \/ e \in lost'
  <2>1. log \in Seq(1 .. emitted) /\ Len(log) <= emitted /\ Len(log) \in Nat
    BY DEF ChainOk
  <2>2. log \in Seq(1 .. (emitted + 1))
    BY <2>1, <1>1
  <2>3. QED
    BY <1>1, <2>1, <2>2 DEF ChainOk
<1>3. ChainOk'
  <2>1. emitted' \in 0 .. MaxEvents /\ childFrom' \in 0 .. (emitted' + 1)
    BY <1>1
  <2>2. torn' \in BOOLEAN /\ shutdown' \in BOOLEAN
    BY DEF ChainOk, AppendFails
  <2>3. /\ rec' \in [Jobs -> {"none", "queued", "running", "parked", "terminal"}]
        /\ senders' = IF driver' \in {"running", "ending", "released"} THEN {First} ELSE {}
        /\ channels' \subseteq Jobs
    BY DEF ChainOk, AppendFails
  <2>4. QED
    BY <1>1, <1>2, <2>1, <2>2, <2>3 DEF ChainOk
<1>4. /\ World.emitted = emitted /\ World'.emitted = emitted + 1
      /\ World.offered = emitted /\ World'.offered = emitted + 1
      /\ World.childFrom = childFrom /\ World'.childFrom = childFrom
      /\ World.lost = lost /\ World'.lost = lost \cup {emitted + 1}
      /\ ~World.silent /\ ~World'.silent
  BY <1>1 DEF World
<1>5. Grows(World, World')
  BY <1>1, <1>4 DEF Grows, InStream
<1>6. QED
  BY <1>3, <1>5

LEMMA ChainGoesOn ==
    ASSUME ChainOk, NextJob
    PROVE  ChainOk' /\ Grows(World, World')
<1>1. /\ emitted \in Nat /\ emitted' = emitted /\ emitted <= MaxEvents /\ MaxEvents \in Nat
      /\ pending = 0 /\ pending' = 0 /\ childFrom = 0 /\ childFrom' = emitted + 1
      /\ driver = "running" /\ driver' = "running" /\ lost' = lost /\ log' = log
  BY AttachAssumption DEF ChainOk, NextJob
<1>2. ChainOk'
  <2>1. emitted' \in 0 .. MaxEvents /\ childFrom' \in 0 .. (emitted' + 1)
    BY <1>1
  <2>2. torn' \in BOOLEAN /\ shutdown' \in BOOLEAN
    BY DEF ChainOk, NextJob
  <2>3. /\ rec' \in [Jobs -> {"none", "queued", "running", "parked", "terminal"}]
        /\ senders' = IF driver' \in {"running", "ending", "released"} THEN {First} ELSE {}
        /\ channels' \subseteq Jobs
    BY DEF ChainOk, NextJob, Jobs
  <2>4. QED
    BY <1>1, <2>1, <2>2, <2>3 DEF ChainOk
<1>3. /\ World.emitted = emitted /\ World'.emitted = emitted
      /\ World.offered = emitted /\ World'.offered = emitted
      /\ World.childFrom = 0 /\ World'.childFrom = emitted + 1
      /\ World.lost = lost /\ World'.lost = lost
      /\ ~World.silent /\ ~World'.silent
  BY <1>1 DEF World
<1>4. Grows(World, World')
  BY <1>1, <1>3 DEF Grows, InStream
<1>5. QED
  BY <1>2, <1>4

\* The driver's own steps: it starts, it settles the last job, it releases the channel
\* and forgets its sender.
LEMMA DriverGoesOn ==
    ASSUME ChainOk,
           \/ driver = "queued" /\ driver' = "running"
              /\ rec' \in [Jobs -> {"none", "queued", "running", "parked", "terminal"}]
              /\ senders' = {First}
           \/ driver = "running" /\ driver' = "ending" /\ pending = 0
              /\ rec' \in [Jobs -> {"none", "queued", "running", "parked", "terminal"}]
              /\ senders' = senders
           \/ driver = "ending" /\ driver' = "released" /\ pending = 0
              /\ rec' = rec /\ senders' = senders
           \/ driver = "released" /\ driver' = "over" /\ rec' = rec /\ senders' = {}
           \/ driver = "none" /\ driver' = "queued"
              /\ rec' \in [Jobs -> {"none", "queued", "running", "parked", "terminal"}]
              /\ senders' = senders,
           channels' \subseteq Jobs,
           UNCHANGED <<emitted, childFrom, log, torn, lost, pending, shutdown>>
    PROVE  ChainOk' /\ Grows(World, World')
<1>1. emitted \in Nat /\ MaxEvents \in Nat
  BY AttachAssumption DEF ChainOk
<1>2. ChainOk'
  BY DEF ChainOk
<1>3. /\ World'.emitted = World.emitted /\ World'.offered = World.offered
      /\ World'.childFrom = World.childFrom /\ World'.lost = World.lost
      /\ World.silent => World'.silent
  BY DEF World
<1>4. World.emitted \in Nat /\ World.offered \in Nat
  BY WorldIsOne DEF IsWorld
<1>5. Grows(World, World')
  BY <1>3, <1>4 DEF Grows, InStream
<1>6. QED
  BY <1>2, <1>5

-----------------------------------------------------------------------------
(* The connections.                                                        *)

Streams == DOMAIN session = Clients /\ \A c \in Clients : SessionOk(World, session[c])

\* What makes the chain grow leaves the connections as they are.
LEMMA GrowthKeepsStreams ==
    ASSUME ChainOk, ChainOk', Streams, Grows(World, World'), UNCHANGED session
    PROVE  Streams'
<1>1. IsWorld(World) /\ IsWorld(World')
  BY WorldIsOne, NextWorldIsOne
<1>2. QED
  BY <1>1, GrowKeeps DEF Streams

LEMMA BroadcastKeepsChain ==
    ASSUME ChainOk, Broadcast
    PROVE  ChainOk' /\ Offers(World, World')
<1>1. /\ emitted \in Nat /\ pending = emitted /\ emitted # 0 /\ emitted' = emitted /\ pending' = 0
      /\ lost' = lost /\ childFrom' = childFrom /\ driver' = driver
      /\ driver \in {"running", "ending"}
  BY AttachAssumption DEF ChainOk, Broadcast
<1>2. channels' \subseteq Jobs
  BY DEF ChainOk, Broadcast, StreamsOf, Owner, Jobs
<1>3. ChainOk'
  BY <1>1, <1>2 DEF ChainOk, Broadcast
<1>4. Offers(World, World')
  BY <1>1 DEF Offers, World
<1>5. QED
  BY <1>3, <1>4

LEMMA BroadcastKeepsStreams ==
    ASSUME ChainOk, Streams, Broadcast
    PROVE  Streams'
<1>1. ChainOk' /\ Offers(World, World') /\ IsWorld(World) /\ IsWorld(World')
  BY BroadcastKeepsChain, WorldIsOne, NextWorldIsOne
<1>2. /\ World.emitted = emitted /\ World.childFrom = childFrom
      /\ pending = emitted /\ emitted # 0
  BY WorldIsOne DEF Broadcast, ChainOk
<1>3. ASSUME NEW c \in Clients PROVE SessionOk(World', session'[c])
  <2> DEFINE s == session[c]
  <2>1. SessionOk(World, s) /\ s.job \in Jobs
    BY DEF Streams, SessionOk, Sessions
  <2>2. s.job \in StreamsOf(pending) <=> InStream(World, s.job, World.emitted)
    BY <2>1, <1>2 DEF StreamsOf, Owner, InStream, Jobs, First, Child
  <2>3. session'[c] = IF s.open /\ s.job \in StreamsOf(pending) THEN Received(s, emitted) ELSE s
    BY <1>2 DEF Broadcast
  <2> HIDE DEF s
  <2>4. CASE s.open /\ s.job \in StreamsOf(pending)
    BY <2>1, <2>2, <2>3, <2>4, <1>1, <1>2, ReceiveKeeps
  <2>5. CASE ~(s.open /\ s.job \in StreamsOf(pending))
    BY <2>1, <2>2, <2>3, <2>5, <1>1, <1>2, OthersKeep
  <2>6. QED
    BY <2>4, <2>5
<1>4. DOMAIN session' = Clients
  BY DEF Broadcast
<1>5. QED
  BY <1>3, <1>4 DEF Streams

LEMMA ReleaseKeeps ==
    ASSUME ChainOk, Streams, Release
    PROVE  ChainOk' /\ Streams'
<1>1. channels' \subseteq Jobs
  BY DEF ChainOk, Release
<1>2. ChainOk' /\ Grows(World, World')
  BY <1>1, DriverGoesOn DEF Release
<1>3. IsWorld(World) /\ IsWorld(World') /\ World'.silent
  BY <1>2, WorldIsOne, NextWorldIsOne DEF Release
<1>4. ASSUME NEW c \in Clients PROVE SessionOk(World', session'[c])
  <2>1. SessionOk(World', session[c])
    BY <1>2, <1>3, GrowKeeps DEF Streams
  <2>2. SessionOk(World', [session[c] EXCEPT !.open = FALSE])
    BY <2>1, <1>3, CloseKeeps
  <2>3. session'[c] = IF session[c].job = First THEN [session[c] EXCEPT !.open = FALSE]
                      ELSE session[c]
    BY DEF Release
  <2>4. QED
    BY <2>1, <2>2, <2>3
<1>5. DOMAIN session' = Clients
  BY DEF Release
<1>6. QED
  BY <1>2, <1>4, <1>5 DEF Streams

\* What remains when the daemon is gone.
LEMMA NobodyIsConnected ==
    ASSUME session' = [c \in Clients |-> NoSession], connected' = 0
    PROVE  Streams' /\ ConnectionsAreCounted'
<1>1. Streams'
  BY NoSessionIsOk DEF Streams
<1>2. {c \in Clients : ~At(c, "out")}' = {}
  BY DEF At, NoSession
<1>3. QED
  BY <1>1, <1>2, FS_EmptySet DEF ConnectionsAreCounted

LEMMA CrashKeepsChain ==
    ASSUME ChainOk, DaemonCrash
    PROVE  ChainOk'
<1>1. /\ emitted \in Nat /\ emitted <= MaxEvents /\ MaxEvents \in Nat /\ Len(log) \in Nat
      /\ log \in Seq(1 .. emitted) /\ Len(log) <= emitted /\ Increasing(log)
      /\ childFrom \in 0 .. (emitted + 1) /\ lost \subseteq 1 .. emitted
      /\ \A e \in 1 .. emitted : e \in ToSet(log) \/ e \in lost
  BY AttachAssumption DEF ChainOk
<1>2. /\ emitted' \in 0 .. MaxEvents /\ emitted <= emitted'
      /\ lost' \subseteq 1 .. emitted'
      /\ \A e \in 1 .. emitted' : e \in 1 .. emitted \/ e \in lost'
      /\ lost \subseteq lost' /\ torn' \in BOOLEAN
  <2>1. CASE UNCHANGED <<emitted, torn, lost>>
    BY <2>1, <1>1 DEF ChainOk
  <2>2. CASE emitted < MaxEvents /\ emitted' = emitted + 1 /\ lost' = lost \union {emitted + 1}
             /\ torn' = TRUE
    BY <2>2, <1>1
  <2>3. QED
    BY <2>1, <2>2 DEF DaemonCrash
<1>3. log' \in Seq(1 .. emitted') /\ log' = log /\ childFrom' = childFrom
  <2>1. 1 .. emitted \subseteq 1 .. emitted' /\ log' = log
    BY <1>1, <1>2 DEF DaemonCrash
  <2>2. QED
    BY <2>1, <1>1 DEF DaemonCrash
<1>4. driver' \in {"none", "queued", "over"} /\ senders' = {} /\ channels' = {} /\ pending' = 0
      /\ shutdown' = FALSE /\ rec' = rec
  BY DEF DaemonCrash
<1>5. childFrom' \in 0 .. (emitted' + 1) /\ Len(log') <= emitted'
  <2> DEFINE n == emitted'
  <2>1. n \in Nat /\ emitted \in Nat /\ emitted <= n
    BY <1>1, <1>2
  <2> HIDE DEF n
  <2>2. childFrom \in 0 .. (n + 1) /\ Len(log) <= n
    BY <2>1, <1>1
  <2>3. QED
    BY <2>2, <1>3 DEF n
<1>6. Increasing(log') /\ \A e \in 1 .. emitted' : e \in ToSet(log') \/ e \in lost'
  BY <1>1, <1>2, <1>3
<1>7. shutdown' \in BOOLEAN /\ rec' \in [Jobs -> {"none", "queued", "running", "parked", "terminal"}]
  BY <1>4 DEF ChainOk
<1>8. QED
  BY <1>2, <1>3, <1>4, <1>5, <1>6, <1>7 DEF ChainOk

-----------------------------------------------------------------------------
(* One connection.                                                         *)

LEMMA ChainStays ==
    ASSUME ChainOk, UNCHANGED driverVars, channels' \subseteq Jobs, shutdown' \in BOOLEAN
    PROVE  ChainOk' /\ Grows(World, World')
<1>1. World' = World
  BY DEF World, driverVars
<1>2. ChainOk'
  BY DEF ChainOk, driverVars
<1>3. Grows(World, World)
  BY WorldIsOne DEF Grows, InStream, IsWorld
<1>4. QED
  BY <1>1, <1>2, <1>3

\* How the number of connections changes when the session of c becomes r.
Counted(c, r) ==
    \/ At(c, "out") /\ r.at # "out" /\ connected' = connected + 1
    \/ ~At(c, "out") /\ r.at # "out" /\ connected' = connected
    \/ ~At(c, "out") /\ r.at = "out" /\ connected' = connected - 1

LEMMA OneIsCounted ==
    ASSUME Inv, NEW c \in Clients, NEW r, session' = [session EXCEPT ![c] = r], Counted(c, r)
    PROVE  ConnectionsAreCounted'
<1> DEFINE open == {d \in Clients : session[d].at # "out"}
           next == {d \in Clients : session'[d].at # "out"}
<1>1. /\ connected = Cardinality(open) /\ IsFiniteSet(open)
      /\ DOMAIN session = Clients
  <2>1. open = {d \in Clients : ~At(d, "out")}
    BY DEF At
  <2>2. IsFiniteSet(open)
    BY AttachAssumption, FS_Subset
  <2>3. QED
    BY <2>1, <2>2 DEF Inv, ConnectionsAreCounted
<1>2. session'[c] = r /\ \A d \in Clients \ {c} : session'[d] = session[d]
  BY <1>1
<1>3. connected' = Cardinality(next)
  <2>1. CASE At(c, "out") /\ r.at # "out" /\ connected' = connected + 1
    <3>1. c \notin open /\ next = open \cup {c}
      BY <2>1, <1>2 DEF At
    <3>2. Cardinality(next) = Cardinality(open) + 1
      BY <3>1, <1>1, FS_AddElement
    <3>3. QED
      BY <3>2, <2>1, <1>1
  <2>2. CASE ~At(c, "out") /\ r.at # "out" /\ connected' = connected
    <3>1. next = open
      BY <2>2, <1>2 DEF At
    <3>2. QED
      BY <3>1, <2>2, <1>1
  <2>3. CASE ~At(c, "out") /\ r.at = "out" /\ connected' = connected - 1
    <3>1. c \in open /\ next = open \ {c}
      BY <2>3, <1>2 DEF At
    <3>2. Cardinality(next) = Cardinality(open) - 1
      BY <3>1, <1>1, FS_RemoveElement
    <3>3. QED
      BY <3>2, <2>3, <1>1
  <2>4. QED
    BY <2>1, <2>2, <2>3 DEF Counted
<1>4. {d \in Clients : ~At(d, "out")}' = next
  BY DEF At
<1>5. QED
  BY <1>3, <1>4 DEF ConnectionsAreCounted

\* A step of one session keeps the invariant when its new session is all right.
LEMMA OneKeeps ==
    ASSUME Inv, NEW c \in Clients, NEW r, session' = [session EXCEPT ![c] = r],
           SessionOk(World, r), Counted(c, r), ChainOk', Grows(World, World')
    PROVE  Inv'
<1>1. ConnectionsAreCounted'
  BY OneIsCounted
<1>2. IsWorld(World) /\ IsWorld(World')
  BY WorldIsOne, NextWorldIsOne DEF Inv
<1>3. ASSUME NEW d \in Clients PROVE SessionOk(World', session'[d])
  <2>1. SessionOk(World, session[d]) /\ DOMAIN session = Clients
    BY DEF Inv
  <2>2. session'[d] = IF d = c THEN r ELSE session[d]
    BY <2>1
  <2>3. SessionOk(World, session'[d])
    BY <2>1, <2>2
  <2>4. QED
    BY <2>3, <1>2, GrowKeeps
<1>4. DOMAIN session' = Clients
  BY DEF Inv
<1>5. QED
  BY <1>1, <1>3, <1>4 DEF Inv

\* A step that leaves the chain and the count as they are.
LEMMA StreamStepKeeps ==
    ASSUME Inv, NEW c \in Clients, NEW r, SessionStep(c, r), SessionOk(World, r),
           ~At(c, "out"), r.at # "out"
    PROVE  Inv'
<1>1. session' = [session EXCEPT ![c] = r] /\ UNCHANGED <<driverVars, channels, shutdown>>
  BY DEF SessionStep, StreamStep
<1>2. Counted(c, r)
  BY DEF SessionStep, Counted
<1>3. ChainOk' /\ Grows(World, World')
  BY <1>1, ChainStays DEF Inv, ChainOk
<1>4. QED
  BY <1>1, <1>2, <1>3, OneKeeps

\* A connection that has no stream only changes what it waits for.
LEMMA QuietKeeps ==
    ASSUME NEW w, NEW s, SessionOk(w, s), s.at \notin Receiving, s.at # "closing",
           NEW r \in Sessions, r.at \notin Receiving,
           r.inbox = s.inbox, r.open = s.open, r.missed = s.missed,
           r.shown = s.shown, r.overlap = s.overlap, r.guard = s.guard
    PROVE  SessionOk(w, r)
<1>1. IdleOk(s) /\ NewOk(s)
  BY DEF SessionOk, Receiving
<1>2. IdleOk(r) /\ NewOk(r)
  BY <1>1 DEF IdleOk, NewOk
<1>3. QED
  BY <1>2, FreshIsOk

LEMMA EndOfConnection ==
    ASSUME NEW s \in Sessions
    PROVE  End(s).at = "closing"
  BY DEF End, Sessions

LEMMA EndStepKeeps ==
    ASSUME Inv, NEW c \in Clients, SessionStep(c, End(session[c])), ~At(c, "out")
    PROVE  Inv'
<1>1. SessionOk(World, session[c]) /\ session[c] \in Sessions
  BY DEF Inv, SessionOk
<1>2. SessionOk(World, End(session[c])) /\ End(session[c]).at # "out"
  BY <1>1, EndKeeps, EndOfConnection
<1>3. QED
  BY <1>2, StreamStepKeeps

LEMMA SessionOfInv ==
    ASSUME Inv, NEW c \in Clients
    PROVE  /\ SessionOk(World, session[c]) /\ session[c] \in Sessions
           /\ IsWorld(World) /\ ChainOk
  BY WorldIsOne DEF Inv, SessionOk

LEMMA QuietStepKeeps ==
    ASSUME Inv, NEW c \in Clients, NEW r \in Sessions, SessionStep(c, r),
           session[c].at \notin Receiving \cup {"out", "closing"},
           r.at \notin Receiving \cup {"out"},
           r.inbox = session[c].inbox, r.open = session[c].open, r.missed = session[c].missed,
           r.shown = session[c].shown, r.overlap = session[c].overlap, r.guard = session[c].guard
    PROVE  Inv'
<1>1. SessionOk(World, r)
  BY SessionOfInv, QuietKeeps
<1>2. QED
  BY <1>1, StreamStepKeeps DEF At

\* The steps that wait for a request, answer it, or find out about a job.
LEMMA RequestsKeep ==
    ASSUME Inv, NEW c \in Clients,
           \/ AnswerOnly(c) \/ ControlLoads(c) \/ ControlAnswers(c) \/ Attach(c) \/ RefuseAttach(c)
           \/ (MayAttach(c) \/ LoadForAttach(c)) /\ UNCHANGED connected
    PROVE  Inv'
<1> DEFINE s == session[c]
<1>1. s \in Sessions
  BY SessionOfInv
<1>2. CASE AnswerOnly(c)
  <2> DEFINE r == [s EXCEPT !.at = "ready"]
  <2>1. SessionStep(c, r) /\ s.at \in {"opening", "ready"}
    BY <1>2 DEF AnswerOnly, Waiting
  <2>2. r \in Sessions /\ r.at = "ready"
        /\ r.inbox = s.inbox /\ r.open = s.open /\ r.missed = s.missed
        /\ r.shown = s.shown /\ r.overlap = s.overlap /\ r.guard = s.guard
    BY <1>1 DEF Sessions
  <2> HIDE DEF r
  <2>3. QED
    BY <2>1, <2>2, QuietStepKeeps DEF Receiving
<1>3. CASE ControlLoads(c)
  <2>1. PICK job \in Jobs :
           SessionStep(c, [s EXCEPT !.at = "control", !.job = job, !.loaded = rec[job]])
    BY <1>3 DEF ControlLoads
  <2> DEFINE r == [s EXCEPT !.at = "control", !.job = job, !.loaded = rec[job]]
  <2>2. SessionStep(c, r) /\ s.at \in {"opening", "ready"}
    BY <2>1, <1>3 DEF ControlLoads, Waiting
  <2>3. rec[job] \in {"none", "queued", "running", "parked", "terminal"}
    BY DEF Inv, ChainOk
  <2>4. r \in Sessions /\ r.at = "control"
        /\ r.inbox = s.inbox /\ r.open = s.open /\ r.missed = s.missed
        /\ r.shown = s.shown /\ r.overlap = s.overlap /\ r.guard = s.guard
    BY <1>1, <2>3 DEF Sessions
  <2> HIDE DEF r
  <2>5. QED
    BY <2>2, <2>4, QuietStepKeeps DEF Receiving
<1>4. CASE ControlAnswers(c)
  <2> DEFINE r == [s EXCEPT !.at = "ready", !.job = First, !.loaded = "none"]
  <2>1. SessionStep(c, r) /\ s.at = "control"
    BY <1>4 DEF ControlAnswers, At
  <2>2. r \in Sessions /\ r.at = "ready"
        /\ r.inbox = s.inbox /\ r.open = s.open /\ r.missed = s.missed
        /\ r.shown = s.shown /\ r.overlap = s.overlap /\ r.guard = s.guard
    BY <1>1 DEF Sessions, Jobs
  <2> HIDE DEF r
  <2>3. QED
    BY <2>1, <2>2, QuietStepKeeps DEF Receiving
<1>5. CASE Attach(c)
  <2>1. PICK job \in Jobs, replay \in BOOLEAN :
           SessionStep(c, [s EXCEPT !.at = "attaching", !.job = job, !.replay = replay])
    BY <1>5 DEF Attach
  <2> DEFINE r == [s EXCEPT !.at = "attaching", !.job = job, !.replay = replay]
  <2>2. SessionStep(c, r) /\ s.at \in {"opening", "ready"}
    BY <2>1, <1>5 DEF Attach, Waiting
  <2>3. r \in Sessions /\ r.at = "attaching"
        /\ r.inbox = s.inbox /\ r.open = s.open /\ r.missed = s.missed
        /\ r.shown = s.shown /\ r.overlap = s.overlap /\ r.guard = s.guard
    BY <1>1 DEF Sessions
  <2> HIDE DEF r
  <2>4. QED
    BY <2>2, <2>3, QuietStepKeeps DEF Receiving
<1>6. CASE RefuseAttach(c)
  <2> DEFINE r == [s EXCEPT !.at = "ready"]
  <2>1. SessionStep(c, r) /\ s.at = "answer"
    BY <1>6 DEF RefuseAttach, At
  <2>2. r \in Sessions /\ r.at = "ready"
        /\ r.inbox = s.inbox /\ r.open = s.open /\ r.missed = s.missed
        /\ r.shown = s.shown /\ r.overlap = s.overlap /\ r.guard = s.guard
    BY <1>1 DEF Sessions
  <2> HIDE DEF r
  <2>3. QED
    BY <2>1, <2>2, QuietStepKeeps DEF Receiving
<1>7. ASSUME NEW at \in {"subscribe", "load", "answer", "history"},
             StreamStep(c, [s EXCEPT !.at = at]), UNCHANGED connected,
             s.at \in {"attaching", "load"}
      PROVE  Inv'
  <2> DEFINE r == [s EXCEPT !.at = at]
  <2>1. SessionStep(c, r)
    BY <1>7 DEF SessionStep
  <2>2. r \in Sessions /\ r.at = at
        /\ r.inbox = s.inbox /\ r.open = s.open /\ r.missed = s.missed
        /\ r.shown = s.shown /\ r.overlap = s.overlap /\ r.guard = s.guard
    BY <1>1, <1>7 DEF Sessions
  <2> HIDE DEF r
  <2>3. QED
    BY <1>7, <2>1, <2>2, QuietStepKeeps DEF Receiving
<1>8. CASE MayAttach(c) /\ UNCHANGED connected
  BY <1>7, <1>8 DEF MayAttach, At
<1>9. CASE LoadForAttach(c) /\ UNCHANGED connected
  <2> DEFINE at == CASE rec[s.job] = "none" -> "answer"
                     [] rec[s.job] = "terminal" -> "history"
                     [] OTHER -> "subscribe"
  <2>1. at \in {"subscribe", "load", "answer", "history"}
    OBVIOUS
  <2>2. StreamStep(c, [s EXCEPT !.at = at]) /\ s.at = "load"
    BY <1>9 DEF LoadForAttach, At
  <2> HIDE DEF at
  <2>3. QED
    BY <1>7, <1>9, <2>1, <2>2
<1>10. QED
  BY <1>2, <1>3, <1>4, <1>5, <1>6, <1>8, <1>9

\* Whatever ends a connection.
LEMMA EndsKeep ==
    ASSUME Inv, NEW c \in Clients,
           \/ HandshakeTimeout(c) \/ ReadFails(c) \/ AnswerFails(c)
           \/ /\ StreamLagged(c) \/ StreamClosed(c) \/ ClientDetached(c) \/ StreamShutdown(c)
              /\ UNCHANGED connected
    PROVE  Inv'
<1>1. SessionStep(c, End(session[c]))
  BY DEF HandshakeTimeout, ReadFails, AnswerFails, StreamLagged, StreamClosed, ClientDetached,
         StreamShutdown, SessionStep
<1>2. ~At(c, "out")
  BY DEF HandshakeTimeout, ReadFails, AnswerFails, StreamLagged, StreamClosed, ClientDetached,
         StreamShutdown, Waiting, At
<1>3. QED
  BY <1>1, <1>2, EndStepKeeps

\* A connection opens, a client leaves or stalls, a submission, a request to shut down,
\* and the end of a connection.
LEMMA ClientsKeep ==
    ASSUME Inv, NEW c \in Clients,
           \/ Accept(c) \/ ClientLeaves(c) \/ ClientStalls(c) \/ Submit(c) \/ RequestShutdown(c)
           \/ FinishSession(c)
    PROVE  Inv'
<1> DEFINE s == session[c]
<1>1. s \in Sessions /\ SessionOk(World, s) /\ ChainOk
  BY SessionOfInv
<1>2. CASE Accept(c)
  <2> DEFINE r == [NoSession EXCEPT !.at = "opening"]
  <2>1. r \in Sessions /\ r.at = "opening" /\ IdleOk(r) /\ NewOk(r)
    <3>1. NoSession \in Sessions /\ IdleOk(NoSession) /\ NewOk(NoSession)
      BY NoSessionIsOk DEF NoSession, IdleOk, NewOk
    <3>2. QED
      BY <3>1 DEF IdleOk, NewOk, Sessions
  <2> HIDE DEF r
  <2>2. SessionOk(World, r)
    BY <2>1, FreshIsOk DEF Receiving
  <2>3. session' = [session EXCEPT ![c] = r] /\ Counted(c, r)
    BY <1>2, <2>1 DEF Accept, Counted, r
  <2>4. ChainOk' /\ Grows(World, World')
    BY <1>1, <1>2, ChainStays DEF Accept, ChainOk
  <2>5. QED
    BY <2>2, <2>3, <2>4, OneKeeps
<1>3. CASE ClientLeaves(c)
  <2> DEFINE r == [s EXCEPT !.left = TRUE]
  <2>1. SessionStep(c, r) /\ s.at \in Streaming
    BY <1>3 DEF ClientLeaves
  <2>2. r \in Sessions /\ r.at = s.at /\ r.job = s.job /\ r.history = s.history
        /\ r.guard = s.guard /\ r.inbox = s.inbox /\ r.missed = s.missed /\ r.open = s.open
        /\ r.shown = s.shown /\ r.base = s.base /\ r.overlap = s.overlap
    BY <1>1 DEF Sessions
  <2> HIDE DEF r
  <2>3. SessionOk(World, r)
    BY <1>1, <2>2, SameKeeps
  <2>4. QED
    BY <2>1, <2>2, <2>3, StreamStepKeeps DEF Streaming, At
<1>4. CASE ClientStalls(c)
  <2> DEFINE r == [s EXCEPT !.stalled = TRUE]
  <2>1. SessionStep(c, r) /\ s.at \in Streaming
    BY <1>4 DEF ClientStalls
  <2>2. r \in Sessions /\ r.at = s.at /\ r.job = s.job /\ r.history = s.history
        /\ r.guard = s.guard /\ r.inbox = s.inbox /\ r.missed = s.missed /\ r.open = s.open
        /\ r.shown = s.shown /\ r.base = s.base /\ r.overlap = s.overlap
    BY <1>1 DEF Sessions
  <2> HIDE DEF r
  <2>3. SessionOk(World, r)
    BY <1>1, <2>2, SameKeeps
  <2>4. QED
    BY <2>1, <2>2, <2>3, StreamStepKeeps DEF Streaming, At
<1>5. CASE Submit(c)
  <2> DEFINE r == [s EXCEPT !.at = "ready"]
  <2>1. session' = [session EXCEPT ![c] = r] /\ s.at \in {"opening", "ready"}
    <3>1. DOMAIN session = Clients
      BY DEF Inv
    <3>2. QED
      BY <1>5, <3>1 DEF Submit, Waiting
  <2>2. r \in Sessions /\ r.at = "ready"
        /\ r.inbox = s.inbox /\ r.open = s.open /\ r.missed = s.missed
        /\ r.shown = s.shown /\ r.overlap = s.overlap /\ r.guard = s.guard
    BY <1>1 DEF Sessions
  <2> HIDE DEF r
  <2>3. SessionOk(World, r)
    BY <1>1, <2>1, <2>2, QuietKeeps DEF Receiving
  <2>4. rec' \in [Jobs -> {"none", "queued", "running", "parked", "terminal"}]
        /\ channels' \subseteq Jobs
    BY <1>1, <1>5 DEF Submit, ChainOk
  <2>5. ChainOk' /\ Grows(World, World')
    BY <1>1, <1>5, <2>4, DriverGoesOn DEF Submit
  <2>6. Counted(c, r)
    BY <1>5, <2>1, <2>2 DEF Submit, Counted, At
  <2>7. QED
    BY <2>1, <2>3, <2>5, <2>6, OneKeeps
<1>6. CASE RequestShutdown(c)
  <2> DEFINE r == End(s)
  <2>1. SessionOk(World, r) /\ r.at = "closing"
    BY <1>1, EndKeeps, EndOfConnection
  <2>2. session' = [session EXCEPT ![c] = r] /\ s.at \in {"opening", "ready"}
    BY <1>6 DEF RequestShutdown, Waiting
  <2> HIDE DEF r
  <2>3. ChainOk' /\ Grows(World, World')
    BY <1>1, <1>6, ChainStays DEF RequestShutdown, ChainOk
  <2>4. Counted(c, r)
    BY <1>6, <2>1, <2>2 DEF RequestShutdown, Counted, At
  <2>5. QED
    BY <2>1, <2>2, <2>3, <2>4, OneKeeps
<1>7. CASE FinishSession(c)
  <2>1. SessionOk(World, NoSession) /\ NoSession.at = "out"
    BY NoSessionIsOk DEF NoSession
  <2>2. session' = [session EXCEPT ![c] = NoSession] /\ Counted(c, NoSession)
    BY <1>7, <2>1 DEF FinishSession, Counted, At
  <2>3. ChainOk' /\ Grows(World, World')
    BY <1>1, <1>7, ChainStays DEF FinishSession, ChainOk
  <2>4. QED
    BY <2>1, <2>2, <2>3, OneKeeps
<1>8. QED
  BY <1>2, <1>3, <1>4, <1>5, <1>6, <1>7

\* The steps of a stream: it subscribes, reads the log, writes what it read and then
\* what it receives.
LEMMA StreamsKeep ==
    ASSUME Inv, NEW c \in Clients, UNCHANGED connected,
           \/ Subscribe(c) \/ ReadHistory(c) \/ ReplayEvent(c) \/ ReplayDone(c) \/ StreamEvent(c)
           \/ ReplayTerminalJob(c)
    PROVE  Inv'
<1> DEFINE s == session[c]
<1>1. s \in Sessions /\ SessionOk(World, s) /\ ChainOk /\ IsWorld(World)
  BY SessionOfInv
<1>2. s.job \in Jobs
  BY <1>1, SessionTypes
<1>3. Recorded(World, s.job, RecordedEvents(s.job))
  BY <1>1, <1>2, RecordedEventsAre
<1>4. CASE Subscribe(c)
  <2> DEFINE r == [s EXCEPT !.at = IF s.replay THEN "read" ELSE "live", !.open = TRUE,
                            !.base = World.offered]
  <2>1. s.at = "subscribe" /\ session' = [session EXCEPT ![c] = r]
    BY <1>1, <1>4, WorldIsOne DEF Subscribe, At
  <2>2. SessionOk(World, r)
    BY <1>1, <2>1, SubscribeKeeps
  <2>3. r.at \in {"read", "live"}
    BY <1>1 DEF Sessions
  <2> HIDE DEF r
  <2>4. channels' \subseteq Jobs /\ shutdown' \in BOOLEAN /\ UNCHANGED driverVars
    BY <1>1, <1>2, <1>4 DEF Subscribe, ChainOk
  <2>5. ChainOk' /\ Grows(World, World')
    BY <1>1, <2>4, ChainStays
  <2>6. Counted(c, r)
    BY <2>1, <2>3 DEF Counted, At
  <2>7. QED
    BY <2>1, <2>2, <2>5, <2>6, OneKeeps
<1>5. CASE ReadHistory(c)
  <2> DEFINE events == RecordedEvents(s.job)
             r == [s EXCEPT !.at = "replay", !.history = events,
                            !.overlap = Cardinality({e \in ToSet(events) : e > s.base})]
  <2>1. s.at = "read" /\ SessionStep(c, r)
    BY <1>5 DEF ReadHistory, At, SessionStep
  <2> HIDE DEF events
  <2>2. SessionOk(World, r)
    BY <1>1, <1>3, <2>1, ReadKeeps DEF events
  <2>3. r.at = "replay"
    BY <1>1 DEF Sessions
  <2> HIDE DEF r
  <2>4. QED
    BY <2>1, <2>2, <2>3, StreamStepKeeps DEF At
<1>6. ASSUME s.at \in Receiving \cup {"history"}, SessionStep(c, End(s)) PROVE Inv'
  BY <1>6, EndStepKeeps DEF At, Receiving
<1>7. CASE ReplayEvent(c)
  <2> DEFINE r == [s EXCEPT !.history = Tail(@), !.guard = GuardRecord(@, Head(s.history)),
                            !.shown = Append(@, Head(s.history))]
  <2>1. s.at = "replay" /\ s.history # <<>> /\ SessionStep(c, IF s.left THEN End(s) ELSE r)
    BY <1>7 DEF ReplayEvent, At, SessionStep
  <2>2. SessionOk(World, r)
    BY <1>1, <2>1, ReplayKeeps
  <2>3. r.at = s.at
    BY <1>1 DEF Sessions
  <2> HIDE DEF r
  <2>4. CASE s.left
    BY <1>6, <2>1, <2>4 DEF Receiving
  <2>5. CASE ~s.left
    BY <2>1, <2>2, <2>3, <2>5, StreamStepKeeps DEF At
  <2>6. QED
    BY <2>4, <2>5
<1>8. CASE ReplayDone(c)
  <2> DEFINE r == [s EXCEPT !.at = "live"]
  <2>1. s.at = "replay" /\ s.history = <<>> /\ SessionStep(c, r)
    BY <1>8 DEF ReplayDone, At, SessionStep
  <2>2. SessionOk(World, r)
    BY <1>1, <2>1, ReplayDoneKeeps
  <2>3. r.at = "live"
    BY <1>1 DEF Sessions
  <2> HIDE DEF r
  <2>4. QED
    BY <2>1, <2>2, <2>3, StreamStepKeeps DEF At
<1>9. CASE StreamEvent(c)
  <2> DEFINE e == Head(s.inbox)
             drop == [s EXCEPT !.inbox = Tail(@), !.guard = RemoveFirst(@, e)]
             show == [s EXCEPT !.inbox = Tail(@), !.shown = Append(@, e)]
  <2>1. /\ s.at = "live" /\ s.inbox # <<>> /\ ~s.missed
        /\ SessionStep(c, IF AlreadyShown(s.guard, e) THEN drop
                          ELSE IF s.left THEN End(s) ELSE show)
    BY <1>9 DEF StreamEvent, At, SessionStep
  <2>2. AlreadyShown(s.guard, e) => SessionOk(World, drop)
    BY <1>1, <2>1, DropKeeps
  <2>3. ~AlreadyShown(s.guard, e) => SessionOk(World, show)
    BY <1>1, <2>1, ShowKeeps
  <2>4. drop.at = s.at /\ show.at = s.at
    BY <1>1 DEF Sessions
  <2> HIDE DEF drop, show, e
  <2>5. CASE AlreadyShown(s.guard, e)
    BY <2>1, <2>2, <2>4, <2>5, StreamStepKeeps DEF At
  <2>6. CASE ~AlreadyShown(s.guard, e) /\ s.left
    BY <1>6, <2>1, <2>6 DEF Receiving
  <2>7. CASE ~AlreadyShown(s.guard, e) /\ ~s.left
    BY <2>1, <2>3, <2>4, <2>7, StreamStepKeeps DEF At
  <2>8. QED
    BY <2>5, <2>6, <2>7
<1>10. CASE ReplayTerminalJob(c)
  <2> DEFINE events == RecordedEvents(s.job)
             q == [s EXCEPT !.shown = events]
             r == End(q)
  <2>1. s.at = "history" /\ SessionStep(c, IF s.left THEN End(s) ELSE r)
    BY <1>10 DEF ReplayTerminalJob, At, SessionStep
  <2> HIDE DEF events
  <2>2. SessionOk(World, r)
    BY <1>1, <1>3, <2>1, TerminalKeeps DEF events
  <2>3. r.at = "closing"
    BY <1>1 DEF End, Sessions
  <2> HIDE DEF r
  <2>4. CASE s.left
    BY <1>6, <2>1, <2>4
  <2>5. CASE ~s.left
    BY <2>1, <2>2, <2>3, <2>5, StreamStepKeeps DEF At
  <2>6. QED
    BY <2>4, <2>5
<1>11. QED
  BY <1>4, <1>5, <1>7, <1>8, <1>9, <1>10

\* The driver's steps.
LEMMA DriverKeeps ==
    ASSUME Inv, DriverNext, UNCHANGED connected
    PROVE  Inv'
<1>1. ChainOk /\ Streams /\ ConnectionsAreCounted
  BY DEF Inv, Streams
<1>2. ASSUME ChainOk', Streams', \A c \in Clients : session'[c].at = session[c].at
      PROVE  Inv'
  <2>1. {c \in Clients : ~At(c, "out")}' = {c \in Clients : ~At(c, "out")}
    BY <1>2 DEF At
  <2>2. ConnectionsAreCounted'
    BY <1>1, <2>1 DEF ConnectionsAreCounted
  <2>3. QED
    BY <1>2, <2>2 DEF Inv, Streams
<1>3. ASSUME ChainOk', Grows(World, World'), UNCHANGED session PROVE Inv'
  BY <1>1, <1>2, <1>3, GrowthKeepsStreams
<1>4. CASE Register
  <2>1. rec' \in [Jobs -> {"none", "queued", "running", "parked", "terminal"}]
        /\ channels' \subseteq Jobs
    BY <1>1, <1>4 DEF Register, ChainOk
  <2>2. ChainOk' /\ Grows(World, World')
    BY <1>1, <1>4, <2>1, DriverGoesOn DEF Register
  <2>3. QED
    BY <1>3, <1>4, <2>2 DEF Register
<1>5. CASE AppendEvent
  BY <1>1, <1>3, <1>5, LogGrows DEF AppendEvent
<1>6. CASE AppendFails
  BY <1>1, <1>3, <1>6, LogFails DEF AppendFails
<1>7. CASE Broadcast
  <2>1. ChainOk' /\ Streams'
    BY <1>1, <1>7, BroadcastKeepsChain, BroadcastKeepsStreams
  <2>2. ASSUME NEW c \in Clients PROVE session'[c].at = session[c].at
    <3>1. session[c] \in Sessions /\ pending \in Nat
      BY <1>1, SessionOfInv, AttachAssumption DEF ChainOk
    <3>2. Received(session[c], pending).at = session[c].at
      BY <3>1, ReceivedTypes
    <3>3. QED
      BY <1>7, <3>2 DEF Broadcast
  <2>3. QED
    BY <1>2, <2>1, <2>2
<1>8. CASE NextJob
  BY <1>1, <1>3, <1>8, ChainGoesOn DEF NextJob
<1>9. CASE Settle
  <2>1. rec' \in [Jobs -> {"none", "queued", "running", "parked", "terminal"}]
        /\ channels' \subseteq Jobs
    BY <1>1, <1>9 DEF Settle, ChainOk
  <2>2. ChainOk' /\ Grows(World, World')
    BY <1>1, <1>9, <2>1, DriverGoesOn DEF Settle
  <2>3. QED
    BY <1>3, <1>9, <2>2 DEF Settle
<1>10. CASE Release
  <2>1. ChainOk' /\ Streams'
    BY <1>1, <1>10, ReleaseKeeps
  <2>2. ASSUME NEW c \in Clients PROVE session'[c].at = session[c].at
    <3>1. session[c] \in Sessions
      BY SessionOfInv
    <3>2. [session[c] EXCEPT !.open = FALSE].at = session[c].at
      BY <3>1 DEF Sessions
    <3>3. QED
      BY <1>10, <3>2 DEF Release
  <2>3. QED
    BY <1>2, <2>1, <2>2
<1>11. CASE Deregister
  <2>1. channels' \subseteq Jobs
    BY <1>1, <1>11 DEF Deregister, ChainOk
  <2>2. ChainOk' /\ Grows(World, World')
    BY <1>1, <1>11, <2>1, DriverGoesOn DEF Deregister
  <2>3. QED
    BY <1>3, <1>11, <2>2 DEF Deregister
<1>12. QED
  BY <1>4, <1>5, <1>6, <1>7, <1>8, <1>9, <1>10, <1>11 DEF DriverNext

-----------------------------------------------------------------------------
(* The theorems.                                                           *)

LEMMA InvInit == Init => Inv
<1> SUFFICES ASSUME Init PROVE Inv
  OBVIOUS
<1>1. ChainOk
  <2>1. 1 .. 0 = {} /\ <<>> \in Seq(1 .. 0) /\ Len(<<>>) = 0 /\ MaxEvents \in Nat
    BY AttachAssumption
  <2>2. emitted = 0 /\ log = <<>> /\ lost = {} /\ childFrom = 0 /\ pending = 0
    BY DEF Init
  <2>3. /\ emitted \in 0 .. MaxEvents /\ childFrom \in 0 .. (emitted + 1)
        /\ log \in Seq(1 .. emitted) /\ Len(log) <= emitted /\ Increasing(log)
        /\ lost \subseteq 1 .. emitted /\ \A e \in 1 .. emitted : e \in ToSet(log) \/ e \in lost
    BY <2>1, <2>2, EmptySet
  <2>4. QED
    BY <2>2, <2>3 DEF Init, ChainOk
<1>2. DOMAIN session = Clients /\ \A c \in Clients : SessionOk(World, session[c])
  BY NoSessionIsOk DEF Init
<1>3. {c \in Clients : ~At(c, "out")} = {}
  BY DEF Init, At, NoSession
<1>4. ConnectionsAreCounted
  BY <1>3, FS_EmptySet DEF ConnectionsAreCounted, Init
<1>5. QED
  BY <1>1, <1>2, <1>4 DEF Inv

LEMMA InvNext == Inv /\ [Next]_vars => Inv'
<1> SUFFICES ASSUME Inv, [Next]_vars PROVE Inv'
  OBVIOUS
<1>1. CASE DriverNext /\ UNCHANGED connected
  BY <1>1, DriverKeeps
<1>2. CASE DaemonCrash /\ connected' = 0
  <2>1. Streams' /\ ConnectionsAreCounted'
    BY <1>2, NobodyIsConnected DEF DaemonCrash
  <2>2. ChainOk'
    BY <1>2, CrashKeepsChain DEF Inv
  <2>3. QED
    BY <2>1, <2>2 DEF Inv, Streams
<1>3. CASE DaemonExits
  <2>1. Streams' /\ ConnectionsAreCounted'
    BY <1>3, NobodyIsConnected DEF DaemonExits
  <2>2. ChainOk'
    BY <1>3, ChainStays DEF DaemonExits, Inv, ChainOk
  <2>3. QED
    BY <2>1, <2>2 DEF Inv, Streams
<1>4. ASSUME NEW c \in Clients, ServerNext(c) \/ ClientNext(c) \/ HandshakeTimeout(c)
      PROVE  Inv'
  <2>1. CASE ServerNext(c)
    <3>1. CASE StreamNext(c) /\ UNCHANGED connected
      BY <3>1, RequestsKeep, EndsKeep, StreamsKeep DEF StreamNext
    <3>2. CASE ControlAnswers(c) \/ RefuseAttach(c) \/ AnswerFails(c) \/ FinishSession(c)
      BY <3>2, RequestsKeep, EndsKeep, ClientsKeep
    <3>3. QED
      BY <2>1, <3>1, <3>2 DEF ServerNext
  <2>2. CASE ClientNext(c)
    BY <2>2, RequestsKeep, EndsKeep, ClientsKeep DEF ClientNext
  <2>3. CASE HandshakeTimeout(c)
    BY <2>3, EndsKeep
  <2>4. QED
    BY <1>4, <2>1, <2>2, <2>3
<1>5. CASE UNCHANGED vars
  <2>1. /\ UNCHANGED driverVars /\ UNCHANGED <<channels, shutdown, session, connected>>
    BY <1>5 DEF vars, attachVars, driverVars
  <2>2. World' = World
    BY <2>1 DEF World, driverVars
  <2>3. ChainOk'
    BY <2>1, ChainStays DEF Inv, ChainOk
  <2>4. ConnectionsAreCounted'
    BY <2>1 DEF Inv, ConnectionsAreCounted, At
  <2>5. QED
    BY <2>1, <2>2, <2>3, <2>4 DEF Inv
<1>6. QED
  BY <1>1, <1>2, <1>3, <1>4, <1>5 DEF Next

THEOREM InvHolds == Spec => []Inv
  BY InvInit, InvNext, PTL DEF Spec

LEMMA InvTyped == Inv => TypeOK
<1> SUFFICES ASSUME Inv PROVE TypeOK
  OBVIOUS
<1>1. /\ emitted \in Nat /\ emitted <= MaxEvents /\ MaxEvents \in Nat
      /\ pending \in {0, emitted} /\ Len(log) \in Nat /\ Len(log) <= emitted
      /\ childFrom \in Nat /\ childFrom <= emitted + 1 /\ lost \subseteq 1 .. emitted
  BY AttachAssumption DEF Inv, ChainOk
<1>2. {emitted, pending, Len(log)} \subseteq 0 .. MaxEvents
  BY <1>1
<1>3. childFrom \in 0 .. (MaxEvents + 1) /\ lost \subseteq 1 .. MaxEvents
  BY <1>1
<1>4. connected \in 0 .. Cardinality(Clients)
  <2> DEFINE open == {c \in Clients : ~At(c, "out")}
  <2>1. open \subseteq Clients /\ connected = Cardinality(open)
    BY DEF Inv, ConnectionsAreCounted
  <2> HIDE DEF open
  <2>2. Cardinality(open) <= Cardinality(Clients) /\ IsFiniteSet(open)
    BY <2>1, AttachAssumption, FS_Subset
  <2>3. Cardinality(open) \in Nat /\ Cardinality(Clients) \in Nat
    BY <2>2, AttachAssumption, FS_CardinalityType
  <2>4. QED
    BY <2>1, <2>2, <2>3
<1>5. senders \subseteq {First}
  BY DEF Inv, ChainOk
<1>6. QED
  BY <1>2, <1>3, <1>4, <1>5 DEF TypeOK, Inv, ChainOk

LEMMA InvExact == Inv => StreamIsExact
<1> SUFFICES ASSUME Inv PROVE StreamIsExact
  OBVIOUS
<1>1. ASSUME NEW c \in Clients
      PROVE  /\ ShownOk(World, session[c]) /\ session[c].job \in Jobs
             /\ World.lost = lost /\ World.emitted = emitted /\ World.childFrom = childFrom
  <2>1. SessionOk(World, session[c]) /\ session[c] \in Sessions /\ ChainOk
    BY SessionOfInv
  <2>2. QED
    BY <2>1, SessionTypes, WorldIsOne DEF SessionOk
<1>2. EventsAreShownOnce
  BY <1>1 DEF EventsAreShownOnce, ShownOk, Once, Guarded
<1>3. NothingIsSkipped
  <2>1. SUFFICES ASSUME NEW c \in Clients, session[c].overlap <= GuardCapacity,
                        NEW e \in 1 .. emitted, session[c].job = First \/ Owner(e) = Child,
                        NEW a \in ToSet(session[c].shown), a < e,
                        NEW b \in ToSet(session[c].shown), b > e,
                        e \notin lost
                 PROVE  e \in ToSet(session[c].shown)
    BY DEF NothingIsSkipped
  <2>2. InStream(World, session[c].job, e)
    BY <1>1, <2>1 DEF InStream, Owner, First, Child
  <2>3. e \in Due(World, session[c])
    BY <1>1, <2>1, <2>2 DEF Due
  <2>4. b \in 1 .. emitted /\ emitted \in Nat
    BY <1>1, AttachAssumption DEF ShownOk, Inv, ChainOk
  <2>5. e < b
    BY <2>1, <2>4
  <2>6. NoGap(World, session[c])
    BY <1>1, <2>1 DEF ShownOk, Guarded
  <2>7. QED
    BY <2>1, <2>3, <2>5, <2>6 DEF NoGap
<1>4. QED
  BY <1>2, <1>3, InvTyped DEF StreamIsExact, Inv

\* What a viewer is shown, however the subscription, the read of the log, the events and
\* the crashes interleave: no event twice, in their order, and none left out, as long as
\* no more events than the guard remembers are logged between the subscription and the
\* read; and the count of connections is right on every path that ends one (attach.rs,
\* serve_client).
THEOREM StreamsAreExact == Spec => []StreamIsExact
  BY InvHolds, InvExact, PTL

\* A chain that runs is controlled by the name it was started with, whatever the record
\* that control() loaded a moment before says: from its first step to its last the sender
\* of that name, and no other, is registered.
THEOREM ChainsAreControllable == Spec => []RunningChainIsControllable
<1>1. Inv => RunningChainIsControllable
  <2>1. Inv /\ driver = "running" => senders = {First}
    BY DEF Inv, ChainOk
  <2>2. QED
    BY <2>1 DEF RunningChainIsControllable, ControlAnswer
<1>2. QED
  BY <1>1, InvHolds, PTL

-----------------------------------------------------------------------------
(* The wire: any messages with texts of any length.                        *)

Chars == Pairs \cup Plain

TextBytes == Plain \cup {"\\", "n", "r", "lead", "tail"}

LEMMA EscapedIs ==
    ASSUME NEW c \in Chars
    PROVE  /\ Escaped(c) \in Seq(TextBytes)
           /\ c \in Plain => Escaped(c) = <<c>>
           /\ c = "lf" => Escaped(c) = <<"\\", "n">>
           /\ c = "cr" => Escaped(c) = <<"\\", "r">>
           /\ c = "wide" => Escaped(c) = <<"lead", "tail">>
<1>1. CASE c \in Plain
  <2>1. Escaped(c) = <<c>> /\ c \in TextBytes
    BY <1>1 DEF Escaped, Plain, TextBytes
  <2>2. <<c>> \in Seq(TextBytes) /\ c \notin Pairs
    BY <1>1, <2>1 DEF Plain, Pairs
  <2>3. QED
    BY <2>1, <2>2 DEF Pairs
<1>2. CASE c = "lf"
  BY <1>2 DEF Escaped, TextBytes, Plain
<1>3. CASE c = "cr"
  BY <1>3 DEF Escaped, TextBytes, Plain
<1>4. CASE c = "wide"
  BY <1>4 DEF Escaped, TextBytes, Plain
<1>5. QED
  BY <1>1, <1>2, <1>3, <1>4 DEF Chars, Pairs

LEMMA EscapedStep ==
    ASSUME NEW t \in Seq(Chars), NEW c \in Chars
    PROVE  EscapedText(Append(t, c)) = EscapedText(t) \o Escaped(c)
<1> DEFINE parts == [i \in DOMAIN t |-> Escaped(t[i])]
           u == Append(t, c)
           more == [i \in DOMAIN u |-> Escaped(u[i])]
<1>1. DOMAIN t = 1 .. Len(t) /\ Len(t) \in Nat /\ \A i \in 1 .. Len(t) : t[i] \in Chars
  BY LenProperties, ElementOfSeq
<1>2. u \in Seq(Chars) /\ DOMAIN u = 1 .. Len(t) + 1 /\ u[Len(t) + 1] = c
      /\ \A i \in 1 .. Len(t) : u[i] = t[i]
  BY AppendProperties, LenProperties
<1>3. Escaped(c) \in Seq(TextBytes) /\ \A i \in 1 .. Len(t) : Escaped(t[i]) \in Seq(TextBytes)
  BY <1>1, EscapedIs
<1>4. parts \in Seq(Seq(TextBytes)) /\ Len(parts) = Len(t)
  BY <1>1, <1>3
<1>5. more = Append(parts, Escaped(c))
  <2> DEFINE more2 == Append(parts, Escaped(c))
  <2>1. more2 \in Seq(Seq(TextBytes)) /\ Len(more2) = Len(t) + 1 /\ more2[Len(t) + 1] = Escaped(c)
        /\ \A i \in 1 .. Len(t) : more2[i] = parts[i]
    BY <1>3, <1>4, AppendProperties
  <2>2. DOMAIN more2 = 1 .. Len(t) + 1 /\ more2 = [i \in 1 .. Len(t) + 1 |-> more2[i]]
    BY <2>1, <1>1, LenProperties
  <2> HIDE DEF more2
  <2>3. \A i \in 1 .. Len(t) + 1 : more2[i] = Escaped(u[i])
    <3>1. ASSUME NEW i \in 1 .. Len(t) PROVE more2[i] = Escaped(u[i])
      BY <2>1, <1>1, <1>2
    <3>2. QED
      BY <3>1, <2>1, <1>1, <1>2
  <2> HIDE DEF u
  <2>4. more2 = more
    BY <2>2, <2>3, <1>2
  <2>5. QED
    BY <2>4 DEF more2
<1>6. FlattenSeq(Append(parts, Escaped(c))) = FlattenSeq(parts) \o Escaped(c)
  BY <1>3, <1>4, FlattenAppend
<1>7. QED
  BY <1>5, <1>6 DEF EscapedText

LEMMA EscapedEmpty == EscapedText(<<>>) = <<>>
<1>1. [i \in DOMAIN <<>> |-> Escaped(<<>>[i])] = <<>>
  OBVIOUS
<1>2. QED
  BY <1>1, FlattenEmpty DEF EscapedText

\* The escaped form of a text holds no control character and no half of a character.
LEMMA EscapedTextIsText ==
    ASSUME NEW t \in Seq(Chars)
    PROVE  EscapedText(t) \in Seq(TextBytes) /\ IsText(EscapedText(t))
<1> DEFINE T == {u \in Seq(Chars) : EscapedText(u) \in Seq(TextBytes) /\ IsText(EscapedText(u))}
<1>1. <<>> \in T
  <2>1. IsText(<<>>)
    BY DEF IsText
  <2>2. QED
    BY <2>1, EscapedEmpty, EmptySeq
<1>2. ASSUME NEW u \in Seq(Chars), NEW c \in Chars, u \in T PROVE Append(u, c) \in T
  <2> DEFINE e == EscapedText(u)
             d == Escaped(c)
  <2>1. EscapedText(Append(u, c)) = e \o d /\ e \in Seq(TextBytes) /\ d \in Seq(TextBytes) /\ IsText(e)
    BY <1>2, EscapedStep, EscapedIs
  <2>2. /\ e \o d \in Seq(TextBytes) /\ Len(e \o d) = Len(e) + Len(d)
        /\ Len(e) \in Nat /\ Len(d) \in Nat /\ DOMAIN (e \o d) = 1 .. Len(e) + Len(d)
        /\ DOMAIN e = 1 .. Len(e)
        /\ \A i \in 1 .. Len(e) + Len(d) : (e \o d)[i] = IF i <= Len(e) THEN e[i] ELSE d[i - Len(e)]
    BY <2>1, ConcatProperties, LenProperties
  <2>3. \/ Len(d) = 1 /\ d[1] \notin {"lead", "tail"}
        \/ Len(d) = 2 /\ d[1] \notin {"lead", "tail"} /\ d[2] \notin {"lead", "tail"}
        \/ Len(d) = 2 /\ d[1] = "lead" /\ d[2] = "tail"
    BY EscapedIs DEF Chars, Pairs, Plain
  <2>4. IsText(e \o d)
    <3> HIDE DEF e, d
    <3> DEFINE f == e \o d
    <3>1. \A i \in 1 .. Len(e) : f[i] = e[i] /\ i <= Len(e) + Len(d)
      BY <2>2
    <3>2. f[Len(e) + 1] = d[1] /\ (Len(d) = 2 => f[Len(e) + 2] = d[2])
      BY <2>2, <2>3
    <3>3. \A i \in 1 .. Len(e) : /\ e[i] = "lead" => i < Len(e) /\ e[i + 1] = "tail"
                                 /\ e[i] = "tail" => i > 1 /\ e[i - 1] = "lead"
      BY <2>1, <2>2 DEF IsText
    <3>4. Len(f) = Len(e) + Len(d) /\ DOMAIN f = 1 .. Len(e) + Len(d)
      BY <2>2
    <3> HIDE DEF f
    <3>5. SUFFICES ASSUME NEW i \in 1 .. Len(e) + Len(d)
                   PROVE  /\ f[i] = "lead" => i < Len(e) + Len(d) /\ f[i + 1] = "tail"
                          /\ f[i] = "tail" => i > 1 /\ f[i - 1] = "lead"
      BY <3>4 DEF IsText, f
    <3>6. CASE i <= Len(e)
      <4>1. i \in 1 .. Len(e) /\ f[i] = e[i]
        BY <3>1, <3>6
      <4>2. e[i] = "lead" => f[i + 1] = e[i + 1]
        BY <4>1, <3>1, <3>3
      <4>3. e[i] = "tail" => f[i - 1] = e[i - 1]
        BY <4>1, <3>1, <3>3
      <4>4. QED
        BY <4>1, <4>2, <4>3, <3>3, <2>2
    <3>7. CASE i = Len(e) + 1
      <4>1. f[i] = d[1]
        BY <3>7, <3>2
      <4>2. Len(d) = 2 => f[i + 1] = d[2] /\ i < Len(e) + Len(d)
        <5>1. i + 1 = Len(e) + 2
          BY <3>7, <2>2
        <5>2. QED
          BY <5>1, <3>2, <3>7, <2>2
      <4>3. QED
        BY <4>1, <4>2, <2>3
    <3>8. CASE i = Len(e) + 2 /\ Len(d) = 2
      <4>1. f[i] = d[2] /\ f[i - 1] = d[1] /\ i > 1
        BY <3>8, <3>2, <2>2
      <4>2. QED
        BY <4>1, <2>3, <3>8
    <3>9. i <= Len(e) \/ i = Len(e) + 1 \/ (i = Len(e) + 2 /\ Len(d) = 2)
      <4>1. Len(d) \in {1, 2}
        BY <2>3
      <4>2. i \in Nat /\ i <= Len(e) + Len(d) /\ Len(e) \in Nat /\ Len(d) \in Nat
        BY <2>2
      <4>3. CASE Len(d) = 1
        BY <4>2, <4>3
      <4>4. CASE Len(d) = 2
        BY <4>2, <4>4
      <4>5. QED
        BY <4>1, <4>3, <4>4
    <3>10. QED
      BY <3>6, <3>7, <3>8, <3>9
  <2>5. QED
    BY <2>1, <2>2, <2>4, AppendProperties
<1> HIDE DEF T
<1>3. \A u \in Seq(Chars) : u \in T
  BY <1>1, <1>2, SeqInduction
<1>4. QED
  BY <1>3 DEF T

-----------------------------------------------------------------------------
(* A text is read back as it was written.                                  *)

TextStates == [text : Seq(Chars), half : {"none", "\\", "lead"}, valid : BOOLEAN]

LEMMA TextByteType ==
    ASSUME NEW s \in TextStates, NEW b \in TextBytes
    PROVE  TextByte(s, b) \in TextStates
<1> DEFINE whole == {c \in Pairs : Escaped(c) = <<s.half, b>>}
<1>1. whole \subseteq Chars
  BY DEF Chars
<1>2. whole # {} => (CHOOSE c \in whole : TRUE) \in Chars
  BY <1>1
<1>3. s.text \in Seq(Chars) /\ (b \in Plain => b \in Chars)
  BY DEF TextStates, Chars
<1>4. CASE s.half # "none" /\ whole # {}
  <2>1. Append(s.text, CHOOSE c \in whole : TRUE) \in Seq(Chars)
    BY <1>2, <1>3, <1>4
  <2>2. TextByte(s, b) = [s EXCEPT !.text = Append(@, CHOOSE c \in whole : TRUE), !.half = "none"]
    BY <1>4 DEF TextByte
  <2> HIDE DEF whole
  <2>3. QED
    BY <2>1, <2>2 DEF TextStates
<1>5. CASE ~(s.half # "none" /\ whole # {})
  <2>1. Append(s.text, b) \in Seq(Chars) \/ b \notin Plain
    BY <1>3
  <2>2. TextByte(s, b) =
          IF s.half = "none" /\ b \in {"\\", "lead"} THEN [s EXCEPT !.half = b]
          ELSE IF s.half = "none" /\ b \in Plain THEN [s EXCEPT !.text = Append(@, b)]
          ELSE [s EXCEPT !.half = "none", !.valid = FALSE]
    BY <1>5 DEF TextByte, Plain
  <2>3. QED
    BY <2>1, <2>2 DEF TextStates
<1>6. QED
  BY <1>4, <1>5

TextStep == [p \in TextStates \X TextBytes |-> TextByte(p[1], p[2])]

LEMMA TextFolds ==
    ASSUME NEW s \in Seq(TextBytes)
    PROVE  Folding(TextStates, TextStep, NoText, s, FoldLeft(TextByte, NoText, s))
<1> DEFINE N == Len(s)
           Of(f) == [d \in SUBSET (DOMAIN s) |->
                       IF d = {} THEN NoText ELSE TextByte(f[d \ {Max(d)}], s[Max(d)])]
           iter == CHOOSE f : f = Of(f)
<1>1. TextStep \in [TextStates \X TextBytes -> TextStates]
  BY TextByteType DEF TextStep
<1>2. NoText \in TextStates
  BY EmptySeq DEF NoText, TextStates
<1>3. N \in Nat /\ DOMAIN s = 1 .. N /\ (\A i \in 1 .. N : s[i] \in TextBytes)
      /\ s \in [1 .. N -> TextBytes]
  BY LenProperties, ElementOfSeq
<1>4. \E f : f = Of(f)
  <2>1. PICK g \in [SUBSET (1 .. N) -> TextStates] :
          \A d \in SUBSET (1 .. N) :
             g[d] = IF d = {} THEN NoText ELSE TextStep[<<g[d \ {Max(d)}], s[Max(d)]>>]
    <3>1. \E g \in [SUBSET (1 .. N) -> TextStates] : FoldFunctionOf(TextStep, NoText, s, N, g)
      BY ONLY <1>1, <1>2, <1>3, FoldExists
    <3>2. QED
      BY <3>1 DEF FoldFunctionOf
  <2>2. ASSUME NEW d \in SUBSET (1 .. N)
        PROVE  g[d] = IF d = {} THEN NoText ELSE TextByte(g[d \ {Max(d)}], s[Max(d)])
    <3>1. CASE d = {}
      BY <2>1, <3>1
    <3>2. CASE d # {}
      <4>1. Max(d) \in 1 .. N
        BY <1>3, <3>2, MaxIsGreatest
      <4>2. g[d \ {Max(d)}] \in TextStates /\ s[Max(d)] \in TextBytes
        BY <1>3, <4>1
      <4>3. TextStep[<<g[d \ {Max(d)}], s[Max(d)]>>] = TextByte(g[d \ {Max(d)}], s[Max(d)])
        BY <4>2 DEF TextStep
      <4>4. QED
        BY <2>1, <3>2, <4>3
    <3>3. QED
      BY <3>1, <3>2
  <2>3. g = [d \in SUBSET (1 .. N) |-> g[d]]
    OBVIOUS
  <2>4. g = Of(g)
    BY <1>3, <2>2, <2>3
  <2>5. QED
    BY <2>4
<1>5. iter = Of(iter)
  BY <1>4
<1>6. FoldLeft(TextByte, NoText, s) = iter[1 .. N]
  BY <1>3 DEF FoldLeft, MapThenFoldSet
<1> HIDE DEF iter
<1>7. \A d \in SUBSET (1 .. N) :
        iter[d] = IF d = {} THEN NoText ELSE TextByte(iter[d \ {Max(d)}], s[Max(d)])
  BY <1>3, <1>5
<1>8. iter[1 .. 0] = NoText
  <2>1. 1 .. 0 = {} /\ 1 .. 0 \in SUBSET (1 .. N)
    OBVIOUS
  <2>2. QED
    BY <1>7, <2>1
<1>9. ASSUME NEW n \in 1 .. N, iter[1 .. n - 1] \in TextStates
      PROVE  iter[1 .. n] = TextStep[<<iter[1 .. n - 1], s[n]>>]
  <2>1. Max(1 .. n) = n /\ (1 .. n) \ {n} = 1 .. n - 1
    BY MaxOfInterval
  <2>2. 1 .. n \in SUBSET (1 .. N) /\ 1 .. n # {}
    <3>1. n \in 1 .. n /\ \A i \in 1 .. n : i \in 1 .. N
      BY <1>3
    <3>2. QED
      BY <3>1
  <2>3. iter[1 .. n] = TextByte(iter[1 .. n - 1], s[n])
    BY <1>7, <2>1, <2>2
  <2>4. QED
    BY <1>3, <1>9, <2>3 DEF TextStep
<1>10. Folding(TextStates, TextStep, NoText, s, iter[1 .. Len(s)])
  <2>1. \A n \in 1 .. Len(s) : iter[1 .. n - 1] \in TextStates
                               => iter[1 .. n] = TextStep[<<iter[1 .. n - 1], s[n]>>]
    BY <1>9
  <2>2. QED
    BY ONLY <1>1, <1>2, <1>8, <2>1, ChosenFolds
<1>11. QED
  BY <1>6, <1>10

\* What has been read of a text.
TextRead(s) == FoldLeft(TextByte, NoText, s)

LEMMA TextAppend ==
    ASSUME NEW s \in Seq(TextBytes), NEW b \in TextBytes
    PROVE  TextRead(Append(s, b)) = TextByte(TextRead(s), b)
<1>1. Append(s, b) \in Seq(TextBytes)
  BY AppendProperties
<1>2. /\ Folding(TextStates, TextStep, NoText, s, TextRead(s))
      /\ Folding(TextStates, TextStep, NoText, Append(s, b), TextRead(Append(s, b)))
  BY <1>1, TextFolds DEF TextRead
<1>3. TextRead(Append(s, b)) = TextStep[<<TextRead(s), b>>]
  BY <1>2, FoldingAppend
<1>4. TextRead(s) \in TextStates
  BY <1>2, FoldingType
<1>5. QED
  BY <1>3, <1>4 DEF TextStep

LEMMA TextEmpty == TextRead(<<>>) = NoText
<1>1. <<>> \in Seq(TextBytes)
  BY EmptySeq
<1>2. Folding(TextStates, TextStep, NoText, <<>>, TextRead(<<>>))
  BY <1>1, TextFolds DEF TextRead
<1>3. QED
  BY <1>2, FoldingEmpty

LEMMA AppendTwo ==
    ASSUME NEW E, NEW s \in Seq(E), NEW a \in E, NEW b \in E
    PROVE  /\ s \o <<a>> = Append(s, a)
           /\ s \o <<a, b>> = Append(Append(s, a), b)
<1>1. <<a>> \in Seq(E) /\ <<b>> \in Seq(E) /\ <<a, b>> = <<a>> \o <<b>>
  <2>1. <<a>> \in Seq(E) /\ <<b>> \in Seq(E) /\ <<a, b>> \in Seq(E)
    OBVIOUS
  <2>2. /\ <<a>> \o <<b>> \in Seq(E) /\ Len(<<a>> \o <<b>>) = 2
        /\ (<<a>> \o <<b>>)[1] = a /\ (<<a>> \o <<b>>)[2] = b
    BY <2>1, ConcatProperties
  <2> DEFINE l == <<a, b>>
             r == <<a>> \o <<b>>
  <2>3. Len(l) = 2 /\ \A i \in 1 .. Len(l) : l[i] = r[i]
    BY <2>2
  <2>4. l \in Seq(E) /\ r \in Seq(E) /\ Len(l) = Len(r)
    BY <2>1, <2>2, <2>3
  <2> HIDE DEF l, r
  <2>5. l = r
    BY <2>3, <2>4, SeqEqual
  <2>6. QED
    BY <2>1, <2>5 DEF l, r
<1>2. Append(s, a) \in Seq(E) /\ Append(s, a) = s \o <<a>>
  BY AppendProperties, AppendIsConcat
<1>3. Append(Append(s, a), b) = (s \o <<a>>) \o <<b>>
  BY <1>2, AppendIsConcat
<1>4. QED
  BY <1>1, <1>2, <1>3, ConcatAssociative

LEMMA TextByteFirst ==
    ASSUME NEW t, NEW b
    PROVE  LET s == [text |-> t, half |-> "none", valid |-> TRUE]
           IN  /\ b \in {"\\", "lead"} => TextByte(s, b) = [text |-> t, half |-> b, valid |-> TRUE]
               /\ b \in Plain =>
                    TextByte(s, b) = [text |-> Append(t, b), half |-> "none", valid |-> TRUE]
<1> DEFINE s == [text |-> t, half |-> "none", valid |-> TRUE]
<1>1. s.half = "none" /\ s.text = t /\ s.valid = TRUE
  OBVIOUS
<1>2. CASE b \in {"\\", "lead"}
  <2>1. b \notin Plain
    BY <1>2 DEF Plain
  <2>2. TextByte(s, b) = [s EXCEPT !.half = b]
    <3> HIDE DEF s
    <3>1. QED
      BY <1>1, <1>2, <2>1 DEF TextByte
  <2>3. QED
    BY <1>2, <2>1, <2>2
<1>3. CASE b \in Plain
  <2>1. b \notin {"\\", "lead"}
    BY <1>3 DEF Plain
  <2>2. TextByte(s, b) = [s EXCEPT !.text = Append(@, b)]
    <3> HIDE DEF s
    <3>1. QED
      BY <1>1, <1>3, <2>1 DEF TextByte
  <2>3. QED
    BY <1>3, <2>1, <2>2
<1>4. QED
  BY <1>2, <1>3

\* What was read and then a character of the text: the character.
LEMMA TextReadsCharacter ==
    ASSUME NEW s \in Seq(TextBytes), NEW t \in Seq(Chars), NEW c \in Chars,
           TextRead(s) = [text |-> t, half |-> "none", valid |-> TRUE]
    PROVE  TextRead(s \o Escaped(c)) = [text |-> Append(t, c), half |-> "none", valid |-> TRUE]
<1>1. CASE c \in Plain
  <2>1. Escaped(c) = <<c>> /\ c \in TextBytes
    BY <1>1, EscapedIs DEF TextBytes
  <2>2. TextRead(s \o Escaped(c)) = TextByte(TextRead(s), c)
    BY <2>1, AppendTwo, TextAppend, ZenonT(60)
  <2>3. c \notin {"\\", "lead"}
    BY <1>1 DEF Plain
  <2>4. QED
    BY <1>1, <2>1, <2>2, TextByteFirst
<1>2. ASSUME NEW x \in {"\\", "lead"}, NEW y \in {"n", "r", "tail"}, c \in Pairs,
             Escaped(c) = <<x, y>>, \A d \in Pairs : Escaped(d) = <<x, y>> => d = c
      PROVE  TextRead(s \o Escaped(c)) = [text |-> Append(t, c), half |-> "none", valid |-> TRUE]
  <2> DEFINE half == [text |-> t, half |-> x, valid |-> TRUE]
  <2>1. x \in TextBytes /\ y \in TextBytes /\ Append(s, x) \in Seq(TextBytes)
    BY AppendProperties DEF TextBytes
  <2>2. TextRead(Append(s, x)) = half
    <3>1. TextRead(Append(s, x)) = TextByte([text |-> t, half |-> "none", valid |-> TRUE], x)
      BY <2>1, TextAppend
    <3>2. QED
      BY <3>1, TextByteFirst
  <2>3. TextRead(s \o Escaped(c)) = TextByte(half, y)
    <3>1. s \o Escaped(c) = Append(Append(s, x), y)
      BY <1>2, <2>1, AppendTwo
    <3>2. TextRead(Append(Append(s, x), y)) = TextByte(TextRead(Append(s, x)), y)
      BY <2>1, TextAppend
    <3>3. QED
      BY <3>1, <3>2, <2>2
  <2>4. {d \in Pairs : Escaped(d) = <<half.half, y>>} = {c}
    BY <1>2
  <2>5. half.half # "none" /\ (CHOOSE d \in {c} : TRUE) = c
    OBVIOUS
  <2>6. TextByte(half, y) = [half EXCEPT !.text = Append(@, c), !.half = "none"]
    <3> HIDE DEF half
    <3>1. QED
      BY <2>4, <2>5 DEF TextByte
  <2>7. QED
    BY <2>3, <2>6
<1>3. /\ Escaped("lf") = <<"\\", "n">> /\ Escaped("cr") = <<"\\", "r">>
      /\ Escaped("wide") = <<"lead", "tail">>
  BY DEF Escaped
<1>4. CASE c = "lf"
  <2>1. \A d \in Pairs : Escaped(d) = <<"\\", "n">> => d = "lf"
    BY <1>3 DEF Pairs
  <2>2. QED
    BY <1>2, <1>3, <1>4, <2>1 DEF Pairs
<1>5. CASE c = "cr"
  <2>1. \A d \in Pairs : Escaped(d) = <<"\\", "r">> => d = "cr"
    BY <1>3 DEF Pairs
  <2>2. QED
    BY <1>2, <1>3, <1>5, <2>1 DEF Pairs
<1>6. CASE c = "wide"
  <2>1. \A d \in Pairs : Escaped(d) = <<"lead", "tail">> => d = "wide"
    BY <1>3 DEF Pairs
  <2>2. QED
    BY <1>2, <1>3, <1>6, <2>1 DEF Pairs
<1>7. QED
  BY <1>1, <1>4, <1>5, <1>6 DEF Chars, Pairs

\* A text of any length is read back as it was written.
LEMMA TextsRoundTrip ==
    ASSUME NEW t \in Seq(Chars)
    PROVE  Characters(EscapedText(t)) = [valid |-> TRUE, text |-> t]
<1> DEFINE T == {u \in Seq(Chars) :
                   TextRead(EscapedText(u)) = [text |-> u, half |-> "none", valid |-> TRUE]}
<1>1. <<>> \in T
  <2>1. TextRead(EscapedText(<<>>)) = [text |-> <<>>, half |-> "none", valid |-> TRUE]
    BY EscapedEmpty, TextEmpty DEF NoText
  <2>2. QED
    BY <2>1, EmptySeq
<1>2. ASSUME NEW u \in Seq(Chars), NEW c \in Chars, u \in T PROVE Append(u, c) \in T
  <2>1. EscapedText(u) \in Seq(TextBytes) /\ Append(u, c) \in Seq(Chars)
    BY EscapedTextIsText, AppendProperties
  <2>2. TextRead(EscapedText(u) \o Escaped(c)) = [text |-> Append(u, c), half |-> "none", valid |-> TRUE]
    BY <1>2, <2>1, TextReadsCharacter
  <2>3. QED
    BY <2>1, <2>2, EscapedStep
<1>3. \A u \in Seq(Chars) : u \in T
  <2> HIDE DEF T
  <2>1. QED
    BY <1>1, <1>2, SeqInduction
<1>4. TextRead(EscapedText(t)) = [text |-> t, half |-> "none", valid |-> TRUE]
  BY <1>3
<1>5. QED
  <2> DEFINE r == FoldLeft(TextByte, NoText, EscapedText(t))
  <2>1. r.valid = TRUE /\ r.half = "none" /\ r.text = t
    BY <1>4 DEF TextRead
  <2>2. Characters(EscapedText(t)) = [valid |-> r.valid /\ r.half = "none", text |-> r.text]
    BY DEF Characters
  <2> HIDE DEF r
  <2>3. (r.valid /\ r.half = "none") = TRUE
    BY <2>1
  <2>4. QED
    BY <2>1, <2>2, <2>3

-----------------------------------------------------------------------------
(* Frames.                                                                 *)

Kinds == RequestKinds \cup ResponseKinds \cup {"LATER"}

Messages == [version : Versions, kind : Kinds, text : Seq(Chars)]

FrameBytes == TextBytes \cup Versions \cup Kinds

Bytes == FrameBytes \cup {"lf"}

StreamBytes == Bytes \cup {"cut"}

\* A message without its line feed.
Frame(m) == <<m.version, m.kind>> \o EscapedText(m.text)

LEMMA BodyIs ==
    ASSUME NEW m \in Messages
    PROVE  /\ Frame(m) \in Seq(FrameBytes) /\ Len(Frame(m)) >= 2
           /\ Frame(m)[1] = m.version /\ Frame(m)[2] = m.kind
           /\ SubSeq(Frame(m), 3, Len(Frame(m))) = EscapedText(m.text)
           /\ IsText(Frame(m))
<1> DEFINE h == <<m.version, m.kind>>
           e == EscapedText(m.text)
           f == h \o e
<1>1. e \in Seq(TextBytes) /\ IsText(e)
  BY EscapedTextIsText DEF Messages
<1>2. h \in Seq(FrameBytes) /\ e \in Seq(FrameBytes) /\ Len(h) = 2
  <2>1. m.version \in FrameBytes /\ m.kind \in FrameBytes
    BY DEF Messages, FrameBytes
  <2>2. TextBytes \subseteq FrameBytes
    BY DEF FrameBytes
  <2>3. QED
    BY <1>1, <2>1, <2>2, SeqMonotonic
<1>3. /\ f \in Seq(FrameBytes) /\ Len(f) = 2 + Len(e) /\ Len(e) \in Nat /\ DOMAIN e = 1 .. Len(e)
      /\ \A i \in 1 .. 2 + Len(e) : f[i] = IF i <= 2 THEN h[i] ELSE e[i - 2]
  BY <1>2, ConcatProperties, LenProperties
<1>4. f[1] = m.version /\ f[2] = m.kind
  BY <1>3
<1>5. \A i \in 1 .. Len(e) : f[i + 2] = e[i]
  <2>1. ASSUME NEW i \in 1 .. Len(e) PROVE f[i + 2] = e[i]
    <3>1. i + 2 \in 1 .. 2 + Len(e) /\ ~(i + 2 <= 2) /\ i + 2 - 2 = i
      BY <1>3
    <3> HIDE DEF f
    <3>2. QED
      BY <1>3, <3>1
  <2>2. QED
    BY <2>1
<1>6. SubSeq(f, 3, Len(f)) = e
  <2> DEFINE t == SubSeq(f, 3, Len(f))
  <2>1. \A i \in 3 .. Len(f) : f[i] \in FrameBytes
    BY <1>3, ElementOfSeq
  <2> HIDE DEF f
  <2>2. 3 \in Int /\ Len(f) \in Int
    BY <1>3
  <2>3. /\ t \in Seq(FrameBytes)
        /\ Len(t) = IF 3 <= Len(f) THEN Len(f) - 3 + 1 ELSE 0
        /\ \A i \in 1 .. Len(f) - 3 + 1 : t[i] = f[3 + i - 1]
    BY <2>1, <2>2, SubSeqProperties
  <2>4. Len(t) = Len(e)
    BY <2>3, <1>3
  <2>5. \A i \in 1 .. Len(t) : t[i] = e[i]
    <3>1. ASSUME NEW i \in 1 .. Len(e) PROVE t[i] = e[i]
      <4>1. i \in 1 .. Len(f) - 3 + 1 /\ 3 + i - 1 = i + 2
        BY <1>3
      <4>2. QED
        BY <4>1, <2>3, <1>5
    <3>2. QED
      BY <3>1, <2>4
  <2> HIDE DEF t, e
  <2>6. t = e
    BY <2>3, <2>4, <2>5, <1>2, SeqEqual
  <2>7. QED
    BY <2>6 DEF t
<1>7. IsText(f)
  <2>1. f[1] \notin {"lead", "tail"} /\ f[2] \notin {"lead", "tail"}
    BY <1>4 DEF Messages, Versions, Kinds, RequestKinds, ResponseKinds
  <2>2. \A i \in 1 .. Len(e) : /\ e[i] = "lead" => i < Len(e) /\ e[i + 1] = "tail"
                               /\ e[i] = "tail" => i > 1 /\ e[i - 1] = "lead"
    BY <1>1, <1>3 DEF IsText
  <2>3. DOMAIN f = 1 .. 2 + Len(e)
    BY <1>3, LenProperties
  <2> HIDE DEF f
  <2>4. ASSUME NEW i \in 1 .. 2 + Len(e)
        PROVE  /\ f[i] = "lead" => i < Len(f) /\ f[i + 1] = "tail"
               /\ f[i] = "tail" => i > 1 /\ f[i - 1] = "lead"
    <3>1. CASE i <= 2
      <4>1. i = 1 \/ i = 2
        BY <3>1, <1>3
      <4>2. QED
        BY <4>1, <2>1
    <3>2. CASE i > 2
      <4> DEFINE k == i - 2
      <4>1. k \in 1 .. Len(e) /\ i = k + 2
        BY <3>2, <1>3
      <4>2. f[i] = e[k]
        BY <4>1, <1>5
      <4>3. k < Len(e) => f[i + 1] = e[k + 1]
        <5>1. k < Len(e) => k + 1 \in 1 .. Len(e) /\ (k + 1) + 2 = i + 1
          BY <4>1, <1>3
        <5>2. QED
          BY <5>1, <1>5
      <4>4. k > 1 => f[i - 1] = e[k - 1]
        <5>1. k > 1 => k - 1 \in 1 .. Len(e) /\ (k - 1) + 2 = i - 1
          BY <4>1, <1>3
        <5>2. QED
          BY <5>1, <1>5
      <4>5. (k < Len(e) => i < Len(f)) /\ (k > 1 => i > 1)
        BY <4>1, <1>3
      <4> HIDE DEF k
      <4>6. QED
        BY <4>1, <4>2, <4>3, <4>4, <4>5, <2>2
    <3>3. QED
      BY <3>1, <3>2, <1>3
  <2>5. QED
    BY <2>3, <2>4 DEF IsText
<1>8. Len(f) >= 2
  BY <1>3
<1>9. QED
  BY <1>3, <1>4, <1>6, <1>7, <1>8 DEF Frame

LEMMA EncodeIs ==
    ASSUME NEW m \in Messages
    PROVE  /\ Encode(m) \in Seq(Bytes) /\ Len(Encode(m)) = Len(Frame(m)) + 1
           /\ \A i \in 1 .. Len(Frame(m)) : Encode(m)[i] = Frame(m)[i]
           /\ Encode(m)[Len(Frame(m)) + 1] = "lf"
           /\ Len(Frame(m)) \in Nat
           /\ Fits(m) <=> Len(Frame(m)) <= MaxMessageBytes
<1>1. Frame(m) \in Seq(Bytes) /\ "lf" \in Bytes
  BY BodyIs, SeqMonotonic, FrameBytes \subseteq Bytes DEF Bytes
<1>2. Encode(m) = Append(Frame(m), "lf")
  BY <1>1, AppendIsConcat DEF Encode, Frame
<1>3. Len(Frame(m)) \in Nat
  BY <1>1, LenProperties
<1>4. QED
  BY <1>1, <1>2, <1>3, AppendProperties DEF Fits

\* A message is parsed as what it is.
LEMMA BodyParses ==
    ASSUME NEW m \in Messages, NEW kinds
    PROVE  Parse(Frame(m), kinds) = IF m.kind \in kinds THEN [ok |-> TRUE, message |-> m] ELSE [ok |-> FALSE]
<1> DEFINE body == Characters(EscapedText(m.text))
<1>1. body.valid = TRUE /\ body.text = m.text
  BY TextsRoundTrip DEF Messages
<1>2. Message(m.version, m.kind, m.text) = m
  BY DEF Message, Messages
<1>3. ~(Len(Frame(m)) < 2) /\ m.version \in Versions
  BY BodyIs, EncodeIs DEF Messages
<1> HIDE DEF body
<1>4. Parse(Frame(m), kinds) =
        IF m.version \in Versions /\ m.kind \in kinds /\ body.valid
        THEN [ok |-> TRUE, message |-> Message(m.version, m.kind, body.text)] ELSE [ok |-> FALSE]
  BY <1>3, BodyIs DEF Parse, body
<1>5. QED
  BY <1>1, <1>2, <1>3, <1>4

-----------------------------------------------------------------------------
(* Reading.                                                                *)

ReadStates == [frame : Seq(FrameBytes), frames : Seq(Seq(FrameBytes)),
               error : {"none", "FrameTooLong", "Encoding"}]

\* No byte of a frame is a carriage return: there is nothing to trim.
LEMMA TrimNothing ==
    ASSUME NEW f \in Seq(FrameBytes)
    PROVE  TrimCr(f) = f
<1>1. Len(f) \in Nat /\ DOMAIN f = 1 .. Len(f) /\ \A i \in 1 .. Len(f) : f[i] \in FrameBytes
  BY LenProperties, ElementOfSeq
<1>2. "cr" \notin FrameBytes
  BY DEF FrameBytes, TextBytes, Plain, Versions, Kinds, RequestKinds, ResponseKinds
<1>3. {i \in DOMAIN f : f[i] # "cr"} = 1 .. Len(f)
  BY <1>1, <1>2
<1>4. CASE Len(f) = 0
  <2>1. f = <<>> /\ 1 .. Len(f) = {}
    BY <1>4, EmptySeq
  <2>2. QED
    BY <2>1, <1>3 DEF TrimCr
<1>5. CASE Len(f) # 0
  <2>1. 1 .. Len(f) # {} /\ (CHOOSE i \in 1 .. Len(f) : \A k \in 1 .. Len(f) : k <= i) = Len(f)
    <3>1. Len(f) \in 1 .. Len(f) /\ \A k \in 1 .. Len(f) : k <= Len(f)
      BY <1>1, <1>5
    <3>2. ASSUME NEW i \in 1 .. Len(f), \A k \in 1 .. Len(f) : k <= i PROVE i = Len(f)
      <4>1. Len(f) <= i
        BY <3>1, <3>2
      <4>2. i \in Nat /\ i <= Len(f) /\ Len(f) \in Nat
        BY <1>1
      <4>3. QED
        BY ONLY <4>1, <4>2
    <3>3. QED
      BY <3>1, <3>2
  <2>2. TrimCr(f) = SubSeq(f, 1, Len(f))
    BY <2>1, <1>3 DEF TrimCr
  <2>3. QED
    BY <2>2, SubSeqFull
<1>6. QED
  BY <1>4, <1>5

LEMMA ReadByteIs ==
    ASSUME NEW s \in ReadStates, NEW b \in StreamBytes
    PROVE  /\ s.error # "none" => ReadByte(s, b) = s
           /\ s.error = "none" /\ b = "cut" =>
                ReadByte(s, b) = IF Len(s.frame) > MaxMessageBytes
                                 THEN [s EXCEPT !.error = "FrameTooLong"] ELSE s
           /\ s.error = "none" /\ b = "lf" =>
                ReadByte(s, b) = IF Len(s.frame) > MaxMessageBytes
                                 THEN [s EXCEPT !.error = "FrameTooLong"]
                                 ELSE IF ~IsText(s.frame) THEN [s EXCEPT !.error = "Encoding"]
                                 ELSE [s EXCEPT !.frame = <<>>, !.frames = Append(@, s.frame)]
           /\ s.error = "none" /\ b \in FrameBytes =>
                ReadByte(s, b) = [s EXCEPT !.frame = Append(@, b)]
<1>1. "cut" \notin FrameBytes /\ "lf" \notin FrameBytes
  BY DEF FrameBytes, TextBytes, Plain, Versions, Kinds, RequestKinds, ResponseKinds
<1>2. TrimCr(s.frame) = s.frame
  BY TrimNothing DEF ReadStates
<1>3. CASE s.error # "none"
  BY <1>3 DEF ReadByte
<1>4. CASE s.error = "none" /\ b = "cut"
  BY <1>1, <1>4 DEF ReadByte
<1>5. CASE s.error = "none" /\ b = "lf"
  BY <1>1, <1>2, <1>5 DEF ReadByte
<1>6. CASE s.error = "none" /\ b \in FrameBytes
  BY <1>1, <1>6 DEF ReadByte
<1>7. QED
  BY <1>3, <1>4, <1>5, <1>6

LEMMA ReadByteType ==
    ASSUME NEW s \in ReadStates, NEW b \in StreamBytes
    PROVE  ReadByte(s, b) \in ReadStates
<1>1. s.frame \in Seq(FrameBytes) /\ s.frames \in Seq(Seq(FrameBytes))
  BY DEF ReadStates
<1>2. Append(s.frames, s.frame) \in Seq(Seq(FrameBytes)) /\ <<>> \in Seq(FrameBytes)
  BY <1>1, AppendProperties, EmptySeq
<1>3. CASE s.error # "none" \/ b = "cut"
  BY <1>3, ReadByteIs, ZenonT(60) DEF ReadStates
<1>4. CASE s.error = "none" /\ b = "lf"
  <2>1. \/ ReadByte(s, b) = [s EXCEPT !.error = "FrameTooLong"]
        \/ ReadByte(s, b) = [s EXCEPT !.error = "Encoding"]
        \/ ReadByte(s, b) = [s EXCEPT !.frame = <<>>, !.frames = Append(@, s.frame)]
    BY <1>4, ReadByteIs
  <2>2. QED
    BY <1>2, <2>1 DEF ReadStates
<1>5. CASE s.error = "none" /\ b \in FrameBytes
  <2>1. Append(s.frame, b) \in Seq(FrameBytes)
    BY <1>1, <1>5, AppendProperties
  <2>2. ReadByte(s, b) = [s EXCEPT !.frame = Append(@, b)]
    BY <1>5, ReadByteIs
  <2>3. QED
    BY <2>1, <2>2 DEF ReadStates
<1>6. QED
  BY <1>3, <1>4, <1>5 DEF StreamBytes, Bytes

ReadStep == [p \in ReadStates \X StreamBytes |-> ReadByte(p[1], p[2])]

LEMMA ReadFolds ==
    ASSUME NEW s \in Seq(StreamBytes)
    PROVE  Folding(ReadStates, ReadStep, Reading, s, FoldLeft(ReadByte, Reading, s))
<1> DEFINE N == Len(s)
           Of(f) == [d \in SUBSET (DOMAIN s) |->
                       IF d = {} THEN Reading ELSE ReadByte(f[d \ {Max(d)}], s[Max(d)])]
           iter == CHOOSE f : f = Of(f)
<1>1. ReadStep \in [ReadStates \X StreamBytes -> ReadStates]
  BY ReadByteType DEF ReadStep
<1>2. Reading \in ReadStates
  <2>1. <<>> \in Seq(FrameBytes) /\ <<>> \in Seq(Seq(FrameBytes))
    BY EmptySeq
  <2>2. QED
    BY <2>1 DEF Reading, ReadStates
<1>3. N \in Nat /\ DOMAIN s = 1 .. N /\ (\A i \in 1 .. N : s[i] \in StreamBytes)
      /\ s \in [1 .. N -> StreamBytes]
  BY LenProperties, ElementOfSeq
<1>4. \E f : f = Of(f)
  <2>1. PICK g \in [SUBSET (1 .. N) -> ReadStates] :
          \A d \in SUBSET (1 .. N) :
             g[d] = IF d = {} THEN Reading ELSE ReadStep[<<g[d \ {Max(d)}], s[Max(d)]>>]
    <3>1. \E g \in [SUBSET (1 .. N) -> ReadStates] : FoldFunctionOf(ReadStep, Reading, s, N, g)
      BY ONLY <1>1, <1>2, <1>3, FoldExists
    <3>2. QED
      BY <3>1 DEF FoldFunctionOf
  <2>2. ASSUME NEW d \in SUBSET (1 .. N)
        PROVE  g[d] = IF d = {} THEN Reading ELSE ReadByte(g[d \ {Max(d)}], s[Max(d)])
    <3>1. CASE d = {}
      BY <2>1, <3>1
    <3>2. CASE d # {}
      <4>1. Max(d) \in 1 .. N
        BY <1>3, <3>2, MaxIsGreatest
      <4>2. g[d \ {Max(d)}] \in ReadStates /\ s[Max(d)] \in StreamBytes
        BY <1>3, <4>1
      <4>3. ReadStep[<<g[d \ {Max(d)}], s[Max(d)]>>] = ReadByte(g[d \ {Max(d)}], s[Max(d)])
        BY <4>2 DEF ReadStep
      <4>4. QED
        BY <2>1, <3>2, <4>3
    <3>3. QED
      BY <3>1, <3>2
  <2>3. g = [d \in SUBSET (1 .. N) |-> g[d]]
    OBVIOUS
  <2>4. g = Of(g)
    BY <1>3, <2>2, <2>3
  <2>5. QED
    BY <2>4
<1>5. iter = Of(iter)
  BY <1>4
<1>6. FoldLeft(ReadByte, Reading, s) = iter[1 .. N]
  BY <1>3 DEF FoldLeft, MapThenFoldSet
<1> HIDE DEF iter
<1>7. \A d \in SUBSET (1 .. N) :
        iter[d] = IF d = {} THEN Reading ELSE ReadByte(iter[d \ {Max(d)}], s[Max(d)])
  BY <1>3, <1>5
<1>8. iter[1 .. 0] = Reading
  <2>1. 1 .. 0 = {} /\ 1 .. 0 \in SUBSET (1 .. N)
    OBVIOUS
  <2>2. QED
    BY <1>7, <2>1
<1>9. ASSUME NEW n \in 1 .. N, iter[1 .. n - 1] \in ReadStates
      PROVE  iter[1 .. n] = ReadStep[<<iter[1 .. n - 1], s[n]>>]
  <2>1. Max(1 .. n) = n /\ (1 .. n) \ {n} = 1 .. n - 1
    BY MaxOfInterval
  <2>2. 1 .. n \in SUBSET (1 .. N) /\ 1 .. n # {}
    <3>1. n \in 1 .. n /\ \A i \in 1 .. n : i \in 1 .. N
      BY <1>3
    <3>2. QED
      BY <3>1
  <2>3. iter[1 .. n] = ReadByte(iter[1 .. n - 1], s[n])
    BY <1>7, <2>1, <2>2
  <2>4. QED
    BY <1>3, <1>9, <2>3 DEF ReadStep
<1>10. Folding(ReadStates, ReadStep, Reading, s, iter[1 .. Len(s)])
  <2>1. \A n \in 1 .. Len(s) : iter[1 .. n - 1] \in ReadStates
                               => iter[1 .. n] = ReadStep[<<iter[1 .. n - 1], s[n]>>]
    BY <1>9
  <2>2. QED
    BY ONLY <1>1, <1>2, <1>8, <2>1, ChosenFolds
<1>11. QED
  BY <1>6, <1>10


\* What has been read of a stream.
Read(s) == FoldLeft(ReadByte, Reading, s)

LEMMA ReadType ==
    ASSUME NEW s \in Seq(StreamBytes)
    PROVE  Read(s) \in ReadStates
BY ReadFolds, FoldingType DEF Read

LEMMA ReadAppend ==
    ASSUME NEW s \in Seq(StreamBytes), NEW b \in StreamBytes
    PROVE  Read(Append(s, b)) = ReadByte(Read(s), b)
<1>1. Append(s, b) \in Seq(StreamBytes)
  BY AppendProperties
<1>2. /\ Folding(ReadStates, ReadStep, Reading, s, Read(s))
      /\ Folding(ReadStates, ReadStep, Reading, Append(s, b), Read(Append(s, b)))
  BY <1>1, ReadFolds DEF Read
<1>3. Read(Append(s, b)) = ReadStep[<<Read(s), b>>]
  BY <1>2, FoldingAppend
<1>4. QED
  BY <1>3, ReadType DEF ReadStep

LEMMA ReadEmpty == Read(<<>>) = Reading
<1>1. <<>> \in Seq(StreamBytes)
  BY EmptySeq
<1>2. Folding(ReadStates, ReadStep, Reading, <<>>, Read(<<>>))
  BY <1>1, ReadFolds DEF Read
<1>3. QED
  BY <1>2, FoldingEmpty

-----------------------------------------------------------------------------
(* A stream that arrives in pieces.                                        *)

Got(bytes, k, cuts) == Read(Chunked(bytes, k, cuts))

LEMMA GotNothing ==
    ASSUME NEW bytes, NEW cuts
    PROVE  Got(bytes, 0, cuts) = Reading /\ Chunked(bytes, 0, cuts) = <<>>
<1>1. [i \in 1 .. 0 |-> IF i \in cuts THEN <<bytes[i], "cut">> ELSE <<bytes[i]>>] = <<>>
  OBVIOUS
<1>2. QED
  BY <1>1, FlattenEmpty, ReadEmpty DEF Got, Chunked

LEMMA ChunkedStep ==
    ASSUME NEW bytes \in Seq(Bytes), NEW cuts, NEW k \in Nat, k + 1 <= Len(bytes)
    PROVE  /\ Chunked(bytes, k, cuts) \in Seq(StreamBytes)
           /\ bytes[k + 1] \in Bytes
           /\ Chunked(bytes, k + 1, cuts) =
                IF k + 1 \in cuts
                THEN Append(Append(Chunked(bytes, k, cuts), bytes[k + 1]), "cut")
                ELSE Append(Chunked(bytes, k, cuts), bytes[k + 1])
<1> DEFINE P(i) == IF i \in cuts THEN <<bytes[i], "cut">> ELSE <<bytes[i]>>
           u == [i \in 1 .. k |-> P(i)]
           w == [i \in 1 .. k + 1 |-> P(i)]
           v == Append(u, P(k + 1))
<1>1. \A i \in 1 .. k + 1 : bytes[i] \in Bytes
  <2>1. \A i \in 1 .. k + 1 : i \in 1 .. Len(bytes)
    BY LenProperties
  <2>2. QED
    BY <2>1, ElementOfSeq
<1>2. ASSUME NEW i \in 1 .. k + 1 PROVE P(i) \in Seq(StreamBytes)
  <2>1. bytes[i] \in StreamBytes /\ "cut" \in StreamBytes
    BY <1>1 DEF StreamBytes
  <2>2. <<bytes[i], "cut">> \in Seq(StreamBytes) /\ <<bytes[i]>> \in Seq(StreamBytes)
    BY <2>1
  <2>3. QED
    BY <2>2
<1>3. k + 1 \in 1 .. k + 1 /\ \A i \in 1 .. k : i \in 1 .. k + 1
  OBVIOUS
<1> HIDE DEF P
<1>4. u \in Seq(Seq(StreamBytes)) /\ Len(u) = k
  BY <1>2, <1>3
<1>5. v = w
  <2>1. v \in Seq(Seq(StreamBytes)) /\ Len(v) = k + 1 /\ v[k + 1] = P(k + 1)
        /\ \A i \in 1 .. k : v[i] = u[i]
    BY <1>2, <1>3, <1>4, AppendProperties
  <2>2. w \in Seq(Seq(StreamBytes)) /\ Len(w) = k + 1
    BY <1>2
  <2>3. ASSUME NEW i \in 1 .. k + 1 PROVE v[i] = w[i]
    <3>1. CASE i = k + 1
      BY <2>1, <3>1, <1>3
    <3>2. CASE i # k + 1
      <4>1. i \in 1 .. k
        BY <3>2
      <4> HIDE DEF v
      <4>2. v[i] = u[i] /\ u[i] = P(i) /\ w[i] = P(i)
        BY <4>1, <2>1
      <4>3. QED
        BY <4>2
    <3>3. QED
      BY <3>1, <3>2
  <2> HIDE DEF v, w
  <2>4. QED
    BY <2>1, <2>2, <2>3, SeqEqual
<1>6. FlattenSeq(w) = FlattenSeq(u) \o P(k + 1) /\ FlattenSeq(u) \in Seq(StreamBytes)
  BY <1>2, <1>3, <1>4, <1>5, FlattenAppend, FlattenType
<1>7. FlattenSeq(u) = Chunked(bytes, k, cuts) /\ FlattenSeq(w) = Chunked(bytes, k + 1, cuts)
  BY DEF Chunked, P
<1>8. bytes[k + 1] \in Bytes /\ bytes[k + 1] \in StreamBytes /\ "cut" \in StreamBytes
  BY <1>1, <1>3 DEF StreamBytes
<1>9. QED
  <2> HIDE DEF u, w, v
  <2>1. CASE k + 1 \in cuts
    BY <1>6, <1>7, <1>8, <2>1, AppendTwo DEF P
  <2>2. CASE k + 1 \notin cuts
    BY <1>6, <1>7, <1>8, <2>2, AppendTwo DEF P
  <2>3. QED
    BY <2>1, <2>2

LEMMA GotType ==
    ASSUME NEW bytes \in Seq(Bytes), NEW cuts, NEW k \in 0 .. Len(bytes)
    PROVE  Chunked(bytes, k, cuts) \in Seq(StreamBytes) /\ Got(bytes, k, cuts) \in ReadStates
<1>1. Chunked(bytes, k, cuts) \in Seq(StreamBytes)
  <2>1. CASE k = 0
    BY <2>1, GotNothing, EmptySeq
  <2>2. CASE k # 0
    <3> DEFINE j == k - 1
    <3>1. j \in Nat /\ j + 1 <= Len(bytes) /\ k = j + 1
      BY <2>2, LenProperties
    <3> HIDE DEF j
    <3>2. Append(Chunked(bytes, j, cuts), bytes[j + 1]) \in Seq(StreamBytes)
          /\ "cut" \in StreamBytes
      BY <3>1, ChunkedStep, AppendProperties DEF StreamBytes
    <3>3. Append(Append(Chunked(bytes, j, cuts), bytes[j + 1]), "cut") \in Seq(StreamBytes)
      BY <3>2, AppendProperties
    <3>4. QED
      BY <3>1, <3>2, <3>3, ChunkedStep
  <2>3. QED
    BY <2>1, <2>2
<1>2. QED
  BY <1>1, ReadType DEF Got

LEMMA GotStep ==
    ASSUME NEW bytes \in Seq(Bytes), NEW cuts, NEW k \in Nat, k + 1 <= Len(bytes)
    PROVE  Got(bytes, k + 1, cuts) =
             IF k + 1 \in cuts
             THEN ReadByte(ReadByte(Got(bytes, k, cuts), bytes[k + 1]), "cut")
             ELSE ReadByte(Got(bytes, k, cuts), bytes[k + 1])
<1> DEFINE c == Chunked(bytes, k, cuts)
           d == Append(c, bytes[k + 1])
<1>1. c \in Seq(StreamBytes) /\ bytes[k + 1] \in StreamBytes /\ "cut" \in StreamBytes
  BY ChunkedStep DEF StreamBytes
<1>2. d \in Seq(StreamBytes) /\ Read(d) = ReadByte(Read(c), bytes[k + 1])
  BY <1>1, AppendProperties, ReadAppend
<1>3. Read(Append(d, "cut")) = ReadByte(Read(d), "cut")
  BY <1>1, <1>2, ReadAppend
<1>4. Chunked(bytes, k + 1, cuts) = IF k + 1 \in cuts THEN Append(d, "cut") ELSE d
  BY ChunkedStep
<1> HIDE DEF d, c
<1>5. QED
  BY <1>2, <1>3, <1>4 DEF Got, c

\* What was read of the first k bytes does not depend on those that follow.
LEMMA GotPrefix ==
    ASSUME NEW bytes \in Seq(Bytes), NEW more \in Seq(Bytes), NEW cuts, NEW k \in 0 .. Len(bytes)
    PROVE  Got(bytes \o more, k, cuts) = Got(bytes, k, cuts)
<1>1. \A i \in 1 .. Len(bytes) : (bytes \o more)[i] = bytes[i]
  <2>1. ASSUME NEW i \in 1 .. Len(bytes) PROVE (bytes \o more)[i] = bytes[i]
    <3>1. i \in 1 .. Len(bytes) + Len(more) /\ i <= Len(bytes)
      BY LenProperties
    <3>2. QED
      BY <3>1, ConcatProperties
  <2>2. QED
    BY <2>1
<1> DEFINE b == bytes \o more
<1>2. \A i \in 1 .. k : b[i] = bytes[i]
  BY <1>1, LenProperties
<1> HIDE DEF b
<1>3. [i \in 1 .. k |-> IF i \in cuts THEN <<b[i], "cut">> ELSE <<b[i]>>]
      = [i \in 1 .. k |-> IF i \in cuts THEN <<bytes[i], "cut">> ELSE <<bytes[i]>>]
  BY <1>2
<1>4. QED
  BY <1>3 DEF Got, Chunked, b

\* After an error nothing is read.
LEMMA ErrorsStay ==
    ASSUME NEW bytes \in Seq(Bytes), NEW cuts, NEW p \in 0 .. Len(bytes),
           Got(bytes, p, cuts).error # "none"
    PROVE  \A k \in p .. Len(bytes) : Got(bytes, k, cuts) = Got(bytes, p, cuts)
<1> DEFINE N == Len(bytes) - p
           T == {n \in 0 .. N : Got(bytes, p + n, cuts) = Got(bytes, p, cuts)}
<1>1. N \in Nat /\ Len(bytes) \in Nat
  BY LenProperties
<1>2. 0 \in T
  BY <1>1
<1>3. ASSUME NEW n \in 0 .. N - 1, n \in T PROVE n + 1 \in T
  <2> DEFINE k == p + n
             s == Got(bytes, p, cuts)
  <2>1. k \in Nat /\ k + 1 <= Len(bytes) /\ p + (n + 1) = k + 1 /\ n + 1 \in 0 .. N
    BY <1>1
  <2>2. Got(bytes, k, cuts) = s
    BY <1>3
  <2>3. s \in ReadStates /\ bytes[k + 1] \in StreamBytes /\ "cut" \in StreamBytes
    <3>1. k + 1 \in 1 .. Len(bytes)
      BY <2>1, <1>1
    <3>2. QED
      BY <3>1, GotType, ElementOfSeq DEF StreamBytes
  <2>4. ReadByte(s, bytes[k + 1]) = s /\ ReadByte(s, "cut") = s
    BY <2>3, ReadByteIs
  <2> HIDE DEF k, s
  <2>5. Got(bytes, k + 1, cuts) = s
    BY <2>1, <2>2, <2>4, GotStep
  <2>6. QED
    BY <2>1, <2>5 DEF s
<1>4. \A n \in 0 .. N : n \in T
  <2> HIDE DEF T
  <2>1. QED
    BY <1>1, <1>2, <1>3, SetInductionUpTo
<1>5. ASSUME NEW k \in p .. Len(bytes) PROVE Got(bytes, k, cuts) = Got(bytes, p, cuts)
  <2>1. k - p \in 0 .. N /\ p + (k - p) = k
    BY <1>1
  <2>2. QED
    BY <2>1, <1>4
<1>6. QED
  BY <1>5

LEMMA SubSeqGrows ==
    ASSUME NEW E, NEW s \in Seq(E), NEW j \in Nat, j + 1 <= Len(s)
    PROVE  /\ Append(SubSeq(s, 1, j), s[j + 1]) = SubSeq(s, 1, j + 1)
           /\ SubSeq(s, 1, j + 1) \in Seq(E) /\ Len(SubSeq(s, 1, j + 1)) = j + 1
<1>1. 1 \in 1 .. Len(s) /\ j + 1 \in 1 .. Len(s) /\ Len(s) \in Nat
  BY LenProperties
<1>2. SubSeq(s, 1, j + 1) = SubSeq(s, 1, j + 1 - 1) \o <<s[j + 1]>>
  BY <1>1, SubSeqRecursiveSecond
<1>3. \A i \in 1 .. j + 1 : s[i] \in E
  BY <1>1, ElementOfSeq
<1>4. SubSeq(s, 1, j) \in Seq(E) /\ s[j + 1] \in E
  <2>1. \A i \in 1 .. j : s[i] \in E
    BY <1>3
  <2>2. QED
    BY <2>1, <1>3, SubSeqProperties
<1>5. SubSeq(s, 1, j + 1) \in Seq(E) /\ Len(SubSeq(s, 1, j + 1)) = IF 1 <= j + 1 THEN j + 1 - 1 + 1 ELSE 0
  BY <1>3, SubSeqProperties
<1>6. j + 1 - 1 = j /\ (IF 1 <= j + 1 THEN j + 1 - 1 + 1 ELSE 0) = j + 1
  OBVIOUS
<1>7. QED
  BY <1>2, <1>4, <1>5, <1>6, AppendIsConcat

\* Where a reader is after j bytes of m, with the frames F of what came before.
Within(m, F, j, s) ==
    /\ s.frames = F
    /\ \/ s = [frame |-> SubSeq(Frame(m), 1, j), frames |-> F, error |-> "none"]
       \/ s.error = "FrameTooLong" /\ ~Fits(m)

LEMMA ByteOfMessage ==
    ASSUME NEW m \in Messages, NEW F, NEW j \in Nat, j + 1 <= Len(Frame(m)),
           NEW s \in ReadStates, Within(m, F, j, s)
    PROVE  /\ ReadByte(s, Frame(m)[j + 1]) \in ReadStates
           /\ Within(m, F, j + 1, ReadByte(s, Frame(m)[j + 1]))
           /\ Within(m, F, j + 1, ReadByte(ReadByte(s, Frame(m)[j + 1]), "cut"))
<1> DEFINE b == Frame(m)[j + 1]
           t == ReadByte(s, b)
           g == SubSeq(Frame(m), 1, j + 1)
<1>1. b \in FrameBytes /\ b \in StreamBytes /\ "cut" \in StreamBytes
  <2>1. j + 1 \in 1 .. Len(Frame(m))
    BY EncodeIs
  <2>2. QED
    BY <2>1, BodyIs, ElementOfSeq DEF StreamBytes, Bytes
<1>2. t \in ReadStates
  BY <1>1, ReadByteType
<1>3. CASE s.error # "none"
  <2>1. t = s /\ s.error = "FrameTooLong" /\ s.frames = F /\ ~Fits(m)
    <3>1. s # [frame |-> SubSeq(Frame(m), 1, j), frames |-> F, error |-> "none"]
      BY <1>3
    <3>2. s.error = "FrameTooLong" /\ s.frames = F /\ ~Fits(m)
      BY <3>1 DEF Within
    <3>3. QED
      BY <3>2, <1>1, <1>3, ReadByteIs
  <2>2. ReadByte(s, "cut") = s
    BY <1>1, <1>3, ReadByteIs
  <2>3. QED
    BY <2>1, <2>2 DEF Within
<1>4. CASE s.error = "none"
  <2>1. s = [frame |-> SubSeq(Frame(m), 1, j), frames |-> F, error |-> "none"]
    BY <1>4 DEF Within
  <2>2. Append(SubSeq(Frame(m), 1, j), b) = g /\ Len(g) = j + 1
    BY BodyIs, SubSeqGrows
  <2>3. t = [frame |-> g, frames |-> F, error |-> "none"]
    <3>1. t = [s EXCEPT !.frame = Append(@, b)]
      BY <1>1, <1>4, ReadByteIs
    <3> HIDE DEF t, b, g
    <3>2. QED
      BY <3>1, <2>1, <2>2
  <2>4. ReadByte(t, "cut") = IF j + 1 > MaxMessageBytes THEN [t EXCEPT !.error = "FrameTooLong"] ELSE t
    <3>1. t.error = "none" /\ Len(t.frame) = j + 1
      BY <2>2, <2>3
    <3> HIDE DEF t, b, g
    <3>2. QED
      BY <1>1, <1>2, <3>1, ReadByteIs
  <2>5. j + 1 > MaxMessageBytes => ~Fits(m)
    BY EncodeIs, WireAssumption
  <2> HIDE DEF t, g
  <2>6. Within(m, F, j + 1, t)
    BY <2>3 DEF Within, g
  <2>7. Within(m, F, j + 1, ReadByte(t, "cut"))
    <3>1. CASE j + 1 > MaxMessageBytes
      BY <2>3, <2>4, <2>5, <3>1 DEF Within
    <3>2. CASE ~(j + 1 > MaxMessageBytes)
      BY <2>4, <2>6, <3>2
    <3>3. QED
      BY <3>1, <3>2
  <2>8. QED
    BY <1>2, <2>6, <2>7 DEF t
<1>5. QED
  BY <1>2, <1>3, <1>4

\* Where it is after the line feed.
After(m, F, s) ==
    /\ Fits(m) => s = [frame |-> <<>>, frames |-> Append(F, Frame(m)), error |-> "none"]
    /\ ~Fits(m) => s.frames = F /\ s.error = "FrameTooLong"

LEMMA EndOfMessage ==
    ASSUME NEW m \in Messages, NEW F, NEW s \in ReadStates, Within(m, F, Len(Frame(m)), s)
    PROVE  After(m, F, ReadByte(s, "lf")) /\ After(m, F, ReadByte(ReadByte(s, "lf"), "cut"))
<1> DEFINE n == Len(Frame(m))
           t == ReadByte(s, "lf")
<1>1. "lf" \in StreamBytes /\ "cut" \in StreamBytes
  BY DEF StreamBytes, Bytes
<1>2. t \in ReadStates
  BY <1>1, ReadByteType
<1>3. CASE s.error # "none"
  <2>1. t = s /\ s.error = "FrameTooLong" /\ s.frames = F /\ ~Fits(m)
    <3>1. s # [frame |-> SubSeq(Frame(m), 1, Len(Frame(m))), frames |-> F, error |-> "none"]
      BY <1>3
    <3>2. s.error = "FrameTooLong" /\ s.frames = F /\ ~Fits(m)
      BY <3>1 DEF Within
    <3>3. QED
      BY <3>2, <1>1, <1>3, ReadByteIs
  <2>2. ReadByte(s, "cut") = s
    BY <1>1, <1>3, ReadByteIs
  <2>3. QED
    BY <2>1, <2>2 DEF After
<1>4. CASE s.error = "none"
  <2>1. s = [frame |-> Frame(m), frames |-> F, error |-> "none"]
    <3>1. SubSeq(Frame(m), 1, n) = Frame(m)
      BY BodyIs, SubSeqFull
    <3>2. QED
      BY <3>1, <1>4 DEF Within
  <2>2. t = IF n > MaxMessageBytes THEN [s EXCEPT !.error = "FrameTooLong"]
            ELSE [s EXCEPT !.frame = <<>>, !.frames = Append(@, s.frame)]
    <3>1. IsText(s.frame) /\ Len(s.frame) = n
      BY <2>1, BodyIs
    <3>2. QED
      BY <3>1, <1>1, <1>4, ReadByteIs
  <2>3. Fits(m) <=> ~(n > MaxMessageBytes)
    BY EncodeIs, WireAssumption
  <2> HIDE DEF t, n
  <2>4. CASE Fits(m)
    <3>1. t = [frame |-> <<>>, frames |-> Append(F, Frame(m)), error |-> "none"]
      BY <2>1, <2>2, <2>3, <2>4
    <3>2. Len(t.frame) = 0 /\ t.error = "none" /\ ~(0 > MaxMessageBytes)
      BY <3>1, EmptySeq, WireAssumption
    <3>3. ReadByte(t, "cut") = t
      BY <1>1, <1>2, <3>2, ReadByteIs
    <3>4. QED
      BY <2>4, <3>1, <3>3 DEF After, t
  <2>5. CASE ~Fits(m)
    <3>1. t.frames = F /\ t.error = "FrameTooLong"
      BY <2>1, <2>2, <2>3, <2>5
    <3>2. ReadByte(t, "cut") = t
      BY <1>1, <1>2, <3>1, ReadByteIs
    <3>3. QED
      BY <2>5, <3>1, <3>2 DEF After, t
  <2>6. QED
    BY <2>4, <2>5
<1>5. QED
  BY <1>3, <1>4

LEMMA MessageIsRead ==
    ASSUME NEW before \in Seq(Bytes), NEW m \in Messages, NEW cuts, NEW F,
           Got(before \o Encode(m), Len(before), cuts) = [frame |-> <<>>, frames |-> F, error |-> "none"]
    PROVE  /\ \A j \in 0 .. Len(Frame(m)) :
                Within(m, F, j, Got(before \o Encode(m), Len(before) + j, cuts))
           /\ After(m, F, Got(before \o Encode(m), Len(before) + Len(Frame(m)) + 1, cuts))
<1> DEFINE n == Len(Frame(m))
           p == Len(before)
           b == before \o Encode(m)
           S(j) == Got(b, p + j, cuts)
           T == {j \in 0 .. n : Within(m, F, j, S(j))}
<1>1. /\ n \in Nat /\ p \in Nat /\ b \in Seq(Bytes) /\ Len(b) = p + n + 1
      /\ \A j \in 1 .. n : b[p + j] = Frame(m)[j]
      /\ b[p + n + 1] = "lf"
  <2>1. n \in Nat /\ p \in Nat /\ Encode(m) \in Seq(Bytes) /\ Len(Encode(m)) = n + 1
    BY EncodeIs, LenProperties
  <2>2. /\ b \in Seq(Bytes) /\ Len(b) = p + Len(Encode(m))
        /\ \A i \in 1 .. p + Len(Encode(m)) : b[i] = IF i <= p THEN before[i] ELSE Encode(m)[i - p]
    BY <2>1, ConcatProperties
  <2> HIDE DEF b, n, p
  <2>3. ASSUME NEW j \in 1 .. n + 1 PROVE b[p + j] = Encode(m)[j]
    <3> DEFINE i == p + j
    <3>1. i \in 1 .. p + Len(Encode(m)) /\ ~(i <= p) /\ i - p = j
      BY <2>1
    <3> HIDE DEF i
    <3>2. b[i] = Encode(m)[j]
      BY <2>2, <3>1
    <3>3. QED
      BY <3>2 DEF i
  <2>4. \A j \in 1 .. n : j \in 1 .. n + 1 /\ Encode(m)[j] = Frame(m)[j]
    BY <2>1, EncodeIs DEF n
  <2>5. n + 1 \in 1 .. n + 1 /\ Encode(m)[n + 1] = "lf" /\ p + (n + 1) = p + n + 1
    BY <2>1, EncodeIs DEF n
  <2>6. b[p + n + 1] = "lf"
    BY <2>3, <2>5
  <2>7. QED
    BY <2>1, <2>2, <2>3, <2>4, <2>5, <2>6
<1> HIDE DEF b, n, p
<1>2. \A j \in 0 .. n : S(j) \in ReadStates
  <2>1. \A j \in 0 .. n : p + j \in 0 .. Len(b)
    BY <1>1
  <2>2. QED
    BY <1>1, <2>1, GotType
<1>3. 0 \in T
  <2>1. S(0) = [frame |-> <<>>, frames |-> F, error |-> "none"] /\ 0 \in 0 .. n
    <3>1. p + 0 = p
      BY <1>1
    <3>2. QED
      BY <3>1, <1>1 DEF b, p
  <2>2. SubSeq(Frame(m), 1, 0) = <<>>
    BY SubSeqEmpty
  <2>3. QED
    BY <2>1, <2>2 DEF Within
<1>4. ASSUME NEW j \in 0 .. n - 1, j \in T PROVE j + 1 \in T
  <2>1. j \in Nat /\ j + 1 <= n /\ j + 1 \in 0 .. n /\ j \in 0 .. n /\ j + 1 \in 1 .. n
        /\ p + j \in Nat /\ p + j + 1 <= Len(b) /\ p + j + 1 = p + (j + 1)
    BY <1>1
  <2>2. b[p + j + 1] = Frame(m)[j + 1]
    BY <1>1, <2>1
  <2>3. S(j + 1) = IF p + j + 1 \in cuts
                   THEN ReadByte(ReadByte(S(j), Frame(m)[j + 1]), "cut")
                   ELSE ReadByte(S(j), Frame(m)[j + 1])
    <3> DEFINE k == p + j
    <3>1. k \in Nat /\ k + 1 <= Len(b) /\ b[k + 1] = Frame(m)[j + 1] /\ b \in Seq(Bytes)
      BY <1>1, <2>1, <2>2
    <3> HIDE DEF k
    <3>2. Got(b, k + 1, cuts) = IF k + 1 \in cuts
                                THEN ReadByte(ReadByte(Got(b, k, cuts), Frame(m)[j + 1]), "cut")
                                ELSE ReadByte(Got(b, k, cuts), Frame(m)[j + 1])
      BY <3>1, GotStep
    <3>3. QED
      BY <3>2, <2>1 DEF k
  <2>4. S(j) \in ReadStates /\ Within(m, F, j, S(j))
    BY <1>2, <1>4, <2>1
  <2> HIDE DEF S
  <2>5. Within(m, F, j + 1, S(j + 1))
    BY <2>1, <2>3, <2>4, ByteOfMessage DEF n
  <2>6. QED
    BY <2>1, <2>5
<1>5. \A j \in 0 .. n : j \in T
  <2> HIDE DEF T
  <2>1. QED
    BY <1>1, <1>3, <1>4, SetInductionUpTo
<1>6. After(m, F, Got(b, p + n + 1, cuts))
  <2>1. p + n \in Nat /\ p + n + 1 <= Len(b) /\ n \in 0 .. n
    BY <1>1
  <2>2. Got(b, p + n + 1, cuts) = IF p + n + 1 \in cuts
                                  THEN ReadByte(ReadByte(S(n), "lf"), "cut") ELSE ReadByte(S(n), "lf")
    BY <1>1, <2>1, GotStep
  <2>3. S(n) \in ReadStates /\ Within(m, F, n, S(n))
    BY <1>2, <1>5, <2>1
  <2> HIDE DEF S
  <2>4. QED
    BY <2>2, <2>3, EndOfMessage DEF n
<1>7. QED
  BY <1>5, <1>6 DEF b, n, p

-----------------------------------------------------------------------------
(* Answers.                                                                *)

Answers == {m \in Messages : m.kind \in ResponseKinds}

LEMMA FramesAre ==
    ASSUME NEW bytes, NEW k, NEW cuts
    PROVE  LET s == Got(bytes, k, cuts)
               r == ReadFrames(Chunked(bytes, k, cuts))
           IN  /\ r.frames = s.frames
               /\ s.error = "none" /\ s.frame = <<>> => r.end = "closed"
               /\ s.error # "none" => r.end = s.error
               /\ s.error = "none" /\ s.frame # <<>> => r.end \in {"FrameTooLong", "Truncated"}
BY DEF ReadFrames, Got, Read

LEMMA NoAnswer ==
    ASSUME NEW stream, ReadFrames(stream).frames = <<>>
    PROVE  /\ ReadFrames(stream).end = "closed" => Request(stream) = [failed |-> "closed"]
           /\ ReadFrames(stream).end # "closed" => Request(stream) = [failed |-> "transport"]
<1>1. Receive(stream) = [failed |-> IF ReadFrames(stream).end = "closed" THEN "closed" ELSE "transport"]
  BY DEF Receive
<1>2. "response" \notin DOMAIN Receive(stream)
  BY <1>1
<1>3. Request(stream) = Receive(stream)
  BY <1>2 DEF Request
<1>4. QED
  BY <1>1, <1>3

LEMMA AnAnswer ==
    ASSUME NEW stream, NEW m \in Answers, ReadFrames(stream).frames = <<Frame(m)>>
    PROVE  /\ m.version = PROTOCOL_VERSION =>
                Request(stream) = IF m.kind = "ERROR" THEN [failed |-> m.text[1]] ELSE [response |-> m]
           /\ m.version # PROTOCOL_VERSION => Request(stream) = [failed |-> "protocol"]
<1>1. Receive(stream) = DecodeResponse(Frame(m))
  BY DEF Receive
<1>2. Parse(Frame(m), ResponseKinds) = [ok |-> TRUE, message |-> m]
  BY BodyParses DEF Answers
<1>3. CASE m.version = PROTOCOL_VERSION
  <2>1. Receive(stream) = [response |-> m]
    BY <1>1, <1>2, <1>3 DEF DecodeResponse
  <2>2. "response" \in DOMAIN Receive(stream) /\ Receive(stream).response = m
    BY <2>1
  <2>3. Request(stream) = IF m.kind = "ERROR" THEN [failed |-> m.text[1]] ELSE Receive(stream)
    BY <2>2 DEF Request
  <2>4. QED
    BY <1>3, <2>1, <2>3
<1>4. CASE m.version # PROTOCOL_VERSION
  <2>1. Receive(stream) = [failed |-> "protocol"]
    BY <1>1, <1>2, <1>4 DEF DecodeResponse
  <2>2. "response" \notin DOMAIN Receive(stream)
    BY <2>1
  <2>3. QED
    BY <1>4, <2>1, <2>2 DEF Request
<1>5. QED
  BY <1>3, <1>4

\* The client takes for the daemon's answer only one that arrived whole, whatever it says,
\* wherever the reads fall and wherever the daemon dies while it writes.
THEOREM AnswersAreTaken ==
    ASSUME NEW m \in Answers, NEW k \in 0 .. Len(Encode(m)), NEW cuts
    PROVE  TakesWhatArrived(m, k, cuts)
<1> DEFINE e == Encode(m)
           s == Got(e, k, cuts)
           stream == Chunked(e, k, cuts)
           n == Len(Frame(m))
<1>1. m \in Messages /\ e \in Seq(Bytes) /\ <<>> \in Seq(Bytes) /\ <<>> \o e = e /\ Len(<<>>) = 0
      /\ n \in Nat /\ Len(e) = n + 1
  BY EncodeIs, EmptySeq, ConcatEmptySeq DEF Answers
<1>2. Got(e, 0, cuts) = [frame |-> <<>>, frames |-> <<>>, error |-> "none"]
  BY GotNothing DEF Reading
<1>3. /\ \A j \in 0 .. n : Within(m, <<>>, j, Got(e, j, cuts))
      /\ After(m, <<>>, Got(e, n + 1, cuts))
  <2> DEFINE b == <<>> \o e
  <2>0. b = e
    BY <1>1
  <2>1. Got(b, Len(<<>>), cuts) = [frame |-> <<>>, frames |-> <<>>, error |-> "none"]
    BY <1>1, <1>2
  <2>2. /\ \A j \in 0 .. n : Within(m, <<>>, j, Got(b, Len(<<>>) + j, cuts))
        /\ After(m, <<>>, Got(b, Len(<<>>) + n + 1, cuts))
    BY <1>1, <2>1, MessageIsRead
  <2>3. \A j \in 0 .. n : Len(<<>>) + j = j
    BY <1>1
  <2>4. Len(<<>>) + n + 1 = n + 1
    BY <1>1
  <2> HIDE DEF b, e, n
  <2>5. QED
    BY <2>0, <2>2, <2>3, <2>4
<1>4. CASE k = 0
  <2>1. s.error = "none" /\ s.frame = <<>> /\ s.frames = <<>>
    BY <1>2, <1>4
  <2>2. ReadFrames(stream).frames = <<>> /\ ReadFrames(stream).end = "closed"
    BY <2>1, FramesAre
  <2>3. Request(stream) = [failed |-> "closed"]
    BY <2>2, NoAnswer
  <2>4. QED
    BY <1>4, <2>3 DEF TakesWhatArrived
<1>5. CASE k # 0 /\ ~(k = Len(e) /\ Fits(m))
  <2>1. s.frames = <<>> /\ (s.error = "none" => s.frame # <<>>)
    <3>1. CASE k = n + 1
      <4>1. s.frames = <<>> /\ s.error = "FrameTooLong"
        BY <1>1, <1>3, <1>5, <3>1 DEF After
      <4>2. QED
        BY <4>1
    <3>2. CASE k # n + 1
      <4>1. k \in 1 .. n
        BY <1>1, <1>5, <3>2
      <4>2. Within(m, <<>>, k, s)
        BY <1>3, <4>1
      <4>3. SubSeq(Frame(m), 1, k) # <<>>
        <5> DEFINE j == k - 1
        <5>1. j \in Nat /\ j + 1 = k /\ j + 1 <= n
          BY <1>1, <4>1
        <5>2. Len(SubSeq(Frame(m), 1, j + 1)) = j + 1
          BY <1>1, <5>1, BodyIs, SubSeqGrows
        <5>3. Len(SubSeq(Frame(m), 1, k)) = k /\ k # 0
          BY <5>1, <5>2, <4>1
        <5>4. QED
          BY <5>3, EmptySeq
      <4>4. QED
        BY <4>2, <4>3 DEF Within
    <3>3. QED
      BY <3>1, <3>2
  <2>2. s.error \in {"none", "FrameTooLong", "Encoding"}
    BY <1>1, GotType DEF ReadStates
  <2>3. ReadFrames(stream).frames = <<>> /\ ReadFrames(stream).end # "closed"
    BY <2>1, <2>2, FramesAre
  <2>4. Request(stream) = [failed |-> "transport"]
    BY <2>3, NoAnswer
  <2>5. QED
    BY <1>5, <2>4 DEF TakesWhatArrived
<1>6. CASE k # 0 /\ k = Len(e) /\ Fits(m)
  <2>1. s.frames = <<Frame(m)>>
    BY <1>1, <1>3, <1>6 DEF After
  <2>2. ReadFrames(stream).frames = <<Frame(m)>>
    BY <2>1, FramesAre
  <2>3. /\ m.version = PROTOCOL_VERSION =>
                Request(stream) = IF m.kind = "ERROR" THEN [failed |-> m.text[1]] ELSE [response |-> m]
        /\ m.version # PROTOCOL_VERSION => Request(stream) = [failed |-> "protocol"]
    BY <2>2, AnAnswer
  <2>4. [failed |-> "protocol"] \in [failed : {"transport", "protocol"}]
    OBVIOUS
  <2> HIDE DEF stream
  <2>5. QED
    BY <1>6, <2>3, <2>4 DEF TakesWhatArrived, stream
<1>7. QED
  BY <1>4, <1>5, <1>6

LEMMA AnswersHold == AnswersArriveWhole
<1>1. Texts \subseteq Seq(Chars)
  <2>1. ASSUME NEW n \in 0 .. 2, NEW t \in [1 .. n -> {"a", "lf", "wide"}] PROVE t \in Seq(Chars)
    <3>1. {"a", "lf", "wide"} \subseteq Chars
      BY DEF Chars, Pairs, Plain
    <3>2. t \in [1 .. n -> Chars] /\ n \in Nat
      BY <3>1
    <3>3. QED
      BY <3>2, SeqDef
  <2>2. QED
    BY <2>1 DEF Texts
<1>2. \A v \in Versions, t \in Texts : Message(v, "SUBMITTED", t) \in Answers
  BY <1>1 DEF Message, Answers, Messages, Kinds, ResponseKinds
<1>3. Error("INTERNAL") \in Answers
  <2>1. <<"INTERNAL">> \in Seq(Chars) /\ PROTOCOL_VERSION \in Versions
    BY DEF Chars, Plain, PROTOCOL_VERSION, Versions
  <2>2. QED
    BY <2>1 DEF Error, Message, Answers, Messages, Kinds, ResponseKinds
<1>4. QED
  BY <1>2, <1>3, AnswersAreTaken DEF AnswersArriveWhole

-----------------------------------------------------------------------------
(* Requests.                                                               *)

LEMMA WrittenAppend ==
    ASSUME NEW ms \in Seq(Messages), NEW m \in Messages
    PROVE  Written(Append(ms, m)) = Written(ms) \o Encode(m)
<1> DEFINE parts == [i \in DOMAIN ms |-> Encode(ms[i])]
           u == Append(ms, m)
           more == [i \in DOMAIN u |-> Encode(u[i])]
<1>1. DOMAIN ms = 1 .. Len(ms) /\ Len(ms) \in Nat /\ \A i \in 1 .. Len(ms) : ms[i] \in Messages
  BY LenProperties, ElementOfSeq
<1>2. u \in Seq(Messages) /\ DOMAIN u = 1 .. Len(ms) + 1 /\ u[Len(ms) + 1] = m
      /\ \A i \in 1 .. Len(ms) : u[i] = ms[i]
  BY AppendProperties, LenProperties
<1>3. Encode(m) \in Seq(Bytes) /\ \A i \in 1 .. Len(ms) : Encode(ms[i]) \in Seq(Bytes)
  BY <1>1, EncodeIs
<1>4. parts \in Seq(Seq(Bytes)) /\ Len(parts) = Len(ms)
  BY <1>1, <1>3
<1>5. more = Append(parts, Encode(m))
  <2> DEFINE more2 == Append(parts, Encode(m))
  <2>1. more2 \in Seq(Seq(Bytes)) /\ Len(more2) = Len(ms) + 1 /\ more2[Len(ms) + 1] = Encode(m)
        /\ \A i \in 1 .. Len(ms) : more2[i] = parts[i]
    BY <1>3, <1>4, AppendProperties
  <2>2. DOMAIN more2 = 1 .. Len(ms) + 1 /\ more2 = [i \in 1 .. Len(ms) + 1 |-> more2[i]]
    BY <2>1, <1>1, LenProperties
  <2> HIDE DEF more2
  <2>3. \A i \in 1 .. Len(ms) + 1 : more2[i] = Encode(u[i])
    <3>1. ASSUME NEW i \in 1 .. Len(ms) PROVE more2[i] = Encode(u[i])
      BY <2>1, <1>1, <1>2
    <3>2. QED
      BY <3>1, <2>1, <1>1, <1>2
  <2> HIDE DEF u
  <2>4. more2 = more
    BY <2>2, <2>3, <1>2
  <2>5. QED
    BY <2>4 DEF more2
<1>6. FlattenSeq(Append(parts, Encode(m))) = FlattenSeq(parts) \o Encode(m)
  BY <1>3, <1>4, FlattenAppend
<1>7. QED
  BY <1>5, <1>6 DEF Written


LEMMA WrittenEmpty == Written(<<>>) = <<>>
<1>1. [i \in DOMAIN <<>> |-> Encode(<<>>[i])] = <<>>
  OBVIOUS
<1>2. QED
  BY <1>1, FlattenEmpty DEF Written

LEMMA WrittenType ==
    ASSUME NEW ms \in Seq(Messages)
    PROVE  Written(ms) \in Seq(Bytes)
<1> DEFINE parts == [i \in DOMAIN ms |-> Encode(ms[i])]
<1>1. DOMAIN ms = 1 .. Len(ms) /\ Len(ms) \in Nat
      /\ \A i \in 1 .. Len(ms) : Encode(ms[i]) \in Seq(Bytes)
  BY LenProperties, ElementOfSeq, EncodeIs
<1>2. parts \in Seq(Seq(Bytes))
  BY <1>1
<1>3. QED
  BY <1>2, FlattenType DEF Written

\* n of the messages are whole within k bytes, and fit.
Complete(ms, k, n) ==
    /\ n \in 0 .. Len(ms)
    /\ Len(Written(SubSeq(ms, 1, n))) <= k
    /\ \A i \in 1 .. n : Fits(ms[i])

LEMMA ArrivedIs ==
    ASSUME NEW ms \in Seq(Messages), NEW k \in Nat
    PROVE  /\ Complete(ms, k, Arrived(ms, k))
           /\ \A n \in 0 .. Len(ms) : Complete(ms, k, n) => n <= Arrived(ms, k)
<1> DEFINE S == {n \in 0 .. Len(ms) : /\ Len(Written(SubSeq(ms, 1, n))) <= k
                                     /\ \A i \in 1 .. n : Fits(ms[i])}
<1>1. Len(ms) \in Nat
  BY LenProperties
<1>2. 0 \in S
  <2>1. SubSeq(ms, 1, 0) = <<>>
    BY SubSeqEmpty
  <2>2. Len(Written(SubSeq(ms, 1, 0))) = 0
    <3>1. SubSeq(ms, 1, 0) = <<>> /\ Written(<<>>) = <<>> /\ Len(<<>>) = 0
      BY <2>1, WrittenEmpty
    <3>2. QED
      BY <3>1
  <2>3. QED
    BY <1>1, <2>2
<1>3. S \subseteq 0 .. Len(ms) /\ S # {}
  BY <1>2
<1> HIDE DEF S
<1>4. Max(S) \in S /\ \A n \in S : n <= Max(S)
  BY <1>1, <1>3, MaxUpTo
<1>5. Arrived(ms, k) = Max(S)
  BY DEF Arrived, S
<1>6. \A n \in 0 .. Len(ms) : n \in S <=> Complete(ms, k, n)
  BY DEF Complete, S
<1>7. QED
  BY <1>3, <1>4, <1>5, <1>6

LEMMA ArrivedUnique ==
    ASSUME NEW ms \in Seq(Messages), NEW k \in Nat, NEW a \in 0 .. Len(ms), Complete(ms, k, a),
           \A n \in 0 .. Len(ms) : Complete(ms, k, n) => n <= a
    PROVE  Arrived(ms, k) = a
<1>1. Arrived(ms, k) \in 0 .. Len(ms)
  BY ArrivedIs DEF Complete
<1>2. a <= Arrived(ms, k) /\ Arrived(ms, k) <= a
  BY <1>1, ArrivedIs
<1>3. QED
  BY <1>1, <1>2, LenProperties

AllFit(ms) == \A i \in 1 .. Len(ms) : Fits(ms[i])

\* One more message: what was whole before is whole still, and the new one counts when
\* it has arrived and all of them fit.
LEMMA CompleteAppend ==
    ASSUME NEW ms \in Seq(Messages), NEW m \in Messages, NEW k \in Nat
    PROVE  /\ \A n \in 0 .. Len(ms) : Complete(Append(ms, m), k, n) <=> Complete(ms, k, n)
           /\ Complete(Append(ms, m), k, Len(ms) + 1) <=>
                Len(Written(Append(ms, m))) <= k /\ AllFit(ms) /\ Fits(m)
<1> DEFINE u == Append(ms, m)
<1>1. /\ u \in Seq(Messages) /\ Len(u) = Len(ms) + 1 /\ Len(ms) \in Nat /\ u[Len(ms) + 1] = m
      /\ \A i \in 1 .. Len(ms) : u[i] = ms[i]
  BY AppendProperties, LenProperties
<1> HIDE DEF u
<1>2. ASSUME NEW n \in 0 .. Len(ms) PROVE Complete(u, k, n) <=> Complete(ms, k, n)
  <2>1. SubSeq(u, 1, n) = SubSeq(ms, 1, n)
    <3>1. \A i \in 1 .. n : u[i] = ms[i] /\ ms[i] \in Messages
      BY <1>1, ElementOfSeq
    <3> DEFINE x == SubSeq(u, 1, n)
               y == SubSeq(ms, 1, n)
    <3>2. n \in Int /\ n - 1 + 1 = n
      BY <1>1
    <3>3. x \in Seq(Messages) /\ Len(x) = (IF 1 <= n THEN n - 1 + 1 ELSE 0)
          /\ \A i \in 1 .. n - 1 + 1 : x[i] = u[1 + i - 1]
      BY <3>1, <3>2, SubSeqProperties
    <3>4. y \in Seq(Messages) /\ Len(y) = (IF 1 <= n THEN n - 1 + 1 ELSE 0)
          /\ \A i \in 1 .. n - 1 + 1 : y[i] = ms[1 + i - 1]
      BY <3>1, <3>2, SubSeqProperties
    <3> HIDE DEF x, y
    <3>5. Len(x) = Len(y) /\ Len(x) = n
      BY <3>2, <3>3, <3>4, <1>1
    <3>6. \A i \in 1 .. Len(x) : x[i] = y[i]
      <4>1. ASSUME NEW i \in 1 .. n PROVE x[i] = y[i]
        <5>1. i \in 1 .. n - 1 + 1 /\ 1 + i - 1 = i
          BY <3>2
        <5>2. QED
          BY <5>1, <3>1, <3>3, <3>4
      <4>2. QED
        BY <4>1, <3>5
    <3>7. x = y
      BY <3>3, <3>4, <3>5, <3>6, SeqEqual
    <3>8. QED
      BY <3>7 DEF x, y
  <2>2. n \in 0 .. Len(u) /\ \A i \in 1 .. n : u[i] = ms[i]
    BY <1>1
  <2>3. QED
    BY <2>1, <2>2 DEF Complete
<1>3. Complete(u, k, Len(ms) + 1) <=> Len(Written(u)) <= k /\ AllFit(ms) /\ Fits(m)
  <2>1. SubSeq(u, 1, Len(ms) + 1) = u
    BY <1>1, SubSeqFull
  <2>2. (\A i \in 1 .. Len(ms) + 1 : Fits(u[i])) <=> AllFit(ms) /\ Fits(m)
    <3>1. ASSUME NEW i \in 1 .. Len(ms) + 1 PROVE i \in 1 .. Len(ms) \/ i = Len(ms) + 1
      BY <1>1
    <3>2. \A i \in 1 .. Len(ms) : i \in 1 .. Len(ms) + 1
      BY <1>1
    <3>3. Len(ms) + 1 \in 1 .. Len(ms) + 1
      BY <1>1
    <3>4. QED
      BY <1>1, <3>1, <3>2, <3>3 DEF AllFit
  <2>3. Len(ms) + 1 \in 0 .. Len(u)
    BY <1>1
  <2>4. QED
    BY <2>1, <2>2, <2>3 DEF Complete
<1>4. QED
  BY <1>2, <1>3 DEF u

Bodies(ms, n) == [i \in 1 .. n |-> Frame(ms[i])]

\* What a reader of ms has after k bytes, wherever the reads fall.
ReadOk(ms, cuts) ==
    LET w == Written(ms)
    IN  /\ \A n \in 0 .. Len(ms) : Len(Written(SubSeq(ms, 1, n))) <= Len(w)
        /\ \A k \in 0 .. Len(w) : Got(w, k, cuts).frames = Bodies(ms, Arrived(ms, k))
        /\ IF AllFit(ms)
           THEN Got(w, Len(w), cuts) = [frame |-> <<>>, frames |-> Bodies(ms, Len(ms)), error |-> "none"]
           ELSE Got(w, Len(w), cuts).error # "none"

LEMMA BodiesAppend ==
    ASSUME NEW ms \in Seq(Messages), NEW m \in Messages
    PROVE  /\ \A n \in 0 .. Len(ms) : Bodies(Append(ms, m), n) = Bodies(ms, n)
           /\ Bodies(Append(ms, m), Len(ms) + 1) = Append(Bodies(ms, Len(ms)), Frame(m))
<1> DEFINE u == Append(ms, m)
           N == Len(ms)
<1>1. /\ u \in Seq(Messages) /\ N \in Nat /\ u[N + 1] = m /\ \A i \in 1 .. N : u[i] = ms[i]
  BY AppendProperties, LenProperties
<1> HIDE DEF u, N
<1>2. ASSUME NEW n \in 0 .. N PROVE Bodies(u, n) = Bodies(ms, n)
  <2>1. \A i \in 1 .. n : u[i] = ms[i]
    BY <1>1
  <2>2. QED
    BY <2>1 DEF Bodies
<1>3. Bodies(u, N + 1) = Append(Bodies(ms, N), Frame(m))
  <2> DEFINE x == Bodies(u, N + 1)
             y == Append(Bodies(ms, N), Frame(m))
  <2>1. \A i \in 1 .. N : Frame(ms[i]) \in Seq(FrameBytes)
    BY BodyIs, ElementOfSeq DEF N
  <2>2. Bodies(ms, N) \in Seq(Seq(FrameBytes)) /\ Len(Bodies(ms, N)) = N
        /\ \A i \in 1 .. N : Bodies(ms, N)[i] = Frame(ms[i])
    BY <1>1, <2>1 DEF Bodies
  <2>3. y \in Seq(Seq(FrameBytes)) /\ Len(y) = N + 1 /\ y[N + 1] = Frame(m)
        /\ \A i \in 1 .. N : y[i] = Frame(ms[i])
    <3> DEFINE bs == Bodies(ms, N)
    <3>1. bs \in Seq(Seq(FrameBytes)) /\ Len(bs) = N /\ \A i \in 1 .. N : bs[i] = Frame(ms[i])
      BY <2>2
    <3>2. Frame(m) \in Seq(FrameBytes)
      BY BodyIs
    <3> HIDE DEF bs
    <3>3. /\ Append(bs, Frame(m)) \in Seq(Seq(FrameBytes)) /\ Len(Append(bs, Frame(m))) = N + 1
          /\ Append(bs, Frame(m))[N + 1] = Frame(m)
          /\ \A i \in 1 .. N : Append(bs, Frame(m))[i] = bs[i]
      BY <3>1, <3>2, AppendProperties
    <3>4. QED
      BY <3>1, <3>3 DEF bs
  <2>4. ASSUME NEW i \in 1 .. N + 1 PROVE i = N + 1 \/ i \in 1 .. N
    BY <1>1
  <2>5. \A i \in 1 .. N + 1 : x[i] = Frame(u[i])
    BY DEF Bodies
  <2>6. \A i \in 1 .. N + 1 : Frame(u[i]) \in Seq(FrameBytes)
    <3>1. \A i \in 1 .. N + 1 : u[i] \in Messages
      BY <1>1, <2>4, ElementOfSeq DEF N
    <3>2. QED
      BY <3>1, BodyIs
  <2>7. x \in Seq(Seq(FrameBytes)) /\ Len(x) = N + 1
    <3>1. N + 1 \in Nat /\ x = [i \in 1 .. N + 1 |-> Frame(u[i])]
      BY <1>1 DEF Bodies
    <3>2. x \in [1 .. N + 1 -> Seq(FrameBytes)]
      BY <3>1, <2>6
    <3> HIDE DEF x
    <3>3. QED
      BY <3>1, <3>2, SMTT(60)
  <2> HIDE DEF x, y
  <2>8. \A i \in 1 .. Len(x) : x[i] = y[i]
    BY <1>1, <2>3, <2>4, <2>5, <2>7
  <2>9. x = y
    BY <2>3, <2>7, <2>8, SeqEqual
  <2>10. QED
    BY <2>9 DEF x, y
<1>4. QED
  BY <1>2, <1>3 DEF u, N

LEMMA ReadOkAppend ==
    ASSUME NEW ms \in Seq(Messages), NEW m \in Messages, NEW cuts, ReadOk(ms, cuts)
    PROVE  ReadOk(Append(ms, m), cuts)
<1> DEFINE u == Append(ms, m)
           v == Written(ms)
           w == Written(u)
           N == Len(ms)
           L == Len(v)
           F == Bodies(ms, N)
           b == Len(Frame(m))
<1>1. u \in Seq(Messages) /\ Len(u) = N + 1 /\ N \in Nat /\ v \in Seq(Bytes) /\ L \in Nat
  BY AppendProperties, LenProperties, WrittenType
<1>2. w = v \o Encode(m) /\ w \in Seq(Bytes) /\ Len(w) = L + b + 1 /\ b \in Nat
  <2>1. Encode(m) \in Seq(Bytes) /\ Len(Encode(m)) = b + 1 /\ b \in Nat
    BY EncodeIs
  <2>2. Len(v \o Encode(m)) = L + Len(Encode(m)) /\ v \o Encode(m) \in Seq(Bytes)
    BY <1>1, <2>1, ConcatProperties
  <2>3. w = v \o Encode(m)
    BY WrittenAppend
  <2> HIDE DEF w, v, L, b
  <2>4. Len(w) = L + b + 1
    BY <1>1, <2>1, <2>2, <2>3
  <2>5. QED
    BY <2>1, <2>2, <2>3, <2>4
<1>16. Len(w) \in Nat /\ L < Len(w) /\ L \in Nat
  <2> HIDE DEF w, v, L, b
  <2>1. QED
    BY <1>1, <1>2
<1>3. \A k \in 0 .. L : Got(w, k, cuts) = Got(v, k, cuts)
  BY <1>1, <1>2, EncodeIs, GotPrefix
<1>4. /\ \A k \in 0 .. L : Got(v, k, cuts).frames = Bodies(ms, Arrived(ms, k))
      /\ AllFit(ms) => Got(v, L, cuts) = [frame |-> <<>>, frames |-> F, error |-> "none"]
      /\ ~AllFit(ms) => Got(v, L, cuts).error # "none"
      /\ \A n \in 0 .. N : Len(Written(SubSeq(ms, 1, n))) <= L
  BY DEF ReadOk
<1>5. AllFit(ms) => /\ \A j \in 0 .. b : Within(m, F, j, Got(w, L + j, cuts))
                    /\ After(m, F, Got(w, L + b + 1, cuts))
  <2>1. SUFFICES ASSUME AllFit(ms)
                 PROVE  /\ \A j \in 0 .. b : Within(m, F, j, Got(w, L + j, cuts))
                        /\ After(m, F, Got(w, L + b + 1, cuts))
    OBVIOUS
  <2> DEFINE z == v \o Encode(m)
  <2>2. z = w /\ L \in 0 .. L
    BY <1>1, <1>2
  <2> HIDE DEF w, v, F
  <2>3. Got(z, Len(v), cuts) = [frame |-> <<>>, frames |-> F, error |-> "none"]
    BY <1>3, <1>4, <2>1, <2>2
  <2>4. /\ \A j \in 0 .. Len(Frame(m)) : Within(m, F, j, Got(z, Len(v) + j, cuts))
        /\ After(m, F, Got(z, Len(v) + Len(Frame(m)) + 1, cuts))
    BY <1>1, <2>3, MessageIsRead
  <2> HIDE DEF z
  <2>5. QED
    BY <2>2, <2>4
<1>6. ~AllFit(ms) => \A k \in L .. Len(w) : Got(w, k, cuts) = Got(v, L, cuts)
  <2>1. L \in 0 .. L /\ L \in 0 .. Len(w)
    BY <1>1, <1>2
  <2>2. ~AllFit(ms) => Got(w, L, cuts).error # "none"
    BY <1>3, <1>4, <2>1
  <2> HIDE DEF w, v
  <2>3. ~AllFit(ms) => \A k \in L .. Len(w) : Got(w, k, cuts) = Got(w, L, cuts)
    BY <1>2, <2>1, <2>2, ErrorsStay
  <2>4. QED
    BY <1>3, <2>1, <2>3
<1>17. L = Len(Written(ms))
  OBVIOUS
<1> HIDE DEF u, v, w, F, b, L
<1>7. \A n \in 0 .. Len(u) : Len(Written(SubSeq(u, 1, n))) <= Len(w)
  <2>1. ASSUME NEW n \in 0 .. Len(u) PROVE Len(Written(SubSeq(u, 1, n))) <= Len(w)
    <3>1. CASE n = N + 1
      <4>1. SubSeq(u, 1, n) = u
        BY <1>1, <3>1, SubSeqFull
      <4>2. Len(Written(SubSeq(u, 1, n))) = Len(w)
        BY <4>1 DEF w
      <4>3. QED
        BY <4>2, <1>16
    <3>2. CASE n # N + 1
      <4>1. n \in 0 .. N
        BY <1>1, <3>2
      <4>2. SubSeq(u, 1, n) = SubSeq(ms, 1, n)
        <5>1. u = ms \o <<m>> /\ <<m>> \in Seq(Messages)
          BY AppendIsConcat DEF u
        <5>2. CASE n = 0
          BY <5>2, SubSeqEmpty
        <5>3. CASE n # 0
          <6>1. 1 \in 1 .. Len(ms) /\ n \in 1 .. Len(ms)
            BY <4>1, <5>3, <1>1
          <6>2. QED
            BY <5>1, <6>1, SubSeqOfConcat1
        <5>4. QED
          BY <5>2, <5>3
      <4>3. Len(Written(SubSeq(ms, 1, n))) <= L
        BY <4>1, <1>4
      <4>4. SubSeq(ms, 1, n) \in Seq(Messages)
        <5>1. \A i \in 1 .. n : ms[i] \in Messages
          BY <4>1, <1>1, ElementOfSeq
        <5>2. QED
          BY <5>1, <1>1, <4>1, SubSeqProperties
      <4>5. Len(Written(SubSeq(ms, 1, n))) \in Nat
        BY <4>4, WrittenType, LenProperties
      <4>6. Len(Written(SubSeq(ms, 1, n))) <= Len(w)
        BY ONLY <4>3, <4>5, <1>16
      <4>7. QED
        BY <4>2, <4>6
    <3>3. QED
      BY <3>1, <3>2
  <2>2. QED
    BY <2>1
<1>8. ASSUME NEW k \in 0 .. Len(w), NEW a \in 0 .. N, Arrived(ms, k) = a,
             ~(k = Len(w) /\ AllFit(ms) /\ Fits(m))
      PROVE  Arrived(u, k) = a
  <2>1. k \in Nat /\ (Len(w) <= k => k = Len(w))
    BY <1>16
  <2>2. Complete(ms, k, a) /\ \A n \in 0 .. N : Complete(ms, k, n) => n <= a
    BY <1>8, <2>1, ArrivedIs
  <2>3. ~Complete(u, k, N + 1)
    BY <1>8, <2>1, CompleteAppend DEF u, w
  <2>4. \A n \in 0 .. N : Complete(u, k, n) <=> Complete(ms, k, n)
    BY <2>1, CompleteAppend DEF u
  <2>5. \A n \in 0 .. Len(u) : Complete(u, k, n) => n <= a
    <3>1. \A n \in 0 .. Len(u) : n \in 0 .. N \/ n = N + 1
      BY <1>1
    <3>2. QED
      BY <3>1, <2>2, <2>3, <2>4
  <2>6. a \in 0 .. Len(u) /\ Complete(u, k, a)
    BY <1>1, <2>2, <2>4
  <2>7. QED
    BY <1>1, <2>1, <2>5, <2>6, ArrivedUnique
<1>9. ASSUME NEW k \in 0 .. Len(w), k >= L, AllFit(ms) PROVE Arrived(ms, k) = N
  <2>1. SubSeq(ms, 1, N) = ms
    BY SubSeqFull
  <2>2. Complete(ms, k, N)
    <3>1. N \in 0 .. Len(ms) /\ Len(Written(SubSeq(ms, 1, N))) <= k
      <4>1. Len(Written(SubSeq(ms, 1, N))) = L
        BY <2>1, <1>17
      <4>2. QED
        BY <4>1, <1>1, <1>9
    <3>2. QED
      BY <3>1, <1>9 DEF Complete, AllFit
  <2>3. \A n \in 0 .. N : n <= N
    BY <1>1
  <2>4. N \in 0 .. N /\ k \in Nat
    BY <1>1, <1>2, <1>16
  <2>5. QED
    BY <2>2, <2>3, <2>4, ArrivedUnique
<1>10. ASSUME NEW k \in 0 .. Len(w), k >= L PROVE Arrived(ms, k) = Arrived(ms, L)
  <2>1. k \in Nat /\ L \in Nat
    BY <1>16
  <2>2. \A n \in 0 .. N : Complete(ms, L, n) <=> Complete(ms, k, n)
    <3>1. ASSUME NEW n \in 0 .. N PROVE Len(Written(SubSeq(ms, 1, n))) <= L /\ Len(Written(SubSeq(ms, 1, n))) <= k
      <4>1. SubSeq(ms, 1, n) \in Seq(Messages)
        <5>1. \A i \in 1 .. n : ms[i] \in Messages
          BY <1>1, ElementOfSeq
        <5>2. QED
          BY <5>1, <1>1, SubSeqProperties
      <4>2. Len(Written(SubSeq(ms, 1, n))) \in Nat
        BY <4>1, WrittenType, LenProperties
      <4>3. Len(Written(SubSeq(ms, 1, n))) <= L
        BY <1>4
      <4>4. QED
        BY <2>1, <1>10, <4>2, <4>3
    <3>2. QED
      BY <3>1 DEF Complete
  <2>3. Arrived(ms, k) \in 0 .. N
    BY <2>1, ArrivedIs DEF Complete
  <2>4. Complete(ms, L, Arrived(ms, k)) /\ \A n \in 0 .. N : Complete(ms, L, n) => n <= Arrived(ms, k)
    BY <2>1, <2>2, <2>3, ArrivedIs
  <2>5. QED
    BY <2>1, <2>3, <2>4, ArrivedUnique
<1>11. \A k \in 0 .. Len(w) : Arrived(ms, k) \in 0 .. N
  <2>1. \A k \in 0 .. Len(w) : k \in Nat
    BY <1>1, <1>2, <1>16
  <2>2. QED
    BY <2>1, ArrivedIs DEF Complete
<1>12. \A n \in 0 .. N : Bodies(u, n) = Bodies(ms, n)
  BY BodiesAppend DEF u
<1>13. ASSUME NEW k \in 0 .. Len(w) PROVE Got(w, k, cuts).frames = Bodies(u, Arrived(u, k))
  <2>1. CASE k <= L /\ k # Len(w)
    <3>1. k \in 0 .. L
      BY <2>1, <1>1, <1>2
    <3>2. Got(w, k, cuts).frames = Bodies(ms, Arrived(ms, k))
      BY <3>1, <1>3, <1>4
    <3>3. Arrived(u, k) = Arrived(ms, k)
      BY <1>8, <1>11, <2>1
    <3>4. QED
      BY <3>2, <3>3, <1>11, <1>12
  <2>2. CASE k > L /\ ~AllFit(ms)
    <3>1. Got(w, k, cuts) = Got(v, L, cuts) /\ L \in 0 .. L
      BY <2>2, <1>1, <1>2, <1>6
    <3>2. Got(w, k, cuts).frames = Bodies(ms, Arrived(ms, k))
      <4>1. Arrived(ms, k) = Arrived(ms, L)
        BY <2>2, <1>10, <1>16
      <4>2. Got(v, L, cuts).frames = Bodies(ms, Arrived(ms, L))
        BY <3>1, <1>4
      <4>3. QED
        BY <3>1, <4>1, <4>2
    <3>3. Arrived(u, k) = Arrived(ms, k)
      BY <1>8, <1>11, <2>2
    <3>4. QED
      BY <3>2, <3>3, <1>11, <1>12
  <2>3. CASE k > L /\ k # Len(w) /\ AllFit(ms)
    <3> DEFINE j == k - L
    <3>1. j \in 0 .. b /\ k = L + j
      BY <2>3, <1>1, <1>2, <1>16
    <3> HIDE DEF j
    <3>2. Got(w, k, cuts).frames = F
      BY <3>1, <2>3, <1>5 DEF Within
    <3>3. Arrived(u, k) = N
      BY <2>3, <1>16, <1>1, <1>8, <1>9, <1>11
    <3>4. N \in 0 .. N
      BY <1>1
    <3>5. QED
      BY <3>2, <3>3, <3>4, <1>12 DEF F
  <2>4. CASE k = Len(w) /\ AllFit(ms) /\ ~Fits(m)
    <3>1. Got(w, k, cuts).frames = F
      BY <2>4, <1>2, <1>5 DEF After
    <3>2. Arrived(u, k) = N
      BY <2>4, <1>16, <1>8, <1>9, <1>11
    <3>3. N \in 0 .. N
      BY <1>1
    <3>4. QED
      BY <3>1, <3>2, <3>3, <1>12 DEF F
  <2>5. CASE k = Len(w) /\ AllFit(ms) /\ Fits(m)
    <3>1. Got(w, k, cuts).frames = Append(F, Frame(m))
      BY <2>5, <1>2, <1>5 DEF After
    <3>2. Arrived(u, k) = N + 1
      <4>1. Complete(u, k, N + 1) /\ k \in Nat
        <5>1. Len(w) <= k /\ k \in Nat
          BY <2>5, <1>1, <1>2
        <5>2. QED
          BY <5>1, <2>5, CompleteAppend DEF u, w
      <4>2. N + 1 \in 0 .. Len(u) /\ \A n \in 0 .. Len(u) : n <= N + 1
        BY <1>1
      <4>3. QED
        BY <1>1, <4>1, <4>2, ArrivedUnique
    <3>3. QED
      BY <3>1, <3>2, BodiesAppend DEF u, F
  <2>6. QED
    BY <2>1, <2>2, <2>3, <2>4, <2>5, <1>1, <1>2
<1>14. /\ AllFit(u) <=> AllFit(ms) /\ Fits(m)
       /\ AllFit(u) => Got(w, Len(w), cuts) = [frame |-> <<>>, frames |-> Bodies(u, Len(u)), error |-> "none"]
       /\ ~AllFit(u) => Got(w, Len(w), cuts).error # "none"
  <2>1. AllFit(u) <=> AllFit(ms) /\ Fits(m)
    <3>1. \A i \in 1 .. N : u[i] = ms[i] /\ i \in 1 .. Len(u)
      BY AppendProperties, <1>1 DEF u
    <3>2. u[N + 1] = m /\ N + 1 \in 1 .. Len(u)
      BY AppendProperties, <1>1 DEF u
    <3>3. \A i \in 1 .. Len(u) : i \in 1 .. N \/ i = N + 1
      BY <1>1
    <3>4. QED
      BY <3>1, <3>2, <3>3 DEF AllFit
  <2>2. AllFit(ms) => After(m, F, Got(w, Len(w), cuts))
    BY <1>2, <1>5
  <2>3. Bodies(u, Len(u)) = Append(F, Frame(m))
    BY <1>1, BodiesAppend DEF u, F
  <2>4. ~AllFit(ms) => Got(w, Len(w), cuts).error # "none"
    <3>1. Len(w) \in L .. Len(w)
      BY <1>1, <1>2, <1>16
    <3>2. QED
      BY <3>1, <1>4, <1>6
  <2>5. QED
    BY <2>1, <2>2, <2>3, <2>4 DEF After
<1>15. QED
  BY <1>7, <1>13, <1>14 DEF ReadOk, u, w

LEMMA AllIsRead ==
    ASSUME NEW ms \in Seq(Messages), NEW cuts
    PROVE  ReadOk(ms, cuts)
<1> DEFINE T == {us \in Seq(Messages) : ReadOk(us, cuts)}
<1>1. <<>> \in T
  <2>1. <<>> \in Seq(Messages) /\ Written(<<>>) = <<>> /\ Len(<<>>) = 0
    BY WrittenEmpty, EmptySeq
  <2>2. AllFit(<<>>)
    BY <2>1 DEF AllFit
  <2>3. Arrived(<<>>, 0) = 0
    <3>1. Complete(<<>>, 0, Arrived(<<>>, 0)) /\ 0 \in Nat
      BY <2>1, ArrivedIs
    <3>2. Arrived(<<>>, 0) \in 0 .. Len(<<>>)
      BY <3>1 DEF Complete
    <3>3. QED
      BY <3>2, <2>1
  <2>4. Bodies(<<>>, 0) = <<>>
    BY DEF Bodies
  <2>5. Got(<<>>, 0, cuts) = [frame |-> <<>>, frames |-> <<>>, error |-> "none"]
    BY GotNothing DEF Reading
  <2>6. \A n \in 0 .. 0 : n = 0 /\ Len(Written(SubSeq(<<>>, 1, n))) = 0
    <3>1. SubSeq(<<>>, 1, 0) = <<>>
      BY SubSeqEmpty
    <3>2. ASSUME NEW n \in 0 .. 0 PROVE n = 0
      OBVIOUS
    <3>3. Len(Written(SubSeq(<<>>, 1, 0))) = 0
      BY <2>1, <3>1
    <3>4. QED
      BY <3>2, <3>3
  <2>7. ReadOk(<<>>, cuts)
    <3>1. \A n \in 0 .. 0 : Len(Written(SubSeq(<<>>, 1, n))) <= 0
      BY <2>6
    <3>2. \A k \in 0 .. 0 : Got(<<>>, k, cuts).frames = Bodies(<<>>, Arrived(<<>>, k))
      <4>1. \A k \in 0 .. 0 : k = 0
        OBVIOUS
      <4>2. QED
        BY <4>1, <2>3, <2>4, <2>5
    <3>3. QED
      BY <2>1, <2>2, <2>4, <2>5, <3>1, <3>2 DEF ReadOk
  <2>8. QED
    BY <2>1, <2>7
<1>2. ASSUME NEW us \in Seq(Messages), NEW m \in Messages, us \in T PROVE Append(us, m) \in T
  BY <1>2, ReadOkAppend, AppendProperties
<1>3. \A us \in Seq(Messages) : us \in T
  <2> HIDE DEF T
  <2>1. QED
    BY <1>1, <1>2, SeqInduction
<1>4. QED
  BY <1>3

LEMMA RequestDecodes ==
    ASSUME NEW m \in Messages, Fits(m)
    PROVE  LET decoded == DecodeRequest(Frame(m))
           IN  (IF "refused" \in DOMAIN decoded THEN Error(decoded.refused) ELSE Echo(decoded.request))
                 = Owed(m)
<1> DEFINE decoded == DecodeRequest(Frame(m))
<1>1. ~(Len(Frame(m)) > MaxMessageBytes)
  BY EncodeIs, WireAssumption
<1>2. Parse(Frame(m), RequestKinds) =
        IF m.kind \in RequestKinds THEN [ok |-> TRUE, message |-> m] ELSE [ok |-> FALSE]
  BY BodyParses
<1>3. CASE m.kind \notin RequestKinds
  <2>1. decoded = [refused |-> "INVALID_REQUEST"]
    BY <1>2, <1>3 DEF DecodeRequest
  <2>2. "refused" \in DOMAIN decoded /\ decoded.refused = "INVALID_REQUEST"
    BY <2>1
  <2>3. Owed(m) = Error("INVALID_REQUEST")
    BY <1>3 DEF Owed
  <2>4. QED
    BY <2>2, <2>3
<1>4. CASE m.kind \in RequestKinds /\ m.version # PROTOCOL_VERSION
  <2>1. decoded = [refused |-> "UNSUPPORTED_PROTOCOL"]
    BY <1>1, <1>2, <1>4 DEF DecodeRequest
  <2>2. "refused" \in DOMAIN decoded /\ decoded.refused = "UNSUPPORTED_PROTOCOL"
    BY <2>1
  <2>3. Owed(m) = Error("UNSUPPORTED_PROTOCOL")
    BY <1>4 DEF Owed
  <2>4. QED
    BY <2>2, <2>3
<1>5. CASE m.kind \in RequestKinds /\ m.version = PROTOCOL_VERSION
  <2>1. decoded = [request |-> m]
    BY <1>1, <1>2, <1>5 DEF DecodeRequest
  <2>2. "refused" \notin DOMAIN decoded /\ decoded.request = m
    BY <2>1
  <2>3. Owed(m) = Echo(m)
    BY <1>5 DEF Owed
  <2>4. QED
    BY <2>2, <2>3
<1>6. QED
  BY <1>3, <1>4, <1>5

\* Any number of requests on one connection, with texts of any length, wherever the reads
\* fall and wherever the client dies: those that arrived whole are answered in order and
\* by what they say, up to the first that is too long for a frame (serve_client,
\* read_frame, decode_request).
THEOREM RequestsAreServed ==
    ASSUME NEW ms \in Seq(Messages), NEW k \in 0 .. Len(Written(ms)), NEW cuts
    PROVE  ServesWhatArrived(ms, k, cuts)
<1> DEFINE stream == Chunked(Written(ms), k, cuts)
           n == Arrived(ms, k)
<1>1. k \in Nat
  BY WrittenType, LenProperties
<1>2. n \in 0 .. Len(ms) /\ \A i \in 1 .. n : Fits(ms[i])
  BY <1>1, ArrivedIs DEF Complete
<1>3. \A i \in 1 .. n : ms[i] \in Messages
  BY <1>2, LenProperties, ElementOfSeq
<1>4. ReadFrames(stream).frames = Bodies(ms, n)
  <2>1. ReadOk(ms, cuts)
    BY AllIsRead
  <2>2. Got(Written(ms), k, cuts).frames = Bodies(ms, n)
    BY <2>1 DEF ReadOk
  <2>3. QED
    BY <2>2, FramesAre
<1>5. DOMAIN Bodies(ms, n) = 1 .. n /\ \A i \in 1 .. n : Bodies(ms, n)[i] = Frame(ms[i])
  BY DEF Bodies
<1> HIDE DEF stream, n
<1>6. Serve(stream) =
        [i \in 1 .. n |-> LET decoded == DecodeRequest(Frame(ms[i]))
                          IN  IF "refused" \in DOMAIN decoded THEN Error(decoded.refused)
                              ELSE Echo(decoded.request)]
  BY <1>4, <1>5 DEF Serve
<1>7. Serve(stream) = [i \in 1 .. n |-> Owed(ms[i])]
  BY <1>2, <1>3, <1>6, RequestDecodes
<1>8. QED
  BY <1>7 DEF ServesWhatArrived, stream, n

LEMMA RequestsHold == RequestsArriveWhole
<1>1. \A t \in Texts : t \in Seq(Chars)
  <2>1. ASSUME NEW n \in 0 .. 2, NEW t \in [1 .. n -> {"a", "lf", "wide"}] PROVE t \in Seq(Chars)
    <3>1. t \in [1 .. n -> Chars] /\ n \in Nat
      BY {"a", "lf", "wide"} \subseteq Chars DEF Chars, Pairs, Plain
    <3>2. QED
      BY <3>1, SeqDef
  <2>2. QED
    BY <2>1 DEF Texts
<1>2. Sent \subseteq Messages
  <2>1. <<>> \in Seq(Chars)
    BY EmptySeq
  <2>2. QED
    <3>1. \A t \in Texts : Message("v1", "SUBMIT", t) \in Messages
      BY <1>1 DEF Message, Messages, Versions, Kinds, RequestKinds
    <3>2. Message("v1", "PING", <<>>) \in Messages /\ Message("v2", "PING", <<>>) \in Messages
          /\ Message("v2", "LATER", <<>>) \in Messages
      BY <2>1 DEF Message, Messages, Versions, Kinds, RequestKinds
    <3>3. QED
      BY <3>1, <3>2 DEF Sent
<1>3. ASSUME NEW one \in Sent, NEW two \in Sent PROVE <<one, two>> \in Seq(Messages)
  <2>1. one \in Messages /\ two \in Messages
    BY <1>2
  <2>2. QED
    BY <2>1
<1>4. QED
  BY <1>3, RequestsAreServed DEF RequestsArriveWhole

-----------------------------------------------------------------------------
(* TextsOf and their lines.                                                  *)

\* The parts of a text over the alphabet C: at least one.
Parted(C) == {l \in Seq(Seq(C)) : Len(l) # 0}

Whole == << <<>> >>

SplitStep(C) == [p \in Parted(C) \X C |-> Extend(p[1], p[2])]

LEMMA WholeIsParted == \A C : Whole \in Parted(C)
<1>1. ASSUME NEW C PROVE Whole \in Parted(C)
  <2>1. <<>> \in Seq(C)
    BY EmptySeq
  <2>2. << <<>> >> \in Seq(Seq(C)) /\ Len(<< <<>> >>) = 1
    BY <2>1
  <2>3. QED
    BY <2>2 DEF Whole, Parted
<1>2. QED
  BY <1>1

\* The last of the parts, and those before it.
LEMMA LastPart ==
    ASSUME NEW E, NEW l \in Seq(E), Len(l) # 0
    PROVE  /\ Front(l) \in Seq(E) /\ l[Len(l)] \in E /\ l = Append(Front(l), l[Len(l)])
           /\ Last(l) = l[Len(l)] /\ Len(Front(l)) = Len(l) - 1
<1>1. PICK f \in Seq(E), e \in E : l = Append(f, e)
  BY SequenceEmptyOrAppend
<1>2. /\ Len(l) = Len(f) + 1 /\ l[Len(l)] = e /\ Len(f) \in Nat /\ Len(l) \in Nat
      /\ \A i \in 1 .. Len(f) : l[i] = f[i]
  BY <1>1, AppendProperties, LenProperties
<1>3. Front(l) = f
  <2>1. Front(l) = [i \in 1 .. Len(l) - 1 |-> l[i]]
    BY <1>2 DEF Front
  <2>2. f = [i \in 1 .. Len(f) |-> f[i]]
    OBVIOUS
  <2>3. QED
    BY <1>2, <2>1, <2>2
<1>4. QED
  BY <1>1, <1>2, <1>3 DEF Last

LEMMA ExtendIs ==
    ASSUME NEW E, NEW f \in Seq(Seq(E)), NEW t \in Seq(E), NEW c \in E
    PROVE  Extend(Append(f, t), c) =
             IF c = "lf" THEN Append(Append(f, t), <<>>) ELSE Append(f, Append(t, c))
<1> DEFINE l == Append(f, t)
           m == [l EXCEPT ![Len(l)] = Append(@, c)]
           n == Append(f, Append(t, c))
<1>1. /\ l \in Seq(Seq(E)) /\ Len(l) = Len(f) + 1 /\ l[Len(l)] = t /\ Len(f) \in Nat
      /\ \A i \in 1 .. Len(f) : l[i] = f[i]
  BY AppendProperties, LenProperties
<1>2. Append(t, c) \in Seq(E)
  BY AppendProperties
<1>3. /\ n \in Seq(Seq(E)) /\ Len(n) = Len(f) + 1 /\ n[Len(f) + 1] = Append(t, c)
      /\ \A i \in 1 .. Len(f) : n[i] = f[i]
  BY <1>2, AppendProperties
<1> HIDE DEF l, n
<1>4. m \in Seq(Seq(E)) /\ Len(m) = Len(l)
  BY <1>1, <1>2
<1>5. ASSUME NEW i \in 1 .. Len(l) PROVE m[i] = n[i]
  <2>1. DOMAIN l = 1 .. Len(l) /\ (i = Len(l) \/ i \in 1 .. Len(f))
    BY <1>1
  <2>2. m[i] = IF i = Len(l) THEN Append(l[i], c) ELSE l[i]
    BY <2>1
  <2>3. QED
    BY <1>1, <1>3, <2>1, <2>2, SMTT(60)
<1> HIDE DEF m
<1>6. m = n
  BY <1>1, <1>3, <1>4, <1>5, SeqEqual
<1>7. QED
  BY <1>6 DEF Extend, l, m, n

LEMMA ExtendType ==
    ASSUME NEW C, NEW s \in Parted(C), NEW b \in C
    PROVE  Extend(s, b) \in Parted(C)
<1>1. s \in Seq(Seq(C)) /\ Len(s) # 0
  BY DEF Parted
<1>2. PICK f \in Seq(Seq(C)), t \in Seq(C) : s = Append(f, t)
  BY <1>1, SequenceEmptyOrAppend
<1>3. Extend(s, b) = IF b = "lf" THEN Append(s, <<>>) ELSE Append(f, Append(t, b))
  BY <1>2, ExtendIs
<1>4. Append(t, b) \in Seq(C) /\ <<>> \in Seq(C)
  BY <1>2, AppendProperties, EmptySeq
<1>5. /\ Append(s, <<>>) \in Seq(Seq(C)) /\ Len(Append(s, <<>>)) = Len(s) + 1
      /\ Append(f, Append(t, b)) \in Seq(Seq(C)) /\ Len(Append(f, Append(t, b))) = Len(f) + 1
  BY <1>1, <1>2, <1>4, AppendProperties
<1>6. Len(s) + 1 # 0 /\ Len(f) + 1 # 0
  BY <1>1, <1>2, LenProperties
<1>7. Append(s, <<>>) \in Parted(C) /\ Append(f, Append(t, b)) \in Parted(C)
  BY <1>5, <1>6 DEF Parted
<1>8. QED
  BY <1>3, <1>7

LEMMA SplitFolds ==
    ASSUME NEW C, NEW s \in Seq(C)
    PROVE  Folding(Parted(C), SplitStep(C), Whole, s, FoldLeft(Extend, Whole, s))
<1> DEFINE N == Len(s)
           Of(f) == [d \in SUBSET (DOMAIN s) |->
                       IF d = {} THEN Whole ELSE Extend(f[d \ {Max(d)}], s[Max(d)])]
           iter == CHOOSE f : f = Of(f)
<1>1. SplitStep(C) \in [Parted(C) \X C -> Parted(C)]
  BY ExtendType DEF SplitStep
<1>2. Whole \in Parted(C)
  BY WholeIsParted
<1>3. N \in Nat /\ DOMAIN s = 1 .. N /\ (\A i \in 1 .. N : s[i] \in C)
      /\ s \in [1 .. N -> C]
  BY LenProperties, ElementOfSeq
<1>4. \E f : f = Of(f)
  <2>1. PICK g \in [SUBSET (1 .. N) -> Parted(C)] :
          \A d \in SUBSET (1 .. N) :
             g[d] = IF d = {} THEN Whole ELSE SplitStep(C)[<<g[d \ {Max(d)}], s[Max(d)]>>]
    <3>1. \E g \in [SUBSET (1 .. N) -> Parted(C)] : FoldFunctionOf(SplitStep(C), Whole, s, N, g)
      BY ONLY <1>1, <1>2, <1>3, FoldExists
    <3>2. QED
      BY <3>1 DEF FoldFunctionOf
  <2>2. ASSUME NEW d \in SUBSET (1 .. N)
        PROVE  g[d] = IF d = {} THEN Whole ELSE Extend(g[d \ {Max(d)}], s[Max(d)])
    <3>1. CASE d = {}
      BY <2>1, <3>1
    <3>2. CASE d # {}
      <4>1. Max(d) \in 1 .. N
        BY <1>3, <3>2, MaxIsGreatest
      <4>2. g[d \ {Max(d)}] \in Parted(C) /\ s[Max(d)] \in C
        BY <1>3, <4>1
      <4>3. SplitStep(C)[<<g[d \ {Max(d)}], s[Max(d)]>>] = Extend(g[d \ {Max(d)}], s[Max(d)])
        BY <4>2 DEF SplitStep
      <4>4. QED
        BY <2>1, <3>2, <4>3
    <3>3. QED
      BY <3>1, <3>2
  <2>3. g = [d \in SUBSET (1 .. N) |-> g[d]]
    OBVIOUS
  <2>4. g = Of(g)
    BY <1>3, <2>2, <2>3
  <2>5. QED
    BY <2>4
<1>5. iter = Of(iter)
  BY <1>4
<1>6. FoldLeft(Extend, Whole, s) = iter[1 .. N]
  BY <1>3 DEF FoldLeft, MapThenFoldSet
<1> HIDE DEF iter
<1>7. \A d \in SUBSET (1 .. N) :
        iter[d] = IF d = {} THEN Whole ELSE Extend(iter[d \ {Max(d)}], s[Max(d)])
  BY <1>3, <1>5
<1>8. iter[1 .. 0] = Whole
  <2>1. 1 .. 0 = {} /\ 1 .. 0 \in SUBSET (1 .. N)
    OBVIOUS
  <2>2. QED
    BY <1>7, <2>1
<1>9. ASSUME NEW n \in 1 .. N, iter[1 .. n - 1] \in Parted(C)
      PROVE  iter[1 .. n] = SplitStep(C)[<<iter[1 .. n - 1], s[n]>>]
  <2>1. Max(1 .. n) = n /\ (1 .. n) \ {n} = 1 .. n - 1
    BY MaxOfInterval
  <2>2. 1 .. n \in SUBSET (1 .. N) /\ 1 .. n # {}
    <3>1. n \in 1 .. n /\ \A i \in 1 .. n : i \in 1 .. N
      BY <1>3
    <3>2. QED
      BY <3>1
  <2>3. iter[1 .. n] = Extend(iter[1 .. n - 1], s[n])
    BY <1>7, <2>1, <2>2
  <2>4. QED
    BY <1>3, <1>9, <2>3 DEF SplitStep
<1>10. Folding(Parted(C), SplitStep(C), Whole, s, iter[1 .. Len(s)])
  <2>1. \A n \in 1 .. Len(s) : iter[1 .. n - 1] \in Parted(C)
                               => iter[1 .. n] = SplitStep(C)[<<iter[1 .. n - 1], s[n]>>]
    BY <1>9
  <2>2. QED
    BY ONLY <1>1, <1>2, <1>8, <2>1, ChosenFolds
<1>11. QED
  BY <1>6, <1>10

LEMMA SplitAppend ==
    ASSUME NEW C, NEW s \in Seq(C), NEW b \in C
    PROVE  SplitLines(Append(s, b)) = Extend(SplitLines(s), b)
<1>1. Append(s, b) \in Seq(C)
  BY AppendProperties
<1>2. /\ Folding(Parted(C), SplitStep(C), Whole, s, SplitLines(s))
      /\ Folding(Parted(C), SplitStep(C), Whole, Append(s, b), SplitLines(Append(s, b)))
  BY <1>1, SplitFolds DEF SplitLines, Whole
<1>3. SplitLines(Append(s, b)) = SplitStep(C)[<<SplitLines(s), b>>]
  BY <1>2, FoldingAppend
<1>4. SplitLines(s) \in Parted(C)
  BY <1>2, FoldingType
<1>5. QED
  BY <1>3, <1>4 DEF SplitStep

LEMMA SplitEmpty == SplitLines(<<>>) = Whole
<1> DEFINE C == {}
<1>1. <<>> \in Seq(C)
  BY EmptySeq
<1>2. Folding(Parted(C), SplitStep(C), Whole, <<>>, SplitLines(<<>>))
  BY <1>1, SplitFolds DEF SplitLines, Whole
<1>3. QED
  BY <1>2, FoldingEmpty

-----------------------------------------------------------------------------
(* How often a character is in a text.                                     *)

LEMMA CountEmpty == \A c : Count(<<>>, c) = 0
<1>1. ASSUME NEW c PROVE Count(<<>>, c) = 0
  <2>1. {i \in DOMAIN <<>> : <<>>[i] = c} = {}
    OBVIOUS
  <2>2. QED
    BY <2>1, FS_EmptySet DEF Count
<1>2. QED
  BY <1>1

LEMMA CountType ==
    ASSUME NEW E, NEW s \in Seq(E), NEW c
    PROVE  Count(s, c) \in Nat /\ IsFiniteSet({i \in DOMAIN s : s[i] = c})
<1>1. IsFiniteSet(1 .. Len(s)) /\ DOMAIN s = 1 .. Len(s)
  BY FS_Interval, LenProperties
<1>2. IsFiniteSet({i \in DOMAIN s : s[i] = c})
  BY <1>1, FS_Subset
<1>3. QED
  BY <1>2, FS_CardinalityType DEF Count

LEMMA CountAppend ==
    ASSUME NEW E, NEW s \in Seq(E), NEW e \in E, NEW c
    PROVE  Count(Append(s, e), c) = Count(s, c) + IF e = c THEN 1 ELSE 0
<1> DEFINE n == Len(s)
           a == Append(s, e)
           S == {i \in DOMAIN s : s[i] = c}
           T == {i \in DOMAIN a : a[i] = c}
<1>1. /\ n \in Nat /\ DOMAIN s = 1 .. n /\ DOMAIN a = 1 .. n + 1 /\ a[n + 1] = e
      /\ \A i \in 1 .. n : a[i] = s[i]
  BY AppendProperties, LenProperties
<1>2. Count(s, c) \in Nat /\ IsFiniteSet(S)
  BY CountType
<1> HIDE DEF a
<1>3. T = IF e = c THEN S \cup {n + 1} ELSE S
  BY <1>1
<1>4. n + 1 \notin S
  BY <1>1
<1> HIDE DEF S, T
<1>5. Cardinality(S \cup {n + 1}) = Cardinality(S) + 1
  BY <1>2, <1>4, FS_AddElement
<1>6. Count(a, c) = Cardinality(T) /\ Count(s, c) = Cardinality(S)
  BY DEF Count, S, T
<1>7. QED
  BY <1>2, <1>3, <1>5, <1>6 DEF a

LEMMA CountJoin ==
    ASSUME NEW E, NEW s \in Seq(E), NEW t \in Seq(E), NEW c
    PROVE  Count(s \o t, c) = Count(s, c) + Count(t, c)
<1> DEFINE Joins(u) == Count(s \o u, c) = Count(s, c) + Count(u, c)
           T == {u \in Seq(E) : Joins(u)}
<1>1. <<>> \in T
  <2>1. s \o <<>> = s /\ Count(<<>>, c) = 0 /\ Count(s, c) \in Nat /\ <<>> \in Seq(E)
    BY ConcatEmptySeq, CountEmpty, CountType, EmptySeq
  <2>2. QED
    BY <2>1
<1>2. ASSUME NEW u \in Seq(E), NEW e \in E, u \in T PROVE Append(u, e) \in T
  <2>1. s \o Append(u, e) = Append(s \o u, e) /\ s \o u \in Seq(E) /\ Append(u, e) \in Seq(E)
    <3>1. /\ Append(u, e) = u \o <<e>> /\ <<e>> \in Seq(E) /\ s \o u \in Seq(E)
          /\ Append(u, e) \in Seq(E)
      BY AppendIsConcat, AppendProperties, ConcatProperties
    <3>2. s \o (u \o <<e>>) = (s \o u) \o <<e>>
      BY <3>1, ConcatAssociative
    <3>3. QED
      BY <3>1, <3>2, AppendIsConcat
  <2>2. /\ Count(Append(s \o u, e), c) = Count(s \o u, c) + (IF e = c THEN 1 ELSE 0)
        /\ Count(Append(u, e), c) = Count(u, c) + (IF e = c THEN 1 ELSE 0)
    <3>1. \A w \in Seq(E) : Count(Append(w, e), c) = Count(w, c) + (IF e = c THEN 1 ELSE 0)
      BY CountAppend
    <3>2. QED
      BY <2>1, <3>1
  <2>3. Count(s, c) \in Nat /\ Count(u, c) \in Nat /\ Count(s \o u, c) = Count(s, c) + Count(u, c)
    BY <1>2, CountType
  <2>4. Joins(Append(u, e))
    BY <2>1, <2>2, <2>3
  <2> HIDE DEF Joins
  <2>5. QED
    BY <2>1, <2>4
<1>3. \A u \in Seq(E) : u \in T
  <2> HIDE DEF T
  <2>1. QED
    BY <1>1, <1>2, SeqInduction
<1>4. QED
  BY <1>3

LEMMA CountOne ==
    ASSUME NEW E, NEW e \in E, NEW c
    PROVE  Count(<<e>>, c) = IF e = c THEN 1 ELSE 0
<1> DEFINE o == <<>>
<1>1. Append(o, e) = <<e>> /\ o \in Seq(E) /\ Count(o, c) = 0
  BY EmptySeq, CountEmpty
<1> HIDE DEF o
<1>2. \A w \in Seq(E) : Count(Append(w, e), c) = Count(w, c) + (IF e = c THEN 1 ELSE 0)
  BY CountAppend
<1>3. Count(<<e>>, c) = 0 + (IF e = c THEN 1 ELSE 0)
  BY <1>1, <1>2
<1>4. QED
  BY <1>3

-----------------------------------------------------------------------------
(* Splitting a text into lines loses its line feeds and nothing else.      *)

LEMMA SplitType == ASSUME NEW C, NEW t \in Seq(C) PROVE SplitLines(t) \in Parted(C)
<1>1. Folding(Parted(C), SplitStep(C), Whole, t, SplitLines(t))
  BY SplitFolds DEF SplitLines, Whole
<1>2. QED
  BY <1>1, FoldingType

LEMMA SplitKeeps ==
    ASSUME NEW C, NEW t \in Seq(C), NEW c, c # "lf"
    PROVE  Count(FlattenSeq(SplitLines(t)), c) = Count(t, c)
<1> DEFINE Keeps(u) == Count(FlattenSeq(SplitLines(u)), c) = Count(u, c)
           T == {u \in Seq(C) : Keeps(u)}
<1>1. <<>> \in T
  <2>1. SplitLines(<<>>) = << <<>> >> /\ <<>> \in Seq(C) /\ <<>> \in Seq(Seq(C))
    BY SplitEmpty, EmptySeq DEF Whole
  <2>2. \A v \in Seq(Seq(C)), w \in Seq(C) : FlattenSeq(Append(v, w)) = FlattenSeq(v) \o w
    BY FlattenAppend
  <2>3. FlattenSeq(<< <<>> >>) = <<>>
    <3> DEFINE o == <<>>
    <3>1. /\ o \in Seq(C) /\ o \in Seq(Seq(C)) /\ Append(o, o) = << <<>> >>
          /\ FlattenSeq(o) = o /\ o \o o = o
      BY <2>1, FlattenEmpty, ConcatEmptySeq
    <3> HIDE DEF o
    <3>2. FlattenSeq(Append(o, o)) = o
      BY <2>2, <3>1
    <3>3. QED
      BY <3>1, <3>2 DEF o
  <2>4. QED
    BY <2>1, <2>3
<1>2. ASSUME NEW u \in Seq(C), NEW e \in C, u \in T PROVE Append(u, e) \in T
  <2> DEFINE l == SplitLines(u)
  <2>1. l \in Seq(Seq(C)) /\ Len(l) # 0
    BY SplitType DEF Parted
  <2>2. SplitLines(Append(u, e)) = Extend(l, e)
    BY SplitAppend
  <2>3. Count(FlattenSeq(l), c) = Count(u, c) /\ Count(u, c) \in Nat
    BY <1>2, CountType
  <2>4. Count(Append(u, e), c) = Count(u, c) + (IF e = c THEN 1 ELSE 0)
    BY CountAppend
  <2>5. FlattenSeq(l) \in Seq(C)
    BY <2>1, FlattenType
  <2> HIDE DEF l
  <2>6. PICK f \in Seq(Seq(C)), p \in Seq(C) : l = Append(f, p)
    BY <2>1, SequenceEmptyOrAppend
  <2>7. Extend(l, e) = IF e = "lf" THEN Append(l, <<>>) ELSE Append(f, Append(p, e))
    BY <2>6, ExtendIs
  <2>8. FlattenSeq(Append(l, <<>>)) = FlattenSeq(l)
    <3>1. FlattenSeq(Append(l, <<>>)) = FlattenSeq(l) \o <<>>
      BY <2>1, EmptySeq, FlattenAppend
    <3>2. QED
      BY <2>5, <3>1, ConcatEmptySeq
  <2>9. FlattenSeq(Append(f, Append(p, e))) = Append(FlattenSeq(l), e)
    <3>1. Append(p, e) = p \o <<e>> /\ <<e>> \in Seq(C) /\ Append(p, e) \in Seq(C) /\ FlattenSeq(f) \in Seq(C)
      BY AppendIsConcat, AppendProperties, FlattenType
    <3>2. /\ FlattenSeq(Append(f, Append(p, e))) = FlattenSeq(f) \o Append(p, e)
          /\ FlattenSeq(l) = FlattenSeq(f) \o p
      BY <2>6, <3>1, FlattenAppend
    <3>3. FlattenSeq(f) \o (p \o <<e>>) = (FlattenSeq(f) \o p) \o <<e>>
      BY <3>1, ConcatAssociative
    <3>4. Append(FlattenSeq(l), e) = FlattenSeq(l) \o <<e>>
      BY <2>5, AppendIsConcat
    <3>5. QED
      BY <3>1, <3>2, <3>3, <3>4
  <2>10. Count(Append(FlattenSeq(l), e), c) = Count(FlattenSeq(l), c) + (IF e = c THEN 1 ELSE 0)
    BY <2>5, CountAppend
  <2>11. Count(FlattenSeq(SplitLines(Append(u, e))), c) = Count(Append(u, e), c)
    <3>1. CASE e = "lf"
      BY <2>2, <2>3, <2>4, <2>7, <2>8, <3>1
    <3>2. CASE e # "lf"
      BY <2>2, <2>3, <2>4, <2>7, <2>9, <2>10, <3>2
    <3>3. QED
      BY <3>1, <3>2
  <2>12. Append(u, e) \in Seq(C)
    BY AppendProperties
  <2>13. QED
    BY <2>11, <2>12
<1>3. \A u \in Seq(C) : u \in T
  <2> HIDE DEF T
  <2>1. QED
    BY <1>1, <1>2, SeqInduction
<1>4. QED
  BY <1>3

\* str::lines: an empty last part is not a line.
LEMMA LinesOfKeeps ==
    ASSUME NEW C, NEW t \in Seq(C)
    PROVE  /\ LinesOf(t) \in Seq(Seq(C))
           /\ FlattenSeq(LinesOf(t)) = FlattenSeq(SplitLines(t))
<1> DEFINE l == SplitLines(t)
<1>1. l \in Seq(Seq(C)) /\ Len(l) # 0
  BY SplitType DEF Parted
<1>2. LinesOf(t) = IF Last(l) = <<>> THEN Front(l) ELSE l
  BY DEF LinesOf
<1> HIDE DEF l
<1>3. /\ Front(l) \in Seq(Seq(C)) /\ l[Len(l)] \in Seq(C) /\ l = Append(Front(l), l[Len(l)])
      /\ Last(l) = l[Len(l)]
  <2>1. LET S == Seq(C)
        IN /\ Front(l) \in Seq(S) /\ l[Len(l)] \in S /\ l = Append(Front(l), l[Len(l)])
           /\ Last(l) = l[Len(l)] /\ Len(Front(l)) = Len(l) - 1
    BY <1>1, LastPart
  <2>2. QED
    BY <2>1
<1>4. FlattenSeq(l) = FlattenSeq(Front(l)) \o Last(l) /\ FlattenSeq(Front(l)) \in Seq(C)
  BY <1>3, FlattenAppend, FlattenType
<1>5. Last(l) = <<>> => FlattenSeq(l) = FlattenSeq(Front(l))
  BY <1>4, ConcatEmptySeq
<1>6. QED
  BY <1>1, <1>2, <1>3, <1>5 DEF l

-----------------------------------------------------------------------------
(* Blocks: sequences of lines over the alphabet C, and what they tell.     *)

Lines(C) == [tag : C \cup {NoTag}, indent : Nat, text : Seq(C)]

Blocks(C) == Seq(Lines(C))

TextsOf(block) == [i \in 1 .. Len(block) |-> block[i].text]

Tells(block, c) == Count(FlattenSeq(TextsOf(block)), c)

LEMMA TextsType ==
    ASSUME NEW C, NEW b \in Blocks(C)
    PROVE  TextsOf(b) \in Seq(Seq(C)) /\ Len(TextsOf(b)) = Len(b) /\ Len(b) \in Nat
<1>1. Len(b) \in Nat /\ \A i \in 1 .. Len(b) : b[i] \in Lines(C)
  BY LenProperties, ElementOfSeq DEF Blocks
<1>2. \A i \in 1 .. Len(b) : b[i].text \in Seq(C)
  BY <1>1 DEF Lines
<1>3. QED
  BY <1>1, <1>2 DEF TextsOf

LEMMA TextsJoin ==
    ASSUME NEW C, NEW a \in Blocks(C), NEW b \in Blocks(C)
    PROVE  /\ a \o b \in Blocks(C)
           /\ TextsOf(a \o b) = TextsOf(a) \o TextsOf(b)
<1> DEFINE ab == a \o b
           u == TextsOf(a)
           v == TextsOf(b)
           w == TextsOf(ab)
<1>1. /\ ab \in Blocks(C) /\ Len(ab) = Len(a) + Len(b) /\ Len(a) \in Nat /\ Len(b) \in Nat
      /\ \A i \in 1 .. Len(ab) : ab[i] = IF i <= Len(a) THEN a[i] ELSE b[i - Len(a)]
  BY ConcatProperties, LenProperties DEF Blocks
<1>2. \A i \in 1 .. Len(a) : u[i] = a[i].text
  BY DEF TextsOf
<1>3. \A i \in 1 .. Len(b) : v[i] = b[i].text
  BY DEF TextsOf
<1> HIDE DEF ab
<1>4. \A i \in 1 .. Len(ab) : w[i] = ab[i].text
  BY DEF TextsOf
<1>5. /\ u \in Seq(Seq(C)) /\ Len(u) = Len(a) /\ v \in Seq(Seq(C)) /\ Len(v) = Len(b)
      /\ w \in Seq(Seq(C)) /\ Len(w) = Len(ab)
  BY <1>1, TextsType
<1> HIDE DEF u, v, w
<1>6. /\ u \o v \in Seq(Seq(C)) /\ Len(u \o v) = Len(u) + Len(v)
      /\ \A i \in 1 .. Len(u) + Len(v) : (u \o v)[i] = IF i <= Len(u) THEN u[i] ELSE v[i - Len(u)]
  BY <1>5, ConcatProperties
<1>7. ASSUME NEW i \in 1 .. Len(w) PROVE w[i] = (u \o v)[i]
  <2>1. CASE i <= Len(a)
    <3>1. i \in 1 .. Len(a) /\ ab[i] = a[i]
      BY <1>1, <1>5, <2>1
    <3>2. QED
      BY <1>1, <1>2, <1>4, <1>5, <1>6, <2>1, <3>1
  <2>2. CASE ~(i <= Len(a))
    <3> DEFINE j == i - Len(a)
    <3>1. j \in 1 .. Len(b) /\ ab[i] = b[j]
      BY <1>1, <1>5, <2>2
    <3>2. (u \o v)[i] = v[j]
      BY <1>1, <1>5, <1>6, <2>2
    <3> HIDE DEF j
    <3>3. QED
      BY <1>3, <1>4, <1>5, <3>1, <3>2
  <2>3. QED
    BY <2>1, <2>2
<1>8. w = u \o v
  BY <1>1, <1>5, <1>6, <1>7, SeqEqual
<1>9. QED
  BY <1>1, <1>8 DEF ab, u, v, w

LEMMA TellsType ==
    ASSUME NEW C, NEW b \in Blocks(C), NEW c
    PROVE  Tells(b, c) \in Nat
<1>1. FlattenSeq(TextsOf(b)) \in Seq(C)
  BY TextsType, FlattenType
<1>2. QED
  BY <1>1, CountType DEF Tells

LEMMA TellsJoin ==
    ASSUME NEW C, NEW a \in Blocks(C), NEW b \in Blocks(C), NEW c
    PROVE  Tells(a \o b, c) = Tells(a, c) + Tells(b, c)
<1>1. /\ TextsOf(a) \in Seq(Seq(C)) /\ TextsOf(b) \in Seq(Seq(C))
      /\ TextsOf(a \o b) = TextsOf(a) \o TextsOf(b)
  BY TextsType, TextsJoin
<1>2. /\ FlattenSeq(TextsOf(a) \o TextsOf(b)) = FlattenSeq(TextsOf(a)) \o FlattenSeq(TextsOf(b))
      /\ FlattenSeq(TextsOf(a)) \in Seq(C) /\ FlattenSeq(TextsOf(b)) \in Seq(C)
  BY <1>1, FlattenJoin, FlattenType
<1>3. QED
  BY <1>1, <1>2, CountJoin DEF Tells

LEMMA LineType ==
    ASSUME NEW C, NEW n \in Nat, NEW t \in Seq(C)
    PROVE  Line(n, t) \in Lines(C) /\ Line(n, t).text = t
BY DEF Line, Lines

LEMMA OneLineTells ==
    ASSUME NEW C, NEW n \in Nat, NEW t \in Seq(C), NEW c
    PROVE  <<Line(n, t)>> \in Blocks(C) /\ Tells(<<Line(n, t)>>, c) = Count(t, c)
<1> DEFINE l == Line(n, t)
           b == <<l>>
<1>1. l \in Lines(C) /\ l.text = t
  BY LineType
<1> HIDE DEF l
<1>2. b \in Blocks(C) /\ Len(b) = 1 /\ b[1] = l
  BY <1>1 DEF Blocks
<1>3. TextsOf(b) = <<t>>
  BY <1>1, <1>2 DEF TextsOf
<1>4. FlattenSeq(<<t>>) = t
  <2> DEFINE o == <<>>
  <2>1. /\ o \in Seq(Seq(C)) /\ FlattenSeq(o) = o /\ o \o t = t /\ Append(o, t) = <<t>>
    BY EmptySeq, FlattenEmpty, ConcatEmptySeq
  <2> HIDE DEF o
  <2>2. FlattenSeq(Append(o, t)) = FlattenSeq(o) \o t
    BY <2>1, FlattenAppend
  <2>3. QED
    BY <2>1, <2>2
<1>5. QED
  BY <1>2, <1>3, <1>4 DEF Tells, l

LEMMA FixedTells ==
    ASSUME NEW C, "w" \in C, NEW c, c # "w"
    PROVE  Fixed \in Blocks(C) /\ Tells(Fixed, c) = 0
<1> DEFINE t == <<"w">>
<1>1. t \in Seq(C) /\ Count(t, c) = 0
  <2>1. Count(<<"w">>, c) = IF "w" = c THEN 1 ELSE 0
    BY CountOne
  <2>2. QED
    BY <2>1
<1>2. <<Line(6, t)>> \in Blocks(C) /\ Tells(<<Line(6, t)>>, c) = Count(t, c)
  <2>1. 6 \in Nat
    OBVIOUS
  <2> HIDE DEF t
  <2>2. QED
    BY <1>1, <2>1, OneLineTells
<1>3. QED
  BY <1>1, <1>2 DEF Fixed

LEMMA NothingTells ==
    ASSUME NEW C, NEW c
    PROVE  <<>> \in Blocks(C) /\ Tells(<<>>, c) = 0
<1>1. TextsOf(<<>>) = <<>>
  BY DEF TextsOf
<1>2. QED
  BY <1>1, FlattenEmpty, CountEmpty, EmptySeq DEF Tells, Blocks

Indented(l, n, m) == [i \in DOMAIN l |-> Line(IF i = 1 THEN n ELSE m, l[i])]

\* A block of the given lines, whatever their indentation.
LEMMA LinesTell ==
    ASSUME NEW C, NEW l \in Seq(Seq(C)), NEW n \in Nat, NEW m \in Nat, NEW c
    PROVE  /\ Indented(l, n, m) \in Blocks(C)
           /\ Tells(Indented(l, n, m), c) = Count(FlattenSeq(l), c)
<1> DEFINE b == [i \in DOMAIN l |-> Line(IF i = 1 THEN n ELSE m, l[i])]
<1>1. Len(l) \in Nat /\ DOMAIN l = 1 .. Len(l) /\ \A i \in 1 .. Len(l) : l[i] \in Seq(C)
  BY LenProperties, ElementOfSeq
<1>2. ASSUME NEW i \in 1 .. Len(l)
      PROVE  b[i] \in Lines(C) /\ b[i].text = l[i]
  <2>1. (IF i = 1 THEN n ELSE m) \in Nat /\ l[i] \in Seq(C)
    BY <1>1
  <2>2. b[i] = Line(IF i = 1 THEN n ELSE m, l[i])
    BY <1>1
  <2>3. QED
    BY <2>1, <2>2, LineType
<1>3. DOMAIN b = 1 .. Len(l) /\ b = [i \in 1 .. Len(l) |-> b[i]]
  BY <1>1
<1> HIDE DEF b
<1>4. b \in Blocks(C) /\ Len(b) = Len(l)
  BY <1>1, <1>2, <1>3 DEF Blocks
<1>5. TextsOf(b) = l
  <2>1. l = [i \in 1 .. Len(l) |-> l[i]]
    BY <1>1
  <2>2. QED
    BY <1>2, <1>4, <2>1 DEF TextsOf
<1>6. QED
  BY <1>4, <1>5 DEF Tells, Indented, b

LEMMA DetailTells ==
    ASSUME NEW C, NEW t \in Seq(C), NEW c, c # "lf"
    PROVE  Detail(t) \in Blocks(C) /\ Tells(Detail(t), c) = Count(t, c)
<1> DEFINE l == SplitLines(t)
<1>1. l \in Seq(Seq(C)) /\ Count(FlattenSeq(l), c) = Count(t, c)
  BY SplitType, SplitKeeps DEF Parted
<1>2. Detail(t) = Indented(l, 6, 0)
  BY DEF Detail, Indented
<1> HIDE DEF l
<1>3. \A n, m \in Nat : /\ Indented(l, n, m) \in Blocks(C)
                        /\ Tells(Indented(l, n, m), c) = Count(FlattenSeq(l), c)
  BY <1>1, LinesTell
<1>4. QED
  BY <1>1, <1>2, <1>3

LEMMA FullTells ==
    ASSUME NEW C, NEW t \in Seq(C), NEW c, c # "lf"
    PROVE  Full(t) \in Blocks(C) /\ Tells(Full(t), c) = Count(t, c)
<1> DEFINE l == LinesOf(t)
<1>1. l \in Seq(Seq(C)) /\ Count(FlattenSeq(l), c) = Count(t, c)
  BY LinesOfKeeps, SplitKeeps
<1>2. Full(t) = IF l = <<>> THEN <<Line(6, <<>>)>>
                ELSE Indented(l, 12, 6)
  BY DEF Full, Indented
<1> HIDE DEF l
<1>3. CASE l = <<>>
  <2> DEFINE o == <<>>
  <2>1. o \in Seq(C) /\ Count(o, c) = 0 /\ Count(t, c) = 0
    BY <1>1, <1>3, FlattenEmpty, CountEmpty, EmptySeq
  <2> HIDE DEF o
  <2>2. \A n \in Nat : <<Line(n, o)>> \in Blocks(C) /\ Tells(<<Line(n, o)>>, c) = Count(o, c)
    BY <2>1, OneLineTells
  <2>3. Full(t) = <<Line(6, o)>> /\ 6 \in Nat
    BY <1>2, <1>3 DEF o
  <2>4. QED
    BY <2>1, <2>2, <2>3
<1>4. CASE l # <<>>
  <2>1. \A n, m \in Nat : /\ Indented(l, n, m) \in Blocks(C)
                          /\ Tells(Indented(l, n, m), c) = Count(FlattenSeq(l), c)
    BY <1>1, LinesTell
  <2>2. QED
    BY <1>1, <1>2, <1>4, <2>1
<1>5. QED
  BY <1>3, <1>4

LEMMA NamedTells ==
    ASSUME NEW C, "w" \in C, NEW t \in Seq(C), NEW c, c # "w"
    PROVE  Named(t) \in Seq(C) /\ Count(Named(t), c) = Count(t, c)
<1> DEFINE w == <<"w">>
<1>1. w \in Seq(C) /\ Count(w, c) = 0
  <2>1. Count(<<"w">>, c) = IF "w" = c THEN 1 ELSE 0
    BY CountOne
  <2>2. QED
    BY <2>1
<1>2. Named(t) = w \o t
  BY DEF Named
<1> HIDE DEF w
<1>3. Count(w \o t, c) = Count(w, c) + Count(t, c) /\ w \o t \in Seq(C) /\ Count(t, c) \in Nat
  BY <1>1, CountJoin, CountType, ConcatProperties
<1>4. QED
  BY <1>1, <1>2, <1>3

\* A text is shown whole, or ends with the mark.
LEMMA TruncateTells ==
    ASSUME NEW C, "..." \in C, NEW t \in Seq(C)
    PROVE  /\ Truncate(t) \in Seq(C)
           /\ Truncate(t) = t \/ Count(Truncate(t), "...") > 0
<1>1. CASE Len(t) <= Shown
  BY <1>1 DEF Truncate
<1>2. CASE ~(Len(t) <= Shown)
  <2> DEFINE m == <<"...">>
             u == SubSeq(t, 1, Shown)
  <2>1. m \in Seq(C) /\ Count(m, "...") = 1
    <3>1. Count(<<"...">>, "...") = IF "..." = "..." THEN 1 ELSE 0
      BY CountOne
    <3>2. QED
      BY <3>1
  <2>2. u \in Seq(C)
    <3>1. Shown \in 1 .. Len(t)
      BY <1>2, LenProperties, NarrationAssumption
    <3>2. \A i \in 1 .. Shown : t[i] \in C
      BY <3>1, ElementOfSeq, LenProperties
    <3>3. QED
      BY <3>2, NarrationAssumption
  <2>3. Truncate(t) = u \o m
    BY <1>2 DEF Truncate
  <2> HIDE DEF m, u
  <2>4. Count(u \o m, "...") = Count(u, "...") + Count(m, "...") /\ u \o m \in Seq(C) /\ Count(u, "...") \in Nat
    BY <2>1, <2>2, CountJoin, CountType, ConcatProperties, ZenonT(60)
  <2>5. QED
    BY <2>1, <2>3, <2>4
<1>3. QED
  BY <1>1, <1>2

LEMMA OneLineKeeps ==
    ASSUME NEW C, "w" \in C, NEW t \in Seq(C), NEW c, c # "w", c # "lf"
    PROVE  OneLine(t) \in Seq(C) /\ Count(OneLine(t), c) = Count(t, c)
<1>1. DOMAIN t = 1 .. Len(t) /\ Len(t) \in Nat /\ \A i \in DOMAIN t : t[i] \in C
  BY LenProperties, ElementOfSeq
<1>2. OneLine(t) \in Seq(C)
  BY <1>1 DEF OneLine
<1>3. {i \in DOMAIN OneLine(t) : OneLine(t)[i] = c} = {i \in DOMAIN t : t[i] = c}
  BY DEF OneLine
<1>4. QED
  BY <1>2, <1>3 DEF Count

-----------------------------------------------------------------------------
(* What a block tells of the text of its event.                            *)

\* An event whose texts are over the alphabet C.
Narrates(C, e) ==
  /\ {"w", "lf", "..."} \subseteq C
  /\ e.kind \in JobEventKind
  /\ e.job \in C \ {"w", "lf", "..."}
  /\ e.text \in Seq(C)

\* A text that has all of the event's text, or a mark.
Carries(C, t, e) ==
  /\ t \in Seq(C)
  /\ Count(t, "...") > 0 \/ Count(t, e.job) = Count(e.text, e.job)

\* Lines that show all of the event's text, or none of it, or a mark.
Honest(C, b, e) ==
  /\ b \in Blocks(C)
  /\ Tells(b, "...") > 0 \/ Tells(b, e.job) = 0 \/ Tells(b, e.job) >= Count(e.text, e.job)

LEMMA TextCarries ==
    ASSUME NEW C, NEW e, Narrates(C, e) PROVE Carries(C, e.text, e)
BY DEF Narrates, Carries

LEMMA TruncateCarries ==
    ASSUME NEW C, NEW e, Narrates(C, e), NEW t, Carries(C, t, e)
    PROVE  Carries(C, Truncate(t), e)
<1>1. t \in Seq(C) /\ "..." \in C
  BY DEF Narrates, Carries
<1>2. Truncate(t) \in Seq(C) /\ (Truncate(t) = t \/ Count(Truncate(t), "...") > 0)
  BY <1>1, TruncateTells
<1>3. QED
  BY <1>2 DEF Carries

LEMMA NamedCarries ==
    ASSUME NEW C, NEW e, Narrates(C, e), NEW t, Carries(C, t, e)
    PROVE  Carries(C, Named(t), e)
<1>1. t \in Seq(C) /\ "w" \in C /\ e.job # "w"
  BY DEF Narrates, Carries
<1>2. \A c : c # "w" => Named(t) \in Seq(C) /\ Count(Named(t), c) = Count(t, c)
  BY <1>1, NamedTells
<1>3. QED
  BY <1>1, <1>2 DEF Carries

LEMMA OneLineCarries ==
    ASSUME NEW C, NEW e, Narrates(C, e), NEW t, Carries(C, t, e)
    PROVE  Carries(C, OneLine(t), e)
<1>1. t \in Seq(C) /\ "w" \in C /\ e.job # "w" /\ e.job # "lf"
  BY DEF Narrates, Carries
<1>2. \A c : c # "w" /\ c # "lf" => OneLine(t) \in Seq(C) /\ Count(OneLine(t), c) = Count(t, c)
  BY <1>1, OneLineKeeps
<1>3. QED
  BY <1>1, <1>2 DEF Carries

\* A heading on a line of its own before the text.
LEMMA HeadedCarries ==
    ASSUME NEW C, NEW e, Narrates(C, e), NEW t, Carries(C, t, e)
    PROVE  Carries(C, <<"w", "lf">> \o t, e)
<1> DEFINE h == <<"w", "lf">>
<1>1. /\ t \in Seq(C) /\ "w" \in C /\ "lf" \in C /\ e.job # "w" /\ e.job # "lf"
      /\ "..." # "w" /\ "..." # "lf"
  BY DEF Narrates, Carries
<1>2. ASSUME NEW c, c # "w", c # "lf" PROVE h \in Seq(C) /\ Count(h, c) = 0
  <2>1. h \in Seq(C)
    BY <1>1
  <2>2. {i \in DOMAIN h : h[i] = c} = {}
    BY <1>2
  <2>3. QED
    BY <2>1, <2>2, FS_EmptySet DEF Count
<1> HIDE DEF h
<1>3. h \in Seq(C)
  BY <1>1, <1>2
<1>4. h \o t \in Seq(C) /\ \A c : Count(h \o t, c) = Count(h, c) + Count(t, c) /\ Count(t, c) \in Nat
  BY <1>1, <1>3, CountJoin, CountType, ConcatProperties
<1>5. Count(h \o t, "...") = Count(t, "...") /\ Count(h \o t, e.job) = Count(t, e.job)
  BY <1>1, <1>2, <1>4
<1>6. QED
  BY <1>4, <1>5 DEF Carries, h

LEMMA DetailHonest ==
    ASSUME NEW C, NEW e, Narrates(C, e), NEW t, Carries(C, t, e)
    PROVE  Honest(C, Detail(t), e)
<1>1. t \in Seq(C) /\ e.job # "lf" /\ e.text \in Seq(C)
  BY DEF Narrates, Carries
<1>2. \A c : c # "lf" => Detail(t) \in Blocks(C) /\ Tells(Detail(t), c) = Count(t, c)
  BY <1>1, DetailTells
<1>3. Count(e.text, e.job) \in Nat
  BY <1>1, CountType
<1>4. QED
  BY <1>1, <1>2, <1>3 DEF Carries, Honest

LEMMA FullHonest ==
    ASSUME NEW C, NEW e, Narrates(C, e), NEW t, Carries(C, t, e)
    PROVE  Honest(C, Full(t), e)
<1>1. t \in Seq(C) /\ e.job # "lf" /\ e.text \in Seq(C)
  BY DEF Narrates, Carries
<1>2. \A c : c # "lf" => Full(t) \in Blocks(C) /\ Tells(Full(t), c) = Count(t, c)
  BY <1>1, FullTells
<1>3. Count(e.text, e.job) \in Nat
  BY <1>1, CountType
<1>4. QED
  BY <1>1, <1>2, <1>3 DEF Carries, Honest

LEMMA FixedHonest == ASSUME NEW C, NEW e, Narrates(C, e) PROVE Honest(C, Fixed, e)
<1>1. "w" \in C /\ e.job # "w"
  BY DEF Narrates
<1>2. \A c : c # "w" => Fixed \in Blocks(C) /\ Tells(Fixed, c) = 0
  BY <1>1, FixedTells
<1>3. QED
  BY <1>1, <1>2 DEF Honest

LEMMA NothingHonest == ASSUME NEW C, NEW e PROVE Honest(C, <<>>, e)
BY NothingTells DEF Honest

LEMMA OptionalHonest ==
    ASSUME NEW C, NEW e, NEW present, NEW b, Honest(C, b, e)
    PROVE  Honest(C, Optional(present, b), e)
BY NothingHonest DEF Optional

\* Blocks may be put one after the other.
LEMMA JoinHonest ==
    ASSUME NEW C, NEW e, Narrates(C, e), NEW a, NEW b, Honest(C, a, e), Honest(C, b, e)
    PROVE  Honest(C, a \o b, e)
<1>1. a \in Blocks(C) /\ b \in Blocks(C)
  BY DEF Honest
<1>2. a \o b \in Blocks(C)
  BY <1>1, TextsJoin
<1>3. \A c : /\ Tells(a \o b, c) = Tells(a, c) + Tells(b, c)
             /\ Tells(a, c) \in Nat /\ Tells(b, c) \in Nat
  BY <1>1, TellsJoin, TellsType
<1> DEFINE m == "..."
           j == e.job
           n == Count(e.text, e.job)
<1>4. /\ Tells(a, m) > 0 \/ Tells(a, j) = 0 \/ Tells(a, j) >= n
      /\ Tells(b, m) > 0 \/ Tells(b, j) = 0 \/ Tells(b, j) >= n
  BY DEF Honest
<1>5. /\ Tells(a \o b, m) = Tells(a, m) + Tells(b, m) /\ Tells(a, m) \in Nat /\ Tells(b, m) \in Nat
      /\ Tells(a \o b, j) = Tells(a, j) + Tells(b, j) /\ Tells(a, j) \in Nat /\ Tells(b, j) \in Nat
  BY <1>3
<1>6. n \in Nat
  BY CountType DEF Narrates
<1>7. Tells(a \o b, m) > 0 \/ Tells(a \o b, j) = 0 \/ Tells(a \o b, j) >= n
  <2> HIDE DEF m, j, n
  <2>1. QED
    BY <1>4, <1>5, <1>6
<1>8. QED
  BY <1>2, <1>7 DEF Honest

-----------------------------------------------------------------------------
(* Every block of render_human is honest.                                  *)

LEMMA JobHonest ==
    ASSUME NEW C, NEW e, Narrates(C, e) PROVE Honest(C, JobBlock(e), e)
BY TextCarries, TruncateCarries, DetailHonest, NothingHonest DEF JobBlock

LEMMA SupervisorHonest ==
    ASSUME NEW C, NEW e, Narrates(C, e), e.kind \in SupervisorKinds, NEW verbose
    PROVE  Honest(C, SupervisorBlock(e, verbose), e)
<1> DEFINE t == e.text
           reason == Optional("reason" \in e.has, Detail(Truncate(t)))
           title == Optional("commit_title" \in e.has, Detail(Named(t)))
           prompt == Optional("prompt" \in e.has,
                              IF verbose THEN Full(<<"w", "lf">> \o t) ELSE Detail(Named(Truncate(t))))
           next == Optional("next_prompt" \in e.has, Detail(Named(Truncate(t))))
<1>1. /\ Carries(C, t, e) /\ Carries(C, Truncate(t), e) /\ Carries(C, Named(t), e)
      /\ Carries(C, Named(Truncate(t)), e) /\ Carries(C, <<"w", "lf">> \o t, e)
  BY TextCarries, TruncateCarries, NamedCarries, HeadedCarries
<1>2. /\ Honest(C, Detail(Truncate(t)), e) /\ Honest(C, Detail(Named(t)), e)
      /\ Honest(C, Detail(Named(Truncate(t))), e)
      /\ Honest(C, Full(<<"w", "lf">> \o t), e) /\ Honest(C, Full(t), e) /\ Honest(C, Fixed, e)
  BY <1>1, DetailHonest, FullHonest, FixedHonest
<1>3. Honest(C, reason, e) /\ Honest(C, title, e) /\ Honest(C, next, e)
  BY <1>2, OptionalHonest
<1>4. Honest(C, prompt, e)
  <2>1. CASE verbose
    BY <1>2, <2>1, OptionalHonest
  <2>2. CASE ~verbose
    BY <1>2, <2>2, OptionalHonest
  <2>3. QED
    BY <2>1, <2>2
<1>5. Honest(C, Optional(verbose, Full(t)), e)
  BY <1>2, OptionalHonest
<1>6. SupervisorBlock(e, verbose) =
        IF e.kind = "SupervisorStarted" THEN Fixed \o Optional(verbose, Full(t))
        ELSE reason \o title \o prompt \o next
  BY DEF SupervisorBlock, SupervisorKinds
<1> HIDE DEF reason, title, prompt, next, t
<1>7. Honest(C, Fixed \o Optional(verbose, Full(t)), e)
  BY <1>2, <1>5, JoinHonest
<1>8. Honest(C, reason \o title, e)
  BY <1>3, JoinHonest
<1>9. Honest(C, reason \o title \o prompt, e)
  BY <1>4, <1>8, JoinHonest
<1>10. Honest(C, reason \o title \o prompt \o next, e)
  BY <1>3, <1>9, JoinHonest
<1>11. QED
  BY <1>6, <1>7, <1>10

LEMMA ClaudeHonest ==
    ASSUME NEW C, NEW e, Narrates(C, e), e.kind \in ClaudeKinds, NEW verbose
    PROVE  Honest(C, ClaudeBlock(e, verbose), e)
<1> DEFINE context == Optional("session_id" \in e.has, Fixed)
           duration == Optional("duration_ms" \in e.has, Fixed)
           turns == Optional("turns" \in e.has, Fixed)
           cost == Optional("total_cost_usd" \in e.has, Fixed)
<1>1. /\ Honest(C, Full(e.text), e) /\ Honest(C, Detail(Truncate(e.text)), e) /\ Honest(C, Fixed, e)
  BY TextCarries, TruncateCarries, DetailHonest, FullHonest, FixedHonest
<1>2. Honest(C, context, e) /\ Honest(C, duration, e) /\ Honest(C, turns, e) /\ Honest(C, cost, e)
  BY <1>1, OptionalHonest
<1>3. ClaudeBlock(e, verbose) =
        IF e.kind = "ExecutorStarted" THEN Fixed
        ELSE context \o IF verbose THEN duration \o turns \o cost \o Full(e.text)
                        ELSE Detail(Truncate(e.text))
  BY DEF ClaudeBlock, ClaudeKinds
<1> HIDE DEF context, duration, turns, cost
<1>4. Honest(C, duration \o turns, e)
  BY <1>2, JoinHonest
<1>5. Honest(C, duration \o turns \o cost, e)
  BY <1>2, <1>4, JoinHonest
<1>6. Honest(C, duration \o turns \o cost \o Full(e.text), e)
  BY <1>1, <1>5, JoinHonest
<1>7. /\ Honest(C, context \o (duration \o turns \o cost \o Full(e.text)), e)
      /\ Honest(C, context \o Detail(Truncate(e.text)), e)
  BY <1>1, <1>2, <1>6, JoinHonest
<1>8. QED
  BY <1>1, <1>3, <1>7

LEMMA DiffStatHonest ==
    ASSUME NEW C, NEW e, Narrates(C, e) PROVE Honest(C, DiffStat(e.text), e)
<1> DEFINE t == Named(Truncate(OneLine(e.text)))
<1>1. Carries(C, t, e)
  BY TextCarries, OneLineCarries, TruncateCarries, NamedCarries
<1> HIDE DEF t
<1>2. Honest(C, Detail(t), e)
  BY <1>1, DetailHonest
<1>3. QED
  BY <1>2, OptionalHonest DEF DiffStat, t

LEMMA RepositoryHonest ==
    ASSUME NEW C, NEW e, Narrates(C, e), NEW verbose
    PROVE  Honest(C, RepositoryBlock(e, verbose), e)
<1> DEFINE changed == Optional("changed" \in e.has, Fixed)
           untracked == Optional("untracked" \in e.has, Fixed)
           truncated == Optional("truncated" \in e.has, Fixed)
           binary == Optional(verbose /\ "binary" \in e.has, Fixed)
           stat == DiffStat(e.text)
<1>1. Honest(C, Fixed, e) /\ Honest(C, stat, e)
  BY FixedHonest, DiffStatHonest
<1>2. /\ Honest(C, changed, e) /\ Honest(C, untracked, e) /\ Honest(C, truncated, e)
      /\ Honest(C, binary, e)
  BY <1>1, OptionalHonest
<1>3. RepositoryBlock(e, verbose) = Fixed \o changed \o untracked \o stat \o truncated \o binary
  BY DEF RepositoryBlock
<1> HIDE DEF changed, untracked, truncated, binary, stat
<1>4. Honest(C, Fixed \o changed, e)
  BY <1>1, <1>2, JoinHonest
<1>5. Honest(C, Fixed \o changed \o untracked, e)
  BY <1>2, <1>4, JoinHonest
<1>6. Honest(C, Fixed \o changed \o untracked \o stat, e)
  BY <1>1, <1>5, JoinHonest
<1>7. Honest(C, Fixed \o changed \o untracked \o stat \o truncated, e)
  BY <1>2, <1>6, JoinHonest
<1>8. QED
  BY <1>2, <1>3, <1>7, JoinHonest

LEMMA PublishHonest ==
    ASSUME NEW C, NEW e, Narrates(C, e), e.kind \in PublishKinds
    PROVE  Honest(C, PublishBlock(e), e)
<1>1. Honest(C, Detail(Named(e.text)), e) /\ Honest(C, <<>>, e) /\ Honest(C, Fixed, e)
  BY TextCarries, NamedCarries, DetailHonest, NothingHonest, FixedHonest
<1>2. QED
  BY <1>1 DEF PublishBlock, PublishKinds

LEMMA WaitingHonest ==
    ASSUME NEW C, NEW e, Narrates(C, e), e.kind \in WaitingKinds
    PROVE  Honest(C, WaitingBlock(e), e)
<1>1. Honest(C, Detail(e.text), e) /\ Honest(C, <<>>, e) /\ Honest(C, Fixed, e)
  BY TextCarries, DetailHonest, NothingHonest, FixedHonest
<1>2. QED
  BY <1>1 DEF WaitingBlock, WaitingKinds

LEMMA ControlHonest ==
    ASSUME NEW C, NEW e, Narrates(C, e), e.kind \in ControlKinds, NEW verbose
    PROVE  Honest(C, ControlBlock(e, verbose), e)
<1> DEFINE applied == Optional(verbose, Full(e.text))
           said == Detail(Truncate(e.text))
<1>1. /\ Honest(C, said, e) /\ Honest(C, <<>>, e)
      /\ Honest(C, Fixed, e) /\ Honest(C, Full(e.text), e)
  BY TextCarries, TruncateCarries, DetailHonest, FullHonest, NothingHonest, FixedHonest
<1>2. Honest(C, applied, e)
  BY <1>1, OptionalHonest
<1>3. \/ ControlBlock(e, verbose) = Fixed \o <<>>
      \/ ControlBlock(e, verbose) = Fixed \o said
      \/ ControlBlock(e, verbose) = Fixed \o applied
  BY DEF ControlBlock, ControlKinds
<1> HIDE DEF applied, said
<1>4. Honest(C, Fixed \o <<>>, e) /\ Honest(C, Fixed \o said, e) /\ Honest(C, Fixed \o applied, e)
  BY <1>1, <1>2, JoinHonest
<1>5. QED
  BY <1>3, <1>4

LEMMA ResumeHonest ==
    ASSUME NEW C, NEW e, Narrates(C, e), e.kind \in ResumeKinds
    PROVE  Honest(C, ResumeBlock(e), e)
<1>1. Honest(C, Detail(e.text), e) /\ Honest(C, Fixed, e)
  BY TextCarries, DetailHonest, FixedHonest
<1>2. QED
  BY <1>1 DEF ResumeBlock, ResumeKinds

LEMMA StatusHonest ==
    ASSUME NEW C, NEW e, Narrates(C, e) PROVE Honest(C, StatusBlock(e), e)
<1> DEFINE context == Optional("session_id" \in e.has, Fixed)
           stage == Optional("publish_stage" \in e.has, Fixed)
           requested == Optional("requested" \in e.has, Fixed)
<1>1. Honest(C, Fixed, e)
  BY FixedHonest
<1>2. Honest(C, context, e) /\ Honest(C, stage, e) /\ Honest(C, requested, e)
  BY <1>1, OptionalHonest
<1>3. StatusBlock(e) = Fixed \o Fixed \o context \o stage \o requested
  BY DEF StatusBlock
<1> HIDE DEF context, stage, requested
<1>4. Honest(C, Fixed \o Fixed, e)
  BY <1>1, JoinHonest
<1>5. Honest(C, Fixed \o Fixed \o context, e)
  BY <1>2, <1>4, JoinHonest
<1>6. Honest(C, Fixed \o Fixed \o context \o stage, e)
  BY <1>2, <1>5, JoinHonest
<1>7. QED
  BY <1>2, <1>3, <1>6, JoinHonest

LEMMA DiffHonest ==
    ASSUME NEW C, NEW e, Narrates(C, e) PROVE Honest(C, DiffBlock(e), e)
<1> DEFINE clean == Optional("clean" \in e.has, Fixed)
           changed == Optional("changed" \in e.has, Fixed)
           untracked == Optional("untracked" \in e.has, Fixed)
           stat == DiffStat(e.text)
<1>1. Honest(C, Fixed, e) /\ Honest(C, stat, e)
  BY FixedHonest, DiffStatHonest
<1>2. Honest(C, clean, e) /\ Honest(C, changed, e) /\ Honest(C, untracked, e)
  BY <1>1, OptionalHonest
<1>3. DiffBlock(e) = clean \o changed \o untracked \o stat
  BY DEF DiffBlock
<1> HIDE DEF clean, changed, untracked, stat
<1>4. Honest(C, clean \o changed, e)
  BY <1>2, JoinHonest
<1>5. Honest(C, clean \o changed \o untracked, e)
  BY <1>2, <1>4, JoinHonest
<1>6. QED
  BY <1>1, <1>3, <1>5, JoinHonest

LEMMA BodyHonest ==
    ASSUME NEW C, NEW e, Narrates(C, e), NEW verbose PROVE Honest(C, Body(e, verbose), e)
<1> USE DEF JobKinds, SupervisorKinds, ClaudeKinds, PublishKinds, WaitingKinds, ControlKinds,
            ResumeKinds, EndKinds
<1>1. CASE e.kind \in JobKinds
  <2>1. Body(e, verbose) = JobBlock(e)
    BY <1>1 DEF Body
  <2>2. QED
    BY <2>1, JobHonest
<1>2. CASE e.kind \in SupervisorKinds
  <2>1. Body(e, verbose) = SupervisorBlock(e, verbose)
    BY <1>2 DEF Body
  <2>2. QED
    BY <1>2, <2>1, SupervisorHonest
<1>3. CASE e.kind \in ClaudeKinds
  <2>1. Body(e, verbose) = ClaudeBlock(e, verbose)
    BY <1>3 DEF Body
  <2>2. QED
    BY <1>3, <2>1, ClaudeHonest
<1>4. CASE e.kind = "RepositoryCaptured"
  <2>1. Body(e, verbose) = RepositoryBlock(e, verbose)
    BY <1>4 DEF Body
  <2>2. QED
    BY <2>1, RepositoryHonest
<1>5. CASE e.kind \in PublishKinds
  <2>1. Body(e, verbose) = PublishBlock(e)
    BY <1>5 DEF Body
  <2>2. QED
    BY <1>5, <2>1, PublishHonest
<1>6. CASE e.kind \in WaitingKinds
  <2>1. Body(e, verbose) = WaitingBlock(e)
    BY <1>6 DEF Body
  <2>2. QED
    BY <1>6, <2>1, WaitingHonest
<1>7. CASE e.kind \in ControlKinds
  <2>1. Body(e, verbose) = ControlBlock(e, verbose)
    BY <1>7 DEF Body
  <2>2. QED
    BY <1>7, <2>1, ControlHonest
<1>8. CASE e.kind \in ResumeKinds
  <2>1. Body(e, verbose) = ResumeBlock(e)
    BY <1>8 DEF Body
  <2>2. QED
    BY <1>8, <2>1, ResumeHonest
<1>9. CASE e.kind = "StatusReported"
  <2>1. Body(e, verbose) = StatusBlock(e)
    BY <1>9 DEF Body
  <2>2. QED
    BY <2>1, StatusHonest
<1>10. CASE e.kind = "DiffReported"
  <2>1. Body(e, verbose) = DiffBlock(e)
    BY <1>10 DEF Body
  <2>2. QED
    BY <2>1, DiffHonest
<1>11. CASE e.kind \in EndKinds
  <2>1. Body(e, verbose) = EndBlock(e)
    BY <1>11 DEF Body
  <2>2. Honest(C, Detail(e.text), e)
    BY TextCarries, DetailHonest
  <2>3. QED
    BY <2>1, <2>2 DEF EndBlock
<1> HIDE DEF JobKinds, SupervisorKinds, ClaudeKinds, PublishKinds, WaitingKinds, ControlKinds,
             ResumeKinds, EndKinds
<1>12. QED
  BY <1>1, <1>2, <1>3, <1>4, <1>5, <1>6, <1>7, <1>8, <1>9, <1>10, <1>11 DEF Narrates, JobEventKind

\* With --verbose, a review request, an answer of the Executor and an instruction that was
\* applied are shown whole.
LEMMA VerboseTellsAll ==
    ASSUME NEW C, NEW e, Narrates(C, e),
           e.kind \in {"SupervisorStarted", "ExecutorFinished", "UserInstructionApplied"}
    PROVE  Tells(Body(e, TRUE), e.job) = Count(e.text, e.job)
<1> DEFINE j == e.job
           n == Count(e.text, j)
           full == Full(e.text)
           Silent(b) == b \in Blocks(C) /\ Tells(b, j) = 0
           opt(c) == Optional(c, Fixed)
<1>1. /\ "w" \in C /\ j # "w" /\ j # "lf" /\ e.text \in Seq(C) /\ n \in Nat
  BY CountType DEF Narrates
<1>2. full \in Blocks(C) /\ Tells(full, j) = n
  BY <1>1, FullTells
<1>3. Silent(Fixed) /\ Silent(<<>>)
  BY <1>1, FixedTells, NothingTells
<1>4. \A c : Silent(opt(c))
  <2>1. ASSUME NEW c PROVE opt(c) = Fixed \/ opt(c) = <<>>
    BY DEF Optional
  <2>2. QED
    BY <1>3, <2>1
<1> HIDE DEF full, n
<1>5. \A a, b : a \in Blocks(C) /\ b \in Blocks(C) =>
                a \o b \in Blocks(C) /\ Tells(a \o b, j) = Tells(a, j) + Tells(b, j)
  BY TellsJoin, TextsJoin
<1>6. \A a, b : Silent(a) /\ Silent(b) => Silent(a \o b)
  BY <1>5
<1>7. \A a : Silent(a) => a \o full \in Blocks(C) /\ Tells(a \o full, j) = n
  BY <1>1, <1>2, <1>5
<1>8. Optional(TRUE, full) = full
  BY DEF Optional
<1> DEFINE context == opt("session_id" \in e.has)
           duration == opt("duration_ms" \in e.has)
           turns == opt("turns" \in e.has)
           cost == opt("total_cost_usd" \in e.has)
<1>9. Silent(context) /\ Silent(duration) /\ Silent(turns) /\ Silent(cost)
  BY <1>4, SMTT(60)
<1> USE DEF JobKinds, SupervisorKinds, ClaudeKinds, PublishKinds, WaitingKinds, ControlKinds,
            ResumeKinds, EndKinds
<1>10. /\ e.kind = "SupervisorStarted" => Body(e, TRUE) = Fixed \o Optional(TRUE, full)
       /\ e.kind = "UserInstructionApplied" => Body(e, TRUE) = Fixed \o Optional(TRUE, full)
  BY DEF Body, SupervisorBlock, ControlBlock, full
<1>11. e.kind = "ExecutorFinished" => Body(e, TRUE) = context \o (duration \o turns \o cost \o full)
  BY DEF Body, ClaudeBlock, full
<1> HIDE DEF JobKinds, SupervisorKinds, ClaudeKinds, PublishKinds, WaitingKinds, ControlKinds,
             ResumeKinds, EndKinds, context, duration, turns, cost, opt, Silent
<1>12. Tells(Fixed \o full, j) = n
  BY <1>3, <1>7
<1>13. Tells(context \o (duration \o turns \o cost \o full), j) = n
  <2>1. Silent(duration \o turns)
    BY <1>6, <1>9
  <2>2. Silent(duration \o turns \o cost)
    BY <1>6, <1>9, <2>1
  <2>3. /\ duration \o turns \o cost \o full \in Blocks(C)
        /\ Tells(duration \o turns \o cost \o full, j) = n
    BY <1>7, <2>2
  <2>4. context \in Blocks(C) /\ Tells(context, j) = 0
    BY <1>9 DEF Silent
  <2>5. QED
    BY <1>1, <1>5, <2>3, <2>4
<1>14. QED
  BY <1>8, <1>10, <1>11, <1>12, <1>13 DEF n

\* Whatever was said in an event, in a text of any length, its block shows it whole, shows
\* nothing of it or is marked as cut; with --verbose what matters most is never cut
\* (render_human, truncate, truncate_response).
THEOREM ABlockShowsOrSaysSo ==
    ASSUME NEW C, NEW e, Narrates(C, e), NEW verbose \in BOOLEAN
    PROVE  ShowsOrSaysSo(e, verbose)
<1> DEFINE b == Body(e, verbose)
<1>1. Honest(C, b, e)
  BY BodyHonest
<1>2. verbose /\ e.kind \in {"SupervisorStarted", "ExecutorFinished", "UserInstructionApplied"}
        => Tells(b, e.job) = Count(e.text, e.job)
  <2>1. SUFFICES ASSUME verbose = TRUE,
                        e.kind \in {"SupervisorStarted", "ExecutorFinished", "UserInstructionApplied"}
                 PROVE  Tells(b, e.job) = Count(e.text, e.job)
    OBVIOUS
  <2>2. QED
    BY <2>1, VerboseTellsAll
<1> HIDE DEF b
<1>3. DOMAIN b = 1 .. Len(b)
  BY <1>1, LenProperties DEF Honest, Blocks
<1>4. FlattenSeq([i \in DOMAIN b |-> b[i].text]) = FlattenSeq(TextsOf(b))
  BY <1>3 DEF TextsOf
<1>5. Tells(b, "...") \in Nat /\ Tells(b, e.job) \in Nat
  BY <1>1, TellsType DEF Honest
<1>6. QED
  BY <1>1, <1>2, <1>4, <1>5 DEF ShowsOrSaysSo, Honest, Tells, b

LEMMA CutTextHolds == CutTextSaysSo
<1> DEFINE C == {"1", "w", "lf", "..."}
<1>1. ASSUME NEW e \in Events("1") PROVE Narrates(C, e)
  <2>1. e.kind \in JobEventKind /\ e.job = "1" /\ e.text \in SaidBy("1")
    BY DEF Events
  <2>2. e.text \in Seq(C)
    <3>1. PICK n \in 0 .. 3 : e.text \in [1 .. n -> {"1", "lf"}]
      BY <2>1 DEF SaidBy
    <3>2. e.text \in [1 .. n -> C] /\ n \in Nat
      BY <3>1
    <3>3. QED
      BY <3>2, SeqDef
  <2>3. QED
    BY <2>1, <2>2 DEF Narrates
<1>2. QED
  BY <1>1, ABlockShowsOrSaysSo DEF CutTextSaysSo

-----------------------------------------------------------------------------
(* Lines that name their job.                                              *)

\* The lines on which no other job is mentioned than the one in front.
NamedLines(jobs, others) ==
  {l \in Lines(jobs \cup others) : \A job \in jobs : Mentions(l, job) => l.tag = job}

AllParts == Parts \cup {"commit_title", "next_prompt", "duration_ms", "turns", "total_cost_usd",
                       "changed", "untracked", "binary", "publish_stage"}

\* What an agent, a person or a provider may have written into an event of a job: anything but
\* another job's mark.
EventsOf(jobs, others) ==
  {e \in [kind : JobEventKind, job : jobs, text : Seq(jobs \cup others), has : SUBSET AllParts] :
     e.text \in Seq({e.job} \cup others)}

\* One write to the standard output, by the sink of a job or by the scheduler's.
Writes(jobs, others) ==
  {PrefixLines(RenderHuman(p[1], p[2]), p[1].job) : p \in EventsOf(jobs, others) \X BOOLEAN}
  \cup {EmitScheduler(text)[1] : text \in Seq(others)}

Separate(jobs, others) == {"w", "lf", "...", "scheduler"} \subseteq others /\ jobs \cap others = {}

LEMMA SeqSubset ==
    ASSUME NEW A, NEW B, A \subseteq B, NEW s \in Seq(A) PROVE s \in Seq(B)
<1>1. DOMAIN s = 1 .. Len(s) /\ Len(s) \in Nat /\ \A i \in 1 .. Len(s) : s[i] \in B
  BY LenProperties, ElementOfSeq
<1>2. s = [i \in 1 .. Len(s) |-> s[i]]
  BY <1>1
<1>3. QED
  BY <1>1, <1>2

LEMMA PrefixNames ==
    ASSUME NEW jobs, NEW others, Separate(jobs, others), NEW job \in jobs,
           NEW b \in Blocks({job} \cup others)
    PROVE  PrefixLines(b, job) \in Seq(NamedLines(jobs, others))
<1> DEFINE p == PrefixLines(b, job)
<1>1. Len(b) \in Nat /\ DOMAIN b = 1 .. Len(b) /\ \A i \in 1 .. Len(b) : b[i] \in Lines({job} \cup others)
  BY LenProperties, ElementOfSeq DEF Blocks
<1>2. ASSUME NEW l \in Lines({job} \cup others), NEW m,
             m = IF IsEmptyLine(l) THEN l ELSE [l EXCEPT !.tag = job]
      PROVE  m \in NamedLines(jobs, others)
  <2>1. /\ l.text \in Seq({job} \cup others) /\ l.indent \in Nat
        /\ l.tag \in {job} \cup others \cup {NoTag}
    BY DEF Lines
  <2>2. l.text \in Seq(jobs \cup others)
    <3>1. {job} \cup others \subseteq jobs \cup others
      OBVIOUS
    <3>2. QED
      BY <2>1, <3>1, SeqSubset
  <2>3. m \in Lines(jobs \cup others) /\ m.text = l.text
    BY <1>2, <2>1, <2>2 DEF Lines
  <2>4. ASSUME NEW j \in jobs, Mentions(m, j) PROVE m.tag = j
    <3>1. PICK i \in DOMAIN l.text : l.text[i] = j
      BY <2>3, <2>4 DEF Mentions
    <3>2. j \in {job} \cup others
      BY <2>1, <3>1, ElementOfSeq, LenProperties
    <3>3. j = job
      BY <3>2 DEF Separate
    <3>4. ~IsEmptyLine(l)
      BY <3>1 DEF IsEmptyLine
    <3>5. QED
      BY <1>2, <3>3, <3>4 DEF Lines
  <2>5. QED
    BY <2>3, <2>4 DEF NamedLines
<1>3. /\ DOMAIN p = 1 .. Len(b)
      /\ \A i \in 1 .. Len(b) : p[i] = IF IsEmptyLine(b[i]) THEN b[i] ELSE [b[i] EXCEPT !.tag = job]
  BY <1>1 DEF PrefixLines
<1>4. p = [i \in 1 .. Len(b) |-> p[i]]
  BY <1>1 DEF PrefixLines
<1> HIDE DEF p
<1>5. \A i \in 1 .. Len(b) : p[i] \in NamedLines(jobs, others)
  BY <1>1, <1>2, <1>3
<1>6. QED
  BY <1>1, <1>4, <1>5 DEF p

LEMMA RenderType ==
    ASSUME NEW C, NEW e, Narrates(C, e), NEW verbose
    PROVE  RenderHuman(e, verbose) \in Blocks(C)
<1>1. <<e.job>> \in Seq(C)
  BY DEF Narrates
<1>2. <<Line(0, <<e.job>>)>> \in Blocks(C)
  BY <1>1, OneLineTells
<1>3. Body(e, verbose) \in Blocks(C)
  BY BodyHonest DEF Honest
<1>4. QED
  BY <1>2, <1>3, TextsJoin DEF RenderHuman

LEMMA SchedulerNames ==
    ASSUME NEW jobs, NEW others, Separate(jobs, others), NEW text \in Seq(others)
    PROVE  EmitScheduler(text)[1] \in Seq(NamedLines(jobs, others))
<1> DEFINE b == Detail(Named(text))
           w == [b EXCEPT ![1] = Line(0, <<"scheduler">> \o @.text)]
<1>1. "w" \in others /\ "scheduler" \in others
  BY DEF Separate
<1>2. b \in Blocks(others) /\ Len(b) # 0
  <2>1. Named(text) \in Seq(others)
    <3>1. "lf" # "w"
      OBVIOUS
    <3>2. QED
      BY <1>1, <3>1, NamedTells
  <2>2. b \in Blocks(others)
    <3>1. "w" # "lf"
      OBVIOUS
    <3>2. QED
      BY <2>1, <3>1, DetailTells
  <2>3. SplitLines(Named(text)) \in Parted(others)
    BY <2>1, SplitType
  <2>4. Len(SplitLines(Named(text))) \in Nat /\ Len(SplitLines(Named(text))) # 0
        /\ DOMAIN SplitLines(Named(text)) = 1 .. Len(SplitLines(Named(text)))
    BY <2>3, LenProperties DEF Parted
  <2>5. DOMAIN b # {}
    <3>1. DOMAIN b = DOMAIN SplitLines(Named(text))
      BY DEF Detail
    <3>2. 1 \in DOMAIN b
      BY <2>4, <3>1
    <3>3. QED
      BY <3>2
  <2>6. QED
    BY <2>2, <2>5, LenProperties DEF Blocks
<1>3. EmitScheduler(text)[1] = w
  BY DEF EmitScheduler
<1> HIDE DEF b
<1>4. /\ Len(b) \in Nat /\ DOMAIN b = 1 .. Len(b) /\ 1 \in 1 .. Len(b)
      /\ \A i \in 1 .. Len(b) : b[i] \in Lines(others)
  BY <1>2, LenProperties, ElementOfSeq DEF Blocks
<1>5. Line(0, <<"scheduler">> \o b[1].text) \in Lines(others)
  <2>1. b[1].text \in Seq(others) /\ <<"scheduler">> \in Seq(others)
    BY <1>1, <1>4 DEF Lines
  <2>2. <<"scheduler">> \o b[1].text \in Seq(others)
    BY <2>1, ConcatProperties
  <2>3. QED
    BY <2>2, LineType
<1>6. ASSUME NEW l \in Lines(others) PROVE l \in NamedLines(jobs, others)
  <2>1. l.text \in Seq(others) /\ l.indent \in Nat /\ l.tag \in others \cup {NoTag}
        /\ l = [tag |-> l.tag, indent |-> l.indent, text |-> l.text]
    BY DEF Lines
  <2>2. l.text \in Seq(jobs \cup others)
    <3>1. others \subseteq jobs \cup others
      OBVIOUS
    <3>2. QED
      BY <2>1, <3>1, SeqSubset
  <2>3. l \in Lines(jobs \cup others)
    BY <2>1, <2>2 DEF Lines
  <2>4. \A j \in jobs : ~Mentions(l, j)
    BY <2>1, ElementOfSeq, LenProperties DEF Mentions, Separate
  <2>5. QED
    BY <2>3, <2>4 DEF NamedLines
<1>7. \A i \in 1 .. Len(b) : w[i] \in NamedLines(jobs, others)
  BY <1>4, <1>5, <1>6
<1>8. w = [i \in 1 .. Len(b) |-> w[i]]
  BY <1>4
<1> HIDE DEF w
<1>9. QED
  BY <1>3, <1>4, <1>7, <1>8

\* However many jobs narrate, and in whatever order their sinks and the scheduler's write:
\* every line that shows something of a job names that job (prefix_lines, HumanEventSink,
\* render_scheduler_event).
THEOREM EveryJobIsNamed ==
    ASSUME NEW jobs, NEW others, Separate(jobs, others), NEW out \in Seq(Writes(jobs, others))
    PROVE  LinesNameTheirJob(out, jobs)
<1> DEFINE G == NamedLines(jobs, others)
<1>1. ASSUME NEW w \in Writes(jobs, others) PROVE w \in Seq(G)
  <2>1. CASE w \in {EmitScheduler(text)[1] : text \in Seq(others)}
    BY <2>1, SchedulerNames
  <2>2. CASE w \in {PrefixLines(RenderHuman(p[1], p[2]), p[1].job) : p \in EventsOf(jobs, others) \X BOOLEAN}
    <3>1. PICK e \in EventsOf(jobs, others), v \in BOOLEAN : w = PrefixLines(RenderHuman(e, v), e.job)
      BY <2>2
    <3>2. e.job \in jobs /\ e.kind \in JobEventKind /\ e.text \in Seq({e.job} \cup others)
      BY DEF EventsOf
    <3>3. Narrates({e.job} \cup others, e)
      BY <3>2 DEF Narrates, Separate
    <3>4. RenderHuman(e, v) \in Blocks({e.job} \cup others)
      BY <3>3, RenderType
    <3>5. QED
      BY <3>1, <3>2, <3>4, PrefixNames
  <2>3. QED
    BY <2>1, <2>2 DEF Writes
<1> HIDE DEF G
<1>2. out \in Seq(Seq(G))
  <2>1. Writes(jobs, others) \subseteq Seq(G)
    BY <1>1
  <2>2. QED
    BY <2>1, SeqSubset
<1>3. FlattenSeq(out) \in Seq(G)
  BY <1>2, FlattenType
<1>4. \A i \in DOMAIN FlattenSeq(out) : FlattenSeq(out)[i] \in G
  BY <1>3, ElementOfSeq, LenProperties
<1>5. QED
  BY <1>4 DEF LinesNameTheirJob, G, NamedLines

\* However two sinks interleave, what comes out is what they wrote.
LEMMA InterleavingType ==
    ASSUME NEW S, NEW a \in Seq(S), NEW b \in Seq(S), NEW out \in Interleavings(a, b)
    PROVE  out \in Seq(S)
<1> DEFINE n == Len(a) + Len(b)
           Before(places, i) == Cardinality({k \in places : k <= i})
<1>1. /\ Len(a) \in Nat /\ Len(b) \in Nat /\ n \in Nat
      /\ \A i \in 1 .. Len(a) : a[i] \in S
      /\ \A i \in 1 .. Len(b) : b[i] \in S
  BY LenProperties, ElementOfSeq
<1>2. PICK places : /\ places \in SUBSET (1 .. n) /\ Cardinality(places) = Len(a)
                    /\ out = [i \in 1 .. n |-> IF i \in places THEN a[Before(places, i)]
                                               ELSE b[i - Before(places, i)]]
  BY DEF Interleavings
<1>3. ASSUME NEW i \in 1 .. n
      PROVE  IF i \in places THEN Before(places, i) \in 1 .. Len(a)
                             ELSE i - Before(places, i) \in 1 .. Len(b)
  <2> DEFINE p == {k \in places : k <= i}
             r == (1 .. i) \ p
             rest == (1 .. n) \ places
  <2>1. /\ IsFiniteSet(1 .. n) /\ Cardinality(1 .. n) = n
        /\ IsFiniteSet(1 .. i) /\ Cardinality(1 .. i) = i
    BY <1>1, FS_Interval
  <2>2. IsFiniteSet(places)
    BY <1>2, <2>1, FS_Subset
  <2>3. IsFiniteSet(p) /\ Cardinality(p) <= Len(a) /\ Cardinality(p) \in Nat
    BY <1>2, <2>2, FS_Subset, FS_CardinalityType
  <2>4. /\ IsFiniteSet(r) /\ Cardinality(r) = i - Cardinality(p) /\ Cardinality(r) \in Nat
    <3>1. (1 .. i) \cap p = p
      <4>1. \A k \in p : k \in 1 .. i
        BY <1>1, <1>2
      <4>2. QED
        BY <4>1
    <3> HIDE DEF p
    <3>2. Cardinality(r) = Cardinality(1 .. i) - Cardinality((1 .. i) \cap p) /\ IsFiniteSet(r)
      BY <2>1, FS_Difference
    <3>3. QED
      BY <2>1, <3>1, <3>2, FS_CardinalityType
  <2>5. IsFiniteSet(rest) /\ Cardinality(rest) = Len(b)
    <3>1. (1 .. n) \cap places = places
      BY <1>2
    <3>2. Cardinality(rest) = Cardinality(1 .. n) - Cardinality((1 .. n) \cap places) /\ IsFiniteSet(rest)
      BY <2>1, FS_Difference
    <3>3. Cardinality(rest) = n - Len(a)
      BY <1>2, <2>1, <3>1, <3>2
    <3>4. QED
      BY <1>1, <3>2, <3>3
  <2>6. r \subseteq rest
    BY <1>1, <1>2
  <2>7. Cardinality(r) <= Len(b)
    BY <2>5, <2>6, FS_Subset
  <2>8. i \in places => p # {}
    OBVIOUS
  <2>9. i \notin places => r # {}
    OBVIOUS
  <2> HIDE DEF p, r, rest
  <2>10. i \in places => Cardinality(p) # 0
    BY <2>3, <2>8, FS_EmptySet
  <2>11. i \notin places => Cardinality(r) # 0
    BY <2>4, <2>9, FS_EmptySet
  <2>12. Before(places, i) = Cardinality(p)
    BY DEF p
  <2> HIDE DEF Before
  <2>13. QED
    BY <1>1, <2>3, <2>4, <2>7, <2>10, <2>11, <2>12
<1> HIDE DEF Before
<1>4. \A i \in 1 .. n : out[i] \in S
  BY <1>1, <1>2, <1>3
<1>5. out = [i \in 1 .. n |-> out[i]]
  BY <1>2
<1>6. QED
  BY <1>1, <1>4, <1>5

LEMMA LinesHold == EveryLineNamesItsJob
<1> DEFINE jobs == {"1", "2"}
           others == {"w", "lf", "...", "scheduler"}
           two == [kind |-> "Failed", job |-> "2", text |-> <<"2", "lf", "2">>, has |-> {}]
<1>1. Separate(jobs, others)
  BY DEF Separate
<1>2. ASSUME NEW e \in EventsOf(jobs, others), NEW verbose \in BOOLEAN
      PROVE  EmitHuman(e, verbose) \in Seq(Writes(jobs, others))
  <2>1. PrefixLines(RenderHuman(e, verbose), e.job) \in Writes(jobs, others)
    <3>1. <<e, verbose>> \in EventsOf(jobs, others) \X BOOLEAN
      OBVIOUS
    <3>2. QED
      BY <3>1 DEF Writes
  <2>2. QED
    BY <2>1 DEF EmitHuman
<1>3. EmitScheduler(<<"w">>) \in Seq(Writes(jobs, others))
  <2>1. <<"w">> \in Seq(others)
    OBVIOUS
  <2>2. EmitScheduler(<<"w">>)[1] \in Writes(jobs, others)
    BY <2>1 DEF Writes
  <2>3. EmitScheduler(<<"w">>) = <<EmitScheduler(<<"w">>)[1]>>
    BY DEF EmitScheduler
  <2> DEFINE w == EmitScheduler(<<"w">>)[1]
  <2> HIDE DEF w
  <2>4. <<w>> \in Seq(Writes(jobs, others))
    BY <2>2 DEF w
  <2>5. QED
    BY <2>3, <2>4 DEF w
<1>4. two \in EventsOf(jobs, others)
  <2>1. two.text \in Seq({two.job} \cup others) /\ two.text \in Seq(jobs \cup others)
    OBVIOUS
  <2>2. two.kind \in JobEventKind
    BY DEF JobEventKind, EndKinds
  <2>3. QED
    BY <2>1, <2>2 DEF EventsOf
<1>5. ASSUME NEW one \in Events("1") PROVE one \in EventsOf(jobs, others)
  <2>1. /\ one.kind \in JobEventKind /\ one.job = "1" /\ one.text \in SaidBy("1")
        /\ one.has \in {{}, {"prompt"}, {"reason"}, Parts}
        /\ one = [kind |-> one.kind, job |-> one.job, text |-> one.text, has |-> one.has]
    BY DEF Events
  <2>2. one.text \in Seq({"1"} \cup others) /\ one.text \in Seq(jobs \cup others)
    <3>1. PICK n \in 0 .. 3 : one.text \in [1 .. n -> {"1", "lf"}]
      BY <2>1 DEF SaidBy
    <3>2. one.text \in [1 .. n -> {"1"} \cup others] /\ one.text \in [1 .. n -> jobs \cup others] /\ n \in Nat
      BY <3>1
    <3>3. QED
      BY <3>2, SeqDef
  <2>3. one.has \in SUBSET AllParts
    BY <2>1 DEF Parts, AllParts
  <2>4. QED
    BY <2>1, <2>2, <2>3 DEF EventsOf
<1>6. ASSUME NEW one \in Events("1"), NEW verbose \in BOOLEAN,
             NEW out \in Interleavings(EmitHuman(one, verbose) \o EmitHuman(two, verbose),
                                       EmitScheduler(<<"w">>))
      PROVE  LinesNameTheirJob(out, {"1", "2"})
  <2>1. EmitHuman(one, verbose) \o EmitHuman(two, verbose) \in Seq(Writes(jobs, others))
    BY <1>2, <1>4, <1>5, ConcatProperties
  <2> HIDE DEF two, others
  <2>2. out \in Seq(Writes(jobs, others))
    BY <1>3, <1>6, <2>1, InterleavingType
  <2>3. QED
    BY <1>1, <2>2, EveryJobIsNamed
<1>7. QED
  BY <1>6 DEF EveryLineNamesItsJob

-----------------------------------------------------------------------------
(* The daemon's history, for any number of events.                         *)

DaemonKinds == DurableKinds \cup TransientKinds

Outputs == [log : Seq(DaemonKinds), narration : Seq(DaemonKinds)]

Silence == [log |-> <<>>, narration |-> <<>>]

LEMMA EmitDaemonIs ==
    ASSUME NEW out \in Outputs, NEW kind \in DaemonKinds, NEW fails, NEW terminal \in BOOLEAN
    PROVE  LET new == EmitDaemon(out, kind, fails, terminal)
           IN  /\ new \in Outputs
               /\ new.log = IF kind \in DurableKinds /\ "log" \notin fails THEN Append(out.log, kind) ELSE out.log
               /\ new.narration = out.narration \/ new.narration = Append(out.narration, kind)
               /\ ~terminal /\ new.log = out.log => new.narration = out.narration
<1> DEFINE logged == IF IsDurable(kind) /\ "log" \notin fails
                     THEN [out EXCEPT !.log = Append(@, kind)] ELSE out
           told == [logged EXCEPT !.narration = Append(@, kind)]
           silent == \/ IsDurable(kind) /\ "log" \in fails
                     \/ "narration" \in fails
                     \/ ~terminal /\ ~IsDurable(kind)
           new == EmitDaemon(out, kind, fails, terminal)
<1>1. /\ Append(out.log, kind) \in Seq(DaemonKinds) /\ Append(out.narration, kind) \in Seq(DaemonKinds)
      /\ out.log \in Seq(DaemonKinds) /\ out.narration \in Seq(DaemonKinds)
      /\ Append(out.log, kind) # out.log
  <2>1. out.log \in Seq(DaemonKinds) /\ out.narration \in Seq(DaemonKinds)
    BY DEF Outputs
  <2>2. /\ Append(out.log, kind) \in Seq(DaemonKinds) /\ Append(out.narration, kind) \in Seq(DaemonKinds)
        /\ Len(Append(out.log, kind)) = Len(out.log) + 1
    BY <2>1, AppendProperties
  <2>3. Len(out.log) \in Nat
    BY <2>1, LenProperties
  <2>4. Append(out.log, kind) # out.log
    BY <2>2, <2>3
  <2>5. QED
    BY <2>1, <2>2, <2>4
<1>2. new = IF silent THEN logged ELSE told
  BY DEF EmitDaemon
<1>3. /\ logged \in Outputs /\ logged.narration = out.narration
      /\ logged.log = IF kind \in DurableKinds /\ "log" \notin fails THEN Append(out.log, kind) ELSE out.log
  BY <1>1 DEF Outputs, IsDurable
<1>4. told \in Outputs /\ told.log = logged.log /\ told.narration = Append(out.narration, kind)
  <2> HIDE DEF logged
  <2>1. QED
    BY <1>1, <1>3 DEF Outputs
<1>5. ~silent /\ ~terminal => kind \in DurableKinds /\ "log" \notin fails
  BY DEF IsDurable
<1> HIDE DEF new, told, logged, silent
<1>6. QED
  BY <1>1, <1>2, <1>3, <1>4, <1>5 DEF new

LEMMA HistoryFolds ==
    ASSUME NEW kinds \in Seq(DaemonKinds), NEW fails, NEW terminal \in BOOLEAN
    PROVE  \E h \in [0 .. Len(kinds) -> Outputs] :
             /\ h[0] = Silence
             /\ \A n \in 1 .. Len(kinds) : h[n] = EmitDaemon(h[n - 1], kinds[n], fails[n], terminal)
             /\ History(kinds, fails, terminal) = h[Len(kinds)]
<1> DEFINE N == Len(kinds)
           s == [i \in 1 .. N |-> i]
           E == 1 .. N
           step == [p \in Outputs \X E |-> EmitDaemon(p[1], kinds[p[2]], fails[p[2]], terminal)]
           Of(f) == [d \in SUBSET (1 .. N) |->
                       IF d = {} THEN Silence
                       ELSE EmitDaemon(f[d \ {Max(d)}], kinds[s[Max(d)]], fails[s[Max(d)]], terminal)]
           iter == CHOOSE f : f = Of(f)
<1>1. N \in Nat /\ DOMAIN kinds = 1 .. N /\ \A i \in E : kinds[i] \in DaemonKinds
  BY LenProperties, ElementOfSeq
<1>2. step \in [Outputs \X E -> Outputs]
  BY <1>1, EmitDaemonIs
<1>3. Silence \in Outputs
  <2>1. <<>> \in Seq(DaemonKinds)
    BY EmptySeq
  <2>2. QED
    BY <2>1 DEF Silence, Outputs
<1>4. s \in Seq(E) /\ Len(s) = N /\ DOMAIN s = 1 .. N /\ s \in [1 .. N -> E] /\ \A i \in E : s[i] = i
  BY <1>1
<1>5. \A o \in Outputs, i \in E : step[<<o, i>>] = EmitDaemon(o, kinds[i], fails[i], terminal)
  OBVIOUS
<1> HIDE DEF s, E, step
<1>6. \E f : f = Of(f)
  <2>1. PICK g \in [SUBSET (1 .. N) -> Outputs] : FoldFunctionOf(step, Silence, s, N, g)
    BY <1>1, <1>2, <1>3, <1>4, FoldExists
  <2>2. ASSUME NEW d \in SUBSET (1 .. N)
        PROVE  g[d] = IF d = {} THEN Silence
                      ELSE EmitDaemon(g[d \ {Max(d)}], kinds[s[Max(d)]], fails[s[Max(d)]], terminal)
    <3>1. CASE d = {}
      BY <2>1, <3>1 DEF FoldFunctionOf
    <3>2. CASE d # {}
      <4>1. Max(d) \in 1 .. N
        BY <1>1, <3>2, MaxIsGreatest
      <4>2. g[d \ {Max(d)}] \in Outputs /\ s[Max(d)] \in E
        BY <1>4, <4>1 DEF E
      <4>3. g[d] = step[<<g[d \ {Max(d)}], s[Max(d)]>>]
        BY <2>1, <3>2 DEF FoldFunctionOf
      <4>4. QED
        BY <3>2, <4>2, <4>3, <1>5
    <3>3. QED
      BY <3>1, <3>2
  <2>3. g = [d \in SUBSET (1 .. N) |-> g[d]]
    OBVIOUS
  <2>4. g = Of(g)
    BY <2>2, <2>3
  <2>5. QED
    BY <2>4
<1>7. iter = Of(iter)
  BY <1>6
<1>8. FoldLeft(LAMBDA o, i : EmitDaemon(o, kinds[i], fails[i], terminal), Silence, s) = iter[1 .. N]
  BY <1>4 DEF FoldLeft, MapThenFoldSet
<1> HIDE DEF iter
<1>9. \A d \in SUBSET (1 .. N) :
        iter[d] = IF d = {} THEN Silence
                  ELSE EmitDaemon(iter[d \ {Max(d)}], kinds[s[Max(d)]], fails[s[Max(d)]], terminal)
  BY <1>7
<1>10. iter[1 .. 0] = Silence
  <2>1. 1 .. 0 = {} /\ 1 .. 0 \in SUBSET (1 .. N)
    OBVIOUS
  <2>2. QED
    BY <1>9, <2>1
<1>11. ASSUME NEW n \in 1 .. Len(s), iter[1 .. n - 1] \in Outputs
       PROVE  iter[1 .. n] = step[<<iter[1 .. n - 1], s[n]>>]
  <2>1. n \in 1 .. N /\ Max(1 .. n) = n /\ (1 .. n) \ {n} = 1 .. n - 1
    BY <1>4, MaxOfInterval
  <2>2. 1 .. n \in SUBSET (1 .. N) /\ 1 .. n # {}
    <3>1. n \in 1 .. n /\ \A i \in 1 .. n : i \in 1 .. N
      BY <1>1, <2>1
    <3>2. QED
      BY <3>1
  <2>3. iter[1 .. n] = EmitDaemon(iter[1 .. n - 1], kinds[s[n]], fails[s[n]], terminal)
    BY <1>9, <2>1, <2>2
  <2>4. s[n] \in E
    BY <1>4, <2>1 DEF E
  <2>5. QED
    BY <1>5, <1>11, <2>3, <2>4
<1>12. Folding(Outputs, step, Silence, s, iter[1 .. Len(s)])
  <2>1. \A n \in 1 .. Len(s) : iter[1 .. n - 1] \in Outputs => iter[1 .. n] = step[<<iter[1 .. n - 1], s[n]>>]
    BY <1>11
  <2>2. s \in Seq(E)
    BY <1>4
  <2>3. QED
    BY ONLY <1>2, <1>3, <1>10, <2>1, <2>2, ChosenFolds
<1>13. PICK h \in [0 .. N -> Outputs] :
          /\ h[0] = Silence /\ iter[1 .. N] = h[N]
          /\ \A n \in 1 .. N : h[n] = step[<<h[n - 1], s[n]>>]
  BY <1>4, <1>12 DEF Folding
<1>14. ASSUME NEW n \in 1 .. N PROVE h[n] = EmitDaemon(h[n - 1], kinds[n], fails[n], terminal)
  <2>1. n - 1 \in 0 .. N /\ n \in E /\ s[n] = n
    BY <1>1, <1>4 DEF E
  <2>2. h[n] = step[<<h[n - 1], n>>] /\ h[n - 1] \in Outputs
    BY <1>13, <2>1
  <2>3. QED
    BY <1>5, <2>1, <2>2
<1>15. [i \in DOMAIN kinds |-> i] = s
  BY <1>1 DEF s
<1>16. History(kinds, fails, terminal) = iter[1 .. N]
  BY <1>8, <1>15 DEF History, Silence
<1>17. QED
  BY <1>13, <1>14, <1>16

\* However many events the daemon emits, and whichever writes fail: the log is the durable
\* events it could write, in order, and a captured narration never tells more than the log
\* (CompositeDaemonSink, DurableDaemonSink, DaemonLogSink).
THEOREM TheHistoryIsKept ==
    ASSUME NEW kinds \in Seq(DaemonKinds), NEW fails, NEW terminal \in BOOLEAN
    PROVE  HistoryIsKept(kinds, fails, terminal)
<1> DEFINE N == Len(kinds)
           Kept(i) == IF kinds[i] \in DurableKinds /\ "log" \notin fails[i] THEN <<kinds[i]>> ELSE <<>>
           kept == [i \in 1 .. N |-> Kept(i)]
           Log(n) == FlattenSeq([i \in 1 .. n |-> kept[i]])
<1>1. N \in Nat /\ DOMAIN kinds = 1 .. N /\ \A i \in 1 .. N : kinds[i] \in DaemonKinds
  BY LenProperties, ElementOfSeq
<1>2. PICK h \in [0 .. N -> Outputs] :
         /\ h[0] = Silence
         /\ \A n \in 1 .. N : h[n] = EmitDaemon(h[n - 1], kinds[n], fails[n], terminal)
         /\ History(kinds, fails, terminal) = h[N]
  BY HistoryFolds
<1>3. \A i \in 1 .. N : kept[i] = Kept(i) /\ Kept(i) \in Seq(DaemonKinds)
  <2>1. ASSUME NEW i \in 1 .. N PROVE Kept(i) \in Seq(DaemonKinds)
    <3>1. <<kinds[i]>> \in Seq(DaemonKinds) /\ <<>> \in Seq(DaemonKinds)
      BY <1>1, EmptySeq
    <3>2. QED
      BY <3>1
  <2>2. QED
    BY <2>1
<1> HIDE DEF kept
<1> DEFINE Ok(n) == /\ h[n].log = Log(n)
                    /\ ~terminal => Len(h[n].narration) <= Len(h[n].log)
           T == {n \in 0 .. N : Ok(n)}
<1>4. 0 \in T
  <2>1. Log(0) = <<>>
    <3>1. [i \in 1 .. 0 |-> kept[i]] = <<>>
      OBVIOUS
    <3>2. QED
      BY <3>1, FlattenEmpty
  <2>2. h[0].log = <<>> /\ h[0].narration = <<>> /\ Len(<<>>) = 0 /\ 0 \in 0 .. N
    BY <1>1, <1>2 DEF Silence
  <2>3. QED
    BY <2>1, <2>2
<1>5. ASSUME NEW n \in 0 .. N - 1, n \in T PROVE n + 1 \in T
  <2> DEFINE o == h[n]
             new == h[n + 1]
             kind == kinds[n + 1]
  <2>1. n \in Nat /\ n + 1 \in 1 .. N /\ n + 1 \in 0 .. N /\ n \in 0 .. N /\ n + 1 - 1 = n
    BY <1>1
  <2>2. o \in Outputs /\ kind \in DaemonKinds /\ Ok(n)
    BY <1>1, <1>5, <2>1
  <2>3. new = EmitDaemon(o, kind, fails[n + 1], terminal)
    BY <1>2, <2>1
  <2>4. \A i \in 1 .. n + 1 : kept[i] \in Seq(DaemonKinds)
    <3>1. \A i \in 1 .. n + 1 : i \in 1 .. N
      BY <1>1, <2>1
    <3>2. QED
      BY <1>3, <3>1
  <2>5. Log(n + 1) = Log(n) \o kept[n + 1] /\ Log(n) \in Seq(DaemonKinds)
    <3>1. /\ [i \in 1 .. n |-> kept[i]] \in Seq(Seq(DaemonKinds))
          /\ [i \in 1 .. n + 1 |-> kept[i]] = Append([i \in 1 .. n |-> kept[i]], kept[n + 1])
          /\ kept[n + 1] \in Seq(DaemonKinds)
      BY <2>1, <2>4, MapGrows
    <3>2. QED
      BY <3>1, FlattenAppend, FlattenType
  <2>6. kept[n + 1] = IF kind \in DurableKinds /\ "log" \notin fails[n + 1] THEN <<kind>> ELSE <<>>
    BY <1>3, <2>1
  <2> HIDE DEF Log
  <2>7. /\ new \in Outputs
        /\ new.log = IF kind \in DurableKinds /\ "log" \notin fails[n + 1] THEN Append(o.log, kind) ELSE o.log
        /\ new.narration = o.narration \/ new.narration = Append(o.narration, kind)
        /\ ~terminal /\ new.log = o.log => new.narration = o.narration
    BY <2>2, <2>3, EmitDaemonIs
  <2> HIDE DEF o, new, kind
  <2>8. new.log = Log(n + 1)
    <3>1. o.log = Log(n)
      BY <2>2 DEF o
    <3>2. Append(o.log, kind) = o.log \o <<kind>> /\ o.log \o <<>> = o.log
      BY <2>2, <2>5, <3>1, AppendIsConcat, ConcatEmptySeq
    <3>3. QED
      BY <2>5, <2>6, <2>7, <3>1, <3>2
  <2>9. ~terminal => Len(new.narration) <= Len(new.log)
    <3>1. /\ o.log \in Seq(DaemonKinds) /\ o.narration \in Seq(DaemonKinds)
          /\ Len(o.log) \in Nat /\ Len(o.narration) \in Nat
          /\ Len(Append(o.log, kind)) = Len(o.log) + 1
          /\ Len(Append(o.narration, kind)) = Len(o.narration) + 1
      <4>1. o.log \in Seq(DaemonKinds) /\ o.narration \in Seq(DaemonKinds)
        BY <2>2 DEF Outputs
      <4>2. QED
        BY <2>2, <4>1, AppendProperties, LenProperties
    <3>2. ~terminal => Len(o.narration) <= Len(o.log)
      BY <2>2 DEF o
    <3>3. QED
      BY <2>7, <3>1, <3>2, SMTT(60)
  <2>10. QED
    BY <2>1, <2>8, <2>9 DEF new
<1>6. \A n \in 0 .. N : n \in T
  <2> HIDE DEF T
  <2>1. QED
    BY <1>1, <1>4, <1>5, SetInductionUpTo
<1>7. Ok(N)
  BY <1>1, <1>6
<1>8. Log(N) = FlattenSeq([i \in DOMAIN kinds |-> Kept(i)])
  BY <1>1 DEF kept
<1>9. QED
  BY <1>2, <1>7, <1>8 DEF HistoryIsKept, Silence

LEMMA HistoryHolds == DaemonHistoryIsKept
<1>1. ASSUME NEW kinds \in [1 .. 3 -> {"JobsSubmitted", "ClientConnected", "DaemonStopped"}]
      PROVE  kinds \in Seq(DaemonKinds)
  <2>1. kinds \in [1 .. 3 -> DaemonKinds] /\ 3 \in Nat
    BY DEF DaemonKinds, DurableKinds, TransientKinds
  <2>2. QED
    BY <2>1, SeqDef
<1>2. QED
  BY <1>1, TheHistoryIsKept DEF DaemonHistoryIsKept

-----------------------------------------------------------------------------
\* What is written to a shared stream is understood by whoever reads it: on the instance
\* that is checked this follows from what holds for any messages, events and writes.
THEOREM StreamsAreAlwaysUnderstood == Spec => []StreamsAreUnderstood
<1>1. MessagesArriveWhole
  BY RequestsHold, AnswersHold DEF MessagesArriveWhole
<1>2. NarrationIsReadable
  BY LinesHold, CutTextHolds, HistoryHolds DEF NarrationIsReadable
<1>3. StreamsAreUnderstood
  BY <1>1, <1>2 DEF StreamsAreUnderstood
<1>4. QED
  BY <1>3, PTL

================================================================================
