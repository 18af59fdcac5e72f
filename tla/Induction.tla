------------------------------- MODULE Induction -------------------------------
(***************************************************************************)
(* Induction as facts about sets, so that a prover of first-order logic    *)
(* can use it, and what it shows of the folds of the community modules:    *)
(* a fold over a sequence is one step after another.  The proofs about     *)
(* texts, streams, paths and listings of any length rest on these.         *)
(***************************************************************************)
EXTENDS Naturals, SequencesExt, SequenceTheorems, FiniteSetTheorems, TLAPS

\* A set of natural numbers has a least element: strict inclusion is well founded on
\* the finite sets 0 .. n.
LEMMA LeastOfSet ==
    ASSUME NEW T, T \subseteq Nat, T # {}
    PROVE  \E n \in T : \A m \in T : n <= m
<1>1. PICK b \in T : TRUE
  OBVIOUS
<1> DEFINE S == 0 .. b
           Below == {0 .. m : m \in {m \in T : m <= b}}
<1>2. IsFiniteSet(S)
  BY <1>1, FS_Interval
<1>3. IsWellFoundedOn(StrictSubsetOrdering(S), FiniteSubsetsOf(S))
  BY FS_StrictSubsetOrderingWellFounded
<1>4. Below \subseteq FiniteSubsetsOf(S)
  <2>1. ASSUME NEW m \in T, m <= b PROVE 0 .. m \in SUBSET S /\ IsFiniteSet(0 .. m)
    BY <1>1, <2>1, FS_Interval
  <2>2. QED
    BY <2>1 DEF FiniteSubsetsOf
<1>5. Below # {}
  BY <1>1
<1>6. \E x \in Below : \A y \in Below : ~(<<y, x>> \in StrictSubsetOrdering(S))
  BY <1>3, <1>4, <1>5, WFMin
<1>7. PICK n \in T : n <= b /\ \A y \in Below : ~(<<y, 0 .. n>> \in StrictSubsetOrdering(S))
  BY <1>6
<1>8. ASSUME NEW m \in T, m < n PROVE FALSE
  <2>1. 0 .. m \in Below
    BY <1>1, <1>7, <1>8
  <2>2. 0 .. m \subseteq 0 .. n /\ 0 .. m # 0 .. n
    BY <1>8
  <2>3. <<0 .. m, 0 .. n>> \in StrictSubsetOrdering(S)
    BY <2>2, <1>1, <1>7, <1>8 DEF StrictSubsetOrdering
  <2>4. QED
    BY <2>1, <2>3, <1>7
<1>9. QED
  BY <1>7, <1>8

\* What holds of 0, and of n + 1 whenever it holds of n, holds of every number: T is
\* the set of the numbers it holds of.
LEMMA SetInduction ==
    ASSUME NEW T, 0 \in T, \A n \in Nat : n \in T => n + 1 \in T
    PROVE  \A n \in Nat : n \in T
<1> SUFFICES ASSUME Nat \ T # {} PROVE FALSE
  OBVIOUS
<1>1. PICK n \in Nat \ T : \A m \in Nat \ T : n <= m
  BY LeastOfSet
<1>2. n # 0 /\ n - 1 \in Nat
  BY <1>1
<1>3. n - 1 \in T
  BY <1>1, <1>2
<1>4. QED
  BY <1>1, <1>2, <1>3

\* The same up to a bound.
LEMMA SetInductionUpTo ==
    ASSUME NEW N \in Nat, NEW T, 0 \in T, \A n \in 0 .. N - 1 : n \in T => n + 1 \in T
    PROVE  \A n \in 0 .. N : n \in T
<1> DEFINE U == {n \in Nat : n <= N => n \in T}
<1>1. 0 \in U
  OBVIOUS
<1>2. ASSUME NEW n \in Nat, n \in U PROVE n + 1 \in U
  BY <1>2
<1> HIDE DEF U
<1>3. \A n \in Nat : n \in U
  BY <1>1, <1>2, SetInduction
<1>4. QED
  BY <1>3 DEF U

\* A set of numbers up to N has a greatest element.
LEMMA MaxUpTo ==
    ASSUME NEW N \in Nat, NEW s, s \subseteq 0 .. N, s # {}
    PROVE  Max(s) \in s /\ \A m \in s : m <= Max(s)
<1> DEFINE T == {N - m : m \in s}
<1>1. PICK n \in T : \A m \in T : n <= m
  <2>1. T \subseteq Nat /\ T # {}
    <3>1. \A m \in s : m \in 0 .. N /\ N - m \in Nat
      OBVIOUS
    <3>2. QED
      BY <3>1
  <2> HIDE DEF T
  <2>2. QED
    BY <2>1, LeastOfSet
<1>2. PICK k \in s : n = N - k
  BY <1>1
<1>3. ASSUME NEW m \in s PROVE k >= m
  <2>1. n <= N - m /\ m \in 0 .. N /\ k \in 0 .. N
    BY <1>1, <1>2
  <2>2. QED
    BY <2>1, <1>2
<1>4. QED
  BY <1>2, <1>3 DEF Max

\* The same of the positions in a sequence.
LEMMA MaxIsGreatest ==
    ASSUME NEW N \in Nat, NEW s, s \subseteq 1 .. N, s # {}
    PROVE  Max(s) \in s /\ \A m \in s : m <= Max(s)
<1>1. s \subseteq 0 .. N
  OBVIOUS
<1>2. QED
  BY <1>1, MaxUpTo

LEMMA MaxOfInterval ==
    ASSUME NEW n \in Nat, n > 0
    PROVE  Max(1 .. n) = n /\ (1 .. n) \ {n} = 1 .. n - 1
<1>1. Max(1 .. n) \in 1 .. n /\ \A m \in 1 .. n : m <= Max(1 .. n)
  <2>1. 1 .. n \subseteq 1 .. n /\ 1 .. n # {}
    OBVIOUS
  <2>2. QED
    BY <2>1, MaxIsGreatest
<1>2. QED
  BY <1>1

-----------------------------------------------------------------------------
(* Folds.  `step` is the folded operator as a function on V \X E, where V  *)
(* are the values it yields and E the elements of the sequence.            *)

\* The function that MapThenFoldSet computes for the first N elements of x.
FoldFunctionOf(step, base, x, N, g) ==
    \A s \in SUBSET (1 .. N) :
       g[s] = IF s = {} THEN base ELSE step[<<g[s \ {Max(s)}], x[Max(s)]>>]

\* It exists, and stays in V.
LEMMA FoldExists ==
    ASSUME NEW V, NEW E, NEW step \in [V \X E -> V], NEW base \in V,
           NEW N \in Nat, NEW x \in [1 .. N -> E]
    PROVE  \E g \in [SUBSET (1 .. N) -> V] : FoldFunctionOf(step, base, x, N, g)
<1> DEFINE Folds(n, g) ==
              \A s \in SUBSET (1 .. n) :
                 g[s] = IF s = {} THEN base ELSE step[<<g[s \ {Max(s)}], x[Max(s)]>>]
           T == {n \in 0 .. N : \E g \in [SUBSET (1 .. n) -> V] : Folds(n, g)}
<1>1. 0 \in T
  <2> DEFINE g == [s \in SUBSET (1 .. 0) |-> base]
  <2>1. g \in [SUBSET (1 .. 0) -> V]
    OBVIOUS
  <2>2. Folds(0, g)
    OBVIOUS
  <2> HIDE DEF g, Folds
  <2>3. \E f \in [SUBSET (1 .. 0) -> V] : Folds(0, f)
    BY <2>1, <2>2
  <2>4. 0 \in 0 .. N
    OBVIOUS
  <2>5. QED
    BY <2>3, <2>4
<1>2. ASSUME NEW n \in 0 .. N - 1, n \in T PROVE n + 1 \in T
  <2>1. PICK g \in [SUBSET (1 .. n) -> V] : Folds(n, g)
    BY <1>2
  <2> DEFINE Low(s) == s \ {n + 1}
             h == [s \in SUBSET (1 .. n + 1) |->
                     IF n + 1 \in s THEN step[<<g[Low(s)], x[n + 1]>>] ELSE g[s]]
  <2>2. \A s \in SUBSET (1 .. n + 1) : Low(s) \in SUBSET (1 .. n)
    OBVIOUS
  <2>3. \A s \in SUBSET (1 .. n + 1) : n + 1 \notin s => s \in SUBSET (1 .. n)
    OBVIOUS
  <2>4. x[n + 1] \in E
    OBVIOUS
  <2>5. h \in [SUBSET (1 .. n + 1) -> V]
    <3>1. ASSUME NEW s \in SUBSET (1 .. n + 1) PROVE h[s] \in V
      <4>1. CASE n + 1 \in s
        <5>1. g[Low(s)] \in V
          BY <2>2
        <5>2. h[s] = step[<<g[Low(s)], x[n + 1]>>]
          BY <4>1
        <5>3. <<g[Low(s)], x[n + 1]>> \in V \X E
          BY <5>1, <2>4
        <5>4. QED
          BY <5>2, <5>3
      <4>2. CASE n + 1 \notin s
        BY <4>2, <2>3
      <4>3. QED
        BY <4>1, <4>2
    <3> HIDE DEF Low
    <3>2. QED
      BY <3>1
  <2>6. Folds(n + 1, h)
    <3>1. SUFFICES ASSUME NEW s \in SUBSET (1 .. n + 1)
                   PROVE  h[s] = IF s = {} THEN base ELSE step[<<h[s \ {Max(s)}], x[Max(s)]>>]
      BY DEF Folds
    <3>2. CASE n + 1 \in s
      <4>1. Max(s) = n + 1
        <5>1. n + 1 \in Nat /\ s # {} /\ s \subseteq 1 .. n + 1
          BY <3>2
        <5>2. Max(s) \in s /\ \A m \in s : m <= Max(s)
          BY <5>1, MaxIsGreatest
        <5>3. Max(s) \in 1 .. n + 1 /\ n + 1 <= Max(s)
          BY <3>2, <5>1, <5>2
        <5> HIDE DEF h, Folds, T
        <5>4. QED
          BY <5>3
      <4>2. h[Low(s)] = g[Low(s)]
        BY <2>2
      <4>3. h[s] = step[<<g[Low(s)], x[n + 1]>>]
        BY <3>2
      <4>4. QED
        BY <3>2, <4>1, <4>2, <4>3
    <3>3. CASE n + 1 \notin s
      <4>1. s \in SUBSET (1 .. n) /\ h[s] = g[s]
        BY <3>3, <2>3
      <4>2. CASE s = {}
        BY <4>1, <4>2, <2>1
      <4>3. CASE s # {}
        <5>1. s \ {Max(s)} \in SUBSET (1 .. n) /\ n + 1 \notin s \ {Max(s)}
          BY <4>1, <3>3
        <5>2. h[s \ {Max(s)}] = g[s \ {Max(s)}]
          BY <5>1, s \ {Max(s)} \in SUBSET (1 .. n + 1)
        <5>3. g[s] = step[<<g[s \ {Max(s)}], x[Max(s)]>>]
          BY <4>1, <4>3, <2>1
        <5>4. QED
          BY <4>1, <4>3, <5>2, <5>3
      <4>4. QED
        BY <4>2, <4>3
    <3>4. QED
      BY <3>2, <3>3
  <2>7. QED
    <3> HIDE DEF h, Folds
    <3>1. QED
      BY <2>5, <2>6
<1>3. \A n \in 0 .. N : n \in T
  <2> HIDE DEF T
  <2>1. QED
    BY <1>1, <1>2, SetInductionUpTo
<1>4. N \in T
  <2> HIDE DEF T
  <2>1. QED
    BY <1>3
<1>5. QED
  BY <1>4 DEF FoldFunctionOf

-----------------------------------------------------------------------------
(* Flattening.                                                             *)

\* What FlattenSeq builds up, part by part.
Flattens(ss, f) ==
    f = [i \in 1 .. Len(ss) |-> IF i = 1 THEN ss[i] ELSE f[i - 1] \o ss[i]]

LEMMA FlattensStep ==
    ASSUME NEW ss, NEW f, Flattens(ss, f), Len(ss) \in Nat, NEW i \in 1 .. Len(ss)
    PROVE  f[i] = IF i = 1 THEN ss[i] ELSE f[i - 1] \o ss[i]
BY DEF Flattens

LEMMA FlattensExists ==
    ASSUME NEW E, NEW ss \in Seq(Seq(E))
    PROVE  \E f \in [1 .. Len(ss) -> Seq(E)] : Flattens(ss, f)
<1> DEFINE N == Len(ss)
           Up(n, f) == \A i \in 1 .. n : f[i] = IF i = 1 THEN ss[i] ELSE f[i - 1] \o ss[i]
           T == {n \in 0 .. N : \E f \in [1 .. n -> Seq(E)] : Up(n, f)}
<1>1. N \in Nat /\ \A i \in 1 .. N : ss[i] \in Seq(E)
  BY ElementOfSeq, LenProperties
<1>2. 0 \in T
  <2>1. [i \in 1 .. 0 |-> <<>>] \in [1 .. 0 -> Seq(E)] /\ Up(0, [i \in 1 .. 0 |-> <<>>])
    OBVIOUS
  <2> HIDE DEF Up
  <2>2. \E f \in [1 .. 0 -> Seq(E)] : Up(0, f)
    BY <2>1
  <2>3. 0 \in 0 .. N
    BY <1>1
  <2>4. QED
    BY <2>2, <2>3
<1>3. ASSUME NEW n \in 0 .. N - 1, n \in T PROVE n + 1 \in T
  <2>1. PICK f \in [1 .. n -> Seq(E)] : Up(n, f)
    BY <1>3
  <2> DEFINE next == IF n = 0 THEN ss[1] ELSE f[n] \o ss[n + 1]
             g == [i \in 1 .. n + 1 |-> IF i = n + 1 THEN next ELSE f[i]]
  <2>2. ss[n + 1] \in Seq(E) /\ n + 1 \in 0 .. N /\ n \in Nat
    BY <1>1
  <2>3. next \in Seq(E)
    <3>1. CASE n = 0
      BY <3>1, <2>2
    <3>2. CASE n # 0
      <4>1. f[n] \in Seq(E)
        BY <3>2, <2>1
      <4>2. f[n] \o ss[n + 1] \in Seq(E)
        BY <4>1, <2>2, ConcatProperties
      <4>3. QED
        BY <3>2, <4>2
    <3>3. QED
      BY <3>1, <3>2
  <2>4. g \in [1 .. n + 1 -> Seq(E)]
    <3> HIDE DEF next
    <3>1. QED
      BY <2>1, <2>3
  <2>5. Up(n + 1, g)
    <3>1. SUFFICES ASSUME NEW i \in 1 .. n + 1
                   PROVE  g[i] = IF i = 1 THEN ss[i] ELSE g[i - 1] \o ss[i]
      OBVIOUS
    <3>2. CASE i = n + 1
      <4>1. g[i] = next
        BY <3>2
      <4>2. i # 1 => g[i - 1] = f[n]
        BY <3>2
      <4>3. QED
        BY <3>2, <4>1, <4>2
    <3>3. CASE i # n + 1
      <4>1. i \in 1 .. n /\ (i # 1 => i - 1 \in 1 .. n)
        BY <3>3
      <4> HIDE DEF next
      <4>2. g[i] = f[i]
        BY <4>1, <3>3
      <4>5. i # 1 => g[i - 1] = f[i - 1]
        <5>1. i # 1 => i - 1 \in 1 .. n + 1 /\ i - 1 # n + 1
          BY <4>1
        <5>2. QED
          BY <5>1
      <4>3. f[i] = IF i = 1 THEN ss[i] ELSE f[i - 1] \o ss[i]
        BY <4>1, <2>1
      <4>4. QED
        BY <4>2, <4>3, <4>5
    <3>4. QED
      BY <3>2, <3>3
  <2> HIDE DEF g, Up
  <2>6. QED
    BY <2>2, <2>4, <2>5
<1>4. N \in T
  <2> HIDE DEF T
  <2>1. \A n \in 0 .. N : n \in T
    BY <1>1, <1>2, <1>3, SetInductionUpTo
  <2>2. QED
    BY <2>1, <1>1
<1>5. PICK f \in [1 .. N -> Seq(E)] : Up(N, f)
  BY <1>4
<1>6. f = [i \in 1 .. N |-> IF i = 1 THEN ss[i] ELSE f[i - 1] \o ss[i]]
  BY <1>5
<1>7. QED
  BY <1>5, <1>6 DEF Flattens

\* Two such constructions agree on what their sequences share.
LEMMA FlattensAgree ==
    ASSUME NEW ss, NEW tt, NEW f, NEW g, Flattens(ss, f), Flattens(tt, g),
           Len(ss) \in Nat, Len(tt) \in Nat, Len(ss) <= Len(tt),
           \A i \in 1 .. Len(ss) : ss[i] = tt[i]
    PROVE  \A i \in 1 .. Len(ss) : f[i] = g[i]
<1> DEFINE N == Len(ss)
           T == {n \in 0 .. N : n = 0 \/ f[n] = g[n]}
<1>1. 0 \in T
  OBVIOUS
<1>2. ASSUME NEW n \in 0 .. N - 1, n \in T PROVE n + 1 \in T
  <2>1. n + 1 \in 1 .. N /\ n + 1 \in 1 .. Len(ss) /\ n + 1 \in 1 .. Len(tt)
    OBVIOUS
  <2>2. /\ f[n + 1] = IF n = 0 THEN ss[1] ELSE f[n] \o ss[n + 1]
        /\ g[n + 1] = IF n = 0 THEN tt[1] ELSE g[n] \o tt[n + 1]
    <3>1. /\ f[n + 1] = IF n + 1 = 1 THEN ss[n + 1] ELSE f[n + 1 - 1] \o ss[n + 1]
          /\ g[n + 1] = IF n + 1 = 1 THEN tt[n + 1] ELSE g[n + 1 - 1] \o tt[n + 1]
      BY <2>1, FlattensStep
    <3>2. n + 1 - 1 = n /\ (n + 1 = 1 <=> n = 0)
      OBVIOUS
    <3>3. QED
      BY <3>1, <3>2
  <2>3. f[n + 1] = g[n + 1]
    BY <1>2, <2>1, <2>2
  <2>4. QED
    BY <2>1, <2>3
<1>3. \A n \in 0 .. N : n \in T
  <2> HIDE DEF T
  <2>1. QED
    BY <1>1, <1>2, SetInductionUpTo
<1>4. QED
  BY <1>3

LEMMA FlattenIs ==
    ASSUME NEW E, NEW ss \in Seq(Seq(E)), Len(ss) # 0
    PROVE  \E f \in [1 .. Len(ss) -> Seq(E)] : Flattens(ss, f) /\ FlattenSeq(ss) = f[Len(ss)]
<1> DEFINE fl == CHOOSE f : Flattens(ss, f)
<1>1. PICK g \in [1 .. Len(ss) -> Seq(E)] : Flattens(ss, g)
  BY FlattensExists
<1>2. Flattens(ss, fl)
  BY <1>1
<1>3. FlattenSeq(ss) = fl[Len(ss)]
  BY DEF FlattenSeq, Flattens
<1> HIDE DEF fl
<1>4. \A i \in 1 .. Len(ss) : fl[i] = g[i]
  BY <1>1, <1>2, FlattensAgree, LenProperties
<1>5. Len(ss) \in 1 .. Len(ss)
  BY LenProperties
<1>6. QED
  BY <1>1, <1>3, <1>4, <1>5

LEMMA FlattenEmpty == FlattenSeq(<<>>) = <<>>
  BY DEF FlattenSeq

LEMMA FlattenType ==
    ASSUME NEW E, NEW ss \in Seq(Seq(E))
    PROVE  FlattenSeq(ss) \in Seq(E)
<1>1. CASE Len(ss) = 0
  BY <1>1, FlattenEmpty, EmptySeq
<1>2. CASE Len(ss) # 0
  <2>1. PICK f \in [1 .. Len(ss) -> Seq(E)] : FlattenSeq(ss) = f[Len(ss)]
    BY <1>2, FlattenIs
  <2>2. Len(ss) \in 1 .. Len(ss)
    BY <1>2, LenProperties
  <2>3. QED
    BY <2>1, <2>2
<1>3. QED
  BY <1>1, <1>2

LEMMA FlattenAppend ==
    ASSUME NEW E, NEW ss \in Seq(Seq(E)), NEW s \in Seq(E)
    PROVE  FlattenSeq(Append(ss, s)) = FlattenSeq(ss) \o s
<1> DEFINE tt == Append(ss, s)
<1>1. /\ tt \in Seq(Seq(E)) /\ Len(tt) = Len(ss) + 1 /\ Len(ss) \in Nat
      /\ tt[Len(tt)] = s /\ \A i \in 1 .. Len(ss) : tt[i] = ss[i]
  BY AppendProperties, LenProperties
<1> HIDE DEF tt
<1>2. PICK g : Flattens(tt, g) /\ FlattenSeq(tt) = g[Len(tt)]
  <2>1. Len(tt) # 0
    BY <1>1
  <2>2. QED
    BY <1>1, <2>1, FlattenIs
<1>6. /\ Len(tt) \in Nat /\ Len(tt) \in 1 .. Len(tt)
      /\ g[Len(tt)] = IF Len(tt) = 1 THEN tt[Len(tt)] ELSE g[Len(tt) - 1] \o tt[Len(tt)]
  <2>1. Len(tt) \in Nat /\ Len(tt) \in 1 .. Len(tt)
    BY <1>1
  <2>2. QED
    BY <1>2, <2>1, FlattensStep
<1>3. CASE Len(ss) = 0
  <2>1. ss = <<>> /\ g[Len(tt)] = s
    BY <1>1, <1>3, <1>6, EmptySeq
  <2>2. QED
    BY <1>2, <2>1, FlattenEmpty, ConcatEmptySeq DEF tt
<1>4. CASE Len(ss) # 0
  <2>1. PICK f : Flattens(ss, f) /\ FlattenSeq(ss) = f[Len(ss)]
    BY <1>4, FlattenIs
  <2>2. \A i \in 1 .. Len(ss) : ss[i] = tt[i]
    BY <1>1
  <2>3. f[Len(ss)] = g[Len(ss)]
    <3>1. \A i \in 1 .. Len(ss) : f[i] = g[i]
      <4>1. Len(ss) \in Nat /\ Len(tt) \in Nat /\ Len(ss) <= Len(tt)
        BY <1>1
      <4>2. Flattens(ss, f) /\ Flattens(tt, g)
        BY <1>2, <2>1
      <4>3. QED
        BY ONLY <2>2, <4>1, <4>2, FlattensAgree, SMTT(60)
    <3>2. QED
      BY <3>1, <1>1, <1>4
  <2>4. g[Len(tt)] = g[Len(ss)] \o s
    <3>1. Len(tt) # 1 /\ Len(tt) - 1 = Len(ss)
      BY <1>1, <1>4
    <3>2. QED
      BY <1>1, <1>6, <3>1
  <2>5. QED
    BY <1>2, <2>1, <2>3, <2>4 DEF tt
<1>5. QED
  BY <1>3, <1>4

-----------------------------------------------------------------------------
(* Sequences of any length.                                                *)

\* What holds of the empty sequence, and of s with an element appended whenever it holds
\* of s, holds of every sequence.
LEMMA SeqInduction ==
    ASSUME NEW E, NEW T, <<>> \in T,
           \A s \in Seq(E), e \in E : s \in T => Append(s, e) \in T
    PROVE  \A s \in Seq(E) : s \in T
<1> DEFINE U == {n \in Nat : \A s \in Seq(E) : Len(s) = n => s \in T}
<1>1. 0 \in U
  BY EmptySeq
<1>2. ASSUME NEW n \in Nat, n \in U PROVE n + 1 \in U
  <2>1. SUFFICES ASSUME NEW s \in Seq(E), Len(s) = n + 1 PROVE s \in T
    OBVIOUS
  <2>2. PICK t \in Seq(E), e \in E : s = Append(t, e)
    BY <2>1, EmptySeq, SequenceEmptyOrAppend
  <2>3. Len(t) = n
    BY <2>1, <2>2, AppendProperties, LenProperties
  <2>4. t \in T
    BY <1>2, <2>3
  <2>5. QED
    BY <2>2, <2>4
<1> HIDE DEF U
<1>3. \A n \in Nat : n \in U
  BY <1>1, <1>2, SetInduction
<1>4. QED
  BY <1>3, LenProperties DEF U

\* v is what folding s with step from base yields.
Folding(V, step, base, s, v) ==
    \E h \in [0 .. Len(s) -> V] :
       /\ h[0] = base /\ v = h[Len(s)]
       /\ \A n \in 1 .. Len(s) : h[n] = step[<<h[n - 1], s[n]>>]

\* The function that a fold chooses takes the elements one after another.
LEMMA ChosenFolds ==
    ASSUME NEW V, NEW E, NEW step \in [V \X E -> V], NEW base \in V, NEW s \in Seq(E),
           NEW iter, iter[1 .. 0] = base,
           \A n \in 1 .. Len(s) :
              iter[1 .. n - 1] \in V => iter[1 .. n] = step[<<iter[1 .. n - 1], s[n]>>]
    PROVE  Folding(V, step, base, s, iter[1 .. Len(s)])
<1> DEFINE N == Len(s)
           h == [n \in 0 .. N |-> iter[1 .. n]]
           T == {n \in 0 .. N : h[n] \in V}
<1>1. N \in Nat /\ \A n \in 1 .. N : s[n] \in E
  BY LenProperties, ElementOfSeq
<1>2. 0 \in T
  BY <1>1
<1>3. ASSUME NEW n \in 0 .. N - 1, n \in T PROVE n + 1 \in T
  <2>1. n + 1 \in 1 .. N /\ n + 1 - 1 = n /\ h[n] = iter[1 .. n] /\ h[n] \in V
    BY <1>1, <1>3
  <2>2. iter[1 .. n + 1] = step[<<h[n], s[n + 1]>>]
    BY <2>1
  <2>3. s[n + 1] \in E
    BY <1>1, <2>1
  <2>4. iter[1 .. n + 1] \in V
    BY <2>1, <2>2, <2>3
  <2>5. QED
    BY <1>1, <2>1, <2>4
<1>4. \A n \in 0 .. N : n \in T
  <2> HIDE DEF T
  <2>1. QED
    BY <1>1, <1>2, <1>3, SetInductionUpTo
<1>5. h \in [0 .. N -> V]
  BY <1>4
<1>6. \A n \in 1 .. N : h[n] = step[<<h[n - 1], s[n]>>]
  <2>1. SUFFICES ASSUME NEW n \in 1 .. N PROVE h[n] = step[<<h[n - 1], s[n]>>]
    OBVIOUS
  <2>2. n - 1 \in 0 .. N /\ n \in 0 .. N
    BY <1>1
  <2>3. h[n - 1] = iter[1 .. n - 1] /\ h[n] = iter[1 .. n] /\ h[n - 1] \in V
    BY <2>2, <1>4
  <2>4. QED
    BY <2>3
<1>7. h[0] = base /\ iter[1 .. Len(s)] = h[Len(s)]
  BY <1>1
<1> HIDE DEF h
<1>8. QED
  BY <1>5, <1>6, <1>7 DEF Folding

LEMMA FoldingType ==
    ASSUME NEW V, NEW E, NEW step, NEW base, NEW s \in Seq(E), NEW v, Folding(V, step, base, s, v)
    PROVE  v \in V
BY LenProperties DEF Folding

LEMMA FoldingEmpty ==
    ASSUME NEW V, NEW step, NEW base, NEW v, Folding(V, step, base, <<>>, v)
    PROVE  v = base
BY DEF Folding

LEMMA FoldingAppend ==
    ASSUME NEW V, NEW E, NEW step, NEW base, NEW s \in Seq(E), NEW e \in E,
           NEW v, NEW w, Folding(V, step, base, s, v), Folding(V, step, base, Append(s, e), w)
    PROVE  w = step[<<v, e>>]
<1> DEFINE N == Len(s)
           a == Append(s, e)
<1>1. /\ N \in Nat /\ Len(a) = N + 1 /\ a[N + 1] = e
      /\ \A n \in 1 .. N : a[n] = s[n]
  BY LenProperties, AppendProperties
<1>2. PICK h : /\ h[0] = base /\ v = h[N]
               /\ \A n \in 1 .. N : h[n] = step[<<h[n - 1], s[n]>>]
  BY DEF Folding
<1> HIDE DEF a
<1>3. PICK k : /\ k[0] = base /\ w = k[N + 1]
               /\ \A n \in 1 .. N + 1 : k[n] = step[<<k[n - 1], a[n]>>]
  BY <1>1, SMTT(60) DEF Folding, a
<1> DEFINE T == {n \in 0 .. N : h[n] = k[n]}
<1>4. 0 \in T
  BY <1>1, <1>2, <1>3
<1>5. ASSUME NEW n \in 0 .. N - 1, n \in T PROVE n + 1 \in T
  <2>1. n + 1 \in 1 .. N /\ n + 1 \in 1 .. N + 1 /\ n + 1 - 1 = n
    BY <1>1
  <2>2. h[n + 1] = step[<<h[n], s[n + 1]>>] /\ k[n + 1] = step[<<k[n], a[n + 1]>>]
    BY <1>2, <1>3, <2>1
  <2>3. a[n + 1] = s[n + 1] /\ h[n] = k[n]
    BY <1>1, <1>5, <2>1
  <2>4. QED
    BY <2>1, <2>2, <2>3
<1>6. \A n \in 0 .. N : n \in T
  <2> HIDE DEF T
  <2>1. QED
    BY <1>1, <1>4, <1>5, SetInductionUpTo
<1>7. h[N] = k[N]
  BY <1>1, <1>6
<1>8. N + 1 \in 1 .. N + 1 /\ N + 1 - 1 = N
  BY <1>1
<1>9. k[N + 1] = step[<<k[N], a[N + 1]>>]
  BY <1>3, <1>8
<1>10. QED
  BY <1>1, <1>2, <1>3, <1>7, <1>9

\* Flattening what is written one part after another.
LEMMA FlattenConcat ==
    ASSUME NEW E, NEW s \in Seq(E), NEW t \in Seq(E)
    PROVE  FlattenSeq(<<s, t>>) = s \o t
<1> DEFINE one == Append(<<>>, s)
           two == Append(one, t)
<1>1. <<>> \in Seq(Seq(E)) /\ <<>> \o s = s
  BY EmptySeq, ConcatEmptySeq
<1>2. one \in Seq(Seq(E)) /\ Len(one) = 1 /\ one[1] = s
  BY <1>1, AppendProperties, EmptySeq
<1>3. two \in Seq(Seq(E)) /\ Len(two) = 2 /\ two[1] = s /\ two[2] = t
  BY <1>2, AppendProperties
<1>4. FlattenSeq(one) = s
  BY <1>1, FlattenAppend, FlattenEmpty
<1>5. FlattenSeq(two) = s \o t
  BY <1>2, <1>4, FlattenAppend
<1> HIDE DEF one, two
<1>6. two = <<s, t>>
  <2>1. DOMAIN two = 1 .. 2 /\ two = [i \in DOMAIN two |-> two[i]]
    BY <1>3, LenProperties
  <2>2. QED
    BY <1>3, <2>1
<1>7. QED
  BY <1>5, <1>6

\* The first n + 1 values of a function are the first n and then one more.
LEMMA MapGrows ==
    ASSUME NEW S, NEW n \in Nat, NEW f, \A i \in 1 .. n + 1 : f[i] \in S
    PROVE  /\ [i \in 1 .. n |-> f[i]] \in Seq(S)
           /\ f[n + 1] \in S
           /\ [i \in 1 .. n + 1 |-> f[i]] = Append([i \in 1 .. n |-> f[i]], f[n + 1])
<1> DEFINE u == [i \in 1 .. n |-> f[i]]
           w == [i \in 1 .. n + 1 |-> f[i]]
           v == Append(u, f[n + 1])
<1>1. u \in Seq(S) /\ Len(u) = n /\ w \in Seq(S) /\ Len(w) = n + 1 /\ f[n + 1] \in S
  OBVIOUS
<1>2. \A i \in 1 .. n : u[i] = f[i]
  OBVIOUS
<1>3. \A i \in 1 .. n + 1 : w[i] = f[i]
  OBVIOUS
<1> HIDE DEF u, w
<1>4. /\ v \in Seq(S) /\ Len(v) = n + 1 /\ v[n + 1] = f[n + 1]
      /\ \A i \in 1 .. n : v[i] = u[i]
  BY <1>1, AppendProperties
<1>5. ASSUME NEW i \in 1 .. n + 1 PROVE v[i] = w[i]
  <2>1. i = n + 1 \/ i \in 1 .. n
    OBVIOUS
  <2>2. QED
    BY <2>1, <1>2, <1>3, <1>4
<1> HIDE DEF v
<1>6. v = w
  BY <1>1, <1>4, <1>5, SeqEqual
<1>7. QED
  BY <1>1, <1>6 DEF u, v, w

\* What is in a flattened sequence was in one of its parts.
LEMMA FlattenFrom ==
    ASSUME NEW E, NEW ss \in Seq(Seq(E))
    PROVE  \A i \in DOMAIN FlattenSeq(ss) :
              \E j \in 1 .. Len(ss) : \E k \in DOMAIN ss[j] : FlattenSeq(ss)[i] = ss[j][k]
<1> DEFINE From(t) == \A i \in DOMAIN FlattenSeq(t) :
                        \E j \in 1 .. Len(t) : \E k \in DOMAIN t[j] : FlattenSeq(t)[i] = t[j][k]
           T == {t \in Seq(Seq(E)) : From(t)}
<1>1. <<>> \in T
  <2>1. DOMAIN FlattenSeq(<<>>) = {}
    BY FlattenEmpty
  <2>2. QED
    BY <2>1, EmptySeq
<1>2. ASSUME NEW t \in Seq(Seq(E)), NEW s \in Seq(E), t \in T PROVE Append(t, s) \in T
  <2> DEFINE u == Append(t, s)
             a == FlattenSeq(t)
  <2>1. /\ u \in Seq(Seq(E)) /\ Len(u) = Len(t) + 1 /\ u[Len(t) + 1] = s /\ Len(t) \in Nat
        /\ \A j \in 1 .. Len(t) : u[j] = t[j]
    BY AppendProperties, LenProperties
  <2>2. FlattenSeq(u) = a \o s /\ a \in Seq(E)
    BY FlattenAppend, FlattenType
  <2>3. From(t)
    BY <1>2
  <2> HIDE DEF u, a
  <2>4. /\ DOMAIN (a \o s) = 1 .. Len(a) + Len(s) /\ DOMAIN a = 1 .. Len(a) /\ DOMAIN s = 1 .. Len(s)
        /\ Len(a) \in Nat /\ Len(s) \in Nat
        /\ \A i \in 1 .. Len(a) + Len(s) : (a \o s)[i] = IF i <= Len(a) THEN a[i] ELSE s[i - Len(a)]
    BY <2>2, ConcatProperties, LenProperties
  <2>5. ASSUME NEW i \in DOMAIN (a \o s)
        PROVE  \E j \in 1 .. Len(u) : \E k \in DOMAIN u[j] : (a \o s)[i] = u[j][k]
    <3>1. CASE i <= Len(a)
      <4>1. i \in DOMAIN a /\ (a \o s)[i] = a[i]
        BY <2>4, <3>1
      <4>2. PICK j \in 1 .. Len(t) : \E k \in DOMAIN t[j] : a[i] = t[j][k]
        BY <2>3, <4>1 DEF a
      <4>3. j \in 1 .. Len(u) /\ u[j] = t[j]
        BY <2>1
      <4>4. QED
        BY <4>1, <4>2, <4>3
    <3>2. CASE ~(i <= Len(a))
      <4> DEFINE k == i - Len(a)
      <4>1. k \in DOMAIN s /\ (a \o s)[i] = s[k]
        BY <2>4, <3>2
      <4>2. Len(t) + 1 \in 1 .. Len(u)
        BY <2>1
      <4> HIDE DEF k
      <4>3. QED
        BY <2>1, <4>1, <4>2
    <3>3. QED
      BY <3>1, <3>2
  <2>6. From(u)
    BY <2>2, <2>5, ZenonT(60)
  <2> HIDE DEF From
  <2>7. QED
    BY <2>1, <2>6 DEF u
<1>3. \A t \in Seq(Seq(E)) : t \in T
  <2> HIDE DEF T
  <2>1. QED
    BY <1>1, <1>2, SeqInduction
<1>4. QED
  BY <1>3


\* Flattening two sequences of parts, one after the other.
LEMMA FlattenJoin ==
    ASSUME NEW E, NEW ss \in Seq(Seq(E)), NEW tt \in Seq(Seq(E))
    PROVE  FlattenSeq(ss \o tt) = FlattenSeq(ss) \o FlattenSeq(tt)
<1> DEFINE Joins(t) == FlattenSeq(ss \o t) = FlattenSeq(ss) \o FlattenSeq(t)
           T == {t \in Seq(Seq(E)) : Joins(t)}
<1>1. <<>> \in T
  <2>1. FlattenSeq(ss) \in Seq(E) /\ <<>> \in Seq(Seq(E))
    BY FlattenType, EmptySeq
  <2>2. ss \o <<>> = ss /\ FlattenSeq(ss) \o <<>> = FlattenSeq(ss)
    BY <2>1, ConcatEmptySeq
  <2>3. QED
    BY <2>1, <2>2, FlattenEmpty
<1>2. ASSUME NEW t \in Seq(Seq(E)), NEW s \in Seq(E), t \in T PROVE Append(t, s) \in T
  <2>1. /\ ss \o t \in Seq(Seq(E)) /\ Append(t, s) \in Seq(Seq(E))
        /\ ss \o Append(t, s) = Append(ss \o t, s)
    <3>1. /\ Append(t, s) = t \o <<s>> /\ <<s>> \in Seq(Seq(E)) /\ ss \o t \in Seq(Seq(E))
          /\ Append(t, s) \in Seq(Seq(E))
      BY AppendIsConcat, AppendProperties, ConcatProperties
    <3>2. ss \o (t \o <<s>>) = (ss \o t) \o <<s>>
      <4> DEFINE S == Seq(E)
                 u == <<s>>
      <4>1. ss \in Seq(S) /\ t \in Seq(S) /\ u \in Seq(S)
        BY <3>1
      <4> HIDE DEF S, u, T, Joins
      <4>2. (ss \o t) \o u = ss \o (t \o u)
        <5>1. \A a, b, c \in Seq(S) : (a \o b) \o c = a \o (b \o c)
          BY ONLY ConcatAssociative, SMTT(60)
        <5>2. QED
          BY ONLY <4>1, <5>1
      <4>3. QED
        BY <4>2 DEF u
    <3>3. QED
      BY <3>1, <3>2, AppendIsConcat
  <2>2. FlattenSeq(ss \o t) = FlattenSeq(ss) \o FlattenSeq(t)
    BY <1>2
  <2>3. /\ FlattenSeq(Append(ss \o t, s)) = FlattenSeq(ss \o t) \o s
        /\ FlattenSeq(Append(t, s)) = FlattenSeq(t) \o s
    BY <2>1, FlattenAppend
  <2>4. FlattenSeq(ss) \in Seq(E) /\ FlattenSeq(t) \in Seq(E)
    BY FlattenType
  <2>5. (FlattenSeq(ss) \o FlattenSeq(t)) \o s = FlattenSeq(ss) \o (FlattenSeq(t) \o s)
    BY <2>4, ConcatAssociative, SMTT(60)
  <2>6. Joins(Append(t, s))
    BY <2>1, <2>2, <2>3, <2>5
  <2> HIDE DEF Joins
  <2>7. QED
    BY <2>1, <2>6
<1>3. \A t \in Seq(Seq(E)) : t \in T
  <2> HIDE DEF T
  <2>1. QED
    BY <1>1, <1>2, SeqInduction
<1>4. QED
  BY <1>3

================================================================================
