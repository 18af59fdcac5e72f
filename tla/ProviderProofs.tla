----------------------------- MODULE ProviderProofs -----------------------------
(***************************************************************************)
(* What a provider call promises, for any number of calls and any number   *)
(* of deaths of Lya: a call that was cancelled or timed out left nothing   *)
(* of its tree, and a decision is the one its own codex wrote.             *)
(***************************************************************************)
EXTENDS Provider, TLAPS

\* Where a call is under way.
Calling ==
    {"prepare", "validate", "spawn", "attach", "listen", "check", "wait", "cancel", "timeout",
     "cancelling", "timing_out", "collect", "classify"}

InCall == at # "idle" => n \in Calls

\* A call has no result while it runs, and its result is forgotten with it.
ResultEndsTheCall == result # "none" => at = "over"

\* Between the kill and the end of the call the child is not running, so that it
\* can start no helper in the tree that was killed.
KilledIsEnded ==
    at \in {"cancelling", "timing_out"} => child[n] = "ended" /\ ~InTree(helper[n])

\* The inductive invariant of a kill.
KillInv == InCall /\ ResultEndsTheCall /\ KilledIsEnded /\ NothingOutlivesAKill

\* The child of the current call runs while it is waited for; any other child that
\* runs has outlived its Lya.
OneChild ==
    /\ \A c \in Calls : c > n => child[c] = "none"
    /\ \A c \in Calls : child[c] = "running" => c = n \/ c \in orphans
    /\ at \in {"prepare", "validate", "spawn"} => child[n] = "none"
    /\ at \in {"collect", "classify"} => child[n] = "reaped"
    /\ at \in {"idle", "over", "down"} /\ n \in Calls /\ child[n] = "running" => n \in orphans

\* Once the old decision is removed, only this call or a call that outlived its Lya
\* writes another.
OutputIsOurs ==
    /\ at = "validate" => kind[n] = "executor"
    /\ at \in Calling \ {"prepare"} /\ kind[n] = "supervisor" => output \in {0, n} \cup orphans

\* The inductive invariant of a decision.
DecisionInv == InCall /\ ResultEndsTheCall /\ OneChild /\ OutputIsOurs /\ DecisionIsOfThisCall

\* Every call has a place in the arrays.
LEMMA CallsAreIndexes == Calls \subseteq 0 .. MaxCalls /\ \A c \in Calls : c \in Nat
  BY ProviderAssumption DEF Calls

-----------------------------------------------------------------------------
(* The types.                                                              *)

\* Init: no call was made.
LEMMA InitTypes == Init => TypeOK
<1>1. SUFFICES ASSUME Init PROVE TypeOK
  OBVIOUS
<1>2. 0 \in 0 .. MaxCalls /\ 0 \in 0 .. MaxCrashes
  BY ProviderAssumption
<1>3. {listening, woken, expired} \subseteq BOOLEAN
  BY <1>1 DEF Init
<1>4. QED
  BY <1>1, <1>2, <1>3 DEF Init, TypeOK, Results, Calls

\* The steps up to the child keep the types.
LEMMA StartTypes ==
    ASSUME TypeOK,
           Begin \/ Validate \/ PrepareOutputFiles \/ Spawn \/ AttachTree
    PROVE  TypeOK'
<1> USE ProviderAssumption
<1>1. CASE Begin
  <2>1. n + 1 \in 0 .. MaxCalls
    BY <1>1 DEF Begin, TypeOK
  <2>2. at' \in {"prepare", "validate"}
    BY <1>1 DEF Begin
  <2>3. kind' \in [0 .. MaxCalls -> {"supervisor", "executor"}]
    BY <1>1, <2>1 DEF Begin, TypeOK
  <2>4. {listening, woken, expired}' \subseteq BOOLEAN
    BY <1>1 DEF Begin
  <2>5. decided' \in 0 .. MaxCalls
    BY <1>1 DEF Begin
  <2>6. /\ n' = n + 1
        /\ code' = "none" /\ stdin' = "none" /\ claimed' = FALSE
        /\ cancelled' = "no" /\ result' = "none"
        /\ UNCHANGED <<child, helper, output, windows, orphans, crashes>>
    BY <1>1 DEF Begin, lifeVars
  <2>7. QED
    BY <2>1, <2>2, <2>3, <2>4, <2>5, <2>6 DEF TypeOK, Results
<1>2. CASE Validate
  BY <1>2 DEF Validate, Return, TypeOK, Results, procVars, cancelVars, lifeVars
<1>3. CASE PrepareOutputFiles
  BY <1>3 DEF PrepareOutputFiles, Return, TypeOK, Results, procVars, cancelVars, lifeVars
<1>4. CASE Spawn
  BY <1>4 DEF Spawn, Return, TypeOK, Results, cancelVars, lifeVars
<1>5. CASE AttachTree
  <2>1. claimed' \in BOOLEAN /\ at' = "listen"
    BY <1>5 DEF AttachTree
  <2>2. /\ UNCHANGED <<n, kind, child, helper, code, stdin, cancelled, listening, woken, expired>>
        /\ UNCHANGED <<output, result, decided, windows, orphans, crashes>>
    BY <1>5 DEF AttachTree, cancelVars, resultVars, lifeVars
  <2>3. QED
    BY <2>1, <2>2 DEF TypeOK
<1>6. QED
  BY <1>1, <1>2, <1>3, <1>4, <1>5

\* The steps that wait and those that race with them keep the types.
LEMMA WaitTypes ==
    ASSUME TypeOK,
           \/ Listen \/ CheckCancelled \/ ChildEnded \/ Cancelled \/ TimedOut
           \/ CancelSets \/ CancelNotifies \/ Expire
    PROVE  TypeOK'
<1> USE DEF TypeOK, procVars, cancelVars, resultVars, lifeVars
<1>1. CASE Listen
  BY <1>1 DEF Listen
<1>2. CASE CheckCancelled
  BY <1>2 DEF CheckCancelled
<1>3. CASE ChildEnded
  BY <1>3 DEF ChildEnded
<1>4. CASE Cancelled
  BY <1>4 DEF Cancelled
<1>5. CASE TimedOut
  BY <1>5 DEF TimedOut
<1>6. CASE CancelSets
  BY <1>6 DEF CancelSets
<1>7. CASE CancelNotifies
  BY <1>7 DEF CancelNotifies
<1>8. CASE Expire
  BY <1>8 DEF Expire
<1>9. QED
  BY <1>1, <1>2, <1>3, <1>4, <1>5, <1>6, <1>7, <1>8

\* The steps that end a call keep the types.
LEMMA EndTypes ==
    ASSUME TypeOK, TerminateTree \/ EndOfKilled \/ Collect \/ Classify
    PROVE  TypeOK'
<1> USE DEF TypeOK, procVars, cancelVars, resultVars, lifeVars
<1>1. CASE TerminateTree
  BY <1>1 DEF TerminateTree
<1>2. CASE EndOfKilled
  BY <1>2 DEF EndOfKilled, Return, TreeDropped, Results
<1>3. CASE Collect
  BY <1>3 DEF Collect, Return, TreeDropped, Results
<1>4. CASE Classify
  BY <1>4 DEF Classify, Return, Results
<1>5. QED
  BY <1>1, <1>2, <1>3, <1>4

\* What providers do, and the death of Lya, keep the types.
LEMMA WorldTypes ==
    ASSUME TypeOK, InCall,
           \/ \E c \in Calls :
                 StartHelper(c) \/ HelperEnds(c) \/ WriteOutput(c) \/ ChildExits(c)
           \/ Crash \/ Restart
    PROVE  TypeOK'
<1> USE DEF TypeOK, procVars, cancelVars, resultVars, lifeVars
<1>1. ASSUME NEW c \in Calls,
             StartHelper(c) \/ HelperEnds(c) \/ WriteOutput(c) \/ ChildExits(c)
      PROVE  TypeOK'
  <2>1. CASE StartHelper(c) \/ HelperEnds(c)
    <3>1. \E h \in {"member", "quiet", "outside", "gone"} : helper' = [helper EXCEPT ![c] = h]
      BY <2>1 DEF StartHelper, HelperEnds
    <3>2. helper' \in [0 .. MaxCalls -> {"none", "member", "quiet", "outside", "gone"}]
      BY <3>1
    <3>3. /\ UNCHANGED <<n, kind, at, child, code, stdin, claimed, cancelled, listening, woken, expired>>
          /\ UNCHANGED <<output, result, decided, windows, orphans, crashes>>
      BY <2>1 DEF StartHelper, HelperEnds
    <3>4. QED
      BY <3>2, <3>3
  <2>2. CASE WriteOutput(c)
    BY <2>2, ProviderAssumption DEF WriteOutput, Calls
  <2>3. CASE ChildExits(c)
    <3>1. child' \in [0 .. MaxCalls -> {"none", "running", "ended", "reaped"}]
      BY <2>3 DEF ChildExits
    <3>2. code' \in {"success", "failure", code}
      BY <2>3 DEF ChildExits
    <3>3. /\ UNCHANGED <<n, kind, at, helper, stdin, claimed, cancelled, listening, woken, expired>>
          /\ UNCHANGED <<output, result, decided, windows, orphans, crashes>>
      BY <2>3 DEF ChildExits
    <3>4. QED
      BY <3>1, <3>2, <3>3
  <2>4. QED
    BY <1>1, <2>1, <2>2, <2>3
<1>2. CASE Crash
  BY <1>2, ProviderAssumption DEF Crash, TreeDropped, InCall
<1>3. CASE Restart
  BY <1>3 DEF Restart
<1>4. QED
  BY <1>1, <1>2, <1>3

\* A step that leaves every variable alone keeps the types.
LEMMA StutterTypes == TypeOK /\ UNCHANGED vars => TypeOK'
  BY DEF TypeOK, vars, procVars, cancelVars, resultVars, lifeVars

\* Every step keeps the types.
LEMMA StepTypes ==
    ASSUME TypeOK, InCall, [Next]_vars
    PROVE  TypeOK'
  BY StartTypes, WaitTypes, EndTypes, WorldTypes, StutterTypes DEF Next, RunStep

-----------------------------------------------------------------------------
(* A kill leaves nothing of the tree.                                      *)

\* Init: there is no call yet.
LEMMA InitKill == Init => KillInv
  BY DEF Init, KillInv, InCall, ResultEndsTheCall, KilledIsEnded, NothingOutlivesAKill

\* Begin: the call starts without a result.
LEMMA BeginKeepsKill ==
    ASSUME TypeOK, KillInv, Begin
    PROVE  KillInv'
<1>1. n' \in Calls
  BY ProviderAssumption DEF Begin, TypeOK, Calls
<1>2. result' = "none" /\ at' \in {"prepare", "validate"}
  BY DEF Begin
<1>3. QED
  BY <1>1, <1>2 DEF KillInv, InCall, ResultEndsTheCall, KilledIsEnded, NothingOutlivesAKill

\* The steps that neither kill nor end a kill.
LEMMA RunKeepsKill ==
    ASSUME TypeOK, KillInv,
           \/ Validate \/ PrepareOutputFiles \/ Spawn \/ AttachTree
           \/ Listen \/ CheckCancelled \/ ChildEnded \/ Cancelled \/ TimedOut
           \/ Collect \/ Classify
    PROVE  KillInv'
<1>1. n' = n /\ n \in Calls
  BY DEF KillInv, InCall, Validate, PrepareOutputFiles, Spawn, AttachTree, Listen, CheckCancelled,
         ChildEnded, Cancelled, TimedOut, Collect, Classify
<1>2. at' \notin {"cancelling", "timing_out"}
  BY DEF Validate, PrepareOutputFiles, Spawn, AttachTree, Listen, CheckCancelled,
         ChildEnded, Cancelled, TimedOut, Collect, Classify, Return
<1>3. result = "none"
  BY DEF KillInv, ResultEndsTheCall, Validate, PrepareOutputFiles, Spawn, AttachTree, Listen,
         CheckCancelled, ChildEnded, Cancelled, TimedOut, Collect, Classify
<1>4. result' \notin {"cancelled", "timeout"} /\ (result' # "none" => at' = "over")
  BY <1>3 DEF Validate, PrepareOutputFiles, Spawn, AttachTree, Listen,
         CheckCancelled, ChildEnded, Cancelled, TimedOut, Collect, Classify, Return, resultVars
<1>5. QED
  BY <1>1, <1>2, <1>4
  DEF KillInv, InCall, ResultEndsTheCall, KilledIsEnded, NothingOutlivesAKill

\* TerminateTree: the whole tree is killed before the call goes on.
LEMMA TerminateTreeKeepsKill ==
    ASSUME TypeOK, KillInv, TerminateTree
    PROVE  KillInv'
<1>1. n \in 0 .. MaxCalls /\ n' = n /\ n \in Calls
  BY DEF TypeOK, KillInv, InCall, TerminateTree
<1>2. child'[n] = "ended" /\ ~InTree(helper'[n])
  BY <1>1 DEF TypeOK, TerminateTree, InTree
<1>3. result' = "none"
  BY DEF TerminateTree, KillInv, ResultEndsTheCall, resultVars
<1>4. QED
  BY <1>1, <1>2, <1>3 DEF KillInv, InCall, ResultEndsTheCall, KilledIsEnded, NothingOutlivesAKill,
     TerminateTree

\* EndOfKilled: the child that ended is reaped, and nothing joined the tree.
LEMMA EndOfKilledKeepsKill ==
    ASSUME TypeOK, KillInv, EndOfKilled
    PROVE  KillInv'
<1>1. n \in 0 .. MaxCalls /\ n' = n /\ n \in Calls
  BY DEF TypeOK, KillInv, InCall, EndOfKilled
<1>2. child'[n] = "reaped" /\ helper'[n] = TreeDropped(helper[n])
  BY <1>1 DEF TypeOK, EndOfKilled
<1>3. ~InTree(helper[n])
  BY DEF KillInv, KilledIsEnded, EndOfKilled
<1>4. ~InTree(helper'[n])
  BY <1>2, <1>3 DEF TreeDropped
<1>5. at' = "over"
  BY DEF EndOfKilled, Return
<1>6. QED
  BY <1>1, <1>2, <1>4, <1>5
  DEF KillInv, InCall, ResultEndsTheCall, KilledIsEnded, NothingOutlivesAKill

\* What others do: a child that ended starts no helper, and a helper that ended does
\* not come back.
LEMMA WorldKeepsKill ==
    ASSUME TypeOK, KillInv, NEW c \in Calls,
           StartHelper(c) \/ HelperEnds(c) \/ WriteOutput(c) \/ ChildExits(c)
    PROVE  KillInv'
<1>1. n \in 0 .. MaxCalls /\ UNCHANGED <<n, at, result>>
  BY DEF TypeOK, StartHelper, HelperEnds, WriteOutput, ChildExits, resultVars
<1>2. child[n] # "running" => child'[n] = child[n]
  BY <1>1 DEF TypeOK, StartHelper, HelperEnds, WriteOutput, ChildExits, procVars, Calls
<1>3. child[n] # "running" /\ ~InTree(helper[n]) => ~InTree(helper'[n])
  <2>1. CASE StartHelper(c)
    BY <2>1, <1>1 DEF StartHelper, TypeOK
  <2>2. CASE HelperEnds(c)
    BY <2>2, <1>1 DEF HelperEnds, TypeOK, InTree
  <2>3. CASE WriteOutput(c) \/ ChildExits(c)
    BY <2>3 DEF WriteOutput, ChildExits, procVars
  <2>4. QED
    BY <2>1, <2>2, <2>3
<1>4. QED
  BY <1>1, <1>2, <1>3
  DEF KillInv, InCall, ResultEndsTheCall, KilledIsEnded, NothingOutlivesAKill

\* The canceller, the timer, and the death of Lya leave a result alone.
LEMMA ElsewhereKeepsKill ==
    ASSUME TypeOK, KillInv,
           \/ CancelSets \/ CancelNotifies \/ Expire \/ Crash \/ Restart \/ UNCHANGED vars
    PROVE  KillInv'
<1>1. CASE CancelSets \/ CancelNotifies \/ Expire \/ UNCHANGED vars
  BY <1>1 DEF KillInv, InCall, ResultEndsTheCall, KilledIsEnded, NothingOutlivesAKill, InTree,
              CancelSets, CancelNotifies, Expire, vars, procVars, resultVars
<1>2. CASE Crash \/ Restart
  BY <1>2 DEF KillInv, InCall, ResultEndsTheCall, KilledIsEnded, NothingOutlivesAKill,
              Crash, Restart, resultVars
<1>3. QED
  BY <1>1, <1>2

\* The cancellation and the timeout of a call leave nothing of its tree behind: once
\* terminate_tree_then_reap has killed the tree the child runs no more, so that no
\* process joins the tree before the child is reaped and the call returns; whatever
\* order the exits, the starts of helpers and the deaths of Lya come in
\* (src/process.rs ProcessSpec::run).
THEOREM AKillLeavesNothing == Spec => []NothingOutlivesAKill
<1>1. Init => TypeOK /\ KillInv
  BY InitTypes, InitKill
<1>2. TypeOK /\ KillInv /\ [Next]_vars => (TypeOK /\ KillInv)'
  <2>1. SUFFICES ASSUME TypeOK, KillInv, [Next]_vars
                 PROVE  TypeOK' /\ KillInv'
    OBVIOUS
  <2>2. TypeOK'
    BY <2>1, StepTypes DEF KillInv
  <2>3. KillInv'
    BY <2>1, BeginKeepsKill, RunKeepsKill, TerminateTreeKeepsKill, EndOfKilledKeepsKill,
       WorldKeepsKill, ElsewhereKeepsKill DEF Next, RunStep
  <2>4. QED
    BY <2>2, <2>3
<1>3. KillInv => NothingOutlivesAKill
  BY DEF KillInv
<1>4. QED
  BY <1>1, <1>2, <1>3, PTL DEF Spec


-----------------------------------------------------------------------------
(* A decision is of its own call.                                          *)

\* Init: nothing was written.
LEMMA InitDecision == Init => DecisionInv
  BY ProviderAssumption
  DEF Init, DecisionInv, InCall, ResultEndsTheCall, OneChild, OutputIsOurs, DecisionIsOfThisCall,
      Calling, Calls

\* Begin: the child of the call before is over, or has outlived its Lya.
LEMMA BeginKeepsDecision ==
    ASSUME TypeOK, DecisionInv, Begin
    PROVE  DecisionInv'
<1>1. n \in Nat /\ n' = n + 1 /\ n' \in Calls
  BY ProviderAssumption DEF Begin, TypeOK, Calls
<1>2. UNCHANGED <<child, output, orphans>> /\ result' = "none"
  BY DEF Begin, lifeVars
<1>3. at' = "prepare" \/ (at' = "validate" /\ kind'[n'] = "executor")
  BY <1>1, CallsAreIndexes DEF Begin, TypeOK
<1>4. \A c \in Calls : child[c] = "running" => c \in orphans
  BY DEF DecisionInv, OneChild, Begin
<1>5. OneChild'
  BY <1>1, <1>2, <1>3, <1>4 DEF DecisionInv, OneChild, Calls
<1>6. OutputIsOurs'
  BY <1>3 DEF OutputIsOurs, Calling
<1>7. QED
  BY <1>1, <1>2, <1>5, <1>6, <1>3 DEF DecisionInv, InCall, ResultEndsTheCall, DecisionIsOfThisCall

\* The steps of the call before there is a child.
LEMMA StartKeepsDecision ==
    ASSUME TypeOK, DecisionInv, Validate \/ PrepareOutputFiles
    PROVE  DecisionInv'
<1>1. UNCHANGED <<n, kind, child, orphans>> /\ n \in Calls /\ child[n] = "none"
  BY DEF Validate, PrepareOutputFiles, procVars, lifeVars, DecisionInv, InCall, OneChild
<1>2. /\ at' \in {"over", "spawn"}
      /\ result' # "decision"
      /\ result' # "none" => at' = "over"
  BY DEF Validate, PrepareOutputFiles, Return, DecisionInv, ResultEndsTheCall
<1>3. OneChild'
  BY <1>1, <1>2 DEF DecisionInv, OneChild
<1>4. OutputIsOurs'
  BY <1>1, <1>2 DEF OutputIsOurs, Validate, PrepareOutputFiles, Return, DecisionInv, Calling
<1>5. QED
  BY <1>1, <1>2, <1>3, <1>4
  DEF DecisionInv, InCall, ResultEndsTheCall, DecisionIsOfThisCall

\* Spawn: the child of this call runs from here.
LEMMA SpawnKeepsDecision ==
    ASSUME TypeOK, DecisionInv, Spawn
    PROVE  DecisionInv'
<1>1. UNCHANGED <<n, kind, output, orphans>> /\ n \in Calls /\ child[n] = "none" /\ at = "spawn"
  BY DEF Spawn, lifeVars, DecisionInv, InCall, OneChild
<1>2. \/ child' = [child EXCEPT ![n] = "running"] /\ at' = "attach"
      \/ child' = child /\ at' = "over"
  BY DEF Spawn, Return
<1>3. result' # "decision" /\ (result' # "none" => at' = "over")
  BY DEF Spawn, Return, DecisionInv, ResultEndsTheCall
<1>4. OneChild'
  <2>1. \A c \in Calls : c # n => child'[c] = child[c]
    BY <1>2, CallsAreIndexes DEF TypeOK
  <2>2. n \in Nat
    BY <1>1, ProviderAssumption DEF Calls
  <2>3. QED
    BY <1>1, <1>2, <2>1, <2>2 DEF DecisionInv, OneChild
<1>5. OutputIsOurs'
  BY <1>1, <1>2 DEF DecisionInv, OutputIsOurs, Calling
<1>6. QED
  BY <1>1, <1>3, <1>4, <1>5
  DEF DecisionInv, InCall, ResultEndsTheCall, DecisionIsOfThisCall

\* A step of a call that has a child: it may end the child, and starts none.
Goes ==
    /\ UNCHANGED <<n, kind, output, orphans>>
    /\ at \in Calling \ {"prepare", "validate", "spawn"}
    /\ at' \in (Calling \ {"prepare", "validate", "spawn"}) \cup {"over"}
    /\ child' = child \/ \E how \in {"ended", "reaped"} : child' = [child EXCEPT ![n] = how]
    /\ at' = "over" => child'[n] # "running"
    /\ at' \in {"collect", "classify"} => child'[n] = "reaped"
    /\ result' # "none" => at' = "over"
    /\ result' = "decision" =>
          kind[n] = "supervisor" /\ output # 0 /\ decided' = output

LEMMA GoingKeepsDecision ==
    ASSUME TypeOK, DecisionInv, Goes
    PROVE  DecisionInv'
<1>1. UNCHANGED <<n, kind, output, orphans>> /\ n \in Calls
  BY DEF Goes, DecisionInv, InCall, Calling
<1>2. \A c \in Calls : child'[c] = child[c] \/ (c = n /\ child'[c] \in {"ended", "reaped"})
  BY CallsAreIndexes DEF Goes, TypeOK
<1>3. OneChild'
  <2>1. n \in Nat /\ \A c \in Calls : c \in Nat
    BY <1>1, ProviderAssumption DEF Calls
  <2>2. QED
    BY <1>1, <1>2, <2>1 DEF DecisionInv, OneChild, Goes, Calling
<1>4. OutputIsOurs'
  BY <1>1 DEF DecisionInv, OutputIsOurs, Goes, Calling
<1>5. DecisionIsOfThisCall'
  BY <1>1 DEF DecisionInv, OutputIsOurs, DecisionIsOfThisCall, Goes, Calling
<1>6. QED
  BY <1>1, <1>3, <1>4, <1>5 DEF DecisionInv, InCall, ResultEndsTheCall, Goes


\* The tree is claimed and the call waits.
LEMMA WaitKeepsDecision ==
    ASSUME TypeOK, DecisionInv,
           \/ AttachTree \/ Listen \/ CheckCancelled \/ ChildEnded \/ Cancelled \/ TimedOut
           \/ TerminateTree
    PROVE  DecisionInv'
<1>1. n \in 0 .. MaxCalls
  BY DEF TypeOK
<1>2. CASE AttachTree \/ Listen \/ CheckCancelled \/ Cancelled \/ TimedOut
  BY <1>2, GoingKeepsDecision
  DEF Goes, Calling, DecisionInv, ResultEndsTheCall, AttachTree, Listen, CheckCancelled, Cancelled,
      TimedOut, procVars, resultVars, lifeVars
<1>3. CASE ChildEnded
  <2>1. child'[n] = "reaped" /\ at' = "collect" /\ at = "wait"
    BY <1>1, <1>3 DEF ChildEnded, TypeOK
  <2>2. QED
    BY <1>3, <2>1, GoingKeepsDecision
    DEF Goes, Calling, DecisionInv, ResultEndsTheCall, ChildEnded, resultVars, lifeVars
<1>4. CASE TerminateTree
  BY <1>4, GoingKeepsDecision
  DEF Goes, Calling, DecisionInv, ResultEndsTheCall, TerminateTree, resultVars, lifeVars
<1>5. QED
  BY <1>2, <1>3, <1>4

\* The call returns: with the decision that is in the output file, if with any.
LEMMA ReturnKeepsDecision ==
    ASSUME TypeOK, DecisionInv, EndOfKilled \/ Collect \/ Classify
    PROVE  DecisionInv'
<1>1. n \in 0 .. MaxCalls
  BY DEF TypeOK
<1>2. CASE EndOfKilled
  <2>1. child'[n] = "reaped" /\ at' = "over" /\ result' # "decision"
    BY <1>1, <1>2 DEF EndOfKilled, TypeOK, Return
  <2>2. QED
    BY <1>2, <2>1, GoingKeepsDecision DEF Goes, Calling, EndOfKilled, lifeVars
<1>3. CASE Collect
  <2>1. child[n] = "reaped" /\ child' = child
    BY <1>3 DEF Collect, DecisionInv, OneChild
  <2>2. QED
    BY <1>3, <2>1, GoingKeepsDecision
    DEF Goes, Calling, Collect, Return, DecisionInv, ResultEndsTheCall, lifeVars
<1>4. CASE Classify
  <2>1. child[n] = "reaped" /\ child' = child
    BY <1>4 DEF Classify, DecisionInv, OneChild, procVars
  <2>2. at' = "over"
    BY <1>4 DEF Classify, Return
  <2>3. result' = "decision" => kind[n] = "supervisor" /\ output # 0 /\ decided' = output
    BY <1>4 DEF Classify, Return
  <2>4. QED
    BY <1>4, <2>1, <2>2, <2>3, GoingKeepsDecision DEF Goes, Calling, Classify, lifeVars
<1>5. QED
  BY <1>2, <1>3, <1>4

\* Only a child that runs writes: that of this call, or one that outlived its Lya.
LEMMA WorldKeepsDecision ==
    ASSUME TypeOK, DecisionInv, NEW c \in Calls,
           StartHelper(c) \/ HelperEnds(c) \/ WriteOutput(c) \/ ChildExits(c)
    PROVE  DecisionInv'
<1>1. UNCHANGED <<n, at, kind, result, decided, orphans>>
  BY DEF StartHelper, HelperEnds, WriteOutput, ChildExits, resultVars, lifeVars
<1>2. \A d \in Calls :
         child'[d] = child[d] \/ (child[d] = "running" /\ child'[d] \in {"ended", "reaped"})
  BY CallsAreIndexes DEF TypeOK, StartHelper, HelperEnds, WriteOutput, ChildExits, procVars
<1>3. output' = output \/ output' = n \/ output' \in orphans
  BY DEF DecisionInv, OneChild, StartHelper, HelperEnds, WriteOutput, ChildExits, resultVars
<1>4. at \in Calling => n \in Calls
  BY DEF DecisionInv, InCall, Calling
<1>5. OneChild'
  BY <1>1, <1>2, <1>4 DEF DecisionInv, OneChild, Calling
<1>6. OutputIsOurs'
  BY <1>1, <1>3 DEF DecisionInv, OutputIsOurs
<1>7. QED
  BY <1>1, <1>5, <1>6 DEF DecisionInv, InCall, ResultEndsTheCall, DecisionIsOfThisCall

\* Crash: the child of the call becomes one that outlives its Lya.
LEMMA CrashKeepsDecision ==
    ASSUME TypeOK, DecisionInv, Crash \/ Restart
    PROVE  DecisionInv'
<1>1. UNCHANGED <<n, kind, result, output, decided>> /\ orphans \subseteq orphans'
  BY DEF Crash, Restart, resultVars, lifeVars
<1>2. \A c \in Calls : child'[c] = child[c] \/ (child'[c] = "reaped" /\ child[c] # "none")
  <2>1. CASE Crash
    <3>1. \A c \in Calls : c # n => child'[c] = child[c]
      BY <2>1, CallsAreIndexes DEF TypeOK, Crash
    <3>2. n \in 0 .. MaxCalls /\ (child'[n] = child[n] \/ (child'[n] = "reaped" /\ child[n] # "none"))
      BY <2>1 DEF TypeOK, Crash
    <3>3. QED
      BY <3>1, <3>2
  <2>2. CASE Restart
    BY <2>2 DEF Restart, procVars
  <2>3. QED
    BY <2>1, <2>2
<1>3. at' \in {"down", "idle"} /\ at # "idle" /\ (at' = "down" => n \in orphans')
  BY DEF Crash, Restart
<1>4. at' = "idle" => at = "down" /\ UNCHANGED <<child, orphans>>
  BY DEF Crash, Restart, procVars, lifeVars
<1>5. n \in Calls
  BY <1>3 DEF DecisionInv, InCall
<1>6. OneChild'
  BY <1>1, <1>2, <1>3, <1>4 DEF DecisionInv, OneChild
<1>7. OutputIsOurs'
  BY <1>3 DEF OutputIsOurs, Calling
<1>8. result = "none"
  BY DEF DecisionInv, ResultEndsTheCall, Crash, Restart
<1>9. QED
  BY <1>1, <1>5, <1>6, <1>7, <1>8
  DEF DecisionInv, InCall, ResultEndsTheCall, DecisionIsOfThisCall

\* The canceller and the timer write nothing.
LEMMA ElsewhereKeepsDecision ==
    ASSUME TypeOK, DecisionInv, CancelSets \/ CancelNotifies \/ Expire \/ UNCHANGED vars
    PROVE  DecisionInv'
<1>1. UNCHANGED <<n, at, kind, child, output, result, decided, orphans>>
  BY DEF CancelSets, CancelNotifies, Expire, vars, procVars, resultVars, lifeVars
<1>2. QED
  BY <1>1 DEF DecisionInv, InCall, ResultEndsTheCall, OneChild, OutputIsOurs, DecisionIsOfThisCall

-----------------------------------------------------------------------------
(* The texts.                                                              *)

\* What a decision is written as keeps the fields it was given, and no others.
LEMMA WrittenIsRead ==
    ASSUME NEW raw \in RawDecisions, Accepted(raw)
    PROVE  /\ Accepted(Serialize(Decision(raw)))
           /\ Decision(Serialize(Decision(raw))) = Decision(raw)
<1> DEFINE fields == {"action", "prompt", "commit_title", "next_prompt", "reason"}
           given == Decision(raw).given
           s == Serialize(Decision(raw))
<1>1. raw.action \in Actions
  BY DEF Accepted, Actions
<1>2. given = {f \in Kept(raw.action) : raw[f] = "text"} /\ Decision(raw).action = raw.action
  BY DEF Decision
<1>3. "action" \notin given /\ given \subseteq fields
  BY <1>2 DEF Kept
<1>4. s.action = raw.action
  BY <1>2 DEF Serialize
<1>5. \A f \in fields \ {"action"} : s[f] = IF f \in given THEN "text" ELSE "null"
  BY <1>2 DEF Serialize
<1>6. given = {f \in Kept(s.action) : s[f] = "text"}
  BY <1>2, <1>3, <1>4, <1>5 DEF Kept
<1>7. Decision(s) = Decision(raw)
  BY <1>2, <1>4, <1>6 DEF Decision
<1>8. Accepted(s)
  <2> HIDE DEF s, given
  <2>1. /\ s.prompt = IF "prompt" \in given THEN "text" ELSE "null"
        /\ s.commit_title = IF "commit_title" \in given THEN "text" ELSE "null"
        /\ s.next_prompt = IF "next_prompt" \in given THEN "text" ELSE "null"
        /\ s.reason = IF "reason" \in given THEN "text" ELSE "null"
    BY <1>5
  <2>2. CASE raw.action = "CLAUDE"
    <3>1. "prompt" \in given /\ "commit_title" \notin given /\ "next_prompt" \notin given
      BY <1>2, <2>2 DEF Kept, Accepted, Required
    <3>2. QED
      BY <1>4, <2>1, <2>2, <3>1 DEF Accepted, Required, RejectPresent, NonEmptyOptional
  <2>3. CASE raw.action = "ACCEPT"
    <3>1. "commit_title" \in given /\ "prompt" \notin given
      BY <1>2, <2>3 DEF Kept, Accepted, Required
    <3>2. QED
      BY <1>4, <2>1, <2>3, <3>1
      DEF Accepted, Required, RejectPresent, NonEmptyOptional, NullableOptional
  <2>4. CASE raw.action \in {"HUMAN", "STOP"}
    <3>1. /\ "reason" \in given
          /\ {"prompt", "commit_title", "next_prompt"} \cap given = {}
      BY <1>2, <2>4 DEF Kept, Accepted, Required
    <3>2. QED
      BY <1>4, <2>1, <2>4, <3>1 DEF Accepted, Required, RejectPresent
  <2>5. QED
    BY <1>1, <2>2, <2>3, <2>4 DEF Actions
<1>9. QED
  BY <1>7, <1>8

\* Every answer that follows the schema and the prompt is accepted.
LEMMA ConformingIsAccepted ==
    ASSUME NEW raw \in RawDecisions, Conforming(raw)
    PROVE  Accepted(raw)
<1>1. DOMAIN raw = {"action", "prompt", "commit_title", "next_prompt", "reason"}
  BY DEF RawDecisions
<1>2. \A f \in {"prompt", "commit_title", "next_prompt", "reason"} : raw[f] \in {"null", "text"}
  BY <1>1 DEF Conforming
<1>3. /\ raw.prompt \in {"null", "text"} /\ raw.commit_title \in {"null", "text"}
      /\ raw.next_prompt \in {"null", "text"} /\ raw.reason \in {"null", "text"}
  BY <1>2
<1>4. raw.action \in {"CLAUDE", "ACCEPT", "HUMAN", "STOP"}
  BY DEF Conforming
<1>5. QED
  BY <1>3, <1>4 DEF Conforming, Accepted, Required, RejectPresent, NonEmptyOptional, NullableOptional

\* The two facts about texts that every run starts from.
LEMMA TextsAreSound == DecisionsSurviveARestart /\ QuotaIsADiagnostic
<1>1. DecisionsSurviveARestart
  BY WrittenIsRead, ConformingIsAccepted DEF DecisionsSurviveARestart
<1>2. QuotaIsADiagnostic
  BY DEF QuotaIsADiagnostic, QuotaRecognised
<1>3. QED
  BY <1>1, <1>2

-----------------------------------------------------------------------------

\* A call ends as what it was.  The decision a review returns was written by the
\* codex of that review, or by one that outlived a Lya that died: the old file is
\* removed before the child is started, and a child of an earlier call that still
\* runs is an orphan (supervisor.rs prepare_output_files).  A decision is written and
\* read back as the same decision, and only a provider's own diagnostics make a
\* quota (SupervisorDecision, classify_failure).
THEOREM ResultsAreOfTheirCall == Spec => []ResultsAreTheCalls
<1>1. Init => TypeOK /\ DecisionInv
  BY InitTypes, InitDecision
<1>2. TypeOK /\ DecisionInv /\ [Next]_vars => (TypeOK /\ DecisionInv)'
  <2>1. SUFFICES ASSUME TypeOK, DecisionInv, [Next]_vars
                 PROVE  TypeOK' /\ DecisionInv'
    OBVIOUS
  <2>2. TypeOK'
    BY <2>1, StepTypes DEF DecisionInv
  <2>3. DecisionInv'
    BY <2>1, BeginKeepsDecision, StartKeepsDecision, SpawnKeepsDecision, WaitKeepsDecision,
       ReturnKeepsDecision, WorldKeepsDecision, CrashKeepsDecision, ElsewhereKeepsDecision
    DEF Next, RunStep
  <2>4. QED
    BY <2>2, <2>3
<1>3. TypeOK /\ DecisionInv => ResultsAreTheCalls
  BY TextsAreSound DEF ResultsAreTheCalls, DecisionInv
<1>4. QED
  BY <1>1, <1>2, <1>3, PTL DEF Spec
===============================================================================
