--------------------------- MODULE BobCoreProofs ----------------------------
(***************************************************************************)
(* What Bob's exit status says, for any finite set of requests that leaves *)
(* the counter below 256.                                                  *)
(***************************************************************************)
EXTENDS BobCore, FiniteSetTheorems, TLAPS

Left == Started \ Passed

\* The subtests Bob has are finite and can be counted.
LEMMA StartedCount ==
    ASSUME PassedWereStarted
    PROVE  /\ IsFiniteSet(Started) /\ IsFiniteSet(Left)
           /\ Cardinality(Left) \in Nat
           /\ Cardinality(Left) + 1 < 256
           /\ Cardinality(Left) = 0 <=> Started = Passed
<1>1. Started \subseteq Reqs /\ Passed \subseteq Started
  BY DEF Started, PassedWereStarted
<1>2. IsFiniteSet(Reqs) /\ Cardinality(Reqs) + 1 < 256
  BY ReqsAssumption
<1>3. Cardinality(Reqs) \in Nat
  BY <1>2, FS_CardinalityType
<1>4. IsFiniteSet(Started) /\ Cardinality(Started) <= Cardinality(Reqs)
  BY <1>1, <1>2, FS_Subset
<1>5. Cardinality(Started) \in Nat
  BY <1>4, FS_CardinalityType
<1>6. IsFiniteSet(Left) /\ Cardinality(Left) <= Cardinality(Started)
  BY <1>1, <1>4, FS_Subset DEF Left
<1>7. Cardinality(Left) \in Nat
  BY <1>6, FS_CardinalityType
<1>8. Cardinality(Left) = 0 <=> Left = {}
  BY <1>6, FS_EmptySet
<1>9. Left = {} <=> Started = Passed
  BY <1>1 DEF Left
<1> QED BY <1>2, <1>3, <1>4, <1>5, <1>6, <1>7, <1>8, <1>9

\* A subtest that is started is one more that is left, one that passes is one
\* fewer.
LEMMA LeftChanges ==
    ASSUME PassedWereStarted, NEW r
    PROVE  /\ r \notin Started =>
                  Cardinality((Started \cup {r}) \ Passed) = Cardinality(Left) + 1
           /\ r \in Left =>
                  Cardinality(Started \ (Passed \cup {r})) = Cardinality(Left) - 1
<1>1. IsFiniteSet(Left)
  BY StartedCount
<1>2. ASSUME r \notin Started
      PROVE  Cardinality((Started \cup {r}) \ Passed) = Cardinality(Left) + 1
  <2>1. r \notin Left /\ (Started \cup {r}) \ Passed = Left \cup {r}
    BY <1>2 DEF Left, PassedWereStarted
  <2> QED BY <1>1, <2>1, FS_AddElement
<1>3. ASSUME r \in Left
      PROVE  Cardinality(Started \ (Passed \cup {r})) = Cardinality(Left) - 1
  <2>1. Started \ (Passed \cup {r}) = Left \ {r}
    BY DEF Left
  <2> QED BY <1>1, <1>3, <2>1, FS_RemoveElement
<1> QED BY <1>2, <1>3

-----------------------------------------------------------------------------
(* What each operation does to the subtests                                *)

\* Answer and Strand start a subtest; it is not there before.
LEMMA RegisterStarts ==
    ASSUME TypeOK, PassedWereStarted,
           NEW r \in Reqs, Answer(r) \/ Strand(r)
    PROVE  /\ r \notin Started
           /\ Started' = Started \cup {r}
           /\ Passed' = Passed
           /\ bRunning' = bRunning \cup {r}
           /\ bRval' = bRval + 1
           /\ bPhase = "loop" /\ bPhase' = "loop"
           /\ UNCHANGED <<bTimer, bBreak, bStatus>>
<1>1. PICK reply \in {"ua", "403", "raised"} : Receive(r, reply)
  BY DEF Answer, Strand
<1>2. Passed' = Passed
  BY <1>1 DEF Receive, Passed
<1>3. r \notin Started
  BY <1>1 DEF Receive, Started, Registering
<1>4. Started' = Started \cup {r}
  BY <1>1 DEF Receive, Started, Registering, TypeOK
<1>5. bRunning' = bRunning \cup {r} /\ bRval' = bRval + 1
  BY DEF Answer, Strand
<1> QED BY <1>1, <1>2, <1>3, <1>4, <1>5 DEF Receive

\* Refuse and Challenge start none.
LEMMA RefuseStartsNothing ==
    ASSUME TypeOK, RunningHaveNotPassed,
           NEW r \in Reqs, Refuse(r) \/ Challenge(r)
    PROVE  /\ Started' = Started
           /\ Passed' = Passed
           /\ bRunning' = bRunning
           /\ bRval' = bRval
           /\ bPhase = "loop" /\ bPhase' = "loop"
           /\ UNCHANGED <<bTimer, bBreak, bStatus>>
<1>1. PICK reply \in {"481", "404", "501", "401"} : Receive(r, reply)
  BY DEF Refuse, Challenge
<1>2. Passed' = Passed
  BY <1>1 DEF Receive, Passed
<1>3. r \notin Started
  BY <1>1 DEF Receive, Started, Registering
<1>4. Started' = Started
  BY <1>1 DEF Receive, Started, Registering, TypeOK
<1>5. bRunning' = bRunning
  BY <1>3 DEF Refuse, Challenge, RunningHaveNotPassed
<1>6. bRval' = bRval
  BY DEF Refuse, Challenge, TypeOK
<1> QED BY <1>1, <1>2, <1>4, <1>5, <1>6 DEF Receive

\* A report of subtest r adds r to the passed ones exactly when it is a
\* success.
LEMMA DonePassed ==
    ASSUME TypeOK, RunningHaveNotPassed,
           NEW r \in Reqs, NEW v \in Verdicts, SubtestDone(r, v)
    PROVE  /\ r \in Started \ Passed
           /\ Started' = Started
           /\ v = Success => Passed' = Passed \cup {r}
           /\ v # Success => Passed' = Passed
           /\ bRunning' \subseteq Started \ Passed'
<1>1. r \in Started \ Passed
  BY DEF SubtestDone, RunningHaveNotPassed
<1>2. Started' = Started
  BY DEF SubtestDone, Started
<1>3. /\ v = Success => Passed' = Passed \cup {r}
      /\ v # Success => Passed' = Passed
  BY <1>1 DEF SubtestDone, Passed, TypeOK, Verdicts, Success, Failure
<1> QED BY <1>1, <1>2, <1>3 DEF SubtestDone, RunningHaveNotPassed

-----------------------------------------------------------------------------
(* The invariant                                                           *)

\* It holds when Bob starts.
LEMMA InitIInv == Init => IInv
<1> SUFFICES ASSUME Init PROVE IInv
  OBVIOUS
<1>1. Passed = {} /\ Started = {}
  BY DEF Init, Passed, Started, Registering, Success, Failure
<1>2. Cardinality(Started \ Passed) = 0
  BY <1>1, FS_EmptySet
<1>3. TypeOK
  <2>1. bVerdict \in [Reqs -> Verdicts] /\ bReply \in [Reqs -> Replies]
    BY DEF Init, Verdicts, Replies
  <2>2. bBreak \in BOOLEAN
    BY DEF Init
  <2>3. bRval \in Nat /\ bStatus \in 0..255
    BY DEF Init
  <2>4. bRunning \subseteq Reqs
    BY DEF Init
  <2> QED BY <2>1, <2>2, <2>3, <2>4 DEF Init, TypeOK
<1>4. Accounting
  BY <1>2 DEF Init, Accounting
<1> QED BY <1>1, <1>3, <1>4 DEF Init, IInv, RunningHaveNotPassed,
            PassedWereStarted, ExitStatusIsRval

\* A request keeps the types.
LEMMA ReceiveTypes ==
    ASSUME TypeOK, NEW r \in Reqs, NEW reply \in Replies, Receive(r, reply)
    PROVE  /\ bReply' \in [Reqs -> Replies]
           /\ UNCHANGED <<bPhase, bVerdict, bTimer, bBreak, bStatus>>
BY DEF TypeOK, Receive

\* Every step preserves the invariant.
LEMMA NextIInv == IInv /\ [Next]_vars => IInv'
<1> SUFFICES ASSUME IInv, [Next]_vars PROVE IInv'
  OBVIOUS
<1> USE DEF IInv
<1>1. ASSUME NEW r \in Reqs, Answer(r) \/ Strand(r) PROVE IInv'
  <2>1. /\ r \notin Started
        /\ Started' = Started \cup {r}
        /\ Passed' = Passed
        /\ bRunning' = bRunning \cup {r}
        /\ bRval' = bRval + 1
        /\ bPhase = "loop" /\ bPhase' = "loop"
        /\ UNCHANGED <<bTimer, bBreak, bStatus>>
    BY <1>1, RegisterStarts
  <2>2. Cardinality(Started' \ Passed') = Cardinality(Started \ Passed) + 1
    BY <2>1, LeftChanges DEF Left
  <2>3. TypeOK'
    <3>1. PICK reply \in Replies : Receive(r, reply)
      BY <1>1 DEF Answer, Strand, Replies
    <3> QED BY <2>1, <3>1, ReceiveTypes DEF TypeOK
  <2>4. RunningHaveNotPassed' /\ PassedWereStarted'
    BY <2>1 DEF RunningHaveNotPassed, PassedWereStarted
  <2>5. Accounting'
    BY <2>1, <2>2, StartedCount DEF Accounting, Left
  <2> QED BY <2>1, <2>3, <2>4, <2>5 DEF ExitStatusIsRval
<1>2. ASSUME NEW r \in Reqs, Refuse(r) \/ Challenge(r) PROVE IInv'
  <2>1. /\ Started' = Started
        /\ Passed' = Passed
        /\ bRunning' = bRunning
        /\ bRval' = bRval
        /\ bPhase = "loop" /\ bPhase' = "loop"
        /\ UNCHANGED <<bTimer, bBreak, bStatus>>
    BY <1>2, RefuseStartsNothing
  <2>2. TypeOK'
    <3>1. PICK reply \in Replies : Receive(r, reply)
      BY <1>2 DEF Refuse, Challenge, Replies
    <3> QED BY <2>1, <3>1, ReceiveTypes DEF TypeOK
  <2> QED BY <2>1, <2>2 DEF RunningHaveNotPassed, PassedWereStarted,
              Accounting, ExitStatusIsRval
<1>3. ASSUME NEW r \in Reqs, NEW v \in Verdicts, SubtestDone(r, v)
      PROVE  IInv'
  <2>1. /\ r \in Started \ Passed
        /\ Started' = Started
        /\ v = Success => Passed' = Passed \cup {r}
        /\ v # Success => Passed' = Passed
        /\ bRunning' \subseteq Started \ Passed'
    BY <1>3, DonePassed
  <2>2. PassedWereStarted'
    BY <2>1 DEF PassedWereStarted
  <2>3. /\ Cardinality(Started \ Passed) \in Nat
        /\ Cardinality(Started \ Passed) # 0
    BY <2>1, StartedCount DEF Left
  <2>4. Accounting' /\ bRval' \in Nat
    <3>1. CASE v = Success
      <4>1. bRval' = bRval - 1
        BY <1>3, <3>1 DEF SubtestDone, RvalAfter
      <4>2. Cardinality(Started' \ Passed') = Cardinality(Started \ Passed) - 1
        BY <2>1, <3>1, LeftChanges DEF Left
      <4> QED BY <1>3, <2>3, <4>1, <4>2 DEF SubtestDone, Accounting
    <3>2. CASE v # Success
      <4>1. bRval' = bRval /\ Passed' = Passed
        BY <1>3, <2>1, <3>2 DEF SubtestDone, RvalAfter
      <4> QED BY <1>3, <2>1, <4>1 DEF SubtestDone, Accounting, TypeOK
    <3> QED BY <3>1, <3>2
  <2>5. TypeOK'
    BY <1>3, <2>4 DEF SubtestDone, TypeOK
  <2> QED BY <1>3, <2>1, <2>2, <2>4, <2>5
          DEF RunningHaveNotPassed, ExitStatusIsRval, SubtestDone
<1>4. CASE Expire
  <2>1. Started' = Started /\ Passed' = Passed
    BY <1>4 DEF Expire, Started, Passed
  <2>2. Cardinality(Started \ Passed) \in Nat
    BY StartedCount DEF Left
  <2>3. Accounting' /\ bRval' \in Nat
    BY <1>4, <2>1, <2>2 DEF Expire, Accounting
  <2>4. TypeOK'
    BY <1>4, <2>3 DEF Expire, TypeOK
  <2> QED BY <1>4, <2>1, <2>3, <2>4 DEF Expire, RunningHaveNotPassed,
              PassedWereStarted, ExitStatusIsRval
<1>5. CASE Exit
  <2>1. Started' = Started /\ Passed' = Passed
    BY <1>5 DEF Exit, Started, Passed
  <2>2. bStatus' \in 0..255
    BY <1>5 DEF Exit, ExitStatus, TypeOK
  <2>3. Accounting'
    BY <1>5, <2>1 DEF Exit, Accounting
  <2>4. TypeOK'
    BY <1>5, <2>2 DEF Exit, TypeOK
  <2> QED BY <1>5, <2>1, <2>3, <2>4 DEF Exit, RunningHaveNotPassed,
              PassedWereStarted, ExitStatusIsRval
<1>6. CASE UNCHANGED vars
  <2>1. Started' = Started /\ Passed' = Passed
    BY <1>6 DEF vars, Started, Passed
  <2> QED BY <1>6, <2>1 DEF vars, TypeOK, RunningHaveNotPassed,
              PassedWereStarted, Accounting, ExitStatusIsRval
<1> QED BY <1>1, <1>2, <1>3, <1>4, <1>5, <1>6 DEF Next

\* The inductive invariant of Bob's core: counter, list, replies and verdicts
\* agree in every reachable state.
THEOREM Invariant == Spec => []IInv
BY InitIInv, NextIInv, PTL DEF Spec

\* Every variable of the core keeps its type (rval never goes below zero).
THEOREM TypeCorrect == Spec => []TypeOK
<1>1. IInv => TypeOK
  BY DEF IInv
<1> QED BY Invariant, <1>1, PTL

\* The counter fits in an exit status and is zero only when nothing is left.
LEMMA CounterIsExact ==
    ASSUME IInv
    PROVE  /\ bRval \in Nat /\ ExitStatus(bRval) = bRval
           /\ bRval = 0 => Started = Passed
<1>1. /\ Cardinality(Left) \in Nat
      /\ Cardinality(Left) + 1 < 256
      /\ Cardinality(Left) = 0 <=> Started = Passed
  BY StartedCount DEF IInv
<1>2. bRval \in {Cardinality(Left), Cardinality(Left) + 1}
  BY DEF IInv, Accounting, Left
<1>3. bRval \in Nat /\ bRval < 256
  BY <1>1, <1>2
<1> QED BY <1>1, <1>2, <1>3 DEF ExitStatus

\* For any set of requests, exit status 0 means that every subtest Bob started
\* has passed and none is left.
THEOREM HappyBobMeansAllPassed == Spec => []HappyMeansAllPassed
<1>1. IInv => HappyMeansAllPassed
  <2> SUFFICES ASSUME IInv, bPhase = "exited", bStatus = 0
               PROVE  Started = Passed /\ bRunning = {}
    BY DEF HappyMeansAllPassed
  <2>1. bRval = 0
    BY CounterIsExact DEF IInv, ExitStatusIsRval
  <2>2. Started = Passed
    BY <2>1, CounterIsExact
  <2> QED BY <2>2 DEF IInv, RunningHaveNotPassed
<1> QED BY Invariant, <1>1, PTL

\* For any set of requests, Bob leaves only through his timer.
THEOREM BobWaits == Spec => []WaitsForTheTimer
<1>1. IInv => WaitsForTheTimer
  BY DEF IInv, TypeOK, Accounting, WaitsForTheTimer
<1> QED BY Invariant, <1>1, PTL

\* For any set of requests, a timer that finds every started subtest passed
\* makes Bob happy.
THEOREM TimerRaisesNoFalseAlarm == Spec => NoFalseAlarm
<1>1. IInv => [Expire /\ Started = Passed => bRval' = 0]_vars
  <2> SUFFICES ASSUME IInv, Expire, Started = Passed PROVE bRval' = 0
    OBVIOUS
  <2>1. Cardinality(Left) = 0
    BY StartedCount DEF IInv
  <2>2. bRval = 1
    BY <2>1 DEF IInv, Accounting, Expire, Left
  <2>3. bRunning = {}
    BY DEF IInv, RunningHaveNotPassed
  <2> QED BY <2>2, <2>3 DEF Expire
<1> QED BY Invariant, <1>1, PTL DEF NoFalseAlarm

-----------------------------------------------------------------------------
(* The core implements the abstract test process Verdict.                  *)

\* Bob starts with nothing started, passed or reported.
LEMMA RefinesInit == Init => V!Init
BY DEF Init, V!Init, Passed, Started, Registering, Success, Failure

\* Each step of the core is a step of the abstract process, or changes nothing
\* that it shows.
LEMMA RefinesNext == IInv /\ [Next]_vars => [V!Next]_V!vars
<1> SUFFICES ASSUME IInv, [Next]_vars PROVE [V!Next]_V!vars
  OBVIOUS
<1> USE DEF V!vars
<1>1. ASSUME NEW r \in Reqs, Answer(r) \/ Strand(r) PROVE V!Start(r)
  <2>1. /\ r \notin Started
        /\ Started' = Started \cup {r}
        /\ Passed' = Passed
        /\ bPhase = "loop" /\ bPhase' = "loop"
    BY <1>1, RegisterStarts DEF IInv
  <2> QED BY <2>1 DEF V!Start
<1>2. ASSUME NEW r \in Reqs, Refuse(r) \/ Challenge(r)
      PROVE  UNCHANGED V!vars
  <2>1. /\ Started' = Started
        /\ Passed' = Passed
        /\ bPhase = "loop" /\ bPhase' = "loop"
    BY <1>2, RefuseStartsNothing DEF IInv
  <2> QED BY <2>1
<1>3. ASSUME NEW r \in Reqs, NEW v \in Verdicts, SubtestDone(r, v)
      PROVE  V!Pass(r) \/ UNCHANGED V!vars
  <2>1. /\ r \in Started \ Passed
        /\ Started' = Started
        /\ v = Success => Passed' = Passed \cup {r}
        /\ v # Success => Passed' = Passed
    BY <1>3, DonePassed DEF IInv
  <2>2. bPhase = "loop" /\ bPhase' = "loop"
    BY <1>3 DEF SubtestDone
  <2> QED BY <2>1, <2>2 DEF V!Pass
<1>4. CASE Expire
  BY <1>4 DEF Expire, Started, Passed
<1>5. CASE Exit
  <2>1. /\ Started' = Started /\ Passed' = Passed
        /\ bPhase = "loop" /\ bPhase' = "exited"
        /\ bStatus' = ExitStatus(bRval)
    BY <1>5 DEF Exit, Started, Passed
  <2>2. bStatus' = 0 => Started = Passed
    BY <2>1, CounterIsExact
  <2>3. V!ReportSuccess \/ V!ReportFailure
    BY <2>1, <2>2 DEF V!ReportSuccess, V!ReportFailure
  <2> QED BY <2>3 DEF V!Next
<1>6. CASE UNCHANGED vars
  BY <1>6 DEF vars, Started, Passed
<1>7. CASE \E r \in Reqs : Answer(r) \/ Strand(r)
  BY <1>1, <1>7 DEF V!Next
<1>8. CASE \E r \in Reqs : Refuse(r) \/ Challenge(r)
  BY <1>2, <1>8
<1>9. CASE \E r \in Reqs, v \in Verdicts : SubtestDone(r, v)
  BY <1>3, <1>9 DEF V!Next
<1> QED BY <1>4, <1>5, <1>6, <1>7, <1>8, <1>9 DEF Next

\* Bob's core implements Verdict: success is reported only when every subtest
\* that was started has passed, once, and nothing happens after it.
THEOREM BobKeepsPromise == Spec => Promise
BY Invariant, RefinesInit, RefinesNext, PTL DEF Spec, Promise, V!Spec
=============================================================================
