-------------------------- MODULE AliceCoreProofs ---------------------------
(***************************************************************************)
(* What Alice's exit status says, for any set of scenarios, any selection  *)
(* of them and any options that schedule fewer than 256 subtests.          *)
(***************************************************************************)
EXTENDS AliceCore, FiniteSetTheorems, TLAPS

\* The schedule is finite and what is left of it can be counted.
LEMMA TestsCount ==
    ASSUME Passed \subseteq Tests
    PROVE  /\ IsFiniteSet(Tests)
           /\ Cardinality(Tests \ Passed) \in 0..255
           /\ Cardinality(Tests \ Passed) = 0 <=> Passed = Tests
<1>1. IsFiniteSet(Tests) /\ Cardinality(Tests) < 256
  BY TestsAssumption
<1>2. Cardinality(Tests) \in Nat
  BY <1>1, FS_CardinalityType
<1>3. /\ IsFiniteSet(Tests \ Passed)
      /\ Cardinality(Tests \ Passed) <= Cardinality(Tests)
  BY <1>1, FS_Subset
<1>4. Cardinality(Tests \ Passed) \in Nat
  BY <1>3, FS_CardinalityType
<1>5. Cardinality(Tests \ Passed) = 0 <=> Tests \ Passed = {}
  BY <1>3, FS_EmptySet
<1> QED BY <1>1, <1>2, <1>3, <1>4, <1>5

\* A subtest that is left and passes leaves one fewer.
LEMMA OneFewerLeft ==
    ASSUME Passed \subseteq Tests, NEW t \in Tests \ Passed
    PROVE  Cardinality(Tests \ (Passed \cup {t})) = Cardinality(Tests \ Passed) - 1
<1>1. IsFiniteSet(Tests \ Passed)
  BY TestsCount, FS_Subset
<1>2. Cardinality((Tests \ Passed) \ {t}) = Cardinality(Tests \ Passed) - 1
  BY <1>1, FS_RemoveElement
<1>3. (Tests \ Passed) \ {t} = Tests \ (Passed \cup {t})
  OBVIOUS
<1> QED BY <1>2, <1>3

\* The invariant holds when the constructor starts.
LEMMA InitIInv == Init => IInv
<1> SUFFICES ASSUME Init PROVE IInv
  OBVIOUS
<1>1. Passed = {}
  BY DEF Init, Passed, Success, Failure
<1>2. TypeOK
  <2>1. aVerdict \in [Tests -> Verdicts]
    BY DEF Init, Verdicts
  <2>2. aBreak \in BOOLEAN
    BY DEF Init
  <2>3. aRval \in Nat /\ aStatus \in 0..255
    BY DEF Init
  <2>4. aRunning \subseteq Tests
    BY DEF Init
  <2> QED BY <2>1, <2>2, <2>3, <2>4 DEF Init, TypeOK
<1> QED BY <1>1, <1>2 DEF Init, IInv, RunningHaveNotPassed, Accounting

\* A report of subtest t adds t to the passed ones exactly when it is a
\* success, and takes as much from the counter.
LEMMA DonePassed ==
    ASSUME TypeOK, RunningHaveNotPassed,
           NEW t \in Tests, NEW v \in Verdicts, SubtestDone(t, v)
    PROVE  /\ t \in Tests \ Passed
           /\ v = Success => Passed' = Passed \cup {t}
           /\ v # Success => Passed' = Passed
           /\ Passed' \cap aRunning' = {}
BY DEF TypeOK, RunningHaveNotPassed, SubtestDone, Passed, Verdicts, Success,
       Failure

LEMMA DoneAccounting ==
    ASSUME IInv, NEW t \in Tests, NEW v \in Verdicts, SubtestDone(t, v)
    PROVE  aRval' = Cardinality(Tests \ Passed') /\ aRval' \in Nat
<1>1. Passed \subseteq Tests /\ Passed' \subseteq Tests
  BY DEF Passed
<1>2. IsFiniteSet(Tests)
  BY <1>1, TestsCount
<1>3. aRval = Cardinality(Tests \ Passed) /\ aRval \in Nat
  BY DEF IInv, TypeOK, Accounting, SubtestDone
<1>4. /\ t \in Tests \ Passed
      /\ v = Success => Passed' = Passed \cup {t}
      /\ v # Success => Passed' = Passed
  BY DonePassed DEF IInv
<1>5. CASE v = Success
  <2>1. aRval' = aRval - 1
    BY <1>5 DEF SubtestDone, RvalAfter
  <2>2. Cardinality(Tests \ Passed') = Cardinality(Tests \ Passed) - 1
    BY <1>1, <1>2, <1>4, <1>5, OneFewerLeft
  <2>3. Cardinality(Tests \ Passed') \in Nat
    BY <1>1, <1>3, <1>4, <1>5, <2>2, TestsCount
  <2> QED BY <1>3, <2>1, <2>2, <2>3
<1>6. CASE v # Success
  BY <1>3, <1>4, <1>6 DEF SubtestDone, RvalAfter
<1> QED BY <1>5, <1>6

\* Every step preserves the invariant.
LEMMA NextIInv == IInv /\ [Next]_vars => IInv'
<1> SUFFICES ASSUME IInv, [Next]_vars PROVE IInv'
  OBVIOUS
<1> USE DEF IInv
<1>0. Passed \subseteq Tests
  BY DEF Passed
<1>1. ASSUME NEW t \in Tests, InitTest(t) PROVE IInv'
  BY <1>1 DEF InitTest, TypeOK, RunningHaveNotPassed, Accounting, Passed,
              Verdicts, Success, Failure
<1>2. CASE EnterLoop
  <2>1. Passed = {} /\ Passed' = Passed
    BY <1>2 DEF EnterLoop, Accounting, Passed
  <2>2. aRval' = Cardinality(Tests \ Passed') /\ aRval' \in Nat
    <3>1. Tests \ Passed' = aRunning
      BY <1>2, <2>1 DEF EnterLoop
    <3> QED BY <1>0, <1>2, <3>1, <2>1, TestsCount DEF EnterLoop
  <2> QED BY <1>2, <2>1, <2>2
          DEF EnterLoop, TypeOK, RunningHaveNotPassed, Accounting
<1>3. ASSUME NEW t \in Tests, NEW v \in Verdicts, SubtestDone(t, v)
      PROVE  IInv'
  <2>1. aRval' = Cardinality(Tests \ Passed') /\ aRval' \in Nat
    BY <1>3, DoneAccounting
  <2>2. RunningHaveNotPassed'
    BY <1>3, DonePassed DEF RunningHaveNotPassed
  <2>3. TypeOK'
    BY <1>3, <2>1 DEF SubtestDone, TypeOK
  <2> QED BY <1>3, <2>1, <2>2, <2>3 DEF SubtestDone, Accounting
<1>4. CASE Expire
  BY <1>4 DEF Expire, TypeOK, RunningHaveNotPassed, Accounting, Passed
<1>5. CASE Exit
  <2>1. Passed' = Passed
    BY <1>5 DEF Exit, Passed
  <2>2. aStatus' \in 0..255
    BY <1>5 DEF Exit, ExitStatus, TypeOK
  <2> QED BY <1>5, <2>1, <2>2
          DEF Exit, TypeOK, RunningHaveNotPassed, Accounting
<1>6. CASE UNCHANGED vars
  BY <1>6 DEF vars, TypeOK, RunningHaveNotPassed, Accounting, Passed
<1> QED BY <1>1, <1>2, <1>3, <1>4, <1>5, <1>6 DEF Next, Build

\* The inductive invariant of Alice's core: counter, list and verdicts agree
\* in every reachable state.
THEOREM Invariant == Spec => []IInv
BY InitIInv, NextIInv, PTL DEF Spec

\* Every variable of the core keeps its type (rval never goes below zero).
THEOREM TypeCorrect == Spec => []TypeOK
<1>1. IInv => TypeOK
  BY DEF IInv
<1> QED BY Invariant, <1>1, PTL

\* In a final state the exit status is the number of subtests that did not
\* pass.
LEMMA StatusCounts ==
    ASSUME IInv, aPhase = "exited"
    PROVE  aStatus = Cardinality(Tests \ Passed) /\ Passed \subseteq Tests
<1>1. Passed \subseteq Tests
  BY DEF Passed
<1>2. aRval \in Nat /\ aRval < 256
  BY <1>1, TestsCount DEF IInv, TypeOK, Accounting
<1>3. aStatus = aRval
  BY <1>2 DEF IInv, Accounting, ExitStatus
<1> QED BY <1>1, <1>3 DEF IInv, Accounting

\* For every schedule, Alice's exit status is 0 exactly when every scheduled
\* subtest reported success.
THEOREM ExitStatusTellsTruth == Spec => []ExitTellsTruth
<1>1. IInv => ExitTellsTruth
  BY StatusCounts, TestsCount DEF ExitTellsTruth
<1> QED BY Invariant, <1>1, PTL

\* For every schedule, an Alice that exits before her timer fired has left no
\* subtest behind.
THEOREM NoSubtestLeftBehind == Spec => []NoEarlyExit
<1>1. IInv => NoEarlyExit
  BY DEF IInv, TypeOK, Accounting, NoEarlyExit
<1> QED BY Invariant, <1>1, PTL
-----------------------------------------------------------------------------
(* The core implements the abstract test process Verdict.                  *)

\* The constructor starts with nothing started, passed or reported.
LEMMA RefinesInit == Init => V!Init
<1> SUFFICES ASSUME Init PROVE V!Init
  OBVIOUS
<1>1. Passed = {}
  BY DEF Init, Passed, Success, Failure
<1> QED BY <1>1 DEF Init, V!Init

\* Each step of the core is a step of the abstract process, or changes nothing
\* that it shows.
LEMMA RefinesNext == IInv /\ IInv' /\ [Next]_vars => [V!Next]_V!vars
<1> SUFFICES ASSUME IInv, IInv', [Next]_vars PROVE [V!Next]_V!vars
  OBVIOUS
<1> USE DEF V!vars
<1>0. aRunning \subseteq Tests /\ Passed \subseteq Tests
  BY DEF IInv, TypeOK, Passed
<1>1. ASSUME NEW t \in Tests, InitTest(t) PROVE V!Start(t)
  <2>1. Passed' = Passed
    BY <1>1 DEF InitTest, Passed
  <2> QED BY <1>1, <2>1 DEF InitTest, V!Start
<1>2. CASE EnterLoop
  <2>1. Passed' = Passed
    BY <1>2 DEF EnterLoop, Passed
  <2> QED BY <1>2, <2>1 DEF EnterLoop
<1>3. ASSUME NEW t \in Tests, NEW v \in Verdicts, SubtestDone(t, v)
      PROVE  V!Pass(t) \/ UNCHANGED V!vars
  <2>1. /\ t \in Tests \ Passed
        /\ v = Success => Passed' = Passed \cup {t}
        /\ v # Success => Passed' = Passed
    BY <1>3, DonePassed DEF IInv
  <2>2. aPhase = "loop" /\ aPhase' = "loop"
    BY <1>3 DEF SubtestDone
  <2>3. CASE v = Success
    BY <2>1, <2>2, <2>3 DEF V!Pass
  <2>4. CASE v # Success
    BY <2>1, <2>2, <2>4
  <2> QED BY <2>3, <2>4
<1>4. CASE Expire
  <2>1. Passed' = Passed
    BY <1>4 DEF Expire, Passed
  <2> QED BY <1>4, <2>1 DEF Expire
<1>5. CASE Exit
  <2>1. Passed' = Passed /\ aPhase = "loop" /\ aPhase' = "exited"
    BY <1>5 DEF Exit, Passed
  <2>2. aStatus' = Cardinality(Tests \ Passed)
    <3>1. aRval = Cardinality(Tests \ Passed) /\ aRval \in Nat
      BY <2>1 DEF IInv, TypeOK, Accounting
    <3>2. aRval < 256
      BY <1>0, <3>1, TestsCount
    <3>3. aStatus' = ExitStatus(aRval)
      BY <1>5 DEF Exit
    <3> QED BY <3>1, <3>2, <3>3 DEF ExitStatus
  <2>3. aStatus' = 0 => Passed = Tests
    BY <1>0, <2>2, TestsCount
  <2>4. V!ReportSuccess \/ V!ReportFailure
    BY <2>1, <2>3 DEF V!ReportSuccess, V!ReportFailure
  <2> QED BY <2>4 DEF V!Next
<1>6. CASE UNCHANGED vars
  BY <1>6 DEF vars, Passed
<1>7. CASE \E t \in Tests : InitTest(t)
  BY <1>1, <1>7 DEF V!Next
<1>8. CASE \E t \in Tests, v \in Verdicts : SubtestDone(t, v)
  BY <1>3, <1>8 DEF V!Next
<1> QED BY <1>2, <1>4, <1>5, <1>6, <1>7, <1>8 DEF Next, Build

\* Alice's core implements Verdict: success is reported only when every
\* subtest that was started has passed, once, and nothing happens after it.
THEOREM AliceKeepsPromise == Spec => Promise
BY Invariant, RefinesInit, RefinesNext, PTL DEF Spec, Promise, V!Spec
=============================================================================
