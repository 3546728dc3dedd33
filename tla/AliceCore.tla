----------------------------- MODULE AliceCore ------------------------------
(***************************************************************************)
(* The core of the calling process: class a_test of lib/alice_testcore.py  *)
(* on top of testcore_base, driven by the event dispatcher ED2 and turned  *)
(* into an exit status by alice_main.py.                                   *)
(*                                                                         *)
(* A subtest is abstract here: it runs until the dispatcher delivers the   *)
(* "dead" callback of its user agent, and alldone() then reports a verdict *)
(* that may be either.  What makes it one or the other is module Call's    *)
(* subject.                                                                *)
(***************************************************************************)
EXTENDS TestcoreBase, Sequences

CONSTANTS
    AllTests,       \* ALL_TESTS: the scenario classes the program knows
    Requested,      \* tcfg.tests: the names given with -t
    Ttype,          \* tcfg.ttype: the address families, from -4 and -6
    SignallingOnly  \* tcfg.signalling_only: -s was given

ASSUME TtypeAssumption == Ttype \in {<<"IP4">>, <<"IP6">>, <<"IP4", "IP6">>}
ASSUME SignallingOnlyAssumption == SignallingOnly \in BOOLEAN

-----------------------------------------------------------------------------
(* The schedule built by a_test.__init__                                   *)

\* A single address family is run twice: ttype += ttype.
Slots == IF Len(Ttype) = 1 THEN Ttype \o Ttype ELSE Ttype

\* smodes: whether a subtest exchanges media.
Smodes == IF SignallingOnly THEN {TRUE} ELSE {FALSE, TRUE}

\* The subtests; a name of -t that no class has selects nothing.
Tests == [cls : AllTests \cap Requested, slot : DOMAIN Slots, sigonly : Smodes]

ASSUME TestsAssumption == IsFiniteSet(Tests) /\ Cardinality(Tests) < 256

-----------------------------------------------------------------------------
VARIABLES
    aPhase,    \* "build" in __init__, "loop" in ED2.loop(), "exited"
    aRunning,  \* subtests_running
    aRval,     \* rval
    aVerdict,  \* the rval of each subtest
    aTimer,    \* Timeout(self.timeout, tcfg.test_timeout, 1)
    aBreak,    \* ED2.breakLoop() was called
    aStatus    \* exit status, meaningful once aPhase = "exited"

vars == <<aPhase, aRunning, aRval, aVerdict, aTimer, aBreak, aStatus>>

Init ==
    /\ aPhase = "build"
    /\ aRunning = {}
    /\ aRval = 1
    /\ aVerdict = [t \in Tests |-> Failure]
    /\ aTimer = "off"
    /\ aBreak = FALSE
    /\ aStatus = 0

\* subtest_cfg.init_test(), in the order left by shuffle(): the subtest sends
\* its INVITE and joins the list.
InitTest(t) ==
    /\ aPhase = "build"
    /\ t \notin aRunning
    /\ aRunning' = aRunning \cup {t}
    /\ UNCHANGED <<aPhase, aRval, aVerdict, aTimer, aBreak, aStatus>>

\* The end of __init__ and ED2.loop().
EnterLoop ==
    /\ aPhase = "build"
    /\ aRunning = Tests
    /\ aPhase' = "loop"
    /\ aRval' = Cardinality(aRunning)
    /\ aTimer' = "armed"
    /\ UNCHANGED <<aRunning, aVerdict, aBreak, aStatus>>

\* A mistake: the subtest stays in the list, and may report again.
SubtestDone_Kept(t, v) ==
    /\ aPhase = "loop"
    /\ t \in aRunning
    /\ aVerdict' = [aVerdict EXCEPT ![t] = v]
    /\ aRval' = RvalAfter(aRval, v)
    /\ UNCHANGED <<aPhase, aRunning, aTimer, aBreak, aStatus>>

\* A mistake: the first subtest that passes breaks the loop.
SubtestDone_Hasty(t, v) ==
    /\ aPhase = "loop"
    /\ t \in aRunning
    /\ aVerdict' = [aVerdict EXCEPT ![t] = v]
    /\ aRunning' = aRunning \ {t}
    /\ aRval' = RvalAfter(aRval, v)
    /\ aBreak' = (aBreak \/ v = Success)
    /\ UNCHANGED <<aPhase, aTimer, aStatus>>

\* alldone() of subtest t reports verdict v through done() and done_cb, which
\* is subtest_done(); the last subtest breaks the loop.  A loop that is being
\* broken may still deliver the callbacks that were already due.
SubtestDone(t, v) ==
    /\ aPhase = "loop"
    /\ t \in aRunning
    /\ aVerdict' = [aVerdict EXCEPT ![t] = v]
    /\ aRunning' = aRunning \ {t}
    /\ aRval' = RvalAfter(aRval, v)
    /\ aBreak' = (aBreak \/ aRunning' = {})
    /\ UNCHANGED <<aPhase, aTimer, aStatus>>

\* A mistake: the time-out is printed and the loop goes on.
Expire_NoBreak ==
    /\ aPhase = "loop"
    /\ aTimer = "armed"
    /\ aTimer' = "fired"
    /\ UNCHANGED <<aPhase, aRunning, aRval, aVerdict, aBreak, aStatus>>

\* timeout(): the subtests still running are only reported.
Expire ==
    /\ aPhase = "loop"
    /\ aTimer = "armed"
    /\ aTimer' = "fired"
    /\ aBreak' = TRUE
    /\ UNCHANGED <<aPhase, aRunning, aRval, aVerdict, aStatus>>

\* A mistake: the exit status says whether something is still listed.
Exit_ByList ==
    /\ aPhase = "loop"
    /\ aBreak
    /\ aPhase' = "exited"
    /\ aStatus' = IF aRunning = {} THEN 0 ELSE 1
    /\ UNCHANGED <<aRunning, aRval, aVerdict, aTimer, aBreak>>

\* ED2.loop() returns and main_func() calls sys.exit(acore.rval).
Exit ==
    /\ aPhase = "loop"
    /\ aBreak
    /\ aPhase' = "exited"
    /\ aStatus' = ExitStatus(aRval)
    /\ UNCHANGED <<aRunning, aRval, aVerdict, aTimer, aBreak>>

Build == EnterLoop \/ \E t \in Tests : InitTest(t)

Next ==
    \/ Build
    \/ \E t \in Tests, v \in Verdicts : SubtestDone(t, v)
    \/ Expire
    \/ Exit

\* The constructor is straight-line code, ED2 delivers a due timer, and a
\* broken loop returns.  Nothing is assumed of the subtests.
Fairness == WF_vars(Build) /\ WF_vars(Expire) /\ WF_vars(Exit)

Spec == Init /\ [][Next]_vars /\ Fairness

-----------------------------------------------------------------------------
Passed == {t \in Tests : aVerdict[t] = Success}

TypeOK ==
    /\ aPhase \in {"build", "loop", "exited"}
    /\ aRunning \subseteq Tests
    /\ aRval \in Nat
    /\ aVerdict \in [Tests -> Verdicts]
    /\ aTimer \in {"off", "armed", "fired"}
    /\ aBreak \in BOOLEAN
    /\ aStatus \in 0..255

\* Alice's exit status is 0 exactly when every scheduled subtest reported
\* success: no order of completions, time-outs and late callbacks lets the
\* counter of lib/testcore_base.py hide a failure or invent one.
ExitTellsTruth ==
    aPhase = "exited" => (aStatus = 0 <=> Passed = Tests)

\* The loop ends early only when every subtest has reported: an Alice that
\* exits before her timer fired has left no subtest behind.
NoEarlyExit ==
    aPhase = "exited" /\ aTimer = "armed" => aRunning = {}

\* Alice terminates even if no subtest ever does.
Terminates == <>(aPhase = "exited")

\* The promise of the abstract specification.
V == INSTANCE Verdict WITH
        Subtests <- Tests,
        started  <- IF aPhase = "build" THEN aRunning ELSE Tests,
        passed   <- Passed,
        outcome  <- IF aPhase # "exited" THEN "none"
                    ELSE IF aStatus = 0 THEN "happy" ELSE "unhappy"

\* A test process reports success only when every subtest it started passed,
\* and nothing is started or passed after the report (abstract specification
\* Verdict).
Promise == V!Spec

-----------------------------------------------------------------------------
\* The inductive invariant: the counter is the number of subtests without
\* success; a subtest that is still listed has no success yet.
RunningHaveNotPassed == aRunning \cap Passed = {}

Accounting ==
    IF aPhase = "build"
    THEN Passed = {} /\ aTimer = "off" /\ ~aBreak
    ELSE /\ aRval = Cardinality(Tests \ Passed)
         /\ aTimer # "off"
         /\ aBreak => (aTimer = "fired" \/ aRunning = {})
         /\ aPhase = "exited" => aBreak /\ aStatus = ExitStatus(aRval)

IInv == TypeOK /\ RunningHaveNotPassed /\ Accounting
=============================================================================
