------------------------------ MODULE Verdict -------------------------------
(***************************************************************************)
(* What a test process promises to test_run.sh, whatever its core looks    *)
(* like inside: subtests are started and may pass, and the process reports *)
(* success only when every subtest it ever started has passed.  After that *)
(* nothing changes.  A process is always allowed to report a failure.      *)
(***************************************************************************)
CONSTANT Subtests

VARIABLES started, passed, outcome

vars == <<started, passed, outcome>>

Outcomes == {"none", "happy", "unhappy"}

TypeOK ==
    /\ started \subseteq Subtests
    /\ passed \subseteq started
    /\ outcome \in Outcomes

Init ==
    /\ started = {}
    /\ passed = {}
    /\ outcome = "none"

Start(s) ==
    /\ outcome = "none"
    /\ s \notin started
    /\ started' = started \cup {s}
    /\ UNCHANGED <<passed, outcome>>

Pass(s) ==
    /\ outcome = "none"
    /\ s \in started \ passed
    /\ passed' = passed \cup {s}
    /\ UNCHANGED <<started, outcome>>

ReportSuccess ==
    /\ outcome = "none"
    /\ passed = started
    /\ outcome' = "happy"
    /\ UNCHANGED <<started, passed>>

ReportFailure ==
    /\ outcome = "none"
    /\ outcome' = "unhappy"
    /\ UNCHANGED <<started, passed>>

Next ==
    \/ \E s \in Subtests : Start(s) \/ Pass(s)
    \/ ReportSuccess
    \/ ReportFailure

Spec == Init /\ [][Next]_vars
=============================================================================
