---------------------------- MODULE TestcoreBase ----------------------------
(***************************************************************************)
(* What Alice's and Bob's cores inherit from lib/testcore_base.py: the     *)
(* list of subtests under way and the counter that becomes the exit code   *)
(* of the process.  A core subtracts one from the counter for each subtest *)
(* that reports success and never looks at the subtest again, so the       *)
(* counter is the only memory of the failures.                             *)
(***************************************************************************)
EXTENDS Integers, FiniteSets

\* subtest.rval: 1 in class test, reset to 0 by an alldone() that is content.
Success == 0
Failure == 1
Verdicts == {Success, Failure}

\* A mistake: the verdict is not looked at.
RvalAfter_Blind(rval, v) == rval - 1

\* subtest_done(): the core's counter after subtest s reports verdict v.
RvalAfter(rval, v) == IF v = Success THEN rval - 1 ELSE rval

\* sys.exit(core.rval): the operating system keeps the low 8 bits.
ExitStatus(rval) == rval % 256
=============================================================================
