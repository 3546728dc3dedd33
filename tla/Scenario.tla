------------------------------ MODULE Scenario ------------------------------
(***************************************************************************)
(* The scenario classes of test_cases/ that make one call without a        *)
(* re-INVITE or a CANCEL of Alice's: t1 .. t14 and inv_brkn1.  A class is  *)
(* what it does differently from a_test1 and b_test1: when Bob acts, how,  *)
(* and what alldone() of either side accepts.  Times are seconds.          *)
(***************************************************************************)
EXTENDS Integers, TestcoreBase

\* The part of a class's cli and cld that follows "alice_" and "bob_".
Classes == {"1", "2", "3", "4", "5", "6", "7", "8", "9", "10",
            "11", "12", "13", "14", "inv_brkn1"}

CONSTANTS
    AnswerIvals,      \* values of 8.0 + random() * 5.0
    DisconnectIvals   \* values of 4.0 + random() * 10.0

ASSUME IvalsAssumption ==
    /\ AnswerIvals \subseteq 8..13 /\ AnswerIvals # {}
    /\ DisconnectIvals \subseteq 4..14 /\ DisconnectIvals # {}

-----------------------------------------------------------------------------
(* Bob's side                                                              *)

\* ring_ival: from the INVITE to ring().
RingIval(c) == CASE c = "12" -> 40
                 [] c \in {"13", "14"} -> 1
                 [] OTHER -> 5

\* answer_ival: from ring() to connect().
AnswerIval(c) == CASE c \in {"11", "13"} -> {55}
                   [] c = "14" -> {2}
                   [] OTHER -> AnswerIvals

\* Bob's disconnect_ival: from connect() to disconnect().
BobDisconnectIval(c) == IF c = "14" THEN {120} ELSE DisconnectIvals

\* The event ring() hands to the user agent: 180 without SDP, 183 with the SDP
\* of Bob, 183 with the SDP he has crippled, or a rejection.
RingKind(c) == CASE c \in {"2", "5", "7", "10", "12", "13"} -> "183"
                 [] c = "inv_brkn1" -> "crippled"
                 [] c \in {"4", "9"} -> "reject"
                 [] OTHER -> "180"

\* connect() rejects the call instead of answering it.
ConnectRejects(c) == c \in {"3", "5", "8", "10"}

\* A mistake: every class has the guard of t3.
ConnectGuard_Doubled(c, flags) == ~flags.connect

\* The guard with which connect() returns early.  t3 tests the flag
\* connect_done twice, and disconnect_done never.
ConnectGuard(c, flags) ==
    IF c \in {"3", "8"} THEN ~flags.connect
    ELSE ~flags.connect /\ ~flags.disconnect

-----------------------------------------------------------------------------
(* Alice's side                                                            *)

\* Alice's disconnect_ival: from connected() to disconnect().
AliceDisconnectIval(c) == IF c = "14" THEN 120 ELSE 9

\* Alice takes a ring or an answer for an error, whatever SDP it has.
ExpectsNoProgress(c) == c = "inv_brkn1"

\* A mistake: the override of t13 and t14 is lost.
HasMedia_Always(c, sigonly) == ~sigonly

\* _rtp_enabled: neither side of t13 and t14 ever sends media.
HasMedia(c, sigonly) == ~sigonly /\ c \notin {"13", "14"}

-----------------------------------------------------------------------------
(* alldone(): the verdict a side draws from its flags                      *)

\* class test
Completed(flags) ==
    flags.ring /\ flags.connect /\ flags.disconnect /\ flags.nerrs = 0

\* a_test3, a_test4, a_test5 and a_test_inv_brkn1: the call is over.
OverCleanly(flags) == flags.disconnect /\ flags.nerrs = 0

\* a_test11 .. a_test13: it is over and was never answered.
CutOff(flags) == ~flags.connect /\ flags.disconnect /\ flags.nerrs = 0

\* b_test11, b_test13 and b_test_inv_brkn1: it rang and was cut off.
RangThenCutOff(flags) == flags.ring /\ CutOff(flags)

\* b_test12: it was cut off before it rang.
CutOffBeforeRing(flags) == ~flags.ring /\ CutOff(flags)

AliceContent(c, flags, mightfail) ==
    CASE c \in {"3", "4", "5", "8", "9", "10", "inv_brkn1"} -> OverCleanly(flags)
      [] c \in {"11", "12", "13"} -> CutOff(flags)
      [] OTHER -> Completed(flags) \/ mightfail

\* A mistake: t12 inherits what t11 accepts.
BobContent_AsT11(c, flags, mightfail) ==
    CASE c \in {"11", "12", "13", "inv_brkn1"} -> RangThenCutOff(flags)
      [] OTHER -> Completed(flags) \/ mightfail

BobContent(c, flags, mightfail) ==
    CASE c \in {"11", "13", "inv_brkn1"} -> RangThenCutOff(flags)
      [] c = "12" -> CutOffBeforeRing(flags)
      [] OTHER -> Completed(flags) \/ mightfail

\* A mistake: a success is counted twice.
VerdictOf_Twice(content) == IF content THEN Success - 1 ELSE Failure

VerdictOf(content) == IF content THEN Success ELSE Failure
=============================================================================
