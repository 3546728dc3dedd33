-------------------------- MODULE ReinviteScenario --------------------------
(***************************************************************************)
(* The scenario classes of test_cases/ in which one side sends re-INVITEs  *)
(* over an established call.  As in Scenario, a class is what it does      *)
(* differently from test_reinvite, a_test1 and b_test1.  Times are         *)
(* hundredths of a second.                                                 *)
(***************************************************************************)
EXTENDS Integers

ReinviteClasses ==
    {"reinvite", "reinv_fail", "reinv_brkn1", "reinv_brkn2", "reinv_onhold",
     "reinv_frombob", "reinv_bad_ack", "nated_contact", "reinv_adelay"}

\* The classes whose Alice is a_test_reinv_fail or inherits from it: she wants
\* her re-INVITE to be refused.
Refused == {"reinv_fail", "reinv_brkn1", "reinv_brkn2"}

\* The side whose reinvite_ival is set, and which therefore sends re-INVITEs.
Reinviter(c) ==
    IF c \in {"reinv_frombob", "nated_contact"} THEN "bob" ELSE "alice"

RingIval == 100

\* answer_ival: from ring() to connect().
AnswerIval(c) == IF c = "reinv_bad_ack" THEN 100 ELSE 500

\* disconnect_ival: from connect(), or from connected(), to disconnect().
DisconnectIval(p, c) ==
    IF p = "bob" THEN (IF c = "reinv_bad_ack" THEN 6000 ELSE 1600)
    ELSE (IF c = "reinv_bad_ack" THEN 5000 ELSE 900)

\* reinvite_ival.  Alice's runs from connected(), Bob's from complete_answer(),
\* which is RingIval before he rings.
ReinviteIval(c) ==
    CASE c = "reinv_bad_ack" -> 100
      [] c \in Refused \cup {"reinv_onhold"} ->
             (DisconnectIval("alice", c) - 200) \div 2
      [] OTHER -> DisconnectIval("alice", c) - 200

\* A mistake: the delay of class b_test_reinv_adelay is not set.
AnswerDelay_None(c) == 0

\* reinv_answ_delay: from the re-INVITE to _process_reinvite().
AnswerDelay(c) == IF c = "reinv_adelay" THEN 70 ELSE 0

\* a_test_reinv_onhold.__init__(): four draws whose sum leaves Alice time to put
\* the call on hold three times before her disconnect().
Scheds(c, draws) ==
    IF c # "reinv_onhold" THEN {<<>>}
    ELSE {q \in [1..4 -> draws] :
            q[1] + q[2] + q[3] + q[4] <
                RingIval + AnswerIval(c) + ReinviteIval(c)
                    - DisconnectIval("alice", c)}

-----------------------------------------------------------------------------
(* The verdict of a side, from its flags.                                  *)

\* Three times on hold and twice off: Alice's condition for hanging up, and what
\* Bob wants to have been told.
OnHoldOver(s) == s.holds = 3 /\ s.offs = 2

\* A mistake: Bob of reinv_onhold does not look at his counters.
ReinviteErrs_NoCount(p, c, s) ==
    IF p = Reinviter(c) /\ (~s.done \/ ~s.disconnect) THEN 1 ELSE 0

\* What alldone() of b_test_reinv_onhold and of test_reinvite add to nerrs.
ReinviteErrs(p, c, s) ==
    (IF p = "bob" /\ c = "reinv_onhold" /\ ~OnHoldOver(s) THEN 1 ELSE 0)
    + (IF p = Reinviter(c) /\ (~s.done \/ ~s.disconnect) THEN 1 ELSE 0)
=============================================================================
