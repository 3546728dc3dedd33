----------------------------- MODULE MCReinvite -----------------------------
(* A message takes no time or 0.6 s: five exchanges of the slow kind outlast *)
(* Alice's 9 s, so that reinv_onhold has to poll.                            *)
EXTENDS Reinvite

MCDelays == {0, 60}
MCDraws == {10, 12}

Run(classes, faults, sigonly) == [cls : classes, fault : faults, sigonly : sigonly]

\* The correct SSuT with every class, the faults each with the classes whose
\* outcome it can change.
MCScenarios ==
    Run(ReinviteClasses, {"none"}, {FALSE})
    \cup Run({"reinv_bad_ack"}, {"none", "tolerate"}, BOOLEAN)
    \cup Run({"reinv_bad_ack"}, {"hangup"}, {FALSE})
    \cup Run({"reinvite", "reinv_fail", "reinv_onhold", "reinv_frombob"},
             {"swallow", "mute", "hangup"}, {FALSE})
    \cup Run({"reinv_adelay"}, {"mute", "rawok", "hangup"}, {FALSE})
    \cup Run(Refused, {"tolerate"}, {FALSE})
    \cup Run({"reinvite", "reinv_frombob"}, {"rawok"}, {FALSE})

MCContact == Run({"nated_contact"}, {"contact"}, {FALSE})
MCRewrite == Run({"reinvite", "reinv_frombob"}, {"raw"}, {FALSE})
=============================================================================
