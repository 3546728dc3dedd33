------------------------------ MODULE Reinvite ------------------------------
(***************************************************************************)
(* A call with re-INVITEs: class test_reinvite of test_cases/reinvite.py,  *)
(* mixed into a subtest of Alice's and one of Bob's, and the scenarios     *)
(* built from it.  The model starts when Bob rings; what comes before is   *)
(* the business of Call.                                                   *)
(*                                                                         *)
(* The mixin is the same code on both sides, so a side is an element of a  *)
(* function and an action has the side for a parameter.  The user agents   *)
(* and the SSuT are external, as in Call: a user agent drops what reaches  *)
(* it after the end of the call, the SSuT relays.  The clock jumps to the  *)
(* next moment at which something is due.                                  *)
(***************************************************************************)
EXTENDS ReinviteScenario, Sequences, TestcoreBase

CONSTANTS
    Scenarios,   \* which [cls, fault, sigonly] may be run
    Delays,      \* how long a message may take
    Draws        \* values of 0.1 + random() * 0.5

(* How the SSuT may err:                                                   *)
(*   swallow   it answers a re-INVITE itself and relays nothing            *)
(*   mute      it relays no re-INVITE and answers none                     *)
(*   raw       it does not rewrite the SDP of a re-INVITE                  *)
(*   rawok     it does not rewrite the SDP of an answer to one             *)
(*   contact   it does not send a re-INVITE to the Contact it was given    *)
(*   tolerate  it relays broken SDPs and takes Alice's bad ACK for good    *)
(*   hangup    it ends the call when it likes                              *)
ReinviteFaults ==
    {"none", "swallow", "mute", "raw", "rawok", "contact", "tolerate", "hangup"}

ASSUME ReinviteAssumption ==
    /\ Scenarios \subseteq
           [cls : ReinviteClasses, fault : ReinviteFaults, sigonly : BOOLEAN]
    /\ Delays \subseteq Nat /\ Delays # {}
    /\ Draws \subseteq 10..60 /\ Draws # {}

VARIABLES
    now,   \* the clock
    scn,   \* the scenario
    side,  \* "alice" and "bob": a subtest and its user agent
    ssut,  \* the SSuT's session
    net    \* what is on its way to each side

vars == <<now, scn, side, ssut, net>>

Sides == {"alice", "bob"}
Other(p) == IF p = "alice" THEN "bob" ELSE "alice"

\* A mistake: the time-out of a user agent is left as long as a transaction's.
GoDeadTimeout_Long == 3200

\* class test: the time a user agent has to report its death.
GoDeadTimeout == 1000

\* How long the SSuT repeats a 200 that is not acknowledged: 64 * T1.
AckTimeout == 3200

\* rtpproxy -T
MediaTimeout == 4500

Never == 100000

Pending == 2

-----------------------------------------------------------------------------
(* A side.  ua: "ringing", "up", "updating" (its re-INVITE is unanswered), *)
(* "asked" (it owes an answer), "ended", "dead".  The fields busy, done,   *)
(* holds and offs are reinvite_in_progress, reinvite_done, onhold_count    *)
(* and offhold_count; sched and ruri are Alice's, the latter her user      *)
(* agent's last_in_dialog_invite_ruri; late is history: an event was       *)
(* handed to a user agent that had left the call.                          *)

NewSide(timers, sched) ==
    [ua |-> "ringing", connect |-> FALSE, disconnect |-> FALSE, nerrs |-> 0,
     busy |-> FALSE, done |-> FALSE, holds |-> 0, offs |-> 0,
     timers |-> timers, sched |-> sched, ended |-> Never, ruri |-> "none",
     late |-> FALSE, verdict |-> Pending]

Timer(cb, ival) == [cb |-> cb, at |-> now + ival]

Left(s) == s.ua \in {"ended", "dead"}

\* The user agent leaves the call and calls disconnected().
Ended(s) == [s EXCEPT !.ua = "ended", !.ended = now, !.disconnect = TRUE]

\* Messages to one side arrive in the order in which they were sent.
Queued(q, kind, body, d) ==
    LET last == q[Len(q)].at
        at == IF q # <<>> /\ last > now + d THEN last ELSE now + d
    IN  Append(q, [kind |-> kind, body |-> body, at |-> at])

-----------------------------------------------------------------------------
(* The SSuT.  leg: "calling", "up", "over"; refused: it has told a side    *)
(* that a re-INVITE was refused; ackby: when it gives up waiting for an    *)
(* ACK; since: when it last saw an SDP; accepted: history, it has relayed  *)
(* or made up an answer to a re-INVITE; blame: history, who or what ended  *)
(* the call.                                                               *)

NoSession ==
    [leg |-> "calling", refused |-> FALSE, ackby |-> Never, since |-> 0,
     accepted |-> FALSE, blame |-> "none"]

Over(blame) == [ssut EXCEPT !.leg = "over", !.ackby = Never, !.blame = blame]

\* What it does with what side p sends; n is the network without the message p
\* is reacting to.
SsutFrom(p, n, kind, body) ==
    \E d \in Delays :
        LET o == Other(p)
            Tell(q, k, b) == net' = [n EXCEPT ![q] = Queued(n[q], k, b, d)]
            seen == [ssut EXCEPT !.since = now]
        IN  \/ /\ ssut.leg = "over"
               /\ IF kind = "INVITE" THEN Tell(p, "refuse", "none") ELSE net' = n
               /\ UNCHANGED ssut
            \/ /\ ssut.leg # "over" /\ kind = "BYE"
               /\ Tell(o, "BYE", "none")
               /\ ssut' = Over(p)
            \/ /\ ssut.leg # "over" /\ kind = "answer"
               /\ Tell(o, "answer", body)
               /\ ssut' = [seen EXCEPT !.leg = "up"]
            \/ /\ ssut.leg # "over" /\ kind = "INVITE"
               /\ CASE scn.fault = "mute" -> net' = n /\ UNCHANGED ssut
                    [] scn.fault = "swallow" ->
                           /\ Tell(p, "200", "plain")
                           /\ ssut' = [ssut EXCEPT !.accepted = TRUE]
                    [] body = "broken" /\ scn.fault # "tolerate" ->
                           /\ Tell(p, "refuse", "none")
                           /\ ssut' = [ssut EXCEPT !.refused = TRUE]
                    [] OTHER ->
                           /\ Tell(o, "INVITE",
                                   IF scn.fault = "raw" THEN "raw" ELSE body)
                           /\ ssut' = seen
            \/ /\ ssut.leg # "over" /\ kind = "200"
               /\ IF body = "broken" /\ scn.fault # "tolerate"
                  THEN /\ Tell(o, "refuse", "none")
                       /\ ssut' = [ssut EXCEPT !.refused = TRUE]
                  ELSE /\ Tell(o, "200", IF scn.fault = "rawok" THEN "raw" ELSE body)
                       /\ ssut' = [seen EXCEPT !.accepted = TRUE]
            \/ /\ ssut.leg # "over" /\ kind = "refuse"
               /\ Tell(o, "refuse", "none")
               /\ ssut' = [ssut EXCEPT !.refused = TRUE]

HangUpBoth(blame) ==
    /\ ssut.leg = "up"
    /\ ssut' = Over(blame)
    /\ \E d \in Delays :
           net' = [q \in Sides |-> Queued(net[q], "BYE", "none", d)]
    /\ UNCHANGED <<now, scn, side>>

MediaDeadline ==
    IF ssut.leg = "up" /\ scn.sigonly THEN ssut.since + MediaTimeout ELSE Never

SsutTimeout ==
    \/ ssut.ackby # Never /\ now >= ssut.ackby /\ HangUpBoth("ack")
    \/ scn.sigonly /\ now >= MediaDeadline /\ HangUpBoth("media")

\* The SSuT may end a dialog in which a request was refused; a faulty one ends
\* it for no reason.
SsutHangup ==
    \/ ssut.refused /\ HangUpBoth("refusal")
    \/ scn.fault = "hangup" /\ HangUpBoth("fault")

-----------------------------------------------------------------------------
(* What the handlers do to side p, whose record they have changed to s.    *)

\* ua.recvEvent() of an event that makes the user agent send something.
Hand(p, s, n, kind, body, nextua) ==
    IF Left(s)
    THEN /\ side' = [side EXCEPT ![p] = [s EXCEPT !.late = TRUE]]
         /\ net' = n
         /\ UNCHANGED ssut
    ELSE /\ side' = [side EXCEPT ![p] =
                        IF nextua = "ended" THEN Ended(s) ELSE [s EXCEPT !.ua = nextua]]
         /\ SsutFrom(p, n, kind, body)

\* A handler that sends nothing.
Keep(p, s, n) ==
    /\ side' = [side EXCEPT ![p] = s]
    /\ net' = n
    /\ UNCHANGED ssut

\* A mistake: a re-INVITE does not care whether the call is still there.
MayReinvite_Connected(s) == s.connect

\* The guard of reinvite().
MayReinvite(s) == s.connect /\ ~s.disconnect

\* test_reinvite.reinvite(), given the record after the class's own part.
SendReinvite(p, s, body) ==
    IF MayReinvite(s)
    THEN Hand(p, [s EXCEPT !.busy = TRUE], net, "INVITE", body, "updating")
    ELSE Keep(p, s, net)

\* The timers of side p that are due, and p without one of them.
Due(p, cb) == {t \in side[p].timers : t.cb = cb /\ now >= t.at}
Fired(p, t) == [side[p] EXCEPT !.timers = @ \ {t}]

\* The next message to side p is of this kind; n is the network without it.
Arrives(p, kind) ==
    net[p] # <<>> /\ Head(net[p]).kind = kind /\ now >= Head(net[p]).at

Taken(p) == [net EXCEPT ![p] = Tail(@)]

\* A mistake: Alice of reinv_fail inherits what a failed re-INVITE means.
OnFailed_Inherited(p, s) == IF s.busy THEN [s EXCEPT !.nerrs = @ + 2] ELSE s

\* test_reinvite.recvEvent() of a CCEventFail or CCEventDisconnect, or that of
\* a_test_reinv_fail, who has been waiting for it.
OnFailed(p, s) ==
    CASE s.busy /\ p = "alice" /\ scn.cls \in Refused ->
             [s EXCEPT !.busy = FALSE, !.done = TRUE]
      [] s.busy /\ ~(p = "alice" /\ scn.cls \in Refused) ->
             [s EXCEPT !.nerrs = @ + 2]
      [] OTHER -> s

\* A mistake: the interval is read from sched and not taken out of it.
NextHold_NoPop(s) ==
    IF s.sched = <<>> THEN s
    ELSE [s EXCEPT !.timers = @ \cup {Timer(IF s.holds > s.offs THEN "off_hold"
                                            ELSE "reinvite", s.sched[Len(s.sched)])}]

\* on_reinvite_connected() of a_test_reinv_onhold: off hold and on hold again in
\* turns, as long as there are intervals left.
NextHold(s) ==
    IF s.sched = <<>> THEN s
    ELSE [s EXCEPT !.sched = SubSeq(@, 1, Len(@) - 1),
                   !.timers = @ \cup {Timer(IF s.holds > s.offs THEN "off_hold"
                                            ELSE "reinvite", s.sched[Len(s.sched)])}]

\* on_reinvite_connected() of a_test_nated_contact.
CompareRuri(s) == IF s.ruri = "contact" THEN s ELSE [s EXCEPT !.nerrs = @ + 1]

\* on_reinvite_connected()
OnReinviteConnected(p, s) ==
    CASE p = "alice" /\ scn.cls = "reinv_onhold" -> NextHold(s)
      [] p = "alice" /\ scn.cls = "nated_contact" -> CompareRuri(s)
      [] OTHER -> s

-----------------------------------------------------------------------------
(* Timers                                                                  *)

\* A mistake: Bob leaves it to Alice to hang up.
Connect_NoTimer ==
    \E t \in Due("bob", "connect") :
        LET s == Fired("bob", t)
        IN  IF s.connect \/ s.disconnect
            THEN Keep("bob", s, net)
            ELSE Hand("bob", [s EXCEPT !.connect = TRUE], net, "answer", "plain", "up")

\* b_test1.connect()
Connect ==
    \E t \in Due("bob", "connect") :
        LET s == Fired("bob", t)
        IN  IF s.connect \/ s.disconnect
            THEN Keep("bob", s, net)
            ELSE Hand("bob",
                      [s EXCEPT !.connect = TRUE,
                                !.timers = @ \cup {Timer("disconnect",
                                             DisconnectIval("bob", scn.cls))}],
                      net, "answer", "plain", "up")

\* reinvite() of a_test_reinv_onhold, which counts only what it will send.
HoldReinvite(s) ==
    SendReinvite("alice", IF MayReinvite(s) THEN [s EXCEPT !.holds = @ + 1] ELSE s,
                 "hold")

\* reinvite() of a_test_reinv_brkn2: the sections lose their addresses, and only
\* in what is sent.
BrokenReinvite(s) == SendReinvite("alice", s, "broken")

\* reinvite() of a_test_reinv_adelay, who hangs up half way to Bob's answer.
HastyReinvite(s) ==
    SendReinvite("alice",
                 [s EXCEPT !.timers = @ \cup
                     {Timer("disconnect", AnswerDelay("reinv_adelay") \div 2)}],
                 "plain")

\* reinvite() of the class.
Reinvite(p) ==
    \E t \in Due(p, "reinvite") :
        LET s == Fired(p, t)
        IN  CASE scn.cls = "reinv_onhold" -> HoldReinvite(s)
              [] scn.cls = "reinv_brkn2" -> BrokenReinvite(s)
              [] scn.cls = "reinv_adelay" -> HastyReinvite(s)
              [] OTHER -> SendReinvite(p, s, "plain")

\* a_test_reinv_onhold.off_hold()
OffHold ==
    \E t \in Due("alice", "off_hold") :
        SendReinvite("alice", [Fired("alice", t) EXCEPT !.offs = @ + 1], "plain")

\* _process_reinvite() after reinv_answ_delay.
AnswerLate(p) ==
    \E t \in Due(p, "process_reinvite") :
        Hand(p, Fired(p, t), net, "200", "plain", "up")

\* disconnect() of a_test1 and b_test1.
HangUp(p, s) ==
    IF s.disconnect THEN Keep(p, s, net) ELSE Hand(p, s, net, "BYE", "none", "ended")

\* A mistake: Alice of reinv_bad_ack hangs up as the others do.
GiveUpOnAck_Plain(s) == HangUp("alice", s)

\* disconnect() of a_test_reinv_bad_ack, who expects never to get here.
GiveUpOnAck(s) ==
    IF s.disconnect THEN HangUp("alice", s)
    ELSE Keep("alice", [s EXCEPT !.nerrs = @ + 1], net)

\* disconnect() of a_test_reinv_onhold, who comes back every second until she
\* has sent everything.
PollHolds(s) ==
    IF s.disconnect \/ OnHoldOver(s) THEN HangUp("alice", s)
    ELSE Keep("alice", [s EXCEPT !.timers = @ \cup {Timer("disconnect", 100)}], net)

\* disconnect() of the class.
Disconnect(p) ==
    \E t \in Due(p, "disconnect") :
        LET s == Fired(p, t)
        IN  CASE p = "alice" /\ scn.cls = "reinv_bad_ack" -> GiveUpOnAck(s)
              [] p = "alice" /\ scn.cls = "reinv_onhold" -> PollHolds(s)
              [] OTHER -> HangUp(p, s)

-----------------------------------------------------------------------------
(* Messages                                                                *)

\* connected() of the mixin and of a_test1.
Connected ==
    /\ Arrives("alice", "answer")
    /\ LET c == scn.cls
           s == side["alice"]
       IN  IF s.ua = "ringing"
           THEN Keep("alice",
                     [s EXCEPT !.ua = "up", !.connect = TRUE,
                               !.timers = @
                                   \cup {Timer("disconnect", DisconnectIval("alice", c))}
                                   \cup (IF Reinviter(c) = "alice"
                                         THEN {Timer("reinvite", ReinviteIval(c))}
                                         ELSE {})],
                     Taken("alice"))
           ELSE Keep("alice", s, Taken("alice"))

\* recvEvent() of b_test_reinv_onhold.
CountHold(s, body) ==
    IF body = "hold" THEN [s EXCEPT !.holds = @ + 1] ELSE [s EXCEPT !.offs = @ + 1]

\* Alice's user agent in nated_contact is a _ReinviteTrackingUA.
TrackRuri(s) == [s EXCEPT !.ruri = IF scn.fault = "contact" THEN "other" ELSE "contact"]

\* What a side notes of a re-INVITE.  No class compares its SDP with what the
\* SSuT should have made of it.
Noted(p, s, body) ==
    CASE p = "bob" /\ scn.cls = "reinv_onhold" -> CountHold(s, body)
      [] p = "alice" /\ scn.cls = "nated_contact" -> TrackRuri(s)
      [] OTHER -> s

\* recvEvent() of b_test_reinv_fail, 408.
RefuseReinvite(p, s) == Hand(p, s, Taken(p), "refuse", "none", "up")

\* recvEvent() of b_test_reinv_brkn1: the answer has no addresses.
AnswerBroken(p, s) == Hand(p, s, Taken(p), "200", "broken", "up")

\* process_reinvite(), with reinv_answ_delay and without.
ProcessReinvite(p, s) ==
    IF AnswerDelay(scn.cls) > 0
    THEN Keep(p, [s EXCEPT !.ua = "asked", !.timers = @ \cup
                     {Timer("process_reinvite", AnswerDelay(scn.cls))}], Taken(p))
    ELSE Hand(p, s, Taken(p), "200", "plain", "up")

\* recvEvent() of a CCEventUpdate.
ReceiveReinvite(p) ==
    /\ Arrives(p, "INVITE")
    /\ LET s == Noted(p, side[p], Head(net[p]).body)
       IN  CASE Left(side[p]) -> Keep(p, side[p], Taken(p))
             [] ~Left(side[p]) /\ scn.cls = "reinv_fail" -> RefuseReinvite(p, s)
             [] ~Left(side[p]) /\ scn.cls = "reinv_brkn1" -> AnswerBroken(p, s)
             [] OTHER -> ProcessReinvite(p, s)

\* A mistake: Alice of reinv_fail leaves it to reinvite.py.
AnsweredReinvite_Plain(p, s, body) ==
    IF p = "alice" /\ body = "raw"
    THEN [s EXCEPT !.busy = FALSE, !.nerrs = @ + 1]
    ELSE OnReinviteConnected(p, [s EXCEPT !.busy = FALSE, !.done = TRUE])

\* recvEvent() of a CCEventConnect that answers a re-INVITE.  Alice checks the
\* SDP of the answer and Bob does not.
AnsweredReinvite(p, s, body) ==
    CASE p = "alice" /\ scn.cls \in Refused -> [s EXCEPT !.nerrs = @ + 1]
      [] p = "alice" /\ scn.cls \notin Refused /\ body = "raw" ->
             [s EXCEPT !.busy = FALSE, !.nerrs = @ + 1]
      [] OTHER -> OnReinviteConnected(p, [s EXCEPT !.busy = FALSE, !.done = TRUE])

\* The 200 to a re-INVITE.  Alice of reinv_bad_ack then sends an ACK that the
\* SSuT cannot match, and it starts to wait for the right one.
ReceiveOk(p) ==
    /\ Arrives(p, "200")
    /\ net' = Taken(p)
    /\ LET s == side[p]
           wrong == p = "alice" /\ scn.cls = "reinv_bad_ack"
       IN  IF s.ua = "updating"
           THEN /\ side' = [side EXCEPT ![p] = AnsweredReinvite(p, [s EXCEPT !.ua = "up"],
                                                               Head(net[p]).body)]
                /\ ssut' = IF wrong /\ ssut.leg = "up" /\ scn.fault # "tolerate"
                           THEN [ssut EXCEPT !.ackby = now + AckTimeout] ELSE ssut
           ELSE UNCHANGED <<side, ssut>>

ReceiveRefusal(p) ==
    /\ Arrives(p, "refuse")
    /\ Keep(p, IF side[p].ua = "updating"
               THEN OnFailed(p, [side[p] EXCEPT !.ua = "up"]) ELSE side[p],
            Taken(p))

\* A BYE: recvEvent() of the CCEventDisconnect, and disconnected().
ReceiveBye(p) ==
    /\ Arrives(p, "BYE")
    /\ Keep(p, IF Left(side[p]) THEN side[p] ELSE Ended(OnFailed(p, side[p])),
            Taken(p))

-----------------------------------------------------------------------------
\* alldone() of the class, of the mixin and of class test, then done().
VerdictAfter(p, s) ==
    IF s.connect /\ s.disconnect /\ s.nerrs + ReinviteErrs(p, scn.cls, s) = 0
    THEN Success ELSE Failure

Dead(p) ==
    /\ side[p].ua = "ended"
    /\ Keep(p, [side[p] EXCEPT !.ua = "dead", !.verdict = VerdictAfter(p, side[p])], net)

\* The moments at which something has to happen.
Deadlines ==
    (UNION {{t.at : t \in side[p].timers} : p \in Sides})
    \cup {Head(net[p]).at : p \in {q \in Sides : net[q] # <<>>}}
    \cup {side[p].ended + GoDeadTimeout : p \in {q \in Sides : side[q].ua = "ended"}}
    \cup ({ssut.ackby, MediaDeadline} \ {Never})

Tick ==
    /\ \E t \in Deadlines : t > now /\ (\A u \in Deadlines : u >= t) /\ now' = t
    /\ UNCHANGED <<scn, side, ssut, net>>

Init ==
    /\ now = 0
    /\ scn \in Scenarios
    /\ \E sched \in Scheds(scn.cls, Draws) :
           side = [p \in Sides |->
               IF p = "alice" THEN NewSide({}, sched)
               ELSE NewSide({Timer("connect", AnswerIval(scn.cls))}
                            \cup (IF Reinviter(scn.cls) = "bob"
                                  THEN {Timer("reinvite", ReinviteIval(scn.cls) - RingIval)}
                                  ELSE {}), <<>>)]
    /\ ssut = NoSession
    /\ net = [p \in Sides |-> <<>>]

SideStep(p) ==
    /\ \/ Reinvite(p) \/ AnswerLate(p) \/ Disconnect(p)
       \/ ReceiveReinvite(p) \/ ReceiveOk(p) \/ ReceiveRefusal(p) \/ ReceiveBye(p)
       \/ Dead(p)
    /\ UNCHANGED <<now, scn>>

\* What only one side does.
OwnStep == (Connect \/ OffHold \/ Connected) /\ UNCHANGED <<now, scn>>

Progress == (\E p \in Sides : SideStep(p)) \/ OwnStep \/ SsutTimeout \/ Tick

Next == Progress \/ SsutHangup

\* As in Call: what is due happens, and an SSuT that may hang up need not.
Spec == Init /\ [][Next]_vars /\ WF_vars(Progress)

-----------------------------------------------------------------------------
alice == side["alice"]
bob == side["bob"]

Passed(p) == side[p].verdict = Success
BothPass == Passed("alice") /\ Passed("bob")
BothReported == \A p \in Sides : side[p].verdict # Pending

\* What is left of ALICE_TIMEOUT and BOB_TIMEOUT when Bob rings.
TimeLeft == (IF scn.cls \in {"reinv_brkn1", "reinv_brkn2", "reinv_bad_ack"}
             THEN 7500 ELSE 4500) - RingIval

SideType ==
    [ua : {"ringing", "up", "updating", "asked", "ended", "dead"},
     connect : BOOLEAN, disconnect : BOOLEAN, nerrs : 0..4, busy : BOOLEAN,
     done : BOOLEAN, holds : 0..3, offs : 0..5,
     timers : SUBSET [cb : {"connect", "reinvite", "off_hold", "disconnect",
                            "process_reinvite"}, at : Nat],
     sched : Seq(Draws), ended : Nat, ruri : {"none", "contact", "other"},
     late : BOOLEAN, verdict : Verdicts \cup {Pending}]

TypeOK ==
    /\ now \in Nat /\ scn \in Scenarios
    /\ \A p \in Sides : side[p] \in SideType
    /\ ssut.leg \in {"calling", "up", "over"}
    /\ \A p \in Sides : \A i \in DOMAIN net[p] :
           net[p][i].kind \in {"answer", "INVITE", "200", "refuse", "BYE"}

\* A correct SSuT is never blamed, when its messages take less than a second and
\* however the holds were drawn: the re-INVITEs, their refusals, the polling of
\* reinv_onhold and the time-out of the bad ACK all fit between the hang-ups.
\* reinv_adelay is the exception, see DelayedAnswerNeverPasses.
NoFalseAlarm ==
    BothReported /\ scn.fault = "none" /\ scn.cls # "reinv_adelay" => BothPass

\* reinv_adelay.py: Alice hangs up 0.35 s after a re-INVITE that Bob answers
\* after 0.7 s, and the mixin's alldone() wants it answered: the class fails
\* with every SSuT that leaves the answer to Bob, the correct one included.
DelayedAnswerNeverPasses ==
    scn.cls = "reinv_adelay" /\ scn.fault # "swallow" => ~Passed("alice")

\* When both sides of reinv_onhold pass, Bob has been put on hold three times
\* and taken off twice by what Alice sent, each re-INVITE once: the counters of
\* the two sides, which advance in callbacks of their own, agree.
HoldsSeen ==
    scn.cls = "reinv_onhold" /\ BothPass =>
        /\ OnHoldOver(alice) /\ OnHoldOver(bob)
        /\ alice.sched = <<>>

\* An answer to a re-INVITE that should not be as it is makes the pair fail: in
\* the classes that want a refusal any answer, relayed or made up by the SSuT;
\* in the others one to Alice whose SDP was not rewritten.
WrongAnswerNoticed ==
    ssut.accepted =>
        /\ scn.cls \in Refused => ~BothPass
        /\ scn.fault = "rawok" /\ Reinviter(scn.cls) = "alice" => ~Passed("alice")

\* "the call should have been interrupted early": Alice of reinv_bad_ack passes
\* only if someone other than the two tests ended the call, and, as long as
\* media flows, only if the SSuT missed the ACK.
BadAckNoticed ==
    scn.cls = "reinv_bad_ack" /\ Passed("alice") =>
        /\ ssut.blame \notin Sides
        /\ ~scn.sigonly /\ scn.fault # "hangup" => ssut.blame = "ack"

\* No timer and no callback hands an event to a user agent that has left the
\* call: the guards are enough, except for Bob's late answer of reinv_adelay.
NothingToTheDead ==
    scn.cls # "reinv_adelay" => \A p \in Sides : ~side[p].late

\* Both sides report before the timers of their processes go off.
InTime == now > TimeLeft => BothReported

\* Every call comes to an end and both sides report, also when the SSuT ignores
\* the re-INVITE: reinv_onhold then polls until Bob hangs up.
EventuallyReported == <>BothReported

-----------------------------------------------------------------------------
(* Claims of the repository that the code does not keep.                   *)

\* nated_contact.py: "NATed Contact preserved on re-INVITE".
ContactVerified ==
    scn.cls = "nated_contact" /\ Passed("alice") => alice.ruri # "other"

\* README.md: "Both Alice and Bob also check that the SSuT rewrites the SDP
\* correctly in all relevant INVITEs".
RawOfferNoticed == scn.fault = "raw" => ~BothPass
=============================================================================
