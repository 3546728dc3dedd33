-------------------------------- MODULE Call --------------------------------
(***************************************************************************)
(* One call: a subtest of Alice's (class a_test1 and its relatives in      *)
(* test_cases/), the subtest it makes Bob create (b_test1 and relatives),  *)
(* and the system under test (SSuT) between them.                          *)
(*                                                                         *)
(* The two test applications are modelled from their source.  Their user   *)
(* agents (sippy.UA) and the SSuT with its RTPproxy are external: a user   *)
(* agent is modelled by the callbacks it makes and the events it accepts,  *)
(* the SSuT as a back-to-back agent that relays each message, rewrites its *)
(* SDP and ends a session whose media has been silent for too long.  Two   *)
(* faults may be switched on, so that one can ask what the pair of tests   *)
(* notices.                                                                *)
(*                                                                         *)
(* Time is counted in seconds.  Timers are exact; a message is delivered   *)
(* at most MaxDelay after it was sent, in order within its direction.      *)
(***************************************************************************)
EXTENDS Scenario, Sequences

CONSTANTS
    Scenarios,   \* which [cls, sigonly, mightfail] may be run
    Faults,      \* subset of {"hangup", "norewrite"}: how the SSuT may err
    HalfTimeout, \* rtpproxy -W: silence allowed to a session half set up
    FullTimeout, \* rtpproxy -T: the same once both sides have given SDP
    MaxDelay,    \* the longest a message takes
    Horizon      \* the time at which the model stops its clock

\* A mistake: the time-out of a user agent is left as long as a transaction's.
GoDeadTimeout_Long == 32

\* class test: a user agent reports its death at most this long after it ended.
GoDeadTimeout == 10

\* No timer, no moment.
Never == Horizon + 1000

\* The verdict of a subtest that has not reported.
Pending == 2

ASSUME CallAssumption ==
    /\ Scenarios \subseteq [cls : Classes, sigonly : BOOLEAN, mightfail : BOOLEAN]
    /\ Faults \subseteq {"hangup", "norewrite"}
    /\ {HalfTimeout, FullTimeout, Horizon} \subseteq Nat \ {0}
    /\ MaxDelay \in Nat

VARIABLES
    now,      \* the clock
    scn,      \* the scenario of this call and the intervals drawn for it
    alice,    \* Alice's subtest and the state of her user agent
    bob,      \* Bob's
    ssut,     \* the SSuT's session
    toAlice,  \* messages on their way to Alice
    toBob     \* messages on their way to Bob

vars == <<now, scn, alice, bob, ssut, toAlice, toBob>>

-----------------------------------------------------------------------------
(* class test: the flags a subtest keeps, its user agent ("idle"; "calling" *)
(* before the final answer; "up"; "ended"; "dead"; "stranded" if answer()   *)
(* raised before there was one), its pending timer, the moment it ended,    *)
(* whether Bob's user agent has sent a final answer, and the verdict that   *)
(* was reported through done().                                             *)

NewSubtest(ua) ==
    [ua |-> ua, flags |-> [ring |-> FALSE, connect |-> FALSE,
                           disconnect |-> FALSE, nerrs |-> 0],
     timer |-> "none", at |-> Never, ended |-> Never, answered |-> FALSE,
     verdict |-> Pending]

\* Timeout(cb, ival, 1, ua).  The timers of a side come one after the other.
Arm(side, cb, ival) == [side EXCEPT !.timer = cb, !.at = now + ival]

Fired(side) == [side EXCEPT !.timer = "none", !.at = Never]

Due(side, cb) == side.timer = cb /\ now >= side.at

\* The user agent leaves the call and calls disconnected().  The origin is one
\* that sets disconnect_done: "switch" when this side ended the call, "callee"
\* (at Alice) or "caller" (at Bob) when the other side did.
Ended(side) ==
    [side EXCEPT !.ua = "ended", !.ended = now, !.flags.disconnect = TRUE]

\* The dead callback: alldone() and done().
Reported(side, content) ==
    [side EXCEPT !.ua = "dead", !.verdict = VerdictOf(content)]

Alive(side) == side.ua \in {"calling", "up"}

Msg(kind, sdp) == [kind |-> kind, sdp |-> sdp, sent |-> now]

-----------------------------------------------------------------------------
(* The SSuT.  leg: "idle" until the INVITE is relayed, "calling", "up",    *)
(* "over"; media: "none", "half", "full"; since: the last refresh of the   *)
(* session; gaveUp: the leg in which the faulty SSuT dropped the call;     *)
(* forgot: it has relayed an SDP without rewriting it.                     *)

NoSession == [leg |-> "idle", media |-> "none", since |-> 0,
              gaveUp |-> "no", forgot |-> FALSE]

Over(s) == [s EXCEPT !.leg = "over", !.media = "none"]

\* What becomes of an SDP: the RTPproxy puts its own address and port in, a
\* faulty SSuT forgets to.
Rewritten(sdp) ==
    IF sdp = "none" THEN {"none"}
    ELSE {"good"} \cup (IF "norewrite" \in Faults THEN {"bad"} ELSE {})

\* Alice's INVITE is relayed and RTPproxy has half a session.
SsutInvite ==
    /\ ssut.leg = "idle"
    /\ \E sdp \in Rewritten("good") :
           /\ toBob' = Append(toBob, Msg("INVITE", sdp))
           /\ ssut' = [ssut EXCEPT !.leg = "calling", !.media = "half",
                                   !.since = now, !.forgot = sdp = "bad"]
    /\ UNCHANGED <<now, scn, alice, bob, toAlice>>

\* The SSuT ends the call towards both sides; a leg that is not up gets a
\* failure or a CANCEL, one that is up a BYE.
HangUpBoth(blame) ==
    /\ ssut' = [Over(ssut) EXCEPT !.gaveUp = blame]
    /\ toAlice' = Append(toAlice, Msg("end", "none"))
    /\ toBob' = CASE ssut.leg = "idle" -> toBob
                  [] ssut.leg = "calling" -> Append(toBob, Msg("CANCEL", "none"))
                  [] OTHER -> Append(toBob, Msg("BYE", "none"))

\* What the SSuT does with what Bob sends.  An answer that comes when the call
\* is gone at the other side is answered with a BYE.
SsutFromBob(kind, sdp) ==
    \/ /\ ssut.leg = "over"
       /\ toBob' = IF kind = "200" THEN Append(toBob, Msg("BYE", "none")) ELSE toBob
       /\ UNCHANGED <<ssut, toAlice>>
    \/ /\ ssut.leg # "over"
       /\ kind \in {"BYE", "reject"}
       /\ ssut' = Over(ssut)
       /\ toAlice' = Append(toAlice, Msg("end", "none"))
       /\ UNCHANGED toBob
    \/ /\ ssut.leg # "over"
       /\ sdp = "crippled"
       /\ HangUpBoth("no")
    \/ /\ ssut.leg # "over"
       /\ kind \in {"180", "183", "200"}
       /\ sdp = "crippled" => "norewrite" \in Faults
       /\ \E s \in Rewritten(sdp) :
              /\ toAlice' = Append(toAlice, Msg(kind, s))
              /\ ssut' = [ssut EXCEPT
                            !.leg    = IF kind = "200" THEN "up" ELSE @,
                            !.media  = IF sdp = "none" THEN @ ELSE "full",
                            !.since  = IF sdp = "none" THEN @ ELSE now,
                            !.forgot = @ \/ s = "bad"]
       /\ UNCHANGED toBob

\* What the SSuT does with Alice's BYE.
SsutFromAlice ==
    IF ssut.leg = "up"
    THEN /\ ssut' = Over(ssut)
         /\ toBob' = Append(toBob, Msg("BYE", "none"))
    ELSE UNCHANGED <<ssut, toBob>>

\* RTP keeps a session alive once each side knows where to send it.
MediaDeadline ==
    CASE ssut.media = "half" -> ssut.since + HalfTimeout
      [] ssut.media = "full" /\ ~HasMedia(scn.cls, scn.sigonly) ->
             ssut.since + FullTimeout
      [] OTHER -> Never

SsutTimeout ==
    /\ now >= MediaDeadline
    /\ HangUpBoth("no")
    /\ UNCHANGED <<now, scn, alice, bob>>

\* The fault: the SSuT refuses the INVITE, or drops the call for no reason.
SsutHangup ==
    /\ "hangup" \in Faults
    /\ ssut.leg # "over"
    /\ HangUpBoth(ssut.leg)
    /\ UNCHANGED <<now, scn, alice, bob>>

-----------------------------------------------------------------------------
(* Bob                                                                     *)

ReceiveBob(kind) ==
    /\ toBob # <<>>
    /\ Head(toBob).kind = kind

\* b_test1.answer(), called by recvRequest(): an SDP that was not rewritten
\* makes it raise, and the subtest never gets a user agent.
BobAnswer ==
    /\ ReceiveBob("INVITE")
    /\ bob' = IF Head(toBob).sdp = "bad"
              THEN [bob EXCEPT !.ua = "stranded", !.flags.nerrs = @ + 1]
              ELSE Arm([bob EXCEPT !.ua = "calling"], "ring", RingIval(scn.cls))
    /\ toBob' = Tail(toBob)
    /\ UNCHANGED <<now, scn, alice, ssut, toAlice>>

\* ring(): rings, with or without SDP, or rejects the call outright.
BobRing ==
    /\ Due(bob, "ring")
    /\ LET c == scn.cls
           quiet == bob.flags.connect \/ bob.flags.disconnect
           rung == [Fired(bob) EXCEPT !.flags.ring = TRUE]
       IN  \/ /\ quiet
              /\ bob' = Fired(bob)
              /\ UNCHANGED <<ssut, toAlice, toBob>>
           \/ /\ ~quiet /\ RingKind(c) = "reject"
              /\ bob' = [Ended(rung) EXCEPT !.flags.connect = TRUE,
                                           !.answered = TRUE]
              /\ SsutFromBob("reject", "none")
           \/ /\ ~quiet /\ RingKind(c) # "reject"
              /\ bob' = Arm(rung, "connect", scn.answer)
              /\ CASE RingKind(c) = "180" -> SsutFromBob("180", "none")
                   [] RingKind(c) = "183" -> SsutFromBob("183", "good")
                   [] RingKind(c) = "crippled" -> SsutFromBob("183", "crippled")
    /\ UNCHANGED <<now, scn, alice>>

\* connect(): answers or rejects.  A user agent that has ended ignores the
\* event, the subtest sets its flag all the same.
BobConnect ==
    /\ Due(bob, "connect")
    /\ LET c == scn.cls
           done == [Fired(bob) EXCEPT !.flags.connect = TRUE]
       IN  \/ /\ ~ConnectGuard(c, bob.flags)
              /\ bob' = Fired(bob)
              /\ UNCHANGED <<ssut, toAlice, toBob>>
           \/ /\ ConnectGuard(c, bob.flags) /\ ConnectRejects(c)
              /\ IF Alive(bob)
                 THEN /\ bob' = [Ended(done) EXCEPT !.answered = TRUE]
                      /\ SsutFromBob("reject", "none")
                 ELSE bob' = done /\ UNCHANGED <<ssut, toAlice, toBob>>
           \/ /\ ConnectGuard(c, bob.flags) /\ ~ConnectRejects(c)
              /\ bob' = Arm([done EXCEPT !.ua = "up", !.answered = TRUE],
                             "disconnect", scn.hang)
              /\ SsutFromBob("200", "good")
    /\ UNCHANGED <<now, scn, alice>>

\* b_test1.disconnect()
BobDisconnect ==
    /\ Due(bob, "disconnect")
    /\ IF bob.flags.disconnect
       THEN bob' = Fired(bob) /\ UNCHANGED <<ssut, toAlice, toBob>>
       ELSE bob' = Ended(Fired(bob)) /\ SsutFromBob("BYE", "none")
    /\ UNCHANGED <<now, scn, alice>>

\* A CANCEL before the final answer or a BYE after it ends the user agent; a
\* CANCEL that crossed with the answer does nothing, the BYE will follow it.
BobHungUp ==
    /\ \E kind \in {"CANCEL", "BYE"} :
           /\ ReceiveBob(kind)
           /\ bob' = IF bob.ua = (IF kind = "BYE" THEN "up" ELSE "calling")
                     THEN Ended(bob) ELSE bob
    /\ toBob' = Tail(toBob)
    /\ UNCHANGED <<now, scn, alice, ssut, toAlice>>

BobDead ==
    /\ bob.ua = "ended"
    /\ bob' = Reported(bob, BobContent(scn.cls, bob.flags, scn.mightfail))
    /\ UNCHANGED <<now, scn, alice, ssut, toAlice, toBob>>

-----------------------------------------------------------------------------
(* Alice                                                                   *)

\* A mistake: only the SDP of the answer is looked at.
Errs_AnswerOnly(m) ==
    IF (m.sdp = "bad" /\ m.kind = "200") \/ ExpectsNoProgress(scn.cls)
    THEN 1 ELSE 0

\* What a_test1.recvEvent() makes of a ring or an answer: an error, if its SDP
\* was not rewritten or if the class expects none.
Errs(m) ==
    IF m.sdp = "bad" \/ ExpectsNoProgress(scn.cls) THEN 1 ELSE 0

\* A 100 of the SSuT's, of which any may be lost.  It is a CCEventRing as well, and
\* no class counts it as progress.
AliceTrying ==
    /\ ssut.leg # "idle"
    /\ alice.ua = "calling" /\ ~alice.flags.ring
    /\ alice' = [alice EXCEPT !.flags.ring = TRUE]
    /\ UNCHANGED <<now, scn, bob, ssut, toAlice, toBob>>

\* A 180 or a 183.  A user agent that has ended drops it.
AliceRings ==
    /\ toAlice # <<>>
    /\ Head(toAlice).kind \in {"180", "183"}
    /\ alice' = IF alice.ua = "calling"
                THEN [alice EXCEPT
                        !.flags.ring  = @ \/ ~ExpectsNoProgress(scn.cls),
                        !.flags.nerrs = @ + Errs(Head(toAlice))]
                ELSE alice
    /\ toAlice' = Tail(toAlice)
    /\ UNCHANGED <<now, scn, bob, ssut, toBob>>

\* The answer: connected(), then recvEvent().
AliceConnected ==
    /\ toAlice # <<>>
    /\ Head(toAlice).kind = "200"
    /\ alice' = IF alice.ua = "calling"
                THEN Arm([alice EXCEPT
                            !.ua = "up",
                            !.flags.connect = TRUE,
                            !.flags.nerrs = @ + Errs(Head(toAlice))],
                         "disconnect", AliceDisconnectIval(scn.cls))
                ELSE alice
    /\ toAlice' = Tail(toAlice)
    /\ UNCHANGED <<now, scn, bob, ssut, toBob>>

\* A mistake: the failure callbacks are not set, so a rejection is missed.
AliceHungUp_NoFailCbs ==
    /\ toAlice # <<>>
    /\ Head(toAlice).kind = "end"
    /\ alice' = IF alice.ua = "up" THEN Ended(alice) ELSE alice
    /\ toAlice' = Tail(toAlice)
    /\ UNCHANGED <<now, scn, bob, ssut, toBob>>

\* A rejection or a BYE.
AliceHungUp ==
    /\ toAlice # <<>>
    /\ Head(toAlice).kind = "end"
    /\ alice' = IF Alive(alice)
                THEN [Ended(alice) EXCEPT !.flags.nerrs =
                        IF ExpectsNoProgress(scn.cls) /\ alice.flags.connect
                        THEN @ + 1 ELSE @]
                ELSE alice
    /\ toAlice' = Tail(toAlice)
    /\ UNCHANGED <<now, scn, bob, ssut, toBob>>

\* a_test1.disconnect()
AliceDisconnect ==
    /\ Due(alice, "disconnect")
    /\ IF alice.flags.disconnect
       THEN alice' = Fired(alice) /\ UNCHANGED <<ssut, toBob>>
       ELSE alice' = Ended(Fired(alice)) /\ SsutFromAlice
    /\ UNCHANGED <<now, scn, bob, toAlice>>

AliceDead ==
    /\ alice.ua = "ended"
    /\ alice' = Reported(alice, AliceContent(scn.cls, alice.flags, scn.mightfail))
    /\ UNCHANGED <<now, scn, bob, ssut, toAlice, toBob>>

-----------------------------------------------------------------------------
\* Time passes when nothing is due: no timer, no message as old as MaxDelay, no
\* media time-out, no user agent whose time is up.
Tick ==
    /\ now < Horizon
    /\ \A side \in {alice, bob} :
           /\ side.timer # "none" => now < side.at
           /\ side.ua = "ended" => now < side.ended + GoDeadTimeout
    /\ \A queue \in {toAlice, toBob} :
           queue # <<>> => now < Head(queue).sent + MaxDelay
    /\ ssut.leg = "idle" => now < MaxDelay
    /\ now < MediaDeadline
    /\ now' = now + 1
    /\ UNCHANGED <<scn, alice, bob, ssut, toAlice, toBob>>

Init ==
    /\ now = 0
    /\ \E s \in Scenarios :
           \E answer \in AnswerIval(s.cls), hang \in BobDisconnectIval(s.cls) :
               scn = [cls |-> s.cls, sigonly |-> s.sigonly,
                      mightfail |-> s.mightfail,
                      answer |-> answer, hang |-> hang]
    /\ alice = NewSubtest("calling")
    /\ bob = NewSubtest("idle")
    /\ ssut = NoSession
    /\ toAlice = <<>>
    /\ toBob = <<>>

AliceStep ==
    AliceRings \/ AliceConnected \/ AliceHungUp \/ AliceDisconnect \/ AliceDead

BobStep ==
    \/ BobAnswer \/ BobRing \/ BobConnect \/ BobDisconnect
    \/ BobHungUp \/ BobDead

\* Everything that happens by itself.
Progress == AliceStep \/ BobStep \/ SsutInvite \/ SsutTimeout \/ Tick

Next == Progress \/ AliceTrying \/ SsutHangup

\* The dispatcher delivers what is due, the network what was sent, and time
\* does not stop.  No 100 need come, and a faulty SSuT need never act.
Spec == Init /\ [][Next]_vars /\ WF_vars(Progress)

-----------------------------------------------------------------------------
Sides == {alice, bob}

BothReported == \A side \in Sides : side.verdict # Pending

BothPass == \A side \in Sides : side.verdict = Success

\* The classes in which Bob gives a final answer.
Answering == Classes \ {"11", "12", "13", "inv_brkn1"}

\* ALICE_TIMEOUT and BOB_TIMEOUT of the script functions: BASIC_TIMEOUT for the
\* classes every SSuT runs, NO_MEDIA_TIMEOUT where the others are run.
TestTimeout(c) == IF c \in {"11", "12", "13", "14", "inv_brkn1"} THEN 75 ELSE 45

SubtestType ==
    [ua : {"idle", "calling", "up", "ended", "dead", "stranded"},
     flags : [ring : BOOLEAN, connect : BOOLEAN, disconnect : BOOLEAN, nerrs : 0..3],
     timer : {"none", "ring", "connect", "disconnect"},
     at : 0..Never, ended : 0..Never, answered : BOOLEAN,
     verdict : Verdicts \cup {Pending}]

SessionType ==
    [leg : {"idle", "calling", "up", "over"}, media : {"none", "half", "full"},
     since : 0..Horizon, gaveUp : {"no", "idle", "calling", "up"},
     forgot : BOOLEAN]

TypeOK ==
    /\ now \in 0..Horizon
    /\ scn.cls \in Classes
    /\ alice \in SubtestType /\ bob \in SubtestType
    /\ ssut \in SessionType
    /\ \A i \in DOMAIN toAlice : toAlice[i].kind \in {"180", "183", "200", "end"}
    /\ \A i \in DOMAIN toBob : toBob[i].kind \in {"INVITE", "CANCEL", "BYE"}

\* A correct SSuT is never blamed: whatever intervals are drawn and however the
\* hang-ups of the two sides cross, both subtests of every class report success.
NoFalseAlarm == BothReported => BothPass

\* No subtest outlives the timer of the process it runs in: the sum of the
\* intervals of a class and of the user agent's last 10 s fits in the time-outs
\* of the script functions.
InTime == now > TestTimeout(scn.cls) => BothReported

\* The media time-outs strike when t11.py .. t13.py say they do: 30 s after the
\* offer of a call that is half set up, and 45 s after the 183 at 1.0 s for t13,
\* which is "around 46.0".
MediaTimeoutsOnTime ==
    LET moment == CASE scn.cls \in {"11", "12"} -> HalfTimeout
                    [] scn.cls = "13" -> RingIval("13") + FullTimeout
                    [] OTHER -> Never
    IN  moment # Never =>
            \A side \in Sides : side.ended # Never =>
                side.ended \in moment .. moment + 3 * MaxDelay

\* A verdict stands: the flags it was drawn from are not touched by a timer or a
\* message that comes after the report.
VerdictStands ==
    /\ alice.verdict # Pending => alice.verdict =
           VerdictOf(AliceContent(scn.cls, alice.flags, scn.mightfail))
    /\ bob.verdict # Pending => bob.verdict =
           VerdictOf(BobContent(scn.cls, bob.flags, scn.mightfail))

\* When both sides pass, Bob has given the final answer of the scenario: an SSuT
\* that abandons a call before that, while Bob rings for instance, is noticed by
\* one side at least.
PassMeansAnswered ==
    BothPass /\ ~scn.mightfail /\ scn.cls \in Answering => bob.answered

\* "Both Alice and Bob also check that the SSuT rewrites the SDP correctly": an
\* SDP relayed as it was makes one side fail, in whichever message it was, unless
\* the faulty SSuT has dropped that call as well, maybe before the SDP arrived.
RewriteChecked ==
    ssut.forgot /\ ssut.gaveUp = "no" /\ ~scn.mightfail => ~BothPass

\* Every call comes to an end and both sides report, whatever the draws.
EventuallyReported == <>BothReported

-----------------------------------------------------------------------------
(* Claims of the documentation that the code does not keep.                *)

\* README.md: "Bob either answers or rejects the specific session ... and Alice
\* verifies that the particular scenario has completed in the expected way".
AliceVerifiesScenario ==
    alice.verdict = Success /\ ~scn.mightfail /\ scn.cls \in Answering
        => bob.answered
=============================================================================
