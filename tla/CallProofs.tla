----------------------------- MODULE CallProofs -----------------------------
(***************************************************************************)
(* What the verdicts of a call are worth: for every set of scenarios whose *)
(* connect() has the right guard, every draw, delay, time-out and fault,   *)
(* what a subtest has reported is still justified by its flags afterwards, *)
(* a pair that passes has had its answer, and no SDP that the SSuT forgot  *)
(* to rewrite is overlooked.  And that a correct SSuT is never blamed, for *)
(* every set of scenarios.                                                 *)
(***************************************************************************)
EXTENDS Call, TLAPS, SequenceTheorems

\* The classes t3 and its compact twin t8 are left out: their connect() changes
\* a flag of a call that is over.
GuardsAreRight == \A s \in Scenarios : s.cls \notin {"3", "8"}

-----------------------------------------------------------------------------
(* Shapes                                                                  *)

Timers == {"none", "ring", "connect", "disconnect"}
Agents == {"idle", "calling", "up", "ended", "dead", "stranded"}
Flags == [ring : BOOLEAN, connect : BOOLEAN, disconnect : BOOLEAN, nerrs : Nat]

SideShape ==
    [ua : Agents, flags : Flags, timer : Timers, at : Int, ended : Int,
     answered : BOOLEAN, verdict : {Success, Failure, Pending}]

ScnShape ==
    [cls : Classes, sigonly : BOOLEAN, mightfail : BOOLEAN,
     answer : Int, hang : Int]

SsutShape ==
    [leg : {"idle", "calling", "up", "over"}, media : {"none", "half", "full"},
     since : Int, gaveUp : {"no", "idle", "calling", "up", "over"},
     forgot : BOOLEAN]

MsgShape ==
    [kind : {"INVITE", "CANCEL", "BYE"}, sdp : {"none", "good", "bad"},
     sent : Int]

Shape ==
    /\ now \in Nat
    /\ scn \in ScnShape /\ scn.cls \notin {"3", "8"}
    /\ alice \in SideShape /\ bob \in SideShape
    /\ ssut \in SsutShape
    /\ toBob \in Seq(MsgShape)

\* Arming and dropping a timer touch nothing else.
LEMMA TimerShape ==
    ASSUME NEW side \in SideShape, NEW cb \in Timers, NEW ival \in Int,
           now \in Nat
    PROVE  /\ Arm(side, cb, ival) \in SideShape
           /\ Arm(side, cb, ival).ua = side.ua
           /\ Arm(side, cb, ival).flags = side.flags
           /\ Arm(side, cb, ival).timer = cb
           /\ Arm(side, cb, ival).verdict = side.verdict
           /\ Fired(side) \in SideShape
           /\ Fired(side).ua = side.ua
           /\ Fired(side).flags = side.flags
           /\ Fired(side).timer = "none"
           /\ Fired(side).verdict = side.verdict
<1>1. now + ival \in Int /\ Never \in Int
  BY CallAssumption DEF Never
<1>2. "none" \in Timers
  BY DEF Timers
<1>3. \A cb2 \in Timers, at2 \in Int :
        LET x == [side EXCEPT !.timer = cb2, !.at = at2]
        IN  /\ x \in SideShape
            /\ x.ua = side.ua /\ x.flags = side.flags
            /\ x.timer = cb2 /\ x.verdict = side.verdict
  BY DEF SideShape
<1>4. QED
  BY <1>1, <1>2, <1>3 DEF Arm, Fired

\* A side that ends has disconnect_done, and its other flags as before.
LEMMA EndedShape ==
    ASSUME NEW side \in SideShape, now \in Nat
    PROVE  /\ Ended(side) \in SideShape
           /\ Ended(side).ua = "ended"
           /\ Ended(side).flags.disconnect
           /\ Ended(side).timer = side.timer
           /\ Ended(side).verdict = side.verdict
<1>1. [side.flags EXCEPT !.disconnect = TRUE] \in Flags
  BY DEF SideShape, Flags
<1>2. [side.flags EXCEPT !.disconnect = TRUE].disconnect = TRUE
  BY DEF SideShape, Flags
<1>3. Ended(side) = [side EXCEPT !.ua = "ended", !.ended = now,
                     !.flags = [side.flags EXCEPT !.disconnect = TRUE]]
  BY DEF SideShape, Ended
<1>4. now \in Int /\ "ended" \in Agents
  BY DEF Agents
<1>5. QED
  BY <1>1, <1>2, <1>3, <1>4 DEF SideShape

\* A report changes the user agent and the verdict only.
LEMMA ReportedShape ==
    ASSUME NEW side \in SideShape, NEW content \in BOOLEAN
    PROVE  /\ Reported(side, content) \in SideShape
           /\ Reported(side, content).ua = "dead"
           /\ Reported(side, content).flags = side.flags
           /\ Reported(side, content).timer = side.timer
           /\ Reported(side, content).verdict = VerdictOf(content)
<1>1. VerdictOf(content) \in {Success, Failure, Pending}
  BY DEF VerdictOf
<1>2. "dead" \in Agents
  BY DEF Agents
<1>3. QED
  BY <1>1, <1>2 DEF SideShape, Reported

-----------------------------------------------------------------------------
(* The inductive invariant                                                 *)

\* A side that has ended cannot be brought back, and has reported what its
\* flags justify if and only if it is dead.
Truthful(side, content) ==
    /\ side.ua \in {"ended", "dead"} => side.flags.disconnect
    /\ IF side.ua = "dead" THEN side.verdict = VerdictOf(content)
                           ELSE side.verdict = Pending

AliceTruthful ==
    Truthful(alice, AliceContent(scn.cls, alice.flags, scn.mightfail))

BobTruthful ==
    Truthful(bob, BobContent(scn.cls, bob.flags, scn.mightfail))

\* Bob acts only on a call he has been offered.
IdleBobWaits == bob.ua = "idle" => bob.timer = "none"

\* Nothing was offered before the INVITE.
NothingOffered == ssut.leg = "idle" => bob.ua = "idle" /\ toBob = <<>>

\* There is one INVITE, it comes before everything else, and Bob's subtest has
\* not begun when it comes.
InviteFirst ==
    \A i \in 1..Len(toBob) :
        toBob[i].kind = "INVITE" => i = 1 /\ bob.ua = "idle"

IInv ==
    /\ Shape
    /\ AliceTruthful
    /\ BobTruthful
    /\ IdleBobWaits
    /\ NothingOffered
    /\ InviteFirst

\* alldone() is a question with an answer.
LEMMA ContentIsBoolean ==
    ASSUME NEW c, NEW flags \in Flags, NEW mightfail \in BOOLEAN
    PROVE  /\ AliceContent(c, flags, mightfail) \in BOOLEAN
           /\ BobContent(c, flags, mightfail) \in BOOLEAN
BY DEF Flags, AliceContent, BobContent, Completed, OverCleanly, CutOff,
       RangThenCutOff, CutOffBeforeRing

\* A message appended behind the others is not an INVITE.
LEMMA AppendedBehind ==
    ASSUME NEW q \in Seq(MsgShape), NEW m \in MsgShape, m.kind # "INVITE"
    PROVE  /\ Append(q, m) \in Seq(MsgShape)
           /\ \A i \in 1..Len(Append(q, m)) :
                  Append(q, m)[i].kind = "INVITE" =>
                      i \in 1..Len(q) /\ q[i].kind = "INVITE"
OBVIOUS

\* What is left of a queue once its head is delivered.
LEMMA Delivered ==
    ASSUME NEW q \in Seq(MsgShape), q # <<>>
    PROVE  /\ Tail(q) \in Seq(MsgShape)
           /\ \A i \in 1..Len(Tail(q)) :
                  i + 1 \in 1..Len(q) /\ Tail(q)[i] = q[i + 1]
           /\ 1 \in 1..Len(q) /\ Head(q) = q[1] /\ Head(q) \in MsgShape
OBVIOUS

\* What the SSuT sends to end a call is not an INVITE.
LEMMA EndIsNoInvite ==
    ASSUME now \in Nat
    PROVE  /\ Msg("CANCEL", "none") \in MsgShape
           /\ Msg("CANCEL", "none").kind # "INVITE"
           /\ Msg("BYE", "none") \in MsgShape
           /\ Msg("BYE", "none").kind # "INVITE"
<1>1. now \in Int
  OBVIOUS
<1>2. QED
  BY <1>1 DEF Msg, MsgShape

\* What a step of the SSuT may do: the queue to Bob gets no INVITE, and a
\* session that has begun does not go back to the beginning.
Relays ==
    /\ ssut' \in SsutShape
    /\ toBob' \in Seq(MsgShape)
    /\ ssut'.leg = "idle" => ssut.leg = "idle" /\ toBob' = toBob
    /\ \A i \in 1..Len(toBob') :
           toBob'[i].kind = "INVITE" =>
               i \in 1..Len(toBob) /\ toBob[i].kind = "INVITE"

\* A session that is over keeps its shape and does not begin again.
LEMMA OverShape ==
    ASSUME NEW s \in SsutShape,
           NEW blame \in {"no", "idle", "calling", "up", "over"}
    PROVE  /\ Over(s) \in SsutShape
           /\ Over(s).leg = "over"
           /\ [Over(s) EXCEPT !.gaveUp = blame] \in SsutShape
           /\ [Over(s) EXCEPT !.gaveUp = blame].leg = "over"
BY DEF Over, SsutShape

\* Ending the call towards both sides sends Bob no INVITE.
LEMMA HangUpRelays ==
    ASSUME Shape, NEW blame \in {"no", "idle", "calling", "up", "over"},
           HangUpBoth(blame)
    PROVE  Relays
<1>1. ssut' \in SsutShape /\ ssut'.leg = "over"
  BY OverShape DEF Shape, HangUpBoth
<1>2. /\ Msg("CANCEL", "none") \in MsgShape
      /\ Msg("CANCEL", "none").kind # "INVITE"
      /\ Msg("BYE", "none") \in MsgShape
      /\ Msg("BYE", "none").kind # "INVITE"
  BY EndIsNoInvite DEF Shape
<1>3. \/ toBob' = toBob
      \/ toBob' = Append(toBob, Msg("CANCEL", "none"))
      \/ toBob' = Append(toBob, Msg("BYE", "none"))
  BY DEF HangUpBoth
<1>4. QED
  BY <1>1, <1>2, <1>3, AppendedBehind DEF Relays, Shape

\* Nor does anything the SSuT makes of a message of his.
LEMMA FromBobRelays ==
    ASSUME Shape, NEW kind, NEW sdp, SsutFromBob(kind, sdp)
    PROVE  Relays
<1> USE DEF Shape
<1>1. /\ Msg("BYE", "none") \in MsgShape
      /\ Msg("BYE", "none").kind # "INVITE"
  BY EndIsNoInvite
<1>2. CASE /\ ssut.leg = "over"
           /\ toBob' \in {toBob, Append(toBob, Msg("BYE", "none"))}
           /\ UNCHANGED ssut
  BY <1>1, <1>2, AppendedBehind DEF Relays
<1>3. CASE ssut' = Over(ssut) /\ UNCHANGED toBob
  BY <1>3, OverShape DEF Relays
<1>4. CASE HangUpBoth("no")
  BY <1>4, HangUpRelays
<1>5. ASSUME NEW leg \in {ssut.leg, "up"},
             NEW media \in {"none", "half", "full"}, NEW since \in Int,
             NEW forgot \in BOOLEAN,
             ssut' = [ssut EXCEPT !.leg = leg, !.media = media,
                                  !.since = since, !.forgot = forgot],
             UNCHANGED toBob
      PROVE  Relays
  BY <1>5 DEF Relays, SsutShape
<1>6. CASE /\ \E s \in Rewritten(sdp) :
                  ssut' = [ssut EXCEPT
                            !.leg    = IF kind = "200" THEN "up" ELSE @,
                            !.media  = IF sdp = "none" THEN @ ELSE "full",
                            !.since  = IF sdp = "none" THEN @ ELSE now,
                            !.forgot = @ \/ s = "bad"]
           /\ UNCHANGED toBob
  <2>1. PICK s \in Rewritten(sdp) :
            ssut' = [ssut EXCEPT
                      !.leg    = IF kind = "200" THEN "up" ELSE ssut.leg,
                      !.media  = IF sdp = "none" THEN ssut.media ELSE "full",
                      !.since  = IF sdp = "none" THEN ssut.since ELSE now,
                      !.forgot = ssut.forgot \/ s = "bad"]
    BY <1>6 DEF SsutShape
  <2> DEFINE leg2 == IF kind = "200" THEN "up" ELSE ssut.leg
             media2 == IF sdp = "none" THEN ssut.media ELSE "full"
             since2 == IF sdp = "none" THEN ssut.since ELSE now
             forgot2 == ssut.forgot \/ s = "bad"
  <2>2. /\ leg2 \in {ssut.leg, "up"} /\ media2 \in {"none", "half", "full"}
        /\ since2 \in Int /\ forgot2 \in BOOLEAN
    BY DEF SsutShape
  <2>3. ssut' = [ssut EXCEPT !.leg = leg2, !.media = media2,
                             !.since = since2, !.forgot = forgot2]
    BY <2>1
  <2> HIDE DEF leg2, media2, since2, forgot2
  <2>4. QED
    BY <2>2, <2>3, <1>5, <1>6
<1>7. QED
  BY <1>2, <1>3, <1>4, <1>6 DEF SsutFromBob

\* Nor what it makes of Alice's BYE.
LEMMA FromAliceRelays ==
    ASSUME Shape, SsutFromAlice
    PROVE  Relays
<1>1. /\ Msg("BYE", "none") \in MsgShape
      /\ Msg("BYE", "none").kind # "INVITE"
  BY EndIsNoInvite DEF Shape
<1>2. CASE ssut' = Over(ssut) /\ toBob' = Append(toBob, Msg("BYE", "none"))
  BY <1>1, <1>2, OverShape, AppendedBehind DEF Relays, Shape
<1>3. CASE UNCHANGED <<ssut, toBob>>
  BY <1>3 DEF Relays, Shape
<1>4. QED
  BY <1>2, <1>3 DEF SsutFromAlice

-----------------------------------------------------------------------------
(* One lemma for each thing that can happen                                *)

\* A step that only the SSuT and the queues take part in keeps the invariant.
LEMMA RelayStep ==
    ASSUME IInv, Relays, UNCHANGED <<now, scn, alice, bob>>
    PROVE  IInv'
<1>1. Shape'
  BY DEF IInv, Shape, Relays
<1>2. AliceTruthful' /\ BobTruthful' /\ IdleBobWaits'
  BY DEF IInv, AliceTruthful, BobTruthful, IdleBobWaits
<1>3. NothingOffered'
  BY DEF IInv, NothingOffered, Relays
<1>4. InviteFirst'
  BY DEF IInv, InviteFirst, Relays
<1>5. QED
  BY <1>1, <1>2, <1>3, <1>4 DEF IInv

\* A step of Alice's that leaves her with a true report, whatever it makes the
\* SSuT do.
LEMMA AliceStepKeeps ==
    ASSUME IInv, alice' \in SideShape, AliceTruthful', Relays,
           UNCHANGED <<now, scn, bob>>
    PROVE  IInv'
<1>1. Shape'
  BY DEF IInv, Shape, Relays
<1>2. BobTruthful' /\ IdleBobWaits'
  BY DEF IInv, BobTruthful, IdleBobWaits
<1>3. NothingOffered'
  BY DEF IInv, NothingOffered, Relays
<1>4. InviteFirst'
  BY DEF IInv, InviteFirst, Relays
<1>5. QED
  BY <1>1, <1>2, <1>3, <1>4 DEF IInv

\* The same for Bob once his subtest has begun.
LEMMA BobStepKeeps ==
    ASSUME IInv, bob' \in SideShape, BobTruthful', bob.ua # "idle",
           bob'.ua # "idle", Relays, UNCHANGED <<now, scn, alice>>
    PROVE  IInv'
<1>1. Shape'
  BY DEF IInv, Shape, Relays
<1>2. AliceTruthful' /\ IdleBobWaits'
  BY DEF IInv, AliceTruthful, IdleBobWaits
<1>3. NothingOffered'
  BY DEF IInv, NothingOffered, Relays
<1>4. InviteFirst'
  BY DEF IInv, InviteFirst, Relays
<1>5. QED
  BY <1>1, <1>2, <1>3, <1>4 DEF IInv

\* A queue and a session that nobody touches.
LEMMA QuietRelays ==
    ASSUME Shape, UNCHANGED <<ssut, toBob>>
    PROVE  Relays
BY DEF Shape, Relays

\* Bob's timers run only when his subtest has begun.
LEMMA BobDue ==
    ASSUME IInv, NEW cb \in {"ring", "connect", "disconnect"}, Due(bob, cb)
    PROVE  bob.ua # "idle"
BY DEF IInv, IdleBobWaits, Due

\* A ring is heard only while the call has no answer, hence before the report.
LEMMA AliceRingsKeeps ==
    ASSUME IInv, AliceRings
    PROVE  IInv'
<1>1. Relays /\ UNCHANGED <<now, scn, bob>>
  BY QuietRelays DEF IInv, AliceRings
<1>2. CASE alice.ua = "calling"
  <2>1. /\ (alice.flags.ring \/ ~ExpectsNoProgress(scn.cls)) \in BOOLEAN
        /\ alice.flags.nerrs + Errs(Head(toAlice)) \in Nat
    BY DEF IInv, Shape, SideShape, Flags, Errs
  <2> DEFINE flags2 == [alice.flags EXCEPT
                         !.ring = @ \/ ~ExpectsNoProgress(scn.cls),
                         !.nerrs = @ + Errs(Head(toAlice))]
  <2>2. flags2 \in Flags
    BY <2>1 DEF IInv, Shape, SideShape, Flags
  <2>3. alice' = [alice EXCEPT !.flags = flags2]
    BY <1>2 DEF AliceRings, IInv, Shape, SideShape
  <2> HIDE DEF flags2
  <2>4. /\ alice' \in SideShape /\ alice'.ua = "calling"
        /\ alice'.verdict = alice.verdict
    BY <1>2, <2>2, <2>3 DEF IInv, Shape, SideShape
  <2>5. AliceTruthful'
    BY <1>2, <2>4 DEF IInv, AliceTruthful, Truthful
  <2>6. QED
    BY <1>1, <2>4, <2>5, AliceStepKeeps
<1>3. CASE alice.ua # "calling"
  BY <1>1, <1>3, AliceStepKeeps DEF AliceRings, IInv, Shape, AliceTruthful
<1>4. QED
  BY <1>2, <1>3

\* So is a 100, which sets a flag and nothing else.
LEMMA AliceTryingKeeps ==
    ASSUME IInv, AliceTrying
    PROVE  IInv'
<1>1. Relays /\ UNCHANGED <<now, scn, bob>>
  BY QuietRelays DEF IInv, AliceTrying
<1> DEFINE flags2 == [alice.flags EXCEPT !.ring = TRUE]
<1>2. flags2 \in Flags
  BY DEF IInv, Shape, SideShape, Flags
<1>3. alice' = [alice EXCEPT !.flags = flags2] /\ alice.ua = "calling"
  BY DEF AliceTrying, IInv, Shape, SideShape
<1> HIDE DEF flags2
<1>4. /\ alice' \in SideShape /\ alice'.ua = "calling"
      /\ alice'.verdict = alice.verdict
  BY <1>2, <1>3 DEF IInv, Shape, SideShape
<1>5. AliceTruthful'
  BY <1>3, <1>4 DEF IInv, AliceTruthful, Truthful
<1>6. QED
  BY <1>1, <1>4, <1>5, AliceStepKeeps

\* So is an answer.
LEMMA AliceConnectedKeeps ==
    ASSUME IInv, AliceConnected
    PROVE  IInv'
<1>1. Relays /\ UNCHANGED <<now, scn, bob>>
  BY QuietRelays DEF IInv, AliceConnected
<1>2. CASE alice.ua = "calling"
  <2>1. alice.flags.nerrs + Errs(Head(toAlice)) \in Nat
    BY DEF IInv, Shape, SideShape, Flags, Errs
  <2> DEFINE flags2 == [alice.flags EXCEPT !.connect = TRUE,
                         !.nerrs = @ + Errs(Head(toAlice))]
             up == [alice EXCEPT !.ua = "up", !.flags = flags2]
  <2>2. flags2 \in Flags
    BY <2>1 DEF IInv, Shape, SideShape, Flags
  <2>3. alice' = Arm(up, "disconnect", AliceDisconnectIval(scn.cls))
    BY <1>2 DEF AliceConnected, IInv, Shape, SideShape
  <2> HIDE DEF flags2
  <2>4. up \in SideShape /\ up.ua = "up" /\ up.verdict = alice.verdict
    BY <2>2 DEF IInv, Shape, SideShape, Agents
  <2>5. AliceDisconnectIval(scn.cls) \in Int /\ "disconnect" \in Timers
    BY DEF AliceDisconnectIval, Timers
  <2> HIDE DEF up
  <2>6. /\ alice' \in SideShape /\ alice'.ua = "up"
        /\ alice'.verdict = alice.verdict
    <3> DEFINE armed == Arm(up, "disconnect", AliceDisconnectIval(scn.cls))
    <3>1. now \in Nat
      BY DEF IInv, Shape
    <3>2. /\ armed \in SideShape /\ armed.ua = up.ua
          /\ armed.verdict = up.verdict
      BY ONLY <2>4, <2>5, <3>1, TimerShape
    <3> HIDE DEF armed
    <3>3. QED
      BY ONLY <2>3, <2>4, <3>2 DEF armed
  <2>7. AliceTruthful'
    BY <1>2, <2>6 DEF IInv, AliceTruthful, Truthful
  <2>8. QED
    BY <1>1, <2>6, <2>7, AliceStepKeeps
<1>3. CASE alice.ua # "calling"
  BY <1>1, <1>3, AliceStepKeeps DEF AliceConnected, IInv, Shape, AliceTruthful
<1>4. QED
  BY <1>2, <1>3

\* A rejection or a BYE ends a live call and sets disconnect_done.
LEMMA AliceHungUpKeeps ==
    ASSUME IInv, AliceHungUp
    PROVE  IInv'
<1>1. Relays /\ UNCHANGED <<now, scn, bob>>
  BY QuietRelays DEF IInv, AliceHungUp
<1>2. CASE Alive(alice)
  <2>1. alice.verdict = Pending
    BY <1>2 DEF IInv, AliceTruthful, Truthful, Alive
  <2> DEFINE over == Ended(alice)
  <2>2. /\ over \in SideShape /\ over.ua = "ended" /\ over.flags.disconnect
        /\ over.verdict = Pending
    BY <2>1, EndedShape DEF IInv, Shape
  <2>3. PICK n \in Nat : alice' = [over EXCEPT !.flags.nerrs = n]
    <3>1. over.flags.nerrs \in Nat
      BY <2>2 DEF SideShape, Flags
    <3>2. alice' = [over EXCEPT !.flags.nerrs =
                      IF ExpectsNoProgress(scn.cls) /\ alice.flags.connect
                      THEN over.flags.nerrs + 1 ELSE over.flags.nerrs]
      BY <1>2, <2>2 DEF AliceHungUp, SideShape, Flags
    <3> HIDE DEF over
    <3>3. (IF ExpectsNoProgress(scn.cls) /\ alice.flags.connect
           THEN over.flags.nerrs + 1 ELSE over.flags.nerrs) \in Nat
      BY <3>1
    <3>4. QED
      BY <3>2, <3>3
  <2> HIDE DEF over
  <2>4. /\ alice' \in SideShape /\ alice'.ua = "ended"
        /\ alice'.flags.disconnect /\ alice'.verdict = Pending
    <3>1. [over.flags EXCEPT !.nerrs = n] \in Flags
      BY <2>2 DEF SideShape, Flags
    <3>2. [over.flags EXCEPT !.nerrs = n].disconnect
      BY <2>2 DEF SideShape, Flags
    <3>3. alice' = [over EXCEPT !.flags = [over.flags EXCEPT !.nerrs = n]]
      BY <2>2, <2>3 DEF SideShape
    <3>4. QED
      BY <2>2, <3>1, <3>2, <3>3 DEF SideShape
  <2>5. AliceTruthful'
    BY <2>4 DEF AliceTruthful, Truthful
  <2>6. QED
    BY <1>1, <2>4, <2>5, AliceStepKeeps
<1>3. CASE ~Alive(alice)
  BY <1>1, <1>3, AliceStepKeeps DEF AliceHungUp, IInv, Shape, AliceTruthful
<1>4. QED
  BY <1>2, <1>3

\* a_test1.disconnect() changes nothing in a call that is over.
LEMMA AliceDisconnectKeeps ==
    ASSUME IInv, AliceDisconnect
    PROVE  IInv'
<1> DEFINE idle == Fired(alice)
<1>1. /\ idle \in SideShape /\ idle.ua = alice.ua
      /\ idle.flags = alice.flags /\ idle.verdict = alice.verdict
  <2>1. "none" \in Timers /\ 0 \in Int
    BY DEF Timers
  <2>2. QED
    BY <2>1, TimerShape DEF IInv, Shape
<1> HIDE DEF idle
<1>2. CASE alice.flags.disconnect
  <2>1. alice' = idle /\ Relays
    BY <1>2, QuietRelays DEF AliceDisconnect, IInv, idle
  <2>2. scn' = scn
    BY DEF AliceDisconnect
  <2>3. AliceTruthful'
    BY <1>1, <2>1, <2>2 DEF IInv, AliceTruthful, Truthful
  <2>4. QED
    BY <1>1, <2>1, <2>3, AliceStepKeeps DEF AliceDisconnect
<1>3. CASE ~alice.flags.disconnect
  <2>1. alice.verdict = Pending
    BY <1>3 DEF IInv, AliceTruthful, Truthful
  <2>2. alice' = Ended(idle) /\ Relays
    BY <1>3, FromAliceRelays DEF AliceDisconnect, IInv, idle
  <2>3. /\ alice' \in SideShape /\ alice'.ua = "ended"
        /\ alice'.flags.disconnect /\ alice'.verdict = Pending
    BY <1>1, <2>1, <2>2, EndedShape DEF IInv, Shape
  <2>4. AliceTruthful'
    BY <2>3 DEF AliceTruthful, Truthful
  <2>5. QED
    BY <2>2, <2>3, <2>4, AliceStepKeeps DEF AliceDisconnect
<1>4. QED
  BY <1>2, <1>3

\* The report is drawn from the flags of that moment.
LEMMA AliceDeadKeeps ==
    ASSUME IInv, AliceDead
    PROVE  IInv'
<1>1. Relays /\ UNCHANGED <<now, scn, bob>>
  BY QuietRelays DEF IInv, AliceDead
<1> DEFINE content == AliceContent(scn.cls, alice.flags, scn.mightfail)
<1>2. content \in BOOLEAN
  BY ContentIsBoolean DEF IInv, Shape, SideShape, ScnShape
<1>3. alice' = Reported(alice, content)
  BY DEF AliceDead
<1>4. alice.flags.disconnect
  BY DEF AliceDead, IInv, AliceTruthful, Truthful
<1> HIDE DEF content
<1>5. /\ alice' \in SideShape /\ alice'.ua = "dead"
      /\ alice'.flags = alice.flags /\ alice'.verdict = VerdictOf(content)
  BY <1>2, <1>3, ReportedShape DEF IInv, Shape
<1>6. AliceTruthful'
  BY <1>1, <1>4, <1>5 DEF AliceTruthful, Truthful, content
<1>7. QED
  BY <1>1, <1>5, <1>6, AliceStepKeeps

\* The INVITE is sent once, to a Bob who has not begun.
LEMMA SsutInviteKeeps ==
    ASSUME IInv, SsutInvite
    PROVE  IInv'
<1>1. toBob = <<>> /\ bob.ua = "idle"
  BY DEF SsutInvite, IInv, NothingOffered
<1>2. PICK sdp \in Rewritten("good") :
        /\ toBob' = Append(toBob, Msg("INVITE", sdp))
        /\ ssut' = [ssut EXCEPT !.leg = "calling", !.media = "half",
                                !.since = now, !.forgot = sdp = "bad"]
  BY DEF SsutInvite
<1>3. Msg("INVITE", sdp) \in MsgShape
  <2>1. sdp \in {"none", "good", "bad"} /\ now \in Int
    BY DEF Rewritten, IInv, Shape
  <2>2. QED
    BY <2>1 DEF Msg, MsgShape
<1>4. toBob' \in Seq(MsgShape) /\ Len(toBob') = 1
  BY <1>1, <1>2, <1>3 DEF IInv, Shape
<1>5. ssut' \in SsutShape /\ ssut'.leg = "calling"
  <2>1. ASSUME NEW since \in Int, NEW forgot \in BOOLEAN
        PROVE  LET x == [ssut EXCEPT !.leg = "calling", !.media = "half",
                                     !.since = since, !.forgot = forgot]
               IN  x \in SsutShape /\ x.leg = "calling"
    BY DEF IInv, Shape, SsutShape
  <2>2. now \in Int /\ (sdp = "bad") \in BOOLEAN
    BY DEF IInv, Shape
  <2>3. QED
    BY <1>2, <2>1, <2>2
<1>6. Shape'
  BY <1>4, <1>5 DEF SsutInvite, IInv, Shape
<1>7. AliceTruthful' /\ BobTruthful' /\ IdleBobWaits'
  BY DEF SsutInvite, IInv, AliceTruthful, BobTruthful, IdleBobWaits
<1>8. NothingOffered' /\ InviteFirst'
  BY <1>1, <1>4, <1>5 DEF SsutInvite, NothingOffered, InviteFirst
<1>9. QED
  BY <1>6, <1>7, <1>8 DEF IInv

\* A session given up, with or without reason, leaves both sides as they are.
LEMMA SsutEndsKeeps ==
    ASSUME IInv, SsutTimeout \/ SsutHangup
    PROVE  IInv'
<1>1. PICK blame \in {"no", "idle", "calling", "up", "over"} :
        HangUpBoth(blame)
  BY DEF SsutTimeout, SsutHangup, IInv, Shape, SsutShape
<1>2. UNCHANGED <<now, scn, alice, bob>>
  BY DEF SsutTimeout, SsutHangup
<1>3. QED
  BY <1>1, <1>2, HangUpRelays, RelayStep DEF IInv

\* The INVITE finds a subtest that has not begun: Bob's user agent is new.
LEMMA BobAnswerKeeps ==
    ASSUME IInv, BobAnswer
    PROVE  IInv'
<1>1. /\ toBob # <<>> /\ Head(toBob).kind = "INVITE"
      /\ toBob' = Tail(toBob)
      /\ UNCHANGED <<now, scn, alice, ssut, toAlice>>
  BY DEF BobAnswer, ReceiveBob
<1>2. /\ toBob' \in Seq(MsgShape)
      /\ \A i \in 1..Len(toBob') :
             i + 1 \in 1..Len(toBob) /\ toBob'[i] = toBob[i + 1]
      /\ 1 \in 1..Len(toBob) /\ Head(toBob) = toBob[1]
  BY <1>1, Delivered DEF IInv, Shape
<1>3. bob.ua = "idle" /\ bob.verdict = Pending
  BY <1>1, <1>2 DEF IInv, InviteFirst, BobTruthful, Truthful
<1>4. \A i \in 1..Len(toBob') : toBob'[i].kind # "INVITE"
  <2>1. TAKE i \in 1..Len(toBob')
  <2>2. i + 1 # 1
    OBVIOUS
  <2>3. QED
    BY <1>2, <2>2 DEF IInv, InviteFirst
<1>5. /\ bob' \in SideShape /\ bob'.ua \notin {"idle", "ended", "dead"}
      /\ bob'.verdict = Pending
  <2>1. CASE Head(toBob).sdp = "bad"
    <3>1. bob.flags.nerrs + 1 \in Nat
      BY DEF IInv, Shape, SideShape, Flags
    <3>2. [bob.flags EXCEPT !.nerrs = bob.flags.nerrs + 1] \in Flags
      BY <3>1 DEF IInv, Shape, SideShape, Flags
    <3>3. bob' = [bob EXCEPT !.ua = "stranded",
                    !.flags = [bob.flags EXCEPT !.nerrs = bob.flags.nerrs + 1]]
      BY <2>1 DEF BobAnswer, IInv, Shape, SideShape, Flags
    <3>4. QED
      BY <1>3, <3>2, <3>3 DEF IInv, Shape, SideShape, Agents
  <2>2. CASE Head(toBob).sdp # "bad"
    <3> DEFINE calling == [bob EXCEPT !.ua = "calling"]
    <3>1. /\ calling \in SideShape /\ calling.ua = "calling"
          /\ calling.verdict = Pending
      BY <1>3 DEF IInv, Shape, SideShape, Agents
    <3>2. bob' = Arm(calling, "ring", RingIval(scn.cls))
      BY <2>2 DEF BobAnswer
    <3>3. RingIval(scn.cls) \in Int /\ "ring" \in Timers
      BY DEF RingIval, Timers
    <3> HIDE DEF calling
    <3>4. QED
      <4>1. now \in Nat
        BY DEF IInv, Shape
      <4>2. QED
        BY <3>1, <3>2, <3>3, <4>1, TimerShape
  <2>3. QED
    BY <2>1, <2>2
<1>6. ssut'.leg # "idle"
  BY <1>1 DEF IInv, NothingOffered
<1>7. Shape'
  BY <1>1, <1>2, <1>5 DEF IInv, Shape
<1>8. AliceTruthful'
  BY <1>1 DEF IInv, AliceTruthful
<1>9. BobTruthful'
  BY <1>5 DEF BobTruthful, Truthful
<1>10. IdleBobWaits' /\ NothingOffered' /\ InviteFirst'
  BY <1>4, <1>5, <1>6 DEF IdleBobWaits, NothingOffered, InviteFirst
<1>11. QED
  BY <1>7, <1>8, <1>9, <1>10 DEF IInv

\* A timer of Bob's that has run out.
LEMMA BobFired ==
    ASSUME IInv
    PROVE  /\ Fired(bob) \in SideShape /\ Fired(bob).ua = bob.ua
           /\ Fired(bob).flags = bob.flags
           /\ Fired(bob).verdict = bob.verdict
<1>1. "none" \in Timers /\ 0 \in Int
  BY DEF Timers
<1>2. QED
  BY <1>1, TimerShape DEF IInv, Shape

\* A timer that finds nothing to do: only the timer is gone.
LEMMA BobIdles ==
    ASSUME IInv, bob.ua # "idle", bob' = Fired(bob),
           UNCHANGED <<now, scn, alice, ssut, toBob>>
    PROVE  IInv'
<1>1. Relays
  BY QuietRelays DEF IInv
<1>2. bob' \in SideShape /\ bob'.ua # "idle"
  BY BobFired
<1>3. BobTruthful'
  BY BobFired DEF IInv, BobTruthful, Truthful
<1>4. QED
  BY <1>1, <1>2, <1>3, BobStepKeeps

\* A step of Bob's that may end his call but reports nothing.
LEMMA BobActs ==
    ASSUME IInv, bob.ua # "idle", bob' \in SideShape,
           bob'.ua \in {"calling", "up", "ended", "stranded"},
           bob'.ua = "ended" => bob'.flags.disconnect,
           bob'.verdict = Pending, Relays, UNCHANGED <<now, scn, alice>>
    PROVE  IInv'
<1>1. BobTruthful'
  BY DEF BobTruthful, Truthful
<1>2. QED
  BY <1>1, BobStepKeeps

\* A flag of Bob's is set.
LEMMA FlagSet ==
    ASSUME NEW side \in SideShape
    PROVE  /\ [side EXCEPT !.flags.ring = TRUE] \in SideShape
           /\ [side EXCEPT !.flags.ring = TRUE].ua = side.ua
           /\ [side EXCEPT !.flags.ring = TRUE].verdict = side.verdict
           /\ [side EXCEPT !.flags.ring = TRUE].flags.disconnect
                  = side.flags.disconnect
           /\ [side EXCEPT !.flags.connect = TRUE] \in SideShape
           /\ [side EXCEPT !.flags.connect = TRUE].ua = side.ua
           /\ [side EXCEPT !.flags.connect = TRUE].verdict = side.verdict
           /\ [side EXCEPT !.flags.connect = TRUE].flags.disconnect
                  = side.flags.disconnect
<1>1. /\ [side.flags EXCEPT !.ring = TRUE] \in Flags
      /\ [side.flags EXCEPT !.connect = TRUE] \in Flags
  BY DEF SideShape, Flags
<1>2. /\ [side.flags EXCEPT !.ring = TRUE].disconnect = side.flags.disconnect
      /\ [side.flags EXCEPT !.connect = TRUE].disconnect = side.flags.disconnect
  BY DEF SideShape, Flags
<1>3. \A f \in Flags :
        /\ [side EXCEPT !.flags = f] \in SideShape
        /\ [side EXCEPT !.flags = f].ua = side.ua
        /\ [side EXCEPT !.flags = f].verdict = side.verdict
        /\ [side EXCEPT !.flags = f].flags = f
  BY DEF SideShape
<1>4. /\ [side EXCEPT !.flags.ring = TRUE]
             = [side EXCEPT !.flags = [side.flags EXCEPT !.ring = TRUE]]
      /\ [side EXCEPT !.flags.connect = TRUE]
             = [side EXCEPT !.flags = [side.flags EXCEPT !.connect = TRUE]]
  OBVIOUS
<1>5. QED
  BY <1>1, <1>2, <1>3, <1>4

\* ring() looks at connect_done and disconnect_done first.
LEMMA BobRingKeeps ==
    ASSUME IInv, BobRing
    PROVE  IInv'
<1> DEFINE quiet == bob.flags.connect \/ bob.flags.disconnect
           rung == [Fired(bob) EXCEPT !.flags.ring = TRUE]
<1>1. UNCHANGED <<now, scn, alice>> /\ bob.ua # "idle"
  BY BobDue DEF BobRing
<1>2. CASE bob' = Fired(bob) /\ UNCHANGED <<ssut, toAlice, toBob>>
  BY <1>1, <1>2, BobIdles
<1>3. ASSUME ~quiet
      PROVE  /\ rung \in SideShape /\ rung.ua = bob.ua
             /\ rung.ua \notin {"ended", "dead", "idle"}
             /\ rung.verdict = Pending
  <2>1. bob.ua \notin {"ended", "dead"} /\ bob.verdict = Pending
    BY <1>3 DEF IInv, BobTruthful, Truthful
  <2>2. QED
    BY <1>1, <2>1, BobFired, FlagSet
<1>4. CASE /\ ~quiet
           /\ bob' = [Ended(rung) EXCEPT !.flags.connect = TRUE,
                                         !.answered = TRUE]
           /\ SsutFromBob("reject", "none")
  <2>1. Relays
    BY <1>4, FromBobRelays DEF IInv
  <2> DEFINE over == [Ended(rung) EXCEPT !.flags.connect = TRUE]
  <2> HIDE DEF rung
  <2>2. /\ Ended(rung) \in SideShape /\ Ended(rung).ua = "ended"
        /\ Ended(rung).flags.disconnect /\ Ended(rung).verdict = Pending
    BY <1>3, <1>4, EndedShape DEF IInv, Shape
  <2>3. /\ over \in SideShape /\ over.ua = "ended"
        /\ over.flags.disconnect /\ over.verdict = Pending
    BY <2>2, FlagSet
  <2>4. bob' = [over EXCEPT !.answered = TRUE]
    BY <1>4
  <2> HIDE DEF over
  <2>5. /\ bob' \in SideShape /\ bob'.ua = "ended"
        /\ bob'.flags.disconnect /\ bob'.verdict = Pending
    BY <2>3, <2>4 DEF SideShape
  <2>6. QED
    BY <1>1, <2>1, <2>5, BobActs
<1>5. CASE /\ ~quiet
           /\ bob' = Arm(rung, "connect", scn.answer)
           /\ CASE RingKind(scn.cls) = "180" -> SsutFromBob("180", "none")
                [] RingKind(scn.cls) = "183" -> SsutFromBob("183", "good")
                [] RingKind(scn.cls) = "crippled" ->
                       SsutFromBob("183", "crippled")
           /\ RingKind(scn.cls) # "reject"
  <2>1. Relays
    <3>1. RingKind(scn.cls) \in {"180", "183", "crippled"}
      BY <1>5 DEF RingKind
    <3>2. PICK kind, sdp : SsutFromBob(kind, sdp)
      BY <1>5, <3>1
    <3>3. QED
      BY <3>2, FromBobRelays DEF IInv
  <2>2. scn.answer \in Int /\ "connect" \in Timers
    BY DEF IInv, Shape, ScnShape, Timers
  <2> HIDE DEF rung
  <2>3. /\ bob' \in SideShape /\ bob'.ua \notin {"ended", "dead", "idle"}
        /\ bob'.verdict = Pending
    <3>1. now \in Nat
      BY DEF IInv, Shape
    <3>2. QED
      BY <1>3, <1>5, <2>2, <3>1, TimerShape
  <2>4. bob'.ua \in {"calling", "up", "stranded"}
    BY <2>3 DEF SideShape, Agents
  <2>5. QED
    BY <1>1, <2>1, <2>3, <2>4, BobActs
<1>6. QED
  BY <1>2, <1>4, <1>5 DEF BobRing

\* So does connect(), in the classes of the theorem: this is where t3 and t8
\* would break the invariant.
LEMMA BobConnectKeeps ==
    ASSUME IInv, BobConnect
    PROVE  IInv'
<1> DEFINE done == [Fired(bob) EXCEPT !.flags.connect = TRUE]
<1>1. UNCHANGED <<now, scn, alice>> /\ bob.ua # "idle"
  BY BobDue DEF BobConnect
<1>2. CASE bob' = Fired(bob) /\ UNCHANGED <<ssut, toAlice, toBob>>
  BY <1>1, <1>2, BobIdles
<1>3. ASSUME ConnectGuard(scn.cls, bob.flags)
      PROVE  /\ done \in SideShape /\ done.ua = bob.ua
             /\ done.ua \notin {"ended", "dead", "idle"}
             /\ done.verdict = Pending
  <2>1. ~bob.flags.disconnect
    BY <1>3 DEF ConnectGuard, IInv, Shape
  <2>2. bob.ua \notin {"ended", "dead"} /\ bob.verdict = Pending
    BY <2>1 DEF IInv, BobTruthful, Truthful
  <2>3. QED
    BY <1>1, <2>2, BobFired, FlagSet
<1>4. CASE /\ ConnectGuard(scn.cls, bob.flags)
           /\ bob' = [Ended(done) EXCEPT !.answered = TRUE]
           /\ SsutFromBob("reject", "none")
  <2>1. Relays
    BY <1>4, FromBobRelays DEF IInv
  <2> DEFINE over == Ended(done)
  <2> HIDE DEF done
  <2>2. /\ over \in SideShape /\ over.ua = "ended"
        /\ over.flags.disconnect /\ over.verdict = Pending
    BY <1>3, <1>4, EndedShape DEF IInv, Shape
  <2>3. bob' = [over EXCEPT !.answered = TRUE]
    BY <1>4
  <2> HIDE DEF over
  <2>4. /\ bob' \in SideShape /\ bob'.ua = "ended"
        /\ bob'.flags.disconnect /\ bob'.verdict = Pending
    BY <2>2, <2>3 DEF SideShape
  <2>5. QED
    BY <1>1, <2>1, <2>4, BobActs
<1>5. CASE /\ ConnectGuard(scn.cls, bob.flags)
           /\ bob' = done /\ UNCHANGED <<ssut, toAlice, toBob>>
  <2>1. Relays
    BY <1>5, QuietRelays DEF IInv
  <2> HIDE DEF done
  <2>2. bob'.ua \in {"calling", "up", "stranded"}
    BY <1>3, <1>5 DEF SideShape, Agents
  <2>3. QED
    BY <1>1, <1>3, <1>5, <2>1, <2>2, BobActs
<1>6. CASE /\ ConnectGuard(scn.cls, bob.flags)
           /\ bob' = Arm([done EXCEPT !.ua = "up", !.answered = TRUE],
                         "disconnect", scn.hang)
           /\ SsutFromBob("200", "good")
  <2>1. Relays
    BY <1>6, FromBobRelays DEF IInv
  <2> HIDE DEF done
  <2> DEFINE up == [done EXCEPT !.ua = "up", !.answered = TRUE]
  <2>2. up \in SideShape /\ up.ua = "up" /\ up.verdict = Pending
    BY <1>3, <1>6 DEF SideShape, Agents
  <2>3. bob' = Arm(up, "disconnect", scn.hang)
    BY <1>6
  <2>4. scn.hang \in Int /\ "disconnect" \in Timers
    BY DEF IInv, Shape, ScnShape, Timers
  <2> HIDE DEF up
  <2>5. /\ bob' \in SideShape /\ bob'.ua = "up" /\ bob'.verdict = Pending
    <3>1. now \in Nat
      BY DEF IInv, Shape
    <3>2. QED
      BY <2>2, <2>3, <2>4, <3>1, TimerShape
  <2>6. QED
    BY <1>1, <2>1, <2>5, BobActs
<1>7. QED
  BY <1>2, <1>4, <1>5, <1>6 DEF BobConnect

\* And disconnect().
LEMMA BobDisconnectKeeps ==
    ASSUME IInv, BobDisconnect
    PROVE  IInv'
<1>1. UNCHANGED <<now, scn, alice>> /\ bob.ua # "idle"
  BY BobDue DEF BobDisconnect
<1>2. CASE bob.flags.disconnect
  BY <1>1, <1>2, BobIdles DEF BobDisconnect
<1>3. CASE ~bob.flags.disconnect
  <2>1. bob' = Ended(Fired(bob)) /\ SsutFromBob("BYE", "none")
    BY <1>3 DEF BobDisconnect
  <2>2. Relays
    BY <2>1, FromBobRelays DEF IInv
  <2>3. bob.verdict = Pending
    BY <1>3 DEF IInv, BobTruthful, Truthful
  <2>4. /\ bob' \in SideShape /\ bob'.ua = "ended"
        /\ bob'.flags.disconnect /\ bob'.verdict = Pending
    BY <2>1, <2>3, BobFired, EndedShape DEF IInv, Shape
  <2>5. QED
    BY <1>1, <2>2, <2>4, BobActs
<1>4. QED
  BY <1>2, <1>3

\* Bob's report is drawn from the flags of that moment.
LEMMA BobDeadKeeps ==
    ASSUME IInv, BobDead
    PROVE  IInv'
<1>1. Relays /\ UNCHANGED <<now, scn, alice>> /\ bob.ua # "idle"
  BY QuietRelays DEF IInv, BobDead
<1> DEFINE content == BobContent(scn.cls, bob.flags, scn.mightfail)
<1>2. content \in BOOLEAN
  BY ContentIsBoolean DEF IInv, Shape, SideShape, ScnShape
<1>3. bob' = Reported(bob, content) /\ bob.flags.disconnect
  BY DEF BobDead, IInv, BobTruthful, Truthful
<1> HIDE DEF content
<1>4. /\ bob' \in SideShape /\ bob'.ua = "dead"
      /\ bob'.flags = bob.flags /\ bob'.verdict = VerdictOf(content)
  BY <1>2, <1>3, ReportedShape DEF IInv, Shape
<1>5. BobTruthful'
  BY <1>1, <1>3, <1>4 DEF BobTruthful, Truthful, content
<1>6. QED
  BY <1>1, <1>4, <1>5, BobStepKeeps

\* A CANCEL or a BYE: the queue gets shorter and Bob's call may be over.
LEMMA BobHungUpKeeps ==
    ASSUME IInv, BobHungUp
    PROVE  IInv'
<1>1. /\ toBob # <<>> /\ Head(toBob).kind \in {"CANCEL", "BYE"}
      /\ toBob' = Tail(toBob)
      /\ UNCHANGED <<now, scn, alice, ssut, toAlice>>
  BY DEF BobHungUp, ReceiveBob
<1>2. /\ toBob' \in Seq(MsgShape)
      /\ \A i \in 1..Len(toBob') :
             i + 1 \in 1..Len(toBob) /\ toBob'[i] = toBob[i + 1]
  BY <1>1, Delivered DEF IInv, Shape
<1>3. \A i \in 1..Len(toBob') : toBob'[i].kind # "INVITE"
  <2>1. TAKE i \in 1..Len(toBob')
  <2>2. i + 1 # 1
    OBVIOUS
  <2>3. QED
    BY <1>2, <2>2 DEF IInv, InviteFirst
<1>4. ssut'.leg # "idle"
  BY <1>1 DEF IInv, NothingOffered
<1>5. \/ bob' = bob
      \/ bob' = Ended(bob) /\ bob.ua \in {"up", "calling"}
  BY DEF BobHungUp
<1>6. bob' \in SideShape /\ BobTruthful' /\ IdleBobWaits'
  <2>1. CASE bob' = bob
    BY <1>1, <2>1 DEF IInv, Shape, BobTruthful, IdleBobWaits
  <2>2. CASE bob' = Ended(bob) /\ bob.ua \in {"up", "calling"}
    <3>1. bob.verdict = Pending
      BY <2>2 DEF IInv, BobTruthful, Truthful
    <3>2. /\ bob' \in SideShape /\ bob'.ua = "ended"
          /\ bob'.flags.disconnect /\ bob'.verdict = Pending
      BY <2>2, <3>1, EndedShape DEF IInv, Shape
    <3>3. QED
      BY <3>2 DEF BobTruthful, Truthful, IdleBobWaits
  <2>3. QED
    BY <1>5, <2>1, <2>2
<1>7. Shape'
  BY <1>1, <1>2, <1>6 DEF IInv, Shape
<1>8. AliceTruthful'
  BY <1>1 DEF IInv, AliceTruthful
<1>9. NothingOffered' /\ InviteFirst'
  BY <1>3, <1>4 DEF NothingOffered, InviteFirst
<1>10. QED
  BY <1>6, <1>7, <1>8, <1>9 DEF IInv

\* Time and stuttering.
LEMMA TickKeeps ==
    ASSUME IInv, Tick \/ UNCHANGED vars
    PROVE  IInv'
<1>1. now' \in Nat /\ UNCHANGED <<scn, alice, bob, ssut, toBob>>
  BY DEF Tick, vars, IInv, Shape
<1>2. Shape'
  BY <1>1 DEF IInv, Shape
<1>3. AliceTruthful' /\ BobTruthful' /\ IdleBobWaits'
  BY <1>1 DEF IInv, AliceTruthful, BobTruthful, IdleBobWaits
<1>4. NothingOffered' /\ InviteFirst'
  BY <1>1 DEF IInv, NothingOffered, InviteFirst
<1>5. QED
  BY <1>2, <1>3, <1>4 DEF IInv

-----------------------------------------------------------------------------
(* The theorem                                                             *)

\* Nothing has been offered, armed or reported in the beginning.
LEMMA InitIInv ==
    ASSUME GuardsAreRight, Init
    PROVE  IInv
<1>1. PICK s \in Scenarios :
        \E answer \in AnswerIval(s.cls), hang \in BobDisconnectIval(s.cls) :
            scn = [cls |-> s.cls, sigonly |-> s.sigonly,
                   mightfail |-> s.mightfail, answer |-> answer, hang |-> hang]
  BY DEF Init
<1>2. /\ s.cls \in Classes /\ s.sigonly \in BOOLEAN /\ s.mightfail \in BOOLEAN
      /\ s.cls \notin {"3", "8"}
  BY CallAssumption DEF GuardsAreRight
<1>3. AnswerIval(s.cls) \subseteq Int /\ BobDisconnectIval(s.cls) \subseteq Int
  BY IvalsAssumption DEF AnswerIval, BobDisconnectIval
<1>4. scn \in ScnShape /\ scn.cls \notin {"3", "8"}
  BY <1>1, <1>2, <1>3 DEF ScnShape
<1>5. \A ua \in {"idle", "calling"} :
        /\ NewSubtest(ua) \in SideShape
        /\ NewSubtest(ua).ua = ua /\ NewSubtest(ua).timer = "none"
        /\ NewSubtest(ua).verdict = Pending
  <2>1. Never \in Int
    BY CallAssumption DEF Never
  <2>2. [ring |-> FALSE, connect |-> FALSE, disconnect |-> FALSE,
         nerrs |-> 0] \in Flags
    BY DEF Flags
  <2>3. QED
    BY <2>1, <2>2 DEF NewSubtest, SideShape, Agents, Timers
<1>6. NoSession \in SsutShape
  BY DEF NoSession, SsutShape
<1>7. Shape
  BY <1>4, <1>5, <1>6 DEF Init, Shape
<1>8. AliceTruthful /\ BobTruthful /\ IdleBobWaits
  BY <1>5 DEF Init, AliceTruthful, BobTruthful, Truthful, IdleBobWaits
<1>9. NothingOffered /\ InviteFirst
  BY <1>5 DEF Init, NothingOffered, InviteFirst
<1>10. QED
  BY <1>7, <1>8, <1>9 DEF IInv

\* Every step keeps the invariant.
LEMMA NextIInv ==
    ASSUME IInv, [Next]_vars
    PROVE  IInv'
<1>1. CASE AliceStep
  BY <1>1, AliceRingsKeeps, AliceConnectedKeeps, AliceHungUpKeeps,
     AliceDisconnectKeeps, AliceDeadKeeps DEF AliceStep
<1>2. CASE BobStep
  BY <1>2, BobAnswerKeeps, BobRingKeeps, BobConnectKeeps, BobDisconnectKeeps,
     BobHungUpKeeps, BobDeadKeeps DEF BobStep
<1>3. CASE SsutInvite
  BY <1>3, SsutInviteKeeps
<1>4. CASE SsutTimeout \/ SsutHangup
  BY <1>4, SsutEndsKeeps
<1>5. CASE Tick \/ UNCHANGED vars
  BY <1>5, TickKeeps
<1>6. CASE AliceTrying
  BY <1>6, AliceTryingKeeps
<1>7. QED
  BY <1>1, <1>2, <1>3, <1>4, <1>5, <1>6 DEF Next, Progress

\* Only the dead have reported, and their reports are true.
LEMMA IInvMeansVerdictStands ==
    ASSUME IInv
    PROVE  VerdictStands
<1>1. alice.verdict # Pending => alice.ua = "dead"
  BY DEF IInv, AliceTruthful, Truthful
<1>2. bob.verdict # Pending => bob.ua = "dead"
  BY DEF IInv, BobTruthful, Truthful
<1>3. QED
  BY <1>1, <1>2 DEF IInv, AliceTruthful, BobTruthful, Truthful, VerdictStands

\* The invariant holds for ever, whatever the scenarios and the faults.
THEOREM CallInvariant == GuardsAreRight => (Spec => []IInv)
<1>1. GuardsAreRight /\ Init => IInv
  BY InitIInv
<1>2. IInv /\ [Next]_vars => IInv'
  BY NextIInv
<1>3. QED
  BY <1>1, <1>2, PTL DEF Spec

\* What a subtest has reported through done() stays justified by its flags: no
\* timer that fires later and no message that comes later changes a flag that
\* alldone() has looked at, as long as connect() looks at disconnect_done.
THEOREM VerdictsStand == GuardsAreRight => (Spec => []VerdictStands)
<1>1. IInv => VerdictStands
  BY IInvMeansVerdictStands
<1>2. QED
  BY <1>1, CallInvariant, PTL

-----------------------------------------------------------------------------
(* What a passing pair is worth                                            *)

AlertShape ==
    [kind : {"180", "183", "200", "end"}, sdp : {"none", "good", "bad"},
     sent : Int]

\* Bob's timers belong to a user agent, connect_done to a final answer that it
\* sent, and no session is up without one.
BobAnswers ==
    /\ bob.ua \in {"idle", "stranded"} => bob.timer = "none"
    /\ bob.flags.connect => bob.answered
    /\ ssut.leg = "up" => bob.flags.connect

\* Alice waits until the SSuT has an answer for her or an end.
AliceWaits ==
    /\ toAlice \in Seq(AlertShape)
    /\ alice.ua = "calling" => alice.timer = "none"
    /\ ssut.leg \in {"idle", "calling"} =>
           /\ alice.ua = "calling"
           /\ \A i \in 1..Len(toAlice) : toAlice[i].kind \notin {"200", "end"}

\* An SDP as it was is not overtaken by anything that makes Alice stop listening.
BadIsHeard ==
    \A i \in 1..Len(toAlice) :
        toAlice[i].sdp = "bad" =>
            /\ toAlice[i].kind # "end" /\ alice.ua = "calling"
            /\ \A j \in 1..(i - 1) : toAlice[j].kind \notin {"200", "end"}

BadOffer ==
    \E i \in 1..Len(toBob) : toBob[i].kind = "INVITE" /\ toBob[i].sdp = "bad"

BadAnswer == \E i \in 1..Len(toAlice) : toAlice[i].sdp = "bad"

\* What the SSuT forgot is on its way, has stranded Bob or was counted by Alice.
ForgottenShows ==
    ssut.forgot =>
        alice.flags.nerrs > 0 \/ BadAnswer \/ BadOffer \/ bob.ua = "stranded"

Noticed == BobAnswers /\ AliceWaits /\ BadIsHeard /\ ForgottenShows

\* What the SSuT may tell Alice: nothing, the end of the call, or what Bob sent.
Silent ==
    /\ toAlice' = toAlice /\ ssut'.leg \in {ssut.leg, "over"}
    /\ ssut'.forgot = ssut.forgot

Closed ==
    /\ toAlice' = Append(toAlice, Msg("end", "none")) /\ ssut'.leg = "over"
    /\ ssut'.forgot = ssut.forgot

Relayed(kind, s) ==
    /\ kind \in {"180", "183", "200"} /\ s \in {"none", "good", "bad"}
    /\ ssut.leg # "over"
    /\ toAlice' = Append(toAlice, Msg(kind, s))
    /\ ssut'.leg = IF kind = "200" THEN "up" ELSE ssut.leg
    /\ ssut'.forgot = (ssut.forgot \/ s = "bad")

\* And Bob: nothing but what ends a call.
Followed ==
    \/ toBob' = toBob
    \/ toBob' = Append(toBob, Msg("CANCEL", "none"))
    \/ toBob' = Append(toBob, Msg("BYE", "none"))

\* Positions in a queue that got longer.
LEMMA Behind ==
    ASSUME NEW S, NEW q \in Seq(S), NEW m \in S
    PROVE  /\ Append(q, m) \in Seq(S)
           /\ Len(q) \in Nat /\ Len(Append(q, m)) = Len(q) + 1
           /\ \A i \in 1..Len(q) : Append(q, m)[i] = q[i]
           /\ Append(q, m)[Len(q) + 1] = m
OBVIOUS

\* And in one that got shorter.
LEMMA Ahead ==
    ASSUME NEW S, NEW q \in Seq(S), q # <<>>
    PROVE  /\ Tail(q) \in Seq(S) /\ Head(q) = q[1] /\ Head(q) \in S
           /\ Len(q) \in Nat \ {0} /\ Len(Tail(q)) = Len(q) - 1
           /\ \A i \in 1..Len(Tail(q)) : Tail(q)[i] = q[i + 1]
OBVIOUS

\* A session given up is over and remembers what it forgot.
LEMMA OverForgets ==
    ASSUME NEW s \in SsutShape, NEW blame
    PROVE  /\ [Over(s) EXCEPT !.gaveUp = blame].leg = "over"
           /\ [Over(s) EXCEPT !.gaveUp = blame].forgot = s.forgot
           /\ Over(s).leg = "over" /\ Over(s).forgot = s.forgot
BY DEF Over, SsutShape

LEMMA HangUpTells ==
    ASSUME Shape, NEW blame, HangUpBoth(blame)
    PROVE  Closed /\ Followed
BY OverForgets DEF HangUpBoth, Closed, Followed, Shape

\* What the SSuT makes of an event of Bob's.
LEMMA FromBobTells ==
    ASSUME Shape, NEW kind, NEW sdp \in {"none", "good", "crippled"},
           SsutFromBob(kind, sdp)
    PROVE  /\ Followed
           /\ \/ Silent \/ Closed
              \/ \E s \in {"none", "good", "bad"} : Relayed(kind, s)
<1>1. CASE /\ ssut.leg = "over"
           /\ toBob' \in {toBob, Append(toBob, Msg("BYE", "none"))}
           /\ UNCHANGED <<ssut, toAlice>>
  BY <1>1 DEF Followed, Silent
<1>2. CASE /\ ssut' = Over(ssut) /\ toAlice' = Append(toAlice, Msg("end", "none"))
           /\ UNCHANGED toBob
  BY <1>2, OverForgets DEF Closed, Followed, Shape
<1>3. CASE HangUpBoth("no")
  BY <1>3, HangUpTells
<1>4. ASSUME ssut.leg # "over", kind \in {"180", "183", "200"},
             NEW s \in Rewritten(sdp), toAlice' = Append(toAlice, Msg(kind, s)),
             ssut' = [ssut EXCEPT
                        !.leg    = IF kind = "200" THEN "up" ELSE @,
                        !.media  = IF sdp = "none" THEN @ ELSE "full",
                        !.since  = IF sdp = "none" THEN @ ELSE now,
                        !.forgot = @ \/ s = "bad"],
             UNCHANGED toBob
      PROVE  Relayed(kind, s) /\ s \in {"none", "good", "bad"} /\ Followed
  <2>1. s \in {"none", "good", "bad"}
    BY <1>4 DEF Rewritten
  <2>2. /\ ssut'.leg = IF kind = "200" THEN "up" ELSE ssut.leg
        /\ ssut'.forgot = (ssut.forgot \/ s = "bad")
    BY <1>4 DEF Shape, SsutShape
  <2>3. QED
    BY <1>4, <2>1, <2>2 DEF Relayed, Followed
<1>5. QED
  BY <1>1, <1>2, <1>3, <1>4 DEF SsutFromBob

\* Whatever the SSuT tells Alice, she hears of every SDP that it forgot, as long
\* as Bob does not answer a call that is up.
LEMMA ToldKeeps ==
    ASSUME IInv, Noticed, UNCHANGED alice,
           \/ Silent \/ Closed
           \/ \E kind, s : Relayed(kind, s) /\ ssut.leg # "up"
    PROVE  /\ AliceWaits' /\ BadIsHeard'
           /\ BadAnswer => BadAnswer'
           /\ ssut'.forgot => ssut.forgot \/ BadAnswer'
<1>1. /\ toAlice \in Seq(AlertShape) /\ Len(toAlice) \in Nat /\ now \in Int
      /\ ssut.leg \in {"idle", "calling", "up", "over"}
  BY DEF Noticed, AliceWaits, IInv, Shape, SsutShape
<1>2. CASE Silent
  BY <1>2 DEF Silent, Noticed, AliceWaits, BadIsHeard, BadAnswer
<1>3. CASE Closed
  <2>1. Msg("end", "none") \in AlertShape /\ Msg("end", "none").sdp = "none"
    BY <1>1 DEF Msg, AlertShape
  <2>2. /\ toAlice' \in Seq(AlertShape) /\ Len(toAlice') = Len(toAlice) + 1
        /\ \A i \in 1..Len(toAlice) : toAlice'[i] = toAlice[i]
        /\ toAlice'[Len(toAlice) + 1].sdp = "none"
    BY <1>1, <1>3, <2>1, Behind DEF Closed
  <2>3. AliceWaits'
    BY <1>3, <2>2 DEF Closed, Noticed, AliceWaits
  <2>4. BadIsHeard'
    <3>1. ASSUME NEW i \in 1..Len(toAlice'), toAlice'[i].sdp = "bad"
          PROVE  i \in 1..Len(toAlice) /\ \A j \in 1..(i - 1) : j \in 1..Len(toAlice)
      BY <1>1, <2>2, <3>1
    <3>2. QED
      BY <2>2, <3>1 DEF Noticed, BadIsHeard
  <2>5. BadAnswer => BadAnswer'
    BY <1>1, <2>2 DEF BadAnswer
  <2>6. QED
    BY <1>3, <2>3, <2>4, <2>5 DEF Closed
<1>4. ASSUME NEW kind, NEW s, Relayed(kind, s), ssut.leg # "up"
      PROVE  /\ AliceWaits' /\ BadIsHeard'
             /\ BadAnswer => BadAnswer'
             /\ ssut'.forgot => ssut.forgot \/ BadAnswer'
  <2>1. /\ Msg(kind, s) \in AlertShape /\ Msg(kind, s).sdp = s
        /\ Msg(kind, s).kind = kind /\ kind \in {"180", "183", "200"}
    BY <1>1, <1>4 DEF Msg, AlertShape, Relayed
  <2>2. /\ toAlice' \in Seq(AlertShape) /\ Len(toAlice') = Len(toAlice) + 1
        /\ \A i \in 1..Len(toAlice) : toAlice'[i] = toAlice[i]
        /\ toAlice'[Len(toAlice) + 1] = Msg(kind, s)
    BY <1>1, <1>4, <2>1, Behind DEF Relayed
  <2>3. /\ alice.ua = "calling"
        /\ \A i \in 1..Len(toAlice) : toAlice[i].kind \notin {"200", "end"}
    BY <1>1, <1>4 DEF Noticed, AliceWaits, Relayed
  <2>4. AliceWaits'
    <3>1. ASSUME ssut'.leg \in {"idle", "calling"}
          PROVE  \A i \in 1..Len(toAlice') : toAlice'[i].kind \notin {"200", "end"}
      <4>1. kind # "200"
        BY <1>4, <3>1 DEF Relayed
      <4>2. QED
        BY <1>1, <2>1, <2>2, <2>3, <4>1
    <3>2. QED
      BY <2>2, <2>3, <3>1 DEF Noticed, AliceWaits
  <2>5. BadIsHeard'
    <3>1. ASSUME NEW i \in 1..Len(toAlice')
          PROVE  \A j \in 1..(i - 1) : toAlice'[j].kind \notin {"200", "end"}
      BY <1>1, <2>2, <2>3
    <3>2. \A i \in 1..Len(toAlice') : toAlice'[i].kind # "end"
      BY <1>1, <2>1, <2>2, <2>3
    <3>3. QED
      BY <2>3, <3>1, <3>2 DEF BadIsHeard
  <2>6. BadAnswer => BadAnswer'
    BY <1>1, <2>2 DEF BadAnswer
  <2>7. s = "bad" => BadAnswer'
    BY <1>1, <2>1, <2>2 DEF BadAnswer
  <2>8. QED
    BY <1>4, <2>4, <2>5, <2>6, <2>7 DEF Relayed
<1>5. QED
  BY <1>2, <1>3, <1>4

\* An offer on its way to Bob stays there when something is sent after it.
LEMMA OfferStays ==
    ASSUME IInv, Followed
    PROVE  BadOffer => BadOffer'
<1>1. toBob \in Seq(MsgShape) /\ Len(toBob) \in Nat
  BY DEF IInv, Shape
<1>2. Msg("CANCEL", "none") \in MsgShape /\ Msg("BYE", "none") \in MsgShape
  BY EndIsNoInvite DEF IInv, Shape
<1>3. /\ Len(toBob') \in Nat /\ Len(toBob) <= Len(toBob')
      /\ \A i \in 1..Len(toBob) : toBob'[i] = toBob[i]
  BY <1>1, <1>2, Behind DEF Followed
<1>4. QED
  BY <1>1, <1>3 DEF BadOffer

\* A timer leaves connect_done and the answer as they are.
LEMMA TimerKeepsAnswer ==
    ASSUME NEW side \in SideShape, NEW cb, NEW ival
    PROVE  /\ Arm(side, cb, ival).answered = side.answered
           /\ Arm(side, cb, ival).flags = side.flags
           /\ Arm(side, cb, ival).ua = side.ua
BY DEF SideShape, Arm

\* So do its absence and an end, and ring_done.
LEMMA EndKeepsAnswer ==
    ASSUME NEW side \in SideShape
    PROVE  /\ Fired(side).answered = side.answered
           /\ Ended(side).answered = side.answered
           /\ Ended(side).flags.connect = side.flags.connect
           /\ [side EXCEPT !.flags.ring = TRUE].answered = side.answered
           /\ [side EXCEPT !.flags.ring = TRUE].flags.connect = side.flags.connect
           /\ [side EXCEPT !.flags.connect = TRUE].flags.connect
BY DEF SideShape, Flags, Fired, Ended

\* And a report.
LEMMA ReportKeepsAnswer ==
    ASSUME NEW side \in SideShape, NEW content
    PROVE  Reported(side, content).answered = side.answered
BY DEF SideShape, Reported

\* A step of Bob's with a user agent of his own.
LEMMA BobMoves ==
    ASSUME IInv, Noticed, UNCHANGED alice, Followed,
           bob.ua \notin {"idle", "stranded"}, bob'.ua \notin {"idle", "stranded"},
           bob'.flags.connect => bob'.answered,
           bob.flags.connect => bob'.flags.connect,
           ssut'.leg = "up" => ssut.leg = "up" \/ bob'.flags.connect,
           \/ Silent \/ Closed
           \/ \E kind, s : Relayed(kind, s) /\ ssut.leg # "up"
    PROVE  Noticed'
<1>1. /\ AliceWaits' /\ BadIsHeard'
      /\ BadAnswer => BadAnswer'
      /\ ssut'.forgot => ssut.forgot \/ BadAnswer'
  BY ToldKeeps
<1>2. BadOffer => BadOffer'
  BY OfferStays
<1>3. ForgottenShows'
  BY <1>1, <1>2 DEF Noticed, ForgottenShows
<1>4. BobAnswers'
  BY DEF Noticed, BobAnswers
<1>5. QED
  BY <1>1, <1>3, <1>4 DEF Noticed

\* A timer of Bob's, or the end of his call, finds a user agent.
LEMMA BobHasAgent ==
    ASSUME Noticed, NEW cb \in {"ring", "connect", "disconnect"}, Due(bob, cb)
    PROVE  bob.ua \notin {"idle", "stranded"}
BY DEF Noticed, BobAnswers, Due

\* A timer that finds nothing to do.
LEMMA BobIdlesNoticed ==
    ASSUME IInv, Noticed, bob.ua \notin {"idle", "stranded"}, bob' = Fired(bob),
           UNCHANGED <<alice, ssut, toAlice, toBob>>
    PROVE  Noticed'
<1>1. /\ bob'.ua = bob.ua /\ bob'.flags = bob.flags /\ bob'.answered = bob.answered
  BY BobFired, EndKeepsAnswer DEF IInv, Shape
<1>2. Followed /\ Silent
  BY DEF Followed, Silent
<1>3. QED
  BY <1>1, <1>2, BobMoves DEF Noticed, BobAnswers

\* ring(): it tells Alice of a call that is not up.
LEMMA BobRingNoticed ==
    ASSUME IInv, Noticed, BobRing
    PROVE  Noticed'
<1> DEFINE quiet == bob.flags.connect \/ bob.flags.disconnect
           rung == [Fired(bob) EXCEPT !.flags.ring = TRUE]
<1>1. UNCHANGED alice /\ bob.ua \notin {"idle", "stranded"}
  BY BobHasAgent DEF BobRing
<1>2. CASE bob' = Fired(bob) /\ UNCHANGED <<ssut, toAlice, toBob>>
  BY <1>1, <1>2, BobIdlesNoticed
<1>3. /\ rung \in SideShape /\ rung.ua = bob.ua
      /\ rung.flags.connect = bob.flags.connect /\ rung.answered = bob.answered
  <2>1. /\ Fired(bob) \in SideShape /\ Fired(bob).ua = bob.ua
        /\ Fired(bob).flags = bob.flags /\ Fired(bob).answered = bob.answered
    BY BobFired, EndKeepsAnswer DEF IInv, Shape
  <2>2. QED
    BY <2>1, FlagSet, EndKeepsAnswer
<1>4. CASE /\ bob' = [Ended(rung) EXCEPT !.flags.connect = TRUE, !.answered = TRUE]
           /\ SsutFromBob("reject", "none")
  <2> HIDE DEF rung
  <2>1. Ended(rung) \in SideShape /\ Ended(rung).ua = "ended"
    BY <1>3, EndedShape DEF IInv, Shape
  <2>2. bob'.ua = "ended" /\ bob'.flags.connect /\ bob'.answered
    BY <1>4, <2>1 DEF SideShape, Flags
  <2>3. /\ Followed
        /\ \/ Silent \/ Closed
           \/ \E s \in {"none", "good", "bad"} : Relayed("reject", s)
    BY <1>4, FromBobTells DEF IInv
  <2>4. Silent \/ Closed
    BY <2>3 DEF Relayed
  <2>5. QED
    BY <1>1, <2>2, <2>3, <2>4, BobMoves
<1>5. ASSUME ~quiet, bob' = Arm(rung, "connect", scn.answer),
             NEW kind \in {"180", "183"}, NEW sdp \in {"none", "good", "crippled"},
             SsutFromBob(kind, sdp)
      PROVE  Noticed'
  <2> HIDE DEF rung
  <2>1. /\ bob'.ua = bob.ua /\ bob'.flags.connect = bob.flags.connect
        /\ bob'.answered = bob.answered
    BY <1>3, <1>5, TimerKeepsAnswer
  <2>2. ssut.leg # "up"
    BY <1>5 DEF Noticed, BobAnswers
  <2>3. /\ Followed
        /\ \/ Silent \/ Closed
           \/ \E s \in {"none", "good", "bad"} : Relayed(kind, s)
    BY <1>5, FromBobTells DEF IInv
  <2>4. ssut'.leg # "up"
    BY <2>2, <2>3 DEF Silent, Closed, Relayed
  <2>5. bob'.flags.connect => bob'.answered
    BY <2>1 DEF Noticed, BobAnswers
  <2>6. QED
    BY <1>1, <2>1, <2>2, <2>3, <2>4, <2>5, BobMoves
<1>6. CASE /\ ~quiet /\ RingKind(scn.cls) # "reject"
           /\ bob' = Arm(rung, "connect", scn.answer)
           /\ CASE RingKind(scn.cls) = "180" -> SsutFromBob("180", "none")
                [] RingKind(scn.cls) = "183" -> SsutFromBob("183", "good")
                [] RingKind(scn.cls) = "crippled" -> SsutFromBob("183", "crippled")
  <2>1. RingKind(scn.cls) \in {"180", "183", "crippled"}
    BY <1>6 DEF RingKind
  <2>2. \E kind \in {"180", "183"}, sdp \in {"none", "good", "crippled"} :
            SsutFromBob(kind, sdp)
    BY <1>6, <2>1
  <2>3. QED
    BY <1>5, <1>6, <2>2
<1>7. QED
  BY <1>2, <1>4, <1>6 DEF BobRing

\* connect(): with the right guard, connect_done goes with an answer; an answer
\* is the first.
LEMMA BobConnectNoticed ==
    ASSUME IInv, Noticed, BobConnect
    PROVE  Noticed'
<1> DEFINE done == [Fired(bob) EXCEPT !.flags.connect = TRUE]
<1>1. UNCHANGED alice /\ bob.ua \notin {"idle", "stranded"}
  BY BobHasAgent DEF BobConnect
<1>2. CASE bob' = Fired(bob) /\ UNCHANGED <<ssut, toAlice, toBob>>
  BY <1>1, <1>2, BobIdlesNoticed
<1>3. /\ done \in SideShape /\ done.ua = bob.ua /\ done.flags.connect
  BY BobFired, FlagSet, EndKeepsAnswer DEF IInv, Shape
<1>4. ASSUME ConnectGuard(scn.cls, bob.flags)
      PROVE  Alive(bob) /\ ssut.leg # "up"
  <2>1. ~bob.flags.disconnect /\ ~bob.flags.connect
    BY <1>4 DEF ConnectGuard, IInv, Shape
  <2>2. bob.ua \in {"calling", "up"}
    BY <1>1, <2>1 DEF IInv, Shape, SideShape, Agents, BobTruthful, Truthful
  <2>3. QED
    BY <2>1, <2>2 DEF Alive, Noticed, BobAnswers
<1>5. CASE /\ bob' = [Ended(done) EXCEPT !.answered = TRUE]
           /\ SsutFromBob("reject", "none")
  <2> HIDE DEF done
  <2>1. /\ Ended(done) \in SideShape /\ Ended(done).ua = "ended"
        /\ Ended(done).flags.connect
    BY <1>3, EndedShape, EndKeepsAnswer DEF IInv, Shape
  <2>2. bob'.ua = "ended" /\ bob'.flags.connect /\ bob'.answered
    BY <1>5, <2>1 DEF SideShape
  <2>3. /\ Followed
        /\ \/ Silent \/ Closed
           \/ \E s \in {"none", "good", "bad"} : Relayed("reject", s)
    BY <1>5, FromBobTells DEF IInv
  <2>4. Silent \/ Closed
    BY <2>3 DEF Relayed
  <2>5. QED
    BY <1>1, <2>2, <2>3, <2>4, BobMoves
<1>6. CASE /\ ConnectGuard(scn.cls, bob.flags)
           /\ bob' = Arm([done EXCEPT !.ua = "up", !.answered = TRUE],
                         "disconnect", scn.hang)
           /\ SsutFromBob("200", "good")
  <2> HIDE DEF done
  <2> DEFINE up == [done EXCEPT !.ua = "up", !.answered = TRUE]
  <2>1. up \in SideShape /\ up.ua = "up" /\ up.flags.connect /\ up.answered
    BY <1>3 DEF SideShape, Agents
  <2>2. bob' = Arm(up, "disconnect", scn.hang)
    BY <1>6
  <2> HIDE DEF up
  <2>3. bob'.ua = "up" /\ bob'.flags.connect /\ bob'.answered
    BY <2>1, <2>2, TimerKeepsAnswer
  <2>4. /\ Followed
        /\ \/ Silent \/ Closed
           \/ \E s \in {"none", "good", "bad"} : Relayed("200", s)
    BY <1>6, FromBobTells DEF IInv
  <2>5. QED
    BY <1>1, <1>4, <1>6, <2>3, <2>4, BobMoves
<1>7. QED
  BY <1>2, <1>4, <1>5, <1>6 DEF BobConnect

\* disconnect(): a BYE.
LEMMA BobDisconnectNoticed ==
    ASSUME IInv, Noticed, BobDisconnect
    PROVE  Noticed'
<1>1. UNCHANGED alice /\ bob.ua \notin {"idle", "stranded"}
  BY BobHasAgent DEF BobDisconnect
<1>2. CASE bob.flags.disconnect
  BY <1>1, <1>2, BobIdlesNoticed DEF BobDisconnect
<1>3. CASE ~bob.flags.disconnect
  <2>1. bob' = Ended(Fired(bob)) /\ SsutFromBob("BYE", "none")
    BY <1>3 DEF BobDisconnect
  <2>2. /\ bob'.ua = "ended" /\ bob'.flags.connect = bob.flags.connect
        /\ bob'.answered = bob.answered
    <3>1. /\ Fired(bob) \in SideShape /\ Fired(bob).flags = bob.flags
          /\ Fired(bob).answered = bob.answered /\ now \in Nat
      BY BobFired, EndKeepsAnswer DEF IInv, Shape
    <3>2. QED
      BY <2>1, <3>1, EndedShape, EndKeepsAnswer
  <2>3. /\ Followed
        /\ \/ Silent \/ Closed
           \/ \E s \in {"none", "good", "bad"} : Relayed("BYE", s)
    BY <2>1, FromBobTells DEF IInv
  <2>4. Silent \/ Closed
    BY <2>3 DEF Relayed
  <2>5. ssut'.leg = "up" => ssut.leg = "up"
    BY <2>4 DEF Silent, Closed
  <2>6. bob'.flags.connect => bob'.answered
    BY <2>2 DEF Noticed, BobAnswers
  <2>7. QED
    BY <1>1, <2>2, <2>3, <2>4, <2>5, <2>6, BobMoves
<1>4. QED
  BY <1>2, <1>3

\* Bob's report.
LEMMA BobDeadNoticed ==
    ASSUME IInv, Noticed, BobDead
    PROVE  Noticed'
<1> DEFINE content == BobContent(scn.cls, bob.flags, scn.mightfail)
<1>1. content \in BOOLEAN
  BY ContentIsBoolean DEF IInv, Shape, SideShape, ScnShape
<1>2. bob' = Reported(bob, content) /\ bob.ua = "ended"
  BY DEF BobDead
<1>3. UNCHANGED <<alice, ssut, toAlice, toBob>>
  BY DEF BobDead
<1> HIDE DEF content
<1>4. bob'.ua = "dead" /\ bob'.flags = bob.flags /\ bob'.answered = bob.answered
  BY <1>1, <1>2, ReportedShape, ReportKeepsAnswer DEF IInv, Shape
<1>5. Followed /\ Silent
  BY <1>3 DEF Followed, Silent
<1>6. QED
  BY <1>2, <1>3, <1>4, <1>5, BobMoves DEF Noticed, BobAnswers

\* A step that Bob and the queue to him stay out of.
LEMMA BobApart ==
    ASSUME Noticed, UNCHANGED bob, ssut'.leg = "up" => ssut.leg = "up"
    PROVE  BobAnswers'
BY DEF Noticed, BobAnswers

\* The INVITE: an SDP as it was strands Bob, another gives him a user agent.
LEMMA BobAnswerNoticed ==
    ASSUME IInv, Noticed, BobAnswer
    PROVE  Noticed'
<1>1. /\ toBob # <<>> /\ Head(toBob).kind = "INVITE" /\ toBob' = Tail(toBob)
      /\ UNCHANGED <<alice, ssut, toAlice>>
  BY DEF BobAnswer, ReceiveBob
<1>2. /\ Head(toBob) = toBob[1] /\ Len(toBob) \in Nat \ {0}
      /\ toBob \in Seq(MsgShape)
  BY <1>1, Ahead DEF IInv, Shape
<1>3. bob.ua = "idle" /\ bob.timer = "none" /\ bob \in SideShape
  BY <1>1, <1>2 DEF IInv, Shape, InviteFirst, IdleBobWaits
<1>4. BadOffer => Head(toBob).sdp = "bad"
  BY <1>2 DEF BadOffer, IInv, InviteFirst
<1>5. CASE Head(toBob).sdp = "bad"
  <2>1. bob' = [bob EXCEPT !.ua = "stranded",
                  !.flags = [bob.flags EXCEPT !.nerrs = bob.flags.nerrs + 1]]
    BY <1>3, <1>5 DEF BobAnswer, SideShape, Flags
  <2>2. /\ bob'.ua = "stranded" /\ bob'.timer = "none"
        /\ bob'.answered = bob.answered
        /\ bob'.flags = [bob.flags EXCEPT !.nerrs = bob.flags.nerrs + 1]
    BY <1>3, <2>1 DEF SideShape
  <2>3. bob'.flags.connect = bob.flags.connect
    BY <1>3, <2>2 DEF SideShape, Flags
  <2>4. QED
    BY <1>1, <2>2, <2>3 DEF Noticed, BobAnswers, AliceWaits, BadIsHeard,
       ForgottenShows
<1>6. CASE Head(toBob).sdp # "bad"
  <2> DEFINE calling == [bob EXCEPT !.ua = "calling"]
  <2>1. /\ calling \in SideShape /\ calling.ua = "calling"
        /\ calling.flags = bob.flags /\ calling.answered = bob.answered
    BY <1>3 DEF SideShape, Agents
  <2>2. bob' = Arm(calling, "ring", RingIval(scn.cls))
    BY <1>6 DEF BobAnswer
  <2> HIDE DEF calling
  <2>3. /\ bob'.ua = "calling" /\ bob'.flags = bob.flags
        /\ bob'.answered = bob.answered
    BY <2>1, <2>2, TimerKeepsAnswer
  <2>4. ~BadOffer /\ bob.ua # "stranded"
    BY <1>3, <1>4, <1>6
  <2>5. QED
    BY <1>1, <2>3, <2>4 DEF Noticed, BobAnswers, AliceWaits, BadIsHeard,
       ForgottenShows, BadAnswer
<1>7. QED
  BY <1>5, <1>6

\* The end of Bob's call: no offer is behind it.
LEMMA BobHungUpNoticed ==
    ASSUME IInv, Noticed, BobHungUp
    PROVE  Noticed'
<1>1. /\ toBob # <<>> /\ Head(toBob).kind \in {"CANCEL", "BYE"}
      /\ UNCHANGED <<alice, ssut, toAlice>>
      /\ bob' = bob \/ (bob' = Ended(bob) /\ bob.ua \in {"up", "calling"})
  BY DEF BobHungUp, ReceiveBob
<1>2. /\ Head(toBob) = toBob[1] /\ Len(toBob) \in Nat \ {0}
  BY <1>1, Ahead DEF IInv, Shape
<1>3. ~BadOffer
  BY <1>1, <1>2 DEF BadOffer, IInv, InviteFirst
<1>4. /\ bob' = bob \/ (bob'.ua = "ended" /\ bob.ua \in {"up", "calling"})
      /\ bob'.answered = bob.answered /\ bob'.flags.connect = bob.flags.connect
  BY <1>1, EndedShape, EndKeepsAnswer DEF IInv, Shape
<1>5. BobAnswers'
  BY <1>1, <1>4 DEF Noticed, BobAnswers
<1>6. AliceWaits' /\ BadIsHeard'
  BY <1>1 DEF Noticed, AliceWaits, BadIsHeard
<1>7. ForgottenShows'
  BY <1>1, <1>3, <1>4 DEF Noticed, ForgottenShows, BadAnswer
<1>8. QED
  BY <1>5, <1>6, <1>7 DEF Noticed

\* Alice hears a message: the others move up, and stay as they are.
LEMMA AliceHears ==
    ASSUME IInv, Noticed, toAlice # <<>>, toAlice' = Tail(toAlice),
           UNCHANGED <<bob, ssut, toBob>>,
           alice.flags.nerrs > 0 => alice'.flags.nerrs > 0,
           toAlice[1].sdp = "bad" => alice'.flags.nerrs > 0,
           alice'.ua = "calling" => alice'.timer = "none",
           IF toAlice[1].kind \in {"200", "end"}
           THEN ssut.leg \notin {"idle", "calling"}
           ELSE alice'.ua = alice.ua
    PROVE  Noticed'
<1>1. /\ toAlice' \in Seq(AlertShape) /\ Len(toAlice) \in Nat \ {0}
      /\ Len(toAlice') = Len(toAlice) - 1
      /\ \A i \in 1..Len(toAlice') : toAlice'[i] = toAlice[i + 1]
  BY Ahead DEF Noticed, AliceWaits
<1>2. BobAnswers'
  BY DEF Noticed, BobAnswers
<1>3. AliceWaits'
  <2>1. ASSUME ssut.leg \in {"idle", "calling"}
        PROVE  /\ alice'.ua = "calling"
               /\ \A i \in 1..Len(toAlice') : toAlice'[i].kind \notin {"200", "end"}
    <3>1. /\ alice.ua = "calling"
          /\ \A i \in 1..Len(toAlice) : toAlice[i].kind \notin {"200", "end"}
      BY <2>1 DEF Noticed, AliceWaits
    <3>2. alice'.ua = "calling"
      BY <2>1, <3>1
    <3>3. QED
      BY <1>1, <3>1, <3>2
  <2>2. QED
    BY <1>1, <2>1 DEF AliceWaits
<1>4. BadIsHeard'
  <2>1. ASSUME NEW i \in 1..Len(toAlice'), toAlice'[i].sdp = "bad"
        PROVE  /\ toAlice'[i].kind # "end" /\ alice'.ua = "calling"
               /\ \A j \in 1..(i - 1) : toAlice'[j].kind \notin {"200", "end"}
    <3>1. /\ i + 1 \in 1..Len(toAlice) /\ toAlice[i + 1].sdp = "bad"
          /\ toAlice[i + 1] = toAlice'[i]
      BY <1>1, <2>1
    <3>2. /\ toAlice[i + 1].kind # "end" /\ alice.ua = "calling"
          /\ \A j \in 1..i : toAlice[j].kind \notin {"200", "end"}
      <4>1. (i + 1) - 1 = i
        OBVIOUS
      <4>2. QED
        BY <3>1, <4>1 DEF Noticed, BadIsHeard
    <3>3. toAlice[1].kind \notin {"200", "end"}
      BY <3>2
    <3>4. \A j \in 1..(i - 1) : j + 1 \in 1..i /\ toAlice'[j] = toAlice[j + 1]
      BY <1>1, <3>1
    <3>5. QED
      BY <3>1, <3>2, <3>3, <3>4
  <2>2. QED
    BY <2>1 DEF BadIsHeard
<1>5. ForgottenShows'
  <2>1. ASSUME BadAnswer PROVE BadAnswer' \/ alice'.flags.nerrs > 0
    <3>1. PICK i \in 1..Len(toAlice) : toAlice[i].sdp = "bad"
      BY <2>1 DEF BadAnswer
    <3>2. CASE i # 1
      <4>1. i - 1 \in 1..Len(toAlice') /\ (i - 1) + 1 = i
        BY <1>1, <3>2
      <4>2. toAlice'[i - 1].sdp = "bad"
        BY <1>1, <3>1, <4>1
      <4>3. QED
        BY <4>1, <4>2 DEF BadAnswer
    <3>3. QED
      BY <3>1, <3>2
  <2>2. QED
    BY <2>1 DEF Noticed, ForgottenShows, BadOffer
<1>6. QED
  BY <1>2, <1>3, <1>4, <1>5 DEF Noticed

\* A message for Alice is there while the session has an answer or an end.
LEMMA AnswerHasCome ==
    ASSUME Noticed, toAlice # <<>>, Head(toAlice).kind \in {"200", "end"}
    PROVE  ssut.leg \notin {"idle", "calling"}
<1>1. Head(toAlice) = toAlice[1] /\ Len(toAlice) \in Nat \ {0}
  BY Ahead DEF Noticed, AliceWaits
<1>2. QED
  BY <1>1 DEF Noticed, AliceWaits

\* recvEvent() counts.
LEMMA Counted ==
    ASSUME NEW flags \in Flags, NEW m
    PROVE  /\ flags.nerrs + Errs(m) \in Nat
           /\ flags.nerrs > 0 => flags.nerrs + Errs(m) > 0
           /\ m.sdp = "bad" => flags.nerrs + Errs(m) > 0
BY DEF Flags, Errs

\* A ring.
LEMMA AliceRingsNoticed ==
    ASSUME IInv, Noticed, AliceRings
    PROVE  Noticed'
<1>1. /\ toAlice # <<>> /\ Head(toAlice).kind \in {"180", "183"}
      /\ toAlice' = Tail(toAlice) /\ UNCHANGED <<bob, ssut, toBob>>
  BY DEF AliceRings
<1>2. Head(toAlice) = toAlice[1] /\ Len(toAlice) \in Nat \ {0}
  BY <1>1, Ahead DEF Noticed, AliceWaits
<1>3. alice \in SideShape /\ alice.flags \in Flags
  BY DEF IInv, Shape, SideShape
<1>4. CASE alice.ua = "calling"
  <2> DEFINE ring2 == alice.flags.ring \/ ~ExpectsNoProgress(scn.cls)
             nerrs2 == alice.flags.nerrs + Errs(Head(toAlice))
  <2>1. alice' = [alice EXCEPT !.flags =
                    [alice.flags EXCEPT !.ring = ring2, !.nerrs = nerrs2]]
    BY <1>3, <1>4 DEF AliceRings, SideShape, Flags
  <2>2. /\ alice.flags.nerrs > 0 => nerrs2 > 0
        /\ toAlice[1].sdp = "bad" => nerrs2 > 0
    BY <1>2, <1>3, Counted
  <2> HIDE DEF ring2, nerrs2
  <2>3. /\ alice'.ua = alice.ua /\ alice'.timer = alice.timer
        /\ alice'.flags = [alice.flags EXCEPT !.ring = ring2, !.nerrs = nerrs2]
    BY <1>3, <2>1 DEF SideShape
  <2>4. alice'.flags.nerrs = nerrs2
    BY <1>3, <2>3 DEF Flags
  <2>5. alice'.ua = "calling" => alice'.timer = "none"
    BY <2>3 DEF Noticed, AliceWaits
  <2>6. QED
    BY <1>1, <1>2, <2>2, <2>3, <2>4, <2>5, AliceHears
<1>5. CASE alice.ua # "calling"
  <2>1. alice' = alice
    BY <1>5 DEF AliceRings
  <2>2. toAlice[1].sdp # "bad"
    BY <1>2, <1>5 DEF Noticed, BadIsHeard
  <2>3. QED
    BY <1>1, <1>2, <1>5, <2>1, <2>2, AliceHears
<1>6. QED
  BY <1>4, <1>5

\* A 100.
LEMMA AliceTryingNoticed ==
    ASSUME IInv, Noticed, AliceTrying
    PROVE  Noticed'
<1> DEFINE flags2 == [alice.flags EXCEPT !.ring = TRUE]
<1>1. alice \in SideShape /\ alice.flags \in Flags
  BY DEF IInv, Shape, SideShape
<1>2. flags2.nerrs = alice.flags.nerrs
  BY <1>1 DEF Flags
<1>3. /\ alice' = [alice EXCEPT !.flags = flags2]
      /\ UNCHANGED <<bob, ssut, toAlice, toBob>>
  BY <1>1 DEF AliceTrying, SideShape
<1> HIDE DEF flags2
<1>4. /\ alice'.ua = alice.ua /\ alice'.timer = alice.timer
      /\ alice'.flags.nerrs = alice.flags.nerrs
  BY <1>1, <1>2, <1>3 DEF SideShape
<1>5. QED
  BY <1>3, <1>4 DEF Noticed, BobAnswers, AliceWaits, BadIsHeard, ForgottenShows,
                    BadAnswer, BadOffer

\* The answer.
LEMMA AliceConnectedNoticed ==
    ASSUME IInv, Noticed, AliceConnected
    PROVE  Noticed'
<1>1. /\ toAlice # <<>> /\ Head(toAlice).kind = "200"
      /\ toAlice' = Tail(toAlice) /\ UNCHANGED <<bob, ssut, toBob>>
  BY DEF AliceConnected
<1>2. Head(toAlice) = toAlice[1] /\ Len(toAlice) \in Nat \ {0}
  BY <1>1, Ahead DEF Noticed, AliceWaits
<1>3. /\ alice \in SideShape /\ alice.flags \in Flags
      /\ ssut.leg \notin {"idle", "calling"}
  BY <1>1, AnswerHasCome DEF IInv, Shape, SideShape
<1>4. CASE alice.ua = "calling"
  <2> DEFINE nerrs2 == alice.flags.nerrs + Errs(Head(toAlice))
             flags2 == [alice.flags EXCEPT !.connect = TRUE, !.nerrs = nerrs2]
             up == [alice EXCEPT !.ua = "up", !.flags = flags2]
  <2>1. alice' = Arm(up, "disconnect", AliceDisconnectIval(scn.cls))
    BY <1>3, <1>4 DEF AliceConnected, SideShape, Flags
  <2>2. /\ alice.flags.nerrs > 0 => nerrs2 > 0
        /\ toAlice[1].sdp = "bad" => nerrs2 > 0
        /\ nerrs2 \in Nat
    BY <1>2, <1>3, Counted
  <2> HIDE DEF nerrs2
  <2>3. flags2 \in Flags /\ flags2.nerrs = nerrs2
    BY <1>3, <2>2 DEF Flags
  <2> HIDE DEF flags2
  <2>4. up \in SideShape /\ up.ua = "up" /\ up.flags = flags2
    BY <1>3, <2>3 DEF SideShape, Agents
  <2> HIDE DEF up
  <2>5. alice'.ua = "up" /\ alice'.flags.nerrs = nerrs2
    BY <2>1, <2>3, <2>4, TimerKeepsAnswer
  <2>6. QED
    BY <1>1, <1>2, <1>3, <2>2, <2>5, AliceHears
<1>5. CASE alice.ua # "calling"
  <2>1. alice' = alice
    BY <1>5 DEF AliceConnected
  <2>2. toAlice[1].sdp # "bad"
    BY <1>2, <1>5 DEF Noticed, BadIsHeard
  <2>3. QED
    BY <1>1, <1>2, <1>3, <1>5, <2>1, <2>2, AliceHears
<1>6. QED
  BY <1>4, <1>5

\* The end of Alice's call.
LEMMA AliceHungUpNoticed ==
    ASSUME IInv, Noticed, AliceHungUp
    PROVE  Noticed'
<1>1. /\ toAlice # <<>> /\ Head(toAlice).kind = "end"
      /\ toAlice' = Tail(toAlice) /\ UNCHANGED <<bob, ssut, toBob>>
  BY DEF AliceHungUp
<1>2. Head(toAlice) = toAlice[1] /\ Len(toAlice) \in Nat \ {0}
  BY <1>1, Ahead DEF Noticed, AliceWaits
<1>3. /\ alice \in SideShape /\ alice.flags \in Flags /\ now \in Nat
      /\ ssut.leg \notin {"idle", "calling"}
      /\ toAlice[1].sdp # "bad"
  BY <1>1, <1>2, AnswerHasCome DEF IInv, Shape, SideShape, Noticed, BadIsHeard
<1>4. CASE Alive(alice)
  <2> DEFINE more == ExpectsNoProgress(scn.cls) /\ alice.flags.connect
             nerrs2 == IF more THEN alice.flags.nerrs + 1 ELSE alice.flags.nerrs
             over == [alice.flags EXCEPT !.disconnect = TRUE]
             flags2 == [over EXCEPT !.nerrs = nerrs2]
  <2>1. over \in Flags /\ over.nerrs = alice.flags.nerrs
    BY <1>3 DEF Flags
  <2>2. Ended(alice) = [alice EXCEPT !.ua = "ended", !.ended = now, !.flags = over]
    BY <1>3 DEF SideShape, Ended
  <2> HIDE DEF over
  <2>3. /\ Ended(alice).ua = "ended" /\ Ended(alice).flags = over
        /\ Ended(alice) \in SideShape
    BY <1>3, <2>2, EndedShape DEF SideShape
  <2>4. alice' = [Ended(alice) EXCEPT !.flags = flags2]
    BY <1>4, <2>1, <2>3 DEF AliceHungUp, SideShape, Flags
  <2>5. alice.flags.nerrs > 0 => nerrs2 > 0
    BY <1>3 DEF Flags
  <2> HIDE DEF nerrs2
  <2>6. flags2.nerrs = nerrs2
    BY <2>1 DEF Flags
  <2> HIDE DEF flags2
  <2>7. alice'.ua = "ended" /\ alice'.flags = flags2
    BY <2>3, <2>4 DEF SideShape
  <2>8. QED
    BY <1>1, <1>2, <1>3, <2>5, <2>6, <2>7, AliceHears
<1>5. CASE ~Alive(alice)
  <2>1. alice' = alice /\ alice.ua # "calling"
    BY <1>5 DEF AliceHungUp, Alive
  <2>2. QED
    BY <1>1, <1>2, <1>3, <2>1, AliceHears
<1>6. QED
  BY <1>4, <1>5

\* A step of Alice's that takes nothing from the queue to her, once the session
\* has an answer or an end.
LEMMA AliceMoves ==
    ASSUME IInv, Noticed, UNCHANGED <<bob, toAlice>>, Followed,
           ssut'.leg \in {"up", "over"}, ssut'.leg = "up" => ssut.leg = "up",
           ssut'.forgot = ssut.forgot,
           alice.ua # "calling", alice'.ua # "calling",
           alice'.flags.nerrs = alice.flags.nerrs
    PROVE  Noticed'
<1>1. BobAnswers'
  BY BobApart
<1>2. AliceWaits' /\ BadIsHeard'
  BY DEF Noticed, AliceWaits, BadIsHeard
<1>3. BadOffer => BadOffer'
  BY OfferStays
<1>4. ForgottenShows'
  BY <1>3 DEF Noticed, ForgottenShows, BadAnswer
<1>5. QED
  BY <1>1, <1>2, <1>4 DEF Noticed

\* Once Alice has stopped calling, the session has an answer or an end.
LEMMA NotCalling ==
    ASSUME IInv, Noticed, alice.ua # "calling"
    PROVE  ssut.leg \in {"up", "over"}
BY DEF IInv, Shape, SsutShape, Noticed, AliceWaits

\* a_test1.disconnect(): a BYE, if there is a session to end.
LEMMA AliceDisconnectNoticed ==
    ASSUME IInv, Noticed, AliceDisconnect
    PROVE  Noticed'
<1>1. /\ alice.timer = "disconnect" /\ UNCHANGED <<bob, toAlice>>
  BY DEF AliceDisconnect, Due
<1>2. alice.ua # "calling" /\ ssut.leg \in {"up", "over"}
  BY <1>1, NotCalling DEF Noticed, AliceWaits
<1> DEFINE idle == Fired(alice)
<1>3. /\ idle \in SideShape /\ idle.ua = alice.ua /\ idle.flags = alice.flags
  <2>1. "none" \in Timers /\ 0 \in Int
    BY DEF Timers
  <2>2. QED
    BY <2>1, TimerShape DEF IInv, Shape
<1>4. CASE alice.flags.disconnect
  <2>1. alice' = idle /\ UNCHANGED <<ssut, toBob>>
    BY <1>4 DEF AliceDisconnect
  <2> HIDE DEF idle
  <2>2. QED
    BY <1>1, <1>2, <1>3, <2>1, AliceMoves DEF Followed
<1>5. CASE ~alice.flags.disconnect
  <2>1. alice' = Ended(idle) /\ SsutFromAlice
    BY <1>5 DEF AliceDisconnect
  <2> HIDE DEF idle
  <2>2. alice'.ua = "ended" /\ alice'.flags.nerrs = alice.flags.nerrs
    <3>1. idle.flags \in Flags /\ now \in Nat
      BY <1>3 DEF SideShape, IInv, Shape
    <3>2. Ended(idle) = [idle EXCEPT !.ua = "ended", !.ended = now,
                          !.flags = [idle.flags EXCEPT !.disconnect = TRUE]]
      BY <1>3 DEF SideShape, Ended
    <3>3. /\ Ended(idle).ua = "ended"
          /\ Ended(idle).flags = [idle.flags EXCEPT !.disconnect = TRUE]
      BY <1>3, <3>2 DEF SideShape
    <3>4. QED
      BY <1>3, <2>1, <3>1, <3>3 DEF Flags
  <2>3. /\ Followed /\ ssut'.forgot = ssut.forgot
        /\ ssut' = ssut \/ ssut'.leg = "over"
    BY <2>1, OverForgets DEF SsutFromAlice, Followed, IInv, Shape
  <2>4. QED
    BY <1>1, <1>2, <2>2, <2>3, AliceMoves
<1>6. QED
  BY <1>4, <1>5

\* Alice's report.
LEMMA AliceDeadNoticed ==
    ASSUME IInv, Noticed, AliceDead
    PROVE  Noticed'
<1> DEFINE content == AliceContent(scn.cls, alice.flags, scn.mightfail)
<1>1. content \in BOOLEAN
  BY ContentIsBoolean DEF IInv, Shape, SideShape, ScnShape
<1>2. /\ alice' = Reported(alice, content) /\ alice.ua = "ended"
      /\ UNCHANGED <<bob, ssut, toAlice, toBob>>
  BY DEF AliceDead
<1> HIDE DEF content
<1>3. alice'.ua = "dead" /\ alice'.flags = alice.flags
  BY <1>1, <1>2, ReportedShape DEF IInv, Shape
<1>4. ssut.leg \in {"up", "over"}
  BY <1>2, NotCalling
<1>5. QED
  BY <1>2, <1>3, <1>4, AliceMoves DEF Followed

\* The INVITE is on its way, with what the SSuT made of its SDP.
LEMMA SsutInviteNoticed ==
    ASSUME IInv, Noticed, SsutInvite
    PROVE  Noticed'
<1>1. /\ toBob = <<>> /\ ssut.leg = "idle" /\ UNCHANGED <<alice, bob, toAlice>>
  BY DEF SsutInvite, IInv, NothingOffered
<1>2. PICK sdp \in Rewritten("good") :
        /\ toBob' = Append(toBob, Msg("INVITE", sdp))
        /\ ssut' = [ssut EXCEPT !.leg = "calling", !.media = "half",
                                !.since = now, !.forgot = sdp = "bad"]
  BY DEF SsutInvite
<1>3. /\ ssut'.leg = "calling" /\ ssut'.forgot = (sdp = "bad")
  BY <1>2 DEF IInv, Shape, SsutShape
<1>4. /\ Len(toBob') = 1 /\ toBob'[1].kind = "INVITE" /\ toBob'[1].sdp = sdp
  BY <1>1, <1>2 DEF Msg
<1>5. sdp = "bad" => BadOffer'
  BY <1>4 DEF BadOffer
<1>6. QED
  BY <1>1, <1>3, <1>5 DEF Noticed, BobAnswers, AliceWaits, BadIsHeard,
     ForgottenShows

\* The SSuT gives the call up.
LEMMA SsutEndsNoticed ==
    ASSUME IInv, Noticed, SsutTimeout \/ SsutHangup
    PROVE  Noticed'
<1>1. /\ UNCHANGED <<alice, bob>>
      /\ \E blame : HangUpBoth(blame)
  BY DEF SsutTimeout, SsutHangup
<1>2. Closed /\ Followed
  BY <1>1, HangUpTells DEF IInv
<1>3. AliceWaits' /\ BadIsHeard' /\ (BadAnswer => BadAnswer')
  BY <1>1, <1>2, ToldKeeps
<1>4. BadOffer => BadOffer'
  BY <1>2, OfferStays
<1>5. BobAnswers'
  BY <1>1, <1>2, BobApart DEF Closed
<1>6. ForgottenShows'
  BY <1>1, <1>2, <1>3, <1>4 DEF Noticed, ForgottenShows, Closed
<1>7. QED
  BY <1>3, <1>5, <1>6 DEF Noticed

\* Nothing has been said in the beginning.
LEMMA InitNoticed ==
    ASSUME Init
    PROVE  Noticed
<1>1. /\ alice.ua = "calling" /\ alice.timer = "none"
      /\ bob.timer = "none" /\ ~bob.flags.connect
      /\ ssut.leg = "idle" /\ ~ssut.forgot /\ toAlice = <<>>
  BY DEF Init, NewSubtest, NoSession
<1>2. QED
  BY <1>1 DEF Noticed, BobAnswers, AliceWaits, BadIsHeard, ForgottenShows

\* Every step keeps it.
LEMMA NextNoticed ==
    ASSUME IInv, Noticed, [Next]_vars
    PROVE  Noticed'
<1>1. CASE AliceStep
  BY <1>1, AliceRingsNoticed, AliceConnectedNoticed, AliceHungUpNoticed,
     AliceDisconnectNoticed, AliceDeadNoticed DEF AliceStep
<1>2. CASE BobStep
  BY <1>2, BobAnswerNoticed, BobRingNoticed, BobConnectNoticed,
     BobDisconnectNoticed, BobHungUpNoticed, BobDeadNoticed DEF BobStep
<1>3. CASE SsutInvite
  BY <1>3, SsutInviteNoticed
<1>4. CASE SsutTimeout \/ SsutHangup
  BY <1>4, SsutEndsNoticed
<1>5. CASE Tick \/ UNCHANGED vars
  <2>1. UNCHANGED <<alice, bob, ssut, toAlice, toBob>>
    BY <1>5 DEF Tick, vars
  <2>2. QED
    BY <2>1 DEF Noticed, BobAnswers, AliceWaits, BadIsHeard, ForgottenShows,
       BadAnswer, BadOffer
<1>6. CASE AliceTrying
  BY <1>6, AliceTryingNoticed
<1>7. QED
  BY <1>1, <1>2, <1>3, <1>4, <1>5, <1>6 DEF Next, Progress

\* A side that passes is dead, and its flags say why.
LEMMA PassedIsDead ==
    ASSUME IInv, BothPass
    PROVE  /\ alice.ua = "dead" /\ bob.ua = "dead"
           /\ AliceContent(scn.cls, alice.flags, scn.mightfail)
           /\ BobContent(scn.cls, bob.flags, scn.mightfail)
<1>1. /\ AliceContent(scn.cls, alice.flags, scn.mightfail) \in BOOLEAN
      /\ BobContent(scn.cls, bob.flags, scn.mightfail) \in BOOLEAN
  BY ContentIsBoolean DEF IInv, Shape, SideShape, ScnShape
<1>2. alice.verdict = Success /\ bob.verdict = Success
  BY DEF BothPass, Sides
<1>3. Success # Pending /\ Success # Failure
  BY DEF Success, Pending, Failure
<1>4. QED
  BY <1>1, <1>2, <1>3 DEF IInv, AliceTruthful, BobTruthful, Truthful, VerdictOf

\* Bob passes a class in which he answers only with connect_done, and that goes
\* with his answer.
LEMMA PassedIsAnswered ==
    ASSUME IInv, Noticed
    PROVE  PassMeansAnswered
<1>1. SUFFICES ASSUME BothPass, ~scn.mightfail, scn.cls \in Answering
               PROVE  bob.answered
  BY DEF PassMeansAnswered
<1>2. BobContent(scn.cls, bob.flags, scn.mightfail)
  BY <1>1, PassedIsDead
<1>3. bob.flags.connect
  BY <1>1, <1>2 DEF BobContent, Answering, Completed
<1>4. QED
  BY <1>3 DEF Noticed, BobAnswers

\* Alice passes without an error only, Bob once he has a user agent only.
LEMMA PassedIsRewritten ==
    ASSUME IInv, Noticed
    PROVE  RewriteChecked
<1>1. SUFFICES ASSUME ssut.forgot, ~scn.mightfail, BothPass
               PROVE  FALSE
  BY DEF RewriteChecked
<1>2. /\ alice.ua = "dead" /\ bob.ua = "dead"
      /\ AliceContent(scn.cls, alice.flags, scn.mightfail)
  BY <1>1, PassedIsDead
<1>3. alice.flags.nerrs = 0
  BY <1>1, <1>2 DEF AliceContent, OverCleanly, CutOff, Completed
<1>4. ~BadAnswer
  BY <1>2 DEF BadAnswer, Noticed, BadIsHeard
<1>5. ~BadOffer
  BY <1>2 DEF BadOffer, IInv, InviteFirst
<1>6. QED
  BY <1>1, <1>2, <1>3, <1>4, <1>5 DEF Noticed, ForgottenShows

\* What a passing pair is worth, for ever.
LEMMA NoticedInvariant == GuardsAreRight => (Spec => [](IInv /\ Noticed))
<1>1. GuardsAreRight /\ Init => IInv /\ Noticed
  BY InitIInv, InitNoticed
<1>2. IInv /\ Noticed /\ [Next]_vars => (IInv /\ Noticed)'
  BY NextIInv, NextNoticed
<1>3. QED
  BY <1>1, <1>2, PTL DEF Spec

\* When both subtests report success, Bob has given the final answer of the
\* scenario: an SSuT that drops a call while Bob rings makes b_test1.alldone()
\* fail, whatever the draws and delays, as long as connect() looks at
\* disconnect_done.
THEOREM AnsweredWhenPassed == GuardsAreRight => (Spec => []PassMeansAnswered)
<1>1. IInv /\ Noticed => PassMeansAnswered
  BY PassedIsAnswered
<1>2. QED
  BY <1>1, NoticedInvariant, PTL

\* An SDP that the SSuT relayed as it was is never forgotten: recvEvent() counts
\* it in nerrs, or answer() raises and Bob's subtest never reports.
THEOREM RewritesChecked == GuardsAreRight => (Spec => []RewriteChecked)
<1>1. IInv /\ Noticed => RewriteChecked
  BY PassedIsRewritten
<1>2. QED
  BY <1>1, NoticedInvariant, PTL

-----------------------------------------------------------------------------
(* A correct SSuT                                                          *)

\* The SSuT does not err, RTPproxy has the time-outs that functions gives it,
\* and a message takes a second at most.
CleanRun ==
    /\ Faults = {} /\ HalfTimeout = 30 /\ FullTimeout = 45
    /\ MaxDelay \in 0..1

Drawn ==
    /\ scn \in ScnShape
    /\ scn.answer \in AnswerIval(scn.cls) /\ scn.hang \in BobDisconnectIval(scn.cls)

Fit ==
    /\ now \in 0..Horizon /\ Drawn
    /\ alice \in SubtestType /\ bob \in SubtestType
    /\ ssut \in SessionType
    /\ toAlice \in Seq(AlertShape) /\ toBob \in Seq(MsgShape)

\* Nothing is overdue.
Minded(side) ==
    /\ side.timer # "none" => now <= side.at
    /\ side.ua = "ended" => now <= side.ended + GoDeadTimeout

Fetched(q) ==
    /\ Len(q) \in 0..1
    /\ q # <<>> => q[1].sent \in Nat /\ q[1].sent <= now /\ now <= q[1].sent + MaxDelay

Clock ==
    /\ Minded(alice) /\ Minded(bob)
    /\ Fetched(toAlice) /\ Fetched(toBob)
    /\ ssut.leg = "idle" => now <= MaxDelay
    /\ now <= MediaDeadline /\ ssut.since <= now

\* The flags of a side, and its user agent before it has left the call.
Flag(side, r, c, d) ==
    /\ side.flags.ring = r /\ side.flags.connect = c /\ side.flags.disconnect = d
    /\ side.flags.nerrs = 0

InCall(side, ua, timer) ==
    /\ side.ua = ua /\ side.timer = timer
    /\ side.verdict = Pending /\ side.ended = Never

\* A queue with one message.
Only(q, kinds) == Len(q) = 1 /\ q[1].kind \in kinds /\ q[1].sdp # "bad"

CutOffs == {"11", "12", "13", "inv_brkn1"}
Refusing == {"3", "4", "5", "8", "9", "10"}
Connecting == Classes \ (CutOffs \cup Refusing)

\* The call goes through six stages.  Alice has called; the INVITE is on its way;
\* Bob is about to ring; he rings and Alice hears of it; they talk; it is over.
\* Until he rings a 100 may or may not have set Alice's ring_done.
Unheard ==
    InCall(alice, "calling", "none") /\ Flag(alice, alice.flags.ring, FALSE, FALSE)
NotBegun == InCall(bob, "idle", "none") /\ Flag(bob, FALSE, FALSE, FALSE)

Placed ==
    /\ ssut.leg = "idle" /\ ssut.media = "none"
    /\ toAlice = <<>> /\ toBob = <<>>
    /\ Unheard /\ NotBegun

HalfSet == ssut.leg = "calling" /\ ssut.media = "half" /\ ssut.since <= MaxDelay

Offered ==
    /\ HalfSet
    /\ toAlice = <<>> /\ Only(toBob, {"INVITE"}) /\ toBob[1].sent = ssut.since
    /\ Unheard /\ NotBegun

Alerted ==
    /\ HalfSet
    /\ toAlice = <<>> /\ toBob = <<>>
    /\ Unheard /\ InCall(bob, "calling", "ring") /\ Flag(bob, FALSE, FALSE, FALSE)
    /\ bob.at >= ssut.since + RingIval(scn.cls)
    /\ bob.at <= ssut.since + MaxDelay + RingIval(scn.cls)

RingIsHeard ==
    /\ InCall(alice, "calling", "none")
    /\ \/ toAlice = <<>> /\ Flag(alice, TRUE, FALSE, FALSE)
       \/ /\ Only(toAlice, {"180", "183"}) /\ toAlice[1].sent = bob.at - scn.answer
          /\ Flag(alice, alice.flags.ring, FALSE, FALSE)

Ringing ==
    /\ scn.cls \notin {"4", "9", "12", "inv_brkn1"}
    /\ toBob = <<>> /\ InCall(bob, "calling", "connect") /\ Flag(bob, TRUE, FALSE, FALSE)
    /\ \/ /\ scn.cls # "13" /\ HalfSet
          /\ bob.at >= ssut.since + RingIval(scn.cls) + scn.answer
          /\ bob.at <= ssut.since + MaxDelay + RingIval(scn.cls) + scn.answer
       \/ /\ scn.cls # "11"
          /\ ssut.leg = "calling" /\ ssut.media = "full"
          /\ ssut.since >= RingIval(scn.cls)
          /\ ssut.since <= 2 * MaxDelay + RingIval(scn.cls)
          /\ bob.at = ssut.since + scn.answer
    /\ RingIsHeard

AnswerIsHeard ==
    \/ /\ Only(toAlice, {"200"}) /\ toAlice[1].sent = ssut.since
       /\ InCall(alice, "calling", "none") /\ Flag(alice, TRUE, FALSE, FALSE)
    \/ /\ toAlice = <<>>
       /\ InCall(alice, "up", "disconnect") /\ Flag(alice, TRUE, TRUE, FALSE)

Talking ==
    /\ scn.cls \in Connecting
    /\ ssut.leg = "up" /\ ssut.media = "full"
    /\ ssut.since <= 2 * MaxDelay + RingIval(scn.cls) + scn.answer
    /\ toBob = <<>> /\ InCall(bob, "up", "disconnect") /\ Flag(bob, TRUE, TRUE, FALSE)
    /\ bob.at = ssut.since + scn.hang
    /\ AnswerIsHeard

\* When the two sides are told of the end, and when they leave.
Told(t) ==
    /\ t + 11 <= TestTimeout(scn.cls)
    /\ scn.cls \in {"11", "12"} => t >= 30 /\ t <= 30 + 2 * MaxDelay
    /\ scn.cls = "13" => t >= 46 /\ t <= 46 + 2 * MaxDelay

Leaves(t) ==
    /\ t + GoDeadTimeout <= TestTimeout(scn.cls)
    /\ scn.cls \in {"11", "12"} => t >= 30 /\ t <= 30 + 3 * MaxDelay
    /\ scn.cls = "13" => t >= 46 /\ t <= 46 + 3 * MaxDelay

Gone(side) ==
    /\ side.ua \in {"ended", "dead"} /\ Leaves(side.ended)
    /\ side.verdict = IF side.ua = "dead" THEN Success ELSE Pending

BobCloses ==
    /\ toBob # <<>> => Only(toBob, {"CANCEL", "BYE"}) /\ Told(toBob[1].sent)
    /\ \/ /\ scn.cls \in CutOffs /\ Only(toBob, {"CANCEL"})
          /\ bob.timer \in {"ring", "connect"} /\ InCall(bob, "calling", bob.timer)
          /\ Flag(bob, scn.cls # "12", FALSE, FALSE)
          /\ bob.at > toBob[1].sent + MaxDelay
       \/ /\ scn.cls \notin CutOffs /\ Only(toBob, {"BYE"})
          /\ InCall(bob, "up", "disconnect") /\ Flag(bob, TRUE, TRUE, FALSE)
       \/ Gone(bob) /\ Flag(bob, scn.cls # "12", scn.cls \notin CutOffs, TRUE)

AliceCloses ==
    /\ toAlice # <<>> => Only(toAlice, {"end"}) /\ Told(toAlice[1].sent)
    /\ alice.flags.nerrs = 0 /\ (alice.flags.disconnect <=> ~Alive(alice))
    /\ alice.flags.connect <=> scn.cls \in Connecting
    /\ scn.cls \in Connecting => alice.flags.ring
    /\ \/ InCall(alice, "calling", "none") /\ toAlice # <<>> /\ scn.cls \notin Connecting
       \/ InCall(alice, "up", "disconnect") /\ toAlice # <<>> /\ scn.cls \in Connecting
       \/ Gone(alice)

Closing ==
    /\ ssut.leg = "over" /\ ssut.media = "none"
    /\ AliceCloses /\ BobCloses

Stage == Placed \/ Offered \/ Alerted \/ Ringing \/ Talking \/ Closing

Course == Fit /\ Clock /\ Stage

\* The intervals of a class, as far as they matter.
LEMMA Intervals ==
    ASSUME Drawn
    PROVE  /\ scn.cls \in Classes
           /\ RingIval(scn.cls) \in 1..40 /\ scn.answer \in 2..55 /\ scn.hang \in 4..120
           /\ scn.cls = "12" => RingIval(scn.cls) = 40
           /\ scn.cls # "12" => RingIval(scn.cls) <= 5
           /\ scn.cls \in {"13", "14"} => RingIval(scn.cls) = 1
           /\ scn.cls \in {"11", "13"} => scn.answer = 55
           /\ scn.cls \notin {"11", "13"} => scn.answer <= 13
           /\ scn.cls = "14" => scn.answer = 2
           /\ scn.cls # "14" => scn.answer >= 8 /\ scn.hang <= 14
           /\ TestTimeout(scn.cls) \in Nat
           /\ scn.cls \in CutOffs \cup {"14"} => TestTimeout(scn.cls) = 75
           /\ scn.cls \notin CutOffs \cup {"14"} => TestTimeout(scn.cls) = 45
<1>1. scn.cls \in Classes
  BY DEF Drawn, ScnShape
<1>2. /\ RingIval(scn.cls) \in 1..40
      /\ scn.cls = "12" => RingIval(scn.cls) = 40
      /\ scn.cls # "12" => RingIval(scn.cls) <= 5
      /\ scn.cls \in {"13", "14"} => RingIval(scn.cls) = 1
  BY DEF RingIval
<1>3. /\ scn.answer \in 2..55
      /\ scn.cls \in {"11", "13"} => scn.answer = 55
      /\ scn.cls \notin {"11", "13"} => scn.answer <= 13
      /\ scn.cls = "14" => scn.answer = 2
      /\ scn.cls # "14" => scn.answer >= 8
  <2>1. CASE scn.cls \in {"11", "13"}
    BY <2>1 DEF Drawn, AnswerIval
  <2>2. CASE scn.cls = "14"
    BY <2>2 DEF Drawn, AnswerIval
  <2>3. CASE scn.cls \notin {"11", "13", "14"}
    <3>1. scn.answer \in 8..13
      BY <2>3, IvalsAssumption DEF Drawn, AnswerIval
    <3>2. QED
      BY <2>3, <3>1
  <2>4. QED
    BY <2>1, <2>2, <2>3
<1>4. scn.hang \in 4..120 /\ (scn.cls # "14" => scn.hang <= 14)
  <2>1. CASE scn.cls = "14"
    BY <2>1 DEF Drawn, BobDisconnectIval
  <2>2. CASE scn.cls # "14"
    <3>1. scn.hang \in 4..14
      BY <2>2, IvalsAssumption DEF Drawn, BobDisconnectIval
    <3>2. QED
      BY <2>2, <3>1
  <2>3. QED
    BY <2>1, <2>2
<1>5. /\ TestTimeout(scn.cls) \in Nat
      /\ scn.cls \in CutOffs \cup {"14"} => TestTimeout(scn.cls) = 75
      /\ scn.cls \notin CutOffs \cup {"14"} => TestTimeout(scn.cls) = 45
  BY DEF TestTimeout, CutOffs
<1>6. QED
  BY <1>1, <1>2, <1>3, <1>4, <1>5

\* The moments of this run.
LEMMA Moments ==
    ASSUME CleanRun
    PROVE  /\ Never \in Nat /\ Never = Horizon + 1000 /\ Horizon \in Nat
           /\ MaxDelay \in Nat /\ MaxDelay <= 1
           /\ HalfTimeout = 30 /\ FullTimeout = 45 /\ GoDeadTimeout = 10
BY CallAssumption DEF CleanRun, Never, GoDeadTimeout

\* What a timer leaves alone.
LEMMA Armed ==
    ASSUME CleanRun, now \in 0..Horizon, NEW side \in SubtestType,
           NEW cb \in Timers, NEW ival \in 0..120
    PROVE  /\ Arm(side, cb, ival) \in SubtestType
           /\ Arm(side, cb, ival).ua = side.ua
           /\ Arm(side, cb, ival).flags = side.flags
           /\ Arm(side, cb, ival).timer = cb
           /\ Arm(side, cb, ival).at = now + ival
           /\ Arm(side, cb, ival).ended = side.ended
           /\ Arm(side, cb, ival).verdict = side.verdict
<1>1. now + ival \in 0..Never
  BY Moments
<1>2. QED
  BY <1>1 DEF SubtestType, Arm, Timers

LEMMA Spent ==
    ASSUME CleanRun, NEW side \in SubtestType
    PROVE  /\ Fired(side) \in SubtestType
           /\ Fired(side).ua = side.ua
           /\ Fired(side).flags = side.flags
           /\ Fired(side).timer = "none"
           /\ Fired(side).ended = side.ended
           /\ Fired(side).verdict = side.verdict
<1>1. Never \in 0..Never
  BY Moments
<1>2. QED
  BY <1>1 DEF SubtestType, Fired

\* What the end of a call and a report leave alone.
LEMMA HasEnded ==
    ASSUME CleanRun, now \in 0..Horizon, NEW side \in SubtestType
    PROVE  /\ Ended(side) \in SubtestType
           /\ Ended(side).ua = "ended" /\ Ended(side).ended = now
           /\ Ended(side).timer = side.timer /\ Ended(side).at = side.at
           /\ Ended(side).verdict = side.verdict
           /\ Ended(side).flags = [side.flags EXCEPT !.disconnect = TRUE]
           /\ Ended(side).flags.ring = side.flags.ring
           /\ Ended(side).flags.connect = side.flags.connect
           /\ Ended(side).flags.disconnect = TRUE
           /\ Ended(side).flags.nerrs = side.flags.nerrs
<1> DEFINE flags2 == [side.flags EXCEPT !.disconnect = TRUE]
<1>1. /\ flags2 \in [ring : BOOLEAN, connect : BOOLEAN, disconnect : BOOLEAN, nerrs : 0..3]
      /\ flags2.ring = side.flags.ring /\ flags2.connect = side.flags.connect
      /\ flags2.disconnect = TRUE /\ flags2.nerrs = side.flags.nerrs
  BY DEF SubtestType
<1>2. now \in 0..Never
  BY Moments
<1>3. Ended(side) = [side EXCEPT !.ua = "ended", !.ended = now, !.flags = flags2]
  BY DEF SubtestType, Ended
<1> HIDE DEF flags2
<1>4. /\ Ended(side) \in SubtestType
      /\ Ended(side).ua = "ended" /\ Ended(side).ended = now
      /\ Ended(side).timer = side.timer /\ Ended(side).at = side.at
      /\ Ended(side).verdict = side.verdict
      /\ Ended(side).flags = flags2
  BY ZenonT(60), <1>1, <1>2, <1>3 DEF SubtestType
<1>5. QED
  BY <1>1, <1>4 DEF flags2

LEMMA HasReported ==
    ASSUME NEW side \in SubtestType, NEW content
    PROVE  /\ Reported(side, content) \in SubtestType
           /\ Reported(side, content).ua = "dead"
           /\ Reported(side, content).flags = side.flags
           /\ Reported(side, content).timer = side.timer
           /\ Reported(side, content).at = side.at
           /\ Reported(side, content).ended = side.ended
           /\ Reported(side, content).verdict = VerdictOf(content)
<1>1. VerdictOf(content) \in Verdicts \cup {Pending}
  BY DEF VerdictOf, Verdicts
<1>2. QED
  BY <1>1 DEF SubtestType, Reported

\* A flag of a side is set.
LEMMA RingRises ==
    ASSUME NEW side \in SubtestType
    PROVE  /\ [side EXCEPT !.flags.ring = TRUE] \in SubtestType
           /\ [side EXCEPT !.flags.ring = TRUE].ua = side.ua
           /\ [side EXCEPT !.flags.ring = TRUE].timer = side.timer
           /\ [side EXCEPT !.flags.ring = TRUE].at = side.at
           /\ [side EXCEPT !.flags.ring = TRUE].ended = side.ended
           /\ [side EXCEPT !.flags.ring = TRUE].verdict = side.verdict
           /\ [side EXCEPT !.flags.ring = TRUE].flags.ring = TRUE
           /\ [side EXCEPT !.flags.ring = TRUE].flags.connect = side.flags.connect
           /\ [side EXCEPT !.flags.ring = TRUE].flags.disconnect = side.flags.disconnect
           /\ [side EXCEPT !.flags.ring = TRUE].flags.nerrs = side.flags.nerrs
<1> DEFINE f2 == [side.flags EXCEPT !.ring = TRUE]
           type == [ring : BOOLEAN, connect : BOOLEAN, disconnect : BOOLEAN, nerrs : 0..3]
<1>1. /\ f2 \in type /\ f2.ring = TRUE
      /\ f2.connect = side.flags.connect
      /\ f2.disconnect = side.flags.disconnect
      /\ f2.nerrs = side.flags.nerrs
  BY DEF SubtestType
<1>2. [side EXCEPT !.flags.ring = TRUE] = [side EXCEPT !.flags = f2]
  OBVIOUS
<1> HIDE DEF f2
<1>3. /\ [side EXCEPT !.flags = f2] \in SubtestType
      /\ [side EXCEPT !.flags = f2].ua = side.ua
      /\ [side EXCEPT !.flags = f2].timer = side.timer
      /\ [side EXCEPT !.flags = f2].at = side.at
      /\ [side EXCEPT !.flags = f2].ended = side.ended
      /\ [side EXCEPT !.flags = f2].verdict = side.verdict
      /\ [side EXCEPT !.flags = f2].flags = f2
  BY <1>1 DEF SubtestType
<1>4. QED
  BY <1>1, <1>2, <1>3

LEMMA ConnectRises ==
    ASSUME NEW side \in SubtestType
    PROVE  /\ [side EXCEPT !.flags.connect = TRUE] \in SubtestType
           /\ [side EXCEPT !.flags.connect = TRUE].ua = side.ua
           /\ [side EXCEPT !.flags.connect = TRUE].timer = side.timer
           /\ [side EXCEPT !.flags.connect = TRUE].at = side.at
           /\ [side EXCEPT !.flags.connect = TRUE].ended = side.ended
           /\ [side EXCEPT !.flags.connect = TRUE].verdict = side.verdict
           /\ [side EXCEPT !.flags.connect = TRUE].flags.connect = TRUE
           /\ [side EXCEPT !.flags.connect = TRUE].flags.ring = side.flags.ring
           /\ [side EXCEPT !.flags.connect = TRUE].flags.disconnect = side.flags.disconnect
           /\ [side EXCEPT !.flags.connect = TRUE].flags.nerrs = side.flags.nerrs
<1> DEFINE f2 == [side.flags EXCEPT !.connect = TRUE]
           type == [ring : BOOLEAN, connect : BOOLEAN, disconnect : BOOLEAN, nerrs : 0..3]
<1>1. /\ f2 \in type /\ f2.connect = TRUE
      /\ f2.ring = side.flags.ring
      /\ f2.disconnect = side.flags.disconnect
      /\ f2.nerrs = side.flags.nerrs
  BY DEF SubtestType
<1>2. [side EXCEPT !.flags.connect = TRUE] = [side EXCEPT !.flags = f2]
  OBVIOUS
<1> HIDE DEF f2
<1>3. /\ [side EXCEPT !.flags = f2] \in SubtestType
      /\ [side EXCEPT !.flags = f2].ua = side.ua
      /\ [side EXCEPT !.flags = f2].timer = side.timer
      /\ [side EXCEPT !.flags = f2].at = side.at
      /\ [side EXCEPT !.flags = f2].ended = side.ended
      /\ [side EXCEPT !.flags = f2].verdict = side.verdict
      /\ [side EXCEPT !.flags = f2].flags = f2
  BY <1>1 DEF SubtestType
<1>4. QED
  BY <1>1, <1>2, <1>3

\* A queue gets its one message, and gives it away.
LEMMA Sole ==
    ASSUME NEW S, NEW m \in S
    PROVE  /\ Append(<<>>, m) \in Seq(S) /\ Append(<<>>, m) # <<>>
           /\ Len(Append(<<>>, m)) = 1 /\ Append(<<>>, m)[1] = m
OBVIOUS

LEMMA Empty ==
    ASSUME NEW S, NEW q \in Seq(S)
    PROVE  q = <<>> <=> Len(q) = 0
BY EmptySeq

LEMMA Filled ==
    ASSUME NEW q, Len(q) = 1
    PROVE  q # <<>>
BY EmptySeq

LEMMA Taken ==
    ASSUME NEW S, NEW q \in Seq(S), Len(q) = 1
    PROVE  /\ q # <<>> /\ Head(q) = q[1] /\ q[1] \in S
           /\ Tail(q) = <<>> /\ Tail(q) \in Seq(S)
<1>1. q # <<>>
  BY Empty
<1>2. /\ Tail(q) \in Seq(S) /\ Len(Tail(q)) = 0
      /\ Head(q) = q[1] /\ Head(q) \in S
  BY <1>1, Ahead
<1>3. Tail(q) = <<>>
  BY <1>2, Empty
<1>4. QED
  BY <1>1, <1>2, <1>3

LEMMA SentNow ==
    ASSUME Fit
    PROVE  /\ \A k \in {"180", "183", "200", "end"}, s \in {"none", "good"} :
                  Msg(k, s) \in AlertShape
           /\ \A k \in {"INVITE", "CANCEL", "BYE"}, s \in {"none", "good"} :
                  Msg(k, s) \in MsgShape
           /\ \A k, s : Msg(k, s).kind = k /\ Msg(k, s).sdp = s /\ Msg(k, s).sent = now
<1>1. now \in Int
  BY DEF Fit
<1>2. QED
  BY <1>1 DEF Msg, AlertShape, MsgShape

\* What the arithmetic of a step starts from.
LEMMA Amounts ==
    ASSUME CleanRun, Fit
    PROVE  /\ now \in Nat /\ now <= Horizon /\ Horizon \in Nat /\ Never = Horizon + 1000
           /\ MaxDelay \in Nat /\ MaxDelay <= 1 /\ GoDeadTimeout = 10
           /\ ssut.since \in Nat /\ alice.at \in Nat /\ bob.at \in Nat
           /\ alice.ended \in Nat /\ bob.ended \in Nat
           /\ RingIval(scn.cls) \in 1..40 /\ scn.answer \in 2..55 /\ scn.hang \in 4..120
           /\ RingIval(scn.cls) \in 0..120 /\ scn.answer \in 0..120 /\ scn.hang \in 0..120
           /\ RingIval(scn.cls) \in Nat /\ scn.answer \in Nat /\ scn.hang \in Nat
           /\ now \in 0..Horizon
<1>1. now \in 0..Horizon /\ Drawn
  BY DEF Fit
<1>2. Never \in Nat /\ Horizon \in Nat
  BY Moments
<1>3. ssut.since \in 0..Horizon /\ alice.at \in 0..Never /\ bob.at \in 0..Never
      /\ alice.ended \in 0..Never /\ bob.ended \in 0..Never
  BY DEF Fit, SessionType, SubtestType
<1>4. RingIval(scn.cls) \in 1..40 /\ scn.answer \in 2..55 /\ scn.hang \in 4..120
  BY <1>1, Intervals
<1>5. now \in Nat /\ now <= Horizon /\ ssut.since \in Nat /\ alice.at \in Nat
      /\ bob.at \in Nat /\ alice.ended \in Nat /\ bob.ended \in Nat
  BY <1>1, <1>2, <1>3
<1>6. /\ RingIval(scn.cls) \in 0..120 /\ scn.answer \in 0..120 /\ scn.hang \in 0..120
      /\ RingIval(scn.cls) \in Nat /\ scn.answer \in Nat /\ scn.hang \in Nat
  BY <1>4
<1>7. QED
  BY <1>1, <1>4, <1>5, <1>6, Moments

\* The offer goes out.
LEMMA SsutInviteCourse ==
    ASSUME CleanRun, Course, SsutInvite
    PROVE  Course'
<1>1. ssut.leg = "idle" /\ Placed /\ Fit /\ Clock
  BY DEF SsutInvite, Course, Stage, Placed, Offered, HalfSet, Alerted, Ringing, Talking, Closing
<1>2. Rewritten("good") = {"good"}
  BY DEF CleanRun, Rewritten
<1> DEFINE m == Msg("INVITE", "good")
<1>3. m \in MsgShape /\ m.kind = "INVITE" /\ m.sdp = "good" /\ m.sent = now
  BY <1>1, SentNow
<1>4. /\ toBob' = Append(toBob, m)
      /\ ssut' = [ssut EXCEPT !.leg = "calling", !.media = "half",
                              !.since = now, !.forgot = FALSE]
      /\ UNCHANGED <<now, scn, alice, bob, toAlice>>
  BY <1>2 DEF SsutInvite
<1> HIDE DEF m
<1>5. /\ toBob' \in Seq(MsgShape) /\ toBob' # <<>> /\ Len(toBob') = 1 /\ toBob'[1] = m
  BY <1>1, <1>3, <1>4, Sole DEF Placed
<1>6. /\ ssut' \in SessionType
      /\ ssut'.leg = "calling" /\ ssut'.media = "half" /\ ssut'.since = now
  BY <1>1, <1>4 DEF Fit, SessionType
<1>7. Fit'
  BY <1>1, <1>4, <1>5, <1>6 DEF Fit, Drawn
<1>8. Clock'
  <2>1. Minded(alice)' /\ Minded(bob)' /\ Fetched(toAlice)'
    BY <1>1, <1>4 DEF Clock, Minded, Fetched
  <2>2. Fetched(toBob)'
    BY <1>1, <1>3, <1>4, <1>5, Moments DEF Fit, Fetched
  <2>3. (now <= MediaDeadline)' /\ ssut'.since <= now'
    BY <1>1, <1>4, <1>6, Moments DEF Fit, MediaDeadline
  <2>4. QED
    BY <1>6, <2>1, <2>2, <2>3 DEF Clock
<1>9. Offered'
  <2>1. HalfSet'
    BY <1>1, <1>4, <1>6 DEF HalfSet, Clock
  <2>2. Unheard' /\ NotBegun' /\ toAlice' = <<>>
    BY <1>1, <1>4 DEF Placed, Unheard, NotBegun, InCall, Flag
  <2>3. Only(toBob, {"INVITE"})' /\ toBob'[1].sent = ssut'.since
    BY <1>3, <1>5, <1>6 DEF Only
  <2>4. QED
    BY <2>1, <2>2, <2>3 DEF Offered
<1>10. QED
  BY <1>7, <1>8, <1>9 DEF Course, Stage

\* The offer reaches Bob.
LEMMA BobAnswerCourse ==
    ASSUME CleanRun, Course, BobAnswer
    PROVE  Course'
<1>1. Fit /\ Clock /\ toBob # <<>> /\ Head(toBob).kind = "INVITE"
  BY DEF BobAnswer, ReceiveBob, Course
<1>2. Offered
  <2>1. ASSUME Closing PROVE FALSE
    <3>1. Len(toBob) = 1 /\ toBob[1].kind \in {"CANCEL", "BYE"}
      BY <1>1, <2>1 DEF Closing, BobCloses, Only
    <3>2. QED
      BY <1>1, <3>1, Taken DEF Fit
  <2>2. QED
    BY <1>1, <2>1 DEF Course, Stage, Placed, Alerted, Ringing, Talking
<1>3. /\ Len(toBob) = 1 /\ toBob[1].kind = "INVITE" /\ toBob[1].sdp # "bad"
      /\ toBob[1].sent = ssut.since /\ HalfSet /\ Unheard /\ NotBegun /\ toAlice = <<>>
  BY <1>2 DEF Offered, Only
<1>4. Head(toBob) = toBob[1] /\ Tail(toBob) = <<>> /\ Tail(toBob) \in Seq(MsgShape)
  BY <1>1, <1>3, Taken DEF Fit
<1>5. /\ now \in 0..Horizon /\ now \in Nat /\ ssut.since \in Nat /\ MaxDelay \in Nat
      /\ RingIval(scn.cls) \in 0..120 /\ RingIval(scn.cls) \in Nat
  BY <1>1, Amounts
<1> DEFINE agent == [bob EXCEPT !.ua = "calling"]
<1>6. /\ agent \in SubtestType /\ agent.ua = "calling" /\ agent.flags = bob.flags
      /\ agent.ended = bob.ended /\ agent.verdict = bob.verdict
  BY <1>1 DEF Fit, SubtestType
<1>7. /\ bob' = Arm(agent, "ring", RingIval(scn.cls)) /\ toBob' = <<>>
      /\ UNCHANGED <<now, scn, alice, ssut, toAlice>>
  BY <1>3, <1>4 DEF BobAnswer
<1> HIDE DEF agent
<1>8. /\ bob' \in SubtestType /\ bob'.ua = "calling" /\ bob'.flags = bob.flags
      /\ bob'.timer = "ring" /\ bob'.at = now + RingIval(scn.cls)
      /\ bob'.ended = bob.ended /\ bob'.verdict = bob.verdict
  <2>1. "ring" \in Timers
    BY DEF Timers
  <2>2. QED
    BY ZenonT(60), <1>5, <1>6, <1>7, <2>1, Armed
<1>9. Fit'
  BY <1>1, <1>4, <1>7, <1>8 DEF Fit, Drawn
<1>10. Clock'
  <2>1. Minded(alice)' /\ Fetched(toAlice)'
    BY <1>1, <1>7 DEF Clock, Minded, Fetched
  <2>2. Fetched(toBob)'
    BY <1>7, EmptySeq DEF Fetched
  <2>3. Minded(bob)'
    BY <1>5, <1>7, <1>8 DEF Minded
  <2>4. (now <= MediaDeadline)'
    BY <1>1, <1>7 DEF Clock, MediaDeadline
  <2>5. QED
    BY <1>1, <1>7, <2>1, <2>2, <2>3, <2>4 DEF Clock
<1>11. Alerted'
  <2>1. ssut.since <= now /\ now <= ssut.since + MaxDelay
    BY <1>1, <1>3 DEF Clock, Fetched
  <2>2. /\ bob'.at >= ssut.since + RingIval(scn.cls)
        /\ bob'.at <= ssut.since + MaxDelay + RingIval(scn.cls)
    BY <1>5, <1>8, <2>1
  <2>3. HalfSet' /\ Unheard'
    BY <1>3, <1>7 DEF HalfSet, Unheard, InCall, Flag
  <2>4. InCall(bob, "calling", "ring")' /\ Flag(bob, FALSE, FALSE, FALSE)'
    BY <1>3, <1>8 DEF NotBegun, InCall, Flag
  <2>5. QED
    BY <1>3, <1>7, <2>2, <2>3, <2>4 DEF Alerted
<1>12. QED
  BY <1>9, <1>10, <1>11 DEF Course, Stage

\* The SSuT, when it does not err.
LEMMA Closes ==
    ASSUME Fit, NEW blame \in {"no", "idle", "calling", "up"}
    PROVE  /\ Over(ssut) \in SessionType /\ [Over(ssut) EXCEPT !.gaveUp = blame] \in SessionType
           /\ Over(ssut).leg = "over" /\ Over(ssut).media = "none"
           /\ Over(ssut).since = ssut.since
           /\ [Over(ssut) EXCEPT !.gaveUp = blame].leg = "over"
           /\ [Over(ssut) EXCEPT !.gaveUp = blame].media = "none"
           /\ [Over(ssut) EXCEPT !.gaveUp = blame].since = ssut.since
BY DEF Fit, SessionType, Over

LEMMA FreshAlert ==
    ASSUME Fit, toAlice = <<>>, NEW k \in {"180", "183", "200", "end"},
           NEW s \in {"none", "good"}, toAlice' = Append(toAlice, Msg(k, s))
    PROVE  /\ toAlice' \in Seq(AlertShape) /\ Only(toAlice, {k})' /\ toAlice' # <<>>
           /\ toAlice'[1].sent = now
<1> DEFINE m == Msg(k, s)
<1>1. m \in AlertShape /\ m.kind = k /\ m.sdp = s /\ m.sent = now
  BY SentNow
<1> HIDE DEF m
<1>2. toAlice' = Append(<<>>, m)
  BY DEF m
<1>3. /\ toAlice' \in Seq(AlertShape) /\ toAlice' # <<>>
      /\ Len(toAlice') = 1 /\ toAlice'[1] = m
  BY <1>1, <1>2, Sole
<1>4. QED
  BY <1>1, <1>3 DEF Only

LEMMA FreshCall ==
    ASSUME Fit, toBob = <<>>, NEW k \in {"CANCEL", "BYE"},
           toBob' = Append(toBob, Msg(k, "none"))
    PROVE  /\ toBob' \in Seq(MsgShape) /\ Only(toBob, {k})' /\ toBob' # <<>>
           /\ toBob'[1].sent = now
<1> DEFINE m == Msg(k, "none")
<1>1. m \in MsgShape /\ m.kind = k /\ m.sdp = "none" /\ m.sent = now
  BY SentNow
<1> HIDE DEF m
<1>2. toBob' = Append(<<>>, m)
  BY DEF m
<1>3. /\ toBob' \in Seq(MsgShape) /\ toBob' # <<>>
      /\ Len(toBob') = 1 /\ toBob'[1] = m
  BY <1>1, <1>2, Sole
<1>4. QED
  BY <1>1, <1>3 DEF Only

\* Bob ends the call.
LEMMA BobEndIsRelayed ==
    ASSUME Fit, ssut.leg # "over", toAlice = <<>>, NEW k \in {"BYE", "reject"},
           SsutFromBob(k, "none")
    PROVE  /\ ssut' \in SessionType /\ ssut'.leg = "over" /\ ssut'.media = "none"
           /\ ssut'.since = ssut.since /\ toBob' = toBob
           /\ toAlice' \in Seq(AlertShape) /\ Only(toAlice, {"end"})'
           /\ toAlice' # <<>> /\ toAlice'[1].sent = now
<1>1. /\ ssut' = Over(ssut) /\ toBob' = toBob
      /\ toAlice' = Append(toAlice, Msg("end", "none"))
  BY DEF SsutFromBob
<1>2. QED
  BY <1>1, Closes, FreshAlert

\* What comes too late.
LEMMA EndIsAbsorbed ==
    ASSUME ssut.leg = "over", NEW k \in {"BYE", "reject", "180", "183"}, NEW sdp,
           SsutFromBob(k, sdp)
    PROVE  UNCHANGED <<ssut, toAlice, toBob>>
BY DEF SsutFromBob

\* The SSuT ends a call that is set up or being set up.
LEMMA BothAreToldOf ==
    ASSUME Fit, ssut.leg \in {"calling", "up"}, toAlice = <<>>, toBob = <<>>,
           HangUpBoth("no")
    PROVE  /\ ssut' \in SessionType /\ ssut'.leg = "over" /\ ssut'.media = "none"
           /\ ssut'.since = ssut.since
           /\ toAlice' \in Seq(AlertShape) /\ Only(toAlice, {"end"})'
           /\ toAlice' # <<>> /\ toAlice'[1].sent = now
           /\ toBob' \in Seq(MsgShape) /\ toBob' # <<>> /\ toBob'[1].sent = now
           /\ ssut.leg = "calling" => Only(toBob, {"CANCEL"})'
           /\ ssut.leg = "up" => Only(toBob, {"BYE"})'
<1>1. /\ ssut' = [Over(ssut) EXCEPT !.gaveUp = "no"]
      /\ toAlice' = Append(toAlice, Msg("end", "none"))
      /\ ssut.leg = "calling" => toBob' = Append(toBob, Msg("CANCEL", "none"))
      /\ ssut.leg = "up" => toBob' = Append(toBob, Msg("BYE", "none"))
  BY DEF HangUpBoth
<1>2. QED
  BY <1>1, Closes, FreshAlert, FreshCall

\* A ring without SDP, and one or an answer with it.
LEMMA RingIsRelayed ==
    ASSUME CleanRun, Fit, ssut.leg = "calling", toAlice = <<>>,
           SsutFromBob("180", "none")
    PROVE  /\ ssut' \in SessionType /\ ssut'.leg = ssut.leg
           /\ ssut'.media = ssut.media /\ ssut'.since = ssut.since /\ toBob' = toBob
           /\ toAlice' \in Seq(AlertShape) /\ Only(toAlice, {"180"})'
           /\ toAlice' # <<>> /\ toAlice'[1].sent = now
<1>1. Rewritten("none") = {"none"}
  BY DEF Rewritten
<1>2. /\ toAlice' = Append(toAlice, Msg("180", "none")) /\ toBob' = toBob
      /\ ssut' = [ssut EXCEPT !.leg = @, !.media = @, !.since = @, !.forgot = @ \/ FALSE]
  BY <1>1 DEF SsutFromBob
<1>3. /\ ssut' \in SessionType /\ ssut'.leg = ssut.leg
      /\ ssut'.media = ssut.media /\ ssut'.since = ssut.since
  BY <1>2 DEF Fit, SessionType
<1>4. QED
  BY <1>2, <1>3, FreshAlert

LEMMA SdpIsRelayed ==
    ASSUME CleanRun, Fit, ssut.leg = "calling", toAlice = <<>>,
           NEW k \in {"183", "200"}, SsutFromBob(k, "good")
    PROVE  /\ ssut' \in SessionType /\ ssut'.media = "full" /\ ssut'.since = now
           /\ ssut'.leg = IF k = "200" THEN "up" ELSE "calling"
           /\ toBob' = toBob
           /\ toAlice' \in Seq(AlertShape) /\ Only(toAlice, {k})'
           /\ toAlice' # <<>> /\ toAlice'[1].sent = now
<1>1. Rewritten("good") = {"good"}
  BY DEF CleanRun, Rewritten
<1>2. /\ toAlice' = Append(toAlice, Msg(k, "good")) /\ toBob' = toBob
      /\ ssut' = [ssut EXCEPT !.leg = IF k = "200" THEN "up" ELSE @, !.media = "full",
                              !.since = now, !.forgot = @ \/ FALSE]
  BY <1>1 DEF SsutFromBob
<1>3. /\ ssut' \in SessionType /\ ssut'.media = "full" /\ ssut'.since = now
      /\ ssut'.leg = IF k = "200" THEN "up" ELSE "calling"
  BY <1>2 DEF Fit, SessionType
<1>4. QED
  BY <1>2, <1>3, FreshAlert

LEMMA CrippledIsRefused ==
    ASSUME CleanRun, ssut.leg # "over", SsutFromBob("183", "crippled")
    PROVE  HangUpBoth("no")
BY DEF CleanRun, SsutFromBob

\* Once the SSuT has ended the session there is no deadline but the sides' own.
LEMMA OverClock ==
    ASSUME CleanRun, Fit, now' = now, scn' = scn,
           ssut'.leg = "over", ssut'.media = "none", ssut'.since <= now,
           Minded(alice)', Minded(bob)', Fetched(toAlice)', Fetched(toBob)'
    PROVE  Clock'
<1>1. (now <= MediaDeadline)'
  BY Amounts DEF MediaDeadline
<1>2. QED
  BY <1>1 DEF Clock

\* A message that was just sent is not overdue.
LEMMA JustSent ==
    ASSUME CleanRun, Fit, NEW q, Len(q) = 1, q[1].sent = now
    PROVE  Fetched(q) /\ (now' = now => Fetched(q)')
BY Amounts DEF Fetched

\* A timer that goes off after the end finds nothing to do.
LEMMA BobFiredCourse ==
    ASSUME CleanRun, Course, Closing, Gone(bob),
           bob' = Fired(bob), UNCHANGED <<now, scn, alice, ssut, toAlice, toBob>>
    PROVE  Course'
<1>1. Fit /\ Clock
  BY DEF Course
<1>2. /\ bob' \in SubtestType /\ bob'.ua = bob.ua /\ bob'.flags = bob.flags
      /\ bob'.timer = "none" /\ bob'.ended = bob.ended /\ bob'.verdict = bob.verdict
  BY <1>1, Spent DEF Fit
<1>3. Fit'
  BY <1>1, <1>2 DEF Fit, Drawn
<1>4. Clock'
  <2>1. Minded(bob)'
    BY <1>1, <1>2 DEF Clock, Minded
  <2>2. Minded(alice)' /\ Fetched(toAlice)' /\ Fetched(toBob)' /\ (now <= MediaDeadline)'
    BY <1>1 DEF Clock, Minded, Fetched, MediaDeadline
  <2>3. QED
    BY <1>1, <2>1, <2>2 DEF Clock
<1>5. Closing'
  <2>1. AliceCloses'
    BY DEF Closing, AliceCloses, Only, Told, InCall, Gone, Leaves, Alive
  <2>2. Gone(bob)'
    BY <1>2 DEF Gone, Leaves
  <2>3. /\ toBob # <<>> => Only(toBob, {"CANCEL", "BYE"}) /\ Told(toBob[1].sent)
        /\ Flag(bob, scn.cls # "12", scn.cls \notin CutOffs, TRUE)
    <3>1. bob.flags.disconnect => Flag(bob, scn.cls # "12", scn.cls \notin CutOffs, TRUE)
      BY DEF Closing, BobCloses, Flag
    <3>2. bob.ua \in {"ended", "dead"}
      BY DEF Gone
    <3>3. QED
      BY <3>1, <3>2 DEF Closing, BobCloses, InCall
  <2>4. BobCloses'
    BY <1>2, <2>2, <2>3 DEF BobCloses, Only, Told, Flag
  <2>5. QED
    BY <2>1, <2>4 DEF Closing
<1>6. QED
  BY <1>3, <1>4, <1>5 DEF Course, Stage

\* When Bob is to ring.
LEMMA RingIsDue ==
    ASSUME CleanRun, Course, Due(bob, "ring")
    PROVE  \/ /\ Alerted /\ scn.cls # "12"
              /\ now >= ssut.since + RingIval(scn.cls)
              /\ now <= ssut.since + MaxDelay + RingIval(scn.cls)
           \/ Closing /\ Gone(bob) /\ bob.flags.disconnect
<1>1. Fit /\ Clock /\ bob.timer = "ring" /\ now >= bob.at /\ now <= bob.at
  BY DEF Course, Due, Clock, Minded
<1>2. now = bob.at
  BY <1>1, Amounts
<1>3. CASE Alerted
  <2>1. now >= ssut.since + RingIval(scn.cls) /\ now <= ssut.since + MaxDelay + RingIval(scn.cls)
    BY <1>2, <1>3 DEF Alerted
  <2>2. now <= ssut.since + 30
    BY <1>1, <1>3 DEF Clock, Alerted, HalfSet, MediaDeadline, CleanRun
  <2>3. scn.cls # "12"
    BY <1>1, <2>1, <2>2, Amounts DEF RingIval
  <2>4. QED
    BY <1>3, <2>1, <2>3
<1>4. CASE Closing
  <2>1. ASSUME toBob # <<>>, bob.at > toBob[1].sent + MaxDelay PROVE FALSE
    BY <1>1, <1>2, <2>1, Amounts DEF Clock, Fetched
  <2>2. Only(toBob, {"CANCEL"}) => toBob # <<>>
    BY Filled DEF Only
  <2>3. QED
    BY <1>1, <1>4, <2>1, <2>2 DEF Closing, BobCloses, InCall, Flag
<1>5. QED
  BY <1>1, <1>3, <1>4 DEF Course, Stage, Placed, Offered, NotBegun, Ringing, Talking, InCall

\* Bob's final answer.
LEMMA AnswerRises ==
    ASSUME NEW side \in SubtestType
    PROVE  LET a == [side EXCEPT !.flags.connect = TRUE, !.answered = TRUE]
           IN  /\ a \in SubtestType /\ a.ua = side.ua /\ a.timer = side.timer
               /\ a.at = side.at /\ a.ended = side.ended /\ a.verdict = side.verdict
               /\ a.flags.connect = TRUE /\ a.flags.ring = side.flags.ring
               /\ a.flags.disconnect = side.flags.disconnect
               /\ a.flags.nerrs = side.flags.nerrs
<1> DEFINE c == [side EXCEPT !.flags.connect = TRUE]
           a == [side EXCEPT !.flags.connect = TRUE, !.answered = TRUE]
<1>1. a = [c EXCEPT !.answered = TRUE]
  BY DEF SubtestType
<1>2. /\ c \in SubtestType /\ c.ua = side.ua /\ c.timer = side.timer
      /\ c.at = side.at /\ c.ended = side.ended /\ c.verdict = side.verdict
      /\ c.flags.connect = TRUE /\ c.flags.ring = side.flags.ring
      /\ c.flags.disconnect = side.flags.disconnect
      /\ c.flags.nerrs = side.flags.nerrs
  BY ConnectRises
<1> HIDE DEF c
<1>3. /\ [c EXCEPT !.answered = TRUE] \in SubtestType
      /\ [c EXCEPT !.answered = TRUE].ua = c.ua
      /\ [c EXCEPT !.answered = TRUE].timer = c.timer
      /\ [c EXCEPT !.answered = TRUE].at = c.at
      /\ [c EXCEPT !.answered = TRUE].ended = c.ended
      /\ [c EXCEPT !.answered = TRUE].verdict = c.verdict
      /\ [c EXCEPT !.answered = TRUE].flags = c.flags
  BY <1>2 DEF SubtestType
<1> HIDE DEF a
<1>4. /\ a \in SubtestType /\ a.ua = side.ua /\ a.timer = side.timer
      /\ a.at = side.at /\ a.ended = side.ended /\ a.verdict = side.verdict
      /\ a.flags.connect = TRUE /\ a.flags.ring = side.flags.ring
      /\ a.flags.disconnect = side.flags.disconnect
      /\ a.flags.nerrs = side.flags.nerrs
  BY <1>1, <1>2, <1>3
<1>5. QED
  BY <1>4 DEF a

\* Bob's subtest when he has rung.
LEMMA HasRung ==
    ASSUME CleanRun, Fit, Alerted, NEW rung, rung = [Fired(bob) EXCEPT !.flags.ring = TRUE]
    PROVE  rung \in SubtestType /\ InCall(rung, "calling", "none")
           /\ Flag(rung, TRUE, FALSE, FALSE)
<1> DEFINE f == Fired(bob)
<1>1. /\ f \in SubtestType /\ f.ua = bob.ua /\ f.flags = bob.flags /\ f.timer = "none"
      /\ f.ended = bob.ended /\ f.verdict = bob.verdict
  BY Spent DEF Fit
<1>2. rung = [f EXCEPT !.flags.ring = TRUE]
  OBVIOUS
<1> HIDE DEF f
<1>3. /\ rung \in SubtestType /\ rung.ua = f.ua /\ rung.timer = f.timer
      /\ rung.ended = f.ended /\ rung.verdict = f.verdict
      /\ rung.flags.ring = TRUE /\ rung.flags.connect = f.flags.connect
      /\ rung.flags.disconnect = f.flags.disconnect
      /\ rung.flags.nerrs = f.flags.nerrs
  BY ZenonT(60), <1>1, <1>2, RingRises
<1>4. QED
  BY <1>1, <1>3 DEF Alerted, InCall, Flag

\* What becomes of Bob's subtest when he rings and waits to answer.
LEMMA WaitsToAnswer ==
    ASSUME CleanRun, Fit, Alerted, NEW rung, rung = [Fired(bob) EXCEPT !.flags.ring = TRUE],
           bob' = Arm(rung, "connect", scn.answer)
    PROVE  /\ bob' \in SubtestType /\ InCall(bob, "calling", "connect")'
           /\ Flag(bob, TRUE, FALSE, FALSE)' /\ bob'.at = now + scn.answer
<1>1. rung \in SubtestType /\ InCall(rung, "calling", "none") /\ Flag(rung, TRUE, FALSE, FALSE)
  BY HasRung
<1>2. "connect" \in Timers /\ scn.answer \in 0..120 /\ now \in 0..Horizon
  BY Amounts DEF Timers
<1>3. /\ bob' \in SubtestType /\ bob'.ua = rung.ua /\ bob'.flags = rung.flags
      /\ bob'.timer = "connect" /\ bob'.at = now + scn.answer
      /\ bob'.ended = rung.ended /\ bob'.verdict = rung.verdict
  <2>1. /\ Arm(rung, "connect", scn.answer) \in SubtestType
        /\ Arm(rung, "connect", scn.answer).ua = rung.ua
        /\ Arm(rung, "connect", scn.answer).flags = rung.flags
        /\ Arm(rung, "connect", scn.answer).timer = "connect"
        /\ Arm(rung, "connect", scn.answer).at = now + scn.answer
        /\ Arm(rung, "connect", scn.answer).ended = rung.ended
        /\ Arm(rung, "connect", scn.answer).verdict = rung.verdict
    BY ZenonT(60), <1>1, <1>2, Armed
  <2>2. QED
    BY <2>1
<1>4. QED
  BY <1>1, <1>3 DEF InCall, Flag

\* Bob rings.
LEMMA RingsCourse ==
    ASSUME CleanRun, Course, Alerted, Due(bob, "ring"),
           scn.cls \notin {"4", "9", "12", "inv_brkn1"},
           NEW rung, rung = [Fired(bob) EXCEPT !.flags.ring = TRUE],
           bob' = Arm(rung, "connect", scn.answer),
           UNCHANGED <<now, scn, alice>>,
           CASE RingKind(scn.cls) = "180" -> SsutFromBob("180", "none")
             [] RingKind(scn.cls) = "183" -> SsutFromBob("183", "good")
             [] RingKind(scn.cls) = "crippled" -> SsutFromBob("183", "crippled")
    PROVE  Course'
<1>1. Fit /\ Clock
  BY DEF Course
<1>2. /\ now >= ssut.since + RingIval(scn.cls)
      /\ now <= ssut.since + MaxDelay + RingIval(scn.cls)
  BY RingIsDue DEF Alerted, Closing, HalfSet
<1>3. /\ ssut.leg = "calling" /\ ssut.media = "half" /\ ssut.since <= MaxDelay
      /\ toAlice = <<>> /\ toBob = <<>> /\ Unheard
  BY DEF Alerted, HalfSet
<1>4. /\ bob' \in SubtestType /\ InCall(bob, "calling", "connect")'
      /\ Flag(bob, TRUE, FALSE, FALSE)' /\ bob'.at = now + scn.answer
  BY <1>1, WaitsToAnswer
<1>5. scn.cls # "11" \/ RingKind(scn.cls) = "180"
  BY DEF RingKind
<1>6. \/ /\ RingKind(scn.cls) = "180" /\ SsutFromBob("180", "none") /\ scn.cls # "13"
      \/ /\ RingKind(scn.cls) = "183" /\ SsutFromBob("183", "good") /\ scn.cls # "11"
  BY DEF RingKind
<1>7. /\ toBob' = toBob /\ ssut' \in SessionType /\ ssut'.leg = "calling"
      /\ \/ scn.cls # "13" /\ ssut'.media = "half" /\ ssut'.since = ssut.since
         \/ scn.cls # "11" /\ ssut'.media = "full" /\ ssut'.since = now
      /\ toAlice' \in Seq(AlertShape) /\ toAlice' # <<>> /\ toAlice'[1].sent = now
      /\ Only(toAlice, {"180", "183"})'
  <2>1. CASE RingKind(scn.cls) = "180" /\ SsutFromBob("180", "none") /\ scn.cls # "13"
    <3>1. /\ ssut' \in SessionType /\ ssut'.leg = ssut.leg
          /\ ssut'.media = ssut.media /\ ssut'.since = ssut.since /\ toBob' = toBob
          /\ toAlice' \in Seq(AlertShape) /\ Only(toAlice, {"180"})'
          /\ toAlice' # <<>> /\ toAlice'[1].sent = now
      BY <1>1, <1>3, <2>1, RingIsRelayed
    <3>2. QED
      BY <1>3, <2>1, <3>1 DEF Only
  <2>2. CASE RingKind(scn.cls) = "183" /\ SsutFromBob("183", "good") /\ scn.cls # "11"
    <3>1. /\ ssut' \in SessionType /\ ssut'.leg = "calling"
          /\ ssut'.media = "full" /\ ssut'.since = now /\ toBob' = toBob
          /\ toAlice' \in Seq(AlertShape) /\ Only(toAlice, {"183"})'
          /\ toAlice' # <<>> /\ toAlice'[1].sent = now
      BY <1>1, <1>3, <2>2, SdpIsRelayed
    <3>2. QED
      BY <2>2, <3>1 DEF Only
  <2>3. QED
    BY <1>6, <2>1, <2>2
<1>8. Fit'
  BY <1>1, <1>3, <1>4, <1>7 DEF Fit, Drawn
<1>9. Clock'
  <2>1. Minded(alice)' /\ Fetched(toBob)'
    BY <1>1, <1>3, <1>7 DEF Clock, Minded, Fetched
  <2>2. Minded(bob)'
    BY <1>1, <1>4, Amounts DEF Minded, InCall
  <2>3. Fetched(toAlice)'
    BY <1>1, <1>7, Amounts DEF Fetched, Only
  <2>4. (now <= MediaDeadline)' /\ ssut'.since <= now'
    <3>1. CASE ssut'.media = "half" /\ ssut'.since = ssut.since
      BY <1>1, <1>3, <3>1 DEF Clock, MediaDeadline
    <3>2. CASE ssut'.media = "full" /\ ssut'.since = now
      BY <1>1, <3>2, Amounts, Moments DEF MediaDeadline
    <3>3. QED
      BY <1>7, <3>1, <3>2
  <2>5. QED
    BY <1>7, <2>1, <2>2, <2>3, <2>4 DEF Clock
<1>10. Ringing'
  <2>1. RingIsHeard'
    <3>1. InCall(alice, "calling", "none")' /\ Flag(alice, alice.flags.ring, FALSE, FALSE)'
      BY <1>3 DEF Unheard, InCall, Flag
    <3>2. toAlice'[1].sent = bob'.at - scn'.answer
      BY <1>1, <1>4, <1>7, Amounts
    <3>3. QED
      BY <1>7, <3>1, <3>2 DEF RingIsHeard
  <2>2. CASE scn.cls # "13" /\ ssut'.media = "half" /\ ssut'.since = ssut.since
    <3>1. /\ bob'.at >= ssut'.since + RingIval(scn.cls) + scn.answer
          /\ bob'.at <= ssut'.since + MaxDelay + RingIval(scn.cls) + scn.answer
      BY <1>1, <1>2, <1>4, <2>2, Amounts
    <3>2. HalfSet'
      BY <1>3, <1>7, <2>2 DEF HalfSet
    <3>3. QED
      BY <1>3, <1>4, <1>7, <2>1, <2>2, <3>1, <3>2 DEF Ringing
  <2>3. CASE scn.cls # "11" /\ ssut'.media = "full" /\ ssut'.since = now
    <3>1. /\ ssut'.since >= RingIval(scn.cls)
          /\ ssut'.since <= 2 * MaxDelay + RingIval(scn.cls)
      BY SMTT(30), <1>1, <1>2, <1>3, <2>3, Amounts
    <3>2. bob'.at = ssut'.since + scn'.answer
      BY <1>4, <2>3
    <3>3. QED
      BY <1>3, <1>4, <1>7, <2>1, <2>3, <3>1, <3>2 DEF Ringing
  <2>4. QED
    BY <1>7, <2>2, <2>3
<1>11. QED
  BY <1>8, <1>9, <1>10 DEF Course, Stage

\* The SSuT has told Alice that the call is over.
LEMMA ClosingBegins ==
    ASSUME CleanRun, Fit, Clock, UNCHANGED <<now, scn, alice>>,
           ssut' \in SessionType, ssut'.leg = "over", ssut'.media = "none",
           ssut'.since = ssut.since,
           toAlice' \in Seq(AlertShape), Only(toAlice, {"end"})',
           toAlice' # <<>>, toAlice'[1].sent = now, Told(now),
           \/ /\ scn.cls \notin Connecting /\ InCall(alice, "calling", "none")
              /\ Flag(alice, alice.flags.ring, FALSE, FALSE)
           \/ /\ scn.cls \in Connecting /\ InCall(alice, "up", "disconnect")
              /\ Flag(alice, TRUE, TRUE, FALSE),
           bob' \in SubtestType, Minded(bob)', BobCloses',
           toBob' \in Seq(MsgShape), Fetched(toBob)'
    PROVE  Course'
<1>1. Fit'
  BY DEF Fit, Drawn
<1>2. Clock'
  <2>1. Minded(alice)'
    BY DEF Clock, Minded
  <2>2. Fetched(toAlice)'
    BY SMTT(30), Amounts DEF Fetched, Only
  <2>3. ssut'.since <= now
    BY DEF Clock
  <2>4. QED
    BY <2>1, <2>2, <2>3, OverClock
<1>3. AliceCloses'
  <2>1. /\ toAlice' # <<>> => Only(toAlice, {"end"})' /\ Told(toAlice[1].sent)'
        /\ alice'.flags.nerrs = 0
    BY DEF Flag, Told
  <2>2. alice'.flags.disconnect <=> ~Alive(alice)'
    BY DEF Alive, InCall, Flag
  <2>3. /\ alice'.flags.connect <=> scn'.cls \in Connecting
        /\ scn'.cls \in Connecting => alice'.flags.ring
    BY DEF Flag
  <2>4. \/ (InCall(alice, "calling", "none") /\ toAlice # <<>> /\ scn.cls \notin Connecting)'
        \/ (InCall(alice, "up", "disconnect") /\ toAlice # <<>> /\ scn.cls \in Connecting)'
    BY DEF InCall
  <2>5. QED
    BY <2>1, <2>2, <2>3, <2>4 DEF AliceCloses
<1>4. QED
  BY <1>1, <1>2, <1>3 DEF Course, Stage, Closing

\* Bob's subtest when he has rejected the call.
LEMMA HasRejected ==
    ASSUME CleanRun, Fit, NEW side \in SubtestType, side.verdict = Pending,
           Flag(side, TRUE, side.flags.connect, FALSE),
           bob' = [Ended(side) EXCEPT !.flags.connect = TRUE, !.answered = TRUE]
    PROVE  /\ bob' \in SubtestType /\ bob'.ua = "ended" /\ bob'.ended = now
           /\ bob'.timer = side.timer /\ bob'.at = side.at /\ bob'.verdict = Pending
           /\ Flag(bob, TRUE, TRUE, TRUE)'
<1> DEFINE e == Ended(side)
<1>1. now \in 0..Horizon
  BY Amounts
<1>2. /\ e \in SubtestType
      /\ e.ua = "ended" /\ e.ended = now /\ e.timer = side.timer /\ e.at = side.at
      /\ e.verdict = side.verdict
      /\ e.flags.ring = side.flags.ring /\ e.flags.disconnect = TRUE
      /\ e.flags.nerrs = side.flags.nerrs
  BY <1>1, HasEnded
<1>3. bob' = [e EXCEPT !.flags.connect = TRUE, !.answered = TRUE]
  OBVIOUS
<1> HIDE DEF e
<1>4. /\ bob' \in SubtestType /\ bob'.ua = e.ua /\ bob'.timer = e.timer
      /\ bob'.at = e.at /\ bob'.ended = e.ended /\ bob'.verdict = e.verdict
      /\ bob'.flags.connect = TRUE /\ bob'.flags.ring = e.flags.ring
      /\ bob'.flags.disconnect = e.flags.disconnect
      /\ bob'.flags.nerrs = e.flags.nerrs
  BY ZenonT(60), <1>2, <1>3, AnswerRises
<1>5. QED
  BY <1>2, <1>4 DEF Flag

\* t4: Bob rejects the call at once.
LEMMA RingRejectsCourse ==
    ASSUME CleanRun, Course, Alerted, Due(bob, "ring"), scn.cls \in {"4", "9"},
           NEW rung, rung = [Fired(bob) EXCEPT !.flags.ring = TRUE],
           bob' = [Ended(rung) EXCEPT !.flags.connect = TRUE, !.answered = TRUE],
           SsutFromBob("reject", "none"), UNCHANGED <<now, scn, alice>>
    PROVE  Course'
<1>1. Fit /\ Clock
  BY DEF Course
<1>2. now <= 7
  <2>1. RingIval(scn.cls) = 5
    BY DEF RingIval
  <2>2. now <= ssut.since + MaxDelay + 5 /\ ssut.since <= MaxDelay
    BY <2>1, RingIsDue DEF Alerted, Closing, HalfSet
  <2>3. QED
    BY <1>1, <2>2, Amounts
<1>3. Told(now) /\ Leaves(now)
  <2>1. TestTimeout(scn.cls) = 45 /\ scn.cls \notin {"11", "12", "13"}
    BY DEF TestTimeout
  <2>2. QED
    BY <1>1, <1>2, <2>1, Amounts DEF Told, Leaves
<1>4. rung \in SubtestType /\ InCall(rung, "calling", "none") /\ Flag(rung, TRUE, FALSE, FALSE)
  BY <1>1, HasRung
<1>5. /\ bob' \in SubtestType /\ bob'.ua = "ended" /\ bob'.ended = now
      /\ bob'.timer = "none" /\ bob'.verdict = Pending
      /\ Flag(bob, TRUE, TRUE, TRUE)'
  BY <1>1, <1>4, HasRejected DEF InCall, Flag
<1>6. /\ ssut' \in SessionType /\ ssut'.leg = "over" /\ ssut'.media = "none"
      /\ ssut'.since = ssut.since /\ toBob' = toBob
      /\ toAlice' \in Seq(AlertShape) /\ Only(toAlice, {"end"})'
      /\ toAlice' # <<>> /\ toAlice'[1].sent = now
  BY <1>1, BobEndIsRelayed DEF Alerted, HalfSet
<1>7. Minded(bob)' /\ Fetched(toBob)' /\ toBob' \in Seq(MsgShape) /\ toBob' = <<>>
  BY SMTT(30), <1>1, <1>5, <1>6, Amounts DEF Minded, Fit, Clock, Alerted, Fetched
<1>8. BobCloses'
  <2>1. Gone(bob)'
    BY <1>3, <1>5 DEF Gone, Leaves
  <2>2. QED
    BY <1>5, <1>7, <2>1 DEF BobCloses, CutOffs
<1>9. scn.cls \notin Connecting /\ InCall(alice, "calling", "none") /\ Flag(alice, alice.flags.ring, FALSE, FALSE)
  BY DEF Connecting, Refusing, Alerted, Unheard
<1>10. Flag(alice, alice.flags.ring, FALSE, FALSE)
  BY <1>9 DEF Flag
<1>11. QED
  BY <1>1, <1>3, <1>5, <1>6, <1>7, <1>8, <1>9, <1>10, ClosingBegins

\* The SSuT ends a call that is being set up.
LEMMA CutOffCourse ==
    ASSUME CleanRun, Fit, Clock, UNCHANGED <<now, scn, alice>>,
           ssut.leg = "calling", toAlice = <<>>, toBob = <<>>, HangUpBoth("no"),
           scn.cls \in CutOffs, Told(now),
           InCall(alice, "calling", "none"), Flag(alice, alice.flags.ring, FALSE, FALSE),
           bob' \in SubtestType, NEW timer \in {"ring", "connect"},
           InCall(bob, "calling", timer)',
           Flag(bob, scn.cls # "12", FALSE, FALSE)', bob'.at > now + MaxDelay
    PROVE  Course'
<1>1. /\ ssut' \in SessionType /\ ssut'.leg = "over" /\ ssut'.media = "none"
      /\ ssut'.since = ssut.since
      /\ toAlice' \in Seq(AlertShape) /\ Only(toAlice, {"end"})'
      /\ toAlice' # <<>> /\ toAlice'[1].sent = now
      /\ toBob' \in Seq(MsgShape) /\ toBob' # <<>> /\ toBob'[1].sent = now
      /\ Only(toBob, {"CANCEL"})'
  BY BothAreToldOf
<1>2. Fetched(toBob)'
  BY SMTT(30), <1>1, Amounts DEF Fetched, Only
<1>3. Minded(bob)'
  <2>1. bob'.at \in Nat
    BY Amounts, Moments DEF SubtestType
  <2>2. QED
    BY <2>1, Amounts DEF Minded, InCall
<1>4. BobCloses'
  <2>1. Only(toBob, {"CANCEL", "BYE"})' /\ Told(toBob[1].sent)'
    BY <1>1 DEF Only, Told
  <2>2. bob'.timer = timer
    BY DEF InCall
  <2>3. /\ (scn.cls \in CutOffs)' /\ (bob.timer \in {"ring", "connect"})'
        /\ InCall(bob, "calling", bob.timer)' /\ (bob.at > toBob[1].sent + MaxDelay)'
    BY <1>1, <2>2
  <2>4. Flag(bob, scn.cls # "12", FALSE, FALSE)'
    OBVIOUS
  <2>5. QED
    BY <1>1, <2>1, <2>3, <2>4 DEF BobCloses
<1>5. scn.cls \notin Connecting
  BY DEF Connecting
<1>6. QED
  BY <1>1, <1>2, <1>3, <1>4, <1>5, ClosingBegins

\* inv_brkn1: Bob's SDP makes the SSuT give up.
LEMMA RingCrippledCourse ==
    ASSUME CleanRun, Course, Alerted, Due(bob, "ring"), scn.cls = "inv_brkn1",
           NEW rung, rung = [Fired(bob) EXCEPT !.flags.ring = TRUE],
           bob' = Arm(rung, "connect", scn.answer),
           SsutFromBob("183", "crippled"), UNCHANGED <<now, scn, alice>>
    PROVE  Course'
<1>1. Fit /\ Clock
  BY DEF Course
<1>2. now <= 7
  <2>1. RingIval(scn.cls) = 5
    BY DEF RingIval
  <2>2. now <= ssut.since + MaxDelay + 5 /\ ssut.since <= MaxDelay
    BY <2>1, RingIsDue DEF Alerted, Closing, HalfSet
  <2>3. QED
    BY <1>1, <2>2, Amounts
<1>3. Told(now)
  <2>1. TestTimeout(scn.cls) = 75
    BY DEF TestTimeout
  <2>2. QED
    BY <1>1, <1>2, <2>1, Amounts DEF Told
<1>4. /\ bob' \in SubtestType /\ InCall(bob, "calling", "connect")'
      /\ Flag(bob, TRUE, FALSE, FALSE)' /\ bob'.at = now + scn.answer
  BY <1>1, WaitsToAnswer
<1>5. bob'.at > now + MaxDelay
  <2>1. scn.answer >= 8
    BY <1>1, Intervals DEF Fit
  <2>2. QED
    BY <1>1, <1>4, <2>1, Amounts
<1>6. /\ ssut.leg = "calling" /\ toAlice = <<>> /\ toBob = <<>>
      /\ InCall(alice, "calling", "none") /\ Flag(alice, alice.flags.ring, FALSE, FALSE)
  BY DEF Alerted, HalfSet, Unheard, Flag
<1>7. HangUpBoth("no")
  BY <1>6, CrippledIsRefused
<1>8. scn.cls \in CutOffs /\ Flag(bob, scn.cls # "12", FALSE, FALSE)'
  BY <1>4 DEF CutOffs, Flag
<1>9. QED
  BY <1>1, <1>3, <1>4, <1>5, <1>6, <1>7, <1>8, CutOffCourse

LEMMA BobRingCourse ==
    ASSUME CleanRun, Course, BobRing
    PROVE  Course'
<1>1. Due(bob, "ring") /\ UNCHANGED <<now, scn, alice>>
  BY DEF BobRing
<1>2. CASE Closing /\ Gone(bob) /\ bob.flags.disconnect
  <2>1. bob' = Fired(bob) /\ UNCHANGED <<ssut, toAlice, toBob>>
    BY <1>2 DEF BobRing
  <2>2. QED
    BY <1>1, <1>2, <2>1, BobFiredCourse
<1>3. CASE Alerted /\ scn.cls # "12"
  <2> DEFINE rung == [Fired(bob) EXCEPT !.flags.ring = TRUE]
  <2>1. ~(bob.flags.connect \/ bob.flags.disconnect)
    BY <1>3 DEF Alerted, Flag
  <2>2. \/ /\ RingKind(scn.cls) = "reject"
           /\ bob' = [Ended(rung) EXCEPT !.flags.connect = TRUE, !.answered = TRUE]
           /\ SsutFromBob("reject", "none")
        \/ /\ RingKind(scn.cls) # "reject"
           /\ bob' = Arm(rung, "connect", scn.answer)
           /\ CASE RingKind(scn.cls) = "180" -> SsutFromBob("180", "none")
                [] RingKind(scn.cls) = "183" -> SsutFromBob("183", "good")
                [] RingKind(scn.cls) = "crippled" -> SsutFromBob("183", "crippled")
    BY <2>1 DEF BobRing
  <2> HIDE DEF rung
  <2>3. CASE scn.cls \in {"4", "9"}
    <3>1. RingKind(scn.cls) = "reject"
      BY <2>3 DEF RingKind
    <3>2. /\ bob' = [Ended(rung) EXCEPT !.flags.connect = TRUE, !.answered = TRUE]
          /\ SsutFromBob("reject", "none")
      BY <2>2, <3>1
    <3>3. QED
      BY <1>1, <1>3, <2>3, <3>2, RingRejectsCourse DEF rung
  <2>4. CASE scn.cls = "inv_brkn1"
    <3>1. RingKind(scn.cls) = "crippled"
      BY <2>4 DEF RingKind
    <3>2. bob' = Arm(rung, "connect", scn.answer) /\ SsutFromBob("183", "crippled")
      BY <2>2, <3>1
    <3>3. QED
      BY <1>1, <1>3, <2>4, <3>2, RingCrippledCourse DEF rung
  <2>5. CASE scn.cls \notin {"4", "9", "inv_brkn1"}
    <3>1. RingKind(scn.cls) # "reject"
      BY <2>5 DEF RingKind
    <3>2. /\ bob' = Arm(rung, "connect", scn.answer)
          /\ CASE RingKind(scn.cls) = "180" -> SsutFromBob("180", "none")
               [] RingKind(scn.cls) = "183" -> SsutFromBob("183", "good")
               [] RingKind(scn.cls) = "crippled" -> SsutFromBob("183", "crippled")
      BY <2>2, <3>1
    <3>3. QED
      BY <1>1, <1>3, <2>5, <3>2, RingsCourse DEF rung
  <2>6. QED
    BY <2>3, <2>4, <2>5
<1>4. QED
  BY <1>1, <1>2, <1>3, RingIsDue

\* A ring is delivered long before anything follows it.
LEMMA RingIsOld ==
    ASSUME CleanRun, Course, Ringing, now > bob.at - scn.answer + MaxDelay
    PROVE  /\ toAlice = <<>> /\ InCall(alice, "calling", "none")
           /\ Flag(alice, TRUE, FALSE, FALSE)
<1>1. Fit /\ Clock
  BY DEF Course
<1>2. ASSUME toAlice # <<>>, toAlice[1].sent = bob.at - scn.answer PROVE FALSE
  BY <1>1, <1>2, Amounts DEF Clock, Fetched
<1>3. ASSUME NEW kinds, Only(toAlice, kinds) PROVE toAlice # <<>>
  BY <1>3, Filled DEF Only
<1>4. QED
  BY <1>2, <1>3 DEF Ringing, RingIsHeard

\* When the media time out, t11 to t14 are the ones that wait for it.
LEMMA OfferTimesOut ==
    ASSUME CleanRun, Course, now >= MediaDeadline
    PROVE  \/ Alerted /\ scn.cls = "12" /\ now = ssut.since + 30
           \/ Ringing /\ scn.cls = "11" /\ now = ssut.since + 30 /\ HalfSet
           \/ /\ Ringing /\ scn.cls = "13" /\ now = ssut.since + 45
              /\ ssut.leg = "calling" /\ ssut.since \in 1..2 * MaxDelay + 1
              /\ bob.at = ssut.since + scn.answer
           \/ Talking /\ scn.cls = "14" /\ now = ssut.since + 45
<1>1. Fit /\ Clock /\ now <= MediaDeadline
  BY DEF Course, Clock
<1>2. /\ ssut.media = "none" => FALSE
      /\ ssut.media = "half" => now = ssut.since + 30
      /\ ssut.media = "full" => now = ssut.since + 45
  <2>1. MediaDeadline # Never
    BY <1>1, Amounts
  <2>2. now \in Nat /\ ssut.since \in Nat /\ HalfTimeout = 30 /\ FullTimeout = 45
    BY <1>1, Amounts, Moments
  <2>3. CASE ssut.media = "none"
    BY <2>1, <2>3 DEF MediaDeadline
  <2>4. CASE ssut.media = "half"
    BY <1>1, <2>2, <2>4 DEF MediaDeadline
  <2>5. CASE ssut.media = "full"
    <3>1. MediaDeadline = ssut.since + 45
      BY <2>1, <2>2, <2>5 DEF MediaDeadline
    <3>2. QED
      BY <1>1, <2>2, <2>5, <3>1
  <2>6. QED
    BY <1>1, <2>3, <2>4, <2>5
<1>3. bob.timer # "none" => now <= bob.at
  BY <1>1 DEF Clock, Minded
<1>4. ASSUME Offered PROVE FALSE
  <2>1. now = ssut.since + 30 /\ toBob # <<>> /\ toBob[1].sent = ssut.since
    BY <1>2, <1>4, EmptySeq DEF Offered, HalfSet, Only
  <2>2. QED
    BY <1>1, <2>1, Amounts DEF Clock, Fetched
<1>5. ASSUME Alerted PROVE scn.cls = "12" /\ now = ssut.since + 30
  <2>1. now = ssut.since + 30 /\ now <= ssut.since + MaxDelay + RingIval(scn.cls)
    <3>1. now = ssut.since + 30 /\ now <= bob.at
      BY <1>2, <1>3, <1>5 DEF Alerted, HalfSet, InCall
    <3>2. bob.at <= ssut.since + MaxDelay + RingIval(scn.cls)
      BY <1>5 DEF Alerted
    <3>3. QED
      BY <1>1, <3>1, <3>2, Amounts
  <2>2. RingIval(scn.cls) <= 5 => FALSE
    BY <1>1, <2>1, Amounts
  <2>3. scn.cls # "12" => RingIval(scn.cls) <= 5
    BY <1>1, Intervals DEF Fit
  <2>4. QED
    BY <2>1, <2>2, <2>3
<1>6. ASSUME Ringing
      PROVE  \/ scn.cls = "11" /\ now = ssut.since + 30 /\ HalfSet
             \/ /\ scn.cls = "13" /\ now = ssut.since + 45
                /\ ssut.leg = "calling" /\ ssut.since \in 1..2 * MaxDelay + 1
                /\ bob.at = ssut.since + scn.answer
  <2>1. now <= bob.at
    BY <1>3, <1>6 DEF Ringing, InCall
  <2>2. /\ scn.cls \notin {"11", "13"} => scn.answer <= 13
        /\ scn.cls # "12" => RingIval(scn.cls) <= 5
        /\ scn.cls = "13" => RingIval(scn.cls) = 1
    BY <1>1, Intervals DEF Fit
  <2>3. CASE /\ scn.cls # "13" /\ HalfSet
             /\ bob.at <= ssut.since + MaxDelay + RingIval(scn.cls) + scn.answer
    <3>1. now = ssut.since + 30
      BY <1>2, <2>3 DEF HalfSet
    <3>2. scn.cls # "12" /\ scn.cls # "13"
      BY <1>6, <2>3 DEF Ringing
    <3>3. scn.cls # "11" => FALSE
      BY <1>1, <2>1, <2>2, <2>3, <3>1, <3>2, Amounts
    <3>4. QED
      BY <2>3, <3>1, <3>3
  <2>4. CASE /\ scn.cls # "11" /\ ssut.leg = "calling" /\ ssut.media = "full"
             /\ ssut.since >= RingIval(scn.cls)
             /\ ssut.since <= 2 * MaxDelay + RingIval(scn.cls)
             /\ bob.at = ssut.since + scn.answer
    <3>1. now = ssut.since + 45
      BY <1>2, <2>4
    <3>2. scn.cls # "13" => FALSE
      BY <1>1, <2>1, <2>2, <2>4, <3>1, Amounts
    <3>3. ssut.since \in 1..2 * MaxDelay + 1
      BY <1>1, <2>2, <2>4, <3>2, Amounts
    <3>4. QED
      BY <2>4, <3>1, <3>2, <3>3
  <2>5. QED
    BY <1>6, <2>3, <2>4 DEF Ringing
<1>7. ASSUME Talking PROVE scn.cls = "14" /\ now = ssut.since + 45
  <2>1. now = ssut.since + 45 /\ now <= bob.at /\ bob.at = ssut.since + scn.hang
    BY <1>2, <1>3, <1>7 DEF Talking, InCall
  <2>2. scn.cls # "14" => scn.hang <= 14
    BY <1>1, Intervals DEF Fit
  <2>3. QED
    BY <1>1, <2>1, <2>2, Amounts
<1>8. ASSUME Closing \/ Placed PROVE FALSE
  BY <1>2, <1>8 DEF Closing, Placed
<1>9. QED
  BY <1>4, <1>5, <1>6, <1>7, <1>8 DEF Course, Stage

\* t11 and t12 are cut off before the SSuT has seen two SDPs, t13 after.
LEMMA CutOffOnTime ==
    ASSUME CleanRun, Fit, Clock, scn.cls \in {"11", "12", "13"}, HangUpBoth("no"),
           UNCHANGED <<now, scn, alice, bob>>, ssut.leg = "calling",
           toAlice = <<>>, toBob = <<>>,
           InCall(alice, "calling", "none"), Flag(alice, alice.flags.ring, FALSE, FALSE),
           NEW timer \in {"ring", "connect"}, InCall(bob, "calling", timer),
           Flag(bob, scn.cls # "12", FALSE, FALSE), bob.at > now + MaxDelay,
           scn.cls \in {"11", "12"} => now >= 30 /\ now <= 30 + 2 * MaxDelay,
           scn.cls = "13" => now >= 46 /\ now <= 46 + 2 * MaxDelay
    PROVE  Course'
<1>1. Told(now)
  <2>1. TestTimeout(scn.cls) = 75
    BY DEF TestTimeout
  <2>2. QED
    BY SMTT(30), <2>1, Amounts DEF Told
<1>2. scn.cls \in CutOffs
  BY DEF CutOffs
<1>3. /\ bob' \in SubtestType /\ InCall(bob, "calling", timer)'
      /\ Flag(bob, scn.cls # "12", FALSE, FALSE)' /\ bob'.at > now + MaxDelay
  BY DEF Fit, InCall, Flag
<1>4. QED
  BY <1>1, <1>2, <1>3, CutOffCourse

LEMMA SsutTimeoutCourse ==
    ASSUME CleanRun, Course, SsutTimeout
    PROVE  Course'
<1>1. /\ Fit /\ Clock /\ now >= MediaDeadline /\ HangUpBoth("no")
      /\ UNCHANGED <<now, scn, alice, bob>>
  BY DEF Course, SsutTimeout
<1>2. CASE Alerted /\ scn.cls = "12" /\ now = ssut.since + 30
  <2>1. bob.at > now + MaxDelay
    <3>1. RingIval(scn.cls) = 40 /\ bob.at >= ssut.since + RingIval(scn.cls)
      BY <1>2 DEF Alerted, RingIval
    <3>2. QED
      BY <1>1, <1>2, <3>1, Amounts
  <2>2. now >= 30 /\ now <= 30 + 2 * MaxDelay
    <3>1. ssut.since <= MaxDelay
      BY <1>2 DEF Alerted, HalfSet
    <3>2. QED
      BY <1>1, <1>2, <3>1, Amounts
  <2>3. /\ ssut.leg = "calling" /\ toAlice = <<>> /\ toBob = <<>>
        /\ InCall(alice, "calling", "none") /\ Flag(alice, alice.flags.ring, FALSE, FALSE)
        /\ InCall(bob, "calling", "ring") /\ Flag(bob, FALSE, FALSE, FALSE)
    BY <1>2 DEF Alerted, HalfSet, Unheard, Flag
  <2>4. Flag(bob, scn.cls # "12", FALSE, FALSE)
    BY <1>2, <2>3 DEF Flag
  <2>5. QED
    BY <1>1, <1>2, <2>1, <2>2, <2>3, <2>4, CutOffOnTime
<1>3. CASE Ringing /\ scn.cls = "11" /\ now = ssut.since + 30 /\ HalfSet
  <2>1. scn.answer = 55
    BY <1>1, <1>3, Intervals DEF Fit
  <2>2. /\ bob.at >= ssut.since + RingIval(scn.cls) + scn.answer
        /\ bob.at <= ssut.since + MaxDelay + RingIval(scn.cls) + scn.answer
        /\ ssut.since <= MaxDelay /\ RingIval(scn.cls) = 5
    BY <1>3 DEF Ringing, HalfSet, RingIval
  <2>3. /\ bob.at > now + MaxDelay /\ now > bob.at - scn.answer + MaxDelay
        /\ now >= 30 /\ now <= 30 + 2 * MaxDelay
    BY <1>1, <1>3, <2>1, <2>2, Amounts
  <2>4. /\ toAlice = <<>> /\ InCall(alice, "calling", "none")
        /\ Flag(alice, TRUE, FALSE, FALSE)
    BY <1>3, <2>3, RingIsOld
  <2>5. /\ ssut.leg = "calling" /\ toBob = <<>>
        /\ InCall(bob, "calling", "connect") /\ Flag(bob, TRUE, FALSE, FALSE)
    BY <1>3 DEF Ringing, HalfSet
  <2>6. Flag(bob, scn.cls # "12", FALSE, FALSE) /\ Flag(alice, alice.flags.ring, FALSE, FALSE)
    BY <1>3, <2>4, <2>5 DEF Flag
  <2>7. QED
    BY <1>1, <1>3, <2>3, <2>4, <2>5, <2>6, CutOffOnTime
<1>4. CASE /\ Ringing /\ scn.cls = "13" /\ now = ssut.since + 45
           /\ ssut.leg = "calling" /\ ssut.since \in 1..2 * MaxDelay + 1
           /\ bob.at = ssut.since + scn.answer
  <2>1. scn.answer = 55
    BY <1>1, <1>4, Intervals DEF Fit
  <2>2. /\ bob.at > now + MaxDelay /\ now > bob.at - scn.answer + MaxDelay
        /\ now >= 46 /\ now <= 46 + 2 * MaxDelay
    BY <1>1, <1>4, <2>1, Amounts
  <2>3. /\ toAlice = <<>> /\ InCall(alice, "calling", "none")
        /\ Flag(alice, TRUE, FALSE, FALSE)
    BY <1>4, <2>2, RingIsOld
  <2>4. /\ ssut.leg = "calling" /\ toBob = <<>>
        /\ InCall(bob, "calling", "connect") /\ Flag(bob, TRUE, FALSE, FALSE)
    BY <1>4 DEF Ringing
  <2>5. Flag(bob, scn.cls # "12", FALSE, FALSE) /\ Flag(alice, alice.flags.ring, FALSE, FALSE)
    BY <1>4, <2>3, <2>4 DEF Flag
  <2>6. QED
    BY <1>1, <1>4, <2>2, <2>3, <2>4, <2>5, CutOffOnTime
<1>5. CASE Talking /\ scn.cls = "14" /\ now = ssut.since + 45
  <2>1. /\ ssut.leg = "up" /\ toBob = <<>> /\ InCall(bob, "up", "disconnect")
        /\ Flag(bob, TRUE, TRUE, FALSE) /\ scn.cls \in Connecting
        /\ ssut.since <= 2 * MaxDelay + RingIval(scn.cls) + scn.answer
    BY <1>5 DEF Talking
  <2>2. RingIval(scn.cls) = 1 /\ scn.answer = 2 /\ TestTimeout(scn.cls) = 75
    BY <1>1, <1>5, Intervals DEF Fit
  <2>3. Told(now)
    <3>1. ssut.since <= 2 * MaxDelay + 1 + 2
      BY <2>1, <2>2
    <3>2. now <= 50
      BY <1>1, <1>5, <3>1, Amounts
    <3>3. QED
      BY <1>1, <1>5, <2>2, <3>2, Amounts DEF Told
  <2>4. ASSUME toAlice # <<>>, toAlice[1].sent = ssut.since PROVE FALSE
    BY SMTT(30), <1>1, <1>5, <2>4, Amounts DEF Clock, Fetched
  <2>5. /\ toAlice = <<>> /\ InCall(alice, "up", "disconnect")
        /\ Flag(alice, TRUE, TRUE, FALSE)
    <3>1. Only(toAlice, {"200"}) => toAlice # <<>>
      BY Filled DEF Only
    <3>2. QED
      BY <1>5, <2>4, <3>1 DEF Talking, AnswerIsHeard
  <2>6. /\ ssut' \in SessionType /\ ssut'.leg = "over" /\ ssut'.media = "none"
        /\ ssut'.since = ssut.since
        /\ toAlice' \in Seq(AlertShape) /\ Only(toAlice, {"end"})'
        /\ toAlice' # <<>> /\ toAlice'[1].sent = now
        /\ toBob' \in Seq(MsgShape) /\ toBob' # <<>> /\ toBob'[1].sent = now
        /\ Only(toBob, {"BYE"})'
    BY <1>1, <2>1, <2>5, BothAreToldOf
  <2>7. Fetched(toBob)'
    BY <1>1, <2>6, Amounts DEF Fetched, Only
  <2>8. bob' \in SubtestType /\ Minded(bob)'
    BY <1>1 DEF Fit, Clock, Minded
  <2>9. BobCloses'
    <3>1. Only(toBob, {"CANCEL", "BYE"})' /\ Told(toBob[1].sent)'
      BY <1>1, <2>3, <2>6 DEF Only, Told
    <3>2. InCall(bob, "up", "disconnect")' /\ Flag(bob, TRUE, TRUE, FALSE)'
      BY <1>1, <2>1 DEF InCall, Flag
    <3>3. (scn.cls \notin CutOffs)'
      BY <1>1, <1>5 DEF CutOffs
    <3>4. QED
      BY <2>6, <3>1, <3>2, <3>3 DEF BobCloses
  <2>10. QED
    BY <1>1, <2>1, <2>3, <2>5, <2>6, <2>7, <2>8, <2>9, ClosingBegins
<1>6. QED
  BY <1>1, <1>2, <1>3, <1>4, <1>5, OfferTimesOut

\* When Bob is to give his final answer.
LEMMA AnswerIsDue ==
    ASSUME CleanRun, Course, Due(bob, "connect")
    PROVE  \/ /\ Ringing /\ scn.cls \notin CutOffs /\ ssut.leg = "calling"
              /\ now = bob.at /\ now <= 2 * MaxDelay + RingIval(scn.cls) + scn.answer
              /\ toAlice = <<>> /\ InCall(alice, "calling", "none")
              /\ Flag(alice, TRUE, FALSE, FALSE)
           \/ Closing /\ Gone(bob) /\ ~ConnectGuard(scn.cls, bob.flags)
<1>1. Fit /\ Clock /\ bob.timer = "connect" /\ now >= bob.at /\ now <= bob.at
  BY DEF Course, Due, Clock, Minded
<1>2. now = bob.at
  BY <1>1, Amounts
<1>3. CASE Ringing
  <2>1. now > bob.at - scn.answer + MaxDelay
    BY <1>1, <1>2, Amounts
  <2>2. /\ toAlice = <<>> /\ InCall(alice, "calling", "none")
        /\ Flag(alice, TRUE, FALSE, FALSE)
    BY <1>3, <2>1, RingIsOld
  <2>3. scn.cls \in {"11", "13"} => scn.answer = 55
    BY <1>1, Intervals DEF Fit
  <2>4. CASE /\ scn.cls # "13" /\ HalfSet
             /\ bob.at >= ssut.since + RingIval(scn.cls) + scn.answer
             /\ bob.at <= ssut.since + MaxDelay + RingIval(scn.cls) + scn.answer
    <3>1. now <= ssut.since + 30
      BY <1>1, <2>4 DEF Clock, HalfSet, MediaDeadline, CleanRun
    <3>2. scn.cls # "11"
      BY <1>1, <1>2, <2>3, <2>4, <3>1, Amounts
    <3>3. now <= 2 * MaxDelay + RingIval(scn.cls) + scn.answer
      BY <1>1, <1>2, <2>4, Amounts DEF HalfSet
    <3>4. scn.cls \notin CutOffs
      BY <1>3, <2>4, <3>2 DEF Ringing, CutOffs
    <3>5. QED
      BY <1>2, <1>3, <2>2, <2>4, <3>3, <3>4 DEF HalfSet
  <2>5. CASE /\ scn.cls # "11" /\ ssut.leg = "calling" /\ ssut.media = "full"
             /\ ssut.since <= 2 * MaxDelay + RingIval(scn.cls)
             /\ bob.at = ssut.since + scn.answer
    <3>1. scn.cls = "13" => now <= ssut.since + 45
      BY <1>1, <2>5 DEF Clock, MediaDeadline, CleanRun, HasMedia
    <3>2. scn.cls # "13"
      BY <1>1, <1>2, <2>3, <2>5, <3>1, Amounts
    <3>3. now <= 2 * MaxDelay + RingIval(scn.cls) + scn.answer
      BY <1>1, <1>2, <2>5, Amounts
    <3>4. scn.cls \notin CutOffs
      BY <1>3, <2>5, <3>2 DEF Ringing, CutOffs
    <3>5. QED
      BY <1>2, <1>3, <2>2, <2>5, <3>3, <3>4
  <2>6. QED
    BY <1>3, <2>4, <2>5 DEF Ringing
<1>4. CASE Closing
  <2>1. ASSUME toBob # <<>>, bob.at > toBob[1].sent + MaxDelay PROVE FALSE
    BY <1>1, <1>2, <2>1, Amounts DEF Clock, Fetched
  <2>2. Only(toBob, {"CANCEL"}) => toBob # <<>>
    BY Filled DEF Only
  <2>3. Gone(bob) /\ Flag(bob, scn.cls # "12", scn.cls \notin CutOffs, TRUE)
    BY <1>1, <1>4, <2>1, <2>2 DEF Closing, BobCloses, InCall
  <2>4. ~ConnectGuard(scn.cls, bob.flags)
    BY <2>3 DEF ConnectGuard, Flag, CutOffs
  <2>5. QED
    BY <1>4, <2>3, <2>4
<1>5. QED
  BY <1>1, <1>3, <1>4 DEF Course, Stage, Placed, Offered, NotBegun, Alerted, Talking, InCall

\* Bob's subtest when it has set connect_done.
LEMMA HasAnswered ==
    ASSUME Fit, CleanRun, Ringing, NEW done, done = [Fired(bob) EXCEPT !.flags.connect = TRUE]
    PROVE  done \in SubtestType /\ InCall(done, "calling", "none")
           /\ Flag(done, TRUE, TRUE, FALSE)
<1> DEFINE f == Fired(bob)
<1>1. /\ f \in SubtestType /\ f.ua = bob.ua /\ f.flags = bob.flags /\ f.timer = "none"
      /\ f.ended = bob.ended /\ f.verdict = bob.verdict
  BY Spent DEF Fit
<1>2. done = [f EXCEPT !.flags.connect = TRUE]
  OBVIOUS
<1> HIDE DEF f
<1>3. /\ done \in SubtestType /\ done.ua = f.ua /\ done.timer = f.timer
      /\ done.ended = f.ended /\ done.verdict = f.verdict
      /\ done.flags.connect = TRUE /\ done.flags.ring = f.flags.ring
      /\ done.flags.disconnect = f.flags.disconnect
      /\ done.flags.nerrs = f.flags.nerrs
  BY ZenonT(60), <1>1, <1>2, ConnectRises
<1>4. QED
  BY <1>1, <1>3 DEF Ringing, InCall, Flag

\* A side that has just ended has time to report.
LEMMA JustEnded ==
    ASSUME CleanRun, Fit, now' = now
    PROVE  /\ bob'.timer = "none" /\ bob'.ended = now => Minded(bob)'
           /\ alice'.timer = "none" /\ alice'.ended = now => Minded(alice)'
<1>1. now <= now + GoDeadTimeout
  BY Amounts
<1>2. QED
  BY <1>1 DEF Minded, GoDeadTimeout

\* A call that ends in its first seconds ends in time.
LEMMA Early ==
    ASSUME NEW t \in Nat, t <= 34, scn.cls \notin {"11", "12", "13"}
    PROVE  Told(t) /\ Leaves(t)
<1>1. TestTimeout(scn.cls) \in {45, 75}
  BY DEF TestTimeout
<1>2. t + 11 <= TestTimeout(scn.cls) /\ t + 10 <= TestTimeout(scn.cls)
  BY <1>1
<1>3. QED
  BY <1>2 DEF Told, Leaves, GoDeadTimeout

\* t3: Bob rejects the call after he has rung.
LEMMA ConnectRejectsCourse ==
    ASSUME CleanRun, Course, Ringing, scn.cls \in {"3", "5", "8", "10"},
           ssut.leg = "calling",
           now <= 2 * MaxDelay + RingIval(scn.cls) + scn.answer, toAlice = <<>>,
           InCall(alice, "calling", "none"), Flag(alice, TRUE, FALSE, FALSE),
           NEW done, done = [Fired(bob) EXCEPT !.flags.connect = TRUE],
           bob' = [Ended(done) EXCEPT !.answered = TRUE],
           SsutFromBob("reject", "none"), UNCHANGED <<now, scn, alice>>
    PROVE  Course'
<1>1. Fit /\ Clock
  BY DEF Course
<1>2. now <= 20
  <2>1. RingIval(scn.cls) <= 5 /\ scn.answer <= 13
    BY <1>1, Intervals DEF Fit
  <2>2. QED
    BY <1>1, <2>1, Amounts
<1>3. Told(now) /\ Leaves(now)
  <2>1. now \in Nat /\ now <= 34
    BY <1>1, <1>2, Amounts
  <2>2. QED
    BY <2>1, Early
<1>4. done \in SubtestType /\ InCall(done, "calling", "none") /\ Flag(done, TRUE, TRUE, FALSE)
  BY <1>1, HasAnswered
<1>5. /\ bob' \in SubtestType /\ bob'.ua = "ended" /\ bob'.ended = now
      /\ bob'.timer = "none" /\ bob'.verdict = Pending
      /\ Flag(bob, TRUE, TRUE, TRUE)'
  <2> DEFINE e == Ended(done)
  <2>1. now \in 0..Horizon
    BY <1>1, Amounts
  <2>2. /\ e \in SubtestType
        /\ e.ua = "ended" /\ e.ended = now /\ e.timer = done.timer
        /\ e.verdict = done.verdict
        /\ e.flags.ring = done.flags.ring /\ e.flags.connect = done.flags.connect
        /\ e.flags.disconnect = TRUE /\ e.flags.nerrs = done.flags.nerrs
    BY <1>4, <2>1, HasEnded
  <2>3. bob' = [e EXCEPT !.answered = TRUE]
    OBVIOUS
  <2> HIDE DEF e
  <2>4. /\ bob' \in SubtestType /\ bob'.ua = e.ua /\ bob'.ended = e.ended
        /\ bob'.timer = e.timer /\ bob'.verdict = e.verdict /\ bob'.flags = e.flags
    BY <2>2, <2>3 DEF SubtestType
  <2>5. QED
    BY <1>4, <2>2, <2>4 DEF InCall, Flag
<1>6. /\ ssut' \in SessionType /\ ssut'.leg = "over" /\ ssut'.media = "none"
      /\ ssut'.since = ssut.since /\ toBob' = toBob
      /\ toAlice' \in Seq(AlertShape) /\ Only(toAlice, {"end"})'
      /\ toAlice' # <<>> /\ toAlice'[1].sent = now
  BY <1>1, BobEndIsRelayed
<1>7. Minded(bob)' /\ Fetched(toBob)' /\ toBob' \in Seq(MsgShape) /\ toBob' = <<>>
  <2>1. toBob' = <<>> /\ toBob' \in Seq(MsgShape) /\ Fetched(toBob)'
    BY <1>1, <1>6, EmptySeq DEF Fetched, Ringing
  <2>2. Minded(bob)'
    BY <1>1, <1>5, JustEnded
  <2>3. QED
    BY <2>1, <2>2
<1>8. BobCloses'
  <2>1. Gone(bob)'
    BY <1>3, <1>5 DEF Gone, Leaves
  <2>2. QED
    BY <1>5, <1>7, <2>1 DEF BobCloses, CutOffs
<1>9. scn.cls \notin Connecting
  BY DEF Connecting, Refusing
<1>10. Flag(alice, alice.flags.ring, FALSE, FALSE)
  BY DEF Flag
<1>11. QED
  BY <1>1, <1>3, <1>5, <1>6, <1>7, <1>8, <1>9, <1>10, ClosingBegins

\* Bob's subtest is connected and will hang up.
LEMMA HangsUpLater ==
    ASSUME CleanRun, Fit, NEW up \in SubtestType, up.ua = "up",
           Flag(up, TRUE, TRUE, FALSE), up.ended = Never, up.verdict = Pending,
           bob' = Arm(up, "disconnect", scn.hang)
    PROVE  /\ bob' \in SubtestType /\ InCall(bob, "up", "disconnect")'
           /\ Flag(bob, TRUE, TRUE, FALSE)' /\ bob'.at = now + scn.hang
<1>1. "disconnect" \in Timers /\ scn.hang \in 0..120 /\ now \in 0..Horizon
  BY Amounts DEF Timers
<1>2. /\ bob' \in SubtestType /\ bob'.ua = up.ua /\ bob'.flags = up.flags
      /\ bob'.timer = "disconnect" /\ bob'.at = now + scn.hang
      /\ bob'.ended = up.ended /\ bob'.verdict = up.verdict
  BY ZenonT(60), <1>1, Armed
<1>3. QED
  BY <1>2 DEF InCall, Flag

\* What is to come has not come.
LEMMA NotYet ==
    ASSUME CleanRun, Fit
    PROVE  /\ now <= Never /\ now <= now + FullTimeout /\ now <= now + HalfTimeout
           /\ now <= now + MaxDelay /\ now <= now + scn.hang /\ now <= now
           /\ ~(ssut.since + scn.hang <= ssut.since + MaxDelay)
BY Amounts, Moments

\* Bob answers.
LEMMA ConnectAnswersCourse ==
    ASSUME CleanRun, Course, Ringing, scn.cls \notin CutOffs, ~ConnectRejects(scn.cls),
           ssut.leg = "calling",
           now <= 2 * MaxDelay + RingIval(scn.cls) + scn.answer, toAlice = <<>>,
           InCall(alice, "calling", "none"), Flag(alice, TRUE, FALSE, FALSE),
           NEW done, done = [Fired(bob) EXCEPT !.flags.connect = TRUE],
           bob' = Arm([done EXCEPT !.ua = "up", !.answered = TRUE],
                      "disconnect", scn.hang),
           SsutFromBob("200", "good"), UNCHANGED <<now, scn, alice>>
    PROVE  Course'
<1>1. Fit /\ Clock
  BY DEF Course
<1>2. done \in SubtestType /\ InCall(done, "calling", "none") /\ Flag(done, TRUE, TRUE, FALSE)
  BY <1>1, HasAnswered
<1>3. /\ bob' \in SubtestType /\ InCall(bob, "up", "disconnect")'
      /\ Flag(bob, TRUE, TRUE, FALSE)' /\ bob'.at = now + scn.hang
  <2> DEFINE up == [done EXCEPT !.ua = "up", !.answered = TRUE]
  <2>1. /\ up \in SubtestType /\ up.ua = "up" /\ up.flags = done.flags
        /\ up.ended = done.ended /\ up.verdict = done.verdict
    BY ZenonT(60), <1>2 DEF SubtestType
  <2>2. bob' = Arm(up, "disconnect", scn.hang)
    OBVIOUS
  <2> HIDE DEF up
  <2>3. Flag(up, TRUE, TRUE, FALSE) /\ up.ended = Never /\ up.verdict = Pending
    BY <1>2, <2>1 DEF InCall, Flag
  <2>4. QED
    BY <1>1, <2>1, <2>2, <2>3, HangsUpLater
<1>4. /\ ssut' \in SessionType /\ ssut'.media = "full" /\ ssut'.since = now
      /\ ssut'.leg = "up" /\ toBob' = toBob
      /\ toAlice' \in Seq(AlertShape) /\ Only(toAlice, {"200"})'
      /\ toAlice' # <<>> /\ toAlice'[1].sent = now
  BY <1>1, SdpIsRelayed
<1>5. toBob = <<>>
  BY DEF Ringing
<1>6. Fit'
  BY <1>1, <1>3, <1>4 DEF Fit, Drawn
<1>7. Clock'
  <2>1. Minded(alice)'
    BY <1>1 DEF Clock, Minded
  <2>2. Fetched(toBob)'
    BY <1>4, <1>5, EmptySeq DEF Fetched
  <2>3. Minded(bob)'
    <3>1. now <= now + scn.hang
      BY <1>1, Amounts
    <3>2. QED
      BY <1>3, <3>1 DEF Minded, InCall
  <2>4. Fetched(toAlice)'
    <3>1. now \in Nat /\ now <= now + MaxDelay
      BY <1>1, Amounts
    <3>2. QED
      BY <1>4, <3>1 DEF Fetched, Only
  <2>5. (now <= MediaDeadline)'
    <3>1. now <= Never /\ now <= now + FullTimeout
      BY <1>1, NotYet
    <3>2. QED
      BY <1>4, <3>1 DEF MediaDeadline
  <2>6. ssut'.since <= now'
    BY <1>1, <1>4, Amounts
  <2>7. QED
    BY <1>4, <2>1, <2>2, <2>3, <2>4, <2>5, <2>6 DEF Clock
<1>8. Talking'
  <2>1. scn.cls \in Connecting
    BY <1>1, Intervals DEF Fit, Connecting, Refusing, ConnectRejects, Ringing
  <2>2. bob'.at = ssut'.since + scn'.hang
    BY <1>3, <1>4
  <2>3. ssut'.since <= 2 * MaxDelay + RingIval(scn'.cls) + scn'.answer
    BY <1>4
  <2>4. AnswerIsHeard'
    BY <1>4 DEF AnswerIsHeard, InCall, Flag
  <2>5. QED
    BY <1>3, <1>4, <1>5, <2>1, <2>2, <2>3, <2>4 DEF Talking
<1>9. QED
  BY <1>6, <1>7, <1>8 DEF Course, Stage

LEMMA BobConnectCourse ==
    ASSUME CleanRun, Course, BobConnect
    PROVE  Course'
<1>1. Due(bob, "connect") /\ UNCHANGED <<now, scn, alice>>
  BY DEF BobConnect
<1>2. CASE Closing /\ Gone(bob) /\ ~ConnectGuard(scn.cls, bob.flags)
  <2>1. bob' = Fired(bob) /\ UNCHANGED <<ssut, toAlice, toBob>>
    BY <1>2 DEF BobConnect
  <2>2. QED
    BY <1>1, <1>2, <2>1, BobFiredCourse
<1>3. CASE /\ Ringing /\ scn.cls \notin CutOffs /\ ssut.leg = "calling"
           /\ now = bob.at /\ now <= 2 * MaxDelay + RingIval(scn.cls) + scn.answer
           /\ toAlice = <<>> /\ InCall(alice, "calling", "none")
           /\ Flag(alice, TRUE, FALSE, FALSE)
  <2> DEFINE done == [Fired(bob) EXCEPT !.flags.connect = TRUE]
  <2>1. ConnectGuard(scn.cls, bob.flags) /\ Alive(bob)
    BY <1>3 DEF Ringing, Flag, InCall, ConnectGuard, Alive
  <2>2. \/ /\ ConnectRejects(scn.cls)
           /\ bob' = [Ended(done) EXCEPT !.answered = TRUE]
           /\ SsutFromBob("reject", "none")
        \/ /\ ~ConnectRejects(scn.cls)
           /\ bob' = Arm([done EXCEPT !.ua = "up", !.answered = TRUE],
                         "disconnect", scn.hang)
           /\ SsutFromBob("200", "good")
    BY <2>1 DEF BobConnect
  <2> HIDE DEF done
  <2>3. CASE /\ ConnectRejects(scn.cls)
             /\ bob' = [Ended(done) EXCEPT !.answered = TRUE]
             /\ SsutFromBob("reject", "none")
    <3>1. scn.cls \in {"3", "5", "8", "10"}
      BY <2>3 DEF ConnectRejects
    <3>2. QED
      BY <1>1, <1>3, <2>3, <3>1, ConnectRejectsCourse DEF done
  <2>4. CASE /\ ~ConnectRejects(scn.cls)
             /\ bob' = Arm([done EXCEPT !.ua = "up", !.answered = TRUE],
                           "disconnect", scn.hang)
             /\ SsutFromBob("200", "good")
    BY <1>1, <1>3, <2>4, ConnectAnswersCourse DEF done
  <2>5. QED
    BY <2>2, <2>3, <2>4
<1>4. QED
  BY <1>1, <1>2, <1>3, AnswerIsDue

\* What Alice hears depends on how far the call is.
LEMMA Heard ==
    ASSUME Course, toAlice # <<>>
    PROVE  /\ Head(toAlice) = toAlice[1] /\ Tail(toAlice) = <<>>
           /\ Tail(toAlice) \in Seq(AlertShape) /\ Len(toAlice) = 1
           /\ Head(toAlice).kind \in {"180", "183"} =>
                  /\ Ringing /\ Head(toAlice).sdp # "bad"
                  /\ InCall(alice, "calling", "none") /\ Flag(alice, alice.flags.ring, FALSE, FALSE)
           /\ Head(toAlice).kind = "200" =>
                  /\ Talking /\ Head(toAlice).sdp # "bad"
                  /\ InCall(alice, "calling", "none") /\ Flag(alice, TRUE, FALSE, FALSE)
           /\ Head(toAlice).kind = "end" => Closing /\ Told(toAlice[1].sent)
<1>1. toAlice \in Seq(AlertShape) /\ Len(toAlice) = 1
  <2>1. toAlice \in Seq(AlertShape) /\ Len(toAlice) \in 0..1
    BY DEF Course, Fit, Clock, Fetched
  <2>2. Len(toAlice) # 0
    BY <2>1, Empty
  <2>3. QED
    BY <2>1, <2>2
<1>2. /\ Head(toAlice) = toAlice[1] /\ Tail(toAlice) = <<>>
      /\ Tail(toAlice) \in Seq(AlertShape)
  BY <1>1, Taken
<1>3. Ringing => /\ toAlice[1].kind \in {"180", "183"} /\ toAlice[1].sdp # "bad"
                 /\ InCall(alice, "calling", "none") /\ Flag(alice, alice.flags.ring, FALSE, FALSE)
  BY DEF Ringing, RingIsHeard, Only
<1>4. Talking => /\ toAlice[1].kind = "200" /\ toAlice[1].sdp # "bad"
                 /\ InCall(alice, "calling", "none") /\ Flag(alice, TRUE, FALSE, FALSE)
  BY DEF Talking, AnswerIsHeard, Only
<1>5. Closing => toAlice[1].kind = "end" /\ Told(toAlice[1].sent)
  BY DEF Closing, AliceCloses, Only
<1>6. Ringing \/ Talking \/ Closing
  BY DEF Course, Stage, Placed, Offered, Alerted
<1>7. toAlice[1].kind \in {"180", "183"} =>
          /\ Ringing /\ toAlice[1].sdp # "bad"
          /\ InCall(alice, "calling", "none") /\ Flag(alice, alice.flags.ring, FALSE, FALSE)
  BY <1>3, <1>4, <1>5, <1>6
<1>8. toAlice[1].kind = "200" =>
          /\ Talking /\ toAlice[1].sdp # "bad"
          /\ InCall(alice, "calling", "none") /\ Flag(alice, TRUE, FALSE, FALSE)
  BY <1>3, <1>4, <1>5, <1>6
<1>9. toAlice[1].kind = "end" => Closing /\ Told(toAlice[1].sent)
  BY <1>3, <1>4, <1>5, <1>6
<1>10. QED
  BY <1>1, <1>2, <1>7, <1>8, <1>9

\* A ring or an answer without an error.
LEMMA RingIsCounted ==
    ASSUME NEW side \in SubtestType, side.flags.nerrs = 0, NEW a,
           a = [side EXCEPT !.flags.ring = @ \/ TRUE, !.flags.nerrs = @ + 0]
    PROVE  /\ a \in SubtestType /\ a.ua = side.ua /\ a.timer = side.timer /\ a.at = side.at
           /\ a.ended = side.ended /\ a.verdict = side.verdict
           /\ Flag(a, TRUE, side.flags.connect, side.flags.disconnect)
<1> DEFINE f == [side.flags EXCEPT !.ring = TRUE, !.nerrs = 0]
           type == [ring : BOOLEAN, connect : BOOLEAN, disconnect : BOOLEAN, nerrs : 0..3]
<1>1. /\ f \in type /\ f.ring = TRUE /\ f.connect = side.flags.connect
      /\ f.disconnect = side.flags.disconnect /\ f.nerrs = 0
  BY DEF SubtestType
<1>2. a = [side EXCEPT !.flags = f]
  <2>1. (side.flags.ring \/ TRUE) = TRUE /\ side.flags.nerrs + 0 = 0
    OBVIOUS
  <2>2. a = [side EXCEPT !.flags.ring = TRUE, !.flags.nerrs = 0]
    BY <2>1
  <2>3. QED
    BY <2>2 DEF SubtestType
<1> HIDE DEF f
<1>3. /\ a \in SubtestType /\ a.ua = side.ua /\ a.timer = side.timer /\ a.at = side.at
      /\ a.ended = side.ended /\ a.verdict = side.verdict /\ a.flags = f
  BY <1>1, <1>2 DEF SubtestType
<1>4. QED
  BY <1>1, <1>3 DEF Flag

LEMMA AnswerIsCounted ==
    ASSUME NEW side \in SubtestType, side.flags.nerrs = 0, NEW a,
           a = [side EXCEPT !.ua = "up", !.flags.connect = TRUE, !.flags.nerrs = @ + 0]
    PROVE  /\ a \in SubtestType /\ a.ua = "up" /\ a.timer = side.timer /\ a.at = side.at
           /\ a.ended = side.ended /\ a.verdict = side.verdict
           /\ Flag(a, side.flags.ring, TRUE, side.flags.disconnect)
<1> DEFINE f == [side.flags EXCEPT !.connect = TRUE, !.nerrs = 0]
           type == [ring : BOOLEAN, connect : BOOLEAN, disconnect : BOOLEAN, nerrs : 0..3]
<1>1. /\ f \in type /\ f.connect = TRUE /\ f.ring = side.flags.ring
      /\ f.disconnect = side.flags.disconnect /\ f.nerrs = 0
  BY DEF SubtestType
<1>2. a = [side EXCEPT !.ua = "up", !.flags = f]
  <2>1. side.flags.nerrs + 0 = 0
    OBVIOUS
  <2>2. a = [side EXCEPT !.ua = "up", !.flags.connect = TRUE, !.flags.nerrs = 0]
    BY <2>1
  <2>3. QED
    BY <2>2 DEF SubtestType
<1> HIDE DEF f
<1>3. /\ a \in SubtestType /\ a.ua = "up" /\ a.timer = side.timer /\ a.at = side.at
      /\ a.ended = side.ended /\ a.verdict = side.verdict /\ a.flags = f
  BY <1>1, <1>2 DEF SubtestType
<1>4. QED
  BY <1>1, <1>3 DEF Flag

\* Alice hears the ring.
LEMMA AliceRingsCourse ==
    ASSUME CleanRun, Course, AliceRings
    PROVE  Course'
<1>1. /\ Fit /\ Clock /\ toAlice # <<>> /\ Head(toAlice).kind \in {"180", "183"}
      /\ toAlice' = Tail(toAlice) /\ UNCHANGED <<now, scn, bob, ssut, toBob>>
  BY DEF Course, AliceRings
<1>2. /\ Ringing /\ Head(toAlice).sdp # "bad" /\ toAlice' = <<>>
      /\ toAlice' \in Seq(AlertShape)
      /\ InCall(alice, "calling", "none") /\ Flag(alice, alice.flags.ring, FALSE, FALSE)
  BY <1>1, Heard
<1>3. alice' = [alice EXCEPT !.flags.ring = @ \/ TRUE, !.flags.nerrs = @ + 0]
  <2>1. Errs(Head(toAlice)) = 0 /\ ~ExpectsNoProgress(scn.cls)
    BY <1>2 DEF Errs, ExpectsNoProgress, Ringing
  <2>2. alice.ua = "calling"
    BY <1>2 DEF InCall
  <2>3. QED
    BY <2>1, <2>2 DEF AliceRings
<1>4. /\ alice' \in SubtestType /\ alice'.ua = alice.ua /\ alice'.timer = alice.timer
      /\ alice'.at = alice.at /\ alice'.ended = alice.ended
      /\ alice'.verdict = alice.verdict /\ Flag(alice, TRUE, FALSE, FALSE)'
  <2>1. alice \in SubtestType /\ alice.flags.nerrs = 0
    BY <1>1, <1>2 DEF Fit, Flag
  <2>2. /\ alice' \in SubtestType /\ alice'.ua = alice.ua /\ alice'.timer = alice.timer
        /\ alice'.at = alice.at /\ alice'.ended = alice.ended
        /\ alice'.verdict = alice.verdict
        /\ Flag(alice', TRUE, alice.flags.connect, alice.flags.disconnect)
    BY <1>3, <2>1, RingIsCounted
  <2>3. QED
    BY <1>2, <2>2 DEF Flag
<1>5. Fit'
  BY <1>1, <1>2, <1>4 DEF Fit, Drawn
<1>6. Clock'
  <2>1. Minded(alice)'
    BY <1>1, <1>4 DEF Clock, Minded
  <2>2. Minded(bob)' /\ Fetched(toBob)' /\ (now <= MediaDeadline)' /\ ssut'.since <= now'
    BY <1>1 DEF Clock, Minded, Fetched, MediaDeadline
  <2>3. Fetched(toAlice)'
    BY <1>2, EmptySeq DEF Fetched
  <2>4. QED
    BY <1>1, <2>1, <2>2, <2>3 DEF Clock
<1>7. Ringing'
  <2>1. RingIsHeard'
    BY <1>2, <1>4 DEF RingIsHeard, InCall
  <2>2. QED
    BY <1>1, <1>2, <2>1 DEF Ringing, HalfSet, InCall, Flag
<1>8. QED
  BY <1>5, <1>6, <1>7 DEF Course, Stage

\* Alice hears a 100, before the ring as a rule.
LEMMA AliceTryingCourse ==
    ASSUME CleanRun, Course, AliceTrying
    PROVE  Course'
<1>1. /\ Fit /\ Clock /\ ssut.leg # "idle"
      /\ alice.ua = "calling" /\ alice.flags.ring # TRUE
      /\ alice' = [alice EXCEPT !.flags.ring = TRUE]
      /\ UNCHANGED <<now, scn, bob, ssut, toAlice, toBob>>
  BY DEF Course, AliceTrying
<1>2. /\ alice' \in SubtestType /\ alice'.ua = alice.ua /\ alice'.timer = alice.timer
      /\ alice'.at = alice.at /\ alice'.ended = alice.ended
      /\ alice'.verdict = alice.verdict /\ alice'.flags.ring = TRUE
      /\ alice'.flags.connect = alice.flags.connect
      /\ alice'.flags.disconnect = alice.flags.disconnect
      /\ alice'.flags.nerrs = alice.flags.nerrs
  <2>1. alice \in SubtestType
    BY <1>1 DEF Fit
  <2>2. QED
    BY <1>1, <2>1, RingRises
<1>3. Fit'
  BY <1>1, <1>2 DEF Fit, Drawn
<1>4. Clock'
  BY <1>1, <1>2 DEF Clock, Minded, Fetched, MediaDeadline
<1>5. CASE Offered
  <2>1. Unheard'
    BY <1>2, <1>5 DEF Offered, Unheard, InCall, Flag
  <2>2. QED
    BY <1>1, <1>3, <1>4, <1>5, <2>1
       DEF Course, Stage, Offered, HalfSet, Only, NotBegun, InCall, Flag
<1>6. CASE Alerted
  <2>1. Unheard'
    BY <1>2, <1>6 DEF Alerted, Unheard, InCall, Flag
  <2>2. QED
    BY <1>1, <1>3, <1>4, <1>6, <2>1 DEF Course, Stage, Alerted, HalfSet, InCall, Flag
<1>7. CASE Ringing
  <2>1. RingIsHeard'
    BY <1>1, <1>2, <1>7 DEF Ringing, RingIsHeard, Only, InCall, Flag
  <2>2. QED
    BY <1>1, <1>3, <1>4, <1>7, <2>1 DEF Course, Stage, Ringing, HalfSet, InCall, Flag
<1>8. CASE Closing
  <2>1. AliceCloses'
    BY <1>1, <1>2, <1>8 DEF Closing, AliceCloses, Only, Told, InCall, Gone, Leaves, Alive
  <2>2. BobCloses'
    BY <1>1, <1>8 DEF Closing, BobCloses, Only, Told, InCall, Gone, Leaves, Flag
  <2>3. QED
    BY <1>1, <1>3, <1>4, <1>8, <2>1, <2>2 DEF Course, Stage, Closing
<1>9. ~Placed /\ ~Talking
  BY <1>1 DEF Placed, Talking, AnswerIsHeard, InCall, Flag
<1>10. QED
  BY <1>5, <1>6, <1>7, <1>8, <1>9 DEF Course, Stage

\* Alice hears the answer.
LEMMA AliceConnectedCourse ==
    ASSUME CleanRun, Course, AliceConnected
    PROVE  Course'
<1>1. /\ Fit /\ Clock /\ toAlice # <<>> /\ Head(toAlice).kind = "200"
      /\ toAlice' = Tail(toAlice) /\ UNCHANGED <<now, scn, bob, ssut, toBob>>
  BY DEF Course, AliceConnected
<1>2. /\ Talking /\ Head(toAlice).sdp # "bad" /\ toAlice' = <<>>
      /\ toAlice' \in Seq(AlertShape)
      /\ InCall(alice, "calling", "none") /\ Flag(alice, TRUE, FALSE, FALSE)
  BY <1>1, Heard
<1> DEFINE up == [alice EXCEPT !.ua = "up", !.flags.connect = TRUE, !.flags.nerrs = @ + 0]
<1>3. alice' = Arm(up, "disconnect", AliceDisconnectIval(scn.cls))
  <2>1. Errs(Head(toAlice)) = 0
    BY <1>2 DEF Errs, ExpectsNoProgress, Talking, Connecting, CutOffs
  <2>2. alice.ua = "calling"
    BY <1>2 DEF InCall
  <2>3. QED
    BY <2>1, <2>2 DEF AliceConnected
<1>4. /\ up \in SubtestType /\ up.ua = "up" /\ up.ended = alice.ended
      /\ up.verdict = alice.verdict /\ Flag(up, TRUE, TRUE, FALSE)
  <2>1. alice \in SubtestType /\ alice.flags.nerrs = 0
    BY <1>1, <1>2 DEF Fit, Flag
  <2>2. /\ up \in SubtestType /\ up.ua = "up" /\ up.ended = alice.ended
        /\ up.verdict = alice.verdict
        /\ Flag(up, alice.flags.ring, TRUE, alice.flags.disconnect)
    BY <2>1, AnswerIsCounted
  <2>3. QED
    BY <1>2, <2>2 DEF Flag
<1> HIDE DEF up
<1>5. /\ alice' \in SubtestType /\ InCall(alice, "up", "disconnect")'
      /\ Flag(alice, TRUE, TRUE, FALSE)' /\ alice'.at = now + AliceDisconnectIval(scn.cls)
  <2>1. "disconnect" \in Timers /\ AliceDisconnectIval(scn.cls) \in 0..120 /\ now \in 0..Horizon
    BY <1>1, Amounts DEF Timers, AliceDisconnectIval
  <2>2. /\ alice' \in SubtestType /\ alice'.ua = up.ua /\ alice'.flags = up.flags
        /\ alice'.timer = "disconnect" /\ alice'.at = now + AliceDisconnectIval(scn.cls)
        /\ alice'.ended = up.ended /\ alice'.verdict = up.verdict
    BY ZenonT(60), <1>3, <1>4, <2>1, Armed
  <2>3. QED
    BY <1>2, <1>4, <2>2 DEF InCall, Flag
<1>6. Fit'
  BY <1>1, <1>2, <1>5 DEF Fit, Drawn
<1>7. Clock'
  <2>1. Minded(alice)'
    <3>1. now <= now + AliceDisconnectIval(scn.cls)
      BY SMTT(30), <1>1, Amounts DEF AliceDisconnectIval
    <3>2. QED
      BY <1>1, <1>5, <3>1 DEF Minded, InCall
  <2>2. Minded(bob)' /\ Fetched(toBob)' /\ (now <= MediaDeadline)' /\ ssut'.since <= now'
    BY <1>1 DEF Clock, Minded, Fetched, MediaDeadline
  <2>3. Fetched(toAlice)'
    BY <1>2, EmptySeq DEF Fetched
  <2>4. QED
    BY <1>1, <2>1, <2>2, <2>3 DEF Clock
<1>8. Talking'
  <2>1. AnswerIsHeard'
    BY <1>2, <1>5 DEF AnswerIsHeard
  <2>2. QED
    BY <1>1, <1>2, <2>1 DEF Talking, InCall, Flag
<1>9. QED
  BY <1>6, <1>7, <1>8 DEF Course, Stage

\* While the call ends, each side goes its own way.
LEMMA BobGoes ==
    ASSUME CleanRun, Course, Closing, UNCHANGED <<now, scn, alice, ssut, toAlice>>,
           bob' \in SubtestType, Minded(bob)', BobCloses',
           toBob' = toBob \/ toBob' = <<>>
    PROVE  Course'
<1>1. Fit /\ Clock
  BY DEF Course
<1>2. Fetched(toBob)' /\ toBob' \in Seq(MsgShape)
  <2>1. CASE toBob' = toBob
    BY <1>1, <2>1 DEF Fit, Clock, Fetched
  <2>2. CASE toBob' = <<>>
    BY <2>2, EmptySeq DEF Fetched
  <2>3. QED
    BY <2>1, <2>2
<1>3. Fit'
  BY <1>1, <1>2 DEF Fit, Drawn
<1>4. Minded(alice)' /\ Fetched(toAlice)' /\ (now <= MediaDeadline)' /\ ssut'.since <= now'
  BY <1>1 DEF Clock, Minded, Fetched, MediaDeadline
<1>5. Clock'
  BY <1>1, <1>2, <1>4 DEF Clock
<1>6. AliceCloses'
  BY DEF Closing, AliceCloses, Only, Told, InCall, Gone, Leaves, Alive
<1>7. Closing'
  BY <1>6 DEF Closing
<1>8. QED
  BY <1>3, <1>5, <1>7 DEF Course, Stage

LEMMA AliceGoes ==
    ASSUME CleanRun, Course, Closing, UNCHANGED <<now, scn, bob, ssut, toBob>>,
           alice' \in SubtestType, Minded(alice)', AliceCloses',
           toAlice' = toAlice \/ toAlice' = <<>>
    PROVE  Course'
<1>1. Fit /\ Clock
  BY DEF Course
<1>2. Fetched(toAlice)' /\ toAlice' \in Seq(AlertShape)
  <2>1. CASE toAlice' = toAlice
    BY <1>1, <2>1 DEF Fit, Clock, Fetched
  <2>2. CASE toAlice' = <<>>
    BY <2>2, EmptySeq DEF Fetched
  <2>3. QED
    BY <2>1, <2>2
<1>3. Fit'
  BY <1>1, <1>2 DEF Fit, Drawn
<1>4. Minded(bob)' /\ Fetched(toBob)' /\ (now <= MediaDeadline)' /\ ssut'.since <= now'
  BY <1>1 DEF Clock, Minded, Fetched, MediaDeadline
<1>5. Clock'
  BY <1>1, <1>2, <1>4 DEF Clock
<1>6. BobCloses'
  BY DEF Closing, BobCloses, Only, Told, InCall, Flag, Gone, Leaves
<1>7. Closing'
  BY <1>6 DEF Closing
<1>8. QED
  BY <1>3, <1>5, <1>7 DEF Course, Stage

\* A side that learns of the end leaves in time.
LEMMA LeavesInTime ==
    ASSUME CleanRun, Course, NEW t \in Nat, Told(t), t <= now, now <= t + MaxDelay
    PROVE  Leaves(now)
<1>1. Fit /\ now \in Nat /\ MaxDelay \in Nat /\ MaxDelay <= 1 /\ GoDeadTimeout = 10
  BY Amounts DEF Course
<1>2. now + GoDeadTimeout <= TestTimeout(scn.cls)
  <2>1. TestTimeout(scn.cls) \in Nat /\ t + 11 <= TestTimeout(scn.cls)
    BY <1>1, Intervals DEF Fit, Told
  <2>2. QED
    BY <1>1, <2>1
<1>3. scn.cls \in {"11", "12"} => now >= 30 /\ now <= 30 + 3 * MaxDelay
  <2>1. scn.cls \in {"11", "12"} => t >= 30 /\ t <= 30 + 2 * MaxDelay
    BY DEF Told
  <2>2. QED
    BY <1>1, <2>1
<1>4. scn.cls = "13" => now >= 46 /\ now <= 46 + 3 * MaxDelay
  <2>1. scn.cls = "13" => t >= 46 /\ t <= 46 + 2 * MaxDelay
    BY DEF Told
  <2>2. QED
    BY <1>1, <2>1
<1>5. QED
  BY <1>2, <1>3, <1>4 DEF Leaves

\* Bob leaves a call that is over: of his own accord, or told by the SSuT.
LEMMA BobLeaves ==
    ASSUME CleanRun, Course, Closing, ~Gone(bob),
           UNCHANGED <<now, scn, alice, ssut, toAlice>>,
           NEW side \in SubtestType, side.flags = bob.flags, side.verdict = bob.verdict,
           side.timer = "none" \/ (side.timer = bob.timer /\ side.at = bob.at),
           bob' = Ended(side), toBob' = toBob \/ toBob' = <<>>
    PROVE  Course'
<1>1. Fit /\ Clock /\ now \in 0..Horizon
  BY Amounts DEF Course
<1>2. /\ bob' \in SubtestType /\ bob'.ua = "ended" /\ bob'.ended = now
      /\ bob'.timer = side.timer /\ bob'.at = side.at /\ bob'.verdict = side.verdict
      /\ bob'.flags.ring = side.flags.ring /\ bob'.flags.connect = side.flags.connect
      /\ bob'.flags.disconnect = TRUE /\ bob'.flags.nerrs = side.flags.nerrs
  BY <1>1, HasEnded
<1>3. Minded(bob)'
  <2>1. now <= now + GoDeadTimeout
    BY <1>1, Amounts
  <2>2. bob.timer # "none" => now <= bob.at
    BY <1>1 DEF Clock, Minded
  <2>3. QED
    BY <1>2, <2>1, <2>2 DEF Minded, GoDeadTimeout
<1>4. /\ toBob # <<>> /\ Only(toBob, {"CANCEL", "BYE"}) /\ Told(toBob[1].sent)
      /\ bob.verdict = Pending
      /\ Flag(bob, scn.cls # "12", scn.cls \notin CutOffs, FALSE)
  <2>1. Len(toBob) = 1 => toBob # <<>>
    BY Filled
  <2>2. \/ scn.cls \in CutOffs /\ Only(toBob, {"CANCEL"}) /\ bob.verdict = Pending
           /\ Flag(bob, scn.cls # "12", FALSE, FALSE)
        \/ scn.cls \notin CutOffs /\ Only(toBob, {"BYE"}) /\ bob.verdict = Pending
           /\ Flag(bob, TRUE, TRUE, FALSE)
    BY DEF Closing, BobCloses, InCall
  <2>3. "12" \in CutOffs
    BY DEF CutOffs
  <2>4. Flag(bob, scn.cls # "12", scn.cls \notin CutOffs, FALSE) /\ bob.verdict = Pending
    BY <2>2, <2>3 DEF Flag
  <2>5. toBob # <<>>
    BY <2>1, <2>2 DEF Only
  <2>6. QED
    BY <2>4, <2>5 DEF Closing, BobCloses
<1>5. Leaves(now)
  <2>1. toBob[1].sent \in Nat /\ toBob[1].sent <= now /\ now <= toBob[1].sent + MaxDelay
    BY <1>1, <1>4 DEF Clock, Fetched
  <2>2. QED
    BY <1>4, <2>1, LeavesInTime
<1>6. BobCloses'
  <2>1. Gone(bob)'
    BY <1>2, <1>4, <1>5 DEF Gone, Leaves
  <2>2. Flag(bob, scn.cls # "12", scn.cls \notin CutOffs, TRUE)'
    BY <1>2, <1>4 DEF Flag
  <2>3. toBob' # <<>> => (Only(toBob, {"CANCEL", "BYE"}) /\ Told(toBob[1].sent))'
    BY <1>4 DEF Only, Told
  <2>4. QED
    BY <2>1, <2>2, <2>3 DEF BobCloses
<1>7. QED
  BY <1>2, <1>3, <1>6, BobGoes

LEMMA BobHungUpCourse ==
    ASSUME CleanRun, Course, BobHungUp
    PROVE  Course'
<1>1. PICK kind \in {"CANCEL", "BYE"} :
          /\ ReceiveBob(kind)
          /\ bob' = IF bob.ua = (IF kind = "BYE" THEN "up" ELSE "calling")
                    THEN Ended(bob) ELSE bob
  BY DEF BobHungUp
<1>2. /\ Fit /\ Clock /\ toBob # <<>> /\ Head(toBob).kind = kind /\ toBob' = Tail(toBob)
      /\ UNCHANGED <<now, scn, alice, ssut, toAlice>>
  BY <1>1 DEF BobHungUp, ReceiveBob, Course
<1>3. Len(toBob) = 1
  <2>1. toBob \in Seq(MsgShape) /\ Len(toBob) \in 0..1
    BY <1>2 DEF Fit, Clock, Fetched
  <2>2. QED
    BY <1>2, <2>1, Empty
<1>4. toBob[1].kind = kind /\ toBob' = <<>>
  BY <1>2, <1>3, Taken DEF Fit
<1>5. Closing
  BY <1>2, <1>4 DEF Course, Stage, Placed, Offered, Only, Alerted, Ringing, Talking
<1>6. CASE Gone(bob)
  <2>1. bob' = bob
    BY <1>1, <1>6 DEF Gone
  <2>2. bob' \in SubtestType /\ Minded(bob)'
    BY <1>2, <2>1 DEF Fit, Clock, Minded
  <2>3. Flag(bob, scn.cls # "12", scn.cls \notin CutOffs, TRUE)
    BY <1>5, <1>6 DEF Closing, BobCloses, Gone, InCall
  <2>4. BobCloses'
    BY <1>2, <1>4, <1>6, <2>1, <2>3 DEF BobCloses, Gone, Leaves, Flag
  <2>5. QED
    BY <1>2, <1>4, <1>5, <2>2, <2>4, BobGoes
<1>7. CASE ~Gone(bob)
  <2>1. \/ Only(toBob, {"CANCEL"}) /\ bob.ua = "calling"
        \/ Only(toBob, {"BYE"}) /\ bob.ua = "up"
    BY <1>5, <1>7 DEF Closing, BobCloses, InCall
  <2>2. bob' = Ended(bob)
    BY <1>1, <1>4, <2>1 DEF Only
  <2>3. bob \in SubtestType
    BY <1>2 DEF Fit
  <2>4. QED
    BY <1>2, <1>4, <1>5, <1>7, <2>2, <2>3, BobLeaves
<1>8. QED
  BY <1>6, <1>7

\* When one of the two hangs up, the call ends in time.
LEMMA TalkEndsInTime ==
    ASSUME CleanRun, Course, Talking
    PROVE  Told(now) /\ Leaves(now)
<1>1. Fit /\ Clock
  BY DEF Course
<1>2. /\ ssut.media = "full" /\ scn.cls \in Connecting /\ now <= bob.at
      /\ bob.at = ssut.since + scn.hang
      /\ ssut.since <= 2 * MaxDelay + RingIval(scn.cls) + scn.answer
  BY <1>1 DEF Talking, Clock, Minded, InCall
<1>3. scn.cls \notin {"11", "12", "13"}
  BY <1>2 DEF Connecting, CutOffs
<1>4. CASE scn.cls = "14"
  <2>1. /\ TestTimeout(scn.cls) = 75
        /\ RingIval(scn.cls) = 1 /\ scn.answer = 2
    BY <1>1, <1>4, Intervals DEF Fit
  <2>2. now <= ssut.since + 45
    BY <1>1, <1>2, <1>4 DEF Clock, MediaDeadline, HasMedia, CleanRun
  <2>3. ssut.since <= 2 * MaxDelay + 1 + 2
    BY <1>2, <2>1
  <2>4. now \in Nat /\ now <= 50
    BY <1>1, <2>2, <2>3, Amounts
  <2>5. QED
    BY <1>3, <2>1, <2>4 DEF Told, Leaves, GoDeadTimeout
<1>5. CASE scn.cls # "14"
  <2>1. RingIval(scn.cls) <= 5 /\ scn.answer <= 13 /\ scn.hang <= 14
    <3>1. scn.cls # "12" /\ scn.cls \notin {"11", "13"}
      BY <1>3
    <3>2. QED
      BY <1>1, <1>5, <3>1, Intervals DEF Fit
  <2>2. now \in Nat /\ now <= 34
    BY <1>1, <1>2, <2>1, Amounts
  <2>3. QED
    BY <1>3, <2>2, Early
<1>6. QED
  BY <1>4, <1>5

\* Bob hangs up.
LEMMA BobDisconnectCourse ==
    ASSUME CleanRun, Course, BobDisconnect
    PROVE  Course'
<1>1. /\ Fit /\ Clock /\ bob.timer = "disconnect" /\ now = bob.at
      /\ UNCHANGED <<now, scn, alice>>
  <2>1. /\ Fit /\ Clock /\ bob.timer = "disconnect" /\ now >= bob.at
        /\ UNCHANGED <<now, scn, alice>>
    BY DEF Course, BobDisconnect, Due
  <2>2. now <= bob.at
    BY <2>1 DEF Clock, Minded
  <2>3. QED
    BY <2>1, <2>2, Amounts
<1> DEFINE f == Fired(bob)
<1>2. /\ f \in SubtestType /\ f.ua = bob.ua /\ f.flags = bob.flags /\ f.timer = "none"
      /\ f.ended = bob.ended /\ f.verdict = bob.verdict
  BY <1>1, Spent DEF Fit
<1>3. /\ bob.flags.disconnect => bob' = f /\ UNCHANGED <<ssut, toAlice, toBob>>
      /\ ~bob.flags.disconnect => bob' = Ended(f) /\ SsutFromBob("BYE", "none")
  BY DEF BobDisconnect
<1>4. CASE Talking
  <2>1. ~bob.flags.disconnect /\ Flag(bob, TRUE, TRUE, FALSE) /\ bob.verdict = Pending
        /\ toBob = <<>> /\ ssut.leg = "up" /\ scn.cls \in Connecting
        /\ bob.at = ssut.since + scn.hang
    BY <1>4 DEF Talking, Flag, InCall
  <2>2. ASSUME toAlice # <<>>, toAlice[1].sent = ssut.since PROVE FALSE
    <3>1. now <= ssut.since + MaxDelay
      BY <1>1, <2>2 DEF Clock, Fetched
    <3>2. ~(ssut.since + scn.hang <= ssut.since + MaxDelay)
      BY <1>1, NotYet
    <3>3. QED
      BY <1>1, <2>1, <3>1, <3>2
  <2>3. /\ toAlice = <<>> /\ InCall(alice, "up", "disconnect")
        /\ Flag(alice, TRUE, TRUE, FALSE)
    <3>1. Only(toAlice, {"200"}) => toAlice # <<>>
      BY Filled DEF Only
    <3>2. QED
      BY <1>4, <2>2, <3>1 DEF Talking, AnswerIsHeard
  <2>4. Told(now) /\ Leaves(now)
    BY <1>4, TalkEndsInTime
  <2>5. now \in 0..Horizon
    BY <1>1, Amounts
  <2> HIDE DEF f
  <2>6. /\ bob' \in SubtestType /\ bob'.ua = "ended" /\ bob'.ended = now
        /\ bob'.timer = "none" /\ bob'.verdict = f.verdict
        /\ bob'.flags.ring = f.flags.ring /\ bob'.flags.connect = f.flags.connect
        /\ bob'.flags.disconnect = TRUE /\ bob'.flags.nerrs = f.flags.nerrs
    BY ZenonT(60), <1>2, <1>3, <2>1, <2>5, HasEnded
  <2>7. /\ ssut' \in SessionType /\ ssut'.leg = "over" /\ ssut'.media = "none"
        /\ ssut'.since = ssut.since /\ toBob' = toBob
        /\ toAlice' \in Seq(AlertShape) /\ Only(toAlice, {"end"})'
        /\ toAlice' # <<>> /\ toAlice'[1].sent = now
    BY <1>1, <1>3, <2>1, <2>3, BobEndIsRelayed
  <2>8. toBob' = <<>> /\ toBob' \in Seq(MsgShape) /\ Fetched(toBob)'
    BY <2>1, <2>7, EmptySeq DEF Fetched
  <2>9. Minded(bob)'
    BY <1>1, <2>6, JustEnded
  <2>10. BobCloses'
    <3>1. Gone(bob)'
      BY <1>1, <1>2, <2>1, <2>4, <2>6 DEF Gone, Leaves
    <3>2. Flag(bob, scn.cls # "12", scn.cls \notin CutOffs, TRUE)'
      BY <1>1, <1>2, <2>1, <2>6 DEF Flag, Connecting, CutOffs
    <3>3. QED
      BY <2>8, <3>1, <3>2 DEF BobCloses
  <2>11. QED
    BY <1>1, <2>1, <2>3, <2>4, <2>6, <2>7, <2>8, <2>9, <2>10, ClosingBegins
<1>5. CASE Closing
  <2>1. CASE Gone(bob)
    <3>1. bob.flags.disconnect
      BY <1>5, <2>1 DEF Closing, BobCloses, Gone, InCall, Flag
    <3>2. QED
      BY <1>1, <1>3, <1>5, <2>1, <3>1, BobFiredCourse
  <2>2. CASE ~Gone(bob)
    <3>1. ~bob.flags.disconnect
      BY <1>5, <2>2 DEF Closing, BobCloses, Flag
    <3>2. UNCHANGED <<ssut, toAlice, toBob>>
      BY <1>3, <1>5, <3>1, EndIsAbsorbed DEF Closing
    <3> HIDE DEF f
    <3>3. QED
      BY <1>1, <1>2, <1>3, <1>5, <2>2, <3>1, <3>2, BobLeaves
  <2>3. QED
    BY <2>1, <2>2
<1>6. QED
  BY <1>1, <1>4, <1>5
     DEF Course, Stage, Placed, Offered, NotBegun, Alerted, Ringing, InCall

\* Alice leaves a call that is over.
LEMMA AliceLeaves ==
    ASSUME CleanRun, Course, Closing, ~Gone(alice),
           UNCHANGED <<now, scn, bob, ssut, toBob>>,
           NEW side \in SubtestType, side.flags = alice.flags,
           side.verdict = alice.verdict,
           side.timer = "none" \/ (side.timer = alice.timer /\ side.at = alice.at),
           alice' = Ended(side), toAlice' = toAlice \/ toAlice' = <<>>
    PROVE  Course'
<1>1. Fit /\ Clock /\ now \in 0..Horizon
  BY Amounts DEF Course
<1>2. /\ alice' \in SubtestType /\ alice'.ua = "ended" /\ alice'.ended = now
      /\ alice'.timer = side.timer /\ alice'.at = side.at /\ alice'.verdict = side.verdict
      /\ alice'.flags.ring = side.flags.ring /\ alice'.flags.connect = side.flags.connect
      /\ alice'.flags.disconnect = TRUE /\ alice'.flags.nerrs = side.flags.nerrs
  BY <1>1, HasEnded
<1>3. Minded(alice)'
  <2>1. now <= now + GoDeadTimeout
    BY <1>1, Amounts
  <2>2. alice.timer # "none" => now <= alice.at
    BY <1>1 DEF Clock, Minded
  <2>3. QED
    BY <1>2, <2>1, <2>2 DEF Minded, GoDeadTimeout
<1>4. /\ toAlice # <<>> /\ Only(toAlice, {"end"}) /\ Told(toAlice[1].sent)
      /\ alice.verdict = Pending
  BY DEF Closing, AliceCloses, InCall
<1>5. Leaves(now)
  <2>1. toAlice[1].sent \in Nat /\ toAlice[1].sent <= now
        /\ now <= toAlice[1].sent + MaxDelay
    BY <1>1, <1>4 DEF Clock, Fetched
  <2>2. QED
    BY <1>4, <2>1, LeavesInTime
<1>6. AliceCloses'
  <2>1. Gone(alice)'
    BY <1>2, <1>4, <1>5 DEF Gone, Leaves
  <2>2. toAlice' # <<>> => (Only(toAlice, {"end"}) /\ Told(toAlice[1].sent))'
    BY <1>4 DEF Only, Told
  <2>3. /\ alice'.flags.nerrs = 0 /\ (alice.flags.disconnect <=> ~Alive(alice))'
        /\ (alice.flags.connect <=> scn.cls \in Connecting)'
        /\ (scn.cls \in Connecting => alice.flags.ring)'
    BY <1>2 DEF Closing, AliceCloses, Alive
  <2>4. QED
    BY <2>1, <2>2, <2>3 DEF AliceCloses
<1>7. QED
  BY <1>2, <1>3, <1>6, AliceGoes

\* A side that is gone takes no harm from what comes after.
LEMMA AliceIsGone ==
    ASSUME CleanRun, Course, Closing, Gone(alice),
           UNCHANGED <<now, scn, bob, ssut, toBob>>,
           alice' = alice \/ alice' = Fired(alice),
           toAlice' = toAlice \/ toAlice' = <<>>
    PROVE  Course'
<1>1. Fit /\ Clock
  BY DEF Course
<1>2. /\ alice' \in SubtestType /\ alice'.ua = alice.ua /\ alice'.flags = alice.flags
      /\ alice'.ended = alice.ended /\ alice'.verdict = alice.verdict
      /\ \/ alice'.timer = "none"
         \/ alice'.timer = alice.timer /\ alice'.at = alice.at
  BY <1>1, Spent DEF Fit
<1>3. Minded(alice)'
  BY <1>1, <1>2 DEF Clock, Minded
<1>4. AliceCloses'
  <2>1. Gone(alice)'
    BY <1>2 DEF Gone, Leaves
  <2>2. toAlice' # <<>> => (Only(toAlice, {"end"}) /\ Told(toAlice[1].sent))'
    BY DEF Closing, AliceCloses, Only, Told
  <2>3. /\ alice'.flags.nerrs = 0 /\ (alice.flags.disconnect <=> ~Alive(alice))'
        /\ (alice.flags.connect <=> scn.cls \in Connecting)'
        /\ (scn.cls \in Connecting => alice.flags.ring)'
    BY <1>2 DEF Closing, AliceCloses, Alive
  <2>4. QED
    BY <2>1, <2>2, <2>3 DEF AliceCloses
<1>5. QED
  BY <1>2, <1>3, <1>4, AliceGoes

LEMMA AliceHungUpCourse ==
    ASSUME CleanRun, Course, AliceHungUp
    PROVE  Course'
<1>1. /\ Fit /\ Clock /\ toAlice # <<>> /\ Head(toAlice).kind = "end"
      /\ toAlice' = Tail(toAlice) /\ UNCHANGED <<now, scn, bob, ssut, toBob>>
  BY DEF Course, AliceHungUp
<1>2. Closing /\ toAlice' = <<>>
  BY <1>1, Heard
<1>3. CASE Gone(alice)
  <2>1. alice' = alice
    BY <1>3 DEF AliceHungUp, Gone, Alive
  <2>2. QED
    BY <1>1, <1>2, <1>3, <2>1, AliceIsGone
<1>4. CASE ~Gone(alice)
  <2>1. Alive(alice) /\ ~(ExpectsNoProgress(scn.cls) /\ alice.flags.connect)
    BY <1>2, <1>4
       DEF Closing, AliceCloses, InCall, Alive, ExpectsNoProgress, Connecting, CutOffs
  <2> DEFINE e == Ended(alice)
  <2>2. e \in SubtestType
    BY ZenonT(60), <1>1, Amounts, HasEnded DEF Fit
  <2>3. alice' = [e EXCEPT !.flags.nerrs = @]
    BY <2>1 DEF AliceHungUp
  <2> HIDE DEF e
  <2>4. alice' = e
    <3>1. [e.flags EXCEPT !.nerrs = @] = e.flags
      BY <2>2 DEF SubtestType
    <3>2. alice' = [e EXCEPT !.flags = e.flags]
      BY <2>3, <3>1
    <3>3. QED
      BY <2>2, <3>2 DEF SubtestType
  <2>5. alice \in SubtestType
    BY <1>1 DEF Fit
  <2>6. QED
    BY <1>1, <1>2, <1>4, <2>4, <2>5, AliceLeaves DEF e
<1>5. QED
  BY <1>3, <1>4

\* Alice hangs up.
LEMMA AliceDisconnectCourse ==
    ASSUME CleanRun, Course, AliceDisconnect
    PROVE  Course'
<1>1. /\ Fit /\ Clock /\ alice.timer = "disconnect"
      /\ UNCHANGED <<now, scn, bob, toAlice>>
  BY DEF Course, AliceDisconnect, Due
<1> DEFINE f == Fired(alice)
<1>2. /\ f \in SubtestType /\ f.ua = alice.ua /\ f.flags = alice.flags /\ f.timer = "none"
      /\ f.ended = alice.ended /\ f.verdict = alice.verdict
  BY <1>1, Spent DEF Fit
<1>3. /\ alice.flags.disconnect => alice' = f /\ UNCHANGED <<ssut, toBob>>
      /\ ~alice.flags.disconnect => alice' = Ended(f) /\ SsutFromAlice
  BY DEF AliceDisconnect
<1>4. CASE Talking
  <2>1. /\ ~alice.flags.disconnect /\ Flag(alice, TRUE, TRUE, FALSE)
        /\ alice.verdict = Pending /\ toAlice = <<>>
    BY <1>1, <1>4 DEF Talking, AnswerIsHeard, Flag, InCall
  <2>2. toBob = <<>> /\ ssut.leg = "up" /\ scn.cls \in Connecting /\ scn.cls \notin CutOffs
    BY <1>4 DEF Talking, Connecting
  <2>3. Told(now) /\ Leaves(now)
    BY <1>4, TalkEndsInTime
  <2>4. now \in 0..Horizon
    BY <1>1, Amounts
  <2>5. ssut' = Over(ssut) /\ toBob' = Append(toBob, Msg("BYE", "none"))
    BY <1>3, <2>1, <2>2 DEF SsutFromAlice
  <2> HIDE DEF f
  <2>6. /\ alice' \in SubtestType /\ alice'.ua = "ended" /\ alice'.ended = now
        /\ alice'.timer = "none" /\ alice'.verdict = f.verdict
        /\ alice'.flags.ring = f.flags.ring /\ alice'.flags.connect = f.flags.connect
        /\ alice'.flags.disconnect = TRUE /\ alice'.flags.nerrs = f.flags.nerrs
    BY ZenonT(60), <1>2, <1>3, <2>1, <2>4, HasEnded
  <2>7. /\ ssut' \in SessionType /\ ssut'.leg = "over" /\ ssut'.media = "none"
        /\ ssut'.since = ssut.since
    BY <1>1, <2>5, Closes
  <2>8. /\ toBob' \in Seq(MsgShape) /\ Only(toBob, {"BYE"})' /\ toBob' # <<>>
        /\ toBob'[1].sent = now
    BY <1>1, <2>2, <2>5, FreshCall
  <2>9. Fit'
    BY <1>1, <2>6, <2>7, <2>8 DEF Fit, Drawn
  <2>10. Clock'
    <3>1. Minded(alice)'
      BY <1>1, <2>6, JustEnded
    <3>2. Minded(bob)' /\ Fetched(toAlice)'
      BY <1>1 DEF Clock, Minded, Fetched
    <3>3. Fetched(toBob)'
      BY SMTT(30), <1>1, <2>8, Amounts DEF Fetched, Only
    <3>4. ssut'.since <= now
      BY <1>1, <2>7 DEF Clock
    <3>5. QED
      BY <1>1, <2>7, <3>1, <3>2, <3>3, <3>4, OverClock
  <2>11. AliceCloses'
    <3>1. Gone(alice)'
      BY <1>1, <1>2, <2>1, <2>3, <2>6 DEF Gone, Leaves
    <3>2. /\ alice'.flags.nerrs = 0 /\ (alice.flags.disconnect <=> ~Alive(alice))'
          /\ (alice.flags.connect <=> scn.cls \in Connecting)'
          /\ (scn.cls \in Connecting => alice.flags.ring)'
      BY <1>1, <1>2, <2>1, <2>2, <2>6 DEF Flag, Alive
    <3>3. toAlice' = <<>>
      BY <1>1, <2>1
    <3>4. QED
      BY <3>1, <3>2, <3>3 DEF AliceCloses
  <2>12. BobCloses'
    <3>1. InCall(bob, "up", "disconnect")' /\ Flag(bob, TRUE, TRUE, FALSE)'
      BY <1>1, <1>4 DEF Talking, InCall, Flag
    <3>2. Only(toBob, {"CANCEL", "BYE"})' /\ Told(toBob[1].sent)' /\ (scn.cls \notin CutOffs)'
      BY <1>1, <2>2, <2>3, <2>8 DEF Only, Told
    <3>3. QED
      BY <2>8, <3>1, <3>2 DEF BobCloses
  <2>13. QED
    BY <2>7, <2>9, <2>10, <2>11, <2>12 DEF Course, Stage, Closing
<1>5. CASE Closing
  <2>1. CASE Gone(alice)
    <3>1. alice.flags.disconnect
      BY <1>5, <2>1 DEF Closing, AliceCloses, Gone, Alive
    <3>2. QED
      BY <1>1, <1>3, <1>5, <2>1, <3>1, AliceIsGone
  <2>2. CASE ~Gone(alice)
    <3>1. ~alice.flags.disconnect
      BY <1>5, <2>2 DEF Closing, AliceCloses, InCall, Alive
    <3>2. UNCHANGED <<ssut, toBob>>
      BY <1>3, <1>5, <3>1 DEF Closing, SsutFromAlice
    <3> HIDE DEF f
    <3>3. QED
      BY <1>1, <1>2, <1>3, <1>5, <2>2, <3>1, <3>2, AliceLeaves
  <2>3. QED
    BY <2>1, <2>2
<1>6. QED
  BY <1>1, <1>4, <1>5
     DEF Course, Stage, Placed, Offered, Unheard, Alerted, Ringing, RingIsHeard, InCall

\* The reports of the two sides.
LEMMA BobDeadCourse ==
    ASSUME CleanRun, Course, BobDead
    PROVE  Course'
<1> DEFINE content == BobContent(scn.cls, bob.flags, scn.mightfail)
<1>1. /\ Fit /\ Clock /\ bob.ua = "ended" /\ bob' = Reported(bob, content)
      /\ UNCHANGED <<now, scn, alice, ssut, toAlice, toBob>>
  BY DEF Course, BobDead
<1>2. Closing /\ Gone(bob) /\ Flag(bob, scn.cls # "12", scn.cls \notin CutOffs, TRUE)
  BY <1>1 DEF Course, Stage, Placed, Offered, NotBegun, Alerted, Ringing, Talking,
              Closing, BobCloses, InCall
<1>3. content = TRUE
  <2>1. bob.flags.ring \in BOOLEAN /\ bob.flags.connect \in BOOLEAN
        /\ bob.flags.disconnect \in BOOLEAN
    BY <1>1 DEF Fit, SubtestType
  <2>2. CASE scn.cls = "12"
    BY <1>2, <2>2
       DEF BobContent, CutOffBeforeRing, CutOff, Flag, CutOffs
  <2>3. CASE scn.cls \in {"11", "13", "inv_brkn1"}
    BY <1>2, <2>3
       DEF BobContent, RangThenCutOff, CutOff, Flag, CutOffs
  <2>4. CASE scn.cls \notin {"11", "12", "13", "inv_brkn1"}
    BY <1>2, <2>4 DEF BobContent, Completed, Flag, CutOffs
  <2>5. QED
    BY <2>2, <2>3, <2>4
<1> HIDE DEF content
<1>4. /\ bob' \in SubtestType /\ bob'.ua = "dead" /\ bob'.flags = bob.flags
      /\ bob'.timer = bob.timer /\ bob'.at = bob.at /\ bob'.ended = bob.ended
      /\ bob'.verdict = Success
  <2>1. bob \in SubtestType /\ VerdictOf(content) = Success
    BY <1>1, <1>3 DEF Fit, VerdictOf
  <2>2. QED
    BY <1>1, <2>1, HasReported
<1>5. Minded(bob)'
  BY <1>1, <1>4 DEF Clock, Minded
<1>6. BobCloses'
  <2>1. Gone(bob)'
    BY <1>1, <1>2, <1>4 DEF Gone, Leaves
  <2>2. Flag(bob, scn.cls # "12", scn.cls \notin CutOffs, TRUE)'
    BY <1>1, <1>2, <1>4 DEF Flag
  <2>3. toBob' # <<>> => (Only(toBob, {"CANCEL", "BYE"}) /\ Told(toBob[1].sent))'
    BY <1>1, <1>2 DEF Closing, BobCloses, Only, Told
  <2>4. QED
    BY <2>1, <2>2, <2>3 DEF BobCloses
<1>7. QED
  BY <1>1, <1>2, <1>4, <1>5, <1>6, BobGoes

LEMMA AliceDeadCourse ==
    ASSUME CleanRun, Course, AliceDead
    PROVE  Course'
<1> DEFINE content == AliceContent(scn.cls, alice.flags, scn.mightfail)
<1>1. /\ Fit /\ Clock /\ alice.ua = "ended" /\ alice' = Reported(alice, content)
      /\ UNCHANGED <<now, scn, bob, ssut, toAlice, toBob>>
  BY DEF Course, AliceDead
<1>2. Closing
  BY <1>1 DEF Course, Stage, Placed, Offered, Unheard, Alerted, Ringing, RingIsHeard,
              Talking, AnswerIsHeard, InCall
<1>3. /\ Gone(alice) /\ alice.flags.nerrs = 0 /\ alice.flags.disconnect
      /\ alice.flags.connect <=> scn.cls \in Connecting
      /\ scn.cls \in Connecting => alice.flags.ring
  BY <1>1, <1>2 DEF Closing, AliceCloses, InCall, Alive
<1>4. content = TRUE
  <2>1. scn.cls \in Classes
    BY <1>1, Intervals DEF Fit
  <2>2. CASE scn.cls \in {"3", "4", "5", "8", "9", "10", "inv_brkn1"}
    BY <1>3, <2>2 DEF AliceContent, OverCleanly
  <2>3. CASE scn.cls \in {"11", "12", "13"}
    BY <1>3, <2>3 DEF AliceContent, CutOff, Connecting, CutOffs
  <2>4. CASE scn.cls \notin {"3", "4", "5", "8", "9", "10", "11", "12", "13", "inv_brkn1"}
    BY <1>3, <2>1, <2>4 DEF AliceContent, Completed, Connecting, CutOffs, Refusing
  <2>5. QED
    BY <2>2, <2>3, <2>4
<1> HIDE DEF content
<1>5. /\ alice' \in SubtestType /\ alice'.ua = "dead" /\ alice'.flags = alice.flags
      /\ alice'.timer = alice.timer /\ alice'.at = alice.at /\ alice'.ended = alice.ended
      /\ alice'.verdict = Success
  <2>1. alice \in SubtestType /\ VerdictOf(content) = Success
    BY <1>1, <1>4 DEF Fit, VerdictOf
  <2>2. QED
    BY <1>1, <2>1, HasReported
<1>6. Minded(alice)'
  BY <1>1, <1>5 DEF Clock, Minded
<1>7. AliceCloses'
  <2>1. Gone(alice)'
    BY <1>1, <1>3, <1>5 DEF Gone, Leaves
  <2>2. toAlice' # <<>> => (Only(toAlice, {"end"}) /\ Told(toAlice[1].sent))'
    BY <1>1, <1>2 DEF Closing, AliceCloses, Only, Told
  <2>3. /\ alice'.flags.nerrs = 0 /\ (alice.flags.disconnect <=> ~Alive(alice))'
        /\ (alice.flags.connect <=> scn.cls \in Connecting)'
        /\ (scn.cls \in Connecting => alice.flags.ring)'
    BY <1>1, <1>3, <1>5 DEF Alive
  <2>4. QED
    BY <2>1, <2>2, <2>3 DEF AliceCloses
<1>8. QED
  BY <1>1, <1>2, <1>5, <1>6, <1>7, AliceGoes

\* A stage says nothing of the time.
LEMMA StageStays ==
    ASSUME Stage, UNCHANGED <<scn, alice, bob, ssut, toAlice, toBob>>
    PROVE  Stage'
<1>1. CASE Placed
  BY <1>1 DEF Stage, Placed, Unheard, NotBegun, InCall, Flag
<1>2. CASE Offered
  BY <1>2 DEF Stage, Offered, HalfSet, Only, Unheard, NotBegun, InCall, Flag
<1>3. CASE Alerted
  BY <1>3 DEF Stage, Alerted, HalfSet, Unheard, InCall, Flag
<1>4. CASE Ringing
  BY <1>4 DEF Stage, Ringing, RingIsHeard, HalfSet, Only, InCall, Flag
<1>5. CASE Talking
  BY <1>5 DEF Stage, Talking, AnswerIsHeard, Only, InCall, Flag
<1>6. CASE Closing
  <2>1. AliceCloses'
    BY <1>6 DEF Closing, AliceCloses, Only, Told, InCall, Gone, Leaves, Alive
  <2>2. BobCloses'
    BY <1>6 DEF Closing, BobCloses, Only, Told, InCall, Flag, Gone, Leaves
  <2>3. QED
    BY <1>6, <2>1, <2>2 DEF Stage, Closing
<1>7. QED
  BY <1>1, <1>2, <1>3, <1>4, <1>5, <1>6 DEF Stage

LEMMA TickCourse ==
    ASSUME CleanRun, Course, Tick
    PROVE  Course'
<1>1. /\ Fit /\ Clock /\ now < Horizon /\ now' = now + 1
      /\ UNCHANGED <<scn, alice, bob, ssut, toAlice, toBob>>
  BY DEF Course, Tick
<1>2. now' \in 0..Horizon /\ now' \in Nat /\ now \in Nat
  BY <1>1, Amounts
<1>3. Fit'
  BY <1>1, <1>2 DEF Fit, Drawn
<1>4. Clock'
  <2>1. Minded(alice)' /\ Minded(bob)'
    <3>1. /\ alice.timer # "none" => now < alice.at
          /\ bob.timer # "none" => now < bob.at
          /\ alice.ua = "ended" => now < alice.ended + GoDeadTimeout
          /\ bob.ua = "ended" => now < bob.ended + GoDeadTimeout
      BY DEF Tick
    <3>2. /\ alice.timer # "none" => now + 1 <= alice.at
          /\ bob.timer # "none" => now + 1 <= bob.at
          /\ alice.ua = "ended" => now + 1 <= alice.ended + GoDeadTimeout
          /\ bob.ua = "ended" => now + 1 <= bob.ended + GoDeadTimeout
      BY <1>1, <3>1, Amounts
    <3>3. QED
      BY <1>1, <3>2 DEF Minded, GoDeadTimeout
  <2>2. ASSUME NEW q, q \in {toAlice, toBob}, q # <<>>
        PROVE  /\ q[1].sent \in Nat /\ q[1].sent <= now + 1
               /\ now + 1 <= q[1].sent + MaxDelay /\ Len(q) \in 0..1
    <3>1. Head(q) = q[1]
      BY <1>1, <2>2, Ahead DEF Fit
    <3>2. now < Head(q).sent + MaxDelay
      BY <2>2 DEF Tick
    <3>3. q[1].sent \in Nat /\ q[1].sent <= now /\ Len(q) \in 0..1
      BY <1>1, <2>2 DEF Clock, Fetched
    <3>4. QED
      BY SMTT(30), <1>1, <3>1, <3>2, <3>3, Amounts
  <2>3. Fetched(toAlice)' /\ Fetched(toBob)'
    BY <1>1, <2>2 DEF Clock, Fetched
  <2>4. (now <= MediaDeadline)'
    <3>1. MediaDeadline' = MediaDeadline /\ MediaDeadline \in Nat
      <4>1. MediaDeadline' = MediaDeadline
        BY <1>1 DEF MediaDeadline
      <4>2. /\ ssut.since + HalfTimeout \in Nat /\ ssut.since + FullTimeout \in Nat
            /\ Never \in Nat
        BY <1>1, Amounts, Moments
      <4>3. QED
        BY <4>1, <4>2 DEF MediaDeadline
    <3>2. now < MediaDeadline
      BY DEF Tick
    <3>3. QED
      BY <1>1, <1>2, <3>1, <3>2
  <2>5. ssut.leg = "idle" => now + 1 <= MaxDelay
    <3>1. ssut.leg = "idle" => now < MaxDelay
      BY DEF Tick
    <3>2. QED
      BY <1>1, <3>1, Amounts
  <2>6. ssut.since <= now + 1
    <3>1. ssut.since <= now
      BY <1>1 DEF Clock
    <3>2. QED
      BY <1>1, <3>1, Amounts
  <2>7. QED
    BY <1>1, <2>1, <2>3, <2>4, <2>5, <2>6 DEF Clock
<1>5. QED
  BY <1>1, <1>3, <1>4, StageStays DEF Course

LEMMA StutterCourse ==
    ASSUME Course, UNCHANGED vars
    PROVE  Course'
<1>1. Fit' /\ Clock'
  BY DEF Course, Fit, Drawn, Clock, Minded, Fetched, MediaDeadline, vars
<1>2. QED
  BY <1>1, StageStays DEF Course, vars

\* A correct SSuT drops no call.
LEMMA NoHangup ==
    ASSUME CleanRun
    PROVE  ~SsutHangup
BY DEF CleanRun, SsutHangup

LEMMA InitCourse ==
    ASSUME CleanRun, Init
    PROVE  Course
<1>1. /\ now = 0 /\ ssut = NoSession /\ toAlice = <<>> /\ toBob = <<>>
      /\ alice = NewSubtest("calling") /\ bob = NewSubtest("idle")
  BY DEF Init
<1>2. Drawn
  <2>1. PICK s \in Scenarios :
            \E answer \in AnswerIval(s.cls), hang \in BobDisconnectIval(s.cls) :
                scn = [cls |-> s.cls, sigonly |-> s.sigonly, mightfail |-> s.mightfail,
                       answer |-> answer, hang |-> hang]
    BY DEF Init
  <2>2. PICK answer \in AnswerIval(s.cls), hang \in BobDisconnectIval(s.cls) :
            scn = [cls |-> s.cls, sigonly |-> s.sigonly, mightfail |-> s.mightfail,
                   answer |-> answer, hang |-> hang]
    BY <2>1
  <2>3. s \in [cls : Classes, sigonly : BOOLEAN, mightfail : BOOLEAN]
    BY <2>1, CallAssumption
  <2>4. answer \in Int /\ hang \in Int
    BY IvalsAssumption DEF AnswerIval, BobDisconnectIval
  <2>5. /\ scn \in ScnShape /\ scn.cls = s.cls
        /\ scn.answer = answer /\ scn.hang = hang
    BY <2>2, <2>3, <2>4 DEF ScnShape
  <2>6. QED
    BY <2>2, <2>5 DEF Drawn
<1>3. Never \in 0..Never /\ Horizon \in Nat /\ 0 \in 0..Horizon /\ MaxDelay \in Nat
  BY Moments
<1>4. /\ alice \in SubtestType /\ InCall(alice, "calling", "none")
      /\ Flag(alice, alice.flags.ring, FALSE, FALSE)
      /\ bob \in SubtestType /\ InCall(bob, "idle", "none")
      /\ Flag(bob, FALSE, FALSE, FALSE)
  BY <1>1, <1>3 DEF NewSubtest, SubtestType, InCall, Flag
<1>5. ssut \in SessionType /\ ssut.leg = "idle" /\ ssut.media = "none" /\ ssut.since = 0
  BY <1>1, <1>3 DEF NoSession, SessionType
<1>6. toAlice \in Seq(AlertShape) /\ toBob \in Seq(MsgShape)
  BY <1>1
<1>7. Fit
  BY <1>1, <1>2, <1>3, <1>4, <1>5, <1>6 DEF Fit
<1>8. Clock
  <2>1. Minded(alice) /\ Minded(bob)
    BY <1>4 DEF Minded, InCall
  <2>2. Fetched(toAlice) /\ Fetched(toBob)
    BY <1>1, EmptySeq DEF Fetched
  <2>3. now <= MediaDeadline
    BY <1>3, <1>1, <1>5 DEF MediaDeadline
  <2>4. QED
    BY <1>1, <1>3, <1>5, <2>1, <2>2, <2>3 DEF Clock
<1>9. Placed
  BY <1>1, <1>4, <1>5 DEF Placed, Unheard, NotBegun
<1>10. QED
  BY <1>7, <1>8, <1>9 DEF Course, Stage

LEMMA NextCourse ==
    ASSUME CleanRun, Course, [Next]_vars
    PROVE  Course'
<1>1. CASE Tick
  BY <1>1, TickCourse
<1>2. CASE AliceStep
  BY <1>2, AliceRingsCourse, AliceConnectedCourse, AliceHungUpCourse,
     AliceDisconnectCourse, AliceDeadCourse DEF AliceStep
<1>3. CASE BobStep
  BY <1>3, BobAnswerCourse, BobRingCourse, BobConnectCourse, BobDisconnectCourse,
     BobHungUpCourse, BobDeadCourse DEF BobStep
<1>4. CASE SsutInvite \/ SsutTimeout
  BY <1>4, SsutInviteCourse, SsutTimeoutCourse
<1>5. CASE UNCHANGED vars
  BY <1>5, StutterCourse
<1>6. CASE AliceTrying
  BY <1>6, AliceTryingCourse
<1>7. QED
  BY <1>1, <1>2, <1>3, <1>4, <1>5, <1>6, NoHangup DEF Next, Progress

LEMMA CourseMeansNoFalseAlarm ==
    ASSUME CleanRun, Course
    PROVE  NoFalseAlarm
<1>1. SUFFICES ASSUME alice.verdict # Pending, bob.verdict # Pending
               PROVE  alice.verdict = Success /\ bob.verdict = Success
  BY DEF NoFalseAlarm, BothReported, BothPass, Sides
<1>2. Closing
  BY <1>1 DEF Course, Stage, Placed, Offered, NotBegun, Alerted, Ringing, Talking, InCall
<1>3. Gone(alice) /\ Gone(bob)
  BY <1>1, <1>2 DEF Closing, AliceCloses, BobCloses, InCall
<1>4. QED
  BY <1>1, <1>3 DEF Gone

\* A side that has not reported still has time.
LEMMA TalkIsYoung ==
    ASSUME CleanRun, Course, ~Closing
    PROVE  now <= TestTimeout(scn.cls)
<1>1. Fit /\ Clock /\ now \in Nat
  BY Amounts DEF Course
<1>2. /\ TestTimeout(scn.cls) \in {45, 75}
      /\ scn.cls = "13" => TestTimeout(scn.cls) = 75
  BY DEF TestTimeout
<1>3. bob.timer # "none" => now <= bob.at
  BY <1>1 DEF Clock, Minded
<1>4. CASE Talking
  <2>1. now + 11 <= TestTimeout(scn.cls)
    BY <1>4, TalkEndsInTime DEF Told
  <2>2. QED
    BY <1>1, <1>2, <2>1
<1>5. CASE HalfSet
  <2>1. now <= ssut.since + 30 /\ ssut.since <= MaxDelay
    BY <1>1, <1>5 DEF Clock, HalfSet, MediaDeadline, CleanRun
  <2>2. now <= 31
    BY <1>1, <2>1, Amounts
  <2>3. QED
    BY <1>1, <1>2, <2>2
<1>6. CASE Placed
  <2>1. now <= MaxDelay
    BY <1>1, <1>6 DEF Clock, Placed
  <2>2. QED
    BY <1>1, <1>2, <2>1, Amounts
<1>7. CASE Ringing /\ ~HalfSet
  <2>1. /\ scn.cls # "11" /\ ssut.media = "full"
        /\ ssut.since <= 2 * MaxDelay + RingIval(scn.cls)
        /\ bob.at = ssut.since + scn.answer /\ now <= bob.at
    BY <1>3, <1>7 DEF Ringing, InCall
  <2>2. scn.cls # "12"
    BY <1>7 DEF Ringing
  <2>3. CASE scn.cls = "13"
    <3>1. now <= ssut.since + 45
      BY <1>1, <2>1, <2>3 DEF Clock, MediaDeadline, HasMedia, CleanRun
    <3>2. ssut.since <= 2 * MaxDelay + 1
      BY <2>1, <2>3 DEF RingIval
    <3>3. now <= 48
      BY <1>1, <3>1, <3>2, Amounts
    <3>4. QED
      BY <1>1, <1>2, <2>3, <3>3
  <2>4. CASE scn.cls # "13"
    <3>1. RingIval(scn.cls) <= 5 /\ scn.answer <= 13
      BY <1>1, <2>1, <2>2, <2>4, Intervals DEF Fit
    <3>2. now <= 20
      BY <1>1, <2>1, <3>1, Amounts
    <3>3. QED
      BY <1>1, <1>2, <3>2
  <2>5. QED
    BY <2>3, <2>4
<1>8. QED
  BY <1>4, <1>5, <1>6, <1>7 DEF Course, Stage, Offered, Alerted

LEMMA CourseMeansInTime ==
    ASSUME CleanRun, Course
    PROVE  InTime
<1>1. Fit /\ Clock /\ now \in Nat /\ MaxDelay \in Nat /\ MaxDelay <= 1
  BY Amounts DEF Course
<1>2. TestTimeout(scn.cls) \in Nat
  BY DEF TestTimeout
<1>3. SUFFICES ASSUME now > TestTimeout(scn.cls)
               PROVE  alice.verdict # Pending /\ bob.verdict # Pending
  BY DEF InTime, BothReported, Sides
<1>4. ~(now <= TestTimeout(scn.cls))
  BY <1>1, <1>2, <1>3
<1>5. Closing
  BY <1>4, TalkIsYoung
<1>6. ASSUME NEW q \in {toAlice, toBob}, q # <<>>, Told(q[1].sent)
      PROVE  FALSE
  <2>1. q[1].sent \in Nat /\ now <= q[1].sent + MaxDelay
    BY <1>1, <1>6 DEF Clock, Fetched
  <2>2. q[1].sent + 11 <= TestTimeout(scn.cls)
    BY <1>6 DEF Told
  <2>3. QED
    BY <1>1, <1>2, <1>4, <2>1, <2>2
<1>7. toAlice = <<>> /\ toBob = <<>>
  BY <1>5, <1>6 DEF Closing, AliceCloses, BobCloses
<1>8. Gone(alice) /\ Gone(bob)
  <2>1. Gone(alice)
    BY <1>5, <1>7 DEF Closing, AliceCloses
  <2>2. \A kinds : ~Only(toBob, kinds)
    BY <1>7, Filled DEF Only
  <2>3. Gone(bob)
    BY <1>5, <2>2 DEF Closing, BobCloses
  <2>4. QED
    BY <2>1, <2>3
<1>9. ASSUME NEW side \in {alice, bob}, side.ua = "ended", Leaves(side.ended) PROVE FALSE
  <2>1. now <= side.ended + GoDeadTimeout
    BY <1>1, <1>9 DEF Clock, Minded
  <2>2. side.ended + GoDeadTimeout <= TestTimeout(scn.cls)
    BY <1>9 DEF Leaves
  <2>3. side.ended \in Nat /\ GoDeadTimeout \in Nat
    BY <1>1, <1>9, Amounts
  <2>4. QED
    BY <1>1, <1>2, <1>4, <2>1, <2>2, <2>3
<1>10. alice.ua = "dead" /\ bob.ua = "dead"
  BY <1>8, <1>9 DEF Gone
<1>11. QED
  BY <1>8, <1>10 DEF Gone, Success, Pending

LEMMA CourseMeansMediaTimeoutsOnTime ==
    ASSUME CleanRun, Course
    PROVE  MediaTimeoutsOnTime
<1>1. Fit /\ Never # HalfTimeout /\ HalfTimeout = 30 /\ FullTimeout = 45
  BY Moments DEF Course
<1>2. Closing \/ (alice.ended = Never /\ bob.ended = Never)
  BY DEF Course, Stage, Placed, Offered, NotBegun, Unheard, Alerted, Ringing,
         RingIsHeard, Talking, AnswerIsHeard, InCall
<1>3. ASSUME NEW side \in {alice, bob}, side.ended # Never
      PROVE  side.ended \in Nat /\ Leaves(side.ended)
  <2>1. Closing
    BY <1>2, <1>3
  <2>2. Gone(side)
    BY <1>3, <2>1 DEF Closing, AliceCloses, BobCloses, InCall
  <2>3. alice.ended \in Nat /\ bob.ended \in Nat
    BY <1>1, Amounts
  <2>4. QED
    BY <1>3, <2>2, <2>3 DEF Gone
<1>4. MaxDelay \in Nat
  BY Moments
<1>5. CASE scn.cls \in {"11", "12"}
  <2>1. \A side \in {alice, bob} : side.ended # Never =>
            side.ended \in HalfTimeout .. HalfTimeout + 3 * MaxDelay
    BY <1>1, <1>3, <1>4, <1>5 DEF Leaves
  <2>2. QED
    BY <1>5, <2>1 DEF MediaTimeoutsOnTime, Sides
<1>6. CASE scn.cls = "13"
  <2>1. RingIval("13") + FullTimeout = 46
    BY <1>1 DEF RingIval
  <2>2. \A side \in {alice, bob} : side.ended # Never =>
            side.ended \in 46 .. 46 + 3 * MaxDelay
    BY <1>3, <1>4, <1>6 DEF Leaves
  <2>3. QED
    BY <1>6, <2>1, <2>2 DEF MediaTimeoutsOnTime, Sides
<1>7. CASE scn.cls \notin {"11", "12", "13"}
  BY <1>7 DEF MediaTimeoutsOnTime
<1>8. QED
  BY <1>5, <1>6, <1>7

LEMMA CourseMeansTypeOK ==
    ASSUME CleanRun, Course
    PROVE  TypeOK
<1>1. Fit
  BY DEF Course
<1>2. scn.cls \in Classes
  BY <1>1, Intervals DEF Fit
<1>3. \A i \in DOMAIN toAlice : toAlice[i] \in AlertShape
  BY <1>1, LenProperties, ElementOfSeq DEF Fit
<1>4. \A i \in DOMAIN toBob : toBob[i] \in MsgShape
  BY <1>1, LenProperties, ElementOfSeq DEF Fit
<1>5. QED
  BY <1>1, <1>2, <1>3, <1>4 DEF Fit, TypeOK, AlertShape, MsgShape

\* With a correct SSuT every call runs its course.
THEOREM CourseInvariant == CleanRun => (Spec => [](CleanRun /\ Course))
<1>1. CleanRun /\ Init => CleanRun /\ Course
  BY InitCourse
<1>2. CleanRun /\ Course /\ [Next]_vars => (CleanRun /\ Course)'
  <2>1. CleanRun => CleanRun'
    BY DEF CleanRun
  <2>2. QED
    BY <2>1, NextCourse
<1>3. QED
  BY <1>1, <1>2, PTL DEF Spec

\* The state stays within its types.
THEOREM TypeCorrect == CleanRun => (Spec => []TypeOK)
<1>1. CleanRun /\ Course => TypeOK
  BY CourseMeansTypeOK
<1>2. QED
  BY <1>1, CourseInvariant, PTL

\* A correct SSuT is never blamed: both subtests of every scenario, t3's doubled
\* guard and t13's missing media included, report success.
THEOREM NeverBlamed == CleanRun => (Spec => []NoFalseAlarm)
<1>1. CleanRun /\ Course => NoFalseAlarm
  BY CourseMeansNoFalseAlarm
<1>2. QED
  BY <1>1, CourseInvariant, PTL

\* No subtest outlives the timer of the process it runs in.
THEOREM AlwaysInTime == CleanRun => (Spec => []InTime)
<1>1. CleanRun /\ Course => InTime
  BY CourseMeansInTime
<1>2. QED
  BY <1>1, CourseInvariant, PTL

\* The media time-outs of t11, t12 and t13 strike when their tests say they do.
THEOREM MediaOnTime == CleanRun => (Spec => []MediaTimeoutsOnTime)
<1>1. CleanRun /\ Course => MediaTimeoutsOnTime
  BY CourseMeansMediaTimeoutsOnTime
<1>2. QED
  BY <1>1, CourseInvariant, PTL
====
