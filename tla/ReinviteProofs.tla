--------------------------- MODULE ReinviteProofs ---------------------------
(***************************************************************************)
(* A call with re-INVITEs, for every class, every way in which the SSuT    *)
(* errs, however long its messages take and however the holds were drawn.  *)
(***************************************************************************)
EXTENDS Reinvite, SequenceTheorems, TLAPS

Agents == {"ringing", "up", "updating", "asked", "ended", "dead"}
Callbacks == {"connect", "reinvite", "off_hold", "disconnect", "process_reinvite"}
Kinds == {"answer", "INVITE", "200", "refuse", "BYE"}
Bodies == {"none", "plain", "hold", "broken", "raw"}
Blames == {"none", "alice", "bob", "ack", "media", "refusal", "fault"}

TimerShape == [cb : Callbacks, at : Nat]
MsgShape == [kind : Kinds, body : Bodies, at : Nat]

SideShape ==
    [ua : Agents, connect : BOOLEAN, disconnect : BOOLEAN, nerrs : Nat, busy : BOOLEAN,
     done : BOOLEAN, holds : Nat, offs : Nat, timers : SUBSET TimerShape,
     sched : Seq(Nat), ended : Nat, ruri : {"none", "contact", "other"},
     late : BOOLEAN, verdict : {Success, Failure, Pending}]

SsutShape ==
    [leg : {"calling", "up", "over"}, refused : BOOLEAN, ackby : Nat, since : Nat,
     accepted : BOOLEAN, blame : Blames]

Typed ==
    /\ now \in Nat /\ scn \in Scenarios
    /\ side \in [Sides -> SideShape]
    /\ ssut \in SsutShape
    /\ net \in [Sides -> Seq(MsgShape)]

Single(set) == \A x, y \in set : x = y

\* Of these kinds a queue has no message, or one at most.
No(q, kinds) == \A i \in 1..Len(q) : q[i].kind \notin kinds
One(q, kinds) == \A i, j \in 1..Len(q) : q[i].kind \in kinds /\ q[j].kind \in kinds => i = j

\* The stages of a re-INVITE: a timer of its sender's, on its way, waiting for
\* Bob of reinv_adelay, answered.
Asks(p) == {t \in side[p].timers : t.cb \in {"reinvite", "off_hold"}}
Offer == {"INVITE"}
Owed(p) == {t \in side[p].timers : t.cb = "process_reinvite"}
Reply == {"200", "refuse"}

\* A side is disconnected when it has left the call, and one side asks.
Sane ==
    \A p \in Sides :
        /\ Left(side[p]) <=> side[p].disconnect
        /\ Asks(p) # {} => p = Reinviter(scn.cls)

\* Nothing is overdue, and what is on its way to a side is in order.
Punctual ==
    \A p \in Sides :
        /\ \A t \in side[p].timers : t.at >= now
        /\ \A i \in 1..Len(net[p]) : net[p][i].at >= now
        /\ \A i, j \in 1..Len(net[p]) : i < j => net[p][i].at <= net[p][j].at

\* When a side has left, or is about to hear that it must, the SSuT knows.
Knows ==
    /\ \A p \in Sides :
           /\ Left(side[p]) => ssut.leg = "over"
           /\ ssut.leg # "over" => No(net[p], {"BYE"})
    /\ ssut.leg = "over" <=> ssut.blame # "none"

\* Only Bob of reinv_adelay takes his time over an answer.
Prompt ==
    scn.cls # "reinv_adelay" => \A p \in Sides : Owed(p) = {} /\ ~side[p].late

\* Before Bob answers there is nothing but his timers, before Alice hears of it
\* nothing of hers.
Begun ==
    /\ ~bob.connect =>
           /\ ssut.leg = "calling" /\ alice.ua = "ringing" /\ bob.ua = "ringing"
           /\ net["alice"] = <<>> /\ net["bob"] = <<>>
           /\ \A t \in bob.timers : t.cb \in {"connect", "reinvite"}
    /\ alice.ua = "ringing" =>
           /\ alice.timers = {} /\ ~alice.connect /\ ~alice.busy /\ ~alice.done
           /\ alice.holds = 0 /\ alice.offs = 0

\* What a side has reported is still so.
Justified ==
    \A p \in Sides :
        side[p].verdict = Success =>
            /\ side[p].ua = "dead" /\ side[p].connect /\ side[p].nerrs = 0
            /\ p = Reinviter(scn.cls) => side[p].done
            /\ p = "bob" /\ scn.cls = "reinv_onhold" => OnHoldOver(side[p])

\* r sends the re-INVITEs, one at a time, and waits for the answer of o.
InTurn(r, o) ==
    /\ Owed(r) = {} /\ No(net[r], Offer) /\ No(net[o], Reply)
    /\ side[o].ua # "updating" /\ side[r].ua # "asked" /\ ~side[o].busy /\ ~side[o].done
    /\ Single(Asks(r)) /\ One(net[o], Offer) /\ Single(Owed(o)) /\ One(net[r], Reply)
    /\ ~No(net[o], Offer) => Owed(o) = {} /\ No(net[r], Reply)
    /\ Owed(o) # {} => No(net[r], Reply)
    /\ ~No(net[o], Offer) \/ Owed(o) # {} \/ ~No(net[r], Reply)
           => side[r].ua = "updating" \/ Left(side[r])
    /\ side[r].ua = "updating" => Asks(r) = {}

OneAtATime ==
    \A r, o \in Sides : r = Reinviter(scn.cls) /\ o # r => InTurn(r, o)

\* reinv_onhold: on hold and off it in turns, five times at most; and Bob has
\* counted no more than Alice.
Tally(a, b, asks, onway) ==
    /\ a.holds + a.offs + Len(a.sched) <= 5
    /\ a.ua = "ringing" \/ asks # {} => a.holds + a.offs + Len(a.sched) <= 4
    /\ a.holds = a.offs \/ a.holds = a.offs + 1
    /\ \A t \in asks : t.cb = "off_hold" <=> a.holds = a.offs + 1
    /\ b.holds + b.offs <= a.holds + a.offs
    /\ ~No(onway, Offer) => b.holds + b.offs < a.holds + a.offs

Counted ==
    scn.cls = "reinv_onhold" =>
        Tally(side["alice"], side["bob"], Asks("alice"), net["bob"])

\* reinv_adelay: Alice's disconnect() comes before Bob's answer.
Ahead(s, time) == \E u \in s.timers : u.cb = "disconnect" /\ u.at <= time
AheadOfAll(s, q) ==
    \A i \in 1..Len(q) : q[i].kind = "INVITE" => Ahead(s, q[i].at + 35)
Late == scn.cls = "reinv_adelay" /\ scn.fault # "swallow"
Hasty ==
    Late =>
        /\ ~side["alice"].done
        /\ \A u \in Asks("alice") : u.cb = "reinvite"
        /\ ~Left(side["alice"]) =>
               /\ AheadOfAll(side["alice"], net["bob"])
               /\ \A t \in Owed("bob") : Ahead(side["alice"], t.at - 1)
               /\ No(net["alice"], {"200"})

\* A wrong answer is counted, or on its way to Alice with nothing to overtake
\* it, or too late for her to have done.
Wrong(m) == m.kind = "200" /\ (scn.cls \in Refused \/ m.body = "raw")
Watching == scn.cls \in Refused \/ (scn.fault = "rawok" /\ Reinviter(scn.cls) = "alice")
Coming(q) ==
    \E i \in 1..Len(q) : Wrong(q[i]) /\ \A j \in 1..(i - 1) : q[j].kind \notin {"BYE", "refuse"}
Noticed(a, q) ==
    \/ a.nerrs > 0
    \/ Left(a) /\ ~a.done
    \/ a.ua = "updating" /\ Coming(q)

\* Alice waits for a refusal, or never gets done.
Expects(a, asks) ==
    /\ scn.cls \in Refused =>
           /\ a.busy \/ a.done => asks = {}
           /\ a.done => a.ua # "updating"
    /\ scn.cls \notin Refused => ~a.done

AllWrong(q) == \A i \in 1..Len(q) : q[i].kind = "200" => Wrong(q[i])

Caught ==
    Watching =>
        /\ AllWrong(net["alice"])
        /\ ssut.accepted => Noticed(side["alice"], net["alice"])
        /\ Expects(side["alice"], Asks("alice"))

\* reinv_bad_ack: Alice gives up on her ACK before Bob hangs up.
Patient ==
    scn.cls = "reinv_bad_ack" =>
        /\ ~ssut.refused /\ ssut.blame \notin {"alice", "refusal"}
        /\ ssut.blame = "media" => scn.sigonly
        /\ ssut.blame = "fault" => scn.fault = "hangup"
        /\ side["alice"].ua # "ringing" /\ ~Left(side["alice"]) /\ side["alice"].nerrs = 0 =>
               \A t \in side["bob"].timers :
                   t.cb = "disconnect" => Ahead(side["alice"], t.at - 1)
        /\ side["alice"].ua = "ringing" =>
               \A i \in 1..Len(net["alice"]) : net["alice"][i].kind = "answer" =>
                   \A t \in side["bob"].timers : t.cb = "disconnect" =>
                       net["alice"][i].at + DisconnectIval("alice", scn.cls) < t.at
        /\ ssut.blame = "bob" =>
               \/ side["alice"].nerrs > 0
               \/ ~side["alice"].connect /\ No(net["alice"], {"answer"})

-----------------------------------------------------------------------------
(* Literals, messages and records                                          *)

LEMMA Literals ==
    /\ Never \in Nat /\ AckTimeout \in Nat /\ MediaTimeout \in Nat
    /\ \A c \in ReinviteClasses :
           /\ AnswerIval(c) \in Nat /\ ReinviteIval(c) \in Nat /\ AnswerDelay(c) \in Nat
           /\ \A p \in Sides : DisconnectIval(p, c) \in Nat
           /\ AnswerDelay(c) > 0 <=> c = "reinv_adelay"
           /\ Reinviter(c) \in Sides
           /\ Reinviter(c) = "bob" => ReinviteIval(c) - RingIval \in Nat
    /\ AnswerDelay("reinv_adelay") = 70
<1>1. Never \in Nat /\ AckTimeout \in Nat /\ MediaTimeout \in Nat
  BY DEF Never, AckTimeout, MediaTimeout
<1>2. ASSUME NEW c \in ReinviteClasses
      PROVE  /\ AnswerIval(c) \in Nat /\ AnswerDelay(c) \in Nat
             /\ \A p \in Sides : DisconnectIval(p, c) \in Nat
             /\ AnswerDelay(c) > 0 <=> c = "reinv_adelay"
             /\ Reinviter(c) \in Sides
  BY DEF AnswerIval, AnswerDelay, DisconnectIval, Reinviter, Sides
<1>3. ASSUME NEW c \in ReinviteClasses
      PROVE  /\ ReinviteIval(c) \in Nat
             /\ Reinviter(c) = "bob" => ReinviteIval(c) - RingIval \in Nat
  BY DEF ReinviteIval, DisconnectIval, Reinviter, RingIval, Refused
<1>4. AnswerDelay("reinv_adelay") = 70
  BY DEF AnswerDelay
<1>5. QED
  BY <1>1, <1>2, <1>3, <1>4

\* A message put in a queue, in time and behind the others.
Behind(q, m) ==
    /\ m \in MsgShape /\ m.at >= now
    /\ q # <<>> => m.at >= q[Len(q)].at
    /\ \E d \in Delays : m.at >= now + d /\ (q = <<>> => m.at = now + d)
    /\ \E d \in Delays : m.at = now + d \/ (q # <<>> /\ m.at = q[Len(q)].at)

LEMMA QueuedBehind ==
    ASSUME now \in Nat, NEW q \in Seq(MsgShape), NEW kind \in Kinds, NEW body \in Bodies,
           NEW d \in Delays
    PROVE  \E m : /\ Queued(q, kind, body, d) = Append(q, m)
                  /\ Behind(q, m) /\ m.kind = kind /\ m.body = body
<1> DEFINE at == IF q # <<>> /\ q[Len(q)].at > now + d THEN q[Len(q)].at ELSE now + d
           m == [kind |-> kind, body |-> body, at |-> at]
<1>1. d \in Nat
  BY ReinviteAssumption
<1>2. q # <<>> => q[Len(q)] \in MsgShape
  OBVIOUS
<1>3. q # <<>> => q[Len(q)].at \in Nat
  BY <1>2 DEF MsgShape
<1>4. at \in Nat /\ at >= now + d /\ (q # <<>> => at >= q[Len(q)].at)
      /\ (q = <<>> => at = now + d)
      /\ (at = now + d \/ (q # <<>> /\ at = q[Len(q)].at))
  BY <1>1, <1>3
<1>5. Queued(q, kind, body, d) = Append(q, m)
  BY DEF Queued
<1> HIDE DEF at
<1>6. m \in MsgShape /\ m.at = at /\ m.kind = kind /\ m.body = body
  BY <1>4 DEF MsgShape
<1>7. Behind(q, m)
  BY <1>1, <1>4, <1>6 DEF Behind
<1>8. QED
  BY <1>5, <1>6, <1>7

Nets == [Sides -> Seq(MsgShape)]

\* One message has been sent, on top of what network n holds.
Sent(n, to, kind, body) ==
    \E m : /\ net' = [n EXCEPT ![to] = Append(n[to], m)]
           /\ Behind(n[to], m) /\ m.kind = kind /\ m.body = body

LEMMA SentTyped ==
    ASSUME NEW n \in Nets, NEW to \in Sides, NEW kind, NEW body, Sent(n, to, kind, body)
    PROVE  net' \in Nets
BY DEF Sent, Behind, Nets

LEMMA SsutSends ==
    ASSUME Typed, NEW n \in Nets, NEW q \in Sides, NEW k \in Kinds, NEW b \in Bodies,
           NEW d \in Delays,
           net' = [n EXCEPT ![q] = Queued(n[q], k, b, d)]
    PROVE  Sent(n, q, k, b)
<1>1. n[q] \in Seq(MsgShape) /\ now \in Nat
  BY DEF Nets, Typed
<1>2. PICK m : /\ Queued(n[q], k, b, d) = Append(n[q], m)
               /\ Behind(n[q], m) /\ m.kind = k /\ m.body = b
  BY <1>1, QueuedBehind
<1>3. net' = [n EXCEPT ![q] = Append(n[q], m)]
  BY <1>2
<1>4. QED
  BY <1>2, <1>3 DEF Sent

LEMMA OtherSide ==
    \A p \in Sides : Other(p) \in Sides /\ Other(p) # p /\ Other(Other(p)) = p
        /\ Sides = {p, Other(p)}
BY DEF Sides, Other

-----------------------------------------------------------------------------
(* What the SSuT does with what a side sends                               *)

LEMMA SsutByes ==
    ASSUME Typed, NEW p \in Sides, NEW n \in Nets, SsutFrom(p, n, "BYE", "none")
    PROVE  \/ ssut.leg = "over" /\ net' = n /\ ssut' = ssut
           \/ ssut.leg # "over" /\ Sent(n, Other(p), "BYE", "none") /\ ssut' = Over(p)
<1>1. "BYE" \in Kinds /\ "none" \in Bodies
  BY DEF Kinds, Bodies
<1>2. QED
  BY <1>1, OtherSide, SsutSends DEF SsutFrom

LEMMA SsutAnswers ==
    ASSUME Typed, NEW p \in Sides, NEW n \in Nets, SsutFrom(p, n, "answer", "plain")
    PROVE  \/ ssut.leg = "over" /\ net' = n /\ ssut' = ssut
           \/ /\ ssut.leg # "over" /\ Sent(n, Other(p), "answer", "plain")
              /\ ssut' = [ssut EXCEPT !.since = now, !.leg = "up"]
<1>1. "answer" \in Kinds /\ "plain" \in Bodies
  BY DEF Kinds, Bodies
<1>2. [[ssut EXCEPT !.since = now] EXCEPT !.leg = "up"] = [ssut EXCEPT !.since = now, !.leg = "up"]
  OBVIOUS
<1>3. QED
  BY <1>1, <1>2, OtherSide, SsutSends DEF SsutFrom

LEMMA SsutRefuses ==
    ASSUME Typed, NEW p \in Sides, NEW n \in Nets, SsutFrom(p, n, "refuse", "none")
    PROVE  \/ ssut.leg = "over" /\ net' = n /\ ssut' = ssut
           \/ /\ ssut.leg # "over" /\ Sent(n, Other(p), "refuse", "none")
              /\ ssut' = [ssut EXCEPT !.refused = TRUE]
<1>1. "refuse" \in Kinds /\ "none" \in Bodies
  BY DEF Kinds, Bodies
<1>2. QED
  BY <1>1, OtherSide, SsutSends DEF SsutFrom

LEMMA SsutInvites ==
    ASSUME Typed, NEW p \in Sides, NEW n \in Nets, NEW body \in Bodies,
           SsutFrom(p, n, "INVITE", body)
    PROVE  \/ ssut.leg = "over" /\ Sent(n, p, "refuse", "none") /\ ssut' = ssut
           \/ ssut.leg # "over" /\ scn.fault = "mute" /\ net' = n /\ ssut' = ssut
           \/ /\ ssut.leg # "over" /\ scn.fault = "swallow" /\ Sent(n, p, "200", "plain")
              /\ ssut' = [ssut EXCEPT !.accepted = TRUE]
           \/ /\ ssut.leg # "over" /\ body = "broken" /\ Sent(n, p, "refuse", "none")
              /\ ssut' = [ssut EXCEPT !.refused = TRUE]
           \/ /\ ssut.leg # "over" /\ scn.fault \notin {"mute", "swallow"}
              /\ body = "broken" => scn.fault = "tolerate"
              /\ \E b \in Bodies : /\ Sent(n, Other(p), "INVITE", b)
                                   /\ b = IF scn.fault = "raw" THEN "raw" ELSE body
              /\ ssut' = [ssut EXCEPT !.since = now]
<1>1. {"INVITE", "refuse", "200"} \subseteq Kinds /\ {"none", "raw", "plain"} \subseteq Bodies
  BY DEF Kinds, Bodies
<1>2. QED
  BY <1>1, OtherSide, SsutSends DEF SsutFrom

LEMMA SsutAccepts ==
    ASSUME Typed, NEW p \in Sides, NEW n \in Nets, NEW body \in Bodies,
           SsutFrom(p, n, "200", body)
    PROVE  \/ ssut.leg = "over" /\ net' = n /\ ssut' = ssut
           \/ /\ ssut.leg # "over" /\ body = "broken" /\ Sent(n, Other(p), "refuse", "none")
              /\ ssut' = [ssut EXCEPT !.refused = TRUE]
           \/ /\ ssut.leg # "over" /\ (body = "broken" => scn.fault = "tolerate")
              /\ Sent(n, Other(p), "200", IF scn.fault = "rawok" THEN "raw" ELSE body)
              /\ ssut' = [ssut EXCEPT !.since = now, !.accepted = TRUE]
<1>1. {"refuse", "200"} \subseteq Kinds /\ {"none", "raw"} \subseteq Bodies
  BY DEF Kinds, Bodies
<1>2. [[ssut EXCEPT !.since = now] EXCEPT !.accepted = TRUE]
      = [ssut EXCEPT !.since = now, !.accepted = TRUE]
  OBVIOUS
<1>3. QED
  BY <1>1, <1>2, OtherSide, SsutSends DEF SsutFrom

-----------------------------------------------------------------------------
(* What each action leaves                                                 *)

Fields ==
    {"ua", "connect", "disconnect", "nerrs", "busy", "done", "holds", "offs",
     "timers", "sched", "ended", "ruri", "late", "verdict"}

\* Record r is record s but for these fields.
Same(r, s, but) == \A f \in Fields \ but : r[f] = s[f]

\* Only side p is touched.
Turn(p) ==
    /\ side' \in [Sides -> SideShape]
    /\ \A q \in Sides \ {p} : side'[q] = side[q]

\* Nothing else happens.
Quiet == net' = net /\ ssut' = ssut

\* Only p's first message goes.
Takes(p) == net' = Taken(p) /\ ssut' = ssut

LEMMA SideTyped ==
    ASSUME Typed, NEW p \in Sides
    PROVE  side[p] \in SideShape /\ net[p] \in Seq(MsgShape) /\ now \in Nat
           /\ scn.cls \in ReinviteClasses /\ net \in Nets
BY ReinviteAssumption DEF Typed, Nets

LEMMA KeepDoes ==
    ASSUME Typed, NEW p \in Sides, NEW s \in SideShape, NEW n, Keep(p, s, n)
    PROVE  Turn(p) /\ side'[p] = s /\ net' = n /\ ssut' = ssut
BY DEF Typed, Keep, Turn

LEMMA EndedDoes ==
    ASSUME Typed, NEW s \in SideShape
    PROVE  /\ Ended(s) \in SideShape
           /\ Ended(s).ua = "ended" /\ Ended(s).ended = now /\ Ended(s).disconnect
           /\ Same(Ended(s), s, {"ua", "ended", "disconnect"})
BY DEF Typed, Ended, SideShape, Agents, Same, Fields

LEMMA AgentDoes ==
    ASSUME NEW s \in SideShape, NEW ua \in Agents
    PROVE  /\ [s EXCEPT !.ua = ua] \in SideShape /\ [s EXCEPT !.ua = ua].ua = ua
           /\ Same([s EXCEPT !.ua = ua], s, {"ua"})
BY DEF SideShape, Same, Fields

\* An event for a user agent that is still there.
LEMMA HandDoes ==
    ASSUME Typed, NEW p \in Sides, NEW s \in SideShape, ~Left(s), NEW n,
           NEW kind, NEW body, NEW ua \in Agents \ {"ended"}, Hand(p, s, n, kind, body, ua)
    PROVE  /\ Turn(p) /\ SsutFrom(p, n, kind, body)
           /\ side'[p].ua = ua /\ Same(side'[p], s, {"ua"})
<1>1. side' = [side EXCEPT ![p] = [s EXCEPT !.ua = ua]] /\ SsutFrom(p, n, kind, body)
  BY DEF Hand
<1>2. QED
  BY <1>1, AgentDoes DEF Typed, Turn

LEMMA LeaveDoes ==
    ASSUME Typed, NEW p \in Sides, NEW s \in SideShape, ~Left(s), NEW n,
           NEW kind, NEW body, Hand(p, s, n, kind, body, "ended")
    PROVE  /\ Turn(p) /\ SsutFrom(p, n, kind, body)
           /\ side'[p].ua = "ended" /\ side'[p].ended = now /\ side'[p].disconnect
           /\ Same(side'[p], s, {"ua", "ended", "disconnect"})
<1>1. side' = [side EXCEPT ![p] = Ended(s)] /\ SsutFrom(p, n, kind, body)
  BY DEF Hand
<1>2. QED
  BY <1>1, EndedDoes DEF Typed, Turn

LEMMA FiredDoes ==
    ASSUME Typed, NEW p \in Sides, NEW t \in side[p].timers
    PROVE  /\ Fired(p, t) \in SideShape /\ Fired(p, t).timers = side[p].timers \ {t}
           /\ Same(Fired(p, t), side[p], {"timers"})
           /\ Left(Fired(p, t)) <=> Left(side[p])
           /\ t.cb \in Callbacks /\ t.at \in Nat
<1>1. side[p] \in SideShape
  BY SideTyped
<1>2. t \in TimerShape /\ side[p].timers \ {t} \in SUBSET TimerShape
  BY <1>1 DEF SideShape
<1>3. QED
  BY <1>1, <1>2 DEF Fired, SideShape, Same, Fields, Left, TimerShape

LEMMA CountDoes ==
    ASSUME NEW s \in SideShape, NEW v \in Nat
    PROVE  /\ LET r == [s EXCEPT !.holds = v]
              IN  r \in SideShape /\ r.holds = v /\ Same(r, s, {"holds"})
           /\ LET r == [s EXCEPT !.offs = v]
              IN  r \in SideShape /\ r.offs = v /\ Same(r, s, {"offs"})
           /\ LET r == [s EXCEPT !.nerrs = v]
              IN  r \in SideShape /\ r.nerrs = v /\ Same(r, s, {"nerrs"})
BY DEF SideShape, Same, Fields

LEMMA CountsTyped ==
    ASSUME NEW s \in SideShape
    PROVE  /\ s.holds \in Nat /\ s.holds + 1 \in Nat /\ s.offs \in Nat /\ s.offs + 1 \in Nat
           /\ s.nerrs \in Nat /\ s.nerrs + 1 \in Nat /\ s.nerrs + 2 \in Nat
BY DEF SideShape

LEMMA TimersDoes ==
    ASSUME NEW s \in SideShape, NEW v \in SUBSET TimerShape
    PROVE  LET r == [s EXCEPT !.timers = v]
           IN  r \in SideShape /\ r.timers = v /\ Same(r, s, {"timers"})
BY DEF SideShape, Same, Fields

LEMMA SameSelf == \A s, but : Same(s, s, but)
BY DEF Same

LEMMA TimerDoes ==
    ASSUME now \in Nat, NEW cb \in Callbacks, NEW ival \in Nat
    PROVE  /\ Timer(cb, ival) \in TimerShape
           /\ Timer(cb, ival).cb = cb /\ Timer(cb, ival).at = now + ival
BY DEF Timer, TimerShape

\* What a re-INVITE offers.
AskBody(t) ==
    CASE t.cb = "reinvite" /\ scn.cls = "reinv_onhold" -> "hold"
      [] t.cb = "reinvite" /\ scn.cls = "reinv_brkn2" -> "broken"
      [] OTHER -> "plain"

\* A re-INVITE of p's is sent, or the call is no longer there.
AskDone(p, t) ==
    /\ t \in Asks(p) /\ now >= t.at /\ p = Reinviter(scn.cls) /\ Turn(p)
    /\ side'[p].timers =
           (side[p].timers \ {t})
           \cup (IF scn.cls = "reinv_adelay" /\ t.cb = "reinvite"
                 THEN {Timer("disconnect", 35)} ELSE {})
    /\ side'[p].offs = side[p].offs + (IF t.cb = "off_hold" THEN 1 ELSE 0)
    /\ IF MayReinvite(side[p])
       THEN /\ side'[p].ua = "updating" /\ side'[p].busy
            /\ side'[p].holds = side[p].holds
                   + (IF t.cb = "reinvite" /\ scn.cls = "reinv_onhold" THEN 1 ELSE 0)
            /\ Same(side'[p], side[p], {"timers", "offs", "holds", "ua", "busy"})
            /\ \E body \in Bodies : /\ SsutFrom(p, net, "INVITE", body)
                                    /\ body = "broken" => scn.cls = "reinv_brkn2"
                                    /\ body = AskBody(t)
       ELSE Same(side'[p], side[p], {"timers", "offs"}) /\ Quiet

LEMMA SendDoes ==
    ASSUME Typed, NEW p \in Sides, NEW s \in SideShape, NEW body, SendReinvite(p, s, body),
           Left(s) => s.disconnect
    PROVE  /\ Turn(p)
           /\ IF MayReinvite(s)
              THEN /\ side'[p].ua = "updating" /\ side'[p].busy
                   /\ Same(side'[p], s, {"ua", "busy"})
                   /\ SsutFrom(p, net, "INVITE", body)
              ELSE side'[p] = s /\ Quiet
<1>1. CASE MayReinvite(s)
  <2> DEFINE b == [s EXCEPT !.busy = TRUE]
  <2>1. Hand(p, b, net, "INVITE", body, "updating")
    BY <1>1 DEF SendReinvite
  <2>2. b \in SideShape /\ b.busy /\ Same(b, s, {"busy"})
    BY DEF SideShape, Same, Fields
  <2>3. ~Left(b)
    BY <1>1, <2>2 DEF MayReinvite, Left, Same, Fields
  <2>4. "updating" \in Agents \ {"ended"}
    BY DEF Agents
  <2> HIDE DEF b
  <2>5. /\ Turn(p) /\ SsutFrom(p, net, "INVITE", body)
        /\ side'[p].ua = "updating" /\ Same(side'[p], b, {"ua"})
    BY <2>1, <2>2, <2>3, <2>4, HandDoes
  <2>6. QED
    BY <1>1, <2>2, <2>5 DEF Same, Fields
<1>2. CASE ~MayReinvite(s)
  BY <1>2, KeepDoes DEF SendReinvite, Quiet
<1>3. QED
  BY <1>1, <1>2

LEMMA ReinviteDoes ==
    ASSUME Typed, Sane, NEW p \in Sides, Reinvite(p)
    PROVE  \E t : AskDone(p, t) /\ t.cb = "reinvite"
<1>1. PICK t \in Due(p, "reinvite") :
         CASE scn.cls = "reinv_onhold" -> HoldReinvite(Fired(p, t))
           [] scn.cls = "reinv_brkn2" -> BrokenReinvite(Fired(p, t))
           [] scn.cls = "reinv_adelay" -> HastyReinvite(Fired(p, t))
           [] OTHER -> SendReinvite(p, Fired(p, t), "plain")
  BY DEF Reinvite
<1> DEFINE s == Fired(p, t)
<1>2. t \in side[p].timers /\ t.cb = "reinvite" /\ now >= t.at
  BY DEF Due
<1>3. t \in Asks(p) /\ p = Reinviter(scn.cls)
  BY <1>2 DEF Asks, Sane
<1>4. /\ s \in SideShape /\ s.timers = side[p].timers \ {t} /\ Same(s, side[p], {"timers"})
      /\ Left(s) <=> Left(side[p])
  BY <1>2, FiredDoes
<1>5. Left(s) => s.disconnect
  BY <1>4 DEF Sane, Same, Fields
<1>6. scn.cls \in {"reinv_onhold", "reinv_brkn2", "reinv_adelay"} => p = "alice"
  BY <1>3 DEF Reinviter
<1>7. MayReinvite(s) <=> MayReinvite(side[p])
  BY <1>4 DEF MayReinvite, Same, Fields
<1>8. now \in Nat /\ side[p] \in SideShape /\ side[p].offs \in Nat /\ side[p].holds \in Nat
  BY SideTyped DEF SideShape
<1> HIDE DEF s
<1>9. CASE scn.cls = "reinv_onhold"
  <2> DEFINE h == IF MayReinvite(s) THEN [s EXCEPT !.holds = @ + 1] ELSE s
  <2>1. SendReinvite("alice", h, "hold")
    BY <1>1, <1>9 DEF HoldReinvite, s
  <2>2. h \in SideShape /\ Same(h, s, {"holds"})
        /\ h.holds = s.holds + (IF MayReinvite(s) THEN 1 ELSE 0)
    <3>1. s.holds \in Nat /\ s.holds + 1 \in Nat
      BY <1>4, CountsTyped
    <3>2. CASE MayReinvite(s)
      BY <1>4, <3>1, <3>2, CountDoes
    <3>3. CASE ~MayReinvite(s)
      BY <1>4, <3>1, <3>3, SameSelf
    <3>4. QED
      BY <3>2, <3>3
  <2>3. (Left(h) => h.disconnect) /\ (MayReinvite(h) <=> MayReinvite(s))
    BY <1>5, <2>2 DEF Left, MayReinvite, Same, Fields
  <2> HIDE DEF h
  <2>4. /\ Turn(p)
        /\ IF MayReinvite(h)
           THEN /\ side'[p].ua = "updating" /\ side'[p].busy
                /\ Same(side'[p], h, {"ua", "busy"})
                /\ SsutFrom(p, net, "INVITE", "hold")
           ELSE side'[p] = h /\ Quiet
    BY <1>6, <1>9, <2>1, <2>2, <2>3, SendDoes
  <2>5. "hold" \in Bodies /\ AskBody(t) = "hold"
    BY <1>2, <1>9 DEF Bodies, AskBody
  <2>6. AskDone(p, t)
    BY <1>2, <1>3, <1>4, <1>7, <1>8, <1>9, <2>2, <2>3, <2>4, <2>5 DEF AskDone, Same, Fields
  <2>7. QED
    BY <1>2, <2>6
<1>10. CASE scn.cls = "reinv_adelay"
  <2> DEFINE h == [s EXCEPT !.timers = @ \cup {Timer("disconnect", 35)}]
  <2>1. SendReinvite("alice", h, "plain")
    <3>1. AnswerDelay("reinv_adelay") \div 2 = 35
      BY DEF AnswerDelay
    <3>2. HastyReinvite(s)
      BY <1>1, <1>10 DEF s
    <3>3. QED
      BY <3>1, <3>2 DEF HastyReinvite
  <2>2. h \in SideShape /\ Same(h, s, {"timers"})
        /\ h.timers = s.timers \cup {Timer("disconnect", 35)}
    <3>1. "disconnect" \in Callbacks
      BY DEF Callbacks
    <3>2. Timer("disconnect", 35) \in TimerShape
      BY <1>8, <3>1, TimerDoes
    <3>3. QED
      BY <1>4, <3>2 DEF SideShape, Same, Fields
  <2>3. (Left(h) => h.disconnect) /\ (MayReinvite(h) <=> MayReinvite(s))
    BY <1>5, <2>2 DEF Left, MayReinvite, Same, Fields
  <2> HIDE DEF h
  <2>4. /\ Turn(p)
        /\ IF MayReinvite(h)
           THEN /\ side'[p].ua = "updating" /\ side'[p].busy
                /\ Same(side'[p], h, {"ua", "busy"})
                /\ SsutFrom(p, net, "INVITE", "plain")
           ELSE side'[p] = h /\ Quiet
    BY <1>6, <1>10, <2>1, <2>2, <2>3, SendDoes
  <2>5. "plain" \in Bodies /\ AskBody(t) = "plain"
    BY <1>2, <1>10 DEF Bodies, AskBody
  <2>6. AskDone(p, t)
    BY <1>2, <1>3, <1>4, <1>7, <1>8, <1>10, <2>2, <2>3, <2>4, <2>5 DEF AskDone, Same, Fields
  <2>7. QED
    BY <1>2, <2>6
<1>11. CASE scn.cls \notin {"reinv_onhold", "reinv_adelay"}
  <2>1. PICK body \in {"plain", "broken"} :
            /\ SendReinvite(p, s, body) /\ (body = "broken" => scn.cls = "reinv_brkn2")
            /\ body = AskBody(t)
    BY <1>1, <1>2, <1>6, <1>11 DEF BrokenReinvite, s, AskBody
  <2>2. /\ Turn(p)
        /\ IF MayReinvite(s)
           THEN /\ side'[p].ua = "updating" /\ side'[p].busy
                /\ Same(side'[p], s, {"ua", "busy"})
                /\ SsutFrom(p, net, "INVITE", body)
           ELSE side'[p] = s /\ Quiet
    BY <1>4, <1>5, <2>1, SendDoes
  <2>3. body \in Bodies
    BY <2>1 DEF Bodies
  <2>4. AskDone(p, t)
    BY <1>2, <1>3, <1>4, <1>7, <1>8, <1>11, <2>1, <2>2, <2>3 DEF AskDone, Same, Fields
  <2>5. QED
    BY <1>2, <2>4
<1>12. QED
  BY <1>9, <1>10, <1>11

LEMMA OffHoldDoes ==
    ASSUME Typed, Sane, OffHold
    PROVE  \E t : AskDone("alice", t) /\ t.cb = "off_hold"
<1>1. PICK t \in Due("alice", "off_hold") :
         SendReinvite("alice", [Fired("alice", t) EXCEPT !.offs = @ + 1], "plain")
  BY DEF OffHold
<1> DEFINE s == Fired("alice", t)
           h == [s EXCEPT !.offs = @ + 1]
<1>2. t \in alice.timers /\ t.cb = "off_hold" /\ now >= t.at /\ "alice" \in Sides
  BY DEF Due, alice, Sides
<1>3. t \in Asks("alice") /\ "alice" = Reinviter(scn.cls)
  BY <1>2 DEF Asks, Sane, alice
<1>4. /\ s \in SideShape /\ s.timers = alice.timers \ {t} /\ Same(s, alice, {"timers"})
      /\ Left(s) <=> Left(alice)
  BY <1>2, FiredDoes DEF alice
<1>5. now \in Nat /\ alice \in SideShape /\ alice.offs \in Nat /\ alice.holds \in Nat
  BY <1>2, SideTyped DEF SideShape, alice
<1>6. h \in SideShape /\ Same(h, s, {"offs"}) /\ h.offs = s.offs + 1
  <2>1. s.offs + 1 \in Nat
    BY <1>4, CountsTyped
  <2>2. QED
    BY <1>4, <2>1, CountDoes
<1>7. (Left(h) => h.disconnect) /\ (MayReinvite(h) <=> MayReinvite(alice))
  BY <1>2, <1>4, <1>6 DEF Left, MayReinvite, Same, Fields, Sane, alice
<1> HIDE DEF s, h
<1>8. /\ Turn("alice")
      /\ IF MayReinvite(h)
         THEN /\ side'["alice"].ua = "updating" /\ side'["alice"].busy
              /\ Same(side'["alice"], h, {"ua", "busy"})
              /\ SsutFrom("alice", net, "INVITE", "plain")
         ELSE side'["alice"] = h /\ Quiet
  BY <1>1, <1>2, <1>6, <1>7, SendDoes DEF h, s
<1>9. "plain" \in Bodies /\ AskBody(t) = "plain"
  BY <1>2 DEF Bodies, AskBody
<1>10. AskDone("alice", t)
  BY <1>2, <1>3, <1>4, <1>5, <1>6, <1>7, <1>8, <1>9 DEF AskDone, Same, Fields, alice
<1>11. QED
  BY <1>2, <1>10

\* Bob answers, or the call is no longer there.
ConnectDone(t) ==
    /\ t \in bob.timers /\ t.cb = "connect" /\ now >= t.at /\ Turn("bob")
    /\ IF bob.connect \/ bob.disconnect
       THEN /\ side'["bob"].timers = bob.timers \ {t}
            /\ Same(side'["bob"], bob, {"timers"}) /\ Quiet
       ELSE /\ side'["bob"].timers =
                   (bob.timers \ {t})
                   \cup {Timer("disconnect", DisconnectIval("bob", scn.cls))}
            /\ side'["bob"].connect /\ side'["bob"].ua = "up"
            /\ Same(side'["bob"], bob, {"timers", "connect", "ua"})
            /\ SsutFrom("bob", net, "answer", "plain")

LEMMA ConnectDoes ==
    ASSUME Typed, Sane, Connect
    PROVE  \E t : ConnectDone(t)
<1>1. PICK t \in Due("bob", "connect") :
         LET s == Fired("bob", t)
         IN  IF s.connect \/ s.disconnect
             THEN Keep("bob", s, net)
             ELSE Hand("bob",
                       [s EXCEPT !.connect = TRUE,
                                 !.timers = @ \cup {Timer("disconnect",
                                              DisconnectIval("bob", scn.cls))}],
                       net, "answer", "plain", "up")
  BY DEF Connect
<1> DEFINE s == Fired("bob", t)
           new == Timer("disconnect", DisconnectIval("bob", scn.cls))
           h == [s EXCEPT !.connect = TRUE, !.timers = @ \cup {new}]
<1>2. t \in bob.timers /\ t.cb = "connect" /\ now >= t.at /\ "bob" \in Sides
  BY DEF Due, bob, Sides
<1>3. /\ s \in SideShape /\ s.timers = bob.timers \ {t} /\ Same(s, bob, {"timers"})
      /\ Left(s) <=> Left(bob)
  BY <1>2, FiredDoes DEF bob
<1>4. new \in TimerShape
  <2>1. "disconnect" \in Callbacks /\ now \in Nat /\ DisconnectIval("bob", scn.cls) \in Nat
    BY <1>2, SideTyped, Literals DEF Callbacks
  <2>2. QED
    BY <2>1, TimerDoes
<1>5. IF s.connect \/ s.disconnect
      THEN Keep("bob", s, net)
      ELSE Hand("bob", h, net, "answer", "plain", "up")
  BY <1>1
<1> HIDE DEF s, new
<1>6. (s.connect <=> bob.connect) /\ (s.disconnect <=> bob.disconnect)
  BY <1>3 DEF Same, Fields
<1>7. CASE bob.connect \/ bob.disconnect
  BY <1>2, <1>3, <1>5, <1>6, <1>7, KeepDoes DEF ConnectDone, Quiet
<1>8. CASE ~(bob.connect \/ bob.disconnect)
  <2>1. h \in SideShape /\ h.connect /\ h.timers = s.timers \cup {new}
        /\ Same(h, s, {"connect", "timers"})
    BY <1>3, <1>4 DEF SideShape, Same, Fields
  <2> HIDE DEF h
  <2>2. ~Left(h)
    BY <1>2, <1>3, <1>8, <2>1 DEF Sane, Left, Same, Fields, bob
  <2>3. "up" \in Agents \ {"ended"}
    BY DEF Agents
  <2>4. /\ Turn("bob") /\ SsutFrom("bob", net, "answer", "plain")
        /\ side'["bob"].ua = "up" /\ Same(side'["bob"], h, {"ua"})
    BY <1>2, <1>5, <1>6, <1>8, <2>1, <2>2, <2>3, HandDoes
  <2>5. QED
    BY <1>2, <1>3, <1>8, <2>1, <2>4 DEF ConnectDone, Same, Fields, new
<1>9. QED
  BY <1>7, <1>8

\* Bob of reinv_adelay answers at last, or is no longer there.
LateDone(p, t) ==
    /\ t \in Owed(p) /\ now >= t.at /\ Turn(p)
    /\ side'[p].timers = side[p].timers \ {t}
    /\ IF Left(side[p])
       THEN Same(side'[p], side[p], {"timers", "late"}) /\ Quiet
       ELSE /\ side'[p].ua = "up" /\ Same(side'[p], side[p], {"timers", "ua"})
            /\ SsutFrom(p, net, "200", "plain")

LEMMA AnswerLateDoes ==
    ASSUME Typed, NEW p \in Sides, AnswerLate(p)
    PROVE  \E t : LateDone(p, t)
<1>1. PICK t \in Due(p, "process_reinvite") :
         Hand(p, Fired(p, t), net, "200", "plain", "up")
  BY DEF AnswerLate
<1> DEFINE s == Fired(p, t)
<1>2. t \in side[p].timers /\ now >= t.at /\ t \in Owed(p)
  BY DEF Due, Owed
<1>3. /\ s \in SideShape /\ s.timers = side[p].timers \ {t} /\ Same(s, side[p], {"timers"})
      /\ Left(s) <=> Left(side[p])
  BY <1>2, FiredDoes
<1> HIDE DEF s
<1>4. CASE Left(s)
  <2> DEFINE h == [s EXCEPT !.late = TRUE]
  <2>1. Keep(p, h, net)
    BY <1>1, <1>4 DEF Hand, Keep, s
  <2>2. h \in SideShape /\ Same(h, s, {"late"})
    BY <1>3 DEF SideShape, Same, Fields
  <2> HIDE DEF h
  <2>3. Turn(p) /\ side'[p] = h /\ Quiet
    BY <2>1, <2>2, KeepDoes DEF Quiet
  <2>4. QED
    BY <1>2, <1>3, <1>4, <2>2, <2>3 DEF LateDone, Same, Fields
<1>5. CASE ~Left(s)
  <2>1. "up" \in Agents \ {"ended"}
    BY DEF Agents
  <2>2. /\ Turn(p) /\ SsutFrom(p, net, "200", "plain")
        /\ side'[p].ua = "up" /\ Same(side'[p], s, {"ua"})
    BY <1>1, <1>3, <1>5, <2>1, HandDoes DEF s
  <2>3. QED
    BY <1>2, <1>3, <1>5, <2>2 DEF LateDone, Same, Fields
<1>6. QED
  BY <1>4, <1>5

\* A side hangs up; or it has left; or Alice of reinv_bad_ack has waited in
\* vain; or Alice of reinv_onhold has not sent everything.
Polls(p) == p = "alice" /\ scn.cls = "reinv_onhold" /\ ~OnHoldOver(alice)
HangDone(p, t) ==
    /\ t \in side[p].timers /\ t.cb = "disconnect" /\ now >= t.at /\ Turn(p)
    /\ \/ /\ Left(side[p])
          /\ side'[p].timers = side[p].timers \ {t}
          /\ Same(side'[p], side[p], {"timers"}) /\ Quiet
       \/ /\ ~Left(side[p]) /\ p = "alice" /\ scn.cls = "reinv_bad_ack"
          /\ side'[p].timers = side[p].timers \ {t} /\ side'[p].nerrs = side[p].nerrs + 1
          /\ Same(side'[p], side[p], {"timers", "nerrs"}) /\ Quiet
       \/ /\ ~Left(side[p]) /\ Polls(p)
          /\ side'[p].timers = (side[p].timers \ {t}) \cup {Timer("disconnect", 100)}
          /\ Same(side'[p], side[p], {"timers"}) /\ Quiet
       \/ /\ ~Left(side[p]) /\ ~(p = "alice" /\ scn.cls = "reinv_bad_ack") /\ ~Polls(p)
          /\ side'[p].timers = side[p].timers \ {t}
          /\ side'[p].ua = "ended" /\ side'[p].ended = now /\ side'[p].disconnect
          /\ Same(side'[p], side[p], {"timers", "ua", "ended", "disconnect"})
          /\ SsutFrom(p, net, "BYE", "none")

LEMMA HangUpDoes ==
    ASSUME Typed, NEW p \in Sides, NEW s \in SideShape, HangUp(p, s),
           Left(s) <=> s.disconnect
    PROVE  /\ Turn(p)
           /\ IF Left(s) THEN side'[p] = s /\ Quiet
              ELSE /\ side'[p].ua = "ended" /\ side'[p].ended = now /\ side'[p].disconnect
                   /\ Same(side'[p], s, {"ua", "ended", "disconnect"})
                   /\ SsutFrom(p, net, "BYE", "none")
<1>1. CASE s.disconnect
  BY <1>1, KeepDoes DEF HangUp, Quiet
<1>2. CASE ~s.disconnect
  BY <1>2, LeaveDoes DEF HangUp
<1>3. QED
  BY <1>1, <1>2

LEMMA DisconnectDoes ==
    ASSUME Typed, Sane, NEW p \in Sides, Disconnect(p)
    PROVE  \E t : HangDone(p, t)
<1>1. PICK t \in Due(p, "disconnect") :
         LET s == Fired(p, t)
         IN  CASE p = "alice" /\ scn.cls = "reinv_bad_ack" -> GiveUpOnAck(s)
               [] p = "alice" /\ scn.cls = "reinv_onhold" -> PollHolds(s)
               [] OTHER -> HangUp(p, s)
  BY DEF Disconnect
<1> DEFINE s == Fired(p, t)
<1>2. t \in side[p].timers /\ t.cb = "disconnect" /\ now >= t.at
  BY DEF Due
<1>3. /\ s \in SideShape /\ s.timers = side[p].timers \ {t} /\ Same(s, side[p], {"timers"})
      /\ Left(s) <=> Left(side[p])
  BY <1>2, FiredDoes
<1>4. (CASE p = "alice" /\ scn.cls = "reinv_bad_ack" -> GiveUpOnAck(s)
         [] p = "alice" /\ scn.cls = "reinv_onhold" -> PollHolds(s)
         [] OTHER -> HangUp(p, s))
  BY <1>1
<1> HIDE DEF s
<1>5. Left(s) <=> s.disconnect
  BY <1>3 DEF Sane, Same, Fields
<1>6. p = "alice" => (OnHoldOver(s) <=> OnHoldOver(alice))
  BY <1>3 DEF OnHoldOver, Same, Fields, alice
<1>7. ASSUME HangUp(p, s),
             Left(s) \/ (~(p = "alice" /\ scn.cls = "reinv_bad_ack") /\ ~Polls(p))
      PROVE  HangDone(p, t)
  <2>1. /\ Turn(p)
        /\ IF Left(s) THEN side'[p] = s /\ Quiet
           ELSE /\ side'[p].ua = "ended" /\ side'[p].ended = now /\ side'[p].disconnect
                /\ Same(side'[p], s, {"ua", "ended", "disconnect"})
                /\ SsutFrom(p, net, "BYE", "none")
    BY <1>3, <1>5, <1>7, HangUpDoes
  <2>2. QED
    BY <1>2, <1>3, <1>7, <2>1 DEF HangDone, Same, Fields
<1>8. CASE p = "alice" /\ scn.cls = "reinv_bad_ack"
  <2>1. GiveUpOnAck(s)
    BY <1>4, <1>8
  <2>2. CASE s.disconnect
    BY <1>5, <1>7, <1>8, <2>1, <2>2 DEF GiveUpOnAck
  <2>3. CASE ~s.disconnect
    <3> DEFINE h == [s EXCEPT !.nerrs = s.nerrs + 1]
    <3>1. Keep("alice", h, net)
      BY <2>1, <2>3 DEF GiveUpOnAck
    <3>2. h \in SideShape /\ h.nerrs = s.nerrs + 1 /\ Same(h, s, {"nerrs"})
      <4>1. s.nerrs + 1 \in Nat
        BY <1>3, CountsTyped
      <4>2. QED
        BY <1>3, <4>1, CountDoes
    <3> HIDE DEF h
    <3>3. Turn(p) /\ side'[p] = h /\ Quiet
      BY <1>8, <3>1, <3>2, KeepDoes DEF Quiet
    <3>4. ~Left(side[p])
      BY <1>3, <1>5, <2>3
    <3>5. QED
      BY <1>2, <1>3, <1>8, <3>2, <3>3, <3>4 DEF HangDone, Same, Fields
  <2>4. QED
    BY <2>2, <2>3
<1>9. CASE p = "alice" /\ scn.cls = "reinv_onhold"
  <2>1. PollHolds(s) /\ scn.cls # "reinv_bad_ack"
    BY <1>4, <1>9
  <2>2. CASE s.disconnect \/ OnHoldOver(s)
    BY <1>5, <1>6, <1>7, <1>9, <2>1, <2>2 DEF PollHolds, Polls
  <2>3. CASE ~(s.disconnect \/ OnHoldOver(s))
    <3> DEFINE v == s.timers \cup {Timer("disconnect", 100)}
               h == [s EXCEPT !.timers = v]
    <3>1. Keep("alice", h, net)
      BY <2>1, <2>3 DEF PollHolds
    <3>2. v \in SUBSET TimerShape
      <4>1. "disconnect" \in Callbacks /\ now \in Nat /\ 100 \in Nat
        BY SideTyped DEF Callbacks
      <4>2. Timer("disconnect", 100) \in TimerShape
        BY <4>1, TimerDoes
      <4>3. QED
        BY <1>3, <4>2 DEF SideShape
    <3> HIDE DEF v
    <3>3. h \in SideShape /\ h.timers = v /\ Same(h, s, {"timers"})
      BY <1>3, <3>2, TimersDoes
    <3> HIDE DEF h
    <3>4. Turn(p) /\ side'[p] = h /\ Quiet
      BY <1>9, <3>1, <3>3, KeepDoes DEF Quiet
    <3>5. ~Left(side[p]) /\ Polls(p)
      BY <1>3, <1>5, <1>6, <1>9, <2>3 DEF Polls
    <3>6. QED
      BY <1>2, <1>3, <1>9, <3>3, <3>4, <3>5 DEF HangDone, Same, Fields, v
  <2>4. QED
    BY <2>2, <2>3
<1>10. CASE p # "alice" \/ scn.cls \notin {"reinv_bad_ack", "reinv_onhold"}
  BY <1>4, <1>7, <1>10 DEF Polls
<1>11. QED
  BY <1>8, <1>9, <1>10

LEMMA TakenDoes ==
    ASSUME Typed, NEW p \in Sides, net[p] # <<>>
    PROVE  /\ Taken(p) \in Nets /\ Taken(p)[p] = Tail(net[p])
           /\ \A q \in Sides \ {p} : Taken(p)[q] = net[q]
           /\ Head(net[p]) \in MsgShape /\ Head(net[p]).body \in Bodies
           /\ Head(net[p]) = net[p][1] /\ 1 \in 1..Len(net[p])
           /\ Len(Tail(net[p])) = Len(net[p]) - 1 /\ Len(net[p]) \in Nat
           /\ \A i \in 1..Len(Tail(net[p])) :
                  i + 1 \in 1..Len(net[p]) /\ Tail(net[p])[i] = net[p][i + 1]
<1>1. net[p] \in Seq(MsgShape) /\ net \in Nets
  BY SideTyped
<1>2. Tail(net[p]) \in Seq(MsgShape) /\ Head(net[p]) \in MsgShape
  BY <1>1
<1>3. Taken(p) \in Nets /\ Taken(p)[p] = Tail(net[p])
      /\ \A q \in Sides \ {p} : Taken(p)[q] = net[q]
  BY <1>1, <1>2 DEF Taken, Nets
<1>4. Head(net[p]).body \in Bodies
  BY <1>2 DEF MsgShape
<1>5. /\ Head(net[p]) = net[p][1] /\ 1 \in 1..Len(net[p])
      /\ Len(Tail(net[p])) = Len(net[p]) - 1 /\ Len(net[p]) \in Nat
      /\ \A i \in 1..Len(Tail(net[p])) :
             i + 1 \in 1..Len(net[p]) /\ Tail(net[p])[i] = net[p][i + 1]
  BY <1>1
<1>6. QED
  BY <1>2, <1>3, <1>4, <1>5

\* Alice hears that Bob has answered, or has left.
ConnectedDone ==
    /\ Arrives("alice", "answer") /\ Takes("alice") /\ Turn("alice")
    /\ IF alice.ua = "ringing"
       THEN /\ side'["alice"].ua = "up" /\ side'["alice"].connect
            /\ side'["alice"].timers =
                   alice.timers
                   \cup {Timer("disconnect", DisconnectIval("alice", scn.cls))}
                   \cup (IF Reinviter(scn.cls) = "alice"
                         THEN {Timer("reinvite", ReinviteIval(scn.cls))} ELSE {})
            /\ Same(side'["alice"], alice, {"timers", "ua", "connect"})
       ELSE side'["alice"] = alice

LEMMA ConnectedDoes ==
    ASSUME Typed, Connected
    PROVE  ConnectedDone
<1> DEFINE v == alice.timers
               \cup {Timer("disconnect", DisconnectIval("alice", scn.cls))}
               \cup (IF Reinviter(scn.cls) = "alice"
                     THEN {Timer("reinvite", ReinviteIval(scn.cls))} ELSE {})
           h == [alice EXCEPT !.ua = "up", !.connect = TRUE, !.timers = v]
<1>1. Arrives("alice", "answer")
      /\ Keep("alice", IF alice.ua = "ringing" THEN h ELSE alice, Taken("alice"))
  BY DEF Connected, alice
<1>2. "alice" \in Sides /\ now \in Nat /\ scn.cls \in ReinviteClasses /\ alice \in SideShape
  BY SideTyped DEF Sides, alice
<1>3. v \in SUBSET TimerShape
  <2>1. "disconnect" \in Callbacks /\ "reinvite" \in Callbacks
    BY DEF Callbacks
  <2>2. Timer("disconnect", DisconnectIval("alice", scn.cls)) \in TimerShape
    BY <1>2, <2>1, Literals, TimerDoes
  <2>3. Timer("reinvite", ReinviteIval(scn.cls)) \in TimerShape
    BY <1>2, <2>1, Literals, TimerDoes
  <2>4. alice.timers \in SUBSET TimerShape
    BY <1>2 DEF SideShape
  <2>5. QED
    BY <2>2, <2>3, <2>4
<1> HIDE DEF v
<1>4. h \in SideShape /\ h.ua = "up" /\ h.connect /\ h.timers = v
      /\ Same(h, alice, {"timers", "ua", "connect"})
  BY <1>2, <1>3 DEF SideShape, Same, Fields, Agents
<1> HIDE DEF h
<1>5. Turn("alice") /\ side'["alice"] = (IF alice.ua = "ringing" THEN h ELSE alice)
      /\ Takes("alice")
  BY <1>1, <1>2, <1>4, KeepDoes DEF Takes
<1>6. QED
  BY <1>1, <1>4, <1>5 DEF ConnectedDone, v

\* What a side notes of a re-INVITE.
Counts(r, s, body) ==
    /\ r.holds = s.holds + (IF body = "hold" THEN 1 ELSE 0)
    /\ r.offs = s.offs + (IF body = "hold" THEN 0 ELSE 1)
NoteDone(p, s, body) ==
    /\ s \in SideShape /\ Same(s, side[p], {"holds", "offs", "ruri"})
    /\ IF p = "bob" /\ scn.cls = "reinv_onhold"
       THEN s.holds + s.offs = side[p].holds + side[p].offs + 1 /\ Counts(s, side[p], body)
       ELSE s.holds = side[p].holds /\ s.offs = side[p].offs

LEMMA NotedDoes ==
    ASSUME Typed, NEW p \in Sides, NEW body
    PROVE  NoteDone(p, Noted(p, side[p], body), body)
<1> DEFINE s == side[p]
<1>1. s \in SideShape /\ scn.cls \in ReinviteClasses
  BY SideTyped
<1>2. /\ s.holds \in Nat /\ s.holds + 1 \in Nat /\ s.offs \in Nat /\ s.offs + 1 \in Nat
  BY <1>1, CountsTyped
<1> HIDE DEF s
<1>3. CASE p = "bob" /\ scn.cls = "reinv_onhold"
  <2>1. Noted(p, s, body) = CountHold(s, body)
    BY <1>3 DEF Noted
  <2>2. CASE body = "hold"
    <3>1. /\ CountHold(s, body) = [s EXCEPT !.holds = s.holds + 1]
      BY <2>2 DEF CountHold
    <3>2. /\ CountHold(s, body) \in SideShape /\ CountHold(s, body).holds = s.holds + 1
          /\ Same(CountHold(s, body), s, {"holds"})
      <4>1. \A v \in Nat :
                LET r == [s EXCEPT !.holds = v]
                IN  r \in SideShape /\ r.holds = v /\ Same(r, s, {"holds"})
        BY <1>1, CountDoes
      <4>2. QED
        BY <1>2, <3>1, <4>1
    <3>3. QED
      BY <1>2, <1>3, <2>1, <2>2, <3>2 DEF NoteDone, Counts, Same, Fields, s
  <2>3. CASE body # "hold"
    <3>1. /\ CountHold(s, body) = [s EXCEPT !.offs = s.offs + 1]
      BY <2>3 DEF CountHold
    <3>2. /\ CountHold(s, body) \in SideShape /\ CountHold(s, body).offs = s.offs + 1
          /\ Same(CountHold(s, body), s, {"offs"})
      <4>1. \A v \in Nat :
                LET r == [s EXCEPT !.offs = v]
                IN  r \in SideShape /\ r.offs = v /\ Same(r, s, {"offs"})
        BY <1>1, CountDoes
      <4>2. QED
        BY <1>2, <3>1, <4>1
    <3>3. QED
      BY <1>2, <1>3, <2>1, <2>3, <3>2 DEF NoteDone, Counts, Same, Fields, s
  <2>4. QED
    BY <2>2, <2>3
<1>4. CASE p = "alice" /\ scn.cls = "nated_contact"
  <2>1. Noted(p, s, body) = TrackRuri(s)
    BY <1>4 DEF Noted
  <2>2. TrackRuri(s) \in SideShape /\ Same(TrackRuri(s), s, {"ruri"})
    BY <1>1 DEF TrackRuri, SideShape, Same, Fields
  <2>3. QED
    BY <1>4, <2>1, <2>2 DEF NoteDone, Same, Fields, s
<1>5. CASE ~(p = "bob" /\ scn.cls = "reinv_onhold") /\ ~(p = "alice" /\ scn.cls = "nated_contact")
  <2>1. Noted(p, s, body) = s
    BY <1>5 DEF Noted
  <2>2. QED
    BY <1>1, <1>5, <2>1 DEF NoteDone, Same, s
<1>6. QED
  BY <1>3, <1>4, <1>5 DEF s

\* A re-INVITE reaches p, who answers it, refuses it, or has left.
InviteDone(p) ==
    /\ Arrives(p, "INVITE") /\ Turn(p)
    /\ \/ Left(side[p]) /\ side'[p] = side[p] /\ Takes(p)
       \/ /\ ~Left(side[p])
          /\ Same(side'[p], side[p], {"ua", "timers", "holds", "offs", "ruri"})
          /\ IF p = "bob" /\ scn.cls = "reinv_onhold"
             THEN /\ side'[p].holds + side'[p].offs = side[p].holds + side[p].offs + 1
                  /\ Counts(side'[p], side[p], Head(net[p]).body)
             ELSE side'[p].holds = side[p].holds /\ side'[p].offs = side[p].offs
          /\ \/ /\ scn.cls = "reinv_adelay" /\ side'[p].ua = "asked"
                /\ side'[p].timers = side[p].timers \cup {Timer("process_reinvite", 70)}
                /\ Takes(p)
             \/ /\ scn.cls # "reinv_adelay" /\ side'[p].ua = "up"
                /\ side'[p].timers = side[p].timers
                /\ \/ scn.cls = "reinv_fail" /\ SsutFrom(p, Taken(p), "refuse", "none")
                   \/ scn.cls = "reinv_brkn1" /\ SsutFrom(p, Taken(p), "200", "broken")
                   \/ scn.cls \notin {"reinv_fail", "reinv_brkn1"}
                      /\ SsutFrom(p, Taken(p), "200", "plain")

LEMMA ReceiveReinviteDoes ==
    ASSUME Typed, NEW p \in Sides, ReceiveReinvite(p)
    PROVE  InviteDone(p)
<1> DEFINE s == Noted(p, side[p], Head(net[p]).body)
<1>1. /\ Arrives(p, "INVITE")
      /\ (CASE Left(side[p]) -> Keep(p, side[p], Taken(p))
            [] ~Left(side[p]) /\ scn.cls = "reinv_fail" -> RefuseReinvite(p, s)
            [] ~Left(side[p]) /\ scn.cls = "reinv_brkn1" -> AnswerBroken(p, s)
            [] OTHER -> ProcessReinvite(p, s))
  BY DEF ReceiveReinvite
<1>2. NoteDone(p, s, Head(net[p]).body) /\ side[p] \in SideShape /\ scn.cls \in ReinviteClasses /\ now \in Nat
  BY SideTyped, NotedDoes
<1> HIDE DEF s
<1>3. CASE Left(side[p])
  BY <1>1, <1>2, <1>3, KeepDoes DEF InviteDone, Takes
<1>4. CASE ~Left(side[p])
  <2>1. ~Left(s) /\ s \in SideShape
    BY <1>2, <1>4 DEF NoteDone, Left, Same, Fields
  <2>2. CASE scn.cls = "reinv_adelay"
    <3> DEFINE h == [s EXCEPT !.ua = "asked",
                              !.timers = @ \cup {Timer("process_reinvite", 70)}]
    <3>1. Keep(p, h, Taken(p))
      <4>1. AnswerDelay(scn.cls) = 70 /\ AnswerDelay(scn.cls) > 0
        BY <2>2, Literals
      <4>2. ProcessReinvite(p, s)
        BY <1>1, <1>4, <2>2
      <4>3. QED
        BY <4>1, <4>2 DEF ProcessReinvite
    <3>2. Timer("process_reinvite", 70) \in TimerShape
      <4>1. "process_reinvite" \in Callbacks
        BY DEF Callbacks
      <4>2. QED
        BY <1>2, <4>1, TimerDoes
    <3>3. h \in SideShape /\ h.ua = "asked" /\ Same(h, s, {"ua", "timers"})
          /\ h.timers = s.timers \cup {Timer("process_reinvite", 70)}
      BY <2>1, <3>2 DEF SideShape, Same, Fields, Agents
    <3> HIDE DEF h
    <3>4. Turn(p) /\ side'[p] = h /\ Takes(p)
      BY <3>1, <3>3, KeepDoes DEF Takes
    <3>5. QED
      BY <1>1, <1>2, <1>4, <2>2, <3>3, <3>4 DEF InviteDone, NoteDone, Counts, Same, Fields
  <2>3. CASE scn.cls # "reinv_adelay"
    <3>1. PICK kind, body :
             /\ Hand(p, s, Taken(p), kind, body, "up")
             /\ \/ scn.cls = "reinv_fail" /\ kind = "refuse" /\ body = "none"
                \/ scn.cls = "reinv_brkn1" /\ kind = "200" /\ body = "broken"
                \/ scn.cls \notin {"reinv_fail", "reinv_brkn1"}
                   /\ kind = "200" /\ body = "plain"
      <4>1. CASE scn.cls = "reinv_fail"
        BY <1>1, <1>4, <4>1 DEF RefuseReinvite
      <4>2. CASE scn.cls = "reinv_brkn1"
        BY <1>1, <1>4, <4>2 DEF AnswerBroken
      <4>3. CASE scn.cls \notin {"reinv_fail", "reinv_brkn1"}
        <5>1. ~(AnswerDelay(scn.cls) > 0)
          BY <1>2, <2>3, Literals
        <5>2. QED
          BY <1>1, <1>4, <4>3, <5>1 DEF ProcessReinvite
      <4>4. QED
        BY <4>1, <4>2, <4>3
    <3>2. "up" \in Agents \ {"ended"}
      BY DEF Agents
    <3>3. /\ Turn(p) /\ SsutFrom(p, Taken(p), kind, body)
          /\ side'[p].ua = "up" /\ Same(side'[p], s, {"ua"})
      BY <2>1, <3>1, <3>2, HandDoes
    <3>4. QED
      BY <1>1, <1>2, <1>4, <2>3, <3>1, <3>3 DEF InviteDone, NoteDone, Counts, Same, Fields
  <2>4. QED
    BY <2>2, <2>3
<1>5. QED
  BY <1>3, <1>4

\* The next interval of reinv_onhold becomes a timer.
HoldDone(r, s) ==
    IF s.sched = <<>> THEN r.timers = s.timers /\ r.sched = s.sched
    ELSE /\ r.sched \in Seq(Nat) /\ Len(r.sched) = Len(s.sched) - 1
         /\ r.sched = SubSeq(s.sched, 1, Len(s.sched) - 1)
         /\ \E ival \in Nat :
                /\ ival = s.sched[Len(s.sched)]
                /\ r.timers = s.timers
                      \cup {Timer(IF s.holds > s.offs THEN "off_hold" ELSE "reinvite", ival)}

LEMMA NextHoldDoes ==
    ASSUME Typed, NEW s \in SideShape
    PROVE  /\ NextHold(s) \in SideShape /\ Same(NextHold(s), s, {"timers", "sched"})
           /\ HoldDone(NextHold(s), s)
<1>1. CASE s.sched = <<>>
  BY <1>1, SameSelf DEF NextHold, HoldDone
<1>2. CASE s.sched # <<>>
  <2> DEFINE cb == IF s.holds > s.offs THEN "off_hold" ELSE "reinvite"
             ival == s.sched[Len(s.sched)]
             rest == SubSeq(s.sched, 1, Len(s.sched) - 1)
             v == s.timers \cup {Timer(cb, ival)}
  <2>1. s.sched \in Seq(Nat) /\ s.timers \in SUBSET TimerShape /\ now \in Nat
    BY DEF SideShape, Typed
  <2>2. ival \in Nat /\ rest \in Seq(Nat) /\ Len(rest) = Len(s.sched) - 1
    BY <1>2, <2>1
  <2>3. cb \in Callbacks
    BY DEF Callbacks
  <2>4. NextHold(s) = [s EXCEPT !.sched = rest, !.timers = v]
    BY <1>2 DEF NextHold
  <2> HIDE DEF cb, ival, rest
  <2>5. v \in SUBSET TimerShape
    BY <2>1, <2>2, <2>3, TimerDoes
  <2> HIDE DEF v
  <2>6. LET r == [s EXCEPT !.sched = rest, !.timers = v]
        IN  r \in SideShape /\ r.sched = rest /\ r.timers = v
            /\ Same(r, s, {"timers", "sched"})
    BY <2>2, <2>5 DEF SideShape, Same, Fields
  <2>7. HoldDone(NextHold(s), s)
    BY <1>2, <2>2, <2>4, <2>6 DEF HoldDone, v, cb, rest, ival
  <2>8. QED
    BY <2>4, <2>6, <2>7
<1>3. QED
  BY <1>1, <1>2

LEMMA CompareDoes ==
    ASSUME NEW s \in SideShape
    PROVE  /\ CompareRuri(s) \in SideShape /\ Same(CompareRuri(s), s, {"nerrs"})
           /\ CompareRuri(s).nerrs >= s.nerrs /\ s.nerrs \in Nat
<1>1. s.nerrs \in Nat /\ s.nerrs + 1 \in Nat
  BY CountsTyped
<1>2. CASE s.ruri = "contact"
  BY <1>1, <1>2, SameSelf DEF CompareRuri
<1>3. CASE s.ruri # "contact"
  <2> DEFINE v == s.nerrs + 1
  <2>1. CompareRuri(s) = [s EXCEPT !.nerrs = v]
    BY <1>3 DEF CompareRuri
  <2>2. v \in Nat /\ v >= s.nerrs
    BY <1>1
  <2> HIDE DEF v
  <2>3. QED
    BY <1>1, <2>1, <2>2, CountDoes
<1>4. QED
  BY <1>2, <1>3

\* What an answer to its re-INVITE does to side p.
Answered(p, body) ==
    LET s == side[p]
        r == side'[p]
    IN  /\ r.ua = "up" /\ r.nerrs >= s.nerrs
        /\ \/ /\ p = "alice" /\ scn.cls \in Refused
              /\ r.nerrs = s.nerrs + 1 /\ Same(r, s, {"ua", "nerrs"})
           \/ /\ p = "alice" /\ scn.cls \notin Refused /\ body = "raw"
              /\ r.nerrs = s.nerrs + 1 /\ ~r.busy /\ Same(r, s, {"ua", "nerrs", "busy"})
           \/ /\ ~(p = "alice" /\ (scn.cls \in Refused \/ body = "raw"))
              /\ ~r.busy /\ r.done
              /\ \/ /\ p = "alice" /\ scn.cls = "reinv_onhold" /\ HoldDone(r, s)
                    /\ Same(r, s, {"ua", "busy", "done", "timers", "sched"})
                 \/ /\ p = "alice" /\ scn.cls = "nated_contact"
                    /\ Same(r, s, {"ua", "busy", "done", "nerrs"})
                 \/ /\ ~(p = "alice" /\ scn.cls \in {"reinv_onhold", "nated_contact"})
                    /\ Same(r, s, {"ua", "busy", "done"})

OkDone(p) ==
    /\ Arrives(p, "200") /\ Turn(p) /\ net' = Taken(p)
    /\ \/ ssut' = ssut
       \/ /\ ssut.leg = "up" /\ scn.cls = "reinv_bad_ack" /\ scn.fault # "tolerate"
          /\ ssut' = [ssut EXCEPT !.ackby = now + AckTimeout]
    /\ (p = "alice" /\ scn.cls = "reinv_bad_ack" /\ scn.fault # "tolerate"
        /\ ssut.leg = "up" /\ side[p].ua = "updating")
           => ssut' = [ssut EXCEPT !.ackby = now + AckTimeout]
    /\ \/ side[p].ua # "updating" /\ side'[p] = side[p] /\ ssut' = ssut
       \/ side[p].ua = "updating" /\ Answered(p, Head(net[p]).body)

LEMMA AnsweredReinviteDoes ==
    ASSUME Typed, NEW p \in Sides, NEW body,
           side' = [side EXCEPT ![p] = AnsweredReinvite(p, [side[p] EXCEPT !.ua = "up"], body)]
    PROVE  Turn(p) /\ Answered(p, body)
<1> DEFINE s == [side[p] EXCEPT !.ua = "up"]
           a == AnsweredReinvite(p, s, body)
           g == [s EXCEPT !.busy = FALSE, !.done = TRUE]
           b == [s EXCEPT !.busy = FALSE, !.nerrs = s.nerrs + 1]
<1>1. side[p] \in SideShape /\ "up" \in Agents
  BY SideTyped DEF Agents
<1>2. s \in SideShape /\ s.ua = "up" /\ Same(s, side[p], {"ua"})
  BY <1>1, AgentDoes
<1>3. side'[p] = a /\ (a \in SideShape => Turn(p))
  BY DEF Typed, Turn
<1> HIDE DEF s
<1>4. s.nerrs \in Nat /\ s.nerrs + 1 \in Nat /\ s.nerrs = side[p].nerrs
  BY <1>2, CountsTyped DEF Same, Fields
<1>5. CASE p = "alice" /\ scn.cls \in Refused
  <2>1. a = [s EXCEPT !.nerrs = s.nerrs + 1]
    BY <1>5 DEF AnsweredReinvite
  <2> HIDE DEF a
  <2>2. a \in SideShape /\ a.nerrs = s.nerrs + 1 /\ Same(a, s, {"nerrs"})
    BY <1>2, <1>4, <2>1, CountDoes
  <2>3. QED
    BY <1>2, <1>3, <1>4, <1>5, <2>2 DEF Answered, Same, Fields
<1>6. CASE p = "alice" /\ scn.cls \notin Refused /\ body = "raw"
  <2>1. a = b
    BY <1>6 DEF AnsweredReinvite
  <2> DEFINE v == s.nerrs + 1
             c == [s EXCEPT !.busy = FALSE, !.nerrs = v]
  <2>2. b = c /\ v \in Nat
    BY <1>4
  <2> HIDE DEF a, b, v
  <2>3. c \in SideShape /\ c.nerrs = v /\ ~c.busy /\ Same(c, s, {"nerrs", "busy"})
    BY <1>2, <2>2 DEF SideShape, Same, Fields
  <2> HIDE DEF c
  <2>4. QED
    BY <1>2, <1>3, <1>4, <1>6, <2>1, <2>2, <2>3 DEF Answered, Same, Fields, v
<1>7. CASE ~(p = "alice" /\ (scn.cls \in Refused \/ body = "raw"))
  <2>1. a = OnReinviteConnected(p, g)
    BY <1>7 DEF AnsweredReinvite
  <2>2. g \in SideShape /\ ~g.busy /\ g.done /\ Same(g, s, {"busy", "done"})
    BY <1>2 DEF SideShape, Same, Fields
  <2> HIDE DEF a, g
  <2>3. CASE p = "alice" /\ scn.cls = "reinv_onhold"
    <3>1. a = NextHold(g)
      BY <2>1, <2>3 DEF OnReinviteConnected
    <3>2. a \in SideShape /\ Same(a, g, {"timers", "sched"}) /\ HoldDone(a, g)
      BY <2>2, <3>1, NextHoldDoes
    <3>3. HoldDone(a, side[p])
      <4>1. /\ g.sched = side[p].sched /\ g.timers = side[p].timers
            /\ g.holds = side[p].holds /\ g.offs = side[p].offs
        BY <1>2, <2>2 DEF Same, Fields
      <4>2. QED
        BY <3>2, <4>1 DEF HoldDone
    <3>4. QED
      BY <1>2, <1>3, <1>4, <1>7, <2>2, <2>3, <3>2, <3>3 DEF Answered, Same, Fields
  <2>4. CASE p = "alice" /\ scn.cls = "nated_contact"
    <3>1. a = CompareRuri(g)
      BY <2>1, <2>4 DEF OnReinviteConnected
    <3>2. a \in SideShape /\ Same(a, g, {"nerrs"}) /\ a.nerrs >= g.nerrs
      BY <2>2, <3>1, CompareDoes
    <3>3. QED
      BY <1>2, <1>3, <1>4, <1>7, <2>2, <2>4, <3>2 DEF Answered, Same, Fields
  <2>5. CASE ~(p = "alice" /\ scn.cls \in {"reinv_onhold", "nated_contact"})
    <3>1. a = g
      BY <2>1, <2>5 DEF OnReinviteConnected
    <3>2. QED
      BY <1>2, <1>3, <1>4, <1>7, <2>2, <2>5, <3>1 DEF Answered, Same, Fields
  <2>6. QED
    BY <2>3, <2>4, <2>5
<1>8. QED
  BY <1>5, <1>6, <1>7

LEMMA ReceiveOkDoes ==
    ASSUME Typed, NEW p \in Sides, ReceiveOk(p)
    PROVE  OkDone(p)
<1>1. Arrives(p, "200") /\ net' = Taken(p)
  BY DEF ReceiveOk
<1>2. CASE side[p].ua = "updating"
  <2>1. side' = [side EXCEPT ![p] = AnsweredReinvite(p, [side[p] EXCEPT !.ua = "up"],
                                                     Head(net[p]).body)]
    BY <1>2 DEF ReceiveOk
  <2>2. \/ ssut' = ssut
        \/ /\ ssut.leg = "up" /\ scn.cls = "reinv_bad_ack" /\ scn.fault # "tolerate"
           /\ ssut' = [ssut EXCEPT !.ackby = now + AckTimeout]
    BY <1>2 DEF ReceiveOk
  <2>5. p = "alice" /\ scn.cls = "reinv_bad_ack" /\ scn.fault # "tolerate" /\ ssut.leg = "up"
            => ssut' = [ssut EXCEPT !.ackby = now + AckTimeout]
    BY <1>2 DEF ReceiveOk
  <2>3. Turn(p) /\ Answered(p, Head(net[p]).body)
    BY <2>1, AnsweredReinviteDoes
  <2>4. QED
    BY <1>1, <1>2, <2>2, <2>3, <2>5 DEF OkDone
<1>3. CASE side[p].ua # "updating"
  <2>1. side' = side /\ ssut' = ssut
    BY <1>3 DEF ReceiveOk
  <2>2. Turn(p) /\ side'[p] = side[p]
    BY <2>1 DEF Typed, Turn
  <2>3. QED
    BY <1>1, <1>3, <2>1, <2>2 DEF OkDone
<1>4. QED
  BY <1>2, <1>3

\* What a failure of its re-INVITE, or the end of the call, does to side p.
FailDone(p, r, s) ==
    /\ r.nerrs \in Nat /\ r.nerrs >= s.nerrs
    /\ \/ /\ s.busy /\ p = "alice" /\ scn.cls \in Refused
          /\ ~r.busy /\ r.done /\ r.nerrs = s.nerrs
       \/ /\ s.busy /\ ~(p = "alice" /\ scn.cls \in Refused)
          /\ r.busy = s.busy /\ r.done = s.done /\ r.nerrs > s.nerrs
          /\ r.nerrs = s.nerrs + 2
       \/ ~s.busy /\ r.busy = s.busy /\ r.done = s.done /\ r.nerrs = s.nerrs

LEMMA OnFailedDoes ==
    ASSUME NEW p \in Sides, NEW s \in SideShape
    PROVE  /\ OnFailed(p, s) \in SideShape /\ FailDone(p, OnFailed(p, s), s)
           /\ Same(OnFailed(p, s), s, {"busy", "done", "nerrs"})
<1>1. s.nerrs \in Nat /\ s.nerrs + 2 \in Nat
  BY CountsTyped
<1> DEFINE f == OnFailed(p, s)
<1>2. ASSUME s.busy /\ p = "alice" /\ scn.cls \in Refused
      PROVE  f \in SideShape /\ FailDone(p, f, s)
             /\ Same(f, s, {"busy", "done", "nerrs"})
  <2>1. f = [s EXCEPT !.busy = FALSE, !.done = TRUE]
    BY <1>2 DEF OnFailed
  <2> HIDE DEF f
  <2>2. LET r == [s EXCEPT !.busy = FALSE, !.done = TRUE]
        IN  /\ r \in SideShape /\ ~r.busy /\ r.done /\ r.nerrs = s.nerrs
            /\ Same(r, s, {"busy", "done"})
    BY DEF SideShape, Same, Fields
  <2>3. QED
    BY <1>1, <1>2, <2>1, <2>2 DEF FailDone, Same, Fields
<1>3. ASSUME s.busy /\ ~(p = "alice" /\ scn.cls \in Refused)
      PROVE  f \in SideShape /\ FailDone(p, f, s)
             /\ Same(f, s, {"busy", "done", "nerrs"})
  <2> DEFINE v == s.nerrs + 2
  <2>1. f = [s EXCEPT !.nerrs = v]
    BY <1>3 DEF OnFailed
  <2>2. v \in Nat /\ v > s.nerrs
    BY <1>1
  <2> HIDE DEF f, v
  <2>3. f \in SideShape /\ f.nerrs = v
        /\ Same(f, s, {"nerrs"})
    BY <2>1, <2>2, CountDoes
  <2>4. f.busy = s.busy /\ f.done = s.done /\ Same(f, s, {"busy", "done", "nerrs"})
    BY <2>3 DEF Same, Fields
  <2>5. FailDone(p, f, s)
    <3>1. f.nerrs \in Nat /\ f.nerrs >= s.nerrs /\ f.nerrs > s.nerrs /\ f.nerrs = s.nerrs + 2
      BY <1>1, <2>2, <2>3 DEF v
    <3>2. QED
      BY <1>3, <2>4, <3>1 DEF FailDone
  <2>6. QED
    BY <2>3, <2>4, <2>5
<1>4. ASSUME ~s.busy
      PROVE  f \in SideShape /\ FailDone(p, f, s)
             /\ Same(f, s, {"busy", "done", "nerrs"})
  <2>1. f = s
    BY <1>4 DEF OnFailed
  <2> HIDE DEF f
  <2>2. QED
    BY <1>1, <1>4, <2>1 DEF FailDone, Same, Fields
<1> HIDE DEF f
<1>5. f \in SideShape /\ FailDone(p, f, s) /\ Same(f, s, {"busy", "done", "nerrs"})
  BY <1>2, <1>3, <1>4
<1>6. QED
  BY <1>5 DEF f

\* p hears that its re-INVITE was refused.
RefusalDone(p) ==
    /\ Arrives(p, "refuse") /\ Turn(p) /\ Takes(p)
    /\ \/ side[p].ua # "updating" /\ side'[p] = side[p]
       \/ /\ side[p].ua = "updating" /\ side'[p].ua = "up"
          /\ FailDone(p, side'[p], side[p])
          /\ Same(side'[p], side[p], {"ua", "busy", "done", "nerrs"})

LEMMA ReceiveRefusalDoes ==
    ASSUME Typed, NEW p \in Sides, ReceiveRefusal(p)
    PROVE  RefusalDone(p)
<1> DEFINE s == [side[p] EXCEPT !.ua = "up"]
<1>1. /\ Arrives(p, "refuse")
      /\ Keep(p, IF side[p].ua = "updating" THEN OnFailed(p, s) ELSE side[p], Taken(p))
  BY DEF ReceiveRefusal
<1>2. side[p] \in SideShape /\ "up" \in Agents
  BY SideTyped DEF Agents
<1>3. s \in SideShape /\ s.ua = "up" /\ Same(s, side[p], {"ua"})
  BY <1>2, AgentDoes
<1> HIDE DEF s
<1>4. /\ OnFailed(p, s) \in SideShape /\ FailDone(p, OnFailed(p, s), s)
      /\ Same(OnFailed(p, s), s, {"busy", "done", "nerrs"})
  BY <1>3, OnFailedDoes
<1>5. /\ Turn(p) /\ Takes(p)
      /\ side'[p] = IF side[p].ua = "updating" THEN OnFailed(p, s) ELSE side[p]
  BY <1>1, <1>2, <1>4, KeepDoes DEF Takes
<1>6. QED
  BY <1>1, <1>3, <1>4, <1>5 DEF RefusalDone, FailDone, Same, Fields

\* The call ends for p.
ByeDone(p) ==
    /\ Arrives(p, "BYE") /\ Turn(p) /\ Takes(p)
    /\ \/ Left(side[p]) /\ side'[p] = side[p]
       \/ /\ ~Left(side[p]) /\ side'[p].ua = "ended" /\ side'[p].ended = now
          /\ side'[p].disconnect
          /\ FailDone(p, side'[p], side[p])
          /\ Same(side'[p], side[p],
                  {"ua", "ended", "disconnect", "busy", "done", "nerrs"})

LEMMA ReceiveByeDoes ==
    ASSUME Typed, NEW p \in Sides, ReceiveBye(p)
    PROVE  ByeDone(p)
<1> DEFINE f == OnFailed(p, side[p])
<1>1. /\ Arrives(p, "BYE")
      /\ Keep(p, IF Left(side[p]) THEN side[p] ELSE Ended(f), Taken(p))
  BY DEF ReceiveBye
<1>2. side[p] \in SideShape
  BY SideTyped
<1>3. f \in SideShape /\ FailDone(p, f, side[p])
      /\ Same(f, side[p], {"busy", "done", "nerrs"})
  BY <1>2, OnFailedDoes
<1> HIDE DEF f
<1>4. /\ Ended(f) \in SideShape
      /\ Ended(f).ua = "ended" /\ Ended(f).ended = now /\ Ended(f).disconnect
      /\ Same(Ended(f), f, {"ua", "ended", "disconnect"})
  BY <1>3, EndedDoes
<1>5. /\ Turn(p) /\ Takes(p)
      /\ side'[p] = IF Left(side[p]) THEN side[p] ELSE Ended(f)
  BY <1>1, <1>2, <1>4, KeepDoes DEF Takes
<1>6. QED
  BY <1>1, <1>3, <1>4, <1>5 DEF ByeDone, FailDone, Same, Fields

\* p reports.
DeadDone(p) ==
    /\ side[p].ua = "ended" /\ Turn(p) /\ Quiet
    /\ side'[p].ua = "dead" /\ side'[p].verdict = VerdictAfter(p, side[p])
    /\ Same(side'[p], side[p], {"ua", "verdict"})

LEMMA DeadDoes ==
    ASSUME Typed, NEW p \in Sides, Dead(p)
    PROVE  DeadDone(p)
<1> DEFINE v == VerdictAfter(p, side[p])
           h == [side[p] EXCEPT !.ua = "dead", !.verdict = v]
<1>1. side[p].ua = "ended" /\ Keep(p, h, net)
  BY DEF Dead
<1>2. side[p] \in SideShape
  BY SideTyped
<1>3. v \in {Success, Failure, Pending}
  BY DEF VerdictAfter
<1> HIDE DEF v
<1>4. h \in SideShape /\ h.ua = "dead" /\ h.verdict = v /\ Same(h, side[p], {"ua", "verdict"})
  BY <1>2, <1>3 DEF SideShape, Same, Fields, Agents
<1> HIDE DEF h
<1>5. Turn(p) /\ side'[p] = h /\ Quiet
  BY <1>1, <1>4, KeepDoes DEF Quiet
<1>6. QED
  BY <1>1, <1>4, <1>5 DEF DeadDone, v

\* The SSuT ends the call towards both sides.
ByesDone(blame) ==
    /\ ssut.leg = "up" /\ ssut' = Over(blame) /\ side' = side
    /\ net' \in Nets
    /\ \A q \in Sides : \E m : /\ net'[q] = Append(net[q], m) /\ Behind(net[q], m)
                              /\ m.kind = "BYE"

LEMMA HangUpBothDoes ==
    ASSUME Typed, NEW blame, HangUpBoth(blame)
    PROVE  ByesDone(blame) /\ now' = now /\ scn' = scn
<1>1. /\ ssut.leg = "up" /\ ssut' = Over(blame) /\ side' = side
      /\ now' = now /\ scn' = scn
  BY DEF HangUpBoth
<1>2. PICK d \in Delays : net' = [q \in Sides |-> Queued(net[q], "BYE", "none", d)]
  BY DEF HangUpBoth
<1>3. "BYE" \in Kinds /\ "none" \in Bodies
  BY DEF Kinds, Bodies
<1>4. ASSUME NEW q \in Sides
      PROVE  /\ net'[q] \in Seq(MsgShape)
             /\ \E m : /\ net'[q] = Append(net[q], m) /\ Behind(net[q], m)
                       /\ m.kind = "BYE"
  <2>1. net[q] \in Seq(MsgShape) /\ now \in Nat /\ net'[q] = Queued(net[q], "BYE", "none", d)
    BY <1>2, SideTyped
  <2>2. PICK m : /\ net'[q] = Append(net[q], m) /\ Behind(net[q], m)
                 /\ m.kind = "BYE"
    BY <1>3, <2>1, QueuedBehind
  <2>3. m \in MsgShape
    BY <2>2 DEF Behind
  <2>4. QED
    BY SMTT(30), <2>1, <2>2, <2>3
<1>5. net' \in Nets
  BY <1>2, <1>4 DEF Nets
<1>6. QED
  BY <1>1, <1>4, <1>5 DEF ByesDone

\* The clock moves to the next deadline.
TickDone ==
    /\ now' \in Nat /\ now' > now /\ \A t \in Deadlines : now' <= t
    /\ scn' = scn /\ side' = side /\ ssut' = ssut /\ net' = net

\* Why the SSuT hangs up.
Reason(blame) ==
    \/ blame = "ack" /\ ssut.ackby # Never /\ now >= ssut.ackby
    \/ blame = "media" /\ scn.sigonly /\ now >= ssut.since + MediaTimeout
    \/ blame = "refusal" /\ ssut.refused
    \/ blame = "fault" /\ scn.fault = "hangup"

Stay == now' = now /\ scn' = scn /\ side' = side /\ ssut' = ssut /\ net' = net

\* Every way in which the state can change.
Moved ==
    \/ \E p \in Sides : \E t : AskDone(p, t)
    \/ \E t : ConnectDone(t)
    \/ \E p \in Sides : \E t : LateDone(p, t)
    \/ \E p \in Sides : \E t : HangDone(p, t)
    \/ ConnectedDone
    \/ \E p \in Sides : InviteDone(p)
    \/ \E p \in Sides : OkDone(p)
    \/ \E p \in Sides : RefusalDone(p)
    \/ \E p \in Sides : ByeDone(p)
    \/ \E p \in Sides : DeadDone(p)
    \/ \E blame : ByesDone(blame) /\ Reason(blame)

LEMMA DeadlinesAreTimes ==
    ASSUME Typed
    PROVE  Deadlines \subseteq Nat
<1>1. ASSUME NEW p \in Sides
      PROVE  /\ \A t \in side[p].timers : t.at \in Nat
             /\ net[p] # <<>> => Head(net[p]).at \in Nat
             /\ side[p].ended + GoDeadTimeout \in Nat
  <2>1. side[p] \in SideShape /\ net[p] \in Seq(MsgShape)
    BY SideTyped
  <2>2. \A t \in side[p].timers : t.at \in Nat
    BY <2>1 DEF SideShape, TimerShape
  <2>3. net[p] # <<>> => Head(net[p]) \in MsgShape
    BY <2>1
  <2>4. side[p].ended \in Nat /\ GoDeadTimeout \in Nat
    BY <2>1 DEF SideShape, GoDeadTimeout
  <2>5. QED
    BY <2>2, <2>3, <2>4 DEF MsgShape
<1>2. ssut.ackby \in Nat /\ MediaDeadline \in Nat
  BY Literals DEF Typed, SsutShape, MediaDeadline
<1>3. QED
  BY <1>1, <1>2 DEF Deadlines

LEMMA StepMoves ==
    ASSUME Typed, Sane, [Next]_vars
    PROVE  \/ Moved /\ now' = now /\ scn' = scn
           \/ TickDone
           \/ Stay
<1>1. ASSUME NEW p \in Sides, SideStep(p)
      PROVE  Moved /\ now' = now /\ scn' = scn
  <2>1. now' = now /\ scn' = scn
    BY <1>1 DEF SideStep
  <2>2. CASE Reinvite(p)
    BY <2>1, <2>2, ReinviteDoes DEF Moved
  <2>3. CASE AnswerLate(p)
    BY <2>1, <2>3, AnswerLateDoes DEF Moved
  <2>4. CASE Disconnect(p)
    BY <2>1, <2>4, DisconnectDoes DEF Moved
  <2>5. CASE ReceiveReinvite(p)
    BY <2>1, <2>5, ReceiveReinviteDoes DEF Moved
  <2>6. CASE ReceiveOk(p)
    BY <2>1, <2>6, ReceiveOkDoes DEF Moved
  <2>7. CASE ReceiveRefusal(p)
    BY <2>1, <2>7, ReceiveRefusalDoes DEF Moved
  <2>8. CASE ReceiveBye(p)
    BY <2>1, <2>8, ReceiveByeDoes DEF Moved
  <2>9. CASE Dead(p)
    BY <2>1, <2>9, DeadDoes DEF Moved
  <2>10. QED
    BY <1>1, <2>2, <2>3, <2>4, <2>5, <2>6, <2>7, <2>8, <2>9 DEF SideStep
<1>2. CASE OwnStep
  <2>1. now' = now /\ scn' = scn
    BY <1>2 DEF OwnStep
  <2>2. CASE Connect
    BY <2>1, <2>2, ConnectDoes DEF Moved
  <2>3. CASE OffHold
    <3>1. "alice" \in Sides
      BY DEF Sides
    <3>2. QED
      BY <2>1, <2>3, <3>1, OffHoldDoes DEF Moved
  <2>4. CASE Connected
    BY <2>1, <2>4, ConnectedDoes DEF Moved
  <2>5. QED
    BY <1>2, <2>2, <2>3, <2>4 DEF OwnStep
<1>3. CASE SsutTimeout \/ SsutHangup
  <2>1. PICK blame : HangUpBoth(blame) /\ Reason(blame)
    BY <1>3 DEF SsutTimeout, SsutHangup, Reason, HangUpBoth, MediaDeadline
  <2>2. ByesDone(blame) /\ now' = now /\ scn' = scn
    BY <2>1, HangUpBothDoes
  <2>3. QED
    BY <2>1, <2>2 DEF Moved
<1>4. CASE Tick
  <2>1. PICK t \in Deadlines : t > now /\ (\A u \in Deadlines : u >= t) /\ now' = t
    BY <1>4 DEF Tick
  <2>2. \A u \in Deadlines : u \in Nat
    BY DeadlinesAreTimes
  <2>3. \A u \in Deadlines : now' <= u
    BY <2>1, <2>2
  <2>4. QED
    BY <1>4, <2>1, <2>2, <2>3 DEF Tick, TickDone
<1>5. CASE UNCHANGED vars
  BY <1>5 DEF vars, Stay
<1>6. QED
  BY <1>1, <1>2, <1>3, <1>4, <1>5 DEF Next, Progress

\* What the SSuT may do to the network.
Grown(n) ==
    /\ ssut' \in SsutShape /\ net' \in Nets
    /\ \A q \in Sides : \/ net'[q] = n[q]
                        \/ \E m : net'[q] = Append(n[q], m) /\ Behind(n[q], m)

LEMMA SentGrows ==
    ASSUME Typed, NEW n \in Nets, NEW to \in Sides, NEW kind, NEW body,
           Sent(n, to, kind, body), ssut' \in SsutShape
    PROVE  Grown(n)
<1>1. PICK m : net' = [n EXCEPT ![to] = Append(n[to], m)] /\ Behind(n[to], m)
  BY DEF Sent
<1>2. net'[to] = Append(n[to], m) /\ \A q \in Sides \ {to} : net'[q] = n[q]
  BY <1>1 DEF Nets
<1>3. QED
  BY <1>1, <1>2, SentTyped DEF Grown

LEMMA SsutUpdates ==
    ASSUME Typed
    PROVE  /\ ssut \in SsutShape
           /\ \A blame \in Blames : Over(blame) \in SsutShape
           /\ [ssut EXCEPT !.since = now, !.leg = "up"] \in SsutShape
           /\ [ssut EXCEPT !.refused = TRUE] \in SsutShape
           /\ [ssut EXCEPT !.accepted = TRUE] \in SsutShape
           /\ [ssut EXCEPT !.since = now] \in SsutShape
           /\ [ssut EXCEPT !.since = now, !.accepted = TRUE] \in SsutShape
           /\ [ssut EXCEPT !.ackby = now + AckTimeout] \in SsutShape
<1>1. now + AckTimeout \in Nat /\ Never \in Nat /\ now \in Nat /\ ssut \in SsutShape
  BY Literals DEF Typed
<1>2. \A blame \in Blames : Over(blame) \in SsutShape
  BY <1>1 DEF Over, SsutShape
<1>3. /\ [ssut EXCEPT !.since = now, !.leg = "up"] \in SsutShape
      /\ [ssut EXCEPT !.refused = TRUE] \in SsutShape
      /\ [ssut EXCEPT !.accepted = TRUE] \in SsutShape
      /\ [ssut EXCEPT !.since = now] \in SsutShape
      /\ [ssut EXCEPT !.since = now, !.accepted = TRUE] \in SsutShape
  BY <1>1 DEF SsutShape
<1>4. \A v \in Nat : [ssut EXCEPT !.ackby = v] \in SsutShape
  BY <1>1 DEF SsutShape
<1>5. QED
  BY <1>1, <1>2, <1>3, <1>4

LEMMA SsutGrows ==
    ASSUME Typed, NEW p \in Sides, NEW n \in Nets
    PROVE  /\ SsutFrom(p, n, "BYE", "none") => Grown(n)
           /\ SsutFrom(p, n, "answer", "plain") => Grown(n)
           /\ SsutFrom(p, n, "refuse", "none") => Grown(n)
           /\ \A body \in Bodies : SsutFrom(p, n, "INVITE", body) => Grown(n)
           /\ \A body \in Bodies : SsutFrom(p, n, "200", body) => Grown(n)
<1>1. Other(p) \in Sides /\ p \in Blames
  BY OtherSide DEF Blames, Sides
<1>2. net' = n /\ ssut' = ssut => Grown(n)
  BY SsutUpdates DEF Grown
<1>3. SsutFrom(p, n, "BYE", "none") => Grown(n)
  BY <1>1, <1>2, SsutByes, SsutUpdates, SentGrows
<1>4. SsutFrom(p, n, "answer", "plain") => Grown(n)
  BY <1>1, <1>2, SsutAnswers, SsutUpdates, SentGrows
<1>5. SsutFrom(p, n, "refuse", "none") => Grown(n)
  BY <1>1, <1>2, SsutRefuses, SsutUpdates, SentGrows
<1>6. ASSUME NEW body \in Bodies, SsutFrom(p, n, "INVITE", body)
      PROVE  Grown(n)
  <2>1. ssut' \in SsutShape
    BY <1>6, SsutInvites, SsutUpdates
  <2>2. \/ net' = n /\ ssut' = ssut
        \/ \E to \in Sides : \E kind, b : Sent(n, to, kind, b)
    BY <1>1, <1>6, SsutInvites
  <2>3. QED
    BY <1>2, <2>1, <2>2, SentGrows
<1>7. ASSUME NEW body \in Bodies, SsutFrom(p, n, "200", body)
      PROVE  Grown(n)
  BY <1>1, <1>2, <1>7, SsutAccepts, SsutUpdates, SentGrows
<1>8. QED
  BY <1>3, <1>4, <1>5, <1>6, <1>7

\* Side p takes its first message.
Hears(p) ==
    \/ p = "alice" /\ ConnectedDone
    \/ InviteDone(p) \/ OkDone(p) \/ RefusalDone(p) \/ ByeDone(p)

LEMMA NetMoves ==
    ASSUME Typed, Moved
    PROVE  \/ Grown(net)
           \/ \E p \in Sides : net[p] # <<>> /\ Grown(Taken(p)) /\ Hears(p)
<1>1. net \in Nets /\ (net' = net /\ ssut' = ssut => Grown(net))
  BY SsutUpdates DEF Typed, Nets, Grown
<1>2. ASSUME NEW p \in Sides, net[p] # <<>>
      PROVE  Taken(p) \in Nets /\ (net' = Taken(p) /\ ssut' \in SsutShape => Grown(Taken(p)))
  BY <1>2, TakenDoes DEF Grown
<1>3. \A p \in Sides : \A kind : Arrives(p, kind) => net[p] # <<>>
  BY DEF Arrives
<1>4. "alice" \in Sides /\ "bob" \in Sides
  BY DEF Sides
<1>5. CASE \E p \in Sides : \E t : AskDone(p, t)
  BY <1>1, <1>5, SsutGrows DEF AskDone, Quiet
<1>6. CASE \E t : ConnectDone(t)
  BY <1>1, <1>4, <1>6, SsutGrows DEF ConnectDone, Quiet
<1>7. CASE \E p \in Sides : \E t : LateDone(p, t)
  <2>1. "plain" \in Bodies
    BY DEF Bodies
  <2>2. QED
    BY <1>1, <1>7, <2>1, SsutGrows DEF LateDone, Quiet
<1>8. CASE \E p \in Sides : \E t : HangDone(p, t)
  BY <1>1, <1>8, SsutGrows DEF HangDone, Quiet
<1>9. CASE ConnectedDone
  BY <1>2, <1>3, <1>4, <1>9, SsutUpdates DEF ConnectedDone, Takes, Hears
<1>10. CASE \E p \in Sides : InviteDone(p)
  <2>1. PICK p \in Sides : InviteDone(p)
    BY <1>10
  <2>2. net[p] # <<>> /\ Taken(p) \in Nets
    BY <1>2, <1>3, <2>1 DEF InviteDone
  <2>3. "plain" \in Bodies /\ "broken" \in Bodies
    BY DEF Bodies
  <2>4. CASE Takes(p)
    BY <1>2, <2>1, <2>2, <2>4, SsutUpdates DEF Takes, Hears
  <2>5. CASE ~Takes(p)
    <3>1. Grown(Taken(p))
      BY <2>1, <2>2, <2>3, <2>5, SsutGrows DEF InviteDone
    <3>2. QED
      BY <2>1, <2>2, <3>1 DEF Hears
  <2>6. QED
    BY <2>4, <2>5
<1>11. CASE \E p \in Sides : OkDone(p)
  BY <1>2, <1>3, <1>11, SsutUpdates DEF OkDone, Hears
<1>12. CASE \E p \in Sides : RefusalDone(p)
  BY <1>2, <1>3, <1>12, SsutUpdates DEF RefusalDone, Takes, Hears
<1>13. CASE \E p \in Sides : ByeDone(p)
  BY <1>2, <1>3, <1>13, SsutUpdates DEF ByeDone, Takes, Hears
<1>14. CASE \E p \in Sides : DeadDone(p)
  BY <1>1, <1>14 DEF DeadDone, Quiet
<1>15. CASE \E blame : ByesDone(blame) /\ Reason(blame)
  <2>1. PICK blame : ByesDone(blame) /\ Reason(blame)
    BY <1>15
  <2>2. blame \in Blames
    BY <2>1 DEF Reason, Blames
  <2>3. ssut' \in SsutShape
    BY <2>1, <2>2, SsutUpdates DEF ByesDone
  <2>4. QED
    BY <2>1, <2>3 DEF ByesDone, Grown
<1>16. QED
  BY <1>5, <1>6, <1>7, <1>8, <1>9, <1>10, <1>11, <1>12, <1>13, <1>14, <1>15 DEF Moved

\* All of the actions but the SSuT's own are a turn of one side.
LEMMA SideMoves ==
    ASSUME Typed, Moved
    PROVE  /\ side' \in [Sides -> SideShape]
           /\ side' = side \/ \E p \in Sides : Turn(p)
<1>1. "alice" \in Sides /\ "bob" \in Sides
  BY DEF Sides
<1>2. \/ side' = side
      \/ \E p \in Sides : Turn(p)
  BY <1>1 DEF Moved, AskDone, ConnectDone, LateDone, HangDone, ConnectedDone, InviteDone,
              OkDone, RefusalDone, ByeDone, DeadDone, ByesDone
<1>3. QED
  BY <1>2 DEF Turn, Typed

LEMMA TypedStep ==
    ASSUME Typed, Sane, [Next]_vars
    PROVE  Typed'
<1>1. CASE Moved /\ now' = now /\ scn' = scn
  <2>1. ssut' \in SsutShape /\ net' \in Nets
    BY <1>1, NetMoves DEF Grown
  <2>2. QED
    BY <1>1, <2>1, SideMoves DEF Typed, Nets
<1>2. CASE TickDone
  BY <1>2 DEF TickDone, Typed
<1>3. CASE Stay
  BY <1>3 DEF Stay, Typed
<1>4. QED
  BY <1>1, <1>2, <1>3, StepMoves

\* A side that a step does not touch stays as it is.
LEMMA SaneOthers ==
    ASSUME Sane, NEW p \in Sides, Turn(p), scn' = scn,
           Left(side'[p]) <=> side'[p].disconnect,
           \A t \in side'[p].timers : t.cb \in {"reinvite", "off_hold"}
               => p = Reinviter(scn.cls)
    PROVE  Sane'
<1>1. ASSUME NEW q \in Sides
      PROVE  /\ Left(side'[q]) <=> side'[q].disconnect
             /\ Asks(q)' # {} => q = Reinviter(scn.cls)
  <2>1. CASE q = p
    BY <2>1 DEF Asks
  <2>2. CASE q # p
    <3>1. side'[q] = side[q]
      BY <2>2 DEF Turn
    <3>2. QED
      BY <3>1 DEF Sane, Asks
  <2>3. QED
    BY <2>1, <2>2
<1>2. QED
  BY <1>1 DEF Sane

LEMMA SaneStep ==
    ASSUME Typed, Sane, [Next]_vars
    PROVE  Sane'
<1>1. ASSUME Stay \/ TickDone \/ (scn' = scn /\ side' = side)
      PROVE  Sane'
  BY <1>1 DEF Stay, TickDone, Sane, Asks, Left
<1>2. ASSUME NEW p \in Sides
      PROVE  /\ Left(side[p]) <=> side[p].disconnect
             /\ \A t \in side[p].timers : t.cb \in {"reinvite", "off_hold"}
                    => p = Reinviter(scn.cls)
  BY DEF Sane, Asks
<1>3. "alice" \in Sides /\ "bob" \in Sides /\ now \in Nat /\ scn.cls \in ReinviteClasses
  BY SideTyped DEF Sides
<1>4. ASSUME scn' = scn, Moved
      PROVE  Sane'
  <2>1. CASE \E p \in Sides : \E t : AskDone(p, t)
    <3>0. PICK p \in Sides : \E t : AskDone(p, t)
      BY <2>1
    <3>1. PICK t : AskDone(p, t)
      BY <3>0
    <3>2. Left(side'[p]) <=> side'[p].disconnect
      BY <1>2, <3>1 DEF AskDone, MayReinvite, Same, Fields, Left
    <3>3. QED
      BY <1>4, <3>1, <3>2, SaneOthers DEF AskDone
  <2>2. CASE \E t : ConnectDone(t)
    <3>1. PICK t : ConnectDone(t)
      BY <2>2
    <3>2. Left(side'["bob"]) <=> side'["bob"].disconnect
      BY <1>2, <1>3, <3>1 DEF ConnectDone, Same, Fields, Left, bob
    <3>3. \A u \in side'["bob"].timers : u \in side["bob"].timers \/ u.cb = "disconnect"
      BY <3>1 DEF ConnectDone, Timer, bob
    <3>4. Turn("bob")
      BY <3>1 DEF ConnectDone
    <3>5. QED
      BY <1>2, <1>3, <1>4, <3>2, <3>3, <3>4, SaneOthers
  <2>3. CASE \E p \in Sides : \E t : LateDone(p, t)
    <3>0. PICK p \in Sides : \E t : LateDone(p, t)
      BY <2>3
    <3>1. PICK t : LateDone(p, t)
      BY <3>0
    <3>2. Left(side'[p]) <=> side'[p].disconnect
      BY <1>2, <3>1 DEF LateDone, Same, Fields, Left
    <3>3. Turn(p) /\ \A u \in side'[p].timers : u \in side[p].timers
      BY <3>1 DEF LateDone
    <3>4. QED
      BY <1>2, <1>4, <3>2, <3>3, SaneOthers
  <2>4. CASE \E p \in Sides : \E t : HangDone(p, t)
    <3>0. PICK p \in Sides : \E t : HangDone(p, t)
      BY <2>4
    <3>1. PICK t : HangDone(p, t)
      BY <3>0
    <3>2. Left(side'[p]) <=> side'[p].disconnect
      BY <1>2, <3>1 DEF HangDone, Same, Fields, Left
    <3>3. Turn(p) /\ \A u \in side'[p].timers : u \in side[p].timers \/ u.cb = "disconnect"
      BY <3>1 DEF HangDone, Timer
    <3>4. QED
      BY <1>2, <1>4, <3>2, <3>3, SaneOthers
  <2>5. CASE ConnectedDone
    <3>1. Left(side'["alice"]) <=> side'["alice"].disconnect
      BY <1>2, <1>3, <2>5 DEF ConnectedDone, Same, Fields, Left, alice
    <3>2. \A u \in side'["alice"].timers :
             u \in side["alice"].timers \/ u.cb = "disconnect" \/ "alice" = Reinviter(scn.cls)
      BY <2>5 DEF ConnectedDone, Timer, alice
    <3>3. Turn("alice")
      BY <2>5 DEF ConnectedDone
    <3>4. QED
      BY <1>2, <1>3, <1>4, <3>1, <3>2, <3>3, SaneOthers
  <2>6. CASE \E p \in Sides : InviteDone(p)
    <3>1. PICK p \in Sides : InviteDone(p)
      BY <2>6
    <3>2. Left(side'[p]) <=> side'[p].disconnect
      BY <1>2, <3>1 DEF InviteDone, Same, Fields, Left
    <3>3. Turn(p) /\ \A u \in side'[p].timers : u \in side[p].timers \/ u.cb = "process_reinvite"
      BY <3>1 DEF InviteDone, Timer
    <3>4. QED
      BY <1>2, <1>4, <3>2, <3>3, SaneOthers
  <2>7. CASE \E p \in Sides : OkDone(p)
    <3>1. PICK p \in Sides : OkDone(p)
      BY <2>7
    <3>2. Left(side'[p]) <=> side'[p].disconnect
      BY <1>2, <3>1 DEF OkDone, Answered, Same, Fields, Left
    <3>3. scn.cls = "reinv_onhold" => "alice" = Reinviter(scn.cls)
      BY DEF Reinviter
    <3>4. Turn(p) /\ \A u \in side'[p].timers : u \in side[p].timers \/ p = Reinviter(scn.cls)
      BY <1>2, <3>1, <3>3 DEF OkDone, Answered, HoldDone, Same, Fields
    <3>5. QED
      BY <1>2, <1>4, <3>2, <3>4, SaneOthers
  <2>8. CASE \E p \in Sides : RefusalDone(p) \/ ByeDone(p) \/ DeadDone(p)
    <3>1. PICK p \in Sides : RefusalDone(p) \/ ByeDone(p) \/ DeadDone(p)
      BY <2>8
    <3>2. Left(side'[p]) <=> side'[p].disconnect
      BY <1>2, <3>1 DEF RefusalDone, ByeDone, DeadDone, Same, Fields, Left
    <3>3. Turn(p) /\ side'[p].timers = side[p].timers
      BY <3>1 DEF RefusalDone, ByeDone, DeadDone, Same, Fields
    <3>4. QED
      BY <1>2, <1>4, <3>2, <3>3, SaneOthers
  <2>9. CASE \E blame : ByesDone(blame) /\ Reason(blame)
    BY <1>1, <1>4, <2>9 DEF ByesDone
  <2>10. QED
    BY <1>4, <2>1, <2>2, <2>3, <2>4, <2>5, <2>6, <2>7, <2>8, <2>9 DEF Moved
<1>5. QED
  BY <1>1, <1>4, StepMoves

-----------------------------------------------------------------------------
(* Queues                                                                  *)

LEMMA AppendedNo ==
    ASSUME NEW q \in Seq(MsgShape), NEW m \in MsgShape, NEW kinds
    PROVE  /\ Append(q, m) \in Seq(MsgShape) /\ Len(Append(q, m)) = Len(q) + 1
           /\ Append(q, m)[Len(q) + 1] = m
           /\ \A i \in 1..Len(q) : Append(q, m)[i] = q[i] /\ i \in 1..Len(Append(q, m))
           /\ m.kind \notin kinds =>
                  /\ No(Append(q, m), kinds) <=> No(q, kinds)
                  /\ One(Append(q, m), kinds) <=> One(q, kinds)
           /\ m.kind \in kinds => ~No(Append(q, m), kinds)
           /\ No(q, kinds) => One(Append(q, m), kinds)
<1> DEFINE r == Append(q, m)
<1>1. /\ r \in Seq(MsgShape) /\ Len(r) = Len(q) + 1 /\ Len(q) \in Nat
      /\ r[Len(q) + 1] = m
      /\ \A i \in 1..Len(q) : r[i] = q[i] /\ i \in 1..Len(r)
  OBVIOUS
<1> HIDE DEF r
<1>2. \A i \in 1..Len(r) : i \in 1..Len(q) \/ i = Len(q) + 1
  BY <1>1
<1>3. m.kind \notin kinds => /\ No(r, kinds) <=> No(q, kinds)
                             /\ One(r, kinds) <=> One(q, kinds)
  BY <1>1, <1>2 DEF No, One
<1>4. m.kind \in kinds => ~No(r, kinds)
  BY <1>1 DEF No
<1>5. No(q, kinds) => One(r, kinds)
  BY <1>1, <1>2 DEF No, One
<1>6. QED
  BY <1>1, <1>3, <1>4, <1>5 DEF r

LEMMA TailNo ==
    ASSUME NEW q \in Seq(MsgShape), q # <<>>, NEW kinds
    PROVE  /\ No(q, kinds) => No(Tail(q), kinds)
           /\ One(q, kinds) => One(Tail(q), kinds)
           /\ One(q, kinds) /\ Head(q).kind \in kinds => No(Tail(q), kinds)
           /\ Head(q).kind \in kinds => ~No(q, kinds)
<1> DEFINE r == Tail(q)
<1>1. /\ Len(r) = Len(q) - 1 /\ Len(q) \in Nat /\ Head(q) = q[1] /\ 1 \in 1..Len(q)
      /\ \A i \in 1..Len(r) : r[i] = q[i + 1] /\ i + 1 \in 1..Len(q) /\ i + 1 # 1
                              /\ i \in Nat
  OBVIOUS
<1> HIDE DEF r
<1>2. \A i, j \in 1..Len(r) : i + 1 = j + 1 => i = j
  BY <1>1
<1>3. No(q, kinds) => No(r, kinds)
  BY <1>1 DEF No
<1>4. One(q, kinds) => One(r, kinds)
  BY <1>1, <1>2 DEF One
<1>5. One(q, kinds) /\ Head(q).kind \in kinds => No(r, kinds)
  BY <1>1 DEF One, No
<1>6. Head(q).kind \in kinds => ~No(q, kinds)
  BY <1>1 DEF No
<1>7. QED
  BY <1>3, <1>4, <1>5, <1>6 DEF r

-----------------------------------------------------------------------------
(* Time                                                                    *)

\* A timer that is new is not overdue, and only Bob of reinv_adelay sets one to
\* answer.
Fresh(p, u) ==
    /\ u.at >= now
    /\ u.cb = "process_reinvite" => scn.cls = "reinv_adelay"

LEMMA TimerFresh ==
    ASSUME now \in Nat, NEW p, NEW cb, NEW ival \in Nat,
           cb # "process_reinvite" \/ scn.cls = "reinv_adelay"
    PROVE  Fresh(p, Timer(cb, ival))
BY DEF Fresh, Timer

LEMMA NewTimers ==
    ASSUME Typed, Moved, NEW q \in Sides, NEW u \in side'[q].timers
    PROVE  u \in side[q].timers \/ Fresh(q, u)
<1>1. "alice" \in Sides /\ "bob" \in Sides /\ now \in Nat /\ scn.cls \in ReinviteClasses
  BY SideTyped DEF Sides
<1>2. /\ 35 \in Nat /\ 100 \in Nat /\ 70 \in Nat
      /\ \A p \in Sides : DisconnectIval(p, scn.cls) \in Nat
      /\ ReinviteIval(scn.cls) \in Nat
  BY <1>1, Literals
<1>3. ASSUME NEW p \in Sides, Turn(p),
             q = p => u \in side[p].timers \/ Fresh(q, u)
      PROVE  u \in side[q].timers \/ Fresh(q, u)
  BY <1>3 DEF Turn
<1>4. CASE \E p \in Sides : \E t : AskDone(p, t)
  <2>1. Fresh(q, Timer("disconnect", 35))
    BY <1>1, <1>2, TimerFresh
  <2>2. QED
    BY <1>3, <1>4, <2>1 DEF AskDone
<1>5. CASE \E t : ConnectDone(t)
  <2>1. Fresh(q, Timer("disconnect", DisconnectIval("bob", scn.cls)))
    BY <1>1, <1>2, TimerFresh
  <2>2. QED
    BY <1>1, <1>3, <1>5, <2>1 DEF ConnectDone, bob
<1>6. CASE \E p \in Sides : \E t : LateDone(p, t)
  BY <1>3, <1>6 DEF LateDone
<1>7. CASE \E p \in Sides : \E t : HangDone(p, t)
  <2>1. Fresh(q, Timer("disconnect", 100))
    BY <1>1, <1>2, TimerFresh
  <2>2. QED
    BY <1>3, <1>7, <2>1 DEF HangDone
<1>8. CASE ConnectedDone
  <2>1. /\ Fresh(q, Timer("disconnect", DisconnectIval("alice", scn.cls)))
        /\ Fresh(q, Timer("reinvite", ReinviteIval(scn.cls)))
    BY <1>1, <1>2, TimerFresh
  <2>2. QED
    BY <1>1, <1>3, <1>8, <2>1 DEF ConnectedDone, alice
<1>9. CASE \E p \in Sides : InviteDone(p)
  <2>1. scn.cls = "reinv_adelay" => Fresh(q, Timer("process_reinvite", 70))
    BY <1>1, <1>2, TimerFresh
  <2>2. QED
    BY <1>3, <1>9, <2>1 DEF InviteDone
<1>10. CASE \E p \in Sides : OkDone(p)
  <2>1. PICK p \in Sides : OkDone(p)
    BY <1>10
  <2>2. \A ival \in Nat : /\ Fresh(q, Timer("off_hold", ival))
                          /\ Fresh(q, Timer("reinvite", ival))
    BY <1>1, TimerFresh
  <2>3. Turn(p)
    BY <2>1 DEF OkDone
  <2>4. ASSUME q = p
        PROVE  u \in side[p].timers \/ Fresh(q, u)
    <3>1. CASE side'[p].timers = side[p].timers
      BY <2>4, <3>1
    <3>2. CASE HoldDone(side'[p], side[p])
      BY <2>2, <2>4, <3>2 DEF HoldDone
    <3>3. QED
      BY <2>1, <3>1, <3>2 DEF OkDone, Answered, Same, Fields
  <2>5. QED
    BY <1>3, <2>3, <2>4
<1>11. CASE \E p \in Sides : RefusalDone(p) \/ ByeDone(p) \/ DeadDone(p)
  <2>1. PICK p \in Sides : RefusalDone(p) \/ ByeDone(p) \/ DeadDone(p)
    BY <1>11
  <2>2. Turn(p) /\ side'[p].timers = side[p].timers
    BY <2>1 DEF RefusalDone, ByeDone, DeadDone, Same, Fields
  <2>3. QED
    BY <1>3, <2>2
<1>12. CASE \E blame : ByesDone(blame) /\ Reason(blame)
  BY <1>12 DEF ByesDone
<1>13. QED
  BY <1>4, <1>5, <1>6, <1>7, <1>8, <1>9, <1>10, <1>11, <1>12 DEF Moved

\* A queue in order, without anything overdue.
InOrder(q, time) ==
    /\ \A i \in 1..Len(q) : q[i].at >= time
    /\ \A i, j \in 1..Len(q) : i < j => q[i].at <= q[j].at

LEMMA AppendedInOrder ==
    ASSUME now \in Nat, NEW q \in Seq(MsgShape), NEW m, Behind(q, m), InOrder(q, now)
    PROVE  InOrder(Append(q, m), now)
<1> DEFINE r == Append(q, m)
           n == Len(q)
<1>1. m \in MsgShape /\ m.at \in Nat /\ m.at >= now /\ n \in Nat
  BY DEF Behind, MsgShape
<1>2. /\ Len(r) = n + 1 /\ r[n + 1] = m
      /\ \A i \in 1..n : r[i] = q[i]
  BY <1>1
<1>3. \A i \in 1..n : q[i] \in MsgShape
  OBVIOUS
<1>4. \A i \in 1..n : q[i].at \in Nat
  BY <1>3 DEF MsgShape
<1>5. \A i \in 1..n : q[i].at <= m.at
  <2>1. SUFFICES ASSUME NEW i \in 1..n PROVE q[i].at <= m.at
    OBVIOUS
  <2>2. q # <<>> /\ n \in 1..n /\ (i = n \/ i < n)
    BY <1>1
  <2>3. q[n].at <= m.at
    BY <1>1, <2>2 DEF Behind
  <2>4. q[i].at <= q[n].at
    BY <1>4, <2>2 DEF InOrder
  <2>5. QED
    BY <1>1, <1>4, <2>2, <2>3, <2>4
<1>6. \A i \in 1..Len(r) : i \in 1..n \/ i = n + 1
  BY <1>1, <1>2
<1> HIDE DEF r, n
<1>7. \A i \in 1..Len(r) : r[i].at >= now
  BY <1>1, <1>2, <1>6 DEF InOrder, n
<1>8. ASSUME NEW i \in 1..Len(r), NEW j \in 1..Len(r), i < j
      PROVE  r[i].at <= r[j].at
  <2>1. i \in 1..n
    BY <1>1, <1>2, <1>8
  <2>2. CASE j \in 1..n
    BY <1>2, <1>8, <2>1, <2>2 DEF InOrder, n
  <2>3. CASE j = n + 1
    BY <1>2, <1>5, <2>1, <2>3
  <2>4. QED
    BY <1>6, <2>2, <2>3
<1>9. QED
  BY <1>7, <1>8 DEF InOrder, r

LEMMA TailInOrder ==
    ASSUME NEW q \in Seq(MsgShape), q # <<>>, InOrder(q, now)
    PROVE  InOrder(Tail(q), now)
<1>1. \A i \in 1..Len(Tail(q)) : Tail(q)[i] = q[i + 1] /\ i + 1 \in 1..Len(q)
  OBVIOUS
<1>2. \A i, j \in 1..Len(Tail(q)) : i < j => i + 1 < j + 1
  OBVIOUS
<1>3. QED
  BY <1>1, <1>2 DEF InOrder

LEMMA PunctualStep ==
    ASSUME Typed, Sane, Punctual, [Next]_vars
    PROVE  Punctual'
<1>1. CASE Moved /\ now' = now
  <2>1. ASSUME NEW p \in Sides
        PROVE  \A u \in side'[p].timers : u.at >= now
    BY <1>1, NewTimers DEF Punctual, Fresh
  <2>2. ASSUME NEW p \in Sides
        PROVE  InOrder(net'[p], now)
    <3>1. net[p] \in Seq(MsgShape) /\ InOrder(net[p], now) /\ now \in Nat
      BY SideTyped DEF Punctual, InOrder
    <3>2. CASE Grown(net)
      BY <3>1, <3>2, AppendedInOrder DEF Grown
    <3>3. ASSUME NEW x \in Sides, net[x] # <<>>, Grown(Taken(x))
          PROVE  InOrder(net'[p], now)
      <4>1. Taken(x)[p] \in Seq(MsgShape) /\ InOrder(Taken(x)[p], now)
        <5>1. CASE p = x
          BY <3>1, <3>3, <5>1, TakenDoes, TailInOrder DEF Nets
        <5>2. CASE p # x
          BY <3>1, <3>3, <5>2, TakenDoes
        <5>3. QED
          BY <5>1, <5>2
      <4>2. QED
        BY <3>1, <3>3, <4>1, AppendedInOrder DEF Grown
    <3>4. QED
      BY <1>1, <3>2, <3>3, NetMoves
  <2>3. QED
    BY <1>1, <2>1, <2>2 DEF Punctual, InOrder
<1>2. CASE TickDone
  <2>1. ASSUME NEW p \in Sides
        PROVE  /\ \A u \in side[p].timers : u.at >= now'
               /\ \A i \in 1..Len(net[p]) : net[p][i].at >= now'
    <3>1. now' \in Nat /\ \A t \in Deadlines : now' <= t
      BY <1>2 DEF TickDone
    <3>2. \A u \in side[p].timers : u.at \in Deadlines
      BY DEF Deadlines
    <3>3. \A u \in side[p].timers : u.at \in Nat
      BY <3>2, DeadlinesAreTimes
    <3>4. ASSUME NEW i \in 1..Len(net[p])
          PROVE  net[p][i].at >= now'
      <4>1. net[p] \in Seq(MsgShape)
        BY SideTyped
      <4>2. net[p] # <<>> /\ Head(net[p]) = net[p][1] /\ 1 \in 1..Len(net[p])
            /\ (i = 1 \/ 1 < i) /\ net[p][i] \in MsgShape /\ net[p][1] \in MsgShape
        BY <4>1
      <4>3. Head(net[p]).at \in Deadlines
        BY <4>2 DEF Deadlines
      <4>4. net[p][1].at <= net[p][i].at
        BY <4>2 DEF Punctual, MsgShape
      <4>5. net[p][1].at \in Nat /\ net[p][i].at \in Nat
        BY <4>2 DEF MsgShape
      <4>6. QED
        BY <3>1, <4>2, <4>3, <4>4, <4>5
    <3>5. QED
      BY <3>1, <3>2, <3>3, <3>4
  <2>2. QED
    BY <1>2, <2>1 DEF TickDone, Punctual
<1>3. CASE Stay
  BY <1>3 DEF Stay, Punctual
<1>4. QED
  BY <1>1, <1>2, <1>3, StepMoves

-----------------------------------------------------------------------------
(* What has left, and what has not begun                                   *)

LEMMA SentNo ==
    ASSUME NEW n \in Nets, NEW to \in Sides, NEW kind, NEW body, Sent(n, to, kind, body),
           NEW kinds
    PROVE  /\ \A q \in Sides \ {to} : net'[q] = n[q]
           /\ kind \notin kinds =>
                  \A q \in Sides : /\ No(net'[q], kinds) <=> No(n[q], kinds)
                                   /\ One(net'[q], kinds) <=> One(n[q], kinds)
           /\ kind \in kinds => ~No(net'[to], kinds)
           /\ No(n[to], kinds) => One(net'[to], kinds)
<1>1. PICK m : /\ net' = [n EXCEPT ![to] = Append(n[to], m)]
               /\ Behind(n[to], m) /\ m.kind = kind
  BY DEF Sent
<1>2. net'[to] = Append(n[to], m) /\ \A q \in Sides \ {to} : net'[q] = n[q]
  BY <1>1 DEF Nets
<1>3. n[to] \in Seq(MsgShape) /\ m \in MsgShape
  BY <1>1 DEF Nets, Behind
<1>4. QED
  BY <1>1, <1>2, <1>3, AppendedNo

\* The SSuT's session, when it has not ended the call.
SessionKept ==
    /\ ssut'.leg = "over" <=> ssut.leg = "over"
    /\ ssut'.blame = ssut.blame

LEMMA SsutFields ==
    ASSUME ssut \in SsutShape, now \in Nat
    PROVE  /\ \A blame : Over(blame).leg = "over" /\ Over(blame).blame = blame
                         /\ Over(blame).ackby = Never
                         /\ Over(blame).accepted = ssut.accepted
                         /\ Over(blame).refused = ssut.refused
           /\ ssut' = ssut \/ ssut' = [ssut EXCEPT !.refused = TRUE]
              \/ ssut' = [ssut EXCEPT !.accepted = TRUE]
              \/ ssut' = [ssut EXCEPT !.since = now]
              \/ ssut' = [ssut EXCEPT !.since = now, !.accepted = TRUE]
              \/ ssut' = [ssut EXCEPT !.ackby = now + AckTimeout]
              => SessionKept /\ ssut'.leg = ssut.leg
           /\ ssut' = [ssut EXCEPT !.since = now, !.leg = "up"]
              => (ssut.leg # "over" => SessionKept) /\ ssut'.leg = "up"
           /\ ssut' = ssut
              \/ ssut' = [ssut EXCEPT !.since = now]
              \/ ssut' = [ssut EXCEPT !.since = now, !.leg = "up"]
              \/ ssut' = [ssut EXCEPT !.ackby = now + AckTimeout]
              => ssut'.accepted = ssut.accepted /\ ssut'.refused = ssut.refused
           /\ ssut' = [ssut EXCEPT !.refused = TRUE] => ssut'.accepted = ssut.accepted
           /\ ssut' = [ssut EXCEPT !.accepted = TRUE]
              \/ ssut' = [ssut EXCEPT !.since = now, !.accepted = TRUE]
              => ssut'.accepted /\ ssut'.refused = ssut.refused
BY DEF SsutShape, Over, SessionKept

\* What the SSuT does with anything but a BYE keeps the session.
Relayed(n) ==
    /\ SessionKept
    /\ \A q \in Sides : No(n[q], {"BYE"}) => No(net'[q], {"BYE"})

LEMMA SsutRelays ==
    ASSUME Typed, NEW p \in Sides, NEW n \in Nets
    PROVE  /\ SsutFrom(p, n, "answer", "plain") => Relayed(n)
           /\ SsutFrom(p, n, "refuse", "none") => Relayed(n)
           /\ \A body \in Bodies : SsutFrom(p, n, "INVITE", body) => Relayed(n)
           /\ \A body \in Bodies : SsutFrom(p, n, "200", body) => Relayed(n)
<1>1. Other(p) \in Sides /\ ssut \in SsutShape /\ now \in Nat
  BY OtherSide DEF Typed
<1>2. net' = n /\ SessionKept => Relayed(n)
  BY DEF Relayed
<1>3. ASSUME NEW to \in Sides, NEW kind, kind # "BYE", NEW body, Sent(n, to, kind, body),
             SessionKept
      PROVE  Relayed(n)
  BY <1>3, SentNo DEF Relayed
<1>4. SsutFrom(p, n, "answer", "plain") => Relayed(n)
  BY <1>1, <1>2, <1>3, SsutAnswers, SsutFields
<1>5. SsutFrom(p, n, "refuse", "none") => Relayed(n)
  BY <1>1, <1>2, <1>3, SsutRefuses, SsutFields
<1>6. ASSUME NEW body \in Bodies, SsutFrom(p, n, "INVITE", body)
      PROVE  Relayed(n)
  BY <1>1, <1>2, <1>3, <1>6, SsutInvites, SsutFields
<1>7. ASSUME NEW body \in Bodies, SsutFrom(p, n, "200", body)
      PROVE  Relayed(n)
  BY <1>1, <1>2, <1>3, <1>7, SsutAccepts, SsutFields
<1>8. QED
  BY <1>4, <1>5, <1>6, <1>7

\* A step that ends nothing keeps Knows.
LEMMA KnowsKept ==
    ASSUME Typed, Knows, NEW n \in Nets, Relayed(n),
           \A q \in Sides : No(net[q], {"BYE"}) => No(n[q], {"BYE"}),
           \A q \in Sides : Left(side'[q]) => Left(side[q])
    PROVE  Knows'
BY DEF Knows, Relayed, SessionKept

\* Once the call is over the SSuT does nothing to it.
LEMMA KnowsOver ==
    ASSUME Typed, ssut'.leg = "over", ssut'.blame # "none"
    PROVE  Knows'
BY DEF Knows

LEMMA TakenNo ==
    ASSUME Typed, NEW p \in Sides, net[p] # <<>>, NEW kinds
    PROVE  \A q \in Sides : /\ No(net[q], kinds) => No(Taken(p)[q], kinds)
                            /\ One(net[q], kinds) => One(Taken(p)[q], kinds)
<1>1. \A q \in Sides : net[q] \in Seq(MsgShape)
  BY SideTyped
<1>2. Taken(p)[p] = Tail(net[p]) /\ \A q \in Sides \ {p} : Taken(p)[q] = net[q]
  BY TakenDoes
<1>3. QED
  BY <1>1, <1>2, TailNo

LEMMA KnowsStep ==
    ASSUME Typed, Sane, Knows, [Next]_vars
    PROVE  Knows'
<1>1. "alice" \in Sides /\ "bob" \in Sides /\ net \in Nets
      /\ "plain" \in Bodies /\ "broken" \in Bodies /\ ssut \in SsutShape /\ now \in Nat
  BY SideTyped DEF Sides, Bodies, Typed
<1>2. ssut' = ssut => SessionKept
  BY DEF SessionKept
<1>3. Quiet => Relayed(net)
  BY <1>2 DEF Quiet, Relayed
<1>4. ASSUME NEW p \in Sides, net[p] # <<>>
      PROVE  /\ Taken(p) \in Nets
             /\ \A q \in Sides : No(net[q], {"BYE"}) => No(Taken(p)[q], {"BYE"})
             /\ net' = Taken(p) /\ SessionKept => Relayed(Taken(p))
  BY <1>4, TakenDoes, TakenNo DEF Relayed
<1>5. \A p \in Sides : \A kind : Arrives(p, kind) => net[p] # <<>>
  BY DEF Arrives
<1>6. ASSUME NEW p \in Sides, Turn(p), Left(side'[p]) => Left(side[p])
      PROVE  \A q \in Sides : Left(side'[q]) => Left(side[q])
  BY <1>6 DEF Turn
<1>7. ASSUME NEW p \in Sides, net[p] # <<>>, net' = Taken(p), SessionKept, Turn(p),
             Left(side'[p]) => Left(side[p])
      PROVE  Knows'
  BY <1>4, <1>6, <1>7, KnowsKept
<1>8. ASSUME Moved
      PROVE  Knows'
  <2>1. CASE \E p \in Sides : \E t : AskDone(p, t)
    <3>0. PICK p \in Sides : \E t : AskDone(p, t)
      BY <2>1
    <3>1. PICK t : AskDone(p, t)
      BY <3>0
    <3>2. Relayed(net)
      BY <1>1, <1>3, <3>1, SsutRelays DEF AskDone
    <3>3. Turn(p) /\ (Left(side'[p]) => Left(side[p]))
      BY <3>1 DEF AskDone, Same, Fields, Left
    <3>4. QED
      BY <1>1, <1>6, <3>2, <3>3, KnowsKept
  <2>2. CASE \E t : ConnectDone(t)
    <3>1. PICK t : ConnectDone(t)
      BY <2>2
    <3>2. Relayed(net)
      BY <1>1, <1>3, <3>1, SsutRelays DEF ConnectDone
    <3>3. Turn("bob") /\ (Left(side'["bob"]) => Left(side["bob"]))
      BY <3>1 DEF ConnectDone, Same, Fields, Left, bob
    <3>4. QED
      BY <1>1, <1>6, <3>2, <3>3, KnowsKept
  <2>3. CASE \E p \in Sides : \E t : LateDone(p, t)
    <3>0. PICK p \in Sides : \E t : LateDone(p, t)
      BY <2>3
    <3>1. PICK t : LateDone(p, t)
      BY <3>0
    <3>2. Relayed(net)
      BY <1>1, <1>3, <3>1, SsutRelays DEF LateDone
    <3>3. Turn(p) /\ (Left(side'[p]) => Left(side[p]))
      BY <3>1 DEF LateDone, Same, Fields, Left
    <3>4. QED
      BY <1>1, <1>6, <3>2, <3>3, KnowsKept
  <2>4. CASE \E p \in Sides : \E t : HangDone(p, t)
    <3>0. PICK p \in Sides : \E t : HangDone(p, t)
      BY <2>4
    <3>1. PICK t : HangDone(p, t)
      BY <3>0
    <3>2. CASE Quiet
      <4>1. Turn(p) /\ (Left(side'[p]) => Left(side[p]) \/ ssut.leg = "over")
        BY <3>1, <3>2, <1>1, SsutByes, SsutFields DEF HangDone, Same, Fields, Left, Quiet, Sent
      <4>2. CASE ssut.leg = "over"
        BY <3>2, <4>2, KnowsOver DEF Quiet, Knows
      <4>3. CASE ssut.leg # "over"
        BY <1>1, <1>3, <1>6, <3>2, <4>1, <4>3, KnowsKept
      <4>4. QED
        BY <4>2, <4>3
    <3>3. CASE SsutFrom(p, net, "BYE", "none")
      <4>1. ssut'.leg = "over" /\ ssut'.blame # "none"
        <5>1. p # "none"
          BY DEF Sides
        <5>2. QED
          BY <1>1, <3>3, <5>1, SsutByes, SsutFields DEF Knows
      <4>2. QED
        BY <4>1, KnowsOver
    <3>4. QED
      BY <3>1, <3>2, <3>3 DEF HangDone
  <2>5. CASE ConnectedDone
    <3>1. /\ Turn("alice") /\ (Left(side'["alice"]) => Left(side["alice"]))
          /\ net["alice"] # <<>> /\ net' = Taken("alice") /\ SessionKept
      BY <1>1, <1>2, <1>5, <2>5 DEF ConnectedDone, Takes, Same, Fields, Left, alice
    <3>2. QED
      BY <1>1, <1>7, <3>1
  <2>6. CASE \E p \in Sides : InviteDone(p)
    <3>1. PICK p \in Sides : InviteDone(p)
      BY <2>6
    <3>2. Turn(p) /\ (Left(side'[p]) => Left(side[p])) /\ net[p] # <<>>
      BY <1>5, <3>1 DEF InviteDone, Same, Fields, Left
    <3>3. CASE Takes(p)
      BY <1>2, <1>7, <3>2, <3>3 DEF Takes
    <3>4. CASE ~Takes(p)
      <4>1. Taken(p) \in Nets
        BY <1>4, <3>2
      <4>2. Relayed(Taken(p))
        BY <1>1, <3>1, <3>4, <4>1, SsutRelays DEF InviteDone
      <4>3. QED
        BY <1>4, <1>6, <3>2, <4>1, <4>2, KnowsKept
    <3>5. QED
      BY <3>3, <3>4
  <2>7. CASE \E p \in Sides : OkDone(p)
    <3>1. PICK p \in Sides : OkDone(p)
      BY <2>7
    <3>2. Turn(p) /\ (Left(side'[p]) => Left(side[p])) /\ net[p] # <<>> /\ net' = Taken(p)
      BY <1>5, <3>1 DEF OkDone, Answered, Left
    <3>3. SessionKept
      BY <1>1, <3>1, SsutFields DEF OkDone
    <3>4. QED
      BY <1>7, <3>2, <3>3
  <2>8. CASE \E p \in Sides : RefusalDone(p)
    <3>1. PICK p \in Sides : RefusalDone(p)
      BY <2>8
    <3>2. Turn(p) /\ (Left(side'[p]) => Left(side[p])) /\ net[p] # <<>> /\ net' = Taken(p)
          /\ SessionKept
      BY <1>2, <1>5, <3>1 DEF RefusalDone, Takes, Left
    <3>3. QED
      BY <1>7, <3>2
  <2>9. CASE \E p \in Sides : ByeDone(p)
    <3>1. PICK p \in Sides : ByeDone(p)
      BY <2>9
    <3>2. net[p] # <<>> /\ Head(net[p]).kind \in {"BYE"} /\ net[p] \in Seq(MsgShape)
      BY <3>1, SideTyped DEF ByeDone, Arrives
    <3>3. ~No(net[p], {"BYE"})
      BY <3>2, TailNo
    <3>4. ssut.leg = "over" /\ ssut.blame # "none"
      BY <3>3 DEF Knows
    <3>5. QED
      BY <3>1, <3>4, KnowsOver DEF ByeDone, Takes
  <2>10. CASE \E p \in Sides : DeadDone(p)
    <3>1. PICK p \in Sides : DeadDone(p)
      BY <2>10
    <3>2. Turn(p) /\ (Left(side'[p]) => Left(side[p])) /\ Relayed(net)
      BY <1>3, <3>1 DEF DeadDone, Left
    <3>3. QED
      BY <1>1, <1>6, <3>2, KnowsKept
  <2>11. CASE \E blame : ByesDone(blame) /\ Reason(blame)
    <3>1. PICK blame : ByesDone(blame) /\ Reason(blame)
      BY <2>11
    <3>2. ssut'.leg = "over" /\ ssut'.blame # "none"
      BY <1>1, <3>1, SsutFields DEF ByesDone, Reason
    <3>3. QED
      BY <3>2, KnowsOver
  <2>12. QED
    BY <1>8, <2>1, <2>2, <2>3, <2>4, <2>5, <2>6, <2>7, <2>8, <2>9, <2>10, <2>11 DEF Moved
<1>9. CASE TickDone \/ Stay
  BY <1>9 DEF TickDone, Stay, Knows, Left
<1>10. QED
  BY <1>8, <1>9, StepMoves

LEMMA PromptStep ==
    ASSUME Typed, Sane, Prompt, [Next]_vars
    PROVE  Prompt'
<1>1. ASSUME Moved, scn' = scn, scn.cls # "reinv_adelay", NEW q \in Sides
      PROVE  Owed(q)' = {} /\ ~side'[q].late
  <2>1. \A p \in Sides : Owed(p) = {} /\ ~side[p].late
    BY <1>1 DEF Prompt
  <2>2. Owed(q)' = {}
    BY <1>1, <2>1, NewTimers DEF Owed, Fresh
  <2>3. "alice" \in Sides /\ "bob" \in Sides
    BY DEF Sides
  <2>4. \A p \in Sides : \A t : ~LateDone(p, t)
    BY <2>1 DEF LateDone
  <2>5. ASSUME NEW p \in Sides, Turn(p), side'[p].late = side[p].late
        PROVE  ~side'[q].late
    BY <2>1, <2>5 DEF Turn
  <2>6. CASE \E p \in Sides : \E t : AskDone(p, t)
    BY <2>2, <2>5, <2>6 DEF AskDone, Same, Fields
  <2>7. CASE \E t : ConnectDone(t)
    BY <2>2, <2>3, <2>5, <2>7 DEF ConnectDone, Same, Fields, bob
  <2>8. CASE \E p \in Sides : \E t : HangDone(p, t)
    BY <2>2, <2>5, <2>8 DEF HangDone, Same, Fields
  <2>9. CASE ConnectedDone
    BY <2>2, <2>3, <2>5, <2>9 DEF ConnectedDone, Same, Fields, alice
  <2>10. CASE \E p \in Sides : InviteDone(p)
    BY <2>2, <2>5, <2>10 DEF InviteDone, Same, Fields
  <2>11. CASE \E p \in Sides : OkDone(p)
    BY <2>2, <2>5, <2>11 DEF OkDone, Answered, Same, Fields
  <2>12. CASE \E p \in Sides : RefusalDone(p) \/ ByeDone(p) \/ DeadDone(p)
    BY <2>2, <2>5, <2>12 DEF RefusalDone, ByeDone, DeadDone, Same, Fields
  <2>13. CASE \E blame : ByesDone(blame) /\ Reason(blame)
    BY <2>1, <2>2, <2>13 DEF ByesDone
  <2>14. QED
    BY <1>1, <2>2, <2>4, <2>6, <2>7, <2>8, <2>9, <2>10, <2>11, <2>12, <2>13 DEF Moved
<1>2. CASE TickDone \/ Stay
  BY <1>2 DEF TickDone, Stay, Prompt, Owed
<1>3. QED
  BY <1>1, <1>2, StepMoves DEF Prompt

\* Only three things can happen before Bob answers.
LEMMA BeforeTheAnswer ==
    ASSUME Typed, Sane, Begun, Moved, ~bob.connect
    PROVE  \/ side'["bob"].connect /\ \E t : ConnectDone(t)
           \/ /\ Turn("bob") /\ Quiet /\ side'["bob"].ua = bob.ua
              /\ side'["bob"].connect = bob.connect
              /\ \A u \in side'["bob"].timers : u \in bob.timers
<1>1. /\ ssut.leg = "calling" /\ alice.ua = "ringing" /\ bob.ua = "ringing"
      /\ net["alice"] = <<>> /\ net["bob"] = <<>>
      /\ alice.timers = {} /\ \A t \in bob.timers : t.cb \in {"connect", "reinvite"}
  BY DEF Begun
<1>2. \A p \in Sides : net[p] = <<>> /\ side[p].ua = "ringing" /\ (p = "alice" \/ p = "bob")
  BY <1>1 DEF Sides, alice, bob
<1>3. ASSUME NEW t
      PROVE  /\ ~(t \in alice.timers)
             /\ t \in bob.timers => t.cb \notin {"disconnect", "process_reinvite", "off_hold"}
  BY <1>1
<1>4. CASE \E p \in Sides : \E t : AskDone(p, t)
  <2>1. PICK p \in Sides : \E t : AskDone(p, t)
    BY <1>4
  <2>2. PICK t : AskDone(p, t)
    BY <2>1
  <2>3. p = "bob" /\ t \in bob.timers /\ t.cb = "reinvite"
    BY <1>2, <1>3, <2>2 DEF AskDone, Asks, alice, bob
  <2>4. ~MayReinvite(side[p])
    BY <2>3 DEF MayReinvite, bob
  <2>5. scn.cls # "reinv_adelay"
    BY <2>2, <2>3 DEF AskDone, Reinviter
  <2>6. QED
    BY <2>2, <2>3, <2>4, <2>5 DEF AskDone, Same, Fields, bob
<1>5. CASE \E t : ConnectDone(t)
  <2>1. ~bob.disconnect
    BY <1>1 DEF Sane, Sides, bob, Left
  <2>2. QED
    BY <1>5, <2>1 DEF ConnectDone
<1>6. ~(\E p \in Sides : \E t : LateDone(p, t))
  BY <1>2, <1>3 DEF LateDone, Owed, alice, bob
<1>7. ~(\E p \in Sides : \E t : HangDone(p, t))
  BY <1>2, <1>3 DEF HangDone, alice, bob
<1>8. ~ConnectedDone /\ ~(\E p \in Sides : InviteDone(p) \/ OkDone(p) \/ RefusalDone(p) \/ ByeDone(p))
  BY <1>1, <1>2 DEF ConnectedDone, InviteDone, OkDone, RefusalDone, ByeDone, Arrives
<1>9. ~(\E p \in Sides : DeadDone(p)) /\ ~(\E blame : ByesDone(blame))
  BY <1>1, <1>2 DEF DeadDone, ByesDone
<1>10. QED
  BY <1>4, <1>5, <1>6, <1>7, <1>8, <1>9 DEF Moved

\* Alice's user agent rings until she hears of the answer, or of the end.
LEMMA AliceRings ==
    ASSUME Typed, Sane, Begun, Moved, side'["alice"].ua = "ringing"
    PROVE  side'["alice"] = alice
<1>1. "alice" \in Sides /\ "bob" \in Sides
  BY DEF Sides
<1>2. ASSUME NEW p \in Sides, Turn(p), p = "alice" => side'[p] = alice
      PROVE  side'["alice"] = alice
  BY <1>1, <1>2 DEF Turn, alice
<1>3. alice.ua = "ringing" => alice.timers = {} /\ ~Left(alice)
  BY DEF Begun, Left
<1>4. ASSUME NEW p \in Sides, NEW t, AskDone(p, t) \/ LateDone(p, t) \/ HangDone(p, t)
      PROVE  p # "alice"
  <2>1. SUFFICES ASSUME p = "alice" PROVE FALSE
    OBVIOUS
  <2>2. t \in alice.timers /\ side'[p].ua = "ringing"
    BY <1>4, <2>1 DEF AskDone, LateDone, HangDone, Asks, Owed, alice
  <2>3. alice.ua = "ringing"
    BY <1>4, <2>1, <2>2 DEF AskDone, LateDone, HangDone, Same, Fields, alice
  <2>4. QED
    BY <1>3, <2>2, <2>3
<1>5. CASE \E p \in Sides : \E t : AskDone(p, t) \/ LateDone(p, t) \/ HangDone(p, t)
  BY <1>2, <1>4, <1>5 DEF AskDone, LateDone, HangDone
<1>6. CASE \E t : ConnectDone(t)
  BY <1>1, <1>2, <1>6 DEF ConnectDone
<1>7. CASE ConnectedDone
  BY <1>7 DEF ConnectedDone, alice
<1>8. CASE \E p \in Sides : InviteDone(p)
  BY <1>2, <1>8 DEF InviteDone, alice
<1>9. CASE \E p \in Sides : OkDone(p)
  BY <1>2, <1>9 DEF OkDone, Answered, alice
<1>10. CASE \E p \in Sides : RefusalDone(p) \/ ByeDone(p) \/ DeadDone(p)
  BY <1>2, <1>10 DEF RefusalDone, ByeDone, DeadDone, alice
<1>11. CASE \E blame : ByesDone(blame) /\ Reason(blame)
  BY <1>11 DEF ByesDone, alice
<1>12. QED
  BY <1>5, <1>6, <1>7, <1>8, <1>9, <1>10, <1>11 DEF Moved

\* connect_done is never taken back.
LEMMA StaysConnected ==
    ASSUME Typed, Moved, NEW q \in Sides, side[q].connect
    PROVE  side'[q].connect
<1>1. "alice" \in Sides /\ "bob" \in Sides
  BY DEF Sides
<1>2. ASSUME NEW p \in Sides, Turn(p), side'[p].connect = side[p].connect \/ side'[p].connect
      PROVE  side'[q].connect
  BY <1>2 DEF Turn
<1>3. CASE \E p \in Sides : \E t : AskDone(p, t) \/ LateDone(p, t) \/ HangDone(p, t)
  <2>1. PICK p \in Sides : \E t : AskDone(p, t) \/ LateDone(p, t) \/ HangDone(p, t)
    BY <1>3
  <2>2. Turn(p) /\ side'[p].connect = side[p].connect
    BY <2>1 DEF AskDone, LateDone, HangDone, Same, Fields
  <2>3. QED
    BY <1>2, <2>2
<1>4. CASE \E t : ConnectDone(t)
  <2>1. Turn("bob") /\ (side'["bob"].connect = side["bob"].connect \/ side'["bob"].connect)
    BY <1>4 DEF ConnectDone, Same, Fields, bob
  <2>2. QED
    BY <1>1, <1>2, <2>1
<1>5. CASE ConnectedDone
  <2>1. Turn("alice") /\ (side'["alice"].connect = side["alice"].connect \/ side'["alice"].connect)
    BY <1>5 DEF ConnectedDone, Same, Fields, alice
  <2>2. QED
    BY <1>1, <1>2, <2>1
<1>6. CASE \E p \in Sides : InviteDone(p)
  BY <1>2, <1>6 DEF InviteDone, Same, Fields
<1>7. CASE \E p \in Sides : OkDone(p)
  BY <1>2, <1>7 DEF OkDone, Answered, Same, Fields
<1>8. CASE \E p \in Sides : RefusalDone(p) \/ ByeDone(p) \/ DeadDone(p)
  BY <1>2, <1>8 DEF RefusalDone, ByeDone, DeadDone, Same, Fields
<1>9. CASE \E blame : ByesDone(blame) /\ Reason(blame)
  BY <1>9 DEF ByesDone
<1>10. QED
  BY <1>3, <1>4, <1>5, <1>6, <1>7, <1>8, <1>9 DEF Moved

LEMMA BegunStep ==
    ASSUME Typed, Sane, Begun, [Next]_vars
    PROVE  Begun'
<1>1. CASE Moved
  <2>1. ASSUME ~side'["bob"].connect
        PROVE  /\ ssut'.leg = "calling" /\ side'["alice"].ua = "ringing"
               /\ side'["bob"].ua = "ringing"
               /\ net'["alice"] = <<>> /\ net'["bob"] = <<>>
               /\ \A t \in side'["bob"].timers : t.cb \in {"connect", "reinvite"}
    <3>1. ~bob.connect
      BY <1>1, <2>1, StaysConnected DEF Sides, bob
    <3>2. /\ Turn("bob") /\ Quiet /\ side'["bob"].ua = bob.ua
          /\ \A u \in side'["bob"].timers : u \in bob.timers
      BY <1>1, <2>1, <3>1, BeforeTheAnswer
    <3>3. side'["alice"] = alice
      BY <3>2 DEF Turn, Sides, alice
    <3>4. QED
      BY <3>1, <3>2, <3>3 DEF Begun, Quiet
  <2>2. side'["alice"].ua = "ringing" => side'["alice"] = alice
    BY <1>1, AliceRings
  <2>3. QED
    BY <2>1, <2>2 DEF Begun, alice, bob
<1>2. CASE TickDone \/ Stay
  BY <1>2 DEF TickDone, Stay, Begun, alice, bob
<1>3. QED
  BY <1>1, <1>2, StepMoves

\* What a verdict of success says about a side.
Just(p, s) ==
    s.verdict = Success =>
        /\ s.ua = "dead" /\ s.connect /\ s.nerrs = 0
        /\ p = Reinviter(scn.cls) => s.done
        /\ p = "bob" /\ scn.cls = "reinv_onhold" => OnHoldOver(s)

LEMMA JustifiedStep ==
    ASSUME Typed, Sane, Justified, [Next]_vars
    PROVE  Justified'
<1>1. \A p \in Sides : Just(p, side[p]) /\ (Left(side[p]) <=> side[p].disconnect)
  BY DEF Justified, Just, Sane
<1>2. "alice" \in Sides /\ "bob" \in Sides
  BY DEF Sides
<1>3. ASSUME NEW p \in Sides, NEW r,
             r.verdict = side[p].verdict,
             side[p].ua = "dead" => Same(r, side[p], {"timers", "late"})
      PROVE  Just(p, r)
  BY <1>1, <1>3 DEF Just, Same, Fields, OnHoldOver
<1>4. ASSUME Moved, scn' = scn
      PROVE  \A q \in Sides : Just(q, side'[q])
  <2>1. ASSUME NEW p \in Sides, Turn(p), Just(p, side'[p])
        PROVE  \A q \in Sides : Just(q, side'[q])
    BY <1>1, <2>1 DEF Turn
  <2>2. CASE \E p \in Sides : \E t : AskDone(p, t)
    <3>0. PICK p \in Sides : \E t : AskDone(p, t)
      BY <2>2
    <3>1. PICK t : AskDone(p, t)
      BY <3>0
    <3>2. side'[p].verdict = side[p].verdict
      BY <3>1 DEF AskDone, Same, Fields
    <3>3. CASE side[p].ua = "dead"
      <4>1. Same(side'[p], side[p], {"timers", "offs"}) /\ p = Reinviter(scn.cls)
        BY <1>1, <3>1, <3>3 DEF AskDone, MayReinvite, Left
      <4>2. ~(p = "bob" /\ scn.cls = "reinv_onhold")
        BY <4>1 DEF Reinviter
      <4>3. Just(p, side'[p])
        BY <1>1, <4>1, <4>2 DEF Just, Same, Fields
      <4>4. QED
        BY <2>1, <3>1, <4>3 DEF AskDone
    <3>4. CASE side[p].ua # "dead"
      BY <1>3, <2>1, <3>1, <3>2, <3>4 DEF AskDone
    <3>5. QED
      BY <3>3, <3>4
  <2>3. CASE \E t : ConnectDone(t)
    <3>1. PICK t : ConnectDone(t)
      BY <2>3
    <3>2. Turn("bob") /\ side'["bob"].verdict = side["bob"].verdict
      BY <3>1 DEF ConnectDone, Same, Fields, bob
    <3>3. side["bob"].ua = "dead" => Same(side'["bob"], side["bob"], {"timers", "late"})
      BY <1>1, <1>2, <3>1 DEF ConnectDone, Same, Fields, bob, Left
    <3>4. Just("bob", side'["bob"])
      BY <1>2, <1>3, <3>2, <3>3
    <3>5. QED
      BY <1>2, <2>1, <3>2, <3>4
  <2>4. CASE \E p \in Sides : \E t : LateDone(p, t) \/ HangDone(p, t)
    <3>1. PICK p \in Sides : \E t : LateDone(p, t) \/ HangDone(p, t)
      BY <2>4
    <3>2. Turn(p) /\ side'[p].verdict = side[p].verdict
      BY <3>1 DEF LateDone, HangDone, Same, Fields
    <3>3. side[p].ua = "dead" => Same(side'[p], side[p], {"timers", "late"})
      BY <3>1 DEF LateDone, HangDone, Same, Fields, Left
    <3>4. QED
      BY <1>3, <2>1, <3>2, <3>3
  <2>5. CASE ConnectedDone
    <3>1. Turn("alice") /\ side'["alice"].verdict = side["alice"].verdict
      BY <2>5 DEF ConnectedDone, Same, Fields, alice
    <3>2. side["alice"].ua = "dead" => side'["alice"] = side["alice"]
      BY <2>5 DEF ConnectedDone, alice
    <3>3. Just("alice", side'["alice"])
      BY <1>2, <1>3, <3>1, <3>2, SameSelf
    <3>4. QED
      BY <1>2, <2>1, <3>1, <3>3
  <2>6. CASE \E p \in Sides : InviteDone(p) \/ OkDone(p) \/ RefusalDone(p) \/ ByeDone(p)
    <3>1. PICK p \in Sides : InviteDone(p) \/ OkDone(p) \/ RefusalDone(p) \/ ByeDone(p)
      BY <2>6
    <3>2. Turn(p)
      BY <3>1 DEF InviteDone, OkDone, RefusalDone, ByeDone
    <3>3. side'[p].verdict = side[p].verdict
      BY <3>1 DEF InviteDone, OkDone, Answered, RefusalDone, ByeDone, Same, Fields
    <3>4. side[p].ua = "dead" => side'[p] = side[p]
      BY <3>1 DEF InviteDone, OkDone, RefusalDone, ByeDone, Left
    <3>5. QED
      BY <1>3, <2>1, <3>2, <3>3, <3>4, SameSelf
  <2>7. CASE \E p \in Sides : DeadDone(p)
    <3>1. PICK p \in Sides : DeadDone(p)
      BY <2>7
    <3>2. ASSUME VerdictAfter(p, side[p]) = Success
          PROVE  /\ side[p].connect /\ side[p].nerrs = 0
                 /\ p = Reinviter(scn.cls) => side[p].done
                 /\ p = "bob" /\ scn.cls = "reinv_onhold" => OnHoldOver(side[p])
      <4>1. side[p].nerrs \in Nat
        BY SideTyped DEF SideShape
      <4>2. side[p].connect /\ side[p].nerrs + ReinviteErrs(p, scn.cls, side[p]) = 0
        BY <3>2 DEF VerdictAfter, Success, Failure
      <4>3. QED
        BY <4>1, <4>2 DEF ReinviteErrs
    <3>3. Just(p, side'[p])
      BY <3>1, <3>2 DEF DeadDone, Just, Same, Fields, OnHoldOver
    <3>4. QED
      BY <2>1, <3>1, <3>3 DEF DeadDone
  <2>8. CASE \E blame : ByesDone(blame) /\ Reason(blame)
    BY <1>1, <2>8 DEF ByesDone
  <2>9. QED
    BY <1>4, <2>2, <2>3, <2>4, <2>5, <2>6, <2>7, <2>8 DEF Moved
<1>5. CASE (Moved /\ scn' = scn) \/ TickDone \/ Stay
  BY <1>1, <1>4, <1>5 DEF TickDone, Stay, Justified, Just, OnHoldOver
<1>6. QED
  BY <1>5, StepMoves

-----------------------------------------------------------------------------
(* One re-INVITE at a time                                                 *)

\* No re-INVITE and no answer to one is sent.
Plain(n) ==
    \A q \in Sides : /\ No(net'[q], Offer) <=> No(n[q], Offer)
                     /\ One(net'[q], Offer) <=> One(n[q], Offer)
                     /\ No(net'[q], Reply) <=> No(n[q], Reply)
                     /\ One(net'[q], Reply) <=> One(n[q], Reply)

\* An answer to a re-INVITE is sent to q.
Told(n, q) ==
    /\ \A x \in Sides : /\ No(net'[x], Offer) <=> No(n[x], Offer)
                        /\ One(net'[x], Offer) <=> One(n[x], Offer)
    /\ \A x \in Sides \ {q} : /\ No(net'[x], Reply) <=> No(n[x], Reply)
                              /\ One(net'[x], Reply) <=> One(n[x], Reply)
    /\ No(n[q], Reply) => One(net'[q], Reply)

\* A re-INVITE is sent to q.
Invited(n, q) ==
    /\ \A x \in Sides : /\ No(net'[x], Reply) <=> No(n[x], Reply)
                        /\ One(net'[x], Reply) <=> One(n[x], Reply)
    /\ \A x \in Sides \ {q} : /\ No(net'[x], Offer) <=> No(n[x], Offer)
                              /\ One(net'[x], Offer) <=> One(n[x], Offer)
    /\ No(n[q], Offer) => One(net'[q], Offer)

LEMMA SentKinds ==
    ASSUME NEW n \in Nets, NEW to \in Sides, NEW kind, NEW body, Sent(n, to, kind, body)
    PROVE  /\ kind \in {"BYE", "answer"} => Plain(n)
           /\ kind \in Reply => Told(n, to)
           /\ kind = "INVITE" => Invited(n, to)
<1>1. kind \in {"BYE", "answer"} => kind \notin Offer /\ kind \notin Reply
  BY DEF Offer, Reply
<1>2. kind \in Reply => kind \notin Offer
  BY DEF Offer, Reply
<1>3. kind = "INVITE" => kind \notin Reply
  BY DEF Reply
<1>4. kind \in {"BYE", "answer"} => Plain(n)
  BY <1>1, SentNo DEF Plain
<1>5. kind \in Reply => Told(n, to)
  BY <1>2, SentNo DEF Told
<1>6. kind = "INVITE" => Invited(n, to)
  BY <1>3, SentNo DEF Invited
<1>7. QED
  BY <1>4, <1>5, <1>6

LEMMA SsutKinds ==
    ASSUME Typed, NEW p \in Sides, NEW n \in Nets
    PROVE  /\ net' = n => Plain(n)
           /\ SsutFrom(p, n, "BYE", "none") => Plain(n)
           /\ SsutFrom(p, n, "answer", "plain") => Plain(n)
           /\ SsutFrom(p, n, "refuse", "none") => Plain(n) \/ Told(n, Other(p))
           /\ \A body \in Bodies : SsutFrom(p, n, "INVITE", body)
                  => Plain(n) \/ Told(n, p) \/ Invited(n, Other(p))
           /\ \A body \in Bodies : SsutFrom(p, n, "200", body)
                  => Plain(n) \/ Told(n, Other(p))
<1>1. Other(p) \in Sides /\ "200" \in Reply /\ "refuse" \in Reply
  BY OtherSide DEF Reply
<1>2. net' = n => Plain(n)
  BY DEF Plain
<1>3. SsutFrom(p, n, "BYE", "none") => Plain(n)
  BY <1>1, <1>2, SsutByes, SentKinds
<1>4. SsutFrom(p, n, "answer", "plain") => Plain(n)
  BY <1>1, <1>2, SsutAnswers, SentKinds
<1>5. SsutFrom(p, n, "refuse", "none") => Plain(n) \/ Told(n, Other(p))
  BY <1>1, <1>2, SsutRefuses, SentKinds
<1>6. ASSUME NEW body \in Bodies, SsutFrom(p, n, "INVITE", body)
      PROVE  Plain(n) \/ Told(n, p) \/ Invited(n, Other(p))
  BY <1>1, <1>2, <1>6, SsutInvites, SentKinds
<1>7. ASSUME NEW body \in Bodies, SsutFrom(p, n, "200", body)
      PROVE  Plain(n) \/ Told(n, Other(p))
  BY <1>1, <1>2, <1>7, SsutAccepts, SentKinds
<1>8. QED
  BY <1>2, <1>3, <1>4, <1>5, <1>6, <1>7

LEMMA ByesKinds ==
    ASSUME Typed, NEW blame, ByesDone(blame)
    PROVE  Plain(net)
<1>1. ASSUME NEW q \in Sides
      PROVE  /\ No(net'[q], Offer) <=> No(net[q], Offer)
             /\ One(net'[q], Offer) <=> One(net[q], Offer)
             /\ No(net'[q], Reply) <=> No(net[q], Reply)
             /\ One(net'[q], Reply) <=> One(net[q], Reply)
  <2>1. PICK m : net'[q] = Append(net[q], m) /\ Behind(net[q], m) /\ m.kind = "BYE"
    BY DEF ByesDone
  <2>2. m.kind \notin Offer /\ m.kind \notin Reply /\ m \in MsgShape /\ net[q] \in Seq(MsgShape)
    BY <2>1, SideTyped DEF Offer, Reply, Behind
  <2>3. QED
    BY <2>1, <2>2, AppendedNo
<1>2. QED
  BY <1>1 DEF Plain

LEMMA TakenKinds ==
    ASSUME Typed, NEW p \in Sides, NEW kind, Arrives(p, kind)
    PROVE  /\ Taken(p) \in Nets /\ net[p] # <<>>
           /\ \A q \in Sides : /\ No(net[q], Offer) => No(Taken(p)[q], Offer)
                               /\ One(net[q], Offer) => One(Taken(p)[q], Offer)
                               /\ No(net[q], Reply) => No(Taken(p)[q], Reply)
                               /\ One(net[q], Reply) => One(Taken(p)[q], Reply)
           /\ \A q \in Sides \ {p} : Taken(p)[q] = net[q]
           /\ kind \in Offer => ~No(net[p], Offer)
           /\ kind \in Offer /\ One(net[p], Offer) => No(Taken(p)[p], Offer)
           /\ kind \in Reply => ~No(net[p], Reply)
           /\ kind \in Reply /\ One(net[p], Reply) => No(Taken(p)[p], Reply)
<1>1. net[p] # <<>> /\ Head(net[p]).kind = kind /\ net[p] \in Seq(MsgShape)
  BY SideTyped DEF Arrives
<1>2. Taken(p) \in Nets /\ Taken(p)[p] = Tail(net[p])
      /\ \A q \in Sides \ {p} : Taken(p)[q] = net[q]
  BY <1>1, TakenDoes
<1>3. QED
  BY <1>1, <1>2, TakenNo, TailNo

\* A step that leaves the stages of the re-INVITE alone, or forgets some.
LEMMA InTurnKept ==
    ASSUME NEW r \in Sides, NEW o \in Sides, InTurn(r, o),
           \A q \in {r, o} :
               /\ Owed(q)' \subseteq Owed(q) /\ Asks(q)' \subseteq Asks(q)
               /\ No(net[q], Offer) => No(net'[q], Offer)
               /\ One(net[q], Offer) => One(net'[q], Offer)
               /\ No(net[q], Reply) => No(net'[q], Reply)
               /\ One(net[q], Reply) => One(net'[q], Reply),
           side'[o].ua # "updating", side'[r].ua # "asked", ~side'[o].busy, ~side'[o].done,
           side'[r].ua = "updating" => side[r].ua = "updating",
           side[r].ua = "updating" \/ Left(side[r])
               => side'[r].ua = "updating" \/ Left(side'[r])
    PROVE  InTurn(r, o)'
<1>1. \A set, sub : Single(set) /\ sub \subseteq set => Single(sub)
  BY DEF Single
<1>2. Owed(r)' = {} /\ Single(Owed(o)') /\ Single(Asks(r)')
  BY <1>1 DEF InTurn
<1>3. Owed(o) = {} => Owed(o)' = {}
  OBVIOUS
<1>4. Asks(r) = {} => Asks(r)' = {}
  OBVIOUS
<1> DEFINE owr == Owed(r)'
           owo == Owed(o)'
           asr == Asks(r)'
<1>5. /\ No(net'[r], Offer) /\ No(net'[o], Reply)
      /\ One(net'[o], Offer) /\ One(net'[r], Reply)
  BY DEF InTurn
<1>6. /\ ~No(net'[o], Offer) => Owed(o)' = {} /\ No(net'[r], Reply)
      /\ Owed(o)' # {} => No(net'[r], Reply)
  BY <1>3 DEF InTurn
<1>7. ~No(net'[o], Offer) \/ Owed(o)' # {} \/ ~No(net'[r], Reply)
           => side'[r].ua = "updating" \/ Left(side'[r])
  BY <1>3 DEF InTurn
<1>8. side'[r].ua = "updating" => Asks(r)' = {}
  BY <1>4 DEF InTurn
<1>9. QED
  BY <1>2, <1>5, <1>6, <1>7, <1>8 DEF InTurn

\* The side that does not move keeps its timers.
LEMMA OtherTimers ==
    ASSUME NEW p \in Sides, Turn(p)
    PROVE  \A q \in Sides \ {p} : side'[q] = side[q] /\ Asks(q)' = Asks(q) /\ Owed(q)' = Owed(q)
BY DEF Turn, Asks, Owed

LEMMA InTurnStep ==
    ASSUME Typed, Sane, Begun, Moved, scn' = scn,
           NEW r \in Sides, NEW o \in Sides, o # r, r = Reinviter(scn.cls), InTurn(r, o)
    PROVE  InTurn(r, o)'
<1>1. /\ Sides = {r, o} /\ Other(r) = o /\ Other(o) = r /\ net \in Nets
      /\ "plain" \in Bodies /\ "broken" \in Bodies
      /\ \A p \in Sides : p = r \/ p = o
  BY OtherSide, SideTyped DEF Sides, Bodies
<1>2. \A q \in Sides : Left(side[q]) <=> side[q].disconnect
  BY DEF Sane
<1>3. \A cb, ival : Timer(cb, ival).cb = cb
  BY DEF Timer
<1>4. \A n : Plain(n) => \A q \in {r, o} : /\ No(n[q], Offer) => No(net'[q], Offer)
                                           /\ One(n[q], Offer) => One(net'[q], Offer)
                                           /\ No(n[q], Reply) => No(net'[q], Reply)
                                           /\ One(n[q], Reply) => One(net'[q], Reply)
  BY <1>1 DEF Plain
<1>5. Asks(o) = {} /\ \A q, kinds : No(q, kinds) => One(q, kinds)
  BY DEF Sane, No, One
<1>6. CASE \E p \in Sides : \E t : AskDone(p, t)
  <2>0. PICK p \in Sides : \E t : AskDone(p, t)
    BY <1>6
  <2>1. PICK t : AskDone(p, t)
    BY <2>0
  <2>2. p = r /\ t \in Asks(r) /\ Turn(r) /\ side[r].ua # "updating"
    BY <2>1 DEF AskDone, InTurn
  <2>3. side'[o] = side[o] /\ Asks(o)' = Asks(o) /\ Owed(o)' = Owed(o)
    BY <2>2, OtherTimers
  <2>4. Owed(r)' \subseteq Owed(r) /\ Asks(r)' \subseteq Asks(r) \ {t}
    BY <1>3, <2>1, <2>2 DEF AskDone, Asks, Owed
  <2>5. CASE ~MayReinvite(side[r])
    <3>1. Same(side'[r], side[r], {"timers", "offs"}) /\ Plain(net)
      BY <1>1, <2>1, <2>2, <2>5, SsutKinds DEF AskDone, Quiet
    <3>2. side'[r].ua = side[r].ua /\ (Left(side'[r]) <=> Left(side[r]))
      BY <3>1 DEF Same, Fields, Left
    <3>3. side'[o].ua # "updating" /\ side'[r].ua # "asked" /\ ~side'[o].busy /\ ~side'[o].done
      BY <2>3, <3>2 DEF InTurn
    <3>4. QED
      BY <1>4, <2>3, <2>4, <3>1, <3>2, <3>3, InTurnKept
  <2>6. CASE MayReinvite(side[r])
    <3>1. side'[r].ua = "updating" /\ \E body \in Bodies : SsutFrom(r, net, "INVITE", body)
      BY <2>1, <2>2, <2>6 DEF AskDone
    <3>2. Plain(net) \/ Told(net, r) \/ Invited(net, o)
      BY <1>1, <3>1, SsutKinds
    <3>3. ~Left(side[r])
      BY <1>2, <2>6 DEF MayReinvite
    <3>4. No(net[o], Offer) /\ Owed(o) = {} /\ No(net[r], Reply) /\ No(net[r], Offer)
          /\ No(net[o], Reply) /\ Owed(r) = {}
      BY <2>2, <3>3 DEF InTurn
    <3>5. Asks(r)' = {} /\ Owed(r)' = {} /\ Owed(o)' = {}
      BY <2>2, <2>3, <2>4, <3>4 DEF InTurn, Single
    <3>6. /\ No(net'[r], Offer) /\ No(net'[o], Reply) /\ One(net'[o], Offer)
          /\ One(net'[r], Reply) /\ (No(net'[o], Offer) \/ No(net'[r], Reply))
      <4>1. One(net[o], Offer) /\ One(net[r], Reply) /\ r # o
        BY <1>5, <3>4
      <4>2. CASE Plain(net)
        BY <1>1, <3>4, <4>1, <4>2 DEF Plain
      <4>3. CASE Told(net, r)
        BY <1>1, <3>4, <4>1, <4>3 DEF Told
      <4>4. CASE Invited(net, o)
        BY <1>1, <3>4, <4>1, <4>4 DEF Invited
      <4>5. QED
        BY <3>2, <4>2, <4>3, <4>4
    <3>7. side'[o].ua # "updating" /\ ~side'[o].busy /\ ~side'[o].done
      BY <2>3 DEF InTurn
    <3>8. QED
      BY <3>1, <3>5, <3>6, <3>7 DEF InTurn, Single
  <2>7. QED
    BY <2>5, <2>6
<1>7. CASE \E t : ConnectDone(t)
  <2>1. PICK t : ConnectDone(t)
    BY <1>7
  <2>2. "bob" \in Sides /\ Turn("bob") /\ bob = side["bob"]
    BY <2>1 DEF ConnectDone, Sides, bob
  <2>3. Plain(net)
    BY <1>1, <2>1, <2>2, SsutKinds DEF ConnectDone, Quiet
  <2>4. /\ Owed("bob")' \subseteq Owed("bob") /\ Asks("bob")' \subseteq Asks("bob")
    BY <1>3, <2>1 DEF ConnectDone, Asks, Owed, bob
  <2>5. \A q \in {r, o} : Owed(q)' \subseteq Owed(q) /\ Asks(q)' \subseteq Asks(q)
    BY <1>1, <2>2, <2>4, OtherTimers
  <2>6. /\ side'["bob"].ua = bob.ua \/ (side'["bob"].ua = "up" /\ bob.ua = "ringing")
        /\ side'["bob"].busy = bob.busy /\ side'["bob"].done = bob.done
    BY <2>1 DEF ConnectDone, Same, Fields, Begun
  <2>7. ASSUME NEW q \in Sides
        PROVE  /\ side'[q].ua = side[q].ua \/ (side'[q].ua = "up" /\ side[q].ua = "ringing")
               /\ side'[q].busy = side[q].busy /\ side'[q].done = side[q].done
    <3>1. CASE q = "bob"
      BY <2>2, <2>6, <3>1
    <3>2. CASE q # "bob"
      BY <2>2, <3>2 DEF Turn
    <3>3. QED
      BY <3>1, <3>2
  <2>8. /\ side'[o].ua # "updating" /\ side'[r].ua # "asked" /\ ~side'[o].busy /\ ~side'[o].done
        /\ side'[r].ua = "updating" => side[r].ua = "updating"
        /\ side[r].ua = "updating" \/ Left(side[r])
              => side'[r].ua = "updating" \/ Left(side'[r])
    BY <2>7 DEF InTurn, Left
  <2>9. QED
    BY <1>4, <2>3, <2>5, <2>8, InTurnKept
<1>8. CASE \E p \in Sides : \E t : LateDone(p, t)
  <2>0. PICK p \in Sides : \E t : LateDone(p, t)
    BY <1>8
  <2>1. PICK t : LateDone(p, t)
    BY <2>0
  <2>2. p = o /\ t \in Owed(o) /\ Turn(o)
    BY <1>1, <2>1 DEF LateDone, InTurn
  <2>3. side'[r] = side[r] /\ Asks(r)' = Asks(r) /\ Owed(r)' = Owed(r)
    BY <2>2, OtherTimers
  <2>4. Owed(o)' \subseteq Owed(o) \ {t} /\ Asks(o)' \subseteq Asks(o)
    BY <2>1, <2>2 DEF LateDone, Asks, Owed
  <2>5. Owed(o)' = {}
    BY <2>2, <2>4 DEF InTurn, Single
  <2>6. No(net[r], Reply) /\ No(net[o], Offer) /\ (side[r].ua = "updating" \/ Left(side[r]))
    BY <2>2 DEF InTurn
  <2>7. Plain(net) \/ Told(net, r)
    BY <1>1, <2>1, <2>2, SsutKinds DEF LateDone, Quiet
  <2>8. /\ No(net'[r], Offer) /\ No(net'[o], Reply) /\ No(net'[o], Offer)
        /\ One(net'[o], Offer) /\ One(net'[r], Reply)
    BY <1>1, <2>6, <2>7 DEF Plain, Told, InTurn
  <2>9. side'[o].ua # "updating" /\ ~side'[o].busy /\ ~side'[o].done
    BY <2>1, <2>2 DEF LateDone, Same, Fields, InTurn
  <2>10. QED
    BY <2>3, <2>5, <2>6, <2>8, <2>9 DEF InTurn, Single
<1>9. CASE \E p \in Sides : \E t : HangDone(p, t)
  <2>0. PICK p \in Sides : \E t : HangDone(p, t)
    BY <1>9
  <2>1. PICK t : HangDone(p, t)
    BY <2>0
  <2>2. Plain(net) /\ Turn(p)
    BY <1>1, <2>1, SsutKinds DEF HangDone, Quiet
  <2>3. Owed(p)' \subseteq Owed(p) /\ Asks(p)' \subseteq Asks(p)
    BY <1>3, <2>1 DEF HangDone, Asks, Owed
  <2>4. \A q \in {r, o} : Owed(q)' \subseteq Owed(q) /\ Asks(q)' \subseteq Asks(q)
    BY <1>1, <2>2, <2>3, OtherTimers
  <2>5. /\ side'[p].ua = side[p].ua \/ side'[p].ua = "ended"
        /\ side'[p].busy = side[p].busy /\ side'[p].done = side[p].done
    BY <2>1 DEF HangDone, Same, Fields
  <2>6. \A q \in Sides : /\ side'[q].ua = side[q].ua \/ side'[q].ua = "ended"
                         /\ side'[q].busy = side[q].busy /\ side'[q].done = side[q].done
    BY <1>1, <2>2, <2>5, OtherTimers
  <2>7. /\ side'[o].ua # "updating" /\ side'[r].ua # "asked" /\ ~side'[o].busy /\ ~side'[o].done
        /\ side'[r].ua = "updating" => side[r].ua = "updating"
        /\ side[r].ua = "updating" \/ Left(side[r])
              => side'[r].ua = "updating" \/ Left(side'[r])
    BY <2>6 DEF InTurn, Left
  <2>8. QED
    BY <1>4, <2>2, <2>4, <2>7, InTurnKept
<1>10. CASE ConnectedDone
  <2>1. /\ Taken("alice") \in Nets /\ net' = Taken("alice") /\ Turn("alice") /\ "alice" \in Sides
        /\ \A q \in {r, o} : /\ No(net[q], Offer) => No(net'[q], Offer)
                             /\ One(net[q], Offer) => One(net'[q], Offer)
                             /\ No(net[q], Reply) => No(net'[q], Reply)
                             /\ One(net[q], Reply) => One(net'[q], Reply)
    BY <1>1, <1>10, TakenKinds DEF ConnectedDone, Takes, Sides
  <2>2. CASE alice.ua # "ringing"
    <3>1. side'["alice"] = side["alice"]
      BY <1>10, <2>2 DEF ConnectedDone, alice
    <3>2. \A q \in Sides : side'[q] = side[q] /\ Asks(q)' = Asks(q) /\ Owed(q)' = Owed(q)
      BY <2>1, <3>1, OtherTimers DEF Asks, Owed
    <3>3. /\ side'[o].ua # "updating" /\ side'[r].ua # "asked" /\ ~side'[o].busy /\ ~side'[o].done
      BY <3>2 DEF InTurn
    <3>4. QED
      BY <1>1, <2>1, <3>2, <3>3, InTurnKept
  <2>3. CASE alice.ua = "ringing"
    <3>1. /\ side'["alice"].ua = "up" /\ alice.timers = {} /\ alice = side["alice"]
          /\ side'["alice"].busy = alice.busy /\ side'["alice"].done = alice.done
          /\ side'["alice"].timers =
                 {} \cup {Timer("disconnect", DisconnectIval("alice", scn.cls))}
                 \cup (IF Reinviter(scn.cls) = "alice"
                       THEN {Timer("reinvite", ReinviteIval(scn.cls))} ELSE {})
      BY <1>10, <2>3 DEF ConnectedDone, Same, Fields, Begun, alice
    <3>2. Owed("alice")' = {}
      BY <1>3, <3>1 DEF Owed
    <3>3. CASE r = "alice"
      <4>1. Asks(r)' \subseteq {Timer("reinvite", ReinviteIval(scn.cls))}
        BY <1>3, <3>1, <3>3 DEF Asks
      <4>2. Single(Asks(r)')
        BY <4>1 DEF Single
      <4>3. side'[o] = side[o] /\ Asks(o)' = Asks(o) /\ Owed(o)' = Owed(o)
        BY <2>1, <3>3, OtherTimers
      <4>4. No(net[o], Offer) /\ Owed(o) = {} /\ No(net[r], Reply)
        BY <2>3, <3>1, <3>3 DEF InTurn, Left
      <4>5. QED
        BY <2>1, <3>1, <3>2, <3>3, <4>2, <4>3, <4>4 DEF InTurn
    <3>4. CASE o = "alice"
      <4>1. Asks(o)' = {}
        BY <1>1, <1>3, <3>1, <3>4 DEF Asks
      <4>2. side'[r] = side[r] /\ Asks(r)' = Asks(r) /\ Owed(r)' = Owed(r)
        BY <2>1, <3>4, OtherTimers
      <4>3. \A q \in {r, o} : Owed(q)' \subseteq Owed(q) /\ Asks(q)' \subseteq Asks(q)
        BY <3>2, <3>4, <4>1, <4>2
      <4>4. /\ side'[o].ua # "updating" /\ side'[r].ua # "asked"
            /\ ~side'[o].busy /\ ~side'[o].done
        BY <3>1, <3>4, <4>2 DEF InTurn
      <4>5. QED
        BY <2>1, <4>2, <4>3, <4>4, InTurnKept
    <3>5. QED
      BY <1>1, <2>1, <3>3, <3>4
  <2>4. QED
    BY <2>2, <2>3
<1>11. CASE \E p \in Sides : InviteDone(p)
  <2>1. PICK p \in Sides : InviteDone(p)
    BY <1>11
  <2>2. "INVITE" \in Offer
    BY DEF Offer
  <2>3. /\ ~No(net[p], Offer) /\ Taken(p) \in Nets /\ Turn(p)
        /\ One(net[p], Offer) => No(Taken(p)[p], Offer)
        /\ \A q \in Sides \ {p} : Taken(p)[q] = net[q]
        /\ No(net[p], Reply) => No(Taken(p)[p], Reply)
    BY <2>1, <2>2, TakenKinds DEF InviteDone
  <2>4. p = o
    BY <1>1, <2>3 DEF InTurn
  <2>5. side'[r] = side[r] /\ Asks(r)' = Asks(r) /\ Owed(r)' = Owed(r)
    BY <2>3, <2>4, OtherTimers
  <2>6. /\ No(Taken(o)[o], Offer) /\ No(Taken(o)[o], Reply) /\ No(Taken(o)[r], Offer)
        /\ No(Taken(o)[r], Reply) /\ Owed(o) = {}
        /\ (side[r].ua = "updating" \/ Left(side[r]))
    BY <2>3, <2>4 DEF InTurn
  <2>7. Plain(Taken(o)) \/ Told(Taken(o), r)
    BY <1>1, <2>1, <2>3, <2>4, SsutKinds DEF InviteDone, Takes
  <2>8. /\ No(net'[r], Offer) /\ No(net'[o], Reply) /\ No(net'[o], Offer)
        /\ One(net'[o], Offer) /\ One(net'[r], Reply)
    <3>1. One(Taken(o)[o], Offer) /\ One(Taken(o)[r], Reply) /\ r # o
      BY <1>5, <2>6
    <3>2. CASE Plain(Taken(o))
      BY <1>1, <2>6, <3>1, <3>2 DEF Plain
    <3>3. CASE Told(Taken(o), r)
      BY <1>1, <2>6, <3>1, <3>3 DEF Told
    <3>4. QED
      BY <2>7, <3>2, <3>3
  <2>9. side'[o].ua # "updating" /\ ~side'[o].busy /\ ~side'[o].done
    BY <2>1, <2>4 DEF InviteDone, Same, Fields, InTurn
  <2>10. CASE side'[o].timers = side[o].timers
    <3>1. Owed(o)' = {}
      BY <2>6, <2>10 DEF Owed
    <3>2. QED
      BY <2>5, <2>6, <2>8, <2>9, <3>1 DEF InTurn, Single
  <2>11. CASE Takes(o) /\ side'[o].timers = side[o].timers \cup {Timer("process_reinvite", 70)}
    <3>1. Single(Owed(o)')
      BY <2>6, <2>11 DEF Owed, Single
    <3>2. No(net'[r], Reply)
      BY <2>6, <2>11 DEF Takes
    <3>3. QED
      BY <2>5, <2>6, <2>8, <2>9, <3>1, <3>2 DEF InTurn
  <2>12. QED
    BY <2>1, <2>4, <2>10, <2>11 DEF InviteDone
<1>12. CASE \E p \in Sides : OkDone(p) \/ RefusalDone(p)
  <2>1. PICK p \in Sides : OkDone(p) \/ RefusalDone(p)
    BY <1>12
  <2>2. "200" \in Reply /\ "refuse" \in Reply
    BY DEF Reply
  <2>3. /\ ~No(net[p], Reply) /\ Taken(p) \in Nets /\ Turn(p) /\ net' = Taken(p)
        /\ One(net[p], Reply) => No(Taken(p)[p], Reply)
        /\ \A q \in Sides \ {p} : Taken(p)[q] = net[q]
        /\ No(net[p], Offer) => No(Taken(p)[p], Offer)
    BY <2>1, <2>2, TakenKinds DEF OkDone, RefusalDone, Takes
  <2>4. p = r
    BY <1>1, <2>3 DEF InTurn
  <2>5. side'[o] = side[o] /\ Asks(o)' = Asks(o) /\ Owed(o)' = Owed(o)
    BY <2>3, <2>4, OtherTimers
  <2>6. No(net'[r], Reply) /\ No(net'[r], Offer) /\ No(net'[o], Offer) /\ Owed(o) = {}
        /\ No(net'[o], Reply)
    BY <2>3, <2>4 DEF InTurn
  <2>7. One(net'[o], Offer) /\ One(net'[r], Reply)
    BY <2>6 DEF One, No
  <2>8. CASE side'[r] = side[r]
    <3>1. Asks(r)' = Asks(r) /\ Owed(r)' = Owed(r)
      BY <2>8 DEF Asks, Owed
    <3>2. QED
      BY <2>5, <2>6, <2>7, <2>8, <3>1 DEF InTurn
  <2>9. CASE side'[r] # side[r]
    <3>1. side[r].ua = "updating" /\ side'[r].ua = "up"
      BY <2>1, <2>4, <2>9 DEF OkDone, Answered, RefusalDone
    <3>2. Asks(r) = {} /\ Owed(r) = {}
      BY <3>1 DEF InTurn
    <3>3. Single(Asks(r)') /\ Owed(r)' = {}
      <4>1. CASE side'[r].timers = side[r].timers
        BY <3>2, <4>1 DEF Asks, Owed, Single
      <4>2. CASE HoldDone(side'[r], side[r])
        BY <1>3, <3>2, <4>2 DEF Asks, Owed, Single, HoldDone
      <4>3. QED
        BY <2>1, <2>4, <3>1, <4>1, <4>2 DEF OkDone, Answered, RefusalDone, Same, Fields
    <3>4. QED
      BY <2>5, <2>6, <2>7, <3>1, <3>3 DEF InTurn, Single
  <2>10. QED
    BY <2>8, <2>9
<1>13. CASE \E p \in Sides : ByeDone(p) \/ DeadDone(p)
  <2>1. PICK p \in Sides : ByeDone(p) \/ DeadDone(p)
    BY <1>13
  <2>2. /\ Turn(p)
        /\ \A q \in {r, o} : /\ No(net[q], Offer) => No(net'[q], Offer)
                             /\ One(net[q], Offer) => One(net'[q], Offer)
                             /\ No(net[q], Reply) => No(net'[q], Reply)
                             /\ One(net[q], Reply) => One(net'[q], Reply)
    BY <1>1, <2>1, TakenKinds DEF ByeDone, DeadDone, Takes, Quiet
  <2>3. side'[p].timers = side[p].timers
    BY <2>1 DEF ByeDone, DeadDone, Same, Fields
  <2>4. \A q \in {r, o} : Owed(q)' \subseteq Owed(q) /\ Asks(q)' \subseteq Asks(q)
    BY <1>1, <2>2, <2>3, OtherTimers DEF Asks, Owed
  <2>5. /\ side'[p] = side[p] \/ Left(side'[p])
        /\ ~side[p].busy => ~side'[p].busy
        /\ ~side[p].busy /\ ~side[p].done => ~side'[p].done
    BY <2>1 DEF ByeDone, DeadDone, FailDone, Left, Same, Fields
  <2>6. \A q \in Sides : /\ side'[q] = side[q] \/ Left(side'[q])
                         /\ ~side[q].busy => ~side'[q].busy
                         /\ ~side[q].busy /\ ~side[q].done => ~side'[q].done
    BY <1>1, <2>2, <2>5, OtherTimers
  <2>7. /\ side'[o].ua # "updating" /\ side'[r].ua # "asked" /\ ~side'[o].busy /\ ~side'[o].done
        /\ side'[r].ua = "updating" => side[r].ua = "updating"
        /\ side[r].ua = "updating" \/ Left(side[r])
              => side'[r].ua = "updating" \/ Left(side'[r])
    BY <2>6 DEF InTurn, Left
  <2>8. QED
    BY <2>2, <2>4, <2>7, InTurnKept
<1>14. CASE \E blame : ByesDone(blame) /\ Reason(blame)
  <2>1. PICK blame : ByesDone(blame)
    BY <1>14
  <2>2. side' = side /\ Plain(net)
    BY <2>1, ByesKinds DEF ByesDone
  <2>3. \A q \in {r, o} : side'[q] = side[q] /\ Asks(q)' = Asks(q) /\ Owed(q)' = Owed(q)
    BY <2>2 DEF Asks, Owed
  <2>4. /\ side'[o].ua # "updating" /\ side'[r].ua # "asked" /\ ~side'[o].busy /\ ~side'[o].done
    BY <2>3 DEF InTurn
  <2>5. QED
    BY <1>4, <2>2, <2>3, <2>4, InTurnKept
<1>15. QED
  BY <1>6, <1>7, <1>8, <1>9, <1>10, <1>11, <1>12, <1>13, <1>14 DEF Moved

LEMMA OneAtATimeStep ==
    ASSUME Typed, Sane, Begun, OneAtATime, [Next]_vars
    PROVE  OneAtATime'
<1>1. CASE Moved /\ scn' = scn
  BY <1>1, InTurnStep DEF OneAtATime
<1>2. CASE TickDone \/ Stay
  <2>1. side' = side /\ net' = net /\ scn' = scn
    BY <1>2 DEF TickDone, Stay
  <2>2. \A p : Asks(p)' = Asks(p) /\ Owed(p)' = Owed(p)
    BY <2>1 DEF Asks, Owed
  <2>3. ASSUME NEW r, NEW o, InTurn(r, o)
        PROVE  InTurn(r, o)'
    BY <2>1, <2>2, <2>3 DEF InTurn
  <2>4. QED
    BY <2>1, <2>3 DEF OneAtATime
<1>3. QED
  BY <1>1, <1>2, StepMoves

-----------------------------------------------------------------------------
(* On hold and off it                                                      *)

\* What the tally looks at, of a side that does not send, hear or hear of a
\* re-INVITE.
LEMMA TallyKept ==
    ASSUME NEW a, NEW b, NEW asks, NEW onway, NEW a2, NEW b2, NEW asks2, NEW onway2,
           Tally(a, b, asks, onway),
           a2.holds = a.holds, a2.offs = a.offs, a2.sched = a.sched,
           b2.holds = b.holds, b2.offs = b.offs,
           a2.ua = "ringing" => a.ua = "ringing",
           asks2 \subseteq asks, No(onway, Offer) => No(onway2, Offer)
    PROVE  Tally(a2, b2, asks2, onway2)
<1>1. asks2 # {} => asks # {}
  OBVIOUS
<1>2. \A t \in asks2 : t.cb = "off_hold" <=> a2.holds = a2.offs + 1
  BY DEF Tally
<1>3. a2.ua = "ringing" \/ asks2 # {} => a2.holds + a2.offs + Len(a2.sched) <= 4
  BY <1>1 DEF Tally
<1>4. QED
  BY <1>2, <1>3 DEF Tally

\* One more re-INVITE from Alice, of the kind whose turn it is.
LEMMA TallyAsked ==
    ASSUME NEW a \in SideShape, NEW b \in SideShape, NEW asks, NEW onway,
           NEW a2, NEW onway2, NEW t \in asks, Tally(a, b, asks, onway),
           t.cb = "off_hold" => a2.offs = a.offs + 1 /\ a2.holds = a.holds,
           t.cb # "off_hold" => a2.offs = a.offs /\ a2.holds = a.holds + 1,
           a2.sched = a.sched, a2.ua # "ringing"
    PROVE  Tally(a2, b, {}, onway2)
<1>1. a.holds \in Nat /\ a.offs \in Nat /\ Len(a.sched) \in Nat
      /\ b.holds \in Nat /\ b.offs \in Nat
  BY DEF SideShape
<1>2. a.holds + a.offs + Len(a.sched) <= 4
      /\ (t.cb = "off_hold" <=> a.holds = a.offs + 1)
      /\ (a.holds = a.offs \/ a.holds = a.offs + 1)
      /\ b.holds + b.offs <= a.holds + a.offs
  BY DEF Tally
<1>3. a2.holds + a2.offs = a.holds + a.offs + 1
      /\ (a2.holds = a2.offs \/ a2.holds = a2.offs + 1)
  BY <1>1, <1>2
<1>4. a2.holds \in Nat /\ a2.offs \in Nat /\ Len(a2.sched) = Len(a.sched)
  BY <1>1
<1> DEFINE n == a.holds + a.offs
           m == b.holds + b.offs
           l == Len(a.sched)
<1>5. n \in Nat /\ m \in Nat /\ l \in Nat
  BY <1>1
<1>6. n + l <= 4 /\ m <= n
  BY <1>2
<1>7. a2.holds + a2.offs = n + 1
  BY <1>3
<1>8. n \in Nat /\ m \in Nat /\ l \in Nat /\ n + l <= 4 /\ m <= n
      /\ a2.holds + a2.offs = n + 1
  BY <1>5, <1>6, <1>7
<1> HIDE DEF n, m, l
<1>9. n + 1 + l <= 5 /\ m <= n + 1 /\ m < n + 1
  BY <1>8
<1>10. /\ a2.holds + a2.offs + Len(a2.sched) <= 5
       /\ b.holds + b.offs <= a2.holds + a2.offs
       /\ b.holds + b.offs < a2.holds + a2.offs
  BY <1>4, <1>8, <1>9 DEF m, l
<1>11. QED
  BY <1>3, <1>10 DEF Tally

TalliedNext == Tally(side'["alice"], side'["bob"], Asks("alice")', net'["bob"])

LEMMA CountedTurn ==
    ASSUME Typed, Sane, Begun, Moved, scn' = scn, OneAtATime, Counted,
           scn.cls = "reinv_onhold"
    PROVE  TalliedNext
<1> DEFINE a == side["alice"]
           b == side["bob"]
<1>1. /\ a \in SideShape /\ b \in SideShape /\ alice = a /\ bob = b
      /\ Sides = {"alice", "bob"} /\ net \in Nets /\ Reinviter(scn.cls) = "alice"
      /\ Other("alice") = "bob" /\ Other("bob") = "alice"
      /\ "plain" \in Bodies /\ "broken" \in Bodies /\ "INVITE" \in Offer
      /\ \A p \in Sides : p = "alice" \/ p = "bob"
  BY SideTyped DEF Sides, alice, bob, Reinviter, Other, Bodies, Offer
<1>2. InTurn("alice", "bob") /\ Tally(a, b, Asks("alice"), net["bob"])
  BY <1>1 DEF OneAtATime, Counted
<1>3. side'["alice"].ua = "ringing" => a.ua = "ringing"
  BY <1>1, AliceRings
<1>4. ASSUME \A q \in Sides : /\ side'[q].holds = side[q].holds
                              /\ side'[q].offs = side[q].offs
                              /\ side'[q].sched = side[q].sched,
             Asks("alice")' \subseteq Asks("alice"),
             No(net["bob"], Offer) => No(net'["bob"], Offer)
      PROVE  TalliedNext
  BY <1>1, <1>2, <1>3, <1>4, TallyKept DEF TalliedNext
<1>5. ASSUME NEW p \in Sides, Turn(p), side'[p].holds = side[p].holds,
             side'[p].offs = side[p].offs, side'[p].sched = side[p].sched,
             Asks(p)' \subseteq Asks(p),
             No(net["bob"], Offer) => No(net'["bob"], Offer)
      PROVE  TalliedNext
  <2>1. \A q \in Sides : /\ side'[q].holds = side[q].holds
                         /\ side'[q].offs = side[q].offs
                         /\ side'[q].sched = side[q].sched
    BY <1>5 DEF Turn
  <2>2. Asks("alice")' \subseteq Asks("alice")
    BY <1>1, <1>5, OtherTimers
  <2>3. QED
    BY <1>4, <1>5, <2>1, <2>2
<1>6. \A n : (Plain(n) \/ Told(n, "alice")) /\ No(n["bob"], Offer) => No(net'["bob"], Offer)
  BY <1>1 DEF Plain, Told
<1>7. \A cb, ival : Timer(cb, ival).cb = cb
  BY DEF Timer
<1>8. CASE \E p \in Sides : \E t : AskDone(p, t)
  <2>0. PICK p \in Sides : \E t : AskDone(p, t)
    BY <1>8
  <2>1. PICK t : AskDone(p, t)
    BY <2>0
  <2>2. p = "alice" /\ t \in Asks("alice") /\ Turn("alice") /\ t \in a.timers
        /\ side'["alice"].timers = a.timers \ {t}
    BY <1>1, <2>1 DEF AskDone, Asks
  <2>3. side'["bob"] = b
    BY <1>1, <2>2 DEF Turn
  <2>4. Asks("alice")' = {}
    BY <1>2, <2>2 DEF InTurn, Single, Asks
  <2>5. t.cb = "reinvite" \/ t.cb = "off_hold"
    BY <2>2 DEF Asks
  <2>6. side'["alice"].offs = a.offs + (IF t.cb = "off_hold" THEN 1 ELSE 0)
        /\ side'["alice"].sched = a.sched
    BY <2>1, <2>2 DEF AskDone, Same, Fields
  <2>7. CASE MayReinvite(a)
    <3>1. /\ side'["alice"].ua = "updating"
          /\ side'["alice"].holds = a.holds + (IF t.cb = "reinvite" THEN 1 ELSE 0)
      BY <2>1, <2>2, <2>7 DEF AskDone
    <3>2. a.holds \in Nat /\ a.offs \in Nat
      BY <1>1 DEF SideShape
    <3>3. /\ t.cb = "off_hold" => /\ side'["alice"].offs = a.offs + 1
                                  /\ side'["alice"].holds = a.holds
          /\ t.cb # "off_hold" => /\ side'["alice"].offs = a.offs
                                  /\ side'["alice"].holds = a.holds + 1
      BY <2>5, <2>6, <3>1, <3>2
    <3>4. Tally(side'["alice"], b, {}, net'["bob"])
      BY <1>1, <1>2, <2>2, <2>6, <3>1, <3>3, TallyAsked
    <3>5. QED
      BY <2>3, <2>4, <3>4 DEF TalliedNext
  <2>8. CASE ~MayReinvite(a)
    <3>1. /\ side'["alice"].ua = a.ua /\ side'["alice"].holds = a.holds /\ net' = net
      BY <2>1, <2>2, <2>8 DEF AskDone, Same, Fields, Quiet
    <3>2. a.holds \in Nat /\ a.offs \in Nat
      BY <1>1 DEF SideShape
    <3>3. CASE t.cb = "off_hold"
      <4>1. a.ua # "ringing"
        BY <1>1, <2>2 DEF Begun
      <4>2. side'["alice"].offs = a.offs + 1
        BY <2>6, <3>3
      <4>3. Tally(side'["alice"], b, {}, net'["bob"])
        BY <1>1, <1>2, <2>2, <2>6, <3>1, <3>3, <4>1, <4>2, TallyAsked
      <4>4. QED
        BY <2>3, <2>4, <4>3 DEF TalliedNext
    <3>4. CASE t.cb = "reinvite"
      BY <1>1, <1>5, <2>2, <2>4, <2>6, <3>1, <3>2, <3>4
    <3>5. QED
      BY <2>5, <3>3, <3>4
  <2>9. QED
    BY <2>7, <2>8
<1>9. CASE \E t : ConnectDone(t)
  <2>1. PICK t : ConnectDone(t)
    BY <1>9
  <2>2. Turn("bob") /\ Plain(net) /\ "bob" \in Sides
    BY <1>1, <2>1, SsutKinds DEF ConnectDone, Quiet
  <2>3. Asks("bob")' \subseteq Asks("bob")
    BY <1>1, <1>7, <2>1 DEF ConnectDone, Asks
  <2>4. /\ side'["bob"].holds = b.holds /\ side'["bob"].offs = b.offs
        /\ side'["bob"].sched = b.sched
    BY <1>1, <2>1 DEF ConnectDone, Same, Fields
  <2>5. QED
    BY <1>1, <1>5, <1>6, <2>2, <2>3, <2>4
<1>10. CASE \E p \in Sides : \E t : LateDone(p, t) \/ HangDone(p, t)
  <2>0. PICK p \in Sides : \E t : LateDone(p, t) \/ HangDone(p, t)
    BY <1>10
  <2>1. PICK t : LateDone(p, t) \/ HangDone(p, t)
    BY <2>0
  <2>2. Turn(p) /\ (HangDone(p, t) => Plain(net))
    BY <1>1, <2>1, SsutKinds DEF LateDone, HangDone, Quiet
  <2>3. LateDone(p, t) => p = "bob"
    BY <1>1, <1>2 DEF LateDone, InTurn
  <2>4. LateDone(p, t) => Plain(net) \/ Told(net, "alice")
    BY <1>1, <2>3, SsutKinds DEF LateDone, Quiet
  <2>5. Asks(p)' \subseteq Asks(p)
    BY <1>7, <2>1 DEF LateDone, HangDone, Asks
  <2>6. /\ side'[p].holds = side[p].holds /\ side'[p].offs = side[p].offs
        /\ side'[p].sched = side[p].sched
    BY <2>1 DEF LateDone, HangDone, Same, Fields
  <2>7. QED
    BY <1>1, <1>5, <1>6, <2>1, <2>2, <2>4, <2>5, <2>6
<1>11. CASE ConnectedDone
  <2>1. /\ Turn("alice") /\ "alice" \in Sides
        /\ No(net["bob"], Offer) => No(net'["bob"], Offer)
        /\ side'["alice"].holds = a.holds /\ side'["alice"].offs = a.offs
        /\ side'["alice"].sched = a.sched
    BY <1>1, <1>11, TakenKinds DEF ConnectedDone, Takes, Same, Fields
  <2>2. CASE a.ua # "ringing"
    <3>1. Asks("alice")' = Asks("alice")
      BY <1>1, <1>11, <2>2 DEF ConnectedDone, Asks
    <3>2. QED
      BY <1>5, <2>1, <3>1
  <2>3. CASE a.ua = "ringing"
    <3>1. /\ a.timers = {} /\ a.holds = 0 /\ a.offs = 0
          /\ side'["alice"].timers =
                 {} \cup {Timer("disconnect", DisconnectIval("alice", scn.cls))}
                 \cup {Timer("reinvite", ReinviteIval(scn.cls))}
          /\ side'["bob"] = b /\ side'["alice"].ua = "up"
      BY <1>1, <1>11, <2>1, <2>3 DEF ConnectedDone, Begun, Turn
    <3>2. \A t \in Asks("alice")' : t.cb = "reinvite"
      BY <1>7, <3>1 DEF Asks
    <3>3. QED
      BY <1>1, <1>2, <2>1, <2>3, <3>1, <3>2 DEF Tally, TalliedNext
  <2>4. QED
    BY <2>2, <2>3
<1>12. CASE \E p \in Sides : InviteDone(p)
  <2>1. PICK p \in Sides : InviteDone(p)
    BY <1>12
  <2>2. /\ ~No(net[p], Offer) /\ Taken(p) \in Nets /\ Turn(p)
        /\ One(net[p], Offer) => No(Taken(p)[p], Offer)
    BY <1>1, <2>1, TakenKinds DEF InviteDone
  <2>3. p = "bob" /\ No(Taken("bob")["bob"], Offer) /\ side'["alice"] = a
    BY <1>1, <1>2, <2>2 DEF InTurn, Turn
  <2>4. Plain(Taken("bob")) \/ Told(Taken("bob"), "alice")
    BY <1>1, <2>1, <2>2, <2>3, SsutKinds DEF InviteDone, Takes
  <2>5. No(net'["bob"], Offer)
    BY <1>6, <2>3, <2>4
  <2>6. Asks("alice")' = Asks("alice")
    BY <2>3 DEF Asks
  <2>7. b.holds \in Nat /\ b.offs \in Nat /\ a.holds \in Nat /\ a.offs \in Nat
    BY <1>1 DEF SideShape
  <2>8. b.holds + b.offs < a.holds + a.offs
    BY <1>2, <2>2, <2>3 DEF Tally
  <2>9. side'["bob"].holds + side'["bob"].offs <= a.holds + a.offs
    <3>1. CASE side'["bob"] = b
      BY <2>7, <2>8, <3>1
    <3>2. CASE side'["bob"].holds + side'["bob"].offs = b.holds + b.offs + 1
      BY <2>7, <2>8, <3>2
    <3>3. QED
      BY <2>1, <2>3, <3>1, <3>2 DEF InviteDone
  <2>10. QED
    BY <1>2, <2>3, <2>5, <2>6, <2>9 DEF Tally, TalliedNext
<1>13. CASE \E p \in Sides : OkDone(p)
  <2>1. PICK p \in Sides : OkDone(p)
    BY <1>13
  <2>2. "200" \in Reply
    BY DEF Reply
  <2>3. /\ ~No(net[p], Reply) /\ Turn(p)
        /\ No(net["bob"], Offer) => No(net'["bob"], Offer)
    BY <1>1, <2>1, <2>2, TakenKinds DEF OkDone
  <2>4. p = "alice" /\ side'["bob"] = b
    BY <1>1, <1>2, <2>3 DEF InTurn, Turn
  <2>5. CASE Same(side'["alice"], a, Fields \ {"holds", "offs", "sched", "timers"})
    <3>1. Asks("alice")' = Asks("alice")
      BY <2>5 DEF Same, Fields, Asks
    <3>2. QED
      BY <1>1, <1>5, <2>3, <2>4, <2>5, <3>1 DEF Same, Fields
  <2>6. CASE /\ a.ua = "updating" /\ HoldDone(side'["alice"], a) /\ side'["alice"].ua = "up"
             /\ side'["alice"].holds = a.holds /\ side'["alice"].offs = a.offs
    <3>1. Asks("alice") = {}
      BY <1>2, <2>6 DEF InTurn
    <3>2. CASE a.sched = <<>>
      <4>1. Asks("alice")' = {}
        BY <2>6, <3>1, <3>2 DEF HoldDone, Asks
      <4>2. QED
        BY <1>1, <1>5, <2>3, <2>4, <2>6, <3>1, <3>2, <4>1 DEF HoldDone
    <3>3. CASE a.sched # <<>>
      <4>0. PICK ival \in Nat : side'["alice"].timers = a.timers
                 \cup {Timer(IF a.holds > a.offs THEN "off_hold" ELSE "reinvite", ival)}
        BY <2>6, <3>3 DEF HoldDone
      <4>1. \A t \in Asks("alice")' :
                t.cb = (IF a.holds > a.offs THEN "off_hold" ELSE "reinvite")
        BY <1>7, <3>1, <4>0 DEF Asks
      <4>2. Len(side'["alice"].sched) = Len(a.sched) - 1 /\ Len(a.sched) \in Nat
        BY <1>1, <2>6, <3>3 DEF HoldDone, SideShape
      <4>3. b.holds \in Nat /\ b.offs \in Nat /\ a.holds \in Nat /\ a.offs \in Nat
        BY <1>1 DEF SideShape
      <4>4. /\ a.holds + a.offs + Len(a.sched) <= 5
            /\ (a.holds = a.offs \/ a.holds = a.offs + 1)
        BY <1>2 DEF Tally
      <4>5. \A t \in Asks("alice")' : t.cb = "off_hold" <=> a.holds = a.offs + 1
        BY <4>1, <4>3, <4>4
      <4>6. a.holds + a.offs + Len(side'["alice"].sched) <= 4
        BY SMTT(30), <4>2, <4>3, <4>4
      <4>7. a.holds + a.offs + Len(side'["alice"].sched) <= 5
        BY <4>2, <4>3, <4>6
      <4>8. QED
        BY <1>2, <2>3, <2>4, <2>6, <4>5, <4>6, <4>7 DEF Tally, TalliedNext
    <3>4. QED
      BY <3>2, <3>3
  <2>7. QED
    BY <1>1, <2>1, <2>4, <2>5, <2>6 DEF OkDone, Answered, Same, Fields
<1>14. CASE \E p \in Sides : RefusalDone(p) \/ ByeDone(p) \/ DeadDone(p)
  <2>1. PICK p \in Sides : RefusalDone(p) \/ ByeDone(p) \/ DeadDone(p)
    BY <1>14
  <2>2. Turn(p) /\ (No(net["bob"], Offer) => No(net'["bob"], Offer))
    BY <1>1, <2>1, TakenKinds DEF RefusalDone, ByeDone, DeadDone, Takes, Quiet
  <2>3. /\ side'[p].holds = side[p].holds /\ side'[p].offs = side[p].offs
        /\ side'[p].sched = side[p].sched /\ side'[p].timers = side[p].timers
    BY <2>1 DEF RefusalDone, ByeDone, DeadDone, Same, Fields
  <2>4. Asks(p)' = Asks(p)
    BY <2>3 DEF Asks
  <2>5. QED
    BY <1>5, <2>2, <2>3, <2>4
<1>15. CASE \E blame : ByesDone(blame) /\ Reason(blame)
  <2>1. PICK blame : ByesDone(blame)
    BY <1>15
  <2>2. side' = side /\ Plain(net)
    BY <2>1, ByesKinds DEF ByesDone
  <2>3. Asks("alice")' = Asks("alice")
    BY <2>2 DEF Asks
  <2>4. QED
    BY <1>4, <1>6, <2>2, <2>3
<1>16. QED
  BY <1>8, <1>9, <1>10, <1>11, <1>12, <1>13, <1>14, <1>15 DEF Moved

LEMMA CountedStep ==
    ASSUME Typed, Sane, Begun, OneAtATime, Counted, [Next]_vars
    PROVE  Counted'
<1>1. CASE Moved /\ scn' = scn
  BY <1>1, CountedTurn DEF Counted, TalliedNext
<1>2. CASE TickDone \/ Stay
  <2>1. side' = side /\ net' = net /\ scn' = scn
    BY <1>2 DEF TickDone, Stay
  <2>2. Asks("alice")' = Asks("alice")
    BY <2>1 DEF Asks
  <2>3. QED
    BY <2>1, <2>2 DEF Counted
<1>3. QED
  BY <1>1, <1>2, StepMoves

-----------------------------------------------------------------------------
(* Wrong answers                                                           *)

LEMMA AppendedWrong ==
    ASSUME NEW q \in Seq(MsgShape), NEW m \in MsgShape
    PROVE  /\ AllWrong(q) /\ (m.kind = "200" => Wrong(m)) => AllWrong(Append(q, m))
           /\ Coming(q) => Coming(Append(q, m))
           /\ No(q, {"BYE", "refuse"}) /\ Wrong(m) => Coming(Append(q, m))
<1> DEFINE r == Append(q, m)
           l == Len(q)
<1>1. l \in Nat /\ Len(r) = l + 1 /\ r[l + 1] = m /\ \A i \in 1..l : r[i] = q[i]
  OBVIOUS
<1> HIDE DEF r, l
<1>2. \A i \in 1..l : i \in 1..(l + 1) /\ r[i] = q[i] /\ i - 1 <= l
  BY <1>1
<1>3. l + 1 \in 1..(l + 1) /\ \A i \in 1..(l + 1) : i \in 1..l \/ i = l + 1
  BY <1>1
<1>4. AllWrong(q) /\ (m.kind = "200" => Wrong(m)) => AllWrong(r)
  BY <1>1, <1>2, <1>3 DEF AllWrong, l
<1>5. ASSUME Coming(q)
      PROVE  Coming(r)
  <2>1. PICK i \in 1..l : /\ Wrong(q[i])
                          /\ \A j \in 1..(i - 1) : q[j].kind \notin {"BYE", "refuse"}
    BY <1>5 DEF Coming, l
  <2>2. i \in Nat /\ \A j \in 1..(i - 1) : j \in 1..l
    BY <1>1, <2>1
  <2>3. \A j \in 1..(i - 1) : r[j].kind \notin {"BYE", "refuse"}
    BY <1>1, <2>1, <2>2
  <2>4. QED
    BY <1>1, <1>2, <2>1, <2>3 DEF Coming
<1>6. ASSUME No(q, {"BYE", "refuse"}), Wrong(m)
      PROVE  Coming(r)
  <2>1. \A j \in 1..((l + 1) - 1) : r[j].kind \notin {"BYE", "refuse"}
    BY <1>1, <1>6 DEF No, l
  <2>2. QED
    BY <1>1, <1>3, <1>6, <2>1 DEF Coming
<1>7. QED
  BY <1>4, <1>5, <1>6 DEF r

LEMMA TailWrong ==
    ASSUME NEW q \in Seq(MsgShape), q # <<>>
    PROVE  /\ AllWrong(q) => AllWrong(Tail(q)) /\ (Head(q).kind = "200" => Wrong(Head(q)))
           /\ Coming(q) => Head(q).kind \notin {"BYE", "refuse"}
           /\ Coming(q) /\ Head(q).kind # "200" => Coming(Tail(q))
<1> DEFINE r == Tail(q)
           l == Len(r)
<1>1. /\ l \in Nat /\ Len(q) = l + 1 /\ Head(q) = q[1]
      /\ \A i \in 1..l : r[i] = q[i + 1]
  OBVIOUS
<1> HIDE DEF r, l
<1>2. 1 \in 1..Len(q) /\ \A i \in 1..l : i + 1 \in 1..Len(q)
  BY <1>1
<1>3. AllWrong(q) => AllWrong(r) /\ (Head(q).kind = "200" => Wrong(Head(q)))
  BY <1>1, <1>2 DEF AllWrong, l
<1>4. ASSUME Coming(q)
      PROVE  /\ Head(q).kind \notin {"BYE", "refuse"}
             /\ Head(q).kind # "200" => Coming(r)
  <2>1. PICK i \in 1..Len(q) :
            /\ Wrong(q[i])
            /\ \A j \in 1..(i - 1) : q[j].kind \notin {"BYE", "refuse"}
    BY <1>4 DEF Coming
  <2>2. CASE i = 1
    BY <1>1, <2>1, <2>2 DEF Wrong
  <2>3. CASE i # 1
    <3>1. i - 1 \in 1..l /\ 1 \in 1..(i - 1) /\ (i - 1) + 1 = i
          /\ \A j \in 1..((i - 1) - 1) : j \in 1..l /\ j + 1 \in 1..(i - 1)
      BY <1>1, <2>3
    <3>2. r[i - 1] = q[i] /\ \A j \in 1..((i - 1) - 1) : r[j] = q[j + 1]
      BY <1>1, <3>1
    <3>3. \A j \in 1..((i - 1) - 1) : r[j].kind \notin {"BYE", "refuse"}
      BY <2>1, <3>1, <3>2
    <3>4. Coming(r)
      BY <2>1, <3>1, <3>2, <3>3 DEF Coming, l
    <3>5. QED
      BY <1>1, <2>1, <3>1, <3>4
  <2>4. QED
    BY <2>2, <2>3
<1>5. QED
  BY <1>3, <1>4 DEF r

\* Alice is sent nothing, or something other than an answer; or she is sent a
\* wrong one, on top of what network n holds.
Silent(n) ==
    /\ ssut'.accepted = ssut.accepted
    /\ \/ net'["alice"] = n["alice"]
       \/ \E m : /\ net'["alice"] = Append(n["alice"], m)
                 /\ m \in MsgShape /\ m.kind # "200"
Heard(n) ==
    /\ ssut.leg # "over"
    /\ \E m : /\ net'["alice"] = Append(n["alice"], m) /\ m \in MsgShape /\ Wrong(m)

LEMMA SentHeard ==
    ASSUME NEW n \in Nets, NEW to \in Sides, NEW kind, NEW body, Sent(n, to, kind, body)
    PROVE  /\ to = "bob" \/ kind # "200" => (ssut'.accepted = ssut.accepted => Silent(n))
           /\ to = "alice" /\ kind = "200" /\ (scn.cls \in Refused \/ body = "raw")
                  => (ssut.leg # "over" => Heard(n))
<1>1. PICK m : /\ net' = [n EXCEPT ![to] = Append(n[to], m)]
               /\ Behind(n[to], m) /\ m.kind = kind /\ m.body = body
  BY DEF Sent
<1>2. m \in MsgShape
  BY <1>1 DEF Behind
<1>3. to = "bob" => net'["alice"] = n["alice"]
  BY <1>1 DEF Nets, Sides
<1>4. to = "alice" => net'["alice"] = Append(n["alice"], m)
  BY <1>1 DEF Nets, Sides
<1>5. to = "alice" \/ to = "bob"
  BY DEF Sides
<1>6. to = "bob" \/ kind # "200" => (ssut'.accepted = ssut.accepted => Silent(n))
  BY <1>1, <1>2, <1>3, <1>4, <1>5 DEF Silent
<1>7. to = "alice" /\ kind = "200" /\ (scn.cls \in Refused \/ body = "raw") => Wrong(m)
  BY <1>1 DEF Wrong
<1>8. QED
  BY <1>2, <1>4, <1>6, <1>7 DEF Heard

LEMMA SsutHeard ==
    ASSUME Typed, Watching, NEW n \in Nets
    PROVE  /\ \A p \in Sides : /\ SsutFrom(p, n, "BYE", "none") => Silent(n)
                               /\ SsutFrom(p, n, "answer", "plain") => Silent(n)
                               /\ SsutFrom(p, n, "refuse", "none") => Silent(n)
           /\ \A body \in Bodies :
                  /\ SsutFrom("alice", n, "INVITE", body) => Silent(n) \/ Heard(n)
                  /\ SsutFrom("bob", n, "200", body) => Silent(n) \/ Heard(n)
<1>1. Other("alice") = "bob" /\ Other("bob") = "alice" /\ "alice" \in Sides /\ "bob" \in Sides
      /\ (scn.cls \in Refused \/ scn.fault = "rawok") /\ ssut \in SsutShape
      /\ \A p \in Sides : Other(p) \in Sides
  BY DEF Other, Sides, Watching, Typed
<1>2. net' = n /\ ssut' = ssut => Silent(n)
  BY DEF Silent
<1>3. /\ ssut' = [ssut EXCEPT !.since = now] => ssut'.accepted = ssut.accepted
      /\ ssut' = [ssut EXCEPT !.refused = TRUE] => ssut'.accepted = ssut.accepted
      /\ ssut' = [ssut EXCEPT !.since = now, !.leg = "up"] => ssut'.accepted = ssut.accepted
      /\ \A blame : ssut' = Over(blame) => ssut'.accepted = ssut.accepted
  BY <1>1 DEF SsutShape, Over
<1>4. ASSUME NEW p \in Sides, SsutFrom(p, n, "BYE", "none")
      PROVE  Silent(n)
  BY <1>1, <1>2, <1>3, <1>4, SsutByes, SentHeard
<1>5. ASSUME NEW p \in Sides, SsutFrom(p, n, "answer", "plain")
      PROVE  Silent(n)
  BY <1>1, <1>2, <1>3, <1>5, SsutAnswers, SentHeard
<1>6. ASSUME NEW p \in Sides, SsutFrom(p, n, "refuse", "none")
      PROVE  Silent(n)
  BY <1>1, <1>2, <1>3, <1>6, SsutRefuses, SentHeard
<1>7. ASSUME NEW body \in Bodies, SsutFrom("alice", n, "INVITE", body)
      PROVE  Silent(n) \/ Heard(n)
  <2>1. CASE ssut.leg = "over" /\ Sent(n, "alice", "refuse", "none") /\ ssut' = ssut
    BY <1>1, <2>1, SentHeard
  <2>2. CASE net' = n /\ ssut' = ssut
    BY <1>2, <2>2
  <2>3. CASE ssut.leg # "over" /\ scn.fault = "swallow" /\ Sent(n, "alice", "200", "plain")
    <3>1. scn.cls \in Refused
      BY <1>1, <2>3
    <3>2. QED
      BY <1>1, <2>3, <3>1, SentHeard
  <2>4. CASE Sent(n, "alice", "refuse", "none") /\ ssut' = [ssut EXCEPT !.refused = TRUE]
    BY <1>1, <1>3, <2>4, SentHeard
  <2>5. ASSUME NEW b, Sent(n, "bob", "INVITE", b), ssut' = [ssut EXCEPT !.since = now]
        PROVE  Silent(n)
    BY <1>1, <1>3, <2>5, SentHeard
  <2>6. QED
    BY <1>1, <1>7, <2>1, <2>2, <2>3, <2>4, <2>5, SsutInvites
<1>8. ASSUME NEW body \in Bodies, SsutFrom("bob", n, "200", body)
      PROVE  Silent(n) \/ Heard(n)
  <2>1. CASE net' = n /\ ssut' = ssut
    BY <1>2, <2>1
  <2>2. CASE Sent(n, "alice", "refuse", "none") /\ ssut' = [ssut EXCEPT !.refused = TRUE]
    BY <1>1, <1>3, <2>2, SentHeard
  <2>3. CASE /\ ssut.leg # "over"
             /\ Sent(n, "alice", "200", IF scn.fault = "rawok" THEN "raw" ELSE body)
    BY <1>1, <2>3, SentHeard
  <2>4. QED
    BY <1>1, <1>8, <2>1, <2>2, <2>3, SsutAccepts
<1>9. QED
  BY <1>4, <1>5, <1>6, <1>7, <1>8

\* n is what the step leaves of what was on its way.
LEMMA CaughtKept ==
    ASSUME Typed, Watching, Caught, scn' = scn, NEW n \in Nets, Silent(n),
           AllWrong(n["alice"]),
           side'["alice"].nerrs >= side["alice"].nerrs,
           side'["alice"].nerrs \in Nat, side["alice"].nerrs \in Nat,
           Left(side["alice"]) =>
               Left(side'["alice"]) /\ (side'["alice"].done => side["alice"].done),
           side["alice"].ua = "updating" /\ Coming(net["alice"]) =>
               \/ side'["alice"].nerrs > 0
               \/ Left(side'["alice"]) /\ ~side'["alice"].done
               \/ side'["alice"].ua = "updating" /\ Coming(n["alice"]),
           Expects(side'["alice"], Asks("alice")')
    PROVE  Caught'
<1> DEFINE a == side["alice"]
           b == side'["alice"]
<1>1. ssut'.accepted = ssut.accepted
  BY DEF Silent
<1>2. n["alice"] \in Seq(MsgShape)
  BY DEF Nets, Sides
<1>3. AllWrong(net'["alice"])
  BY <1>2, AppendedWrong DEF Silent
<1>4. Coming(n["alice"]) => Coming(net'["alice"])
  BY <1>2, AppendedWrong DEF Silent
<1>5. ssut.accepted => Noticed(a, net["alice"])
  BY DEF Caught
<1>6. ASSUME Noticed(a, net["alice"])
      PROVE  Noticed(b, net'["alice"])
  <2>1. CASE a.nerrs > 0
    <3>1. b.nerrs > 0
      BY <2>1
    <3>2. QED
      BY <3>1 DEF Noticed
  <2>2. CASE Left(a) /\ ~a.done
    BY <2>2 DEF Noticed
  <2>3. CASE a.ua = "updating" /\ Coming(net["alice"])
    BY <1>4, <2>3 DEF Noticed
  <2>4. QED
    BY <1>6, <2>1, <2>2, <2>3 DEF Noticed
<1>7. AllWrong(net["alice"])' /\ Noticed(a, net["alice"])' = Noticed(b, net'["alice"])
      /\ Expects(a, Asks("alice"))'
  BY <1>3 DEF AllWrong, Wrong, Noticed, Coming, Left, Expects
<1>8. QED
  BY <1>1, <1>5, <1>6, <1>7 DEF Caught

\* A wrong answer arrives behind what Alice has still to hear.
LEMMA CaughtHeard ==
    ASSUME Typed, Watching, Caught, scn' = scn, NEW n \in Nets, Heard(n),
           n["alice"] = net["alice"], No(net["alice"], {"BYE", "refuse"}),
           side'["alice"].ua = "updating", Expects(side'["alice"], Asks("alice")')
    PROVE  Caught'
<1>1. n["alice"] \in Seq(MsgShape) /\ AllWrong(n["alice"])
  BY DEF Nets, Sides, Caught
<1>2. AllWrong(net'["alice"]) /\ Coming(net'["alice"])
  BY <1>1, AppendedWrong DEF Heard
<1>3. /\ AllWrong(net["alice"])' /\ Noticed(side["alice"], net["alice"])'
      /\ Expects(side["alice"], Asks("alice"))'
  BY <1>2 DEF AllWrong, Wrong, Noticed, Coming, Expects
<1>4. QED
  BY <1>3 DEF Caught

LEMMA CaughtTurn ==
    ASSUME Typed, Sane, Begun, Knows, OneAtATime, Caught, Moved, scn' = scn, Watching
    PROVE  Caught'
<1> DEFINE a == side["alice"]
           asks == Asks("alice")
<1>1. /\ a \in SideShape /\ alice = a /\ a.nerrs \in Nat
      /\ Sides = {"alice", "bob"} /\ net \in Nets /\ net["alice"] \in Seq(MsgShape)
      /\ Reinviter(scn.cls) = "alice"
      /\ Other("alice") = "bob" /\ Other("bob") = "alice"
      /\ "plain" \in Bodies /\ "broken" \in Bodies
      /\ "alice" \in Sides /\ "bob" \in Sides
      /\ \A p \in Sides : p = "alice" \/ p = "bob"
  BY SideTyped DEF Sides, alice, Reinviter, Other, Bodies, Watching, Refused, SideShape
<1>2. InTurn("alice", "bob") /\ Expects(a, asks) /\ AllWrong(net["alice"])
  BY <1>1 DEF OneAtATime, Caught
<1>3. a.ua = "updating" => asks = {} /\ ~a.done /\ ~Left(a)
  BY <1>2 DEF InTurn, Expects, Left
<1>4. \A cb, ival : Timer(cb, ival).cb = cb
  BY DEF Timer
<1>5. ASSUME NEW r, NEW asks2, asks2 \subseteq asks, r.done => a.done, r.busy => a.busy,
             r.ua = "updating" => a.ua = "updating"
      PROVE  Expects(r, asks2)
  BY <1>2, <1>5 DEF Expects
\* Alice does not move.
<1>6. ASSUME NEW n \in Nets, Silent(n), side'["alice"] = a, n["alice"] = net["alice"]
      PROVE  Caught'
  <2>1. asks' = asks
    BY <1>6 DEF Asks
  <2>2. Expects(side'["alice"], Asks("alice")')
    BY <1>2, <1>6, <2>1
  <2>3. QED
    BY <1>1, <1>2, <1>6, <2>2, CaughtKept
<1>7. ASSUME NEW n \in Nets, Heard(n), side'["alice"] = a, n["alice"] = net["alice"],
             No(net["alice"], Reply), a.ua = "updating" \/ Left(a)
      PROVE  Caught'
  <2>1. asks' = asks
    BY <1>7 DEF Asks
  <2>2. Expects(side'["alice"], Asks("alice")')
    BY <1>2, <1>7, <2>1
  <2>3. No(net["alice"], {"BYE"}) /\ ~Left(a)
    BY <1>1, <1>7 DEF Knows, Heard
  <2>4. No(net["alice"], {"BYE", "refuse"})
    BY <1>7, <2>3 DEF No, Reply
  <2>5. QED
    BY <1>7, <2>2, <2>3, <2>4, CaughtHeard
\* She does, and nobody sends an answer.
<1>8. ASSUME Silent(net), side'["alice"] \in SideShape, side'["alice"].nerrs >= a.nerrs,
             Left(a) => Left(side'["alice"]), side'["alice"].done = a.done,
             side'["alice"].busy = a.busy, asks' \subseteq asks,
             \/ side'["alice"].ua = a.ua
             \/ side'["alice"].ua # "updating" /\ (side'["alice"].nerrs > 0
                                                   \/ Left(side'["alice"]))
      PROVE  Caught'
  <2>1. Expects(side'["alice"], Asks("alice")')
    BY <1>5, <1>8
  <2>2. side'["alice"].nerrs \in Nat
    BY <1>8 DEF SideShape
  <2>3. a.ua = "updating" /\ Coming(net["alice"]) =>
               \/ side'["alice"].nerrs > 0
               \/ Left(side'["alice"]) /\ ~side'["alice"].done
               \/ side'["alice"].ua = "updating" /\ Coming(net["alice"])
    BY <1>3, <1>8
  <2>4. QED
    BY <1>1, <1>2, <1>8, <2>1, <2>2, <2>3, CaughtKept
<1>9. CASE \E p \in Sides : \E t : AskDone(p, t)
  <2>0. PICK p \in Sides : \E t : AskDone(p, t)
    BY <1>9
  <2>1. PICK t : AskDone(p, t)
    BY <2>0
  <2>2. p = "alice" /\ t \in asks /\ Turn("alice") /\ a.ua # "updating"
        /\ side'["alice"] \in SideShape
    BY <1>1, <1>2, <2>1 DEF AskDone, InTurn, Turn
  <2>3. asks' \subseteq asks \ {t}
    BY <1>1, <1>4, <2>1, <2>2 DEF AskDone, Asks
  <2>4. asks' = {}
    BY <1>2, <2>2, <2>3 DEF InTurn, Single
  <2>5. CASE ~MayReinvite(a)
    <3>1. Same(side'["alice"], a, {"timers", "offs"}) /\ Quiet
      BY <2>1, <2>2, <2>5 DEF AskDone
    <3>2. Silent(net)
      BY <3>1 DEF Quiet, Silent
    <3>3. /\ side'["alice"].ua = a.ua /\ side'["alice"].done = a.done
          /\ side'["alice"].busy = a.busy /\ side'["alice"].nerrs = a.nerrs
      BY <3>1 DEF Same, Fields
    <3>4. Left(a) => Left(side'["alice"])
      BY <3>3 DEF Left
    <3>5. QED
      BY <1>1, <1>8, <2>2, <2>3, <3>2, <3>3, <3>4
  <2>6. CASE MayReinvite(a)
    <3>1. /\ side'["alice"].ua = "updating" /\ side'["alice"].nerrs = a.nerrs
          /\ side'["alice"].done = a.done
          /\ \E body \in Bodies : SsutFrom("alice", net, "INVITE", body)
      BY <2>1, <2>2, <2>6 DEF AskDone, Same, Fields
    <3>2. ~Left(a)
      BY <1>1, <2>6 DEF MayReinvite, Sane
    <3>3. ~a.done
      BY <1>2, <2>2 DEF Expects
    <3>4. Expects(side'["alice"], Asks("alice")')
      BY <2>4, <3>1, <3>3 DEF Expects
    <3>5. CASE Silent(net)
      BY <1>1, <1>2, <2>2, <3>1, <3>2, <3>4, <3>5, CaughtKept
    <3>6. CASE Heard(net)
      <4>1. No(net["alice"], Reply) /\ No(net["alice"], {"BYE"})
        BY <1>1, <1>2, <2>2, <3>2, <3>6 DEF InTurn, Knows, Heard
      <4>2. No(net["alice"], {"BYE", "refuse"})
        BY <4>1 DEF No, Reply
      <4>3. QED
        BY <1>1, <3>1, <3>4, <3>6, <4>2, CaughtHeard
    <3>7. QED
      BY <1>1, <3>1, <3>5, <3>6, SsutHeard
  <2>7. QED
    BY <2>5, <2>6
<1>10. CASE \E t : ConnectDone(t)
  <2>1. PICK t : ConnectDone(t)
    BY <1>10
  <2>2. side'["alice"] = a /\ Silent(net)
    BY <1>1, <2>1, SsutHeard DEF ConnectDone, Turn, Quiet, Silent
  <2>3. QED
    BY <1>1, <1>6, <2>2
<1>11. CASE \E p \in Sides : \E t : LateDone(p, t)
  <2>0. PICK p \in Sides : \E t : LateDone(p, t)
    BY <1>11
  <2>1. PICK t : LateDone(p, t)
    BY <2>0
  <2>2. p = "bob" /\ Owed("bob") # {} /\ side'["alice"] = a
    BY <1>1, <1>2, <2>1 DEF LateDone, InTurn, Turn
  <2>3. Silent(net) \/ Heard(net)
    BY <1>1, <2>1, <2>2, SsutHeard DEF LateDone, Quiet, Silent
  <2>4. No(net["alice"], Reply) /\ (a.ua = "updating" \/ Left(a))
    BY <1>2, <2>2 DEF InTurn
  <2>5. QED
    BY <1>1, <1>6, <1>7, <2>2, <2>3, <2>4
<1>12. CASE \E p \in Sides : \E t : HangDone(p, t)
  <2>0. PICK p \in Sides : \E t : HangDone(p, t)
    BY <1>12
  <2>1. PICK t : HangDone(p, t)
    BY <2>0
  <2>2. Silent(net) /\ Turn(p)
    BY <1>1, <2>1, SsutHeard DEF HangDone, Quiet, Silent
  <2>3. CASE p = "bob"
    <3>1. side'["alice"] = a
      BY <1>1, <2>2, <2>3 DEF Turn
    <3>2. QED
      BY <1>1, <1>6, <2>2, <3>1
  <2>4. CASE p = "alice"
    <3>1. asks' \subseteq asks /\ side'["alice"] \in SideShape
      BY <1>1, <1>4, <2>1, <2>2, <2>4 DEF HangDone, Asks, Turn
    <3>2. /\ side'["alice"].done = a.done /\ side'["alice"].busy = a.busy
          /\ side'["alice"].ua = a.ua \/ side'["alice"].ua = "ended"
          /\ side'["alice"].nerrs = a.nerrs \/ side'["alice"].nerrs = a.nerrs + 1
      BY <2>1, <2>4 DEF HangDone, Same, Fields
    <3>3. side'["alice"].nerrs >= a.nerrs
      BY <1>1, <3>2
    <3>4. (Left(a) => Left(side'["alice"]))
          /\ (side'["alice"].ua = "ended" => Left(side'["alice"]))
      BY <3>2 DEF Left
    <3>5. QED
      BY <1>8, <2>2, <3>1, <3>2, <3>3, <3>4
  <2>5. QED
    BY <1>1, <2>3, <2>4
<1>13. CASE ConnectedDone
  <2>1. /\ net' = Taken("alice") /\ ssut' = ssut /\ net["alice"] # <<>>
        /\ Head(net["alice"]).kind = "answer" /\ Turn("alice")
    BY <1>13 DEF ConnectedDone, Takes, Arrives
  <2>2. /\ Taken("alice") \in Nets /\ Taken("alice")["alice"] = Tail(net["alice"])
        /\ Silent(Taken("alice")) /\ side'["alice"] \in SideShape
    BY <1>1, <2>1, TakenDoes DEF Silent, Turn
  <2>3. /\ AllWrong(Tail(net["alice"]))
        /\ Coming(net["alice"]) => Coming(Tail(net["alice"]))
    BY <1>1, <1>2, <2>1, TailWrong
  <2>4. CASE a.ua = "ringing"
    <3>1. /\ side'["alice"].ua = "up" /\ side'["alice"].nerrs = a.nerrs
          /\ ~side'["alice"].done /\ ~side'["alice"].busy
      BY <1>1, <1>13, <2>4 DEF ConnectedDone, Same, Fields, Begun
    <3>2. Expects(side'["alice"], Asks("alice")') /\ ~Left(a)
      BY <2>4, <3>1 DEF Expects, Left
    <3>3. QED
      BY <1>1, <2>2, <2>3, <2>4, <3>1, <3>2, CaughtKept
  <2>5. CASE a.ua # "ringing"
    <3>1. side'["alice"] = a
      BY <1>1, <1>13, <2>5 DEF ConnectedDone
    <3>2. asks' = asks
      BY <3>1 DEF Asks
    <3>3. Expects(side'["alice"], Asks("alice")')
      BY <1>2, <3>1, <3>2
    <3>4. QED
      BY <1>1, <2>2, <2>3, <3>1, <3>3, CaughtKept
  <2>6. QED
    BY <2>4, <2>5
<1>14. CASE \E p \in Sides : InviteDone(p)
  <2>1. PICK p \in Sides : InviteDone(p)
    BY <1>14
  <2>2. ~No(net[p], Offer) /\ Taken(p) \in Nets
        /\ \A q \in Sides \ {p} : Taken(p)[q] = net[q]
    BY <2>1, TakenKinds DEF InviteDone, Offer
  <2>3. p = "bob" /\ Taken("bob")["alice"] = net["alice"] /\ side'["alice"] = a
    BY <1>1, <1>2, <2>1, <2>2 DEF InTurn, InviteDone, Turn
  <2>4. Silent(Taken("bob")) \/ Heard(Taken("bob"))
    BY <1>1, <2>1, <2>2, <2>3, SsutHeard DEF InviteDone, Takes, Silent
  <2>5. No(net["alice"], Reply) /\ (a.ua = "updating" \/ Left(a))
    BY <1>2, <2>2, <2>3 DEF InTurn
  <2>6. QED
    BY <1>6, <1>7, <2>2, <2>3, <2>4, <2>5
<1>15. CASE \E p \in Sides : OkDone(p)
  <2>1. PICK p \in Sides : OkDone(p)
    BY <1>15
  <2>2. ~No(net[p], Reply) /\ Taken(p) \in Nets
    BY <2>1, TakenKinds DEF OkDone, Reply
  <2>3. p = "alice" /\ Turn("alice") /\ net' = Taken("alice") /\ net["alice"] # <<>>
        /\ Head(net["alice"]).kind = "200"
    BY <1>1, <1>2, <2>1, <2>2 DEF InTurn, OkDone, Arrives
  <2>4. ssut'.accepted = ssut.accepted
    BY <2>1 DEF OkDone, Typed, SsutShape
  <2>5. /\ Taken("alice")["alice"] = Tail(net["alice"])
        /\ Silent(Taken("alice")) /\ side'["alice"] \in SideShape
    BY <1>1, <2>3, <2>4, TakenDoes DEF Silent, Turn
  <2>6. AllWrong(Tail(net["alice"])) /\ Wrong(Head(net["alice"]))
    BY <1>1, <1>2, <2>3, TailWrong
  <2>7. CASE a.ua # "updating"
    <3>1. side'["alice"] = a
      BY <2>1, <2>3, <2>7 DEF OkDone
    <3>2. asks' = asks
      BY <3>1 DEF Asks
    <3>3. Expects(side'["alice"], Asks("alice")')
      BY <1>2, <3>1, <3>2
    <3>4. QED
      BY <1>1, <2>2, <2>3, <2>5, <2>6, <2>7, <3>1, <3>3, CaughtKept
  <2>8. CASE a.ua = "updating"
    <3>1. scn.cls \in Refused \/ Head(net["alice"]).body = "raw"
      BY <2>6 DEF Wrong
    <3>2. Answered("alice", Head(net["alice"]).body)
      BY <2>1, <2>3, <2>8 DEF OkDone
    <3>3. /\ side'["alice"].nerrs = a.nerrs + 1 /\ side'["alice"].done = a.done
          /\ side'["alice"].timers = a.timers /\ side'["alice"].ua = "up"
          /\ side'["alice"].busy => a.busy
      BY <3>1, <3>2 DEF Answered, Same, Fields
    <3>4. asks' = asks /\ side'["alice"].nerrs > 0
      BY <1>1, <3>3 DEF Asks
    <3>5. Expects(side'["alice"], Asks("alice")')
      BY <1>5, <3>3, <3>4
    <3>6. QED
      BY <1>1, <1>3, <2>2, <2>3, <2>5, <2>6, <2>8, <3>3, <3>4, <3>5, CaughtKept
  <2>9. QED
    BY <2>7, <2>8
<1>16. CASE \E p \in Sides : RefusalDone(p)
  <2>1. PICK p \in Sides : RefusalDone(p)
    BY <1>16
  <2>2. ~No(net[p], Reply) /\ Taken(p) \in Nets
    BY <2>1, TakenKinds DEF RefusalDone, Reply
  <2>3. p = "alice" /\ Turn("alice") /\ net' = Taken("alice") /\ net["alice"] # <<>>
        /\ Head(net["alice"]).kind = "refuse" /\ ssut' = ssut
    BY <1>1, <1>2, <2>1, <2>2 DEF InTurn, RefusalDone, Arrives, Takes
  <2>4. /\ Taken("alice")["alice"] = Tail(net["alice"])
        /\ Silent(Taken("alice")) /\ side'["alice"] \in SideShape
    BY <1>1, <2>3, TakenDoes DEF Silent, Turn
  <2>5. AllWrong(Tail(net["alice"])) /\ ~Coming(net["alice"])
    BY <1>1, <1>2, <2>3, TailWrong
  <2>6. CASE a.ua # "updating"
    <3>1. side'["alice"] = a
      BY <2>1, <2>3, <2>6 DEF RefusalDone
    <3>2. asks' = asks
      BY <3>1 DEF Asks
    <3>3. Expects(side'["alice"], Asks("alice")')
      BY <1>2, <3>1, <3>2
    <3>4. QED
      BY <1>1, <2>2, <2>3, <2>4, <2>5, <3>1, <3>3, CaughtKept
  <2>7. CASE a.ua = "updating"
    <3>1. /\ side'["alice"].ua = "up" /\ FailDone("alice", side'["alice"], a)
          /\ side'["alice"].timers = a.timers
      BY <2>1, <2>3, <2>7 DEF RefusalDone, Same, Fields
    <3>2. asks' = {}
      BY <1>3, <2>7, <3>1 DEF Asks
    <3>3. /\ side'["alice"].nerrs >= a.nerrs /\ side'["alice"].nerrs \in Nat
          /\ scn.cls \notin Refused => side'["alice"].done = a.done
      BY <3>1 DEF FailDone
    <3>4. Expects(side'["alice"], Asks("alice")') /\ ~Left(a)
      BY <1>2, <1>3, <2>7, <3>1, <3>2, <3>3 DEF Expects
    <3>5. QED
      BY <1>1, <2>2, <2>3, <2>4, <2>5, <3>3, <3>4, CaughtKept
  <2>8. QED
    BY <2>6, <2>7
<1>17. CASE \E p \in Sides : ByeDone(p)
  <2>1. PICK p \in Sides : ByeDone(p)
    BY <1>17
  <2>2. /\ Turn(p) /\ net' = Taken(p) /\ ssut' = ssut /\ net[p] # <<>>
        /\ Head(net[p]).kind = "BYE"
    BY <2>1 DEF ByeDone, Takes, Arrives
  <2>3. /\ Taken(p) \in Nets /\ Silent(Taken(p))
        /\ Taken(p)[p] = Tail(net[p]) /\ \A q \in Sides \ {p} : Taken(p)[q] = net[q]
    BY <2>2, TakenDoes DEF Silent
  <2>4. CASE p = "bob"
    <3>1. side'["alice"] = a /\ Taken(p)["alice"] = net["alice"]
      BY <1>1, <2>2, <2>3, <2>4 DEF Turn
    <3>2. QED
      BY <1>6, <2>3, <3>1
  <2>5. CASE p = "alice"
    <3>1. AllWrong(Tail(net["alice"])) /\ ~Coming(net["alice"]) /\ side'["alice"] \in SideShape
      BY <1>1, <1>2, <2>2, <2>5, TailWrong DEF Turn
    <3>2. side'["alice"].timers = a.timers
      BY <2>1, <2>5 DEF ByeDone, Same, Fields
    <3>3. asks' = asks
      BY <3>2 DEF Asks
    <3>4. CASE Left(a)
      <4>1. side'["alice"] = a
        BY <2>1, <2>5, <3>4 DEF ByeDone
      <4>2. Expects(side'["alice"], Asks("alice")')
        BY <1>2, <3>3, <4>1
      <4>3. QED
        BY <1>1, <2>2, <2>3, <2>5, <3>1, <4>1, <4>2, CaughtKept
    <3>5. CASE ~Left(a)
      <4>1. side'["alice"].ua = "ended" /\ FailDone("alice", side'["alice"], a)
        BY <2>1, <2>5, <3>5 DEF ByeDone
      <4>2. /\ side'["alice"].nerrs >= a.nerrs /\ side'["alice"].nerrs \in Nat
            /\ scn.cls \notin Refused => side'["alice"].done = a.done
            /\ scn.cls \in Refused /\ (side'["alice"].done \/ side'["alice"].busy)
                  => a.busy \/ a.done
        BY <4>1 DEF FailDone
      <4>3. Expects(side'["alice"], Asks("alice")')
        BY <1>2, <3>3, <4>1, <4>2 DEF Expects
      <4>4. QED
        BY <1>1, <2>2, <2>3, <2>5, <3>1, <3>5, <4>2, <4>3, CaughtKept
    <3>6. QED
      BY <3>4, <3>5
  <2>6. QED
    BY <1>1, <2>4, <2>5
<1>18. CASE \E p \in Sides : DeadDone(p)
  <2>1. PICK p \in Sides : DeadDone(p)
    BY <1>18
  <2>2. Silent(net) /\ Turn(p)
    BY <2>1 DEF DeadDone, Quiet, Silent
  <2>3. CASE p = "bob"
    <3>1. side'["alice"] = a
      BY <1>1, <2>2, <2>3 DEF Turn
    <3>2. QED
      BY <1>1, <1>6, <2>2, <3>1
  <2>4. CASE p = "alice"
    <3>1. /\ side'["alice"].timers = a.timers /\ side'["alice"].ua = "dead"
          /\ side'["alice"].nerrs = a.nerrs /\ side'["alice"].done = a.done
          /\ side'["alice"].busy = a.busy /\ side'["alice"] \in SideShape
      BY <1>1, <2>1, <2>2, <2>4 DEF DeadDone, Same, Fields, Turn
    <3>2. asks' = asks
      BY <3>1 DEF Asks
    <3>3. Left(side'["alice"])
      BY <3>1 DEF Left
    <3>4. QED
      BY <1>1, <1>8, <2>2, <3>1, <3>2, <3>3
  <2>5. QED
    BY <1>1, <2>3, <2>4
<1>19. CASE \E blame : ByesDone(blame) /\ Reason(blame)
  <2>1. PICK blame : ByesDone(blame)
    BY <1>19
  <2>2. side'["alice"] = a /\ ssut'.accepted = ssut.accepted
    BY <2>1 DEF ByesDone, Over, Typed, SsutShape
  <2>3. Silent(net)
    BY <1>1, <2>1, <2>2 DEF ByesDone, Silent, Behind
  <2>4. QED
    BY <1>1, <1>6, <2>2, <2>3
<1>20. QED
  BY <1>9, <1>10, <1>11, <1>12, <1>13, <1>14, <1>15, <1>16, <1>17, <1>18, <1>19 DEF Moved

LEMMA CaughtStep ==
    ASSUME Typed, Sane, Begun, Knows, OneAtATime, Caught, [Next]_vars
    PROVE  Caught'
<1>1. scn' = scn => (Watching' <=> Watching)
  BY DEF Watching
<1>2. CASE Moved /\ scn' = scn
  <2>1. CASE Watching
    BY <1>2, <2>1, CaughtTurn
  <2>2. CASE ~Watching
    BY <1>1, <1>2, <2>2 DEF Caught
  <2>3. QED
    BY <2>1, <2>2
<1>3. CASE TickDone \/ Stay
  <2>1. side' = side /\ net' = net /\ scn' = scn /\ ssut' = ssut
    BY <1>3 DEF TickDone, Stay
  <2>2. Asks("alice")' = Asks("alice")
    BY <2>1 DEF Asks
  <2>3. QED
    BY <1>1, <2>1, <2>2 DEF Caught, AllWrong, Wrong, Noticed, Coming, Expects, Left
<1>4. QED
  BY <1>2, <1>3, StepMoves

-----------------------------------------------------------------------------
(* The late answer                                                         *)

LEMMA AppendedAhead ==
    ASSUME NEW q \in Seq(MsgShape), NEW m \in MsgShape, NEW s, AheadOfAll(s, q),
           m.kind = "INVITE" => Ahead(s, m.at + 35)
    PROVE  AheadOfAll(s, Append(q, m))
<1> DEFINE r == Append(q, m)
           l == Len(q)
<1>1. /\ l \in Nat /\ Len(r) = l + 1 /\ r[l + 1] = m /\ \A i \in 1..l : r[i] = q[i]
  OBVIOUS
<1> HIDE DEF r, l
<1>2. \A i \in 1..(l + 1) : i \in 1..l \/ i = l + 1
  BY <1>1
<1>3. AheadOfAll(s, r)
  BY <1>1, <1>2 DEF AheadOfAll, l
<1>4. QED
  BY <1>3 DEF r

LEMMA TailAhead ==
    ASSUME NEW q \in Seq(MsgShape), q # <<>>, NEW s, AheadOfAll(s, q)
    PROVE  /\ AheadOfAll(s, Tail(q))
           /\ Head(q).kind = "INVITE" => Ahead(s, Head(q).at + 35)
<1> DEFINE r == Tail(q)
           l == Len(r)
<1>1. /\ l \in Nat /\ Len(q) = l + 1 /\ Head(q) = q[1]
      /\ \A i \in 1..l : r[i] = q[i + 1]
  OBVIOUS
<1> HIDE DEF r, l
<1>2. 1 \in 1..Len(q) /\ \A i \in 1..l : i + 1 \in 1..Len(q)
  BY <1>1
<1>3. AheadOfAll(s, r) /\ (Head(q).kind = "INVITE" => Ahead(s, Head(q).at + 35))
  BY <1>1, <1>2 DEF AheadOfAll, l
<1>4. QED
  BY <1>3 DEF r

\* On top of network n Alice is sent no answer; Bob is sent no re-INVITE, or one
\* that is not there before now.
NoAnswer(n) == No(n["alice"], {"200"}) => No(net'["alice"], {"200"})
NoOffer(n) == \A s \in SideShape : AheadOfAll(s, n["bob"]) => AheadOfAll(s, net'["bob"])
OfferLater(n) ==
    \A s \in SideShape : AheadOfAll(s, n["bob"]) /\ Ahead(s, now + 35) => AheadOfAll(s, net'["bob"])

LEMMA SentAhead ==
    ASSUME Typed, NEW n \in Nets, NEW to \in Sides, NEW kind, NEW body,
           Sent(n, to, kind, body)
    PROVE  /\ kind # "200" => NoAnswer(n)
           /\ kind # "INVITE" => NoOffer(n)
           /\ OfferLater(n)
<1>1. PICK m : /\ net' = [n EXCEPT ![to] = Append(n[to], m)]
               /\ Behind(n[to], m) /\ m.kind = kind /\ m.body = body
  BY DEF Sent
<1>2. m \in MsgShape /\ m.at >= now /\ m.at \in Nat /\ now \in Nat /\ "bob" \in Sides
      /\ "alice" \in Sides /\ n["bob"] \in Seq(MsgShape)
  BY <1>1 DEF Behind, MsgShape, Typed, Sides, Nets
<1>3. net'["bob"] = n["bob"] \/ net'["bob"] = Append(n["bob"], m)
  BY <1>1, <1>2 DEF Nets
<1>4. kind # "200" => NoAnswer(n)
  BY <1>2, SentNo DEF NoAnswer
<1>5. kind # "INVITE" => NoOffer(n)
  BY <1>1, <1>2, <1>3, AppendedAhead DEF NoOffer
<1>6. ASSUME NEW s \in SideShape, Ahead(s, now + 35)
      PROVE  Ahead(s, m.at + 35)
  <2>1. PICK u \in s.timers : u.cb = "disconnect" /\ u.at <= now + 35
    BY <1>6 DEF Ahead
  <2>2. u.at \in Nat
    BY <2>1 DEF SideShape, TimerShape
  <2>3. u.at <= m.at + 35
    BY <1>2, <2>1, <2>2
  <2>4. QED
    BY <2>1, <2>3 DEF Ahead
<1>7. OfferLater(n)
  BY <1>2, <1>3, <1>6, AppendedAhead DEF OfferLater
<1>8. QED
  BY <1>4, <1>5, <1>7

LEMMA SsutAhead ==
    ASSUME Typed, scn.fault # "swallow", NEW n \in Nets
    PROVE  /\ \A p \in Sides :
                  /\ SsutFrom(p, n, "BYE", "none") => NoAnswer(n) /\ NoOffer(n)
                  /\ SsutFrom(p, n, "answer", "plain") => NoAnswer(n) /\ NoOffer(n)
                  /\ \A body \in Bodies :
                         /\ SsutFrom(p, n, "INVITE", body) => NoAnswer(n) /\ OfferLater(n)
                         /\ SsutFrom(p, n, "200", body) => NoOffer(n)
<1>1. /\ net' = n => NoAnswer(n) /\ NoOffer(n) /\ OfferLater(n)
      /\ \A p \in Sides : Other(p) \in Sides
  BY OtherSide DEF NoAnswer, NoOffer, OfferLater
<1>2. ASSUME NEW p \in Sides, SsutFrom(p, n, "BYE", "none")
      PROVE  NoAnswer(n) /\ NoOffer(n)
  BY <1>1, <1>2, SsutByes, SentAhead
<1>3. ASSUME NEW p \in Sides, SsutFrom(p, n, "answer", "plain")
      PROVE  NoAnswer(n) /\ NoOffer(n)
  BY <1>1, <1>3, SsutAnswers, SentAhead
<1>4. ASSUME NEW p \in Sides, NEW body \in Bodies, SsutFrom(p, n, "INVITE", body)
      PROVE  NoAnswer(n) /\ OfferLater(n)
  BY <1>1, <1>4, SsutInvites, SentAhead
<1>5. ASSUME NEW p \in Sides, NEW body \in Bodies, SsutFrom(p, n, "200", body)
      PROVE  NoOffer(n)
  BY <1>1, <1>5, SsutAccepts, SentAhead
<1>6. QED
  BY <1>2, <1>3, <1>4, <1>5

\* Either Alice has left, or her timers and what they are ahead of are still there.
LEMMA HastyKept ==
    ASSUME Typed, Hasty, Late, scn' = scn, ~side'["alice"].done,
           \A u \in Asks("alice")' : u.cb = "reinvite",
           Left(side["alice"]) => Left(side'["alice"]),
           \/ Left(side'["alice"])
           \/ /\ \A u \in side["alice"].timers :
                     u.cb = "disconnect" => u \in side'["alice"].timers
              /\ AheadOfAll(side'["alice"], net["bob"])
                     => AheadOfAll(side'["alice"], net'["bob"])
              /\ \A t \in Owed("bob")' :
                     t \in Owed("bob") \/ Ahead(side'["alice"], t.at - 1)
              /\ No(net["alice"], {"200"}) => No(net'["alice"], {"200"})
    PROVE  Hasty'
<1> DEFINE a == side["alice"]
           b == side'["alice"]
<1>1. ASSUME ~Left(b)
      PROVE  /\ AheadOfAll(b, net'["bob"]) /\ No(net'["alice"], {"200"})
             /\ \A t \in Owed("bob")' : Ahead(b, t.at - 1)
  <2>1. \A u \in a.timers : u.cb = "disconnect" => u \in b.timers
    BY <1>1
  <2>2. \A time : Ahead(a, time) => Ahead(b, time)
    BY <2>1 DEF Ahead
  <2>3. ~Left(a)
    BY <1>1
  <2>4. /\ AheadOfAll(a, net["bob"]) /\ No(net["alice"], {"200"})
        /\ \A t \in Owed("bob") : Ahead(a, t.at - 1)
    BY <2>3 DEF Hasty
  <2>5. AheadOfAll(b, net["bob"])
    BY <2>2, <2>4 DEF AheadOfAll
  <2>6. \A t \in Owed("bob")' : Ahead(b, t.at - 1)
    BY <1>1, <2>2, <2>4
  <2>7. QED
    BY <1>1, <2>4, <2>5, <2>6
<1>2. /\ AheadOfAll(b, net'["bob"]) = AheadOfAll(a, net["bob"])'
      /\ \A time : Ahead(a, time)' = Ahead(b, time)
      /\ Left(a)' = Left(b) /\ No(net["alice"], {"200"})' = No(net'["alice"], {"200"})
  BY DEF AheadOfAll, Ahead, Left, No
<1>3. (~Left(a) => /\ AheadOfAll(a, net["bob"])
                   /\ \A t \in Owed("bob") : Ahead(a, t.at - 1)
                   /\ No(net["alice"], {"200"}))'
  BY <1>1, <1>2 DEF Ahead
<1>4. QED
  BY <1>3 DEF Hasty

LEMMA HastyTurn ==
    ASSUME Typed, Sane, Begun, Punctual, OneAtATime, Hasty, Moved, scn' = scn, Late
    PROVE  Hasty'
<1> DEFINE a == side["alice"]
           b == side'["alice"]
<1>1. /\ a \in SideShape /\ alice = a /\ now \in Nat
      /\ Sides = {"alice", "bob"} /\ net \in Nets /\ net["alice"] \in Seq(MsgShape)
      /\ net["bob"] \in Seq(MsgShape)
      /\ Reinviter(scn.cls) = "alice" /\ scn.cls = "reinv_adelay" /\ scn.fault # "swallow"
      /\ scn.cls \notin Refused
      /\ "plain" \in Bodies /\ "broken" \in Bodies
      /\ "alice" \in Sides /\ "bob" \in Sides
      /\ \A p \in Sides : p = "alice" \/ p = "bob"
  BY SideTyped DEF Sides, alice, Reinviter, Bodies, Late, Refused
<1>2. /\ InTurn("alice", "bob") /\ ~a.done /\ \A u \in Asks("alice") : u.cb = "reinvite"
      /\ ~Left(a) => /\ AheadOfAll(a, net["bob"])
                     /\ \A t \in Owed("bob") : Ahead(a, t.at - 1)
                     /\ No(net["alice"], {"200"})
  BY <1>1 DEF OneAtATime, Hasty
<1>3. \A cb, ival : Timer(cb, ival).cb = cb /\ Timer(cb, ival).at = now + ival
  BY DEF Timer
<1>4. b \in SideShape
  BY <1>1, SideMoves
<1>5. net' = net => NoAnswer(net) /\ NoOffer(net) /\ OfferLater(net)
  BY DEF NoAnswer, NoOffer, OfferLater
\* Alice does not move.
<1>6. ASSUME b = a, NoOffer(net), Owed("bob")' \subseteq Owed("bob"),
             No(net["alice"], {"200"}) => No(net'["alice"], {"200"}) \/ Left(a)
      PROVE  Hasty'
  <2>1. Asks("alice")' = Asks("alice")
    BY <1>6 DEF Asks
  <2>2. \A u \in Asks("alice")' : u.cb = "reinvite"
    BY <1>2, <2>1
  <2>3. AheadOfAll(b, net["bob"]) => AheadOfAll(b, net'["bob"])
    BY <1>4, <1>6 DEF NoOffer
  <2>4. QED
    BY <1>2, <1>6, <2>2, <2>3, HastyKept
\* She does, and stays or leaves.
<1>7. ASSUME Turn("alice"), b.done = a.done, Asks("alice")' \subseteq Asks("alice"),
             Left(a) => Left(b),
             Left(b) \/ (/\ \A u \in a.timers : u.cb = "disconnect" => u \in b.timers
                         /\ AheadOfAll(b, net["bob"]) => AheadOfAll(b, net'["bob"])
                         /\ No(net["alice"], {"200"}) => No(net'["alice"], {"200"}))
      PROVE  Hasty'
  <2>1. Owed("bob")' = Owed("bob")
    BY <1>1, <1>7, OtherTimers
  <2>2. \A u \in Asks("alice")' : u.cb = "reinvite"
    BY <1>2, <1>7
  <2>3. QED
    BY <1>2, <1>7, <2>1, <2>2, HastyKept
<1>8. CASE \E p \in Sides : \E t : AskDone(p, t)
  <2>0. PICK p \in Sides : \E t : AskDone(p, t)
    BY <1>8
  <2>1. PICK t : AskDone(p, t)
    BY <2>0
  <2>2. p = "alice" /\ t \in Asks("alice") /\ Turn("alice") /\ t.cb = "reinvite"
    BY <1>1, <1>2, <2>1 DEF AskDone
  <2>3. b.timers = (a.timers \ {t}) \cup {Timer("disconnect", 35)}
    BY <1>1, <2>1, <2>2 DEF AskDone
  <2>4. /\ Asks("alice")' \subseteq Asks("alice")
        /\ \A u \in a.timers : u.cb = "disconnect" => u \in b.timers
    BY <1>3, <2>2, <2>3 DEF Asks
  <2>5. b.done = a.done
    BY <2>1, <2>2 DEF AskDone, Same, Fields
  <2>6. Ahead(b, now + 35)
    BY <1>1, <1>3, <2>3 DEF Ahead
  <2>7. CASE ~MayReinvite(a)
    <3>1. b.ua = a.ua /\ net' = net
      BY <2>1, <2>2, <2>7 DEF AskDone, Same, Fields, Quiet
    <3>2. Left(a) => Left(b)
      BY <3>1 DEF Left
    <3>3. QED
      BY <1>7, <2>2, <2>4, <2>5, <3>1, <3>2
  <2>8. CASE MayReinvite(a)
    <3>1. \E body \in Bodies : SsutFrom("alice", net, "INVITE", body)
      BY <2>1, <2>2, <2>8 DEF AskDone
    <3>2. NoAnswer(net) /\ OfferLater(net)
      BY <1>1, <3>1, SsutAhead
    <3>3. AheadOfAll(b, net["bob"]) => AheadOfAll(b, net'["bob"])
      BY <1>4, <2>6, <3>2 DEF OfferLater
    <3>4. ~Left(a)
      BY <1>1, <2>8 DEF MayReinvite, Sane
    <3>5. QED
      BY <1>7, <2>2, <2>4, <2>5, <3>2, <3>3, <3>4 DEF NoAnswer
  <2>9. QED
    BY <2>7, <2>8
<1>9. CASE \E t : ConnectDone(t)
  <2>1. PICK t : ConnectDone(t)
    BY <1>9
  <2>2. b = a /\ NoOffer(net) /\ NoAnswer(net)
    BY <1>1, <1>5, <2>1, SsutAhead DEF ConnectDone, Turn, Quiet
  <2>3. Owed("bob")' \subseteq Owed("bob")
    BY <1>3, <2>1 DEF ConnectDone, Owed, bob
  <2>4. QED
    BY <1>6, <2>2, <2>3 DEF NoAnswer
<1>10. CASE \E p \in Sides : \E t : LateDone(p, t)
  <2>0. PICK p \in Sides : \E t : LateDone(p, t)
    BY <1>10
  <2>1. PICK t : LateDone(p, t)
    BY <2>0
  <2>2. p = "bob" /\ t \in Owed("bob") /\ b = a /\ now >= t.at /\ t.at \in Nat
    BY <1>1, <1>2, <2>1, FiredDoes DEF LateDone, InTurn, Turn, Owed
  <2>3. Left(a)
    <3>1. ASSUME ~Left(a)
          PROVE  FALSE
      <4>1. PICK u \in a.timers : u.at <= t.at - 1
        BY <1>2, <2>2, <3>1 DEF Ahead
      <4>2. u.at >= now /\ u.at \in Nat
        BY <1>1, FiredDoes DEF Punctual
      <4>3. QED
        BY <1>1, <2>2, <4>1, <4>2
    <3>2. QED
      BY <3>1
  <2>4. NoOffer(net)
    BY <1>1, <1>5, <2>1, SsutAhead DEF LateDone, Quiet
  <2>5. Owed("bob")' \subseteq Owed("bob")
    BY <2>1, <2>2 DEF LateDone, Owed
  <2>6. QED
    BY <1>6, <2>2, <2>3, <2>4, <2>5
<1>11. CASE \E p \in Sides : \E t : HangDone(p, t)
  <2>0. PICK p \in Sides : \E t : HangDone(p, t)
    BY <1>11
  <2>1. PICK t : HangDone(p, t)
    BY <2>0
  <2>2. Turn(p) /\ NoOffer(net) /\ NoAnswer(net)
    BY <1>1, <1>5, <2>1, SsutAhead DEF HangDone, Quiet
  <2>3. ~Polls(p)
    BY <1>1 DEF Polls
  <2>4. side'[p].timers = side[p].timers \ {t}
    BY <2>1, <2>3 DEF HangDone
  <2>5. CASE p = "bob"
    <3>1. b = a
      BY <1>1, <2>2, <2>5 DEF Turn
    <3>2. Owed("bob")' \subseteq Owed("bob")
      BY <2>4, <2>5 DEF Owed
    <3>3. QED
      BY <1>6, <2>2, <3>1, <3>2 DEF NoAnswer
  <2>6. CASE p = "alice"
    <3>1. b.done = a.done /\ (b.ua = "ended" \/ (Left(a) /\ b.ua = a.ua))
      BY <1>1, <2>1, <2>3, <2>6 DEF HangDone, Same, Fields
    <3>2. Left(b)
      BY <3>1 DEF Left
    <3>3. Asks("alice")' \subseteq Asks("alice")
      BY <2>4, <2>6 DEF Asks
    <3>4. QED
      BY <1>7, <2>2, <2>6, <3>1, <3>2, <3>3
  <2>7. QED
    BY <1>1, <2>5, <2>6
<1>12. CASE ConnectedDone
  <2>1. /\ net' = Taken("alice") /\ Turn("alice") /\ net["alice"] # <<>>
    BY <1>12 DEF ConnectedDone, Takes, Arrives
  <2>2. net'["bob"] = net["bob"] /\ (No(net["alice"], {"200"}) => No(net'["alice"], {"200"}))
    BY <1>1, <2>1, TakenDoes, TakenNo
  <2>3. CASE a.ua # "ringing"
    <3>1. b = a
      BY <1>1, <1>12, <2>3 DEF ConnectedDone
    <3>2. Asks("alice")' = Asks("alice")
      BY <3>1 DEF Asks
    <3>3. QED
      BY <1>7, <2>1, <2>2, <3>1, <3>2
  <2>4. CASE a.ua = "ringing"
    <3>1. /\ ~b.done /\ ~Left(a) /\ Owed("bob")' = Owed("bob")
          /\ b.timers = a.timers \cup {Timer("disconnect", DisconnectIval("alice", scn.cls))}
                                 \cup {Timer("reinvite", ReinviteIval(scn.cls))}
      BY <1>1, <1>2, <1>12, <2>1, <2>4, OtherTimers
         DEF ConnectedDone, Same, Fields, Left
    <3>2. /\ \A u \in a.timers : u \in b.timers
          /\ \A u \in Asks("alice")' : u.cb = "reinvite"
      BY <1>2, <1>3, <3>1 DEF Asks
    <3>3. QED
      BY <2>2, <3>1, <3>2, HastyKept
  <2>5. QED
    BY <2>3, <2>4
<1>13. CASE \E p \in Sides : InviteDone(p)
  <2>1. PICK p \in Sides : InviteDone(p)
    BY <1>13
  <2>2. ~No(net[p], Offer)
    BY <2>1, TakenKinds DEF InviteDone, Offer
  <2>3. /\ p = "bob" /\ b = a /\ net["bob"] # <<>> /\ Turn("bob") /\ net' = Taken("bob")
        /\ Head(net["bob"]).kind = "INVITE" /\ now >= Head(net["bob"]).at
    BY <1>1, <1>2, <2>1, <2>2 DEF InTurn, InviteDone, Turn, Takes, Arrives
  <2>4. net'["alice"] = net["alice"] /\ net'["bob"] = Tail(net["bob"])
    BY <1>1, <2>3, TakenDoes
  <2>5. Asks("alice")' = Asks("alice")
    BY <2>3 DEF Asks
  <2>6. \A s : AheadOfAll(s, net["bob"]) => AheadOfAll(s, net'["bob"])
    BY <1>1, <2>3, <2>4, TailAhead
  <2>7. CASE Left(side["bob"])
    <3>1. side'["bob"] = side["bob"]
      BY <2>1, <2>3, <2>7 DEF InviteDone
    <3>2. Owed("bob")' = Owed("bob")
      BY <3>1 DEF Owed
    <3>3. QED
      BY <1>6, <2>3, <2>4, <2>6, <3>2 DEF NoOffer
  <2>8. CASE ~Left(side["bob"])
    <3>1. side'["bob"].timers = side["bob"].timers \cup {Timer("process_reinvite", 70)}
      BY <1>1, <2>1, <2>3, <2>8 DEF InviteDone
    <3>2. \A t \in Owed("bob")' : t \in Owed("bob") \/ t = Timer("process_reinvite", 70)
      BY <3>1 DEF Owed
    <3>3. ASSUME ~Left(a)
          PROVE  Ahead(b, Timer("process_reinvite", 70).at - 1)
      <4>1. PICK u \in a.timers : u.cb = "disconnect" /\ u.at <= Head(net["bob"]).at + 35
        BY <1>1, <1>2, <2>3, <3>3, TailAhead DEF Ahead
      <4>2. u.at \in Nat /\ Head(net["bob"]).at \in Nat
        BY <1>1, <2>3, FiredDoes, TakenDoes DEF MsgShape
      <4>3. u.at <= (now + 70) - 1
        BY <1>1, <2>3, <4>1, <4>2
      <4>4. QED
        BY <1>3, <2>3, <4>1, <4>3 DEF Ahead
    <3>4. \A u \in Asks("alice")' : u.cb = "reinvite"
      BY <1>2, <2>5
    <3>5. QED
      BY <1>2, <2>3, <2>4, <2>6, <3>2, <3>3, <3>4, HastyKept
  <2>9. QED
    BY <2>7, <2>8
<1>14. CASE \E p \in Sides : OkDone(p)
  <2>1. PICK p \in Sides : OkDone(p)
    BY <1>14
  <2>2. ~No(net[p], Reply) /\ ~No(net[p], {"200"})
    BY <2>1, TakenKinds DEF OkDone, Reply, Arrives, No
  <2>3. p = "alice" /\ Turn("alice")
    BY <1>1, <1>2, <2>1, <2>2 DEF InTurn, OkDone
  <2>4. Left(a)
    BY <1>2, <2>2, <2>3
  <2>5. b = a
    BY <2>1, <2>3, <2>4 DEF OkDone, Left
  <2>6. Asks("alice")' = Asks("alice")
    BY <2>5 DEF Asks
  <2>7. QED
    BY <1>7, <2>3, <2>4, <2>5, <2>6
<1>15. CASE \E p \in Sides : RefusalDone(p) \/ ByeDone(p)
  <2>1. PICK p \in Sides : RefusalDone(p) \/ ByeDone(p)
    BY <1>15
  <2>2. Turn(p) /\ net' = Taken(p) /\ net[p] # <<>>
    BY <2>1 DEF RefusalDone, ByeDone, Takes, Arrives
  <2>3. /\ No(net["alice"], {"200"}) => No(net'["alice"], {"200"})
        /\ \A s : AheadOfAll(s, net["bob"]) => AheadOfAll(s, net'["bob"])
    <3>1. No(net["alice"], {"200"}) => No(net'["alice"], {"200"})
      BY <1>1, <2>2, TakenNo
    <3>2. net'["bob"] = net["bob"] \/ (net["bob"] # <<>> /\ net'["bob"] = Tail(net["bob"]))
      BY <1>1, <2>2, TakenDoes
    <3>3. QED
      BY <1>1, <3>1, <3>2, TailAhead
  <2>4. side'[p].timers = side[p].timers
    BY <2>1 DEF RefusalDone, ByeDone, Same, Fields
  <2>5. CASE p = "bob"
    <3>1. b = a
      BY <1>1, <2>2, <2>5 DEF Turn
    <3>2. Owed("bob")' = Owed("bob")
      BY <2>4, <2>5 DEF Owed
    <3>3. QED
      BY <1>6, <2>3, <3>1, <3>2 DEF NoOffer
  <2>6. CASE p = "alice"
    <3>1. b.done = a.done
      BY <1>1, <2>1, <2>6 DEF RefusalDone, ByeDone, FailDone, Same, Fields
    <3>2. Left(a) => Left(b)
      BY <2>1, <2>6 DEF RefusalDone, ByeDone, Left
    <3>3. Asks("alice")' = Asks("alice") /\ \A u \in a.timers : u \in b.timers
      BY <2>4, <2>6 DEF Asks
    <3>4. QED
      BY <1>7, <2>2, <2>3, <2>6, <3>1, <3>2, <3>3
  <2>7. QED
    BY <1>1, <2>5, <2>6
<1>16. CASE \E p \in Sides : DeadDone(p)
  <2>1. PICK p \in Sides : DeadDone(p)
    BY <1>16
  <2>2. net' = net /\ Turn(p) /\ side'[p].timers = side[p].timers /\ side'[p].ua = "dead"
        /\ side'[p].done = side[p].done
    BY <2>1 DEF DeadDone, Quiet, Same, Fields
  <2>3. CASE p = "bob"
    <3>1. b = a
      BY <1>1, <2>2, <2>3 DEF Turn
    <3>2. Owed("bob")' = Owed("bob")
      BY <2>2, <2>3 DEF Owed
    <3>3. QED
      BY <1>5, <1>6, <2>2, <3>1, <3>2
  <2>4. CASE p = "alice"
    <3>1. Asks("alice")' = Asks("alice") /\ Left(b)
      BY <2>2, <2>4 DEF Asks, Left
    <3>2. QED
      BY <1>7, <2>2, <2>4, <3>1
  <2>5. QED
    BY <1>1, <2>3, <2>4
<1>17. CASE \E blame : ByesDone(blame) /\ Reason(blame)
  <2>1. PICK blame : ByesDone(blame)
    BY <1>17
  <2>2. b = a /\ Owed("bob")' = Owed("bob")
    BY <2>1 DEF ByesDone, Owed
  <2>3. /\ \A s : AheadOfAll(s, net["bob"]) => AheadOfAll(s, net'["bob"])
        /\ No(net["alice"], {"200"}) => No(net'["alice"], {"200"})
    <3>1. PICK m : net'["bob"] = Append(net["bob"], m) /\ Behind(net["bob"], m)
                   /\ m.kind = "BYE"
      BY <1>1, <2>1 DEF ByesDone
    <3>2. PICK l : net'["alice"] = Append(net["alice"], l) /\ Behind(net["alice"], l)
                   /\ l.kind = "BYE"
      BY <1>1, <2>1 DEF ByesDone
    <3>3. QED
      BY <1>1, <3>1, <3>2, AppendedAhead, AppendedNo DEF Behind
  <2>4. QED
    BY <1>6, <2>2, <2>3 DEF NoOffer
<1>18. QED
  BY <1>8, <1>9, <1>10, <1>11, <1>12, <1>13, <1>14, <1>15, <1>16, <1>17 DEF Moved

LEMMA HastyStep ==
    ASSUME Typed, Sane, Begun, Punctual, OneAtATime, Hasty, [Next]_vars
    PROVE  Hasty'
<1>1. scn' = scn => (Late' <=> Late)
  BY DEF Late
<1>2. CASE Moved /\ scn' = scn
  BY <1>1, <1>2, HastyTurn DEF Hasty
<1>3. CASE TickDone \/ Stay
  <2>1. side' = side /\ net' = net /\ scn' = scn
    BY <1>3 DEF TickDone, Stay
  <2>2. Asks("alice")' = Asks("alice") /\ Owed("bob")' = Owed("bob")
    BY <2>1 DEF Asks, Owed
  <2>3. QED
    BY <1>1, <2>1, <2>2 DEF Hasty, AheadOfAll, Ahead, Left, No
<1>4. QED
  BY <1>2, <1>3, StepMoves

-----------------------------------------------------------------------------
(* The ACK that Alice waits for                                            *)

\* What Alice is told of Bob's answer in q2 she was told in q.
AnswersFrom(q2, q) ==
    \A i \in 1..Len(q2) : q2[i].kind = "answer" => \E j \in 1..Len(q) : q[j] = q2[i]

LEMMA AnswersKept ==
    /\ \A q : AnswersFrom(q, q)
    /\ \A q \in Seq(MsgShape) : q # <<>> => AnswersFrom(Tail(q), q)
    /\ \A q \in Seq(MsgShape), m \in MsgShape :
           m.kind # "answer" => AnswersFrom(Append(q, m), q)
<1>1. ASSUME NEW q \in Seq(MsgShape), q # <<>>
      PROVE  AnswersFrom(Tail(q), q)
  <2>1. \A i \in 1..Len(Tail(q)) : i + 1 \in 1..Len(q) /\ q[i + 1] = Tail(q)[i]
    BY <1>1
  <2>2. QED
    BY <2>1 DEF AnswersFrom
<1>2. ASSUME NEW q \in Seq(MsgShape), NEW m \in MsgShape, m.kind # "answer"
      PROVE  AnswersFrom(Append(q, m), q)
  <2> DEFINE r == Append(q, m)
  <2>1. \A i \in 1..Len(r) : r[i] = m \/ (i \in 1..Len(q) /\ q[i] = r[i])
    OBVIOUS
  <2> HIDE DEF r
  <2>2. AnswersFrom(r, q)
    BY <1>2, <2>1 DEF AnswersFrom
  <2>3. QED
    BY <2>2 DEF r
<1>3. \A q : AnswersFrom(q, q)
  BY DEF AnswersFrom
<1>4. QED
  BY <1>1, <1>2, <1>3

LEMMA SentAnswers ==
    ASSUME NEW n \in Nets, NEW to \in Sides, NEW kind, NEW body, kind # "answer",
           Sent(n, to, kind, body)
    PROVE  AnswersFrom(net'["alice"], n["alice"])
<1>1. PICK m : /\ net' = [n EXCEPT ![to] = Append(n[to], m)]
               /\ Behind(n[to], m) /\ m.kind = kind
  BY DEF Sent
<1>2. m \in MsgShape /\ n["alice"] \in Seq(MsgShape)
  BY <1>1 DEF Behind, Nets, Sides
<1>3. net'["alice"] = n["alice"] \/ net'["alice"] = Append(n["alice"], m)
  BY <1>1 DEF Nets, Sides
<1>4. QED
  BY <1>1, <1>2, <1>3, AnswersKept

\* The SSuT has refused nothing and blames whom it blamed.
Calm(n) ==
    /\ ssut'.refused = ssut.refused /\ ssut'.blame = ssut.blame
    /\ AnswersFrom(net'["alice"], n["alice"])

LEMMA SsutCalm ==
    ASSUME Typed, NEW p \in Sides, NEW n \in Nets
    PROVE  /\ net' = n /\ ssut' = ssut => Calm(n)
           /\ \A body \in Bodies \ {"broken"} :
                  SsutFrom(p, n, "INVITE", body) \/ SsutFrom(p, n, "200", body) => Calm(n)
           /\ SsutFrom(p, n, "BYE", "none") =>
                  \/ Calm(n)
                  \/ /\ ssut.leg # "over" /\ ssut' = Over(p)
                     /\ AnswersFrom(net'["alice"], n["alice"])
<1>1. Other(p) \in Sides /\ ssut \in SsutShape
  BY OtherSide DEF Typed
<1>2. net' = n /\ ssut' = ssut => Calm(n)
  BY AnswersKept DEF Calm
<1>3. ASSUME \/ ssut' = ssut
             \/ ssut' = [ssut EXCEPT !.accepted = TRUE]
             \/ ssut' = [ssut EXCEPT !.since = now]
             \/ ssut' = [ssut EXCEPT !.since = now, !.accepted = TRUE]
      PROVE  ssut'.refused = ssut.refused /\ ssut'.blame = ssut.blame
  BY <1>1, <1>3 DEF SsutShape
<1>4. ASSUME NEW body \in Bodies \ {"broken"}, SsutFrom(p, n, "INVITE", body)
      PROVE  Calm(n)
  BY <1>1, <1>2, <1>3, <1>4, SsutInvites, SentAnswers DEF Calm
<1>5. ASSUME NEW body \in Bodies \ {"broken"}, SsutFrom(p, n, "200", body)
      PROVE  Calm(n)
  BY <1>1, <1>2, <1>3, <1>5, SsutAccepts, SentAnswers DEF Calm
<1>6. ASSUME SsutFrom(p, n, "BYE", "none")
      PROVE  \/ Calm(n)
             \/ /\ ssut.leg # "over" /\ ssut' = Over(p)
                /\ AnswersFrom(net'["alice"], n["alice"])
  BY <1>1, <1>2, <1>6, SsutByes, SentAnswers
<1>7. QED
  BY <1>2, <1>4, <1>5, <1>6

LEMMA PatientKept ==
    ASSUME Typed, Patient, scn.cls = "reinv_bad_ack", scn' = scn,
           ssut'.refused = ssut.refused,
           AnswersFrom(net'["alice"], net["alice"]),
           side["alice"].nerrs \in Nat, side'["alice"].nerrs \in Nat,
           side'["alice"].nerrs >= side["alice"].nerrs,
           side'["alice"].connect = side["alice"].connect,
           side'["alice"].ua = "ringing" => side["alice"].ua = "ringing",
           \/ Left(side'["alice"])
           \/ side'["alice"].nerrs > 0
           \/ /\ side["alice"].ua = "ringing" => side'["alice"].ua = "ringing"
              /\ ~Left(side["alice"])
              /\ \A u \in side["alice"].timers :
                     u.cb = "disconnect" => u \in side'["alice"].timers,
           \A t \in side'["bob"].timers : t.cb = "disconnect" => t \in side["bob"].timers,
           \/ ssut'.blame = ssut.blame
           \/ ssut'.blame = "bob" /\ (\/ side["alice"].nerrs > 0
                                      \/ /\ ~side["alice"].connect
                                         /\ No(net["alice"], {"answer"}))
           \/ ssut'.blame = "ack"
           \/ ssut'.blame = "media" /\ scn.sigonly
           \/ ssut'.blame = "fault" /\ scn.fault = "hangup"
    PROVE  Patient'
<1> DEFINE a == side["alice"]
           b == side'["alice"]
           q == net["alice"]
           r == net'["alice"]
<1>1. /\ ~ssut'.refused /\ ssut'.blame \notin {"alice", "refusal"}
      /\ ssut'.blame = "media" => scn.sigonly
      /\ ssut'.blame = "fault" => scn.fault = "hangup"
  BY DEF Patient
<1>2. No(q, {"answer"}) => No(r, {"answer"})
  BY DEF No, AnswersFrom
<1>3. ssut'.blame = "bob" => b.nerrs > 0 \/ (~b.connect /\ No(r, {"answer"}))
  BY <1>2 DEF Patient
<1>4. ASSUME b.ua # "ringing", ~Left(b), b.nerrs = 0,
             NEW t \in side'["bob"].timers, t.cb = "disconnect"
      PROVE  Ahead(b, t.at - 1)
  <2>1. a.ua # "ringing" /\ ~Left(a) /\ a.nerrs = 0
    BY <1>4
  <2>2. Ahead(a, t.at - 1)
    BY <1>4, <2>1 DEF Patient
  <2>3. QED
    BY <1>4, <2>2 DEF Ahead
<1>5. ASSUME b.ua = "ringing", NEW i \in 1..Len(r), r[i].kind = "answer",
             NEW t \in side'["bob"].timers, t.cb = "disconnect"
      PROVE  r[i].at + DisconnectIval("alice", scn.cls) < t.at
  <2>1. PICK j \in 1..Len(q) : q[j] = r[i]
    BY <1>5 DEF AnswersFrom
  <2>2. t \in side["bob"].timers /\ a.ua = "ringing"
    BY <1>5
  <2>3. QED
    BY <1>5, <2>1, <2>2 DEF Patient
<1>6. /\ \A time : Ahead(a, time)' = Ahead(b, time)
      /\ Left(a)' = Left(b) /\ No(q, {"answer"})' = No(r, {"answer"})
      /\ DisconnectIval("alice", scn.cls)' = DisconnectIval("alice", scn.cls)
  BY DEF Ahead, Left, No, DisconnectIval
<1> HIDE DEF r
<1>7. (a.ua # "ringing" /\ ~Left(a) /\ a.nerrs = 0 =>
           \A t \in side["bob"].timers : t.cb = "disconnect" => Ahead(a, t.at - 1))'
  BY <1>4 DEF Left, Ahead
<1>8. (a.ua = "ringing" =>
           \A i \in 1..Len(net["alice"]) : net["alice"][i].kind = "answer" =>
               \A t \in side["bob"].timers : t.cb = "disconnect" =>
                   net["alice"][i].at + DisconnectIval("alice", scn.cls) < t.at)'
  BY <1>5, <1>6 DEF r
<1>9. QED
  BY <1>1, <1>3, <1>6, <1>7, <1>8 DEF Patient, r

\* Alice hears of Bob's answer soon enough to give up on her ACK before Bob does
\* on the call.
HeardInTime ==
    \A d \in Delays :
        d + DisconnectIval("alice", "reinv_bad_ack") < DisconnectIval("bob", "reinv_bad_ack")

LEMMA PatientTurn ==
    ASSUME Typed, Sane, Punctual, Knows, Prompt, Begun, OneAtATime, Patient, Moved,
           scn' = scn, scn.cls = "reinv_bad_ack", HeardInTime
    PROVE  Patient'
<1> DEFINE a == side["alice"]
           b == side'["alice"]
<1>1. /\ a \in SideShape /\ alice = a /\ now \in Nat /\ bob = side["bob"]
      /\ ssut \in SsutShape /\ side["bob"] \in SideShape
      /\ Sides = {"alice", "bob"} /\ net \in Nets /\ net["alice"] \in Seq(MsgShape)
      /\ Reinviter(scn.cls) = "alice" /\ scn.cls \notin Refused
      /\ "plain" \in Bodies \ {"broken"}
      /\ "alice" \in Sides /\ "bob" \in Sides
      /\ \A p \in Sides : p = "alice" \/ p = "bob"
  BY SideTyped DEF Sides, alice, bob, Reinviter, Bodies, Refused, Typed
<1>2. /\ InTurn("alice", "bob") /\ Owed("alice") = {} /\ Owed("bob") = {}
      /\ \A p : ~Polls(p)
  BY <1>1 DEF OneAtATime, Prompt, Polls
<1>3. \A cb, ival : Timer(cb, ival).cb = cb /\ Timer(cb, ival).at = now + ival
  BY DEF Timer
<1>4. b \in SideShape /\ a.nerrs \in Nat /\ b.nerrs \in Nat
  BY <1>1, SideMoves DEF SideShape
<1>5. a.ua = "ringing" => a.timers = {} /\ ~a.connect /\ ~Left(a)
  BY <1>1 DEF Begun, Left
\* Alice does not move.
<1>6. ASSUME b = a, ssut'.refused = ssut.refused,
             AnswersFrom(net'["alice"], net["alice"]),
             \A t \in side'["bob"].timers : t.cb = "disconnect" => t \in side["bob"].timers,
             \/ ssut'.blame = ssut.blame
             \/ ssut'.blame = "bob" /\ (\/ a.nerrs > 0
                                        \/ ~a.connect /\ No(net["alice"], {"answer"}))
             \/ ssut'.blame = "ack"
             \/ ssut'.blame = "media" /\ scn.sigonly
             \/ ssut'.blame = "fault" /\ scn.fault = "hangup"
      PROVE  Patient'
  BY <1>4, <1>6, PatientKept
\* She does.
<1>7. ASSUME Turn("alice"), Calm(net), b.nerrs >= a.nerrs, b.connect = a.connect,
             b.ua = "ringing" => b = a,
             \/ b = a
             \/ Left(b)
             \/ b.nerrs > 0
             \/ /\ a.ua # "ringing" /\ ~Left(a)
                /\ \A u \in a.timers : u.cb = "disconnect" => u \in b.timers
      PROVE  Patient'
  <2>1. side'["bob"] = side["bob"]
    BY <1>1, <1>7 DEF Turn
  <2>2. ssut'.refused = ssut.refused /\ AnswersFrom(net'["alice"], net["alice"])
        /\ ssut'.blame = ssut.blame
    BY <1>7 DEF Calm
  <2>3. CASE b = a
    BY <1>6, <2>1, <2>2, <2>3
  <2>4. CASE b # a
    BY <1>4, <1>7, <2>1, <2>2, <2>4, PatientKept
  <2>5. QED
    BY <2>3, <2>4
<1>8. CASE \E p \in Sides : \E t : AskDone(p, t)
  <2>0. PICK p \in Sides : \E t : AskDone(p, t)
    BY <1>8
  <2>1. PICK t : AskDone(p, t)
    BY <2>0
  <2>2. p = "alice" /\ t \in Asks("alice") /\ t \in a.timers /\ Turn("alice")
        /\ t.cb # "disconnect" /\ b.timers = a.timers \ {t}
    BY <1>1, <2>1 DEF AskDone, Asks
  <2>3. a.ua # "ringing"
    BY <1>5, <2>2
  <2>4. b.nerrs = a.nerrs /\ b.connect = a.connect
        /\ (b.ua = "updating" \/ b.ua = a.ua)
    BY <2>1, <2>2 DEF AskDone, Same, Fields
  <2>5. Calm(net)
    BY <1>1, <2>1, <2>2, SsutCalm DEF AskDone, Quiet
  <2>6. Left(a) => Left(b)
    <3>1. CASE MayReinvite(a)
      BY <1>1, <3>1 DEF MayReinvite, Sane
    <3>2. CASE ~MayReinvite(a)
      <4>1. b.ua = a.ua
        BY <2>1, <2>2, <3>2 DEF AskDone, Same, Fields
      <4>2. QED
        BY <4>1 DEF Left
    <3>3. QED
      BY <3>1, <3>2
  <2>7. \A u \in a.timers : u.cb = "disconnect" => u \in b.timers
    BY <2>2
  <2>8. QED
    BY <1>4, <1>7, <2>2, <2>3, <2>4, <2>5, <2>6, <2>7
<1>9. CASE \E t : ConnectDone(t)
  <2>1. PICK t : ConnectDone(t)
    BY <1>9
  <2>2. b = a /\ Turn("bob")
    BY <1>1, <2>1 DEF ConnectDone, Turn
  <2>3. CASE bob.connect \/ bob.disconnect
    <3>1. Quiet /\ side'["bob"].timers = side["bob"].timers \ {t}
      BY <1>1, <2>1, <2>3 DEF ConnectDone
    <3>2. QED
      BY <1>1, <1>6, <2>2, <3>1, AnswersKept DEF Quiet
  <2>4. CASE ~(bob.connect \/ bob.disconnect)
    <3>1. /\ ssut.leg = "calling" /\ a.ua = "ringing" /\ net["alice"] = <<>>
          /\ \A u \in bob.timers : u.cb # "disconnect"
      BY <1>1, <2>4 DEF Begun
    <3>2. side'["bob"].timers =
              (bob.timers \ {t}) \cup {Timer("disconnect", DisconnectIval("bob", scn.cls))}
          /\ SsutFrom("bob", net, "answer", "plain")
      BY <2>1, <2>4 DEF ConnectDone
    <3>3. Sent(net, "alice", "answer", "plain")
          /\ ssut' = [ssut EXCEPT !.since = now, !.leg = "up"]
      BY <1>1, <3>1, <3>2, SsutAnswers DEF Other
    <3>4. ssut'.refused = ssut.refused /\ ssut'.blame = "none"
      BY <1>1, <3>1, <3>3 DEF SsutShape, Knows
    <3>5. PICK m : net'["alice"] = Append(net["alice"], m) /\ Behind(net["alice"], m)
      BY <1>1, <3>3 DEF Sent, Nets
    <3>6. PICK d \in Delays : m.at = now + d
      BY <3>1, <3>5 DEF Behind
    <3>7. \A i \in 1..Len(net'["alice"]) : net'["alice"][i] = m
      BY <3>1, <3>5
    <3>8. /\ d \in Nat /\ DisconnectIval("alice", scn.cls) \in Nat
          /\ DisconnectIval("bob", scn.cls) \in Nat
          /\ d + DisconnectIval("alice", scn.cls) < DisconnectIval("bob", scn.cls)
      BY <1>1, SideTyped, Literals, ReinviteAssumption DEF HeardInTime
    <3>9. m.at + DisconnectIval("alice", scn.cls) < now + DisconnectIval("bob", scn.cls)
      BY <1>1, <3>6, <3>8
    <3>10. \A u \in side'["bob"].timers : u.cb = "disconnect" =>
               m.at + DisconnectIval("alice", scn.cls) < u.at
      BY <1>3, <3>1, <3>2, <3>9
    <3>11. ~ssut.refused
      BY DEF Patient
    <3>12. DisconnectIval("alice", scn.cls)' = DisconnectIval("alice", scn.cls)
      BY DEF DisconnectIval
    <3>13. (\A i \in 1..Len(net["alice"]) : net["alice"][i].kind = "answer" =>
               \A u \in side["bob"].timers : u.cb = "disconnect" =>
                   net["alice"][i].at + DisconnectIval("alice", scn.cls) < u.at)'
      BY <3>7, <3>10, <3>12
    <3>14. QED
      BY <2>2, <3>1, <3>4, <3>11, <3>13 DEF Patient
  <2>5. QED
    BY <2>3, <2>4
<1>10. CASE \E p \in Sides : \E t : LateDone(p, t)
  BY <1>1, <1>2, <1>10 DEF LateDone
<1>11. CASE \E p \in Sides : \E t : HangDone(p, t)
  <2>0. PICK p \in Sides : \E t : HangDone(p, t)
    BY <1>11
  <2>1. PICK t : HangDone(p, t)
    BY <2>0
  <2>2. Turn(p) /\ t \in side[p].timers /\ t.cb = "disconnect" /\ now >= t.at
        /\ side'[p].timers = side[p].timers \ {t} /\ t.at \in Nat
    BY <1>2, <2>1, FiredDoes DEF HangDone
  <2>3. CASE p = "alice"
    <3>1. Quiet /\ b.connect = a.connect /\ b.ua = a.ua
          /\ ((Left(a) /\ b.nerrs = a.nerrs) \/ b.nerrs = a.nerrs + 1)
      BY <1>1, <1>2, <2>1, <2>3 DEF HangDone, Same, Fields
    <3>2. Calm(net) /\ (Left(a) => Left(b)) /\ a.ua # "ringing"
      BY <1>1, <1>5, <2>2, <2>3, <3>1, SsutCalm DEF Quiet, Left
    <3>3. QED
      BY <1>4, <1>7, <2>2, <2>3, <3>1, <3>2
  <2>4. CASE p = "bob"
    <3>1. b = a
      BY <1>1, <2>2, <2>4 DEF Turn
    <3>2. Quiet \/ SsutFrom("bob", net, "BYE", "none")
      BY <2>1, <2>4 DEF HangDone
    <3>3. \/ Calm(net)
          \/ /\ ssut.leg # "over" /\ ssut' = Over("bob")
             /\ AnswersFrom(net'["alice"], net["alice"])
      BY <1>1, <3>2, SsutCalm DEF Quiet
    <3>4. CASE Calm(net)
      BY <1>6, <2>2, <2>4, <3>1, <3>4 DEF Calm
    <3>5. CASE /\ ssut.leg # "over" /\ ssut' = Over("bob")
               /\ AnswersFrom(net'["alice"], net["alice"])
      <4>1. ~Left(a)
        BY <1>1, <3>5 DEF Knows
      <4>2. a.nerrs > 0 \/ (~a.connect /\ No(net["alice"], {"answer"}))
        <5>1. CASE a.ua = "ringing"
          <6>1. ASSUME NEW i \in 1..Len(net["alice"]), net["alice"][i].kind = "answer"
                PROVE  FALSE
            <7>1. /\ net["alice"][i].at + DisconnectIval("alice", scn.cls) < t.at
                  /\ net["alice"][i].at >= now
              BY <1>1, <2>2, <2>4, <5>1, <6>1 DEF Patient, Punctual
            <7>2. DisconnectIval("alice", scn.cls) \in Nat
              BY <1>1, SideTyped, Literals
            <7>3. net["alice"][i] \in MsgShape
              BY <1>1
            <7>4. net["alice"][i].at \in Nat
              BY <7>3 DEF MsgShape
            <7>5. QED
              BY <1>1, <2>2, <7>1, <7>2, <7>4
          <6>2. QED
            BY <1>5, <5>1, <6>1 DEF No
        <5>2. CASE a.ua # "ringing"
          <6>1. ASSUME a.nerrs = 0
                PROVE  FALSE
            <7>1. PICK u \in a.timers : u.at <= t.at - 1
              BY <2>2, <2>4, <4>1, <5>2, <6>1 DEF Patient, Ahead
            <7>2. u.at >= now /\ u.at \in Nat
              BY <1>1, FiredDoes DEF Punctual
            <7>3. QED
              BY <1>1, <2>2, <7>1, <7>2
          <6>2. QED
            BY <1>4, <6>1
        <5>3. QED
          BY <5>1, <5>2
      <4>3. ssut'.refused = ssut.refused /\ ssut'.blame = "bob"
        BY <1>1, <3>5 DEF Over, SsutShape
      <4>4. QED
        BY <1>6, <2>2, <2>4, <3>1, <3>5, <4>2, <4>3
    <3>6. QED
      BY <3>3, <3>4, <3>5
  <2>5. QED
    BY <1>1, <2>3, <2>4
<1>12. CASE ConnectedDone
  <2>1. /\ net' = Taken("alice") /\ ssut' = ssut /\ Turn("alice") /\ net["alice"] # <<>>
        /\ Head(net["alice"]).kind = "answer" /\ now >= Head(net["alice"]).at
    BY <1>12 DEF ConnectedDone, Takes, Arrives
  <2>2. /\ net'["alice"] = Tail(net["alice"]) /\ side'["bob"] = side["bob"]
        /\ Head(net["alice"]) = net["alice"][1] /\ 1 \in 1..Len(net["alice"])
        /\ Head(net["alice"]) \in MsgShape
    BY <1>1, <2>1, TakenDoes DEF Turn
  <2>3. AnswersFrom(net'["alice"], net["alice"])
    BY <1>1, <2>1, <2>2, AnswersKept
  <2>4. CASE a.ua # "ringing"
    <3>1. b = a
      BY <1>1, <1>12, <2>4 DEF ConnectedDone
    <3>2. QED
      BY <1>6, <2>1, <2>2, <2>3, <3>1
  <2>5. CASE a.ua = "ringing"
    <3>1. /\ b.ua = "up" /\ b.nerrs = a.nerrs
          /\ Timer("disconnect", DisconnectIval("alice", scn.cls)) \in b.timers
      BY <1>1, <1>12, <2>5 DEF ConnectedDone, Same, Fields
    <3>2. \A t \in side["bob"].timers : t.cb = "disconnect" =>
              Head(net["alice"]).at + DisconnectIval("alice", scn.cls) < t.at
      BY <2>1, <2>2, <2>5 DEF Patient
    <3>3. /\ Head(net["alice"]).at >= now /\ Head(net["alice"]).at \in Nat
          /\ DisconnectIval("alice", scn.cls) \in Nat
      BY <1>1, <2>2, SideTyped, Literals DEF Punctual, MsgShape
    <3>4. ASSUME NEW t \in side["bob"].timers, t.cb = "disconnect"
          PROVE  Ahead(b, t.at - 1)
      <4>1. t.at \in Nat
        BY <1>1, FiredDoes
      <4>2. now + DisconnectIval("alice", scn.cls) <= t.at - 1
        BY <1>1, <2>1, <3>2, <3>3, <3>4, <4>1
      <4>3. QED
        BY <1>3, <3>1, <4>2 DEF Ahead
    <3>5. ~No(net["alice"], {"answer"})
      BY <2>1, <2>2 DEF No
    <3>6. ssut.blame = "bob" => b.nerrs > 0
      BY <1>1, <3>1, <3>5 DEF Patient
    <3>7. (\A t \in side["bob"].timers :
               t.cb = "disconnect" => Ahead(side["alice"], t.at - 1))'
      BY <2>2, <3>4 DEF Ahead
    <3>8. QED
      BY <2>1, <3>1, <3>6, <3>7 DEF Patient
  <2>6. QED
    BY <2>4, <2>5
<1>13. CASE \E p \in Sides : InviteDone(p)
  <2>1. PICK p \in Sides : InviteDone(p)
    BY <1>13
  <2>2. ~No(net[p], Offer) /\ Taken(p) \in Nets /\ net[p] # <<>>
        /\ \A q \in Sides \ {p} : Taken(p)[q] = net[q]
    BY <2>1, TakenKinds DEF InviteDone, Offer
  <2>3. p = "bob" /\ b = a /\ Taken("bob")["alice"] = net["alice"]
    BY <1>1, <1>2, <2>1, <2>2 DEF InTurn, InviteDone, Turn
  <2>4. Calm(Taken("bob")) /\ side'["bob"].timers = side["bob"].timers
    BY <1>1, <2>1, <2>2, <2>3, SsutCalm DEF InviteDone, Takes, Same, Fields
  <2>5. QED
    BY <1>6, <2>3, <2>4 DEF Calm
<1>14. CASE \E p \in Sides : OkDone(p) \/ RefusalDone(p) \/ ByeDone(p)
  <2>1. PICK p \in Sides : OkDone(p) \/ RefusalDone(p) \/ ByeDone(p)
    BY <1>14
  <2>2. Turn(p) /\ net' = Taken(p) /\ net[p] # <<>>
    BY <2>1 DEF OkDone, RefusalDone, ByeDone, Takes, Arrives
  <2>3. ssut'.refused = ssut.refused /\ ssut'.blame = ssut.blame
    BY <1>1, <2>1 DEF OkDone, RefusalDone, ByeDone, Takes, SsutShape
  <2>4. net'["alice"] = net["alice"] \/ net'["alice"] = Tail(net["alice"])
    BY <1>1, <2>2, TakenDoes
  <2>5. AnswersFrom(net'["alice"], net["alice"])
    <3>1. CASE p = "alice"
      BY <1>1, <2>2, <2>4, <3>1, AnswersKept
    <3>2. CASE p = "bob"
      <4>1. net'["alice"] = net["alice"]
        BY <1>1, <2>2, <3>2, TakenDoes
      <4>2. QED
        BY <4>1, AnswersKept
    <3>3. QED
      BY <1>1, <3>1, <3>2
  <2>6. Calm(net)
    BY <2>3, <2>5 DEF Calm
  <2>7. side'[p].timers = side[p].timers \/ (p = "alice" /\ scn.cls = "reinv_onhold")
    BY <2>1 DEF OkDone, Answered, RefusalDone, ByeDone, Same, Fields
  <2>8. CASE p = "bob"
    <3>1. b = a
      BY <1>1, <2>2, <2>8 DEF Turn
    <3>2. QED
      BY <1>1, <1>6, <2>3, <2>5, <2>7, <2>8, <3>1
  <2>9. CASE p = "alice"
    <3>1. b.connect = a.connect /\ b.nerrs >= a.nerrs
      BY <1>4, <2>1, <2>9 DEF OkDone, Answered, RefusalDone, ByeDone, FailDone, Same, Fields
    <3>2. \/ b = a
          \/ a.ua = "updating" /\ b.ua = "up"
          \/ b.ua = "ended"
      BY <2>1, <2>9 DEF OkDone, Answered, RefusalDone, ByeDone
    <3>3. b.ua = "ringing" => b = a
      BY <3>2
    <3>4. \/ b = a
          \/ Left(b)
          \/ /\ a.ua # "ringing" /\ ~Left(a)
             /\ \A u \in a.timers : u.cb = "disconnect" => u \in b.timers
      BY <1>1, <2>7, <2>9, <3>2 DEF Left
    <3>5. QED
      BY <1>7, <2>2, <2>6, <2>9, <3>1, <3>3, <3>4
  <2>10. QED
    BY <1>1, <2>8, <2>9
<1>15. CASE \E p \in Sides : DeadDone(p)
  <2>1. PICK p \in Sides : DeadDone(p)
    BY <1>15
  <2>2. Turn(p) /\ Quiet /\ side'[p].ua = "dead" /\ side'[p].timers = side[p].timers
        /\ side'[p].connect = side[p].connect /\ side'[p].nerrs = side[p].nerrs
    BY <2>1 DEF DeadDone, Same, Fields
  <2>3. CASE p = "bob"
    <3>1. b = a
      BY <1>1, <2>2, <2>3 DEF Turn
    <3>2. QED
      BY <1>6, <2>2, <2>3, <3>1, AnswersKept DEF Quiet
  <2>4. CASE p = "alice"
    <3>1. Calm(net) /\ Left(b) /\ b.ua # "ringing" /\ b.nerrs >= a.nerrs
      BY <1>1, <1>4, <2>2, <2>4, SsutCalm DEF Quiet, Left
    <3>2. QED
      BY <1>7, <2>2, <2>4, <3>1
  <2>5. QED
    BY <1>1, <2>3, <2>4
<1>16. CASE \E blame : ByesDone(blame) /\ Reason(blame)
  <2>1. PICK blame : ByesDone(blame) /\ Reason(blame)
    BY <1>16
  <2>2. side' = side /\ ssut'.refused = ssut.refused /\ ssut'.blame = blame
    BY <1>1, <2>1 DEF ByesDone, Over, SsutShape
  <2>3. PICK m : net'["alice"] = Append(net["alice"], m) /\ Behind(net["alice"], m)
                 /\ m.kind = "BYE"
    BY <1>1, <2>1 DEF ByesDone
  <2>4. AnswersFrom(net'["alice"], net["alice"])
    BY <1>1, <2>3, AnswersKept DEF Behind
  <2>5. ~ssut.refused
    BY DEF Patient
  <2>6. \/ blame = "ack"
        \/ blame = "media" /\ scn.sigonly
        \/ blame = "fault" /\ scn.fault = "hangup"
    BY <2>1, <2>5 DEF Reason
  <2>7. QED
    BY <1>6, <2>2, <2>4, <2>6
<1>17. QED
  BY <1>8, <1>9, <1>10, <1>11, <1>12, <1>13, <1>14, <1>15, <1>16 DEF Moved

LEMMA PatientStep ==
    ASSUME Typed, Sane, Punctual, Knows, Prompt, Begun, OneAtATime, Patient, [Next]_vars,
           HeardInTime
    PROVE  Patient'
<1>1. CASE Moved /\ scn' = scn
  BY <1>1, PatientTurn DEF Patient
<1>2. CASE TickDone \/ Stay
  BY <1>2 DEF TickDone, Stay, Patient, Ahead, Left, No, DisconnectIval
<1>3. QED
  BY <1>1, <1>2, StepMoves

-----------------------------------------------------------------------------
(* When Bob rings                                                          *)

\* Bob has his timers, Alice her intervals, and nothing has happened.
Untouched(s, timers) ==
    /\ s \in SideShape /\ s.ua = "ringing" /\ s.timers = timers
    /\ ~s.connect /\ ~s.disconnect /\ s.nerrs = 0 /\ ~s.busy /\ ~s.done
    /\ s.holds = 0 /\ s.offs = 0 /\ ~s.late /\ s.verdict = Pending

LEMMA NewSideDoes ==
    ASSUME NEW timers \in SUBSET TimerShape, NEW sched \in Seq(Nat)
    PROVE  Untouched(NewSide(timers, sched), timers) /\ NewSide(timers, sched).sched = sched
<1>1. Never \in Nat
  BY Literals
<1>2. QED
  BY <1>1 DEF NewSide, Untouched, SideShape, Agents, Pending

LEMMA SchedsTyped ==
    ASSUME NEW c, NEW sched \in Scheds(c, Draws)
    PROVE  sched \in Seq(Nat) /\ Len(sched) <= 4
<1>1. \A x \in Draws : x \in Nat
  BY ReinviteAssumption
<1>2. CASE c # "reinv_onhold"
  BY <1>2 DEF Scheds
<1>3. CASE c = "reinv_onhold"
  <2>1. sched \in [1..4 -> Draws]
    BY <1>3 DEF Scheds
  <2>2. sched \in [1..4 -> Nat] /\ DOMAIN sched = 1..4
    BY <1>1, <2>1
  <2>3. sched \in Seq(Nat)
    BY <2>2, SeqDef
  <2>4. Len(sched) \in Nat /\ DOMAIN sched = 1..Len(sched)
    BY <2>3, LenProperties
  <2>5. \A i : i \in 1..Len(sched) <=> i \in 1..4
    BY <2>2, <2>4
  <2>6. Len(sched) <= 4
    BY <2>4, <2>5
  <2>7. QED
    BY <2>3, <2>6
<1>4. QED
  BY <1>2, <1>3

Start ==
    /\ now = 0 /\ scn \in Scenarios /\ ssut = NoSession /\ net = [p \in Sides |-> <<>>]
    /\ DOMAIN side = Sides /\ side \in [Sides -> SideShape]
    /\ Untouched(side["alice"], {}) /\ Len(side["alice"].sched) <= 4
    /\ side["alice"].sched \in Scheds(scn.cls, Draws) /\ side["bob"].sched = <<>>
    /\ \E timers \in SUBSET TimerShape :
           /\ Untouched(side["bob"], timers)
           /\ \A t \in timers : \/ t.cb = "connect"
                                \/ t.cb = "reinvite" /\ Reinviter(scn.cls) = "bob"
                                   /\ t.at = ReinviteIval(scn.cls) - RingIval
           /\ \A t, u \in timers : t.cb = u.cb => t = u
           /\ \E t \in timers : t.cb = "connect" /\ t.at = AnswerIval(scn.cls)
           /\ Reinviter(scn.cls) = "bob" => \E t \in timers : t.cb = "reinvite"

LEMMA InitStarts ==
    ASSUME Init
    PROVE  Start
<1>1. now = 0 /\ scn \in Scenarios /\ ssut = NoSession /\ net = [p \in Sides |-> <<>>]
  BY DEF Init
<1> DEFINE one == Timer("connect", AnswerIval(scn.cls))
           two == Timer("reinvite", ReinviteIval(scn.cls) - RingIval)
           timers == {one} \cup (IF Reinviter(scn.cls) = "bob" THEN {two} ELSE {})
<1>2. PICK sched \in Scheds(scn.cls, Draws) :
          side = [p \in Sides |-> IF p = "alice" THEN NewSide({}, sched)
                                                 ELSE NewSide(timers, <<>>)]
  BY DEF Init
<1>3. scn.cls \in ReinviteClasses
  BY <1>1, ReinviteAssumption
<1>4. now \in Nat /\ "connect" \in Callbacks /\ "reinvite" \in Callbacks
      /\ AnswerIval(scn.cls) \in Nat
      /\ (Reinviter(scn.cls) = "bob" => ReinviteIval(scn.cls) - RingIval \in Nat)
  BY <1>1, <1>3, Literals DEF Callbacks
<1>5. one \in TimerShape /\ one.cb = "connect" /\ one.at = AnswerIval(scn.cls)
  BY <1>1, <1>4, TimerDoes DEF Timer
<1>6. Reinviter(scn.cls) = "bob" => /\ two \in TimerShape /\ two.cb = "reinvite"
                                   /\ two.at = ReinviteIval(scn.cls) - RingIval
  BY <1>1, <1>4, TimerDoes DEF Timer
<1> HIDE DEF one, two
<1>7. /\ timers \in SUBSET TimerShape
      /\ \A t \in timers : \/ t.cb = "connect"
                           \/ t.cb = "reinvite" /\ Reinviter(scn.cls) = "bob"
                              /\ t.at = ReinviteIval(scn.cls) - RingIval
      /\ \A t, u \in timers : t.cb = u.cb => t = u
      /\ \E t \in timers : t.cb = "connect" /\ t.at = AnswerIval(scn.cls)
      /\ Reinviter(scn.cls) = "bob" => \E t \in timers : t.cb = "reinvite"
  BY <1>5, <1>6
<1> HIDE DEF timers
<1>8. sched \in Seq(Nat) /\ Len(sched) <= 4 /\ <<>> \in Seq(Nat)
  BY SchedsTyped
<1>9. side["alice"] = NewSide({}, sched) /\ side["bob"] = NewSide(timers, <<>>)
      /\ DOMAIN side = Sides
  BY <1>2 DEF Sides
<1>10. {} \in SUBSET TimerShape
  OBVIOUS
<1>11. /\ Untouched(side["alice"], {}) /\ side["alice"].sched = sched
       /\ Untouched(side["bob"], timers) /\ side["bob"].sched = <<>>
  BY ZenonT(60), <1>7, <1>8, <1>9, <1>10, NewSideDoes
<1>12. side \in [Sides -> SideShape]
  BY <1>2, <1>9, <1>11 DEF Sides, Untouched
<1>13. QED
  BY <1>1, <1>7, <1>8, <1>9, <1>11, <1>12 DEF Start

LEMMA StartHolds ==
    ASSUME Start
    PROVE  /\ Typed /\ Sane /\ Punctual /\ Knows /\ Prompt /\ Begun /\ Justified
           /\ OneAtATime /\ Counted /\ Hasty /\ Caught /\ Patient
<1>1. PICK bobs \in SUBSET TimerShape :
          /\ Untouched(side["bob"], bobs)
          /\ \A t \in bobs : \/ t.cb = "connect"
                             \/ t.cb = "reinvite" /\ Reinviter(scn.cls) = "bob"
          /\ \A t, u \in bobs : t.cb = u.cb => t = u
  BY DEF Start
<1>2. /\ now = 0 /\ scn \in Scenarios /\ net["alice"] = <<>> /\ net["bob"] = <<>>
      /\ Untouched(side["alice"], {}) /\ Len(side["alice"].sched) <= 4
      /\ scn.cls \in ReinviteClasses
      /\ alice = side["alice"] /\ bob = side["bob"]
      /\ "alice" \in Sides /\ "bob" \in Sides /\ \A p \in Sides : p = "alice" \/ p = "bob"
  BY ReinviteAssumption DEF Start, Sides, alice, bob
<1>3. ssut.leg = "calling" /\ ~ssut.refused /\ ~ssut.accepted /\ ssut.blame = "none"
  BY DEF Start, NoSession
<1>4. ssut \in SsutShape
  BY Literals DEF Start, NoSession, SsutShape, Blames
<1>5. net \in [Sides -> Seq(MsgShape)]
  BY DEF Start
<1>6. Typed
  BY <1>2, <1>4, <1>5 DEF Start, Typed
<1>7. \A p \in Sides : net[p] = <<>> /\ ~Left(side[p]) /\ ~side[p].disconnect /\ ~side[p].late
                       /\ side[p].ua = "ringing" /\ side[p].verdict = Pending
                       /\ ~side[p].busy /\ ~side[p].done
  BY <1>1, <1>2 DEF Untouched, Left
<1>8. \A kinds : \A p \in Sides : No(net[p], kinds) /\ One(net[p], kinds)
  BY <1>7 DEF No, One
<1>9. /\ Asks("alice") = {} /\ Owed("alice") = {} /\ Owed("bob") = {}
      /\ Single(Asks("bob")) /\ (Reinviter(scn.cls) = "alice" => Asks("bob") = {})
  BY <1>1, <1>2 DEF Asks, Owed, Untouched, Single
<1>10. Reinviter(scn.cls) \in Sides
  BY <1>2, Literals
<1>11. Sane
  BY <1>2, <1>7, <1>9, <1>10 DEF Sane
<1>12. Punctual
  <2>1. ASSUME NEW p \in Sides, NEW t \in side[p].timers
        PROVE  t.at >= now
    BY <1>1, <1>2, <2>1 DEF Untouched, TimerShape
  <2>2. QED
    BY <1>7, <2>1 DEF Punctual
<1>13. Knows
  BY <1>3, <1>7, <1>8 DEF Knows
<1>14. Prompt
  BY <1>2, <1>7, <1>9 DEF Prompt
<1>15. Begun
  BY <1>1, <1>2, <1>3 DEF Begun, Untouched
<1>16. Justified
  BY <1>7 DEF Justified, Pending, Success
<1>17. OneAtATime
  <2>1. ASSUME NEW r \in Sides, NEW o \in Sides, r = Reinviter(scn.cls), o # r
        PROVE  InTurn(r, o)
    <3>1. Owed(r) = {} /\ Owed(o) = {} /\ Single(Asks(r)) /\ Single({})
      BY <1>2, <1>9, <2>1 DEF Single
    <3>2. QED
      BY <1>7, <1>8, <3>1 DEF InTurn
  <2>2. QED
    BY <2>1 DEF OneAtATime
<1>18. Counted
  <2>1. /\ side["alice"].holds = 0 /\ side["alice"].offs = 0
        /\ side["bob"].holds = 0 /\ side["bob"].offs = 0
        /\ Len(side["alice"].sched) <= 4
    BY <1>1, <1>2 DEF Untouched
  <2>2. No(net["bob"], Offer) /\ Asks("alice") = {}
    BY <1>8, <1>9 DEF Sides
  <2>3. Len(side["alice"].sched) \in Nat
    BY <1>6 DEF Typed, Sides, SideShape
  <2>4. QED
    BY <2>1, <2>2, <2>3 DEF Counted, Tally
<1>19. Hasty
  BY <1>2, <1>7, <1>8, <1>9 DEF Hasty, AheadOfAll
<1>20. Caught
  BY <1>2, <1>3, <1>7, <1>9 DEF Caught, AllWrong, Expects
<1>21. Patient
  BY <1>1, <1>2, <1>3 DEF Patient, Untouched
<1>22. QED
  BY <1>6, <1>11, <1>12, <1>13, <1>14, <1>15, <1>16, <1>17, <1>18, <1>19, <1>20, <1>21

-----------------------------------------------------------------------------
(* The theorems                                                            *)

IInv ==
    /\ Typed /\ Sane /\ Punctual /\ Knows /\ Prompt /\ Begun
    /\ OneAtATime /\ Justified /\ Counted /\ Hasty /\ Caught

\* The call as a whole, in every scenario: nothing is overdue and nothing
\* overtakes anything; one re-INVITE is under way at most, in one place; the
\* counters of the two sides keep step; who has left is known to the SSuT; a
\* verdict stands by what it was given for.
THEOREM ReinviteInvariant == Spec => []IInv
<1>1. Init => IInv
  BY InitStarts, StartHolds DEF IInv
<1>2. IInv /\ [Next]_vars => IInv'
  <2>1. ASSUME IInv, [Next]_vars
        PROVE  IInv'
    <3>1. Typed' /\ Sane' /\ Punctual' /\ Knows' /\ Prompt' /\ Begun'
      BY <2>1, TypedStep, SaneStep, PunctualStep, KnowsStep, PromptStep, BegunStep DEF IInv
    <3>2. OneAtATime' /\ Justified' /\ Counted'
      BY <2>1, OneAtATimeStep, JustifiedStep, CountedStep DEF IInv
    <3>3. Hasty' /\ Caught'
      BY <2>1, HastyStep, CaughtStep DEF IInv
    <3>4. QED
      BY <3>1, <3>2, <3>3 DEF IInv
  <2>2. QED
    BY <2>1
<1>3. QED
  BY <1>1, <1>2, PTL DEF Spec

\* NothingToTheDead: the guards of the callbacks are enough to keep every event
\* from a user agent that has left the call, whatever the order of timers,
\* messages and hang-ups; _process_reinvite() of reinv_adelay, which has no
\* guard, is the only one to hand it one.
THEOREM NothingForTheDead == Spec => []NothingToTheDead
<1>1. IInv => NothingToTheDead
  BY DEF IInv, Prompt, NothingToTheDead
<1>2. QED
  BY <1>1, ReinviteInvariant, PTL

\* HoldsSeen: when both sides of reinv_onhold pass, Bob's counters, which advance
\* with what reaches him, are Alice's, which advance with what she sends.
THEOREM HoldsAgree == Spec => []HoldsSeen
<1>1. ASSUME IInv, scn.cls = "reinv_onhold", BothPass
      PROVE  OnHoldOver(alice) /\ OnHoldOver(bob) /\ alice.sched = <<>>
  <2>1. /\ Tally(alice, bob, Asks("alice"), net["bob"]) /\ Reinviter(scn.cls) = "alice"
        /\ alice \in SideShape /\ bob \in SideShape
        /\ alice.verdict = Success /\ bob.verdict = Success
        /\ "alice" \in Sides /\ "bob" \in Sides
    BY <1>1 DEF IInv, Typed, Counted, Reinviter, alice, bob, Sides, BothPass, Passed
  <2>2. OnHoldOver(bob)
    BY <1>1, <2>1 DEF IInv, Justified, bob
  <2>3. /\ alice.holds \in Nat /\ alice.offs \in Nat /\ Len(alice.sched) \in Nat
        /\ alice.sched \in Seq(Nat)
        /\ bob.holds = 3 /\ bob.offs = 2
    BY <2>1, <2>2 DEF SideShape, OnHoldOver
  <2>4. /\ alice.holds + alice.offs + Len(alice.sched) <= 5
        /\ (alice.holds = alice.offs \/ alice.holds = alice.offs + 1)
        /\ bob.holds + bob.offs <= alice.holds + alice.offs
    BY <2>1 DEF Tally
  <2>5. alice.holds = 3 /\ alice.offs = 2 /\ Len(alice.sched) = 0
    BY <2>3, <2>4
  <2>6. QED
    BY <2>2, <2>3, <2>5 DEF OnHoldOver
<1>2. IInv => HoldsSeen
  BY <1>1 DEF HoldsSeen
<1>3. QED
  BY <1>2, ReinviteInvariant, PTL

\* WrongAnswerNoticed: an answer to a re-INVITE that should have been refused, or
\* one to Alice whose SDP was not rewritten, makes the pair fail, wherever it is
\* when the call ends.
THEOREM WrongAnswersCount == Spec => []WrongAnswerNoticed
<1>1. ASSUME IInv, ssut.accepted, Watching, Passed("alice")
      PROVE  FALSE
  <2>1. /\ "alice" \in Sides /\ alice.verdict = Success /\ Reinviter(scn.cls) = "alice"
        /\ alice = side["alice"] /\ alice.nerrs \in Nat
    BY <1>1 DEF Sides, Passed, alice, Watching, Refused, Reinviter, IInv, Typed, SideShape
  <2>2. alice.ua = "dead" /\ alice.nerrs = 0 /\ alice.done
    BY <1>1, <2>1 DEF IInv, Justified
  <2>3. Noticed(alice, net["alice"])
    BY <1>1, <2>1 DEF IInv, Caught
  <2>4. QED
    BY <2>2, <2>3 DEF Noticed
<1>2. IInv => WrongAnswerNoticed
  BY <1>1 DEF WrongAnswerNoticed, Watching, BothPass
<1>3. QED
  BY <1>2, ReinviteInvariant, PTL

\* DelayedAnswerNeverPasses: Alice of reinv_adelay hangs up before Bob's answer
\* is due, so that her re-INVITE is never done with, unless the SSuT answers it
\* itself.
THEOREM HastyAliceFails == Spec => []DelayedAnswerNeverPasses
<1>1. ASSUME IInv, scn.cls = "reinv_adelay", scn.fault # "swallow", Passed("alice")
      PROVE  FALSE
  <2>1. "alice" \in Sides /\ side["alice"].verdict = Success /\ Reinviter(scn.cls) = "alice"
    BY <1>1 DEF Sides, Passed, Reinviter
  <2>2. side["alice"].done
    BY <1>1, <2>1 DEF IInv, Justified
  <2>3. ~side["alice"].done
    BY <1>1 DEF IInv, Hasty, Late
  <2>4. QED
    BY <2>2, <2>3
<1>2. IInv => DelayedAnswerNeverPasses
  BY <1>1 DEF DelayedAnswerNeverPasses
<1>3. QED
  BY <1>2, ReinviteInvariant, PTL

\* BadAckNoticed: Alice of reinv_bad_ack passes only if the SSuT ended the call,
\* and, with media and an SSuT that does not hang up for no reason, only because
\* it missed her ACK.  A message must not take as long as Bob waits for Alice.
THEOREM BadAcksCount ==
    ASSUME HeardInTime
    PROVE  Spec => []BadAckNoticed
<1>1. Init => IInv /\ Patient
  BY InitStarts, StartHolds DEF IInv
<1>2. IInv /\ Patient /\ [Next]_vars => Patient'
  BY PatientStep DEF IInv
<1>3. ASSUME IInv, Patient, scn.cls = "reinv_bad_ack", Passed("alice")
      PROVE  /\ ssut.blame \notin Sides
             /\ ~scn.sigonly /\ scn.fault # "hangup" => ssut.blame = "ack"
  <2>1. "alice" \in Sides /\ side["alice"].verdict = Success /\ ssut.blame \in Blames
    BY <1>3 DEF Sides, Passed, IInv, Typed, SsutShape
  <2>2. side["alice"].ua = "dead" /\ side["alice"].nerrs = 0 /\ side["alice"].connect
    BY <1>3, <2>1 DEF IInv, Justified
  <2>3. ssut.blame # "none"
    BY <1>3, <2>1, <2>2 DEF IInv, Knows, Left
  <2>4. /\ ssut.blame \notin {"alice", "refusal", "bob"}
        /\ ssut.blame = "media" => scn.sigonly
        /\ ssut.blame = "fault" => scn.fault = "hangup"
    BY <1>3, <2>2 DEF Patient
  <2>5. QED
    BY <2>1, <2>3, <2>4 DEF Blames, Sides
<1>4. IInv /\ Patient => BadAckNoticed
  BY <1>3 DEF BadAckNoticed
<1>5. QED
  BY <1>1, <1>2, <1>4, ReinviteInvariant, PTL DEF Spec

-----------------------------------------------------------------------------
(* What a step leaves of the timers, of the messages and of who has left   *)

\* A timer stays until it fires.
LEMMA TimerStays ==
    ASSUME Typed, Moved, NEW q \in Sides, NEW u \in side[q].timers
    PROVE  \/ u \in side'[q].timers
           \/ AskDone(q, u) \/ LateDone(q, u) \/ HangDone(q, u)
           \/ q = "bob" /\ ConnectDone(u)
<1>1. "alice" \in Sides /\ "bob" \in Sides
  BY DEF Sides
<1>2. ASSUME NEW p \in Sides, Turn(p), q = p => side[p].timers \subseteq side'[p].timers
      PROVE  u \in side'[q].timers
  BY <1>2 DEF Turn
<1>3. CASE \E p \in Sides : \E t : AskDone(p, t) \/ LateDone(p, t) \/ HangDone(p, t)
  <2>1. PICK p \in Sides : \E t : AskDone(p, t) \/ LateDone(p, t) \/ HangDone(p, t)
    BY <1>3
  <2>2. PICK t : AskDone(p, t) \/ LateDone(p, t) \/ HangDone(p, t)
    BY <2>1
  <2>3. Turn(p) /\ (side[p].timers \ {t}) \subseteq side'[p].timers
    BY <2>2 DEF AskDone, LateDone, HangDone
  <2>4. CASE p = q /\ t = u
    BY <2>2, <2>4
  <2>5. CASE p = q /\ t # u
    BY <2>3, <2>5
  <2>6. CASE p # q
    BY <2>3, <2>6 DEF Turn
  <2>7. QED
    BY <2>4, <2>5, <2>6
<1>4. CASE \E t : ConnectDone(t)
  <2>1. PICK t : ConnectDone(t)
    BY <1>4
  <2>2. Turn("bob") /\ (bob.timers \ {t}) \subseteq side'["bob"].timers
    BY <2>1 DEF ConnectDone
  <2>3. CASE q = "bob" /\ t = u
    BY <2>1, <2>3
  <2>4. CASE q = "bob" /\ t # u
    BY <2>2, <2>4 DEF bob
  <2>5. CASE q # "bob"
    BY <2>2, <2>5 DEF Turn
  <2>6. QED
    BY <2>3, <2>4, <2>5
<1>5. CASE ConnectedDone
  <2>1. Turn("alice") /\ alice.timers \subseteq side'["alice"].timers
    BY <1>5 DEF ConnectedDone
  <2>2. QED
    BY <1>1, <1>2, <2>1 DEF alice
<1>6. CASE \E p \in Sides : InviteDone(p)
  <2>1. PICK p \in Sides : InviteDone(p)
    BY <1>6
  <2>2. Turn(p) /\ side[p].timers \subseteq side'[p].timers
    BY <2>1 DEF InviteDone
  <2>3. QED
    BY <1>2, <2>2
<1>7. CASE \E p \in Sides : OkDone(p)
  <2>1. PICK p \in Sides : OkDone(p)
    BY <1>7
  <2>2. Turn(p) /\ side[p].timers \subseteq side'[p].timers
    BY <2>1 DEF OkDone, Answered, HoldDone, Same, Fields
  <2>3. QED
    BY <1>2, <2>2
<1>8. CASE \E p \in Sides : RefusalDone(p) \/ ByeDone(p) \/ DeadDone(p)
  <2>1. PICK p \in Sides : RefusalDone(p) \/ ByeDone(p) \/ DeadDone(p)
    BY <1>8
  <2>2. Turn(p) /\ side[p].timers \subseteq side'[p].timers
    BY <2>1 DEF RefusalDone, ByeDone, DeadDone, Same, Fields
  <2>3. QED
    BY <1>2, <2>2
<1>9. CASE \E blame : ByesDone(blame) /\ Reason(blame)
  BY <1>9 DEF ByesDone
<1>10. QED
  BY <1>3, <1>4, <1>5, <1>6, <1>7, <1>8, <1>9 DEF Moved

\* Message m is among those in queue q.
In(m, q) == \E i \in 1..Len(q) : q[i] = m

LEMMA AppendedIn ==
    ASSUME NEW q \in Seq(MsgShape), NEW m \in MsgShape
    PROVE  /\ \A x : In(x, Append(q, m)) <=> In(x, q) \/ x = m
<1>1. Append(q, m) \in Seq(MsgShape) /\ Len(Append(q, m)) = Len(q) + 1 /\ Len(q) \in Nat
      /\ Append(q, m)[Len(q) + 1] = m /\ \A i \in 1..Len(q) : Append(q, m)[i] = q[i]
  OBVIOUS
<1> DEFINE r == Append(q, m)
<1>2. \A i \in 1..Len(r) : i \in 1..Len(q) \/ i = Len(q) + 1
  BY <1>1
<1>3. \A i \in 1..Len(q) : i \in 1..Len(r)
  BY <1>1
<1>4. Len(q) + 1 \in 1..Len(r)
  BY <1>1
<1> HIDE DEF r
<1>5. \A x : In(x, r) <=> In(x, q) \/ x = m
  BY <1>1, <1>2, <1>3, <1>4 DEF In, r
<1>6. QED
  BY <1>5 DEF r

LEMMA TailIn ==
    ASSUME NEW q \in Seq(MsgShape), q # <<>>
    PROVE  /\ \A x : In(x, Tail(q)) => In(x, q)
           /\ \A x : In(x, q) => In(x, Tail(q)) \/ x = Head(q)
           /\ In(Head(q), q)
<1>1. /\ Len(Tail(q)) = Len(q) - 1 /\ Len(q) \in Nat /\ Head(q) = q[1] /\ 1 \in 1..Len(q)
      /\ \A i \in 1..Len(Tail(q)) : Tail(q)[i] = q[i + 1] /\ i + 1 \in 1..Len(q)
  OBVIOUS
<1> DEFINE r == Tail(q)
<1>2. \A i \in 1..Len(q) : i = 1 \/ (i - 1 \in 1..Len(r) /\ r[i - 1] = q[i])
  <2>1. SUFFICES ASSUME NEW i \in 1..Len(q), i # 1 PROVE i - 1 \in 1..Len(r) /\ r[i - 1] = q[i]
    OBVIOUS
  <2>2. i - 1 \in 1..Len(r) /\ (i - 1) + 1 = i
    BY <1>1, <2>1
  <2>3. QED
    BY <1>1, <2>2
<1> HIDE DEF r
<1>3. \A x : In(x, r) => In(x, q)
  BY <1>1 DEF In, r
<1>4. \A x : In(x, q) => In(x, r) \/ x = Head(q)
  BY <1>1, <1>2 DEF In
<1>5. In(Head(q), q)
  BY <1>1 DEF In
<1>6. QED
  BY <1>3, <1>4, <1>5 DEF r

LEMMA GrownKeeps ==
    ASSUME NEW n \in Nets, Grown(n), NEW p \in Sides, NEW x, In(x, n[p])
    PROVE  In(x, net'[p])
<1>1. CASE net'[p] = n[p]
  BY <1>1
<1>2. ASSUME NEW y, net'[p] = Append(n[p], y), Behind(n[p], y)
      PROVE  In(x, net'[p])
  <2>1. y \in MsgShape /\ n[p] \in Seq(MsgShape)
    BY <1>2 DEF Behind, Nets
  <2>2. QED
    BY <1>2, <2>1, AppendedIn
<1>3. QED
  BY <1>1, <1>2 DEF Grown

\* A message stays until it is taken.
LEMMA MessageStays ==
    ASSUME Typed, Moved, NEW p \in Sides, NEW m, In(m, net[p])
    PROVE  In(m, net'[p]) \/ (m = Head(net[p]) /\ net[p] # <<>> /\ Hears(p))
<1>1. net[p] \in Seq(MsgShape)
  BY SideTyped
<1>2. CASE Grown(net)
  <2>1. net \in Nets
    BY SideTyped
  <2>2. QED
    BY <1>2, <2>1, GrownKeeps
<1>3. ASSUME NEW x \in Sides, net[x] # <<>>, Grown(Taken(x)), Hears(x)
      PROVE  In(m, net'[p]) \/ (m = Head(net[p]) /\ net[p] # <<>> /\ Hears(p))
  <2>1. Taken(x) \in Nets
    BY <1>3, TakenDoes
  <2>2. In(m, Taken(x)[p]) => In(m, net'[p])
    BY <1>3, <2>1, GrownKeeps
  <2>3. CASE x = p
    BY <1>1, <1>3, <2>2, <2>3, TakenDoes, TailIn
  <2>4. CASE x # p
    BY <1>3, <2>2, <2>4, TakenDoes
  <2>5. QED
    BY <2>3, <2>4
<1>4. QED
  BY <1>2, <1>3, NetMoves

\* Where a message comes from.
LEMMA MessageNew ==
    ASSUME Typed, Moved, NEW p \in Sides, NEW m, In(m, net'[p])
    PROVE  \/ In(m, net[p])
           \/ /\ m \in MsgShape
              /\ \E d \in Delays : \/ m.at = now + d
                                   \/ \E x \in MsgShape : In(x, net[p]) /\ m.at = x.at
<1>1. net[p] \in Seq(MsgShape)
  BY SideTyped
<1>2. ASSUME NEW q \in Seq(MsgShape), \A x : In(x, q) => In(x, net[p]), NEW y,
             net'[p] = Append(q, y), Behind(q, y)
      PROVE  \/ In(m, net[p])
             \/ /\ m \in MsgShape
                /\ \E d \in Delays : \/ m.at = now + d
                                     \/ \E x \in MsgShape : In(x, net[p]) /\ m.at = x.at
  <2>1. y \in MsgShape
    BY <1>2 DEF Behind
  <2>2. In(m, q) \/ m = y
    BY <1>2, <2>1, AppendedIn
  <2>3. CASE In(m, q)
    BY <1>2, <2>3
  <2>4. CASE m = y
    <3>1. PICK d \in Delays : y.at = now + d \/ (q # <<>> /\ y.at = q[Len(q)].at)
      BY <1>2 DEF Behind
    <3>2. q # <<>> => In(q[Len(q)], q) /\ q[Len(q)] \in MsgShape
      <4>1. q # <<>> => Len(q) \in 1..Len(q) /\ q[Len(q)] \in MsgShape
        OBVIOUS
      <4>2. QED
        BY <4>1 DEF In
    <3>3. QED
      BY <1>2, <2>1, <2>4, <3>1, <3>2
  <2>5. QED
    BY <2>2, <2>3, <2>4
<1>3. CASE Grown(net)
  BY <1>1, <1>2, <1>3 DEF Grown
<1>4. ASSUME NEW x \in Sides, net[x] # <<>>, Grown(Taken(x))
      PROVE  \/ In(m, net[p])
             \/ /\ m \in MsgShape
                /\ \E d \in Delays : \/ m.at = now + d
                                     \/ \E z \in MsgShape : In(z, net[p]) /\ m.at = z.at
  <2>1. Taken(x)[p] \in Seq(MsgShape)
    BY <1>4, TakenDoes DEF Nets
  <2>2. \A y : In(y, Taken(x)[p]) => In(y, net[p])
    <3>1. CASE x = p
      BY <1>1, <1>4, <3>1, TakenDoes, TailIn
    <3>2. CASE x # p
      BY <1>4, <3>2, TakenDoes
    <3>3. QED
      BY <3>1, <3>2
  <2>3. CASE net'[p] = Taken(x)[p]
    BY <2>2, <2>3
  <2>4. QED
    BY <1>2, <1>4, <2>1, <2>2, <2>3 DEF Grown
<1>5. QED
  BY <1>3, <1>4, NetMoves

\* No message is further off than d.
Within(n, d) == \A p \in Sides : \A m : In(m, n[p]) => m.at <= now + d

LEMMA WithinStep ==
    ASSUME Typed, Moved, NEW d \in Nat, Delays \subseteq 0..d, Within(net, d)
    PROVE  Within(net', d)
<1>1. ASSUME NEW p \in Sides, NEW m, In(m, net'[p])
      PROVE  m.at <= now + d
  <2>1. CASE In(m, net[p])
    BY <2>1 DEF Within
  <2>2. ASSUME NEW x \in MsgShape, In(x, net[p]), m.at = x.at
        PROVE  m.at <= now + d
    BY <2>2 DEF Within
  <2>3. ASSUME NEW e \in Delays, m.at = now + e
        PROVE  m.at <= now + d
    <3>1. e \in 0..d /\ now \in Nat
      BY DEF Typed
    <3>2. QED
      BY <2>3, <3>1
  <2>4. QED
    BY <1>1, <2>1, <2>2, <2>3, MessageNew
<1>2. QED
  BY <1>1 DEF Within

\* Who has left does nothing any more but report.
LEMMA LeftStays ==
    ASSUME Typed, Sane, Moved, NEW q \in Sides, Left(side[q])
    PROVE  /\ Left(side'[q]) /\ side'[q].ended = side[q].ended
           /\ side'[q].ua = side[q].ua \/ DeadDone(q)
<1>1. ASSUME NEW p \in Sides, Turn(p),
             q = p => side'[p].ua = side[p].ua /\ side'[p].ended = side[p].ended
      PROVE  side'[q].ua = side[q].ua /\ side'[q].ended = side[q].ended
  BY <1>1 DEF Turn
<1>2. ASSUME side'[q].ua = side[q].ua /\ side'[q].ended = side[q].ended
      PROVE  /\ Left(side'[q]) /\ side'[q].ended = side[q].ended
             /\ side'[q].ua = side[q].ua \/ DeadDone(q)
  BY <1>2 DEF Left
<1>3. side[q].disconnect /\ side[q].ua # "updating" /\ side[q].ua # "ringing"
  BY DEF Sane, Left
<1>4. CASE \E p \in Sides : \E t : AskDone(p, t) \/ LateDone(p, t) \/ HangDone(p, t)
  <2>1. PICK p \in Sides : \E t : AskDone(p, t) \/ LateDone(p, t) \/ HangDone(p, t)
    BY <1>4
  <2>2. Turn(p)
    BY <2>1 DEF AskDone, LateDone, HangDone
  <2>3. q = p => side'[p].ua = side[p].ua /\ side'[p].ended = side[p].ended
    BY <1>3, <2>1 DEF AskDone, LateDone, HangDone, MayReinvite, Same, Fields
  <2>4. QED
    BY <1>1, <1>2, <2>2, <2>3
<1>5. CASE \E t : ConnectDone(t)
  <2>1. Turn("bob") /\ "bob" \in Sides
    BY <1>5 DEF ConnectDone, Sides
  <2>2. q = "bob" => side'["bob"].ua = side["bob"].ua /\ side'["bob"].ended = side["bob"].ended
    BY <1>3, <1>5 DEF ConnectDone, Same, Fields, bob
  <2>3. QED
    BY <1>1, <1>2, <2>1, <2>2
<1>6. CASE ConnectedDone
  <2>1. Turn("alice") /\ "alice" \in Sides
    BY <1>6 DEF ConnectedDone, Sides
  <2>2. q = "alice" => side'["alice"].ua = side["alice"].ua
                       /\ side'["alice"].ended = side["alice"].ended
    BY <1>3, <1>6 DEF ConnectedDone, alice
  <2>3. QED
    BY <1>1, <1>2, <2>1, <2>2
<1>7. CASE \E p \in Sides : InviteDone(p) \/ OkDone(p) \/ RefusalDone(p) \/ ByeDone(p)
  <2>1. PICK p \in Sides : InviteDone(p) \/ OkDone(p) \/ RefusalDone(p) \/ ByeDone(p)
    BY <1>7
  <2>2. Turn(p)
    BY <2>1 DEF InviteDone, OkDone, RefusalDone, ByeDone
  <2>3. q = p => side'[p].ua = side[p].ua /\ side'[p].ended = side[p].ended
    BY <1>3, <2>1 DEF InviteDone, OkDone, RefusalDone, ByeDone
  <2>4. QED
    BY <1>1, <1>2, <2>2, <2>3
<1>8. CASE \E p \in Sides : DeadDone(p)
  <2>1. PICK p \in Sides : DeadDone(p)
    BY <1>8
  <2>2. CASE p = q
    BY <2>1, <2>2 DEF DeadDone, Left, Same, Fields
  <2>3. CASE p # q
    BY <1>1, <1>2, <2>1, <2>3 DEF DeadDone
  <2>4. QED
    BY <2>2, <2>3
<1>9. CASE \E blame : ByesDone(blame) /\ Reason(blame)
  BY <1>2, <1>9 DEF ByesDone
<1>10. QED
  BY <1>4, <1>5, <1>6, <1>7, <1>8, <1>9 DEF Moved

\* p hangs up, or hears that the call has ended.
HangsUp(p) ==
    \E t : /\ HangDone(p, t) /\ ~(p = "alice" /\ scn.cls = "reinv_bad_ack") /\ ~Polls(p)
           /\ Same(side'[p], side[p], {"timers", "ua", "ended", "disconnect"})
           /\ SsutFrom(p, net, "BYE", "none")

LEMMA Leaves ==
    ASSUME Typed, Sane, Moved, NEW q \in Sides, ~Left(side[q]), Left(side'[q])
    PROVE  /\ side'[q].ua = "ended" /\ side'[q].ended = now
           /\ HangsUp(q) \/ ByeDone(q)
<1>1. "alice" \in Sides /\ "bob" \in Sides
  BY DEF Sides
<1>2. ASSUME NEW p \in Sides, Turn(p), q = p => ~Left(side'[p])
      PROVE  FALSE
  BY <1>2 DEF Turn
<1>3. CASE \E p \in Sides : \E t : AskDone(p, t) \/ LateDone(p, t)
  <2>1. PICK p \in Sides : \E t : AskDone(p, t) \/ LateDone(p, t)
    BY <1>3
  <2>2. Turn(p) /\ (q = p => ~Left(side'[p]))
    BY <2>1 DEF AskDone, LateDone, Same, Fields, Left
  <2>3. QED
    BY <1>2, <2>2
<1>4. CASE \E p \in Sides : \E t : HangDone(p, t)
  <2>1. PICK p \in Sides : \E t : HangDone(p, t)
    BY <1>4
  <2>2. PICK t : HangDone(p, t)
    BY <2>1
  <2>3. CASE p = q
    BY <2>2, <2>3 DEF HangDone, HangsUp, Same, Fields, Left
  <2>4. CASE p # q
    BY <1>2, <2>2, <2>4 DEF HangDone
  <2>5. QED
    BY <2>3, <2>4
<1>5. CASE \E t : ConnectDone(t)
  <2>1. Turn("bob") /\ (q = "bob" => ~Left(side'["bob"]))
    BY <1>5 DEF ConnectDone, Same, Fields, Left, bob
  <2>2. QED
    BY <1>1, <1>2, <2>1
<1>6. CASE ConnectedDone
  <2>1. Turn("alice") /\ (q = "alice" => ~Left(side'["alice"]))
    BY <1>6 DEF ConnectedDone, Left, alice
  <2>2. QED
    BY <1>1, <1>2, <2>1
<1>7. CASE \E p \in Sides : InviteDone(p) \/ OkDone(p) \/ RefusalDone(p) \/ DeadDone(p)
  <2>1. PICK p \in Sides : InviteDone(p) \/ OkDone(p) \/ RefusalDone(p) \/ DeadDone(p)
    BY <1>7
  <2>2. Turn(p) /\ (q = p => ~Left(side'[p]))
    BY <2>1 DEF InviteDone, OkDone, RefusalDone, DeadDone, Answered, Left
  <2>3. QED
    BY <1>2, <2>2
<1>8. CASE \E p \in Sides : ByeDone(p)
  <2>1. PICK p \in Sides : ByeDone(p)
    BY <1>8
  <2>2. CASE p = q
    BY <2>1, <2>2 DEF ByeDone
  <2>3. CASE p # q
    BY <1>2, <2>1, <2>3 DEF ByeDone
  <2>4. QED
    BY <2>2, <2>3
<1>9. CASE \E blame : ByesDone(blame) /\ Reason(blame)
  BY <1>9 DEF ByesDone
<1>10. QED
  BY <1>3, <1>4, <1>5, <1>6, <1>7, <1>8, <1>9 DEF Moved

\* How a call ends: a side hangs up, and the other is told; or the SSuT tells both.
LEMMA CallEnds ==
    ASSUME Typed, Sane, Knows, Moved, ssut.leg # "over", ssut'.leg = "over"
    PROVE  \/ \E p \in Sides : /\ HangsUp(p) /\ ~Left(side[p]) /\ Left(side'[p])
                                /\ Sent(net, Other(p), "BYE", "none") /\ ssut' = Over(p)
           \/ \E blame : ByesDone(blame) /\ Reason(blame)
<1>1. "alice" \in Sides /\ "bob" \in Sides /\ "plain" \in Bodies /\ "broken" \in Bodies
      /\ net \in Nets /\ ssut \in SsutShape /\ now \in Nat
  BY SideTyped DEF Sides, Bodies, Typed
<1>2. ASSUME NEW n, Relayed(n) PROVE FALSE
  BY <1>2 DEF Relayed, SessionKept
<1>3. ssut' # ssut
  OBVIOUS
<1>4. ~(\E p \in Sides : \E t : AskDone(p, t))
  BY <1>1, <1>2, <1>3, SsutRelays DEF AskDone, Quiet
<1>5. ~(\E t : ConnectDone(t))
  BY <1>1, <1>2, <1>3, SsutRelays DEF ConnectDone, Quiet
<1>6. ~(\E p \in Sides : \E t : LateDone(p, t))
  BY <1>1, <1>2, <1>3, SsutRelays DEF LateDone, Quiet
<1>7. ~(\E p \in Sides : InviteDone(p))
  <2>1. SUFFICES ASSUME NEW p \in Sides, InviteDone(p) PROVE FALSE
    OBVIOUS
  <2>2. net[p] # <<>>
    BY <2>1 DEF InviteDone, Arrives
  <2>3. Taken(p) \in Nets
    BY <2>2, TakenDoes
  <2>4. QED
    BY <1>1, <1>2, <1>3, <2>1, <2>3, SsutRelays DEF InviteDone, Takes
<1>8. ~(\E p \in Sides : OkDone(p))
  BY <1>1, SsutFields DEF OkDone
<1>9. ~ConnectedDone /\ ~(\E p \in Sides : RefusalDone(p) \/ ByeDone(p) \/ DeadDone(p))
  BY <1>3 DEF ConnectedDone, RefusalDone, ByeDone, DeadDone, Takes, Quiet
<1>10. CASE \E p \in Sides : \E t : HangDone(p, t)
  <2>1. PICK p \in Sides : \E t : HangDone(p, t)
    BY <1>10
  <2>2. PICK t : HangDone(p, t)
    BY <2>1
  <2>3. ~Quiet
    BY <1>3 DEF Quiet
  <2>4. HangsUp(p) /\ ~Left(side[p]) /\ Left(side'[p]) /\ SsutFrom(p, net, "BYE", "none")
    BY <2>2, <2>3 DEF HangDone, HangsUp, Left
  <2>5. Sent(net, Other(p), "BYE", "none") /\ ssut' = Over(p)
    BY <1>1, <1>3, <2>4, SsutByes
  <2>6. QED
    BY <2>4, <2>5
<1>11. QED
  BY <1>4, <1>5, <1>6, <1>7, <1>8, <1>9, <1>10 DEF Moved

-----------------------------------------------------------------------------
(* When it all ends                                                        *)

\* Bob hangs up, if nobody has before.
BobLeaves == AnswerIval(scn.cls) + DisconnectIval("bob", scn.cls)

BobsTimers ==
    /\ ~bob.connect =>
           \E u \in bob.timers : u.cb = "connect" /\ u.at <= AnswerIval(scn.cls)
    /\ bob.connect => Left(bob) \/ Ahead(bob, BobLeaves)

\* A BYE is on its way to q.
Called(q) == \E m : In(m, net[q]) /\ m.kind = "BYE" /\ m.at <= BobLeaves + 300

Heeded ==
    ssut.leg = "over" => \A q \in Sides : Left(side[q]) \/ Called(q)

Reported ==
    \A q \in Sides :
        /\ side[q].ua = "ended" =>
               side[q].ended <= BobLeaves + 300 /\ now <= side[q].ended + GoDeadTimeout
        /\ side[q].ua = "dead" => side[q].verdict # Pending

LEMMA InTyped ==
    ASSUME Typed, NEW q \in Sides, NEW m, In(m, net[q])
    PROVE  m \in MsgShape /\ m.at \in Nat /\ (Punctual => now <= m.at)
<1>1. net[q] \in Seq(MsgShape) /\ now \in Nat
  BY SideTyped
<1>2. PICK i \in 1..Len(net[q]) : net[q][i] = m
  BY DEF In
<1>3. m \in MsgShape
  BY <1>1, <1>2
<1>4. m.at \in Nat
  BY <1>3 DEF MsgShape
<1>5. Punctual => now <= m.at
  BY <1>1, <1>2, <1>4 DEF Punctual
<1>6. QED
  BY <1>3, <1>4, <1>5

LEMMA Intervals ==
    ASSUME Typed
    PROVE  /\ AnswerIval(scn.cls) \in Nat /\ DisconnectIval("bob", scn.cls) \in Nat
           /\ BobLeaves \in Nat /\ GoDeadTimeout = 1000
           /\ BobLeaves + 300 + GoDeadTimeout <= TimeLeft
<1>1. scn.cls \in ReinviteClasses
  BY ReinviteAssumption DEF Typed
<1>2. QED
  BY <1>1 DEF ReinviteClasses, AnswerIval, DisconnectIval, BobLeaves, GoDeadTimeout,
              TimeLeft, RingIval

\* A side reports once.
LEMMA VerdictStays ==
    ASSUME Typed, Moved, NEW q \in Sides
    PROVE  side'[q].verdict = side[q].verdict \/ DeadDone(q)
<1>1. "alice" \in Sides /\ "bob" \in Sides
  BY DEF Sides
<1>2. ASSUME NEW p \in Sides, Turn(p), side'[p].verdict = side[p].verdict
      PROVE  side'[q].verdict = side[q].verdict
  BY <1>2 DEF Turn
<1>3. CASE \E p \in Sides : \E t : AskDone(p, t) \/ LateDone(p, t) \/ HangDone(p, t)
  <2>1. PICK p \in Sides : \E t : AskDone(p, t) \/ LateDone(p, t) \/ HangDone(p, t)
    BY <1>3
  <2>2. Turn(p) /\ side'[p].verdict = side[p].verdict
    BY <2>1 DEF AskDone, LateDone, HangDone, Same, Fields
  <2>3. QED
    BY <1>2, <2>2
<1>4. CASE \E t : ConnectDone(t)
  <2>1. Turn("bob") /\ side'["bob"].verdict = side["bob"].verdict
    BY <1>4 DEF ConnectDone, Same, Fields, bob
  <2>2. QED
    BY <1>1, <1>2, <2>1
<1>5. CASE ConnectedDone
  <2>1. Turn("alice") /\ side'["alice"].verdict = side["alice"].verdict
    BY <1>5 DEF ConnectedDone, Same, Fields, alice
  <2>2. QED
    BY <1>1, <1>2, <2>1
<1>6. CASE \E p \in Sides : InviteDone(p) \/ OkDone(p) \/ RefusalDone(p) \/ ByeDone(p)
  <2>1. PICK p \in Sides : InviteDone(p) \/ OkDone(p) \/ RefusalDone(p) \/ ByeDone(p)
    BY <1>6
  <2>2. Turn(p) /\ side'[p].verdict = side[p].verdict
    BY <2>1 DEF InviteDone, OkDone, Answered, RefusalDone, ByeDone, Same, Fields
  <2>3. QED
    BY <1>2, <2>2
<1>7. CASE \E p \in Sides : DeadDone(p)
  <2>1. PICK p \in Sides : DeadDone(p)
    BY <1>7
  <2>2. QED
    BY <2>1 DEF DeadDone, Turn
<1>8. CASE \E blame : ByesDone(blame) /\ Reason(blame)
  BY <1>8 DEF ByesDone
<1>9. QED
  BY <1>3, <1>4, <1>5, <1>6, <1>7, <1>8 DEF Moved

LEMMA BobsTimersStep ==
    ASSUME Typed, Sane, Punctual, Begun, BobsTimers, Moved, now' = now, scn' = scn
    PROVE  BobsTimers'
<1>1. "bob" \in Sides /\ bob = side["bob"] /\ now \in Nat
  BY DEF Sides, bob, Typed
<1>2. ASSUME ~side'["bob"].connect
      PROVE  \E u \in side'["bob"].timers : u.cb = "connect" /\ u.at <= AnswerIval(scn.cls)
  <2>1. ~bob.connect
    BY <1>1, <1>2, StaysConnected
  <2>2. PICK u \in bob.timers : u.cb = "connect" /\ u.at <= AnswerIval(scn.cls)
    BY <2>1 DEF BobsTimers
  <2>3. ~AskDone("bob", u) /\ ~LateDone("bob", u) /\ ~HangDone("bob", u)
    BY <2>2 DEF AskDone, LateDone, HangDone, Asks, Owed
  <2>4. ~bob.disconnect
    BY <1>1, <2>1 DEF Sane, Begun, Left
  <2>5. ~ConnectDone(u)
    BY <1>2, <2>1, <2>4 DEF ConnectDone
  <2>6. u \in side'["bob"].timers
    BY <1>1, <2>2, <2>3, <2>5, TimerStays
  <2>7. QED
    BY <2>2, <2>6
<1>3. ASSUME side'["bob"].connect, ~bob.connect
      PROVE  Ahead(side'["bob"], BobLeaves)
  <2>1. PICK t : ConnectDone(t)
    BY <1>3, BeforeTheAnswer
  <2>2. ~bob.disconnect
    BY <1>1, <1>3 DEF Sane, Begun, Left
  <2>3. Timer("disconnect", DisconnectIval("bob", scn.cls)) \in side'["bob"].timers
    BY <1>3, <2>1, <2>2 DEF ConnectDone
  <2>4. PICK u \in bob.timers : u.cb = "connect" /\ u.at <= AnswerIval(scn.cls)
    BY <1>3 DEF BobsTimers
  <2>5. u.at \in Nat /\ u.at >= now
    BY <1>1, SideTyped DEF Punctual, SideShape, TimerShape
  <2>6. now <= AnswerIval(scn.cls)
    BY <1>1, <2>4, <2>5, Intervals
  <2>7. QED
    BY <1>1, <2>3, <2>6, Intervals DEF Ahead, Timer, BobLeaves
<1>4. ASSUME bob.connect
      PROVE  Left(side'["bob"]) \/ Ahead(side'["bob"], BobLeaves)
  <2>1. CASE Left(bob)
    BY <1>1, <2>1, LeftStays
  <2>2. CASE ~Left(bob)
    <3>1. PICK u \in bob.timers : u.cb = "disconnect" /\ u.at <= BobLeaves
      BY <1>4, <2>2 DEF BobsTimers, Ahead
    <3>2. ~AskDone("bob", u) /\ ~LateDone("bob", u) /\ ~ConnectDone(u)
      BY <3>1 DEF AskDone, LateDone, ConnectDone, Asks, Owed
    <3>3. HangDone("bob", u) => Left(side'["bob"])
      BY <1>1, <2>2 DEF HangDone, Polls, Left
    <3>4. u \in side'["bob"].timers \/ Left(side'["bob"])
      BY <1>1, <3>1, <3>2, <3>3, TimerStays
    <3>5. QED
      BY <3>1, <3>4 DEF Ahead
  <2>3. QED
    BY <2>1, <2>2
<1>5. QED
  BY <1>2, <1>3, <1>4 DEF BobsTimers, bob, BobLeaves, Ahead

\* As long as the SSuT has not been told to, Bob has not left.
LEMMA BeforeTheEnd ==
    ASSUME Typed, Punctual, Knows, BobsTimers, ssut.leg # "over"
    PROVE  now <= BobLeaves
<1>1. "bob" \in Sides /\ bob = side["bob"] /\ now \in Nat /\ ~Left(bob)
  BY DEF Sides, bob, Typed, Knows
<1>2. ASSUME NEW u \in bob.timers PROVE u.at \in Nat /\ now <= u.at
  BY <1>1, SideTyped DEF Punctual, SideShape, TimerShape
<1>3. AnswerIval(scn.cls) <= BobLeaves /\ AnswerIval(scn.cls) \in Nat /\ BobLeaves \in Nat
  BY Intervals DEF BobLeaves
<1>4. CASE bob.connect
  BY <1>1, <1>2, <1>3, <1>4 DEF BobsTimers, Ahead
<1>5. CASE ~bob.connect
  BY <1>1, <1>2, <1>3, <1>5 DEF BobsTimers
<1>6. QED
  BY <1>4, <1>5

LEMMA HeededStep ==
    ASSUME Typed, Sane, Punctual, Knows, BobsTimers, Heeded, Within(net, 300),
           Within(net', 300), Moved, now' = now, scn' = scn
    PROVE  Heeded'
<1>1. now \in Nat /\ BobLeaves \in Nat /\ net \in Nets
  BY Intervals DEF Typed, Nets
<1> DEFINE Told2(q) == Left(side'[q])
                        \/ \E m : In(m, net'[q]) /\ m.kind = "BYE" /\ m.at <= BobLeaves + 300
<1>2. ASSUME ssut.leg = "over", NEW q \in Sides
      PROVE  Told2(q)
  <2>1. CASE Left(side[q])
    BY <2>1, LeftStays
  <2>2. CASE ~Left(side[q])
    <3>1. PICK m : In(m, net[q]) /\ m.kind = "BYE" /\ m.at <= BobLeaves + 300
      BY <1>2, <2>2 DEF Heeded, Called
    <3>2. CASE In(m, net'[q])
      BY <3>1, <3>2
    <3>3. CASE m = Head(net[q]) /\ Hears(q)
      <4>1. ByeDone(q)
        BY <3>1, <3>3 DEF Hears, ConnectedDone, InviteDone, OkDone, RefusalDone, Arrives
      <4>2. QED
        BY <4>1, <2>2 DEF ByeDone, Left
    <3>4. QED
      BY <3>1, <3>2, <3>3, MessageStays
  <2>3. QED
    BY <2>1, <2>2
<1>3. ASSUME ssut.leg # "over", ssut'.leg = "over", NEW q \in Sides
      PROVE  Told2(q)
  <2>1. now <= BobLeaves
    BY <1>3, BeforeTheEnd
  <2>2. ASSUME NEW m \in MsgShape, m.kind = "BYE", net'[q] = Append(net[q], m)
        PROVE  Told2(q)
    <3>1. In(m, net'[q])
      BY <1>1, <2>2, AppendedIn DEF Nets
    <3>2. m.at <= now + 300
      BY <3>1 DEF Within
    <3>3. m.at <= BobLeaves + 300
      BY <1>1, <2>1, <3>2, <2>2 DEF MsgShape
    <3>4. QED
      BY <2>2, <3>1, <3>3
  <2>3. ASSUME NEW p \in Sides, Left(side'[p]), Sent(net, Other(p), "BYE", "none")
        PROVE  Told2(q)
    <3>1. CASE q = p
      BY <2>3, <3>1
    <3>2. CASE q # p
      <4>1. q = Other(p)
        BY <3>2 DEF Sides, Other
      <4>2. PICK m : /\ net'[q] = Append(net[q], m) /\ Behind(net[q], m) /\ m.kind = "BYE"
        BY <1>1, <2>3, <4>1 DEF Sent, Nets
      <4>3. QED
        BY <2>2, <4>2 DEF Behind
    <3>3. QED
      BY <3>1, <3>2
  <2>4. ASSUME NEW blame, ByesDone(blame)
        PROVE  Told2(q)
    <3>1. PICK m : net'[q] = Append(net[q], m) /\ Behind(net[q], m) /\ m.kind = "BYE"
      BY <2>4 DEF ByesDone
    <3>2. QED
      BY <2>2, <3>1 DEF Behind
  <2>5. QED
    BY <1>3, <2>3, <2>4, CallEnds
<1>4. QED
  BY <1>2, <1>3 DEF Heeded, Called, BobLeaves

LEMMA ReportedStep ==
    ASSUME Typed, Sane, Punctual, Knows, BobsTimers, Heeded, Reported, Moved,
           now' = now, scn' = scn
    PROVE  Reported'
<1>1. now \in Nat /\ BobLeaves \in Nat /\ GoDeadTimeout = 1000
  BY Intervals DEF Typed
<1>2. ASSUME NEW q \in Sides, Left(side[q])
      PROVE  /\ side'[q].ua = "ended" =>
                    side'[q].ended <= BobLeaves + 300 /\ now <= side'[q].ended + GoDeadTimeout
             /\ side'[q].ua = "dead" => side'[q].verdict # Pending
  <2>1. side'[q].ended = side[q].ended /\ (side'[q].ua = side[q].ua \/ DeadDone(q))
    BY <1>2, LeftStays
  <2>2. CASE DeadDone(q)
    BY <2>2 DEF DeadDone, VerdictAfter, Success, Failure, Pending
  <2>3. CASE side'[q].ua = side[q].ua /\ ~DeadDone(q)
    <3>1. side[q].verdict # Pending => side'[q].verdict # Pending
      BY <2>3, VerdictStays
    <3>2. QED
      BY <2>1, <2>3, <3>1 DEF Reported
  <2>4. QED
    BY <2>1, <2>2, <2>3
<1>3. ASSUME NEW q \in Sides, ~Left(side[q]), Left(side'[q])
      PROVE  side'[q].ua = "ended" /\ side'[q].ended = now /\ now <= BobLeaves + 300
  <2>1. side'[q].ua = "ended" /\ side'[q].ended = now
    BY <1>3, Leaves
  <2>2. CASE ssut.leg # "over"
    BY <1>1, <2>1, <2>2, BeforeTheEnd
  <2>3. CASE ssut.leg = "over"
    <3>1. PICK m : In(m, net[q]) /\ m.kind = "BYE" /\ m.at <= BobLeaves + 300
      BY <1>3, <2>3 DEF Heeded, Called
    <3>2. m.at \in Nat /\ m.at >= now
      BY <3>1, InTyped
    <3>3. QED
      BY <1>1, <2>1, <3>1, <3>2
  <2>4. QED
    BY <2>2, <2>3
<1>4. ASSUME NEW q \in Sides
      PROVE  /\ side'[q].ua = "ended" =>
                    side'[q].ended <= BobLeaves + 300 /\ now <= side'[q].ended + GoDeadTimeout
             /\ side'[q].ua = "dead" => side'[q].verdict # Pending
  BY <1>1, <1>2, <1>3 DEF Left
<1>5. QED
  BY <1>4 DEF Reported, BobLeaves

\* The clock does not pass what has to happen first.
LEMMA ReportedTick ==
    ASSUME Typed, Reported, TickDone
    PROVE  Reported'
<1>1. ASSUME NEW q \in Sides, side[q].ua = "ended"
      PROVE  now' <= side[q].ended + GoDeadTimeout
  BY <1>1 DEF TickDone, Deadlines
<1>2. QED
  BY <1>1 DEF Reported, TickDone, BobLeaves

Ending == Within(net, 300) /\ BobsTimers /\ Heeded /\ Reported

LEMMA EndingStep ==
    ASSUME Typed, Sane, Punctual, Knows, Begun, Ending, [Next]_vars, Delays \subseteq 0..300
    PROVE  Ending'
<1>1. CASE Moved /\ now' = now /\ scn' = scn
  <2>1. Within(net', 300)
    BY <1>1, WithinStep DEF Ending
  <2>2. Within(net, 300)'
    BY <1>1, <2>1 DEF Within
  <2>3. QED
    BY <1>1, <2>1, <2>2, BobsTimersStep, HeededStep, ReportedStep DEF Ending
<1>2. CASE TickDone
  <2>1. Within(net, 300)'
    <3>1. ASSUME NEW q \in Sides, NEW m, In(m, net[q])
          PROVE  m.at <= now' + 300
      <4>1. m.at <= now + 300 /\ m.at \in Nat
        BY <3>1, InTyped DEF Ending, Within
      <4>2. QED
        BY <1>2, <4>1 DEF TickDone, Typed
    <3>2. QED
      BY <1>2, <3>1 DEF Within, TickDone
  <2>2. BobsTimers' /\ Heeded'
    BY <1>2 DEF TickDone, Ending, BobsTimers, Heeded, Called, BobLeaves, Ahead, bob, In
  <2>3. QED
    BY <1>2, <2>1, <2>2, ReportedTick DEF Ending
<1>3. CASE Stay
  BY <1>3 DEF Stay, Ending, Within, In, BobsTimers, Heeded, Called, Reported, BobLeaves, Ahead, bob
<1>4. QED
  BY <1>1, <1>2, <1>3, StepMoves

LEMMA StartEnding ==
    ASSUME Start
    PROVE  Ending
<1>1. /\ "alice" \in Sides /\ "bob" \in Sides /\ bob = side["bob"]
      /\ \A q \in Sides : q = "alice" \/ q = "bob"
      /\ \A q \in Sides : net[q] = <<>>
      /\ ssut.leg = "calling"
      /\ \A q \in Sides : side[q].ua = "ringing"
      /\ ~bob.connect
  BY DEF Start, NoSession, Untouched, Sides, bob
<1>2. \E u \in bob.timers : u.cb = "connect" /\ u.at = AnswerIval(scn.cls)
  BY <1>1 DEF Start, Untouched
<1>3. AnswerIval(scn.cls) \in Nat
  BY ReinviteAssumption, Literals DEF Start
<1>4. BobsTimers
  BY <1>1, <1>2, <1>3 DEF BobsTimers
<1>5. Within(net, 300)
  BY <1>1 DEF Within, In
<1>6. Heeded /\ Reported
  BY <1>1 DEF Heeded, Reported
<1>7. QED
  BY <1>4, <1>5, <1>6 DEF Ending

\* InTime: both sides have reported when the timer of their process goes off.  Bob
\* hangs up at the latest, what he or anyone else sends takes a while to be heard,
\* and a user agent takes GoDeadTimeout to report its death.  A message must take
\* 3 s at most, which is all that reinv_bad_ack leaves.
THEOREM BothInTime ==
    ASSUME Delays \subseteq 0..300
    PROVE  Spec => []InTime
<1>1. Init => IInv /\ Ending
  BY InitStarts, StartHolds, StartEnding DEF IInv
<1>2. IInv /\ Ending /\ [Next]_vars => Ending'
  BY EndingStep DEF IInv
<1>3. ASSUME IInv, Ending, now > TimeLeft, NEW q \in Sides
      PROVE  side[q].verdict # Pending
  <2>1. /\ BobLeaves + 300 + GoDeadTimeout <= TimeLeft /\ BobLeaves \in Nat
        /\ GoDeadTimeout = 1000 /\ TimeLeft \in Nat
    BY <1>3, Intervals DEF IInv, TimeLeft, RingIval
  <2>7. now \in Nat /\ side[q].ended \in Nat
    BY <1>3, SideTyped DEF IInv, SideShape
  <2>2. ssut.leg = "over"
    BY <1>3, <2>1, <2>7, BeforeTheEnd DEF IInv, Ending
  <2>3. ~Called(q)
    <3>1. ASSUME NEW m, In(m, net[q]) PROVE m.at \in Nat /\ now <= m.at
      BY <1>3, <3>1, InTyped DEF IInv
    <3>2. QED
      BY <1>3, <2>1, <2>7, <3>1 DEF Called
  <2>4. Left(side[q])
    BY <1>3, <2>2, <2>3 DEF Ending, Heeded
  <2>5. side[q].ua # "ended"
    BY <1>3, <2>1, <2>7 DEF Ending, Reported
  <2>6. QED
    BY <1>3, <2>4, <2>5 DEF Ending, Reported, Left
<1>4. IInv /\ Ending => InTime
  BY <1>3 DEF InTime, BothReported
<1>5. QED
  BY <1>1, <1>2, <1>4, ReinviteInvariant, PTL DEF Spec

-----------------------------------------------------------------------------
(* Where what is new comes from                                            *)

\* Side q makes a step.
Does(q) ==
    \/ \E t : AskDone(q, t) \/ LateDone(q, t) \/ HangDone(q, t)
    \/ q = "bob" /\ \E t : ConnectDone(t)
    \/ q = "alice" /\ ConnectedDone
    \/ InviteDone(q) \/ OkDone(q) \/ RefusalDone(q) \/ ByeDone(q) \/ DeadDone(q)

LEMMA SideDoes ==
    ASSUME Typed, Moved, NEW q \in Sides
    PROVE  side'[q] = side[q] \/ Does(q)
<1>1. "alice" \in Sides /\ "bob" \in Sides
  BY DEF Sides
<1>2. ASSUME NEW p \in Sides, Turn(p), p # q
      PROVE  side'[q] = side[q]
  BY <1>2 DEF Turn
<1>3. CASE \E p \in Sides : \E t : AskDone(p, t) \/ LateDone(p, t) \/ HangDone(p, t)
  <2>1. PICK p \in Sides : \E t : AskDone(p, t) \/ LateDone(p, t) \/ HangDone(p, t)
    BY <1>3
  <2>2. Turn(p)
    BY <2>1 DEF AskDone, LateDone, HangDone
  <2>3. QED
    BY <1>2, <2>1, <2>2 DEF Does
<1>4. CASE \E t : ConnectDone(t)
  <2>1. Turn("bob")
    BY <1>4 DEF ConnectDone
  <2>2. QED
    BY <1>1, <1>2, <1>4, <2>1 DEF Does
<1>5. CASE ConnectedDone
  <2>1. Turn("alice")
    BY <1>5 DEF ConnectedDone
  <2>2. QED
    BY <1>1, <1>2, <1>5, <2>1 DEF Does
<1>6. CASE \E p \in Sides : InviteDone(p) \/ OkDone(p) \/ RefusalDone(p) \/ ByeDone(p)
                            \/ DeadDone(p)
  <2>1. PICK p \in Sides : InviteDone(p) \/ OkDone(p) \/ RefusalDone(p) \/ ByeDone(p)
                           \/ DeadDone(p)
    BY <1>6
  <2>2. Turn(p)
    BY <2>1 DEF InviteDone, OkDone, RefusalDone, ByeDone, DeadDone
  <2>3. QED
    BY <1>2, <2>1, <2>2 DEF Does
<1>7. CASE \E blame : ByesDone(blame) /\ Reason(blame)
  BY <1>7 DEF ByesDone
<1>8. QED
  BY <1>3, <1>4, <1>5, <1>6, <1>7 DEF Moved

\* Who sets timer u.
Sets(q, u) ==
    \/ scn.cls = "reinv_adelay" /\ u = Timer("disconnect", 35)
       /\ \E t : AskDone(q, t) /\ t.cb = "reinvite"
    \/ q = "bob" /\ ~bob.connect /\ u = Timer("disconnect", DisconnectIval("bob", scn.cls))
       /\ \E t : ConnectDone(t)
    \/ Polls(q) /\ ~Left(side[q]) /\ u = Timer("disconnect", 100) /\ \E t : HangDone(q, t)
    \/ /\ q = "alice" /\ ConnectedDone /\ alice.ua = "ringing"
       /\ \/ u = Timer("disconnect", DisconnectIval("alice", scn.cls))
          \/ u = Timer("reinvite", ReinviteIval(scn.cls)) /\ Reinviter(scn.cls) = "alice"
    \/ scn.cls = "reinv_adelay" /\ u = Timer("process_reinvite", 70) /\ InviteDone(q)
    \/ /\ q = "alice" /\ scn.cls = "reinv_onhold" /\ OkDone(q)
       /\ side[q].ua = "updating" /\ side[q].sched # <<>> /\ HoldDone(side'[q], side[q])
       /\ u = Timer(IF side[q].holds > side[q].offs THEN "off_hold" ELSE "reinvite",
                    side[q].sched[Len(side[q].sched)])

LEMMA TimerSet ==
    ASSUME Typed, Moved, NEW q \in Sides, NEW u \in side'[q].timers
    PROVE  u \in side[q].timers \/ Sets(q, u)
<1>1. CASE side'[q] = side[q]
  BY <1>1
<1>2. CASE \E t : AskDone(q, t)
  BY <1>2 DEF AskDone, Sets
<1>3. CASE \E t : LateDone(q, t)
  BY <1>3 DEF LateDone
<1>4. CASE \E t : HangDone(q, t)
  BY <1>4 DEF HangDone, Sets
<1>5. CASE q = "bob" /\ \E t : ConnectDone(t)
  BY <1>5 DEF ConnectDone, Sets, bob
<1>6. CASE q = "alice" /\ ConnectedDone
  BY <1>6 DEF ConnectedDone, Sets, alice
<1>7. CASE InviteDone(q)
  BY <1>7 DEF InviteDone, Sets
<1>8. CASE OkDone(q)
  <2>1. CASE side'[q].timers = side[q].timers
    BY <2>1
  <2>2. CASE side'[q].timers # side[q].timers
    <3>1. q = "alice" /\ scn.cls = "reinv_onhold" /\ HoldDone(side'[q], side[q])
          /\ side[q].ua = "updating"
      BY <1>8, <2>2 DEF OkDone, Answered, Same, Fields
    <3>2. QED
      BY <1>8, <3>1 DEF HoldDone, Sets
  <2>3. QED
    BY <2>1, <2>2
<1>9. CASE RefusalDone(q) \/ ByeDone(q) \/ DeadDone(q)
  BY <1>9 DEF RefusalDone, ByeDone, DeadDone, Same, Fields
<1>10. QED
  BY <1>1, <1>2, <1>3, <1>4, <1>5, <1>6, <1>7, <1>8, <1>9, SideDoes DEF Does

\* Why message m is sent to q, and what the SSuT notes.
AskCause(q, m) ==
    \E t : /\ AskDone(Other(q), t) /\ MayReinvite(side[Other(q)]) /\ ssut.leg # "over"
           /\ m.kind = "INVITE" /\ scn.fault \notin {"mute", "swallow"}
           /\ AskBody(t) = "broken" => scn.fault = "tolerate"
           /\ m.body = IF scn.fault = "raw" THEN "raw" ELSE AskBody(t)
           /\ ssut' = [ssut EXCEPT !.since = now]
EchoCause(q, m) ==
    \E t : /\ AskDone(q, t) /\ MayReinvite(side[q])
           /\ \/ /\ m.kind = "200" /\ m.body = "plain" /\ ssut.leg # "over"
                 /\ scn.fault = "swallow" /\ ssut' = [ssut EXCEPT !.accepted = TRUE]
              \/ m.kind = "refuse" /\ ssut.leg = "over" /\ ssut' = ssut
              \/ m.kind = "refuse" /\ ssut.leg # "over" /\ AskBody(t) = "broken"
                 /\ ssut' = [ssut EXCEPT !.refused = TRUE]
ReplyCause(q, m) ==
    /\ InviteDone(Other(q)) \/ \E t : LateDone(Other(q), t)
    /\ ~Left(side[Other(q)]) /\ ssut.leg # "over"
    /\ \/ /\ m.kind = "200" /\ scn.cls # "reinv_fail"
          /\ scn.cls = "reinv_brkn1" => scn.fault = "tolerate"
          /\ scn.fault # "rawok" => m.body \in {"plain", "broken"}
          /\ ssut' = [ssut EXCEPT !.since = now, !.accepted = TRUE]
       \/ /\ m.kind = "refuse" /\ scn.cls \in {"reinv_fail", "reinv_brkn1"}
          /\ ssut' = [ssut EXCEPT !.refused = TRUE]
EndCause(q, m) ==
    /\ m.kind = "BYE" /\ ssut.leg # "over"
    /\ \/ HangsUp(Other(q)) /\ ~Left(side[Other(q)]) /\ ssut' = Over(Other(q))
       \/ \E blame : ByesDone(blame) /\ Reason(blame)
Cause(q, m) ==
    \/ /\ m.kind = "answer" /\ q = "alice" /\ m.body = "plain" /\ ssut.leg # "over"
       /\ ~bob.connect /\ \E t : ConnectDone(t)
       /\ ssut' = [ssut EXCEPT !.since = now, !.leg = "up"]
    \/ AskCause(q, m) \/ EchoCause(q, m) \/ ReplyCause(q, m) \/ EndCause(q, m)

\* Message m joins those on their way to q.
Joins(q, m) == net'[q] = Append(net[q], m) /\ Behind(net[q], m) /\ Cause(q, m)
QueueKept(q) == net'[q] = net[q]
QueueShorter(q) == net[q] # <<>> /\ net'[q] = Tail(net[q]) /\ Hears(q)
QueueMoved(q) == QueueKept(q) \/ QueueShorter(q) \/ \E m : Joins(q, m)

\* How the SSuT's session changes: with something it sends, or with a bad ACK.
SessionMoved ==
    \/ ssut' = ssut
    \/ \E q \in Sides : \E m : Joins(q, m)
    \/ \E q \in Sides : OkDone(q) /\ ssut' = [ssut EXCEPT !.ackby = now + AckTimeout]

LEMMA SentJoins ==
    ASSUME Typed, NEW n \in Nets, NEW to \in Sides, NEW kind, NEW body,
           Sent(n, to, kind, body), n[to] = net[to],
           \A m : m.kind = kind /\ m.body = body => Cause(to, m)
    PROVE  /\ \E m : Joins(to, m)
           /\ \A q \in Sides \ {to} : net'[q] = n[q]
<1>1. PICK m : /\ net' = [n EXCEPT ![to] = Append(n[to], m)]
               /\ Behind(n[to], m) /\ m.kind = kind /\ m.body = body
  BY DEF Sent
<1>2. net'[to] = Append(n[to], m) /\ \A q \in Sides \ {to} : net'[q] = n[q]
  BY <1>1 DEF Nets
<1>3. QED
  BY <1>1, <1>2 DEF Joins

LEMMA NetJoins ==
    ASSUME Typed, Sane, Prompt, Moved
    PROVE  SessionMoved /\ \A q \in Sides : QueueMoved(q)
<1>1. /\ "alice" \in Sides /\ "bob" \in Sides /\ net \in Nets
      /\ \A p \in Sides : Other(p) \in Sides /\ Other(p) # p /\ Other(Other(p)) = p
                          /\ \A q \in Sides : q = p \/ q = Other(p)
  BY SideTyped, OtherSide DEF Sides
<1>2. net' = net /\ ssut' = ssut => SessionMoved /\ \A q \in Sides : QueueMoved(q)
  BY DEF SessionMoved, QueueMoved, QueueKept
<1>3. ASSUME NEW to \in Sides, NEW kind, NEW body, Sent(net, to, kind, body),
             \A m : m.kind = kind /\ m.body = body => Cause(to, m)
      PROVE  SessionMoved /\ \A q \in Sides : QueueMoved(q)
  BY <1>1, <1>3, SentJoins DEF SessionMoved, QueueMoved, QueueKept
<1>4. ASSUME NEW p \in Sides, net[p] # <<>>, Hears(p)
      PROVE  /\ Taken(p) \in Nets
             /\ net' = Taken(p) => \A q \in Sides : QueueMoved(q)
             /\ \A kind, body :
                   Sent(Taken(p), Other(p), kind, body)
                   /\ (\A m : m.kind = kind /\ m.body = body => Cause(Other(p), m))
                   => SessionMoved /\ \A q \in Sides : QueueMoved(q)
  <2>1. Taken(p) \in Nets /\ Taken(p)[p] = Tail(net[p])
        /\ \A q \in Sides \ {p} : Taken(p)[q] = net[q]
    BY <1>4, TakenDoes
  <2>2. net' = Taken(p) => \A q \in Sides : QueueMoved(q)
    BY <1>4, <2>1 DEF QueueMoved, QueueKept, QueueShorter
  <2>3. ASSUME NEW kind, NEW body, Sent(Taken(p), Other(p), kind, body),
               \A m : m.kind = kind /\ m.body = body => Cause(Other(p), m)
        PROVE  SessionMoved /\ \A q \in Sides : QueueMoved(q)
    <3>1. Taken(p)[Other(p)] = net[Other(p)]
      BY <1>1, <2>1
    <3>2. (\E m : Joins(Other(p), m)) /\ net'[p] = Tail(net[p])
      BY <1>1, <2>1, <2>3, <3>1, SentJoins
    <3>3. QED
      BY <1>1, <1>4, <3>2 DEF SessionMoved, QueueMoved, QueueShorter
  <2>4. QED
    BY <2>1, <2>2, <2>3
<1>5. ASSUME NEW p \in Sides, NEW t, AskDone(p, t)
      PROVE  SessionMoved /\ \A q \in Sides : QueueMoved(q)
  <2>1. CASE MayReinvite(side[p])
    <3>1. PICK body \in Bodies : SsutFrom(p, net, "INVITE", body) /\ body = AskBody(t)
      BY <1>5, <2>1 DEF AskDone
    <3>2. CASE ssut.leg = "over" /\ Sent(net, p, "refuse", "none") /\ ssut' = ssut
      <4>1. \A m : m.kind = "refuse" /\ m.body = "none" => Cause(p, m)
        BY <1>5, <2>1, <3>2 DEF Cause, EchoCause
      <4>2. QED
        BY <1>3, <3>2, <4>1
    <3>3. CASE net' = net /\ ssut' = ssut
      BY <1>2, <3>3
    <3>4. CASE /\ ssut.leg # "over" /\ scn.fault = "swallow" /\ Sent(net, p, "200", "plain")
               /\ ssut' = [ssut EXCEPT !.accepted = TRUE]
      <4>1. \A m : m.kind = "200" /\ m.body = "plain" => Cause(p, m)
        BY <1>5, <2>1, <3>4 DEF Cause, EchoCause
      <4>2. QED
        BY <1>3, <3>4, <4>1
    <3>5. CASE /\ ssut.leg # "over" /\ body = "broken" /\ Sent(net, p, "refuse", "none")
               /\ ssut' = [ssut EXCEPT !.refused = TRUE]
      <4>1. \A m : m.kind = "refuse" /\ m.body = "none" => Cause(p, m)
        BY <1>5, <2>1, <3>1, <3>5 DEF Cause, EchoCause
      <4>2. QED
        BY <1>3, <3>5, <4>1
    <3>6. ASSUME ssut.leg # "over", scn.fault \notin {"mute", "swallow"},
                 body = "broken" => scn.fault = "tolerate",
                 NEW b \in Bodies, Sent(net, Other(p), "INVITE", b),
                 b = IF scn.fault = "raw" THEN "raw" ELSE body,
                 ssut' = [ssut EXCEPT !.since = now]
          PROVE  SessionMoved /\ \A q \in Sides : QueueMoved(q)
      <4>1. \A m : m.kind = "INVITE" /\ m.body = b => AskCause(Other(p), m)
        BY <1>1, <1>5, <2>1, <3>1, <3>6 DEF AskCause
      <4>2. QED
        BY <1>1, <1>3, <3>6, <4>1 DEF Cause
    <3>7. QED
      BY <1>1, <3>1, <3>2, <3>3, <3>4, <3>5, <3>6, SsutInvites
  <2>2. CASE ~MayReinvite(side[p])
    BY <1>2, <1>5, <2>2 DEF AskDone, Quiet
  <2>3. QED
    BY <2>1, <2>2
<1>6. ASSUME NEW t, ConnectDone(t)
      PROVE  SessionMoved /\ \A q \in Sides : QueueMoved(q)
  <2>1. CASE bob.connect \/ bob.disconnect
    BY <1>2, <1>6, <2>1 DEF ConnectDone, Quiet
  <2>2. CASE ~(bob.connect \/ bob.disconnect)
    <3>1. SsutFrom("bob", net, "answer", "plain") /\ Other("bob") = "alice"
      BY <1>6, <2>2 DEF ConnectDone, Other
    <3>2. CASE /\ ssut.leg # "over" /\ Sent(net, "alice", "answer", "plain")
               /\ ssut' = [ssut EXCEPT !.since = now, !.leg = "up"]
      <4>1. \A m : m.kind = "answer" /\ m.body = "plain" => Cause("alice", m)
        BY <1>6, <2>2, <3>2 DEF Cause
      <4>2. QED
        BY <1>1, <1>3, <3>2, <4>1
    <3>3. QED
      BY <1>1, <1>2, <3>1, <3>2, SsutAnswers
  <2>3. QED
    BY <2>1, <2>2
<1>7. ASSUME NEW p \in Sides, NEW t, LateDone(p, t)
      PROVE  SessionMoved /\ \A q \in Sides : QueueMoved(q)
  <2>1. CASE Left(side[p])
    BY <1>2, <1>7, <2>1 DEF LateDone, Quiet
  <2>2. CASE ~Left(side[p])
    <3>1. SsutFrom(p, net, "200", "plain") /\ "plain" \in Bodies
      BY <1>7, <2>2 DEF LateDone, Bodies
    <3>2. CASE net' = net /\ ssut' = ssut
      BY <1>2, <3>2
    <3> DEFINE b == IF scn.fault = "rawok" THEN "raw" ELSE "plain"
    <3>3. CASE /\ ssut.leg # "over" /\ Sent(net, Other(p), "200", b)
               /\ ssut' = [ssut EXCEPT !.since = now, !.accepted = TRUE]
      <4>1. scn.cls = "reinv_adelay"
        BY <1>7 DEF LateDone, Prompt
      <4>2. \A m : m.kind = "200" /\ m.body = b => ReplyCause(Other(p), m)
        BY <1>1, <1>7, <2>2, <3>3, <4>1 DEF ReplyCause
      <4>3. QED
        BY <1>1, <1>3, <3>3, <4>2 DEF Cause
    <3>4. QED
      BY <1>1, <3>1, <3>2, <3>3, SsutAccepts
  <2>3. QED
    BY <2>1, <2>2
<1>8. ASSUME NEW p \in Sides, NEW t, HangDone(p, t)
      PROVE  SessionMoved /\ \A q \in Sides : QueueMoved(q)
  <2>1. CASE Quiet
    BY <1>2, <2>1 DEF Quiet
  <2>2. CASE ~Quiet
    <3>1. HangsUp(p) /\ ~Left(side[p]) /\ SsutFrom(p, net, "BYE", "none")
      BY <1>8, <2>2 DEF HangDone, HangsUp
    <3>2. CASE ssut.leg # "over" /\ Sent(net, Other(p), "BYE", "none") /\ ssut' = Over(p)
      <4>1. \A m : m.kind = "BYE" /\ m.body = "none" => EndCause(Other(p), m)
        BY <1>1, <3>1, <3>2 DEF EndCause
      <4>2. QED
        BY <1>1, <1>3, <3>2, <4>1 DEF Cause
    <3>3. QED
      BY <1>1, <1>2, <3>1, <3>2, SsutByes
  <2>3. QED
    BY <2>1, <2>2
<1>9. ASSUME NEW p \in Sides, Hears(p), Takes(p), net[p] # <<>>
      PROVE  SessionMoved /\ \A q \in Sides : QueueMoved(q)
  BY <1>4, <1>9 DEF Takes, SessionMoved
<1>10. ASSUME NEW p \in Sides, InviteDone(p)
      PROVE  SessionMoved /\ \A q \in Sides : QueueMoved(q)
  <2>1. net[p] # <<>> /\ Hears(p)
    BY <1>10 DEF InviteDone, Hears, Arrives
  <2>2. CASE Takes(p)
    BY <1>9, <2>1, <2>2
  <2>3. CASE ~Takes(p)
    <3>1. ~Left(side[p]) /\ Other(Other(p)) = p /\ Other(p) \in Sides
      BY <1>1, <1>10, <2>3 DEF InviteDone
    <3>2. Taken(p) \in Nets
      BY <1>4, <2>1
    <3>3. CASE net' = Taken(p) /\ ssut' = ssut
      BY <2>3, <3>3 DEF Takes
    <3>4. ASSUME ssut.leg # "over", NEW kind, NEW body, Sent(Taken(p), Other(p), kind, body),
                 \A m : m.kind = kind /\ m.body = body => ReplyCause(Other(p), m)
          PROVE  SessionMoved /\ \A q \in Sides : QueueMoved(q)
      <4>1. \A m : m.kind = kind /\ m.body = body => Cause(Other(p), m)
        BY <3>4 DEF Cause
      <4>2. QED
        BY <1>4, <2>1, <3>4, <4>1
    <3>5. CASE scn.cls = "reinv_fail" /\ SsutFrom(p, Taken(p), "refuse", "none")
      <4>1. CASE /\ ssut.leg # "over" /\ Sent(Taken(p), Other(p), "refuse", "none")
                 /\ ssut' = [ssut EXCEPT !.refused = TRUE]
        <5>1. \A m : m.kind = "refuse" /\ m.body = "none" => ReplyCause(Other(p), m)
          BY <1>10, <3>1, <3>5, <4>1 DEF ReplyCause
        <5>2. QED
          BY <3>4, <4>1, <5>1
      <4>2. QED
        BY <3>2, <3>3, <3>5, <4>1, SsutRefuses
    <3>6. ASSUME NEW body \in {"plain", "broken"}, scn.cls # "reinv_fail",
                 body = "broken" <=> scn.cls = "reinv_brkn1",
                 SsutFrom(p, Taken(p), "200", body)
          PROVE  SessionMoved /\ \A q \in Sides : QueueMoved(q)
      <4>0. body \in Bodies
        BY DEF Bodies
      <4>1. CASE /\ ssut.leg # "over" /\ body = "broken"
                 /\ Sent(Taken(p), Other(p), "refuse", "none")
                 /\ ssut' = [ssut EXCEPT !.refused = TRUE]
        <5>1. \A m : m.kind = "refuse" /\ m.body = "none" => ReplyCause(Other(p), m)
          BY <1>10, <3>1, <3>6, <4>1 DEF ReplyCause
        <5>2. QED
          BY <3>4, <4>1, <5>1
      <4> DEFINE b == IF scn.fault = "rawok" THEN "raw" ELSE body
      <4>2. CASE /\ ssut.leg # "over" /\ (body = "broken" => scn.fault = "tolerate")
                 /\ Sent(Taken(p), Other(p), "200", b)
                 /\ ssut' = [ssut EXCEPT !.since = now, !.accepted = TRUE]
        <5>1. \A m : m.kind = "200" /\ m.body = b => ReplyCause(Other(p), m)
          BY <1>10, <3>1, <3>6, <4>2 DEF ReplyCause
        <5>2. QED
          BY <3>4, <4>2, <5>1
      <4>3. QED
        BY <3>2, <3>3, <3>6, <4>0, <4>1, <4>2, SsutAccepts
    <3>7. QED
      BY <1>10, <2>3, <3>5, <3>6 DEF InviteDone
  <2>4. QED
    BY <2>2, <2>3
<1>11. ASSUME NEW p \in Sides, OkDone(p)
      PROVE  SessionMoved /\ \A q \in Sides : QueueMoved(q)
  <2>1. net[p] # <<>> /\ Hears(p) /\ net' = Taken(p)
    BY <1>11 DEF OkDone, Hears, Arrives
  <2>2. SessionMoved
    BY <1>11 DEF OkDone, SessionMoved
  <2>3. QED
    BY <1>4, <2>1, <2>2
<1>12. ASSUME NEW p \in Sides, RefusalDone(p) \/ ByeDone(p) \/ (p = "alice" /\ ConnectedDone)
      PROVE  SessionMoved /\ \A q \in Sides : QueueMoved(q)
  <2>1. net[p] # <<>> /\ Hears(p) /\ Takes(p)
    BY <1>12 DEF RefusalDone, ByeDone, ConnectedDone, Hears, Arrives
  <2>2. QED
    BY <1>9, <2>1
<1>13. ASSUME NEW p \in Sides, DeadDone(p)
      PROVE  SessionMoved /\ \A q \in Sides : QueueMoved(q)
  BY <1>2, <1>13 DEF DeadDone, Quiet
<1>14. ASSUME NEW blame, ByesDone(blame), Reason(blame)
      PROVE  SessionMoved /\ \A q \in Sides : QueueMoved(q)
  <2>1. ASSUME NEW q \in Sides
        PROVE  \E m : Joins(q, m)
    <3>1. PICK m : net'[q] = Append(net[q], m) /\ Behind(net[q], m) /\ m.kind = "BYE"
      BY <1>14 DEF ByesDone
    <3>2. EndCause(q, m)
      BY <1>14, <3>1 DEF EndCause, ByesDone
    <3>3. QED
      BY <3>1, <3>2 DEF Joins, Cause
  <2>2. QED
    BY <1>1, <2>1 DEF SessionMoved, QueueMoved
<1>15. QED
  BY <1>1, <1>5, <1>6, <1>7, <1>8, <1>10, <1>11, <1>12, <1>13, <1>14 DEF Moved

\* A message is on its way because it was, or because it has been sent.
LEMMA MessageFrom ==
    ASSUME Typed, Sane, Prompt, Moved, NEW q \in Sides, NEW m, In(m, net'[q])
    PROVE  In(m, net[q]) \/ Joins(q, m)
<1>1. net[q] \in Seq(MsgShape)
  BY SideTyped
<1>2. CASE QueueKept(q)
  BY <1>2 DEF QueueKept
<1>3. CASE QueueShorter(q)
  BY <1>1, <1>3, TailIn DEF QueueShorter
<1>4. ASSUME NEW x, Joins(q, x)
      PROVE  In(m, net[q]) \/ Joins(q, m)
  BY <1>1, <1>4, AppendedIn DEF Joins, Behind
<1>5. QED
  BY <1>2, <1>3, <1>4, NetJoins DEF QueueMoved

-----------------------------------------------------------------------------
(* What can be counted                                                     *)

\* Where an error comes from.
Erred(q) ==
    \/ \E t : /\ HangDone(q, t) /\ t \in side[q].timers /\ t.cb = "disconnect"
              /\ q = "alice" /\ scn.cls = "reinv_bad_ack" /\ ~Left(side[q])
              /\ side'[q].timers = side[q].timers \ {t}
              /\ side'[q].nerrs = side[q].nerrs + 1
              /\ Same(side'[q], side[q], {"timers", "nerrs"})
    \/ /\ OkDone(q) /\ side[q].ua = "updating" /\ side'[q].ua = "up"
       /\ side'[q].nerrs = side[q].nerrs + 1 \/ (q = "alice" /\ scn.cls = "nated_contact")
       /\ side'[q].timers = side[q].timers
       /\ scn.cls = "reinv_bad_ack" => ~side'[q].busy
    \/ /\ RefusalDone(q) /\ side[q].ua = "updating" /\ side'[q].ua = "up"
       /\ side[q].busy /\ side'[q].nerrs = side[q].nerrs + 2
       /\ side'[q].timers = side[q].timers
    \/ /\ ByeDone(q) /\ ~Left(side[q]) /\ Left(side'[q])
       /\ side[q].busy /\ side'[q].nerrs = side[q].nerrs + 2

LEMMA ErrorsFrom ==
    ASSUME Typed, Moved, NEW q \in Sides
    PROVE  side'[q].nerrs = side[q].nerrs \/ Erred(q)
<1>1. CASE \E t : AskDone(q, t) \/ LateDone(q, t)
  BY <1>1 DEF AskDone, LateDone, Same, Fields
<1>2. CASE \E t : HangDone(q, t)
  BY <1>2 DEF HangDone, Erred, Same, Fields
<1>3. CASE q = "bob" /\ \E t : ConnectDone(t)
  BY <1>3 DEF ConnectDone, Same, Fields, bob
<1>4. CASE q = "alice" /\ ConnectedDone
  BY <1>4 DEF ConnectedDone, Same, Fields, alice
<1>5. CASE InviteDone(q) \/ DeadDone(q)
  BY <1>5 DEF InviteDone, DeadDone, Same, Fields
<1>6. CASE OkDone(q)
  <2>1. CASE side[q].ua # "updating"
    BY <1>6, <2>1 DEF OkDone
  <2>2. CASE side[q].ua = "updating"
    <3>1. Answered(q, Head(net[q]).body)
      BY <1>6, <2>2 DEF OkDone
    <3>2. side'[q].ua = "up"
      BY <3>1 DEF Answered
    <3>3. CASE side'[q].nerrs = side[q].nerrs
      BY <3>3
    <3>4. CASE side'[q].nerrs # side[q].nerrs
      <4>1. side'[q].timers = side[q].timers
        BY <3>1, <3>4 DEF Answered, Same, Fields
      <4>2. side'[q].nerrs = side[q].nerrs + 1 \/ (q = "alice" /\ scn.cls = "nated_contact")
        BY <3>1, <3>4 DEF Answered, Same, Fields
      <4>3. scn.cls = "reinv_bad_ack" => ~side'[q].busy
        BY <3>1 DEF Answered, Refused
      <4>4. QED
        BY <1>6, <2>2, <3>2, <4>1, <4>2, <4>3 DEF Erred
    <3>5. QED
      BY <3>3, <3>4
  <2>3. QED
    BY <2>1, <2>2
<1>7. CASE RefusalDone(q)
  <2>1. CASE side'[q] = side[q]
    BY <2>1
  <2>2. CASE side'[q] # side[q]
    <3>1. /\ side[q].ua = "updating" /\ side'[q].ua = "up" /\ FailDone(q, side'[q], side[q])
          /\ side'[q].timers = side[q].timers
      BY <1>7, <2>2 DEF RefusalDone, Same, Fields
    <3>2. QED
      BY <1>7, <3>1 DEF FailDone, Erred
  <2>3. QED
    BY <2>1, <2>2
<1>8. CASE ByeDone(q)
  <2>1. CASE side'[q] = side[q]
    BY <2>1
  <2>2. CASE side'[q] # side[q]
    <3>1. ~Left(side[q]) /\ Left(side'[q]) /\ FailDone(q, side'[q], side[q])
      BY <1>8, <2>2 DEF ByeDone, Left
    <3>2. QED
      BY <1>8, <3>1 DEF FailDone, Erred
  <2>3. QED
    BY <2>1, <2>2
<1>9. QED
  BY <1>1, <1>2, <1>3, <1>4, <1>5, <1>6, <1>7, <1>8, SideDoes DEF Does

\* A call to disconnect() is due some day.
Waiting(s) == \E u \in s.timers : u.cb = "disconnect"

\* What a side is about to do follows from what it was about to do.
LEMMA StageFrom ==
    ASSUME Typed, Moved, NEW q \in Sides
    PROVE  /\ side'[q].ua = "ringing" => side[q].ua = "ringing"
           /\ side'[q].ua = "updating" => side[q].ua = "updating" \/ Asks(q) # {}
           /\ side'[q].busy => side[q].busy \/ Asks(q) # {}
<1> DEFINE P == /\ side'[q].ua = "ringing" => side[q].ua = "ringing"
                /\ side'[q].ua = "updating" => side[q].ua = "updating" \/ Asks(q) # {}
                /\ side'[q].busy => side[q].busy \/ Asks(q) # {}
<1>1. CASE side'[q] = side[q]
  BY <1>1
<1>2. CASE \E t : AskDone(q, t)
  BY <1>2 DEF AskDone, Same, Fields
<1>3. CASE \E t : LateDone(q, t) \/ HangDone(q, t)
  BY <1>3 DEF LateDone, HangDone, Same, Fields
<1>4. CASE q = "bob" /\ \E t : ConnectDone(t)
  BY <1>4 DEF ConnectDone, Same, Fields, bob
<1>5. CASE q = "alice" /\ ConnectedDone
  BY <1>5 DEF ConnectedDone, Same, Fields, alice
<1>6. CASE InviteDone(q) \/ DeadDone(q)
  BY <1>6 DEF InviteDone, DeadDone, Same, Fields
<1>7. CASE OkDone(q)
  BY <1>7 DEF OkDone, Answered, Same, Fields
<1>8. CASE RefusalDone(q) \/ ByeDone(q)
  BY <1>8 DEF RefusalDone, ByeDone, FailDone, Same, Fields
<1>9. QED
  BY <1>1, <1>2, <1>3, <1>4, <1>5, <1>6, <1>7, <1>8, SideDoes DEF Does

LEMMA TimersFrom ==
    ASSUME Typed, Moved, NEW q \in Sides
    PROVE  /\ Asks(q)' # {} => \/ Asks(q) # {} \/ side[q].ua = "ringing"
                               \/ side[q].ua = "updating" /\ scn.cls = "reinv_onhold"
           /\ \A u \in side'[q].timers :
                  u.cb = "disconnect" /\ q = "alice" /\ scn.cls = "reinv_bad_ack"
                  => u \in side[q].timers \/ (side[q].ua = "ringing"
                         /\ u = Timer("disconnect", DisconnectIval("alice", scn.cls)))
<1>1. \A cb, ival : Timer(cb, ival).cb = cb
  BY DEF Timer
<1>2. ASSUME NEW u \in side'[q].timers
      PROVE  /\ u.cb \in {"reinvite", "off_hold"} =>
                    \/ Asks(q) # {} \/ side[q].ua = "ringing"
                    \/ side[q].ua = "updating" /\ scn.cls = "reinv_onhold"
             /\ u.cb = "disconnect" /\ q = "alice" /\ scn.cls = "reinv_bad_ack"
                  => u \in side[q].timers \/ (side[q].ua = "ringing"
                         /\ u = Timer("disconnect", DisconnectIval("alice", scn.cls)))
  <2>1. u \in side[q].timers \/ Sets(q, u)
    BY <1>2, TimerSet
  <2>2. CASE u \in side[q].timers
    BY <2>2 DEF Asks
  <2>3. CASE Sets(q, u)
    BY <1>1, <2>3 DEF Sets, Polls, alice
  <2>4. QED
    BY <2>1, <2>2, <2>3
<1>3. QED
  BY <1>2 DEF Asks

\* Except in reinv_bad_ack, nothing is wrong before an answer.
Errors ==
    scn.cls # "reinv_bad_ack" =>
        \A r \in Sides : r = Reinviter(scn.cls) =>
            /\ side[r].nerrs <= 4
            /\ ~Left(side[r]) => side[r].nerrs <= 2
            /\ ~Left(side[r]) /\ (Asks(r) # {} \/ side[r].ua \in {"ringing", "updating"})
                  => side[r].nerrs = 0

\* Who only answers makes no mistakes.
Faultless == \A o \in Sides : o # Reinviter(scn.cls) => side[o].nerrs = 0

LEMMA FaultlessStep ==
    ASSUME Typed, OneAtATime, Faultless, Moved, scn' = scn
    PROVE  Faultless'
<1>1. SUFFICES ASSUME NEW o \in Sides, o # Reinviter(scn.cls)
               PROVE  side'[o].nerrs = 0
  BY DEF Faultless
<1>2. PICK r \in Sides : r = Reinviter(scn.cls)
  BY SideTyped, Literals
<1>3. side[o].ua # "updating" /\ ~side[o].busy
  BY <1>1, <1>2 DEF OneAtATime, InTurn
<1>4. o = "alice" => scn.cls # "reinv_bad_ack"
  BY <1>1 DEF Reinviter
<1>5. ~Erred(o)
  BY <1>3, <1>4 DEF Erred
<1>6. QED
  BY <1>1, <1>5, ErrorsFrom DEF Faultless

LEMMA ErrorsStep ==
    ASSUME Typed, Sane, OneAtATime, Errors, Moved, scn' = scn
    PROVE  Errors'
<1>1. SUFFICES ASSUME scn.cls # "reinv_bad_ack", NEW r \in Sides, r = Reinviter(scn.cls)
               PROVE  /\ side'[r].nerrs <= 4
                      /\ ~Left(side'[r]) => side'[r].nerrs <= 2
                      /\ ~Left(side'[r]) /\ (Asks(r)' # {} \/ side'[r].ua \in {"ringing", "updating"})
                            => side'[r].nerrs = 0
  BY DEF Errors
<1>2. side[r].nerrs \in Nat /\ Other(r) \in Sides /\ Other(r) # r
  BY SideTyped, OtherSide DEF SideShape
<1>3. side[r].ua = "updating" => Asks(r) = {}
  BY <1>1, <1>2 DEF OneAtATime, InTurn
<1>4. ~Left(side'[r]) => ~Left(side[r])
  BY LeftStays
<1>5. CASE side'[r].nerrs = side[r].nerrs
  <2>1. Asks(r)' # {} \/ side'[r].ua \in {"ringing", "updating"}
        => Asks(r) # {} \/ side[r].ua \in {"ringing", "updating"}
    BY StageFrom, TimersFrom
  <2>2. QED
    BY <1>1, <1>4, <1>5, <2>1 DEF Errors
<1>6. CASE Erred(r)
  <2>1. CASE ByeDone(r) /\ ~Left(side[r]) /\ Left(side'[r]) /\ side'[r].nerrs = side[r].nerrs + 2
    BY <1>1, <1>2, <2>1 DEF Errors
  <2>2. CASE /\ side[r].ua = "updating" /\ side'[r].ua = "up" /\ side'[r].timers = side[r].timers
             /\ side'[r].nerrs \in {side[r].nerrs + 1, side[r].nerrs + 2}
    <3>1. ~Left(side[r]) /\ side[r].nerrs = 0
      BY <1>1, <2>2 DEF Errors, Left
    <3>2. Asks(r)' = {}
      BY <1>3, <2>2 DEF Asks
    <3>3. QED
      BY <2>2, <3>1, <3>2
  <2>3. ~(r = "alice" /\ scn.cls = "nated_contact")
    BY <1>1 DEF Reinviter
  <2>4. QED
    BY <1>1, <1>6, <2>1, <2>2, <2>3 DEF Erred
<1>7. QED
  BY <1>5, <1>6, ErrorsFrom

\* When the call is over, who has not left is about to hear of it.
Summoned ==
    ssut.leg = "over" => \A q \in Sides : Left(side[q]) \/ ~No(net[q], {"BYE"})

LEMMA ByeStays ==
    ASSUME Typed, Moved, NEW q \in Sides, ~No(net[q], {"BYE"})
    PROVE  Left(side'[q]) \/ ~No(net'[q], {"BYE"})
<1>1. PICK m : In(m, net[q]) /\ m.kind = "BYE"
  BY DEF No, In
<1>2. CASE In(m, net'[q])
  BY <1>1, <1>2 DEF No, In
<1>3. CASE m = Head(net[q]) /\ Hears(q)
  <2>1. ByeDone(q)
    BY <1>1, <1>3 DEF Hears, ConnectedDone, InviteDone, OkDone, RefusalDone, Arrives
  <2>2. QED
    BY <2>1 DEF ByeDone, Left
<1>4. QED
  BY <1>1, <1>2, <1>3, MessageStays

LEMMA SummonedStep ==
    ASSUME Typed, Sane, Knows, Summoned, Moved
    PROVE  Summoned'
<1>1. ASSUME NEW q \in Sides, ssut.leg = "over"
      PROVE  Left(side'[q]) \/ ~No(net'[q], {"BYE"})
  BY <1>1, LeftStays, ByeStays DEF Summoned
<1>2. ASSUME NEW q \in Sides, ssut.leg # "over", ssut'.leg = "over"
      PROVE  Left(side'[q]) \/ ~No(net'[q], {"BYE"})
  <2>1. CASE \E p \in Sides : Left(side'[p]) /\ Sent(net, Other(p), "BYE", "none")
    <3>1. PICK p \in Sides : Left(side'[p]) /\ Sent(net, Other(p), "BYE", "none")
      BY <2>1
    <3>2. net \in Nets /\ Other(p) \in Sides /\ (q = p \/ q = Other(p))
      BY SideTyped, OtherSide
    <3>3. ~No(net'[Other(p)], {"BYE"})
      BY <3>1, <3>2, SentNo
    <3>4. QED
      BY <3>1, <3>2, <3>3
  <2>2. CASE \E blame : ByesDone(blame)
    <3>1. PICK m : net'[q] = Append(net[q], m) /\ Behind(net[q], m) /\ m.kind = "BYE"
      BY <2>2 DEF ByesDone
    <3>2. In(m, net'[q])
      BY <3>1, SideTyped, AppendedIn DEF Behind
    <3>3. QED
      BY <3>1, <3>2 DEF In, No
  <2>3. QED
    BY <1>2, <2>1, <2>2, CallEnds
<1>3. QED
  BY <1>1, <1>2 DEF Summoned

\* reinvite_in_progress is set as long as the user agent waits.
Busy == \A q \in Sides : side[q].ua = "updating" => side[q].busy

LEMMA BusyStep ==
    ASSUME Typed, Busy, Moved
    PROVE  Busy'
<1>1. SUFFICES ASSUME NEW q \in Sides, side'[q].ua = "updating"
               PROVE  side'[q].busy
  BY DEF Busy
<1>2. CASE side'[q] = side[q]
  BY <1>1, <1>2 DEF Busy
<1>3. CASE \E t : AskDone(q, t)
  BY <1>1, <1>3 DEF AskDone, Same, Fields, Busy
<1>4. CASE \E t : LateDone(q, t) \/ HangDone(q, t)
  BY <1>1, <1>4 DEF LateDone, HangDone, Same, Fields, Busy
<1>5. CASE q = "bob" /\ \E t : ConnectDone(t)
  BY <1>1, <1>5 DEF ConnectDone, Same, Fields, Busy, bob
<1>6. CASE q = "alice" /\ ConnectedDone
  BY <1>1, <1>6 DEF ConnectedDone, Busy, alice
<1>7. CASE InviteDone(q) \/ OkDone(q) \/ RefusalDone(q) \/ ByeDone(q) \/ DeadDone(q)
  BY <1>1, <1>7 DEF InviteDone, OkDone, Answered, RefusalDone, ByeDone, DeadDone, Busy
<1>8. QED
  BY <1>2, <1>3, <1>4, <1>5, <1>6, <1>7, SideDoes DEF Does

\* reinv_bad_ack: Alice gets one re-INVITE out and gives up once, and what is
\* refused is refused after the call.
BadAsks ==
    scn.cls = "reinv_bad_ack" =>
        /\ ~ssut.refused
        /\ \A u, v \in alice.timers : u.cb = "disconnect" /\ v.cb = "disconnect" => u = v
        /\ Asks("alice") # {} => ~alice.busy

AfterBye ==
    scn.cls = "reinv_bad_ack" =>
        \A i \in 1..Len(net["alice"]) :
            net["alice"][i].kind = "refuse" =>
                Left(alice) \/ \E j \in 1..(i - 1) : net["alice"][j].kind = "BYE"

BadErrors ==
    scn.cls = "reinv_bad_ack" =>
        /\ alice.nerrs <= 3
        /\ ~Left(alice) =>
               /\ alice.nerrs <= 2
               /\ alice.ua = "ringing" => alice.nerrs = 0
               /\ Waiting(alice) => alice.nerrs <= 1
               /\ Asks("alice") # {} \/ alice.busy => alice.nerrs <= 1
               /\ Waiting(alice) /\ (Asks("alice") # {} \/ alice.busy) => alice.nerrs = 0

LEMMA BadAsksStep ==
    ASSUME Typed, Sane, Prompt, Begun, OneAtATime, BadAsks, Moved, scn' = scn
    PROVE  BadAsks'
<1>1. SUFFICES ASSUME scn.cls = "reinv_bad_ack"
               PROVE  /\ ~ssut'.refused
                      /\ \A u, v \in side'["alice"].timers :
                             u.cb = "disconnect" /\ v.cb = "disconnect" => u = v
                      /\ Asks("alice")' # {} => ~side'["alice"].busy
  BY DEF BadAsks, alice
<1>2. "alice" \in Sides /\ "bob" \in Sides /\ alice = side["alice"] /\ Reinviter(scn.cls) = "alice"
      /\ now \in Nat /\ ssut \in SsutShape
  BY <1>1 DEF Sides, alice, Reinviter, Typed
<1>3. ~ssut'.refused
  <2>1. ~ssut.refused
    BY <1>1 DEF BadAsks
  <2>2. ASSUME NEW q \in Sides, NEW m, Joins(q, m)
        PROVE  ssut'.refused = ssut.refused
    <3>1. \A t : AskBody(t) # "broken"
      BY <1>1 DEF AskBody
    <3>2. \/ ssut' = ssut \/ ssut' = [ssut EXCEPT !.since = now, !.leg = "up"]
          \/ ssut' = [ssut EXCEPT !.since = now] \/ ssut' = [ssut EXCEPT !.accepted = TRUE]
          \/ ssut' = [ssut EXCEPT !.since = now, !.accepted = TRUE]
          \/ \E blame : ssut' = Over(blame)
      BY <1>1, <2>2, <3>1 DEF Joins, Cause, AskCause, EchoCause, ReplyCause, EndCause, ByesDone
    <3>3. QED
      BY <1>2, <3>2, SsutFields
  <2>3. QED
    BY <1>2, <2>1, <2>2, NetJoins, SsutFields DEF SessionMoved
<1>4. ASSUME NEW u \in side'["alice"].timers, NEW v \in side'["alice"].timers,
             u.cb = "disconnect", v.cb = "disconnect"
      PROVE  u = v
  <2>1. CASE alice.ua = "ringing"
    <3>1. alice.timers = {}
      BY <2>1 DEF Begun
    <3>2. QED
      BY <1>1, <1>2, <1>4, <3>1, TimersFrom
  <2>2. CASE alice.ua # "ringing"
    <3>1. u \in alice.timers /\ v \in alice.timers
      BY <1>1, <1>2, <1>4, <2>2, TimersFrom
    <3>2. QED
      BY <1>1, <1>4, <3>1 DEF BadAsks
  <2>3. QED
    BY <2>1, <2>2
<1>5. ASSUME Asks("alice")' # {}
      PROVE  ~side'["alice"].busy
  <2>1. Asks("alice") # {} \/ alice.ua = "ringing"
    BY <1>1, <1>2, <1>5, TimersFrom
  <2>2. ~alice.busy
    BY <1>1, <2>1 DEF BadAsks, Begun
  <2>3. CASE Asks("alice") = {}
    BY <1>2, <2>2, <2>3, StageFrom
  <2>4. CASE Asks("alice") # {}
    <3>1. PICK t : t \in Asks("alice")
      BY <2>4
    <3>2. Single(Asks("alice"))
      BY <1>2, OtherSide DEF OneAtATime, InTurn
    <3>3. ASSUME NEW x, AskDone("alice", x)
          PROVE  FALSE
      <4>1. side'["alice"].timers = side["alice"].timers \ {x} /\ x \in Asks("alice")
        BY <1>1, <3>3 DEF AskDone
      <4>2. QED
        BY <1>5, <3>2, <4>1 DEF Asks, Single
    <3>4. CASE side'["alice"].busy = side["alice"].busy
      BY <1>2, <2>2, <3>4
    <3>5. CASE side'["alice"].busy # side["alice"].busy
      <4>2. CASE Does("alice")
        BY <1>2, <2>2, <3>3, <3>5, <4>2 DEF Does, LateDone, HangDone, ConnectedDone,
              InviteDone, OkDone, Answered, RefusalDone, ByeDone, FailDone, DeadDone,
              Same, Fields, alice
      <4>3. QED
        BY <1>2, <3>5, <4>2, SideDoes
    <3>6. QED
      BY <3>4, <3>5
  <2>5. QED
    BY <2>3, <2>4
<1>6. QED
  BY <1>3, <1>4, <1>5

LEMMA AfterByeStep ==
    ASSUME Typed, Sane, Prompt, Summoned, AfterBye, Moved, scn' = scn
    PROVE  AfterBye'
<1>1. SUFFICES ASSUME scn.cls = "reinv_bad_ack", ~Left(side'["alice"]),
                      NEW i \in 1..Len(net'["alice"]), net'["alice"][i].kind = "refuse"
               PROVE  \E j \in 1..(i - 1) : net'["alice"][j].kind = "BYE"
  BY DEF AfterBye, alice
<1>2. "alice" \in Sides /\ alice = side["alice"] /\ Other("alice") \in Sides
  BY OtherSide DEF Sides, alice
<1>3. ~Left(alice) /\ net["alice"] \in Seq(MsgShape)
  BY <1>1, <1>2, LeftStays, SideTyped
<1> DEFINE q == net["alice"]
<1>4. \A k \in 1..Len(q) : q[k].kind = "refuse" => \E j \in 1..(k - 1) : q[j].kind = "BYE"
  BY <1>1, <1>3 DEF AfterBye
<1>5. CASE QueueKept("alice")
  BY <1>1, <1>4, <1>5 DEF QueueKept
<1>6. CASE QueueShorter("alice")
  <2>1. /\ Len(Tail(q)) = Len(q) - 1 /\ Len(q) \in Nat /\ Head(q) = q[1]
        /\ \A k \in 1..Len(Tail(q)) : Tail(q)[k] = q[k + 1] /\ k + 1 \in 1..Len(q)
    BY <1>2, <1>6, TakenDoes DEF QueueShorter
  <2>2. q[1].kind # "BYE"
    <3>1. ~ByeDone("alice")
      BY <1>1 DEF ByeDone, Left
    <3>2. QED
      BY <1>6, <2>1, <3>1 DEF QueueShorter, Hears, ConnectedDone, InviteDone, OkDone,
                              RefusalDone, Arrives
  <2>3. net'["alice"] = Tail(q)
    BY <1>6 DEF QueueShorter
  <2>4. PICK j \in 1..i : q[j].kind = "BYE"
    <3>1. q[i + 1].kind = "refuse" /\ i + 1 \in 1..Len(q) /\ (i + 1) - 1 = i
      BY <1>1, <2>1, <2>3
    <3>2. QED
      BY <1>4, <3>1
  <2>5. j # 1
    BY <2>2, <2>4
  <2>6. i \in Nat /\ i <= Len(Tail(q)) /\ Len(Tail(q)) \in Nat
    BY <1>1, <2>1, <2>3
  <2>7. j - 1 \in 1..(i - 1) /\ j - 1 \in 1..Len(Tail(q)) /\ (j - 1) + 1 = j
    BY <2>4, <2>5, <2>6
  <2>8. net'["alice"][j - 1].kind = "BYE"
    BY <2>1, <2>3, <2>4, <2>7
  <2>9. QED
    BY <2>7, <2>8
<1>7. ASSUME NEW m, Joins("alice", m)
      PROVE  \E j \in 1..(i - 1) : net'["alice"][j].kind = "BYE"
  <2>1. m \in MsgShape /\ net'["alice"] = Append(q, m)
    BY <1>7 DEF Joins, Behind
  <2>2. /\ Len(Append(q, m)) = Len(q) + 1 /\ Len(q) \in Nat
        /\ Append(q, m)[Len(q) + 1] = m /\ \A k \in 1..Len(q) : Append(q, m)[k] = q[k]
    BY <1>3, <2>1
  <2>3. CASE i \in 1..Len(q)
    <3>1. PICK j \in 1..(i - 1) : q[j].kind = "BYE"
      BY <1>1, <1>4, <2>1, <2>2, <2>3
    <3>2. j \in 1..Len(q)
      BY <2>2, <2>3, <3>1
    <3>3. QED
      BY <2>1, <2>2, <3>1, <3>2
  <2>4. CASE i = Len(q) + 1
    <3>1. m.kind = "refuse"
      BY <1>1, <2>1, <2>2, <2>4
    <3>2. ssut.leg = "over"
      BY <1>1, <1>7, <3>1 DEF Joins, Cause, AskCause, EchoCause, ReplyCause, EndCause, AskBody
    <3>3. ~No(q, {"BYE"})
      BY <1>2, <1>3, <3>2 DEF Summoned
    <3>4. PICK j \in 1..Len(q) : q[j].kind = "BYE"
      BY <3>3 DEF No
    <3>5. j \in 1..(i - 1)
      BY <2>2, <2>4, <3>4
    <3>6. QED
      BY <2>1, <2>2, <3>4, <3>5
  <2>5. QED
    BY <1>1, <2>1, <2>2, <2>3, <2>4
<1>8. QED
  BY <1>2, <1>5, <1>6, <1>7, NetJoins DEF QueueMoved

LEMMA BadErrorsStep ==
    ASSUME Typed, Sane, Begun, OneAtATime, Busy, BadAsks, AfterBye, BadErrors, Moved, scn' = scn
    PROVE  BadErrors'
<1> DEFINE r == side'["alice"]
<1>1. SUFFICES ASSUME scn.cls = "reinv_bad_ack"
               PROVE  /\ r.nerrs <= 3
                      /\ ~Left(r) =>
                             /\ r.nerrs <= 2
                             /\ r.ua = "ringing" => r.nerrs = 0
                             /\ Waiting(r) => r.nerrs <= 1
                             /\ Asks("alice")' # {} \/ r.busy => r.nerrs <= 1
                             /\ Waiting(r) /\ (Asks("alice")' # {} \/ r.busy) => r.nerrs = 0
  BY DEF BadErrors, alice
<1>2. /\ "alice" \in Sides /\ alice = side["alice"] /\ alice.nerrs \in Nat
      /\ Reinviter(scn.cls) = "alice"
  BY <1>1, SideTyped DEF Sides, alice, SideShape, Reinviter
<1>3. ~Left(r) => ~Left(alice)
  BY <1>2, LeftStays
<1>4. /\ r.ua = "ringing" => alice.ua = "ringing"
      /\ Asks("alice")' # {} \/ r.busy => alice.ua = "ringing" \/ Asks("alice") # {} \/ alice.busy
      /\ Waiting(r) => Waiting(alice) \/ alice.ua = "ringing"
  BY <1>1, <1>2, StageFrom, TimersFrom DEF Waiting
<1>5. CASE r.nerrs = alice.nerrs
  <2>1. CASE Left(r)
    BY <1>1, <1>5, <2>1 DEF BadErrors
  <2>2. CASE ~Left(r)
    <3>1. ~Left(alice) /\ alice.nerrs <= 2
      BY <1>1, <1>3, <2>2 DEF BadErrors
    <3>2. CASE alice.ua = "ringing"
      BY <1>1, <1>2, <1>5, <3>1, <3>2 DEF BadErrors
    <3>3. CASE alice.ua # "ringing"
      BY <1>1, <1>2, <1>4, <1>5, <3>1, <3>3 DEF BadErrors
    <3>4. QED
      BY <3>2, <3>3
  <2>3. QED
    BY <2>1, <2>2
<1>6. ASSUME NEW t, t \in alice.timers, t.cb = "disconnect", ~Left(alice),
             r.timers = alice.timers \ {t}, r.nerrs = alice.nerrs + 1,
             Same(r, alice, {"timers", "nerrs"})
      PROVE  /\ r.nerrs <= 2 /\ r.ua # "ringing" /\ ~Waiting(r)
             /\ Asks("alice")' # {} \/ r.busy => r.nerrs <= 1
  <2>1. Waiting(alice)
    BY <1>6 DEF Waiting
  <2>2. ~Waiting(r)
    BY <1>1, <1>6 DEF Waiting, BadAsks
  <2>3. Asks("alice")' \subseteq Asks("alice") /\ r.busy = alice.busy /\ r.ua = alice.ua
    BY <1>2, <1>6 DEF Asks, Same, Fields
  <2>4. alice.ua # "ringing"
    BY <1>6 DEF Begun
  <2>5. alice.nerrs <= 1 /\ (Asks("alice") # {} \/ alice.busy => alice.nerrs = 0)
    BY <1>1, <1>6, <2>1 DEF BadErrors
  <2>6. QED
    BY <1>2, <1>6, <2>2, <2>3, <2>4, <2>5
<1>7. CASE /\ OkDone("alice") /\ alice.ua = "updating" /\ r.ua = "up"
           /\ r.nerrs = alice.nerrs + 1 /\ r.timers = alice.timers /\ ~r.busy
  <2>1. ~Left(alice) /\ Asks("alice") = {} /\ Other("alice") \in Sides /\ Other("alice") # "alice"
    BY <1>2, <1>7, OtherSide DEF OneAtATime, InTurn, Left
  <2>2. Asks("alice")' = {}
    BY <1>2, <1>7, <2>1 DEF Asks
  <2>3. Waiting(r) => Waiting(alice)
    BY <1>7 DEF Waiting
  <2>4. alice.busy
    BY <1>2, <1>7 DEF Busy
  <2>5. alice.nerrs <= 1 /\ (Waiting(alice) => alice.nerrs = 0)
    BY <1>1, <2>1, <2>4 DEF BadErrors
  <2>6. QED
    BY <1>2, <1>7, <2>2, <2>3, <2>5
<1>8. CASE RefusalDone("alice") /\ alice.ua = "updating"
  <2>1. net["alice"] # <<>> /\ Head(net["alice"]).kind = "refuse" /\ ~Left(alice)
    BY <1>8 DEF RefusalDone, Arrives, Left
  <2>2. 1 \in 1..Len(net["alice"]) /\ net["alice"][1].kind = "refuse"
    BY <1>2, <2>1, TakenDoes
  <2>3. QED
    BY <1>1, <2>1, <2>2 DEF AfterBye
<1>9. CASE ~Left(alice) /\ Left(r) /\ alice.busy /\ r.nerrs = alice.nerrs + 2
  BY <1>1, <1>2, <1>9 DEF BadErrors
<1>10. QED
  BY <1>1, <1>2, <1>5, <1>6, <1>7, <1>8, <1>9, ErrorsFrom DEF Erred

\* reinv_onhold: who puts whom on hold.  Bob has not counted a hold that Alice
\* has not.
Holding ==
    IF scn.cls = "reinv_onhold"
    THEN /\ bob.holds <= alice.holds
         /\ \A m : In(m, net["bob"]) /\ m.kind = "INVITE" /\ m.body = "hold"
                       => bob.holds < alice.holds
    ELSE \A q \in Sides : /\ side[q].holds = 0 /\ side[q].offs = 0
                          /\ \A t \in side[q].timers : t.cb # "off_hold"

\* What is left of the intervals was drawn.
Drawn == \A q \in Sides : \A i \in 1..Len(side[q].sched) : side[q].sched[i] \in Draws

LEMMA DrawnStep ==
    ASSUME Typed, Drawn, Moved
    PROVE  Drawn'
<1>1. SUFFICES ASSUME NEW q \in Sides, NEW i \in 1..Len(side'[q].sched)
               PROVE  side'[q].sched[i] \in Draws
  BY DEF Drawn
<1>2. CASE side'[q].sched = side[q].sched
  BY <1>1, <1>2 DEF Drawn
<1>3. CASE HoldDone(side'[q], side[q])
  <2>1. side[q].sched \in Seq(Nat) /\ Len(side[q].sched) \in Nat
    BY SideTyped DEF SideShape
  <2>2. CASE side[q].sched # <<>>
    <3>1. side'[q].sched = SubSeq(side[q].sched, 1, Len(side[q].sched) - 1)
          /\ Len(side'[q].sched) = Len(side[q].sched) - 1
      BY <1>3, <2>2 DEF HoldDone
    <3>2. i \in 1..Len(side[q].sched) /\ side'[q].sched[i] = side[q].sched[i]
      BY <1>1, <2>1, <3>1
    <3>3. QED
      BY <3>2 DEF Drawn
  <2>3. QED
    BY <1>1, <1>2, <1>3, <2>2 DEF HoldDone
<1>4. ASSUME Does(q)
      PROVE  side'[q].sched = side[q].sched \/ HoldDone(side'[q], side[q])
  <2>1. CASE OkDone(q)
    BY <2>1 DEF OkDone, Answered, Same, Fields
  <2>2. CASE ~OkDone(q)
    BY <1>4, <2>2 DEF Does, AskDone, LateDone, HangDone, ConnectDone, ConnectedDone,
          InviteDone, RefusalDone, ByeDone, DeadDone, Same, Fields, alice, bob
  <2>3. QED
    BY <2>1, <2>2
<1>5. QED
  BY <1>2, <1>3, <1>4, SideDoes

\* How the counters of the holds change.
LEMMA HoldsFrom ==
    ASSUME Typed, Moved, NEW q \in Sides
    PROVE  \/ side'[q].holds = side[q].holds /\ side'[q].offs = side[q].offs
           \/ \E t : AskDone(q, t) /\ side'[q].holds >= side[q].holds
           \/ /\ InviteDone(q) /\ ~Left(side[q]) /\ q = "bob" /\ scn.cls = "reinv_onhold"
              /\ Counts(side'[q], side[q], Head(net[q]).body)
<1>1. CASE \E t : AskDone(q, t)
  <2>1. side[q].holds \in Nat
    BY SideTyped DEF SideShape
  <2>2. QED
    BY <1>1, <2>1 DEF AskDone, Same, Fields
<1>2. CASE InviteDone(q)
  <2>1. CASE Left(side[q])
    BY <1>2, <2>1 DEF InviteDone
  <2>2. CASE ~Left(side[q])
    BY <1>2, <2>2 DEF InviteDone
  <2>3. QED
    BY <2>1, <2>2
<1>3. CASE OkDone(q)
  BY <1>3 DEF OkDone, Answered, Same, Fields
<1>4. CASE \E t : LateDone(q, t) \/ HangDone(q, t)
  BY <1>4 DEF LateDone, HangDone, Same, Fields
<1>5. CASE (q = "bob" /\ \E t : ConnectDone(t)) \/ (q = "alice" /\ ConnectedDone)
  BY <1>5 DEF ConnectDone, ConnectedDone, Same, Fields, alice, bob
<1>6. CASE RefusalDone(q) \/ ByeDone(q) \/ DeadDone(q)
  BY <1>6 DEF RefusalDone, ByeDone, DeadDone, Same, Fields
<1>7. QED
  BY <1>1, <1>2, <1>3, <1>4, <1>5, <1>6, SideDoes DEF Does

LEMMA HoldingStep ==
    ASSUME Typed, Sane, Prompt, OneAtATime, Holding, Moved, scn' = scn
    PROVE  Holding'
<1>1. "alice" \in Sides /\ "bob" \in Sides /\ alice = side["alice"] /\ bob = side["bob"]
      /\ Other("bob") = "alice" /\ Other("alice") = "bob"
  BY DEF Sides, alice, bob, Other
<1>2. CASE scn.cls # "reinv_onhold"
  <2>1. ASSUME NEW q \in Sides
        PROVE  /\ side'[q].holds = 0 /\ side'[q].offs = 0
               /\ \A t \in side'[q].timers : t.cb # "off_hold"
    <3>1. side[q].holds = 0 /\ side[q].offs = 0 /\ \A t \in side[q].timers : t.cb # "off_hold"
      BY <1>2 DEF Holding
    <3>2. ASSUME NEW t, AskDone(q, t)
          PROVE  side'[q].holds = 0 /\ side'[q].offs = 0
      BY <1>2, <3>1, <3>2 DEF AskDone, Asks, Same, Fields
    <3>3. side'[q].holds = 0 /\ side'[q].offs = 0
      BY <1>2, <3>1, <3>2, HoldsFrom
    <3>4. ASSUME NEW u \in side'[q].timers
          PROVE  u.cb # "off_hold"
      BY <1>2, <3>1, <3>4, TimerSet DEF Sets, Timer
    <3>5. QED
      BY <3>3, <3>4
  <2>2. QED
    BY <1>2, <2>1 DEF Holding
<1>3. CASE scn.cls = "reinv_onhold"
  <2>1. /\ bob.holds <= alice.holds /\ bob.holds \in Nat /\ alice.holds \in Nat
        /\ bob.offs \in Nat /\ alice.offs \in Nat
        /\ net["bob"] \in Seq(MsgShape)
        /\ \A m : In(m, net["bob"]) /\ m.kind = "INVITE" /\ m.body = "hold"
                      => bob.holds < alice.holds
        /\ side'["alice"].holds \in Nat
    BY <1>1, <1>3, SideTyped, SideMoves DEF Holding, SideShape
  <2>2. ~(\E t : AskDone("bob", t)) /\ InTurn("alice", "bob")
    BY <1>1, <1>3 DEF AskDone, Reinviter, OneAtATime
  <2>3. side'["alice"].holds >= alice.holds
    BY <1>1, <2>1, HoldsFrom
  <2>4. CASE InviteDone("bob") /\ ~Left(bob) /\ Counts(side'["bob"], bob, Head(net["bob"]).body)
    <3>1. Turn("bob") /\ side'["alice"] = alice /\ Arrives("bob", "INVITE")
      BY <1>1, <2>4 DEF InviteDone, Turn
    <3>2. In(Head(net["bob"]), net["bob"]) /\ Head(net["bob"]).kind = "INVITE"
      BY <1>1, <2>1, <3>1, TailIn DEF Arrives
    <3>3. side'["bob"].holds <= alice.holds
      BY <2>1, <2>4, <3>2 DEF Counts
    <3>4. \A m : In(m, net'["bob"]) => m.kind # "INVITE"
      <4>1. No(Taken("bob")["bob"], Offer)
        BY <1>1, <2>2, <3>1, TakenKinds DEF Offer, InTurn
      <4>2. No(net'["bob"], Offer)
        <5>1. Taken("bob") \in Nets /\ net["bob"] # <<>>
          BY <1>1, <3>1, TakenKinds
        <5>2. "plain" \in Bodies /\ "bob" # "alice"
          BY DEF Bodies
        <5>3. CASE Takes("bob")
          BY <4>1, <5>3 DEF Takes
        <5>4. CASE SsutFrom("bob", Taken("bob"), "200", "plain")
          <6>1. Plain(Taken("bob")) \/ Told(Taken("bob"), "alice")
            BY <1>1, <5>1, <5>2, <5>4, SsutKinds
          <6>2. QED
            BY <1>1, <4>1, <6>1 DEF Plain, Told
        <5>5. QED
          BY <1>1, <1>3, <2>4, <5>3, <5>4 DEF InviteDone
      <4>3. QED
        BY <4>2 DEF No, In, Offer
    <3>5. QED
      BY <1>1, <1>3, <3>1, <3>3, <3>4 DEF Holding, alice, bob
  <2>5. CASE side'["bob"].holds = bob.holds
    <3>1. ASSUME NEW m, In(m, net'["bob"]), m.kind = "INVITE", m.body = "hold"
          PROVE  bob.holds < side'["alice"].holds
      <4>1. CASE In(m, net["bob"])
        BY <2>1, <2>3, <3>1, <4>1
      <4>2. ASSUME NEW x, Joins("bob", x), m = x
            PROVE  bob.holds < side'["alice"].holds
        <5>1. PICK t : /\ AskDone("alice", t) /\ MayReinvite(alice)
                       /\ x.body = "raw" \/ x.body = AskBody(t)
          BY <1>1, <3>1, <4>2 DEF Joins, Cause, AskCause, EchoCause, ReplyCause, EndCause
        <5>2. CASE AskBody(t) = "hold"
          <6>1. side'["alice"].holds = alice.holds + 1
            BY <1>1, <1>3, <5>1, <5>2 DEF AskDone, AskBody
          <6>2. QED
            BY <2>1, <6>1
        <5>3. CASE AskBody(t) # "hold"
          BY <1>1, <3>1, <4>2, <5>1, <5>3
        <5>4. QED
          BY <5>2, <5>3
      <4>3. QED
        BY <1>1, <3>1, <4>1, <4>2, MessageFrom
    <3>2. QED
      BY <1>1, <1>3, <2>1, <2>3, <2>5, <3>1 DEF Holding, alice, bob
  <2>6. QED
    BY <1>1, <2>2, <2>4, <2>5, HoldsFrom
<1>4. QED
  BY <1>2, <1>3

Bounded ==
    /\ Faultless /\ Errors /\ Summoned /\ Busy /\ BadAsks /\ AfterBye /\ BadErrors
    /\ Holding /\ Drawn

LEMMA BoundedStep ==
    ASSUME IInv, Bounded, [Next]_vars
    PROVE  Bounded'
<1>1. CASE Moved /\ scn' = scn
  <2>1. Faultless' /\ Errors' /\ Summoned' /\ Busy'
    BY <1>1, FaultlessStep, ErrorsStep, SummonedStep, BusyStep DEF Bounded, IInv
  <2>2. BadAsks' /\ AfterBye' /\ BadErrors'
    BY <1>1, BadAsksStep, AfterByeStep, BadErrorsStep DEF Bounded, IInv
  <2>3. Holding' /\ Drawn'
    BY <1>1, HoldingStep, DrawnStep DEF Bounded, IInv
  <2>4. QED
    BY <2>1, <2>2, <2>3 DEF Bounded
<1>2. CASE TickDone \/ Stay
  <2>1. /\ scn' = scn /\ side' = side /\ ssut' = ssut /\ net' = net
        /\ \A q : Asks(q)' = Asks(q)
    BY <1>2 DEF TickDone, Stay, Asks
  <2>2. Faultless' /\ Errors' /\ Summoned' /\ Busy' /\ Drawn'
    BY <2>1 DEF Bounded, Faultless, Errors, Summoned, Busy, Drawn
  <2>3. BadAsks' /\ AfterBye' /\ BadErrors' /\ Holding'
    BY <2>1 DEF Bounded, BadAsks, AfterBye, BadErrors, Holding, alice, bob, In
  <2>4. QED
    BY <2>2, <2>3 DEF Bounded
<1>3. QED
  BY <1>1, <1>2, StepMoves DEF IInv

LEMMA StartBounded ==
    ASSUME Start
    PROVE  Bounded
<1>1. /\ "alice" \in Sides /\ "bob" \in Sides /\ alice = side["alice"] /\ bob = side["bob"]
      /\ \A q \in Sides : q = "alice" \/ q = "bob"
      /\ \A q \in Sides : net[q] = <<>>
      /\ ssut.leg = "calling" /\ ~ssut.refused
  BY DEF Start, NoSession, Sides, alice, bob
<1>2. /\ \A q \in Sides : /\ side[q].nerrs = 0 /\ side[q].ua = "ringing" /\ ~side[q].busy
                          /\ side[q].holds = 0 /\ side[q].offs = 0
      /\ alice.timers = {}
      /\ \A t \in bob.timers : t.cb \in {"connect", "reinvite"}
  BY <1>1 DEF Start, Untouched
<1>3. \A q \in Sides : \A t \in side[q].timers : t.cb # "off_hold"
  BY <1>1, <1>2
<1>4. Drawn
  <2>1. alice.sched \in Scheds(scn.cls, Draws) /\ bob.sched = <<>>
    BY <1>1 DEF Start
  <2>2. \A i \in 1..Len(bob.sched) : bob.sched[i] \in Draws
    BY <2>1
  <2>3. \A i \in 1..Len(alice.sched) : alice.sched[i] \in Draws
    <3>1. CASE scn.cls # "reinv_onhold"
      BY <2>1, <3>1 DEF Scheds
    <3>2. CASE scn.cls = "reinv_onhold"
      <4>1. alice.sched \in [1..4 -> Draws]
        BY <2>1, <3>2 DEF Scheds
      <4>2. alice.sched \in Seq(Draws)
        BY <4>1, SeqDef
      <4>3. QED
        BY <4>2
    <3>3. QED
      BY <3>1, <3>2
  <2>4. QED
    BY <1>1, <2>2, <2>3 DEF Drawn
<1>5. QED
  BY <1>1, <1>2, <1>3, <1>4 DEF Bounded, Faultless, Errors, Summoned, Busy, BadAsks, AfterBye,
     BadErrors, Holding, In

\* TypeOK: every field keeps its type; in particular no side counts more than four
\* errors, three holds or five offers of media, and what Alice has still to wait
\* between two of them is one of the intervals that were drawn.
THEOREM TypesHold == Spec => []TypeOK
<1>1. Init => IInv /\ Bounded
  BY InitStarts, StartHolds, StartBounded DEF IInv
<1>2. IInv /\ Bounded /\ [Next]_vars => Bounded'
  BY BoundedStep
<1>3. ASSUME IInv, Bounded, NEW q \in Sides
      PROVE  side[q] \in SideType
  <2>1. side[q] \in SideShape /\ side[q].nerrs \in Nat /\ side[q].holds \in Nat
        /\ side[q].offs \in Nat /\ side[q].sched \in Seq(Nat)
    BY <1>3, SideTyped DEF IInv, SideShape
  <2>2. side[q].nerrs <= 4
    <3>1. CASE q # Reinviter(scn.cls)
      BY <1>3, <3>1 DEF Bounded, Faultless
    <3>2. CASE q = Reinviter(scn.cls) /\ scn.cls # "reinv_bad_ack"
      BY <1>3, <3>2 DEF Bounded, Errors
    <3>3. CASE q = Reinviter(scn.cls) /\ scn.cls = "reinv_bad_ack"
      <4>1. side[q].nerrs <= 3
        BY <1>3, <3>3 DEF Bounded, BadErrors, Reinviter, alice
      <4>2. QED
        BY <2>1, <4>1
    <3>4. QED
      BY <3>1, <3>2, <3>3
  <2>3. side[q].holds <= 3 /\ side[q].offs <= 5
    <3>1. CASE scn.cls # "reinv_onhold"
      BY <1>3, <3>1 DEF Bounded, Holding
    <3>2. CASE scn.cls = "reinv_onhold"
      <4>1. "alice" \in Sides /\ "bob" \in Sides /\ (q = "alice" \/ q = "bob")
            /\ alice = side["alice"] /\ bob = side["bob"]
        BY DEF Sides, alice, bob
      <4>2. /\ alice.holds \in Nat /\ alice.offs \in Nat /\ bob.holds \in Nat /\ bob.offs \in Nat
            /\ Len(alice.sched) \in Nat
        BY <1>3, <4>1, SideTyped DEF IInv, SideShape
      <4>3. /\ alice.holds + alice.offs + Len(alice.sched) <= 5
            /\ (alice.holds = alice.offs \/ alice.holds = alice.offs + 1)
            /\ bob.holds + bob.offs <= alice.holds + alice.offs
        BY <1>3, <3>2, <4>1 DEF IInv, Counted, Tally
      <4>4. bob.holds <= alice.holds
        BY <1>3, <3>2 DEF Bounded, Holding
      <4>5. alice.holds <= 3 /\ alice.offs <= 5 /\ bob.holds <= 3 /\ bob.offs <= 5
        BY SMTT(30), <4>2, <4>3, <4>4
      <4>6. QED
        BY <4>1, <4>5
    <3>3. QED
      BY <3>1, <3>2
  <2>4. side[q].sched \in Seq(Draws)
    <3>1. \A i \in 1..Len(side[q].sched) : side[q].sched[i] \in Draws
      BY <1>3 DEF Bounded, Drawn
    <3>2. side[q].sched \in [1..Len(side[q].sched) -> Draws]
      BY <2>1, <3>1, LenProperties
    <3>3. Len(side[q].sched) \in Nat
      BY <2>1
    <3>4. QED
      BY <3>2, <3>3, SeqDef
  <2>5. side[q].verdict \in Verdicts \cup {Pending}
    BY <2>1 DEF SideShape, Verdicts
  <2>6. side[q].timers \in SUBSET [cb : {"connect", "reinvite", "off_hold", "disconnect",
                                         "process_reinvite"}, at : Nat]
    BY <2>1 DEF SideShape, TimerShape, Callbacks
  <2>7. side[q].nerrs \in 0..4 /\ side[q].holds \in 0..3 /\ side[q].offs \in 0..5
    <3>1. \A n, b \in Nat : n <= b => n \in 0..b
      OBVIOUS
    <3>2. side[q].nerrs \in Nat /\ side[q].holds \in Nat /\ side[q].offs \in Nat
      BY <2>1
    <3>3. QED
      BY <2>2, <2>3, <3>1, <3>2
  <2> DEFINE s == side[q]
             timers == SUBSET [cb : {"connect", "reinvite", "off_hold", "disconnect",
                                     "process_reinvite"}, at : Nat]
             scheds == Seq(Draws)
             verdicts == Verdicts \cup {Pending}
  <2>8. s.timers \in timers /\ s.sched \in scheds /\ s.verdict \in verdicts
        /\ s.nerrs \in 0..4 /\ s.holds \in 0..3 /\ s.offs \in 0..5
    BY <2>4, <2>5, <2>6, <2>7
  <2>9. /\ s.ua \in Agents /\ s.connect \in BOOLEAN /\ s.disconnect \in BOOLEAN
        /\ s.busy \in BOOLEAN /\ s.done \in BOOLEAN /\ s.ended \in Nat
        /\ s.ruri \in {"none", "contact", "other"} /\ s.late \in BOOLEAN
        /\ s = [ua |-> s.ua, connect |-> s.connect, disconnect |-> s.disconnect,
                nerrs |-> s.nerrs, busy |-> s.busy, done |-> s.done, holds |-> s.holds,
                offs |-> s.offs, timers |-> s.timers, sched |-> s.sched, ended |-> s.ended,
                ruri |-> s.ruri, late |-> s.late, verdict |-> s.verdict]
    BY <2>1 DEF SideShape
  <2> HIDE DEF timers, scheds, verdicts
  <2>10. s \in [ua : Agents, connect : BOOLEAN, disconnect : BOOLEAN, nerrs : 0..4,
                busy : BOOLEAN, done : BOOLEAN, holds : 0..3, offs : 0..5, timers : timers,
                sched : scheds, ended : Nat, ruri : {"none", "contact", "other"},
                late : BOOLEAN, verdict : verdicts]
    BY <2>8, <2>9
  <2>11. QED
    BY <2>10 DEF SideType, Agents, timers, scheds, verdicts
<1>4. ASSUME IInv, Bounded
      PROVE  TypeOK
  <2>1. /\ now \in Nat /\ scn \in Scenarios /\ ssut.leg \in {"calling", "up", "over"}
    BY <1>4 DEF IInv, Typed, SsutShape
  <2>2. ASSUME NEW p \in Sides, NEW i \in DOMAIN net[p]
        PROVE  net[p][i].kind \in {"answer", "INVITE", "200", "refuse", "BYE"}
    <3>1. net[p] \in Seq(MsgShape)
      BY <1>4, SideTyped DEF IInv
    <3>2. net[p][i] \in MsgShape
      BY <2>2, <3>1
    <3>3. QED
      BY <3>2 DEF MsgShape, Kinds
  <2>3. QED
    BY <1>3, <1>4, <2>1, <2>2 DEF TypeOK
<1>5. IInv /\ Bounded => TypeOK
  BY <1>4
<1>6. QED
  BY <1>1, <1>2, <1>5, ReinviteInvariant, PTL DEF Spec
=============================================================================
