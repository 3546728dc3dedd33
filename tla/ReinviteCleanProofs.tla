------------------------ MODULE ReinviteCleanProofs -------------------------
(***************************************************************************)
(* A correct SSuT: every re-INVITE is answered before anyone hangs up, in  *)
(* every class but reinv_adelay, so that both sides pass.  Stands on the   *)
(* invariants of ReinviteProofs.                                           *)
(***************************************************************************)
EXTENDS ReinviteProofs

\* The SSuT makes no mistake, and the class can pass.
Clean == scn.fault = "none" /\ scn.cls # "reinv_adelay"

Asker == Reinviter(scn.cls)
Answerer == Other(Asker)
Holds == scn.cls = "reinv_onhold"

\* Time is before every hang-up but Alice's of reinv_onhold, who comes back.
Room(time) ==
    \A q \in Sides : \/ q = "alice" /\ Holds
                     \/ \A u \in side[q].timers : u.cb = "disconnect" => time < u.at

\* What takes place after an answer to a re-INVITE: the SSuT misses the ACK, or
\* Alice waits, sends another one and is answered.
Spare == (IF scn.cls = "reinv_bad_ack" THEN 3299 ELSE 0) + 217 * Len(alice.sched)

Idle == side[Asker].done /\ ~side[Asker].busy

\* Bob's answer is the first that Alice hears, and she hears it early.
Rung ==
    /\ alice.ua # "ringing" => alice.connect
    /\ bob.connect => ssut.leg # "calling"
    /\ bob.connect /\ alice.ua = "ringing" =>
          /\ net["alice"] # <<>> /\ Head(net["alice"]).kind = "answer" /\ ssut.leg = "up"
          /\ Head(net["alice"]).at <= AnswerIval(scn.cls) + 99
          /\ \A u \in bob.timers : u.cb = "disconnect" =>
                 Head(net["alice"]).at + DisconnectIval("bob", scn.cls) - 99 <= u.at

\* There is always something to come, until all is done.
Stage ==
    ssut.leg # "over" =>
        \/ Asker = "alice" /\ alice.ua = "ringing"
        \/ Asks(Asker) # {} \/ ~No(net[Answerer], Offer) \/ ~No(net[Asker], Reply)
        \/ Idle /\ alice.sched = <<>>

\* The call ends when all is done, or as it is refused.
Settled ==
    ssut.leg = "over" =>
        /\ Asks(Asker) = {}
        /\ \/ Left(side[Asker]) \/ Idle
           \/ scn.cls \in Refused /\ ~No(net[Asker], Reply)
        /\ Holds => OnHoldOver(alice)

Refusing ==
    ssut.refused =>
        /\ scn.cls \in Refused /\ Asks(Asker) = {}
        /\ side[Asker].done \/ ~No(net[Asker], Reply)

\* Every re-INVITE is answered as it should be.
Proper ==
    /\ scn.cls \in Refused => No(net[Asker], {"200"})
    /\ scn.cls \notin Refused => No(net[Asker], {"refuse"})
    /\ \A q \in Sides : \A m : In(m, net[q]) /\ m.kind = "200" => m.body # "raw"
    /\ scn.cls = "reinv_brkn2" => No(net[Answerer], Offer)

Once ==
    ~Holds => /\ alice.sched = <<>>
              /\ side[Asker].done => Asks(Asker) = {} /\ ~side[Asker].busy

Latest == IF Asker = "bob" THEN 600 ELSE AnswerIval(scn.cls) + 99 + ReinviteIval(scn.cls)

\* What is to come fits in before the hang-ups.
Timely ==
    /\ \A t \in Asks(Asker) :
           /\ Room(t.at + 198 + Spare) /\ (Asker = "bob" => t.at = 600)
           /\ Holds \/ t.at <= Latest
    /\ \A m : In(m, net[Answerer]) /\ m.kind \in Offer =>
           Room(m.at + 99 + Spare) /\ (Holds \/ m.at <= Latest + 99)
    /\ \A m : In(m, net[Asker]) /\ m.kind \in Reply =>
           Room(m.at + Spare) /\ (Holds \/ m.at <= Latest + 198)

\* The SSuT gives up waiting for Alice's ACK, and does so before she does.
AckDue ==
    /\ ssut.ackby # Never => scn.cls = "reinv_bad_ack" /\ alice.done
    /\ scn.cls = "reinv_bad_ack" =>
           /\ ssut.leg # "over" /\ alice.done =>
                  ssut.ackby # Never /\ now <= ssut.ackby /\ Room(ssut.ackby + 99)
           /\ ssut.leg = "over" =>
                  \/ Left(alice)
                  \/ \E m : /\ In(m, net["alice"]) /\ m.kind = "BYE"
                            /\ \A u \in alice.timers : u.cb = "disconnect" => m.at < u.at

\* reinv_onhold: nothing is left out.
Counting ==
    Holds =>
        /\ \A i \in 1..Len(alice.sched) : alice.sched[i] <= 19
        /\ alice.holds + alice.offs + Len(alice.sched)
               >= (IF alice.ua = "ringing" \/ Asks("alice") # {} THEN 4 ELSE 5)
        /\ alice.holds + alice.offs >= 2
               \/ (alice.holds + alice.offs >= 1 /\ Asks("alice") # {}) => alice.done

\* Bob hears of every hold, before he hears of the end.
Following ==
    Holds =>
        /\ \A i, j \in 1..Len(net["bob"]) :
               i < j /\ net["bob"][i].kind = "BYE" => net["bob"][j].kind # "INVITE"
        /\ ~Left(bob) =>
               /\ No(net["bob"], Offer) => bob.holds = alice.holds /\ bob.offs = alice.offs
               /\ \A m : In(m, net["bob"]) /\ m.kind \in Offer =>
                      IF m.body = "hold" THEN bob.holds + 1 = alice.holds /\ bob.offs = alice.offs
                      ELSE bob.holds = alice.holds /\ bob.offs + 1 = alice.offs
        /\ Left(bob) => OnHoldOver(bob)

Unharmed ==
    /\ side[Asker].nerrs = 0
    /\ Left(side[Asker]) => side[Asker].done
    /\ \A q \in Sides : side[q].verdict # Failure

Smooth ==
    /\ Within(net, 99) /\ Rung /\ Stage /\ Settled /\ Refusing /\ Proper /\ Once
    /\ Timely /\ AckDue /\ Counting /\ Following /\ Unharmed
Blameless == Clean => Smooth

Steady == IInv /\ Bounded /\ Ending /\ Clean /\ Smooth
Going == Steady /\ Moved /\ now' = now /\ scn' = scn /\ Delays \subseteq 0..99

LEMMA Roles ==
    ASSUME Typed
    PROVE  /\ Asker \in Sides /\ Answerer \in Sides /\ Asker # Answerer
           /\ Other(Asker) = Answerer /\ Other(Answerer) = Asker
           /\ \A q \in Sides : q = Asker \/ q = Answerer
           /\ "alice" \in Sides /\ "bob" \in Sides
           /\ \/ Asker = "alice" /\ Answerer = "bob"
              \/ Asker = "bob" /\ Answerer = "alice"
           /\ alice = side["alice"] /\ bob = side["bob"]
           /\ Holds \/ scn.cls = "reinv_bad_ack" \/ scn.cls \in Refused => Asker = "alice"
           /\ Asker = Reinviter(scn.cls)
<1>1. Asker \in Sides /\ Asker = Reinviter(scn.cls)
  BY SideTyped, Literals, ReinviteAssumption DEF Asker, Typed
<1>2. Holds \/ scn.cls = "reinv_bad_ack" \/ scn.cls \in Refused => Asker = "alice"
  BY DEF Holds, Asker, Reinviter, Refused
<1>3. QED
  BY <1>1, <1>2 DEF Answerer, Sides, Other, alice, bob

LEMMA SameRoles ==
    ASSUME scn' = scn
    PROVE  /\ Asker' = Asker /\ Answerer' = Answerer /\ (Holds' <=> Holds)
           /\ Latest' = Latest
BY DEF Asker, Answerer, Holds, Latest

LEMMA Parts ==
    ASSUME Steady
    PROVE  /\ Typed /\ Sane /\ Punctual /\ Knows /\ Prompt /\ Begun /\ OneAtATime /\ Counted
           /\ Faultless /\ Summoned /\ Busy /\ BadAsks /\ Holding /\ Drawn
           /\ BobsTimers /\ Clean
           /\ Within(net, 99) /\ Rung /\ Stage /\ Settled /\ Refusing /\ Proper /\ Once
           /\ Timely /\ AckDue /\ Counting /\ Following /\ Unharmed
           /\ InTurn(Asker, Answerer)
BY Roles DEF Steady, IInv, Bounded, Ending, Smooth, OneAtATime

\* What is due is due now.
LEMMA DueNow ==
    ASSUME Steady, NEW q \in Sides
    PROVE  /\ now \in Nat
           /\ \A u \in side[q].timers : u.at \in Nat /\ now <= u.at
           /\ \A m : In(m, net[q]) => m \in MsgShape /\ m.at \in Nat /\ now <= m.at
           /\ \A kind : Arrives(q, kind) =>
                  /\ In(Head(net[q]), net[q]) /\ Head(net[q]).at = now
                  /\ Head(net[q]).kind = kind
<1>1. Typed /\ Punctual
  BY Parts
<1>2. now \in Nat /\ net[q] \in Seq(MsgShape) /\ side[q] \in SideShape
  BY <1>1, SideTyped
<1>3. \A u \in side[q].timers : u.at \in Nat /\ now <= u.at
  BY <1>1, <1>2 DEF Punctual, SideShape, TimerShape
<1>4. \A m : In(m, net[q]) => m \in MsgShape /\ m.at \in Nat /\ now <= m.at
  BY <1>1, InTyped
<1>5. \A kind : Arrives(q, kind) =>
          In(Head(net[q]), net[q]) /\ Head(net[q]).at = now /\ Head(net[q]).kind = kind
  BY <1>2, <1>4, TailIn DEF Arrives
<1>6. QED
  BY <1>2, <1>3, <1>4, <1>5

LEMMA RoomLess ==
    ASSUME Typed, NEW s \in Nat, NEW t \in Nat, s <= t, Room(t)
    PROVE  Room(s)
<1>1. \A q \in Sides : \A u \in side[q].timers : u.at \in Nat
  BY SideTyped DEF SideShape, TimerShape
<1>2. QED
  BY <1>1 DEF Room

\* No hang-up before its time.
LEMMA RoomOver ==
    ASSUME Steady, NEW q \in Sides, NEW u, HangDone(q, u), ~(q = "alice" /\ Holds),
           NEW t \in Nat, now <= t
    PROVE  ~Room(t)
<1>1. u \in side[q].timers /\ u.cb = "disconnect" /\ now >= u.at
  BY DEF HangDone
<1>2. u.at \in Nat /\ now \in Nat
  BY <1>1, DueNow
<1>3. QED
  BY <1>1, <1>2 DEF Room

LEMMA SpareNat ==
    ASSUME Steady
    PROVE  Spare \in Nat /\ Len(alice.sched) \in Nat /\ alice.sched \in Seq(Nat)
<1>1. alice.sched \in Seq(Nat)
  <2>1. side["alice"] \in SideShape /\ alice = side["alice"]
    BY Parts, Roles, SideTyped
  <2>2. QED
    BY <2>1 DEF SideShape
<1>2. Len(alice.sched) \in Nat
  BY <1>1
<1> DEFINE len == Len(alice.sched)
<1>3. 217 * len \in Nat
  <2> HIDE DEF len
  <2>1. len \in Nat
    BY <1>2 DEF len
  <2>2. QED
    BY <2>1
<1> DEFINE base == IF scn.cls = "reinv_bad_ack" THEN 3299 ELSE 0
<1>4. base \in Nat
  OBVIOUS
<1>5. Spare = base + 217 * len
  BY DEF Spare
<1>6. Spare \in Nat
  <2> HIDE DEF len, base
  <2>1. QED
    BY <1>3, <1>4, <1>5
<1>7. QED
  BY <1>1, <1>2, <1>6

\* Before Alice hears of Bob's answer no re-INVITE of hers is under way.
LEMMA StillRinging ==
    ASSUME Steady, alice.ua = "ringing"
    PROVE  /\ ~alice.done /\ ~alice.busy /\ alice.timers = {} /\ ~Left(alice)
           /\ alice.holds = 0 /\ alice.offs = 0
           /\ Asker = "alice" =>
                  Asks(Asker) = {} /\ No(net[Answerer], Offer) /\ No(net[Asker], Reply)
<1>1. Begun /\ InTurn(Asker, Answerer) /\ Typed
  BY Parts
<1>2. alice = side["alice"]
  BY DEF alice
<1>3. QED
  BY <1>1, <1>2 DEF Begun, InTurn, Left, Asks

\* A hang-up finds nothing under way.
LEMMA NothingToCome ==
    ASSUME Steady, NEW q \in Sides, NEW u, HangDone(q, u), ~(q = "alice" /\ Holds)
    PROVE  /\ alice.ua # "ringing" /\ Asks(Asker) = {}
           /\ No(net[Answerer], Offer) /\ No(net[Asker], Reply)
<1>1. /\ Typed /\ Begun /\ Rung /\ Timely /\ now \in Nat
      /\ Asker \in Sides /\ Answerer \in Sides /\ "bob" \in Sides /\ "alice" \in Sides
      /\ alice = side["alice"] /\ bob = side["bob"] /\ (q = "alice" \/ q = "bob")
  BY Parts, Roles, DueNow DEF Sides
<1>2. Spare \in Nat
  BY SpareNat
<1>3. ASSUME NEW t \in Asks(Asker)
      PROVE  FALSE
  <2>1. t.at \in Nat /\ now <= t.at
    BY <1>1, DueNow DEF Asks
  <2>2. Room(t.at + 198 + Spare) /\ t.at + 198 + Spare \in Nat /\ now <= t.at + 198 + Spare
    BY <1>1, <1>2, <2>1 DEF Timely
  <2>3. QED
    BY <2>2, RoomOver
<1>4. ASSUME NEW m, In(m, net[Answerer]), m.kind \in Offer
      PROVE  FALSE
  <2>1. m.at \in Nat /\ now <= m.at
    BY <1>1, <1>4, DueNow
  <2>2. Room(m.at + 99 + Spare) /\ m.at + 99 + Spare \in Nat /\ now <= m.at + 99 + Spare
    BY <1>1, <1>2, <1>4, <2>1 DEF Timely
  <2>3. QED
    BY <2>2, RoomOver
<1>5. ASSUME NEW m, In(m, net[Asker]), m.kind \in Reply
      PROVE  FALSE
  <2>1. m.at \in Nat /\ now <= m.at
    BY <1>1, <1>5, DueNow
  <2>2. Room(m.at + Spare) /\ m.at + Spare \in Nat /\ now <= m.at + Spare
    BY <1>1, <1>2, <1>5, <2>1 DEF Timely
  <2>3. QED
    BY <2>2, RoomOver
<1>6. ASSUME alice.ua = "ringing"
      PROVE  FALSE
  <2>1. u \in side[q].timers /\ u.cb = "disconnect" /\ now >= u.at /\ u.at \in Nat
    BY DueNow DEF HangDone
  <2>2. q = "bob"
    BY <1>1, <1>6, <2>1, StillRinging
  <2>3. bob.connect
    BY <1>1, <2>1, <2>2 DEF Begun
  <2>4. /\ net["alice"] # <<>>
        /\ Head(net["alice"]).at + DisconnectIval("bob", scn.cls) - 99 <= u.at
    BY <1>1, <1>6, <2>1, <2>2, <2>3 DEF Rung
  <2>5. In(Head(net["alice"]), net["alice"])
    BY <1>1, <2>4, SideTyped, TailIn
  <2>6. Head(net["alice"]).at \in Nat /\ now <= Head(net["alice"]).at
    BY <1>1, <2>5, DueNow
  <2>7. DisconnectIval("bob", scn.cls) \in Nat /\ DisconnectIval("bob", scn.cls) > 99
    BY DEF DisconnectIval
  <2>8. QED
    BY <1>1, <2>1, <2>4, <2>6, <2>7
<1>7. QED
  BY <1>3, <1>4, <1>5, <1>6 DEF No, In

\* Neither does the media time-out.
LEMMA SilenceIsLate ==
    ASSUME Steady, ssut.leg = "up", now >= ssut.since + MediaTimeout
    PROVE  /\ alice.ua # "ringing" /\ Asks(Asker) = {}
           /\ No(net[Answerer], Offer) /\ No(net[Asker], Reply)
<1>1. /\ Typed /\ Begun /\ Rung /\ Timely /\ now \in Nat /\ Punctual /\ Knows /\ BobsTimers
      /\ Asker \in Sides /\ Answerer \in Sides /\ "bob" \in Sides /\ "alice" \in Sides
      /\ alice = side["alice"] /\ bob = side["bob"] /\ ssut.since \in Nat
      /\ scn.cls \in ReinviteClasses
  BY Parts, Roles, DueNow, SideTyped DEF Typed, SsutShape
<1>2. now >= 4500 /\ now <= BobLeaves
  BY <1>1, BeforeTheEnd DEF MediaTimeout
<1>3. scn.cls = "reinv_bad_ack"
  BY <1>1, <1>2 DEF BobLeaves, AnswerIval, DisconnectIval
<1>4. /\ Latest <= 299 /\ Latest \in Nat /\ ~Holds /\ AnswerIval(scn.cls) = 100
      /\ Asker = "alice"
  BY <1>3 DEF Latest, Asker, Reinviter, AnswerIval, ReinviteIval, Holds, Refused
<1>5. ASSUME NEW t \in Asks(Asker)
      PROVE  FALSE
  <2>1. t.at \in Nat /\ now <= t.at
    BY <1>1, DueNow DEF Asks
  <2>2. QED
    BY <1>1, <1>2, <1>4, <2>1 DEF Timely
<1>6. ASSUME NEW m, In(m, net[Answerer]), m.kind \in Offer
      PROVE  FALSE
  <2>1. m.at \in Nat /\ now <= m.at
    BY <1>1, <1>6, DueNow
  <2>2. QED
    BY <1>1, <1>2, <1>4, <1>6, <2>1 DEF Timely
<1>7. ASSUME NEW m, In(m, net[Asker]), m.kind \in Reply
      PROVE  FALSE
  <2>1. m.at \in Nat /\ now <= m.at
    BY <1>1, <1>7, DueNow
  <2>2. QED
    BY <1>1, <1>2, <1>4, <1>7, <2>1 DEF Timely
<1>8. ASSUME alice.ua = "ringing"
      PROVE  FALSE
  <2>1. bob.connect
    BY <1>1 DEF Begun
  <2>2. net["alice"] # <<>> /\ Head(net["alice"]).at <= 199
    BY <1>1, <1>4, <1>8, <2>1 DEF Rung
  <2>3. In(Head(net["alice"]), net["alice"])
    BY <1>1, <2>2, SideTyped, TailIn
  <2>4. QED
    BY <1>1, <1>2, <2>2, <2>3, DueNow
<1>9. QED
  BY <1>5, <1>6, <1>7, <1>8 DEF No, In

\* When the call ends everything is done, or refused.
LEMMA EndsWell ==
    ASSUME Going, ssut.leg # "over", ssut'.leg = "over"
    PROVE  /\ alice.ua # "ringing"
           /\ \/ ssut.refused
              \/ Idle /\ alice.sched = <<>> /\ Asks(Asker) = {} /\ No(net[Answerer], Offer)
              \/ Holds /\ OnHoldOver(alice) /\ Left(side'["alice"])
<1>1. Steady /\ Typed /\ Sane /\ Knows /\ Stage /\ Refusing /\ AckDue /\ Once /\ Moved
      /\ InTurn(Asker, Answerer) /\ Clean
  BY Parts DEF Going
<1>2. ASSUME alice.ua # "ringing", Asks(Asker) = {},
             No(net[Answerer], Offer), No(net[Asker], Reply)
      PROVE  Idle /\ alice.sched = <<>>
  BY <1>1, <1>2 DEF Stage
<1>3. ASSUME NEW p \in Sides, HangsUp(p), Left(side'[p])
      PROVE  /\ alice.ua # "ringing"
             /\ \/ Idle /\ alice.sched = <<>> /\ Asks(Asker) = {} /\ No(net[Answerer], Offer)
                \/ Holds /\ OnHoldOver(alice) /\ Left(side'["alice"])
  <2>1. PICK u : HangDone(p, u) /\ ~Polls(p)
    BY <1>3 DEF HangsUp
  <2>2. CASE p = "alice" /\ Holds
    <3>1. OnHoldOver(alice)
      BY <2>1, <2>2 DEF Polls, Holds
    <3>2. alice.ua # "ringing"
      BY <1>1, <2>1, <2>2, StillRinging DEF HangDone, alice
    <3>3. QED
      BY <1>3, <2>2, <3>1, <3>2
  <2>3. CASE ~(p = "alice" /\ Holds)
    BY <1>1, <1>2, <2>1, <2>3, NothingToCome
  <2>4. QED
    BY <2>2, <2>3
<1>4. ASSUME NEW blame, ByesDone(blame), Reason(blame)
      PROVE  /\ alice.ua # "ringing"
             /\ \/ ssut.refused
                \/ Idle /\ alice.sched = <<>> /\ Asks(Asker) = {} /\ No(net[Answerer], Offer)
  <2>1. CASE ssut.ackby # Never
    <3>1. scn.cls = "reinv_bad_ack" /\ alice.done
      BY <1>1, <2>1 DEF AckDue
    <3>2. Asker = "alice" /\ alice = side["alice"] /\ ~Holds
      BY <1>1, <3>1, Roles DEF Holds
    <3>3. Idle /\ alice.sched = <<>> /\ Asks(Asker) = {}
      BY <1>1, <3>1, <3>2 DEF Once, Idle
    <3>4. alice.ua # "ringing"
      BY <1>1, <3>1, StillRinging
    <3>5. No(net[Answerer], Offer)
      <4>1. Busy /\ Asker \in Sides
        BY <1>1, Parts, Roles
      <4>2. QED
        BY <1>1, <3>3, <4>1 DEF InTurn, Busy, Knows, Idle
    <3>6. QED
      BY <3>3, <3>4, <3>5
  <2>2. CASE now >= ssut.since + MediaTimeout
    <3>1. ssut.leg = "up"
      BY <1>4 DEF ByesDone
    <3>2. QED
      BY <1>1, <1>2, <2>2, <3>1, SilenceIsLate
  <2>3. CASE ssut.refused
    <3>1. scn.cls \in Refused /\ (side[Asker].done \/ ~No(net[Asker], Reply))
      BY <1>1, <2>3 DEF Refusing
    <3>2. Asker = "alice" /\ alice = side["alice"]
      BY <1>1, <3>1, Roles
    <3>3. QED
      BY <1>1, <2>3, <3>1, <3>2, StillRinging
  <2>4. QED
    BY <1>1, <1>4, <2>1, <2>2, <2>3 DEF Reason, Clean
<1>5. QED
  BY <1>1, <1>3, <1>4, CallEnds

\* A re-INVITE finds the call up and the other side waiting.
LEMMA AskEvent ==
    ASSUME Steady, NEW q \in Sides, NEW t, AskDone(q, t)
    PROVE  /\ q = Asker /\ t \in Asks(Asker) /\ t.at = now /\ Turn(Asker)
           /\ MayReinvite(side[Asker]) /\ ssut.leg # "over" /\ ~Left(side[Asker])
           /\ side'[Asker].ua = "updating" /\ side'[Asker].busy
           /\ \A u \in side'[Asker].timers : u.cb \notin {"reinvite", "off_hold"}
           /\ side'[Asker].timers = side[Asker].timers \ {t}
           /\ Same(side'[Asker], side[Asker], {"timers", "offs", "holds", "ua", "busy"})
           /\ \/ /\ Sent(net, Answerer, "INVITE", AskBody(t)) /\ AskBody(t) # "broken"
                 /\ ssut' = [ssut EXCEPT !.since = now]
              \/ /\ Sent(net, Asker, "refuse", "none") /\ scn.cls = "reinv_brkn2"
                 /\ ssut' = [ssut EXCEPT !.refused = TRUE]
<1>1. /\ Typed /\ Sane /\ Begun /\ Rung /\ Settled /\ Timely /\ Knows /\ BobsTimers /\ Clean
      /\ InTurn(Asker, Answerer) /\ Asker = Reinviter(scn.cls) /\ Other(Asker) = Answerer
      /\ Asker \in Sides /\ alice = side["alice"] /\ bob = side["bob"]
      /\ Asker = "alice" \/ Asker = "bob"
      /\ net \in Nets
  BY Parts, Roles, SideTyped
<1>2. q = Asker /\ t \in Asks(Asker) /\ now >= t.at /\ Turn(Asker)
  BY <1>1 DEF AskDone
<1>3. t.at = now
  <2>1. t.at \in Nat /\ now <= t.at /\ now \in Nat
    BY <1>1, <1>2, DueNow DEF Asks
  <2>2. QED
    BY <1>2, <2>1
<1>4. ssut.leg # "over"
  BY <1>1, <1>2 DEF Settled
<1>5. ~Left(side[Asker]) /\ ~side[Asker].disconnect
  BY <1>1, <1>4 DEF Knows, Sane
<1>6. side[Asker].connect
  <2>1. CASE Asker = "alice"
    <3>1. alice.timers # {}
      BY <1>1, <1>2, <2>1 DEF Asks
    <3>2. QED
      BY <1>1, <2>1, <3>1 DEF Begun, Rung
  <2>2. CASE Asker = "bob"
    <3>1. now = 600 /\ AnswerIval(scn.cls) <= 500 /\ AnswerIval(scn.cls) \in Nat
      BY <1>1, <1>2, <1>3, <2>2 DEF Timely, AnswerIval
    <3>2. ASSUME ~bob.connect
          PROVE  FALSE
      <4>1. PICK u \in bob.timers : u.cb = "connect" /\ u.at <= AnswerIval(scn.cls)
        BY <1>1, <3>2 DEF BobsTimers
      <4>2. u.at \in Nat /\ now <= u.at
        BY <1>1, <2>2, <4>1, DueNow
      <4>3. QED
        BY <3>1, <4>1, <4>2
    <3>3. QED
      BY <1>1, <2>2, <3>2
  <2>3. QED
    BY <1>1, <2>1, <2>2
<1>7. MayReinvite(side[Asker])
  BY <1>5, <1>6 DEF MayReinvite
<1>8. /\ side'[Asker].ua = "updating" /\ side'[Asker].busy
      /\ Same(side'[Asker], side[Asker], {"timers", "offs", "holds", "ua", "busy"})
      /\ side'[Asker].timers = side[Asker].timers \ {t}
      /\ SsutFrom(Asker, net, "INVITE", AskBody(t)) /\ AskBody(t) \in Bodies
      /\ AskBody(t) = "broken" => scn.cls = "reinv_brkn2"
  BY <1>1, <1>2, <1>7 DEF AskDone, Clean
<1>9. \A u \in side'[Asker].timers : u.cb \notin {"reinvite", "off_hold"}
  <2>1. Single(Asks(Asker))
    BY <1>1 DEF InTurn
  <2>2. \A u \in Asks(Asker) : u = t
    BY <1>2, <2>1 DEF Single
  <2>3. QED
    BY <1>8, <2>2 DEF Asks
<1>10. \/ /\ Sent(net, Answerer, "INVITE", AskBody(t)) /\ AskBody(t) # "broken"
          /\ ssut' = [ssut EXCEPT !.since = now]
       \/ /\ Sent(net, Asker, "refuse", "none") /\ scn.cls = "reinv_brkn2"
          /\ ssut' = [ssut EXCEPT !.refused = TRUE]
  BY <1>1, <1>4, <1>8, SsutInvites DEF Clean
<1>11. QED
  BY <1>2, <1>3, <1>4, <1>5, <1>7, <1>8, <1>9, <1>10

\* A re-INVITE that reaches the other side is answered.
LEMMA ReplyEvent ==
    ASSUME Steady, NEW q \in Sides, InviteDone(q)
    PROVE  /\ q = Answerer /\ Turn(Answerer) /\ Arrives(Answerer, "INVITE")
           /\ ssut.leg # "over" =>
                  /\ ~Left(side[Answerer]) /\ side[Asker].ua = "updating"
                  /\ \/ /\ Sent(Taken(Answerer), Asker, "refuse", "none")
                        /\ ssut' = [ssut EXCEPT !.refused = TRUE]
                        /\ scn.cls \in Refused
                     \/ /\ \E b : Sent(Taken(Answerer), Asker, "200", b) /\ b # "raw"
                        /\ ssut' = [ssut EXCEPT !.since = now, !.accepted = TRUE]
                        /\ scn.cls \notin Refused
<1>1. /\ Typed /\ Sane /\ Knows /\ Clean /\ Proper
      /\ InTurn(Asker, Answerer) /\ Other(Answerer) = Asker
      /\ Asker \in Sides /\ Answerer \in Sides /\ net \in Nets
      /\ \A p \in Sides : p = Asker \/ p = Answerer
  BY Parts, Roles, SideTyped
<1>2. Arrives(q, "INVITE") /\ Turn(q)
  BY DEF InviteDone
<1>3. In(Head(net[q]), net[q]) /\ Head(net[q]).kind = "INVITE"
  BY <1>2, DueNow
<1>4. ~No(net[q], Offer)
  BY <1>3 DEF No, In, Offer
<1>5. q = Answerer
  BY <1>1, <1>4 DEF InTurn
<1>6. ASSUME ssut.leg # "over"
      PROVE  /\ ~Left(side[Answerer]) /\ side[Asker].ua = "updating"
             /\ \/ /\ Sent(Taken(Answerer), Asker, "refuse", "none")
                   /\ ssut' = [ssut EXCEPT !.refused = TRUE]
                   /\ scn.cls \in Refused
                \/ /\ \E b : Sent(Taken(Answerer), Asker, "200", b) /\ b # "raw"
                   /\ ssut' = [ssut EXCEPT !.since = now, !.accepted = TRUE]
                   /\ scn.cls \notin Refused
  <2>1. ~Left(side[Answerer]) /\ ~Left(side[Asker])
    BY <1>1, <1>6 DEF Knows
  <2>2. side[Asker].ua = "updating"
    BY <1>1, <1>4, <1>5, <2>1 DEF InTurn
  <2>3. Taken(Answerer) \in Nets
    BY <1>1, <1>2, <1>5, TakenKinds
  <2>4. scn.cls # "reinv_brkn2"
    BY <1>1, <1>4, <1>5 DEF Proper
  <2>5. CASE scn.cls = "reinv_fail"
    <3>1. SsutFrom(Answerer, Taken(Answerer), "refuse", "none")
      BY <1>5, <2>1, <2>5 DEF InviteDone
    <3>2. QED
      BY <1>1, <1>6, <2>1, <2>2, <2>3, <2>5, <3>1, SsutRefuses DEF Refused
  <2>6. CASE scn.cls = "reinv_brkn1"
    <3>1. SsutFrom(Answerer, Taken(Answerer), "200", "broken") /\ "broken" \in Bodies
      BY <1>5, <2>1, <2>6 DEF InviteDone, Bodies
    <3>2. QED
      BY <1>1, <1>6, <2>1, <2>2, <2>3, <2>6, <3>1, SsutAccepts DEF Refused, Clean
  <2>7. CASE scn.cls \notin Refused
    <3>1. SsutFrom(Answerer, Taken(Answerer), "200", "plain") /\ "plain" \in Bodies
      BY <1>1, <1>5, <2>1, <2>7 DEF InviteDone, Bodies, Refused, Clean
    <3>2. QED
      BY <1>1, <1>6, <2>1, <2>2, <2>3, <2>7, <3>1, SsutAccepts DEF Clean
  <2>8. QED
    BY <2>4, <2>5, <2>6, <2>7 DEF Refused
<1>7. QED
  BY <1>2, <1>5, <1>6

\* An answer ends a re-INVITE well.
LEMMA OkEvent ==
    ASSUME Steady, NEW q \in Sides, OkDone(q)
    PROVE  /\ q = Asker /\ scn.cls \notin Refused /\ Turn(Asker) /\ Arrives(Asker, "200")
           /\ side[Asker].ua = "updating" \/ Left(side[Asker])
           /\ Left(side[Asker]) => side'[Asker] = side[Asker] /\ ssut' = ssut
           /\ ~Left(side[Asker]) =>
                  /\ side'[Asker].ua = "up" /\ ~side'[Asker].busy /\ side'[Asker].done
                  /\ side'[Asker].nerrs = side[Asker].nerrs
                  /\ IF Holds
                     THEN /\ HoldDone(side'[Asker], side[Asker])
                          /\ Same(side'[Asker], side[Asker],
                                  {"ua", "busy", "done", "timers", "sched"})
                     ELSE Same(side'[Asker], side[Asker], {"ua", "busy", "done"})
<1>1. /\ Typed /\ Proper /\ InTurn(Asker, Answerer) /\ Asker = Reinviter(scn.cls)
      /\ Asker \in Sides /\ Answerer \in Sides
      /\ \A p \in Sides : p = Asker \/ p = Answerer
      /\ scn.cls \in Refused => Asker = "alice" /\ (Holds => Asker = "alice")
  BY Parts, Roles
<1>2. Arrives(q, "200") /\ Turn(q)
  BY DEF OkDone
<1>3. In(Head(net[q]), net[q]) /\ Head(net[q]).kind = "200"
  BY <1>2, DueNow
<1>4. ~No(net[q], Reply) /\ ~No(net[q], {"200"}) /\ Head(net[q]).body # "raw"
  BY <1>1, <1>3 DEF No, In, Reply, Proper
<1>5. q = Asker /\ scn.cls \notin Refused /\ (side[Asker].ua = "updating" \/ Left(side[Asker]))
  BY <1>1, <1>4 DEF InTurn, Proper
<1>6. CASE Left(side[Asker])
  BY <1>2, <1>5, <1>6 DEF OkDone, Left
<1>7. CASE ~Left(side[Asker])
  <2>1. Answered(Asker, Head(net[q]).body)
    BY <1>5, <1>7 DEF OkDone, Left
  <2>2. ~(Asker = "alice" /\ scn.cls = "nated_contact")
    BY <1>1 DEF Reinviter
  <2>3. Holds => Asker = "alice"
    BY <1>1, Roles
  <2>4. /\ side'[Asker].ua = "up" /\ ~side'[Asker].busy /\ side'[Asker].done
        /\ IF Holds
           THEN /\ HoldDone(side'[Asker], side[Asker])
                /\ Same(side'[Asker], side[Asker], {"ua", "busy", "done", "timers", "sched"})
           ELSE Same(side'[Asker], side[Asker], {"ua", "busy", "done"})
    BY <1>4, <1>5, <2>1, <2>2, <2>3 DEF Answered, Holds
  <2>5. side'[Asker].nerrs = side[Asker].nerrs
    BY <2>4 DEF Same, Fields
  <2>6. QED
    BY <1>2, <1>5, <1>7, <2>4, <2>5
<1>8. QED
  BY <1>6, <1>7

LEMMA RefusalEvent ==
    ASSUME Steady, NEW q \in Sides, RefusalDone(q)
    PROVE  /\ q = Asker /\ scn.cls \in Refused /\ Turn(Asker) /\ Arrives(Asker, "refuse")
           /\ Takes(Asker)
           /\ side[Asker].ua = "updating" \/ Left(side[Asker])
           /\ Left(side[Asker]) => side'[Asker] = side[Asker]
           /\ ~Left(side[Asker]) =>
                  /\ side'[Asker].ua = "up" /\ ~side'[Asker].busy /\ side'[Asker].done
                  /\ Same(side'[Asker], side[Asker], {"ua", "busy", "done", "nerrs"})
                  /\ side'[Asker].nerrs = side[Asker].nerrs
<1>1. /\ Typed /\ Proper /\ Busy /\ InTurn(Asker, Answerer) /\ Asker = Reinviter(scn.cls)
      /\ Asker \in Sides /\ Answerer \in Sides
      /\ \A p \in Sides : p = Asker \/ p = Answerer
      /\ scn.cls \in Refused => Asker = "alice"
  BY Parts, Roles
<1>2. Arrives(q, "refuse") /\ Turn(q) /\ Takes(q)
  BY DEF RefusalDone
<1>3. In(Head(net[q]), net[q]) /\ Head(net[q]).kind = "refuse"
  BY <1>2, DueNow
<1>4. ~No(net[q], Reply) /\ ~No(net[q], {"refuse"})
  BY <1>1, <1>3 DEF No, In, Reply, Proper
<1>5. q = Asker /\ scn.cls \in Refused /\ (side[Asker].ua = "updating" \/ Left(side[Asker]))
  BY <1>1, <1>4 DEF InTurn, Proper
<1>6. CASE Left(side[Asker])
  BY <1>2, <1>5, <1>6 DEF RefusalDone, Left
<1>7. CASE ~Left(side[Asker])
  <2>1. side[Asker].ua = "updating" /\ side[Asker].busy
    BY <1>1, <1>5, <1>7 DEF Busy
  <2>2. QED
    BY <1>1, <1>2, <1>5, <1>7, <2>1 DEF RefusalDone, FailDone
<1>8. QED
  BY <1>6, <1>7

\* A call to disconnect() is made once on either side, and again while Alice of
\* reinv_onhold polls.
LEMMA HangUpsSet ==
    ASSUME Going, NEW q \in Sides, NEW u \in side'[q].timers, u.cb = "disconnect"
    PROVE  \/ u \in side[q].timers
           \/ q = "bob" /\ ~bob.connect /\ u.at = now + DisconnectIval("bob", scn.cls)
           \/ /\ q = "alice" /\ alice.ua = "ringing" /\ ConnectedDone
              /\ u.at = now + DisconnectIval("alice", scn.cls)
           \/ q = "alice" /\ Holds
<1>1. Typed /\ Moved /\ Clean
  BY Parts DEF Going
<1>2. u \in side[q].timers \/ Sets(q, u)
  BY <1>1, TimerSet
<1>3. \A cb, ival : Timer(cb, ival).cb = cb /\ Timer(cb, ival).at = now + ival
  BY DEF Timer
<1>4. QED
  BY <1>1, <1>2, <1>3 DEF Sets, Polls, Holds, Clean

RoomNext(time) ==
    \A q \in Sides : \/ q = "alice" /\ Holds
                     \/ \A u \in side'[q].timers : u.cb = "disconnect" => time < u.at

LEMMA RoomStays ==
    ASSUME Going, NEW time \in Nat, Room(time),
           ~bob.connect => time < now + DisconnectIval("bob", scn.cls),
           alice.ua = "ringing" /\ ConnectedDone /\ ~Holds
               => time < now + DisconnectIval("alice", scn.cls)
    PROVE  RoomNext(time)
<1>1. SUFFICES ASSUME NEW q \in Sides, ~(q = "alice" /\ Holds),
                      NEW u \in side'[q].timers, u.cb = "disconnect"
               PROVE  time < u.at
  BY DEF RoomNext
<1>2. CASE u \in side[q].timers
  BY <1>1, <1>2 DEF Room
<1>3. QED
  BY <1>1, <1>2, HangUpsSet

\* How the session may change.
LEMMA SessionSteps ==
    ASSUME Going
    PROVE  /\ ssut.leg = "over" => ssut'.leg = "over"
           /\ ssut.leg = "up" => ssut'.leg \in {"up", "over"}
           /\ \/ ssut'.refused = ssut.refused
              \/ /\ ssut' = [ssut EXCEPT !.refused = TRUE]
                 /\ \/ \E q \in Sides : \E t : AskDone(q, t)
                    \/ ssut.leg # "over" /\ \E q \in Sides : InviteDone(q)
           /\ \/ ssut'.ackby = ssut.ackby
              \/ ssut'.leg = "over" /\ ssut'.ackby = Never
              \/ \E q \in Sides : OkDone(q) /\ ssut' = [ssut EXCEPT !.ackby = now + AckTimeout]
<1>1. /\ Typed /\ Sane /\ Prompt /\ Moved /\ Clean /\ ssut \in SsutShape /\ now \in Nat
      /\ \A q \in Sides : Other(q) \in Sides
  BY Parts, OtherSide DEF Going, Typed
<1>2. SessionMoved
  BY <1>1, NetJoins
<1>3. CASE ssut' = ssut
  BY <1>3, <1>1 DEF SsutShape
<1>4. CASE \E q \in Sides : OkDone(q) /\ ssut' = [ssut EXCEPT !.ackby = now + AckTimeout]
  BY <1>4, <1>1 DEF SsutShape
<1>5. ASSUME NEW q \in Sides, NEW m, Joins(q, m)
      PROVE  \/ ssut' = [ssut EXCEPT !.since = now, !.leg = "up"] /\ ssut.leg # "over"
             \/ ssut' = [ssut EXCEPT !.since = now]
             \/ ssut' = [ssut EXCEPT !.since = now, !.accepted = TRUE]
             \/ ssut' = [ssut EXCEPT !.accepted = TRUE]
             \/ ssut' = ssut
             \/ /\ ssut' = [ssut EXCEPT !.refused = TRUE]
                /\ \/ \E p \in Sides : \E t : AskDone(p, t)
                   \/ ssut.leg # "over" /\ \E p \in Sides : InviteDone(p)
             \/ \E blame : ssut' = Over(blame) /\ ssut.leg # "over"
  <2>1. \A p \in Sides : ~\E t : LateDone(p, t)
    BY <1>1 DEF Prompt, LateDone, Clean
  <2>2. QED
    BY <1>1, <1>5, <2>1 DEF Joins, Cause, AskCause, EchoCause, ReplyCause, EndCause, ByesDone
<1>6. CASE \E q \in Sides : \E m : Joins(q, m)
  BY <1>1, <1>5, <1>6 DEF SsutShape, Over
<1>7. QED
  BY <1>2, <1>3, <1>4, <1>6 DEF SessionMoved

LEMMA RungStep ==
    ASSUME Going
    PROVE  Rung'
<1>1. /\ Steady /\ Typed /\ Sane /\ Prompt /\ Begun /\ Rung /\ BobsTimers /\ Moved /\ Clean
      /\ Within(net, 99) /\ Within(net', 99)
      /\ alice = side["alice"] /\ bob = side["bob"] /\ "alice" \in Sides /\ "bob" \in Sides
      /\ now \in Nat /\ net \in Nets /\ ssut \in SsutShape /\ scn' = scn
      /\ net["alice"] \in Seq(MsgShape)
  BY Parts, Roles, SideTyped, WithinStep DEF Going, Typed
<1>2. ASSUME side'["alice"].ua # "ringing"
      PROVE  side'["alice"].connect
  <2>1. CASE alice.ua # "ringing"
    BY <1>1, <2>1, StaysConnected DEF Rung
  <2>2. CASE alice.ua = "ringing"
    <3>1. alice.timers = {} /\ alice.ua # "ended"
      BY <1>1, <2>2 DEF Begun
    <3>2. net["alice"] # <<>> => Head(net["alice"]).kind = "answer"
      BY <1>1, <2>2 DEF Begun, Rung
    <3>3. Does("alice")
      BY <1>1, <1>2, <2>2, SideDoes
    <3>4. ConnectedDone
      BY <1>1, <3>1, <3>2, <3>3 DEF Does, AskDone, Asks, LateDone, Owed, HangDone, DeadDone,
         InviteDone, OkDone, RefusalDone, ByeDone, Arrives
    <3>5. QED
      BY <2>2, <3>4 DEF ConnectedDone
  <2>3. QED
    BY <2>1, <2>2
<1>3. ASSUME side'["bob"].connect, side'["alice"].ua = "ringing"
      PROVE  /\ net'["alice"] # <<>> /\ Head(net'["alice"]).kind = "answer" /\ ssut'.leg = "up"
             /\ Head(net'["alice"]).at <= AnswerIval(scn.cls) + 99
             /\ \A u \in side'["bob"].timers : u.cb = "disconnect" =>
                    Head(net'["alice"]).at + DisconnectIval("bob", scn.cls) - 99 <= u.at
  <2>1. alice.ua = "ringing"
    BY <1>1, <1>3, StageFrom
  <2>2. CASE ~bob.connect
    <3>1. PICK t : ConnectDone(t)
      BY <1>1, <1>3, <2>2, BeforeTheAnswer
    <3>2. net["alice"] = <<>> /\ ssut.leg # "over" /\ ~bob.disconnect
      BY <1>1, <2>2 DEF Begun, Sane, Left
    <3>3. Sent(net, "alice", "answer", "plain")
          /\ ssut' = [ssut EXCEPT !.since = now, !.leg = "up"]
      BY <1>1, <2>2, <3>1, <3>2, SsutAnswers DEF ConnectDone, Other
    <3>4. PICK m : net' = [net EXCEPT !["alice"] = Append(net["alice"], m)]
                   /\ m.kind = "answer" /\ m \in MsgShape
      BY <3>3 DEF Sent, Behind
    <3>5. net'["alice"] = Append(<<>>, m)
      BY <1>1, <3>2, <3>4 DEF Nets
    <3>6. net'["alice"] # <<>> /\ Head(net'["alice"]) = m /\ In(m, net'["alice"])
      BY <3>5 DEF In
    <3>7. m.at <= now + 99 /\ m.at \in Nat
      BY <1>1, <3>4, <3>6 DEF Within, MsgShape
    <3>8. now <= AnswerIval(scn.cls) /\ AnswerIval(scn.cls) \in Nat
      <4>1. PICK u \in bob.timers : u.cb = "connect" /\ u.at <= AnswerIval(scn.cls)
        BY <1>1, <2>2 DEF BobsTimers
      <4>2. u.at \in Nat /\ now <= u.at
        BY <1>1, <4>1, DueNow
      <4>3. AnswerIval(scn.cls) \in Nat
        BY DEF AnswerIval
      <4>4. QED
        BY <1>1, <4>1, <4>2, <4>3
    <3>9. ASSUME NEW u \in side'["bob"].timers, u.cb = "disconnect"
          PROVE  u.at = now + DisconnectIval("bob", scn.cls)
      <4>1. u \notin bob.timers
        BY <1>1, <2>2, <3>9 DEF Begun
      <4>2. QED
        BY <1>1, <3>9, <4>1, HangUpsSet
    <3>10. DisconnectIval("bob", scn.cls) \in Nat
      BY DEF DisconnectIval
    <3>11. ssut'.leg = "up"
      BY <1>1, <3>3 DEF SsutShape
    <3>12. m.at <= AnswerIval(scn.cls) + 99
      BY <1>1, <3>7, <3>8
    <3>13. ASSUME NEW u \in side'["bob"].timers, u.cb = "disconnect"
           PROVE  m.at + DisconnectIval("bob", scn.cls) - 99 <= u.at
      BY <1>1, <3>7, <3>9, <3>10, <3>13
    <3>14. QED
      BY <3>4, <3>6, <3>11, <3>12, <3>13
  <2>3. CASE bob.connect
    <3>1. /\ net["alice"] # <<>> /\ Head(net["alice"]).kind = "answer" /\ ssut.leg = "up"
          /\ Head(net["alice"]).at <= AnswerIval(scn.cls) + 99
          /\ \A u \in bob.timers : u.cb = "disconnect" =>
                 Head(net["alice"]).at + DisconnectIval("bob", scn.cls) - 99 <= u.at
      BY <1>1, <2>1, <2>3 DEF Rung
    <3>2. net'["alice"] # <<>> /\ Head(net'["alice"]) = Head(net["alice"])
      <4>1. QueueMoved("alice")
        BY <1>1, NetJoins
      <4>2. ~QueueShorter("alice")
        <5>1. ASSUME Hears("alice")
              PROVE  FALSE
          <6>1. ConnectedDone
            BY <3>1, <5>1 DEF Hears, InviteDone, OkDone, RefusalDone, ByeDone, Arrives
          <6>2. QED
            BY <1>3, <2>1, <6>1 DEF ConnectedDone
        <5>2. QED
          BY <5>1 DEF QueueShorter
      <4>3. ASSUME NEW m \in MsgShape, net'["alice"] = Append(net["alice"], m)
            PROVE  net'["alice"] # <<>> /\ Head(net'["alice"]) = Head(net["alice"])
        BY <1>1, <3>1, <4>3
      <4>4. QED
        BY <3>1, <4>1, <4>2, <4>3 DEF QueueMoved, QueueKept, Joins, Behind
    <3>3. ssut'.leg = "up"
      <4>1. ssut'.leg # "over"
        BY <2>1, <3>1, EndsWell
      <4>2. QED
        BY <3>1, <4>1, SessionSteps
    <3>4. ASSUME NEW u \in side'["bob"].timers, u.cb = "disconnect"
          PROVE  u \in bob.timers
      BY <1>1, <2>3, <3>4, HangUpsSet
    <3>5. QED
      BY <3>1, <3>2, <3>3, <3>4
  <2>4. QED
    BY <2>2, <2>3
<1>4. ASSUME side'["bob"].connect
      PROVE  ssut'.leg # "calling"
  <2>1. CASE ~bob.connect
    <3>1. side'["alice"].ua # "ringing" => FALSE
      <4>1. alice.ua = "ringing" /\ ~(net["alice"] # <<>>) /\ alice.timers = {}
        BY <1>1, <2>1 DEF Begun
      <4>2. ~Does("alice")
        BY <1>1, <4>1 DEF Does, AskDone, Asks, LateDone, Owed, HangDone, DeadDone,
           ConnectedDone, InviteDone, OkDone, RefusalDone, ByeDone, Arrives
      <4>3. QED
        BY <1>1, <4>1, <4>2, SideDoes
    <3>2. QED
      BY <1>3, <1>4, <3>1
  <2>2. CASE bob.connect
    <3>1. ssut.leg = "up" \/ ssut.leg = "over"
      BY <1>1, <2>2 DEF Rung, SsutShape
    <3>2. QED
      BY <3>1, SessionSteps
  <2>3. QED
    BY <2>1, <2>2
<1>5. QED
  BY <1>1, <1>2, <1>3, <1>4 DEF Rung, alice, bob

\* What is done stays done, and no interval gets lost.
LEMMA StaysDone ==
    ASSUME Going, NEW q \in Sides
    PROVE  /\ side[q].done => side'[q].done
           /\ side'[q].busy => side[q].busy \/ \E t : AskDone(q, t)
           /\ \/ side'[q].sched = side[q].sched
              \/ OkDone(q) /\ Holds /\ q = "alice" /\ ~Left(side[q]) /\ side[q].busy
                 /\ HoldDone(side'[q], side[q])
           /\ side'[q].nerrs = side[q].nerrs \/ Erred(q)
<1>1. Typed /\ Moved /\ Busy
  BY Parts DEF Going
<1>2. side'[q].nerrs = side[q].nerrs \/ Erred(q)
  BY <1>1, ErrorsFrom
<1>3. CASE side'[q] = side[q]
  BY <1>2, <1>3
<1>4. CASE \E t : AskDone(q, t)
  BY <1>2, <1>4 DEF AskDone, Same, Fields
<1>5. CASE \E t : LateDone(q, t) \/ HangDone(q, t)
  BY <1>2, <1>5 DEF LateDone, HangDone, Same, Fields
<1>6. CASE q = "bob" /\ \E t : ConnectDone(t)
  BY <1>2, <1>6 DEF ConnectDone, bob, Same, Fields
<1>7. CASE q = "alice" /\ ConnectedDone
  BY <1>2, <1>7 DEF ConnectedDone, alice, Same, Fields
<1>8. CASE InviteDone(q) \/ DeadDone(q)
  BY <1>2, <1>8 DEF InviteDone, DeadDone, Same, Fields
<1>9. CASE OkDone(q)
  <2>1. CASE side'[q] = side[q]
    BY <1>2, <2>1
  <2>2. CASE side[q].ua = "updating" /\ Answered(q, Head(net[q]).body)
    <3>1. side[q].busy /\ ~Left(side[q])
      BY <1>1, <2>2 DEF Busy, Left
    <3>2. QED
      BY <1>2, <1>9, <2>2, <3>1 DEF Answered, Holds, Same, Fields
  <2>3. QED
    BY <1>9, <2>1, <2>2 DEF OkDone
<1>10. CASE RefusalDone(q) \/ ByeDone(q)
  BY <1>2, <1>10 DEF RefusalDone, ByeDone, FailDone, Same, Fields
<1>11. QED
  BY <1>1, <1>3, <1>4, <1>5, <1>6, <1>7, <1>8, <1>9, <1>10, SideDoes DEF Does

LEMMA StageStep ==
    ASSUME Going
    PROVE  Stage'
<1>1. /\ Steady /\ Typed /\ Sane /\ Prompt /\ Begun /\ Knows /\ Stage /\ Counted /\ Moved /\ Clean
      /\ InTurn(Asker, Answerer) /\ Once /\ Busy
      /\ Asker \in Sides /\ Answerer \in Sides /\ Asker # Answerer
      /\ alice = side["alice"] /\ bob = side["bob"] /\ "alice" \in Sides /\ "bob" \in Sides
      /\ now \in Nat /\ net \in Nets /\ ssut \in SsutShape /\ scn' = scn
      /\ Asker' = Asker /\ Answerer' = Answerer
      /\ Holds => Asker = "alice"
  BY Parts, Roles, SideTyped, SameRoles DEF Going, Typed
<1>2. SUFFICES ASSUME ssut'.leg # "over"
               PROVE  \/ Asker = "alice" /\ side'["alice"].ua = "ringing"
                      \/ Asks(Asker)' # {}
                      \/ ~No(net'[Answerer], Offer) \/ ~No(net'[Asker], Reply)
                      \/ /\ side'[Asker].done /\ ~side'[Asker].busy
                         /\ side'["alice"].sched = <<>>
  BY <1>1 DEF Stage, Idle, alice
<1>3. ssut.leg # "over" /\ ~Left(side[Asker]) /\ ~Left(side[Answerer])
  BY <1>1, <1>2, SessionSteps DEF Knows
<1>4. CASE Asker = "alice" /\ alice.ua = "ringing"
  <2>1. CASE side'["alice"] = side["alice"]
    BY <1>1, <1>4, <2>1
  <2>2. CASE Does("alice")
    <3>1. alice.timers = {} /\ No(net["alice"], Reply) /\ No(net["alice"], Offer)
          /\ No(net["alice"], {"BYE"})
      BY <1>1, <1>3, <1>4, StillRinging DEF InTurn, Knows
    <3>2. ASSUME InviteDone("alice") \/ OkDone("alice") \/ RefusalDone("alice") \/ ByeDone("alice")
          PROVE  FALSE
      <4>1. \E kind \in {"INVITE", "200", "refuse", "BYE"} : Arrives("alice", kind)
        BY <3>2 DEF InviteDone, OkDone, RefusalDone, ByeDone
      <4>2. In(Head(net["alice"]), net["alice"])
            /\ Head(net["alice"]).kind \in {"INVITE", "200", "refuse", "BYE"}
        BY <1>1, <4>1, DueNow
      <4>3. QED
        BY <3>1, <4>2 DEF No, In, Reply, Offer
    <3>3. ConnectedDone
      BY <1>1, <1>4, <2>2, <3>1, <3>2 DEF Does, AskDone, Asks, LateDone, Owed, HangDone, DeadDone
    <3>4. Timer("reinvite", ReinviteIval(scn.cls)) \in side'["alice"].timers
      BY <1>1, <1>4, <3>3 DEF ConnectedDone, Asker
    <3>5. Asks(Asker)' # {}
      BY <1>1, <1>4, <3>4 DEF Asks, Timer
    <3>6. QED
      BY <3>5
  <2>3. QED
    BY <1>1, <2>1, <2>2, SideDoes
<1>5. ASSUME NEW t \in Asks(Asker)
      PROVE  Asks(Asker)' # {} \/ ~No(net'[Answerer], Offer) \/ ~No(net'[Asker], Reply)
  <2>1. CASE AskDone(Asker, t)
    <3>1. \/ Sent(net, Answerer, "INVITE", AskBody(t)) \/ Sent(net, Asker, "refuse", "none")
      BY <1>1, <2>1, AskEvent
    <3>2. QED
      BY <1>1, <3>1, SentNo DEF Offer, Reply
  <2>2. CASE ~AskDone(Asker, t)
    <3>1. ~LateDone(Asker, t) /\ ~HangDone(Asker, t) /\ ~ConnectDone(t)
      BY <1>5 DEF Asks, LateDone, Owed, HangDone, ConnectDone
    <3>2. t \in side'[Asker].timers
      BY <1>1, <1>5, <2>2, <3>1, TimerStays DEF Asks
    <3>3. QED
      BY <1>1, <1>5, <3>2 DEF Asks
  <2>3. QED
    BY <2>1, <2>2
<1>6. ASSUME NEW m, In(m, net[Answerer]), m.kind \in Offer
      PROVE  ~No(net'[Answerer], Offer) \/ ~No(net'[Asker], Reply)
  <2>1. CASE In(m, net'[Answerer])
    BY <1>6, <2>1 DEF No, In
  <2>2. CASE m = Head(net[Answerer]) /\ Hears(Answerer)
    <3>1. InviteDone(Answerer)
      BY <1>6, <2>2 DEF Hears, ConnectedDone, OkDone, RefusalDone, ByeDone, Arrives, Offer
    <3>2. \E k \in Reply : \E b : Sent(Taken(Answerer), Asker, k, b)
      BY <1>1, <1>3, <3>1, ReplyEvent DEF Reply
    <3>3. Taken(Answerer) \in Nets
      BY <1>1, <3>1, TakenKinds DEF InviteDone
    <3>4. QED
      BY <1>1, <3>2, <3>3, SentNo
  <2>3. QED
    BY <1>1, <1>6, <2>1, <2>2, MessageStays
<1>7. ASSUME NEW m, In(m, net[Asker]), m.kind \in Reply
      PROVE  \/ ~No(net'[Asker], Reply) \/ Asks(Asker)' # {}
             \/ /\ side'[Asker].done /\ ~side'[Asker].busy /\ side'["alice"].sched = <<>>
  <2>1. CASE In(m, net'[Asker])
    BY <1>7, <2>1 DEF No, In
  <2>2. CASE m = Head(net[Asker]) /\ Hears(Asker)
    <3>1. OkDone(Asker) \/ RefusalDone(Asker)
      BY <1>7, <2>2 DEF Hears, ConnectedDone, InviteDone, ByeDone, Arrives, Reply
    <3>2. side'[Asker].done /\ ~side'[Asker].busy
      BY <1>1, <1>3, <3>1, OkEvent, RefusalEvent
    <3>3. CASE ~Holds
      <4>1. alice.sched = <<>>
        BY <1>1, <3>3 DEF Once
      <4>2. side'["alice"].sched = alice.sched
        <5>1. CASE Asker = "alice"
          BY <1>1, <1>3, <3>1, <3>3, <5>1, OkEvent, RefusalEvent DEF Same, Fields
        <5>2. CASE Asker # "alice"
          BY <1>1, <3>1, <5>2 DEF OkDone, RefusalDone, Turn
        <5>3. QED
          BY <5>1, <5>2
      <4>3. QED
        BY <3>2, <4>1, <4>2
    <3>4. CASE Holds
      <4>1. Asker = "alice" /\ scn.cls \notin Refused
        BY <1>1, <3>4 DEF Holds, Refused
      <4>2. HoldDone(side'["alice"], alice)
        BY <1>1, <1>3, <3>1, <3>4, <4>1, OkEvent, RefusalEvent
      <4>3. CASE alice.sched = <<>>
        BY <3>2, <4>1, <4>2, <4>3 DEF HoldDone
      <4>4. CASE alice.sched # <<>>
        <5>1. PICK ival : Timer(IF alice.holds > alice.offs THEN "off_hold" ELSE "reinvite", ival)
                             \in side'["alice"].timers
          BY <4>2, <4>4 DEF HoldDone
        <5>2. Asks(Asker)' # {}
          BY <1>1, <4>1, <5>1 DEF Asks, Timer
        <5>3. QED
          BY <5>2
      <4>5. QED
        BY <4>3, <4>4
    <3>5. QED
      BY <3>3, <3>4
  <2>3. QED
    BY <1>1, <1>7, <2>1, <2>2, MessageStays

<1>8. CASE Idle /\ alice.sched = <<>> /\ Asks(Asker) = {}
  <2>1. ~\E t : AskDone(Asker, t)
    BY <1>8 DEF AskDone
  <2>2. side'[Asker].done /\ ~side'[Asker].busy
    BY <1>1, <1>8, <2>1, StaysDone DEF Idle
  <2>3. side'["alice"].sched = side["alice"].sched
    BY <1>1, <1>8, StaysDone DEF Idle
  <2>4. QED
    BY <1>1, <1>8, <2>2, <2>3
<1>9. QED
  BY <1>1, <1>3, <1>4, <1>5, <1>6, <1>7, <1>8 DEF Stage, No, In

\* Everything has been asked.
Asked ==
    /\ Asks(Asker) = {} /\ (Asker = "alice" => alice.ua # "ringing")
    /\ Holds => alice.sched = <<>> \/ ~alice.busy

LEMMA AskedStays ==
    ASSUME Going, Asked
    PROVE  /\ Asks(Asker)' = {}
           /\ Holds => side'["alice"].holds = alice.holds /\ side'["alice"].offs = alice.offs
           /\ Idle => side'[Asker].done /\ ~side'[Asker].busy
           /\ Left(side[Asker]) => Left(side'[Asker])
           /\ Refusing => ((scn.cls \in Refused /\ ~No(net[Asker], Reply)) =>
                  \/ Left(side'[Asker])
                  \/ side'[Asker].done /\ ~side'[Asker].busy
                  \/ ~No(net'[Asker], Reply))
<1>1. /\ Steady /\ Typed /\ Sane /\ Moved /\ Clean /\ Busy
      /\ Asker \in Sides /\ alice = side["alice"] /\ "alice" \in Sides
      /\ scn' = scn /\ Asker' = Asker
      /\ Holds => Asker = "alice"
  BY Parts, Roles, SameRoles DEF Going
<1>2. Asks(Asker)' = {}
  <2>1. SUFFICES ASSUME NEW u \in side'[Asker].timers, u.cb \in {"reinvite", "off_hold"}
                 PROVE  FALSE
    BY <1>1 DEF Asks
  <2>2. u \notin side[Asker].timers
    BY <2>1 DEF Asked, Asks
  <2>3. Sets(Asker, u)
    BY <1>1, <2>2, TimerSet
  <2>4. CASE Asker = "alice" /\ Holds /\ OkDone("alice") /\ alice.ua = "updating"
             /\ alice.sched # <<>>
    BY <1>1, <2>4 DEF Asked, Busy
  <2>5. CASE ~(Asker = "alice" /\ Holds /\ OkDone("alice") /\ alice.ua = "updating"
               /\ alice.sched # <<>>)
    BY <1>1, <2>1, <2>3, <2>5 DEF Sets, Timer, Asked, Holds, Clean
  <2>6. QED
    BY <2>4, <2>5
<1>3. ~\E t : AskDone(Asker, t)
  BY DEF AskDone, Asked
<1>4. Holds => side'["alice"].holds = alice.holds /\ side'["alice"].offs = alice.offs
  BY <1>1, <1>3, HoldsFrom
<1>5. Idle => side'[Asker].done /\ ~side'[Asker].busy
  BY <1>1, <1>3, StaysDone DEF Idle
<1>6. Left(side[Asker]) => Left(side'[Asker])
  BY <1>1, LeftStays
<1>7. ASSUME scn.cls \in Refused, NEW m, In(m, net[Asker]), m.kind \in Reply
      PROVE  \/ Left(side'[Asker])
             \/ side'[Asker].done /\ ~side'[Asker].busy
             \/ ~No(net'[Asker], Reply)
  <2>1. CASE In(m, net'[Asker])
    BY <1>7, <2>1 DEF No, In
  <2>2. CASE m = Head(net[Asker]) /\ Hears(Asker)
    <3>1. OkDone(Asker) \/ RefusalDone(Asker)
      BY <1>7, <2>2 DEF Hears, ConnectedDone, InviteDone, ByeDone, Arrives, Reply
    <3>2. RefusalDone(Asker)
      BY <1>1, <1>7, <3>1, OkEvent
    <3>3. QED
      BY <1>1, <1>6, <3>2, RefusalEvent
  <2>3. QED
    BY <1>1, <1>7, <2>1, <2>2, MessageStays
<1>8. QED
  BY <1>2, <1>4, <1>5, <1>6, <1>7 DEF No, In

LEMMA SettledStep ==
    ASSUME Going
    PROVE  Settled'
<1>1. /\ Steady /\ Typed /\ Begun /\ Rung /\ Settled /\ Refusing /\ Once /\ Counted /\ Counting
      /\ Asker \in Sides /\ alice = side["alice"] /\ "alice" \in Sides
      /\ scn' = scn /\ Asker' = Asker /\ (Holds' <=> Holds)
      /\ Holds => Asker = "alice" /\ scn.cls \notin Refused
      /\ side["alice"] \in SideShape
  BY Parts, Roles, SameRoles, SideTyped DEF Going, Holds, Refused
<1>2. Holds => /\ alice.holds \in Nat /\ alice.offs \in Nat /\ Len(alice.sched) \in Nat
               /\ alice.sched \in Seq(Nat)
               /\ alice.holds + alice.offs + Len(alice.sched) <= 5
               /\ Asks("alice") # {} => alice.holds + alice.offs + Len(alice.sched) <= 4
               /\ alice.holds = alice.offs \/ alice.holds = alice.offs + 1
  BY <1>1, SpareNat DEF Counted, Tally, Holds, SideShape
<1>3. Holds /\ OnHoldOver(alice) => alice.sched = <<>> /\ Asks("alice") = {}
  <2>1. Holds /\ OnHoldOver(alice) => Len(alice.sched) = 0 /\ Asks("alice") = {}
    BY <1>2 DEF OnHoldOver
  <2>2. QED
    BY <1>2, <2>1
<1>4. SUFFICES ASSUME ssut'.leg = "over"
               PROVE  /\ Asks(Asker)' = {}
                      /\ \/ Left(side'[Asker]) \/ (side'[Asker].done /\ ~side'[Asker].busy)
                         \/ scn.cls \in Refused /\ ~No(net'[Asker], Reply)
                      /\ Holds => side'["alice"].holds = 3 /\ side'["alice"].offs = 2
  BY <1>1 DEF Settled, Idle, OnHoldOver, alice
<1>5. CASE ssut.leg = "over"
  <2>1. alice.ua # "ringing"
    BY <1>1, <1>5 DEF Begun, Rung
  <2>2. Asked
    BY <1>1, <1>3, <1>5, <2>1 DEF Asked, Settled
  <2>3. QED
    BY <1>1, <1>5, <2>2, AskedStays DEF Settled, OnHoldOver
<1>6. CASE ssut.leg # "over"
  <2>1. /\ alice.ua # "ringing"
        /\ \/ ssut.refused
           \/ Idle /\ alice.sched = <<>> /\ Asks(Asker) = {} /\ No(net[Answerer], Offer)
           \/ Holds /\ OnHoldOver(alice) /\ Left(side'["alice"])
    BY <1>4, <1>6, EndsWell
  <2>2. CASE ssut.refused
    <3>1. /\ scn.cls \in Refused /\ Asks(Asker) = {} /\ ~Holds
          /\ Idle \/ ~No(net[Asker], Reply)
      BY <1>1, <2>2 DEF Refusing, Once, Idle
    <3>2. Asked
      BY <2>1, <3>1 DEF Asked
    <3>3. QED
      BY <1>1, <3>1, <3>2, AskedStays
  <2>3. CASE Idle /\ alice.sched = <<>> /\ Asks(Asker) = {} /\ No(net[Answerer], Offer)
    <3>1. Asked
      BY <2>1, <2>3 DEF Asked
    <3>2. Holds => alice.holds = 3 /\ alice.offs = 2
      <4>1. Len(alice.sched) = 0
        BY <2>3
      <4>2. Holds => alice.holds + alice.offs + Len(alice.sched) >= 5
        BY <1>1, <2>1, <2>3 DEF Counting
      <4>3. QED
        BY <1>2, <4>1, <4>2
    <3>3. QED
      BY <2>3, <3>1, <3>2, AskedStays
  <2>4. CASE Holds /\ OnHoldOver(alice) /\ Left(side'["alice"])
    <3>1. Asked
      BY <1>1, <1>3, <2>1, <2>4 DEF Asked
    <3>2. QED
      BY <1>1, <2>4, <3>1, AskedStays DEF OnHoldOver
  <2>5. QED
    BY <2>1, <2>2, <2>3, <2>4
<1>7. QED
  BY <1>5, <1>6

LEMMA RefusingStep ==
    ASSUME Going
    PROVE  Refusing'
<1>1. /\ Steady /\ Typed /\ Sane /\ Moved /\ Begun /\ Refusing /\ Once /\ Settled /\ Busy /\ Knows
      /\ Asker \in Sides /\ alice = side["alice"] /\ "alice" \in Sides
      /\ scn' = scn /\ Asker' = Asker /\ Clean
      /\ scn.cls \in Refused => Asker = "alice"
      /\ scn.cls \in Refused => ~Holds
      /\ InTurn(Asker, Answerer) /\ net \in Nets /\ ssut \in SsutShape
  BY Parts, Roles, SameRoles, SideTyped DEF Going, Holds, Refused, Typed
<1>2. SUFFICES ASSUME ssut'.refused
               PROVE  /\ scn.cls \in Refused /\ Asks(Asker)' = {}
                      /\ side'[Asker].done \/ ~No(net'[Asker], Reply)
  BY <1>1 DEF Refusing
<1>3. CASE ssut.refused
  <2>1. scn.cls \in Refused /\ Asks(Asker) = {} /\ (side[Asker].done \/ ~No(net[Asker], Reply))
    BY <1>1, <1>3 DEF Refusing
  <2>2. alice.ua # "ringing"
    BY <1>1, <2>1, StillRinging
  <2>3. Asked
    BY <1>1, <2>1, <2>2 DEF Asked
  <2>4. CASE side[Asker].done
    BY <1>1, <2>1, <2>3, <2>4, AskedStays, StaysDone
  <2>5. CASE ~No(net[Asker], Reply) /\ ~Left(side[Asker])
    <3>1. ASSUME NEW m, In(m, net[Asker]), m.kind \in Reply
          PROVE  side'[Asker].done \/ ~No(net'[Asker], Reply)
      <4>1. CASE In(m, net'[Asker])
        BY <3>1, <4>1 DEF No, In
      <4>2. CASE m = Head(net[Asker]) /\ Hears(Asker)
        <5>1. OkDone(Asker) \/ RefusalDone(Asker)
          BY <3>1, <4>2 DEF Hears, ConnectedDone, InviteDone, ByeDone, Arrives, Reply
        <5>2. QED
          BY <1>1, <2>5, <5>1, OkEvent, RefusalEvent
      <4>3. QED
        BY <1>1, <3>1, <4>1, <4>2, MessageStays
    <3>2. QED
      BY <2>1, <2>3, <2>5, <3>1, AskedStays DEF No, In
  <2>6. Left(side[Asker]) => side[Asker].done
    BY <1>1, Parts DEF Unharmed
  <2>7. QED
    BY <2>1, <2>4, <2>5, <2>6
<1>4. CASE ~ssut.refused
  <2>1. /\ ssut' = [ssut EXCEPT !.refused = TRUE]
        /\ \/ \E q \in Sides : \E t : AskDone(q, t)
           \/ ssut.leg # "over" /\ \E q \in Sides : InviteDone(q)
    BY <1>2, <1>4, SessionSteps
  <2>2. ssut' # [ssut EXCEPT !.since = now] /\ ssut' # [ssut EXCEPT !.since = now, !.accepted = TRUE]
    BY <1>1, <1>2, <1>4 DEF SsutShape
  <2>3. ASSUME NEW q \in Sides, NEW t, AskDone(q, t)
        PROVE  /\ scn.cls \in Refused /\ Asks(Asker)' = {}
               /\ ~No(net'[Asker], Reply)
    <3>1. /\ \A u \in side'[Asker].timers : u.cb \notin {"reinvite", "off_hold"}
          /\ Sent(net, Asker, "refuse", "none") /\ scn.cls = "reinv_brkn2"
      BY <1>1, <2>2, <2>3, AskEvent
    <3>2. Asks(Asker)' = {}
      BY <1>1, <3>1 DEF Asks
    <3>3. QED
      BY <1>1, <3>1, <3>2, SentNo DEF Refused, Reply
  <2>4. ASSUME ssut.leg # "over", NEW q \in Sides, InviteDone(q)
        PROVE  /\ scn.cls \in Refused /\ Asks(Asker)' = {}
               /\ ~No(net'[Asker], Reply)
    <3>1. /\ Sent(Taken(Answerer), Asker, "refuse", "none") /\ scn.cls \in Refused
          /\ side[Asker].ua = "updating" /\ q = Answerer
      BY <1>1, <2>2, <2>4, ReplyEvent
    <3>2. Asked
      BY <1>1, <3>1 DEF Asked, InTurn
    <3>3. Taken(Answerer) \in Nets
      BY <1>1, <2>4, <3>1, TakenKinds DEF InviteDone
    <3>4. QED
      BY <1>1, <3>1, <3>2, <3>3, AskedStays, SentNo DEF Reply
  <2>5. QED
    BY <2>1, <2>3, <2>4
<1>5. QED
  BY <1>3, <1>4

LEMMA ProperStep ==
    ASSUME Going
    PROVE  Proper'
<1>1. /\ Steady /\ Typed /\ Sane /\ Prompt /\ Moved /\ Proper /\ Clean /\ Holding
      /\ Asker \in Sides /\ Answerer \in Sides /\ Asker # Answerer
      /\ Other(Asker) = Answerer /\ Other(Answerer) = Asker
      /\ \A q \in Sides : q = Asker \/ q = Answerer
      /\ scn' = scn /\ Asker' = Asker /\ Answerer' = Answerer
  BY Parts, Roles, SameRoles DEF Going
<1>2. ASSUME NEW q \in Sides, NEW m, In(m, net'[q])
      PROVE  /\ scn.cls \in Refused /\ q = Asker => m.kind # "200"
             /\ scn.cls \notin Refused /\ q = Asker => m.kind # "refuse"
             /\ m.kind = "200" => m.body # "raw"
             /\ scn.cls = "reinv_brkn2" /\ q = Answerer => m.kind # "INVITE"
  <2>1. CASE In(m, net[q])
    BY <1>1, <2>1 DEF Proper, No, In, Offer
  <2>2. CASE Joins(q, m)
    <3>1. Cause(q, m)
      BY <2>2 DEF Joins
    <3>2. CASE m.kind = "answer" \/ EndCause(q, m)
      BY <3>2 DEF EndCause
    <3>3. CASE AskCause(q, m)
      <4>1. PICK t : /\ AskDone(Other(q), t) /\ m.kind = "INVITE"
                     /\ AskBody(t) = "broken" => scn.fault = "tolerate"
        BY <3>3 DEF AskCause
      <4>2. Other(q) \in Sides
        BY <1>1
      <4>3. Other(q) = Asker /\ t \in Asks(Asker)
        BY <1>1, <4>1, <4>2, AskEvent
      <4>4. scn.cls # "reinv_brkn2"
        BY <1>1, <4>1, <4>3 DEF AskBody, Clean, Holding, Asks
      <4>5. QED
        BY <4>1, <4>4
    <3>4. CASE EchoCause(q, m)
      <4>1. PICK t : /\ AskDone(q, t)
                     /\ \/ m.kind = "200" /\ scn.fault = "swallow"
                        \/ m.kind = "refuse" /\ ssut.leg = "over"
                        \/ m.kind = "refuse" /\ AskBody(t) = "broken"
        BY <3>4 DEF EchoCause
      <4>2. ssut.leg # "over" /\ q = Asker
        BY <1>1, <4>1, AskEvent
      <4>3. m.kind = "refuse" /\ scn.cls = "reinv_brkn2"
        BY <1>1, <4>1, <4>2 DEF AskBody, Clean
      <4>4. QED
        BY <1>1, <4>2, <4>3 DEF Refused
    <3>5. CASE ReplyCause(q, m)
      <4>1. InviteDone(Other(q))
        BY <1>1, <3>5 DEF ReplyCause, Prompt, LateDone, Clean
      <4>2. Other(q) \in Sides
        BY <1>1
      <4>3. Other(q) = Answerer /\ Arrives(Answerer, "INVITE") /\ q = Asker
        BY <1>1, <4>1, <4>2, ReplyEvent
      <4>4. In(Head(net[Answerer]), net[Answerer]) /\ Head(net[Answerer]).kind = "INVITE"
        BY <1>1, <4>3, DueNow
      <4>5. scn.cls # "reinv_brkn2"
        BY <1>1, <4>4 DEF Proper, No, In, Offer
      <4>6. QED
        BY <1>1, <3>5, <4>3, <4>5 DEF ReplyCause, Refused, Clean
    <3>6. QED
      BY <3>1, <3>2, <3>3, <3>4, <3>5 DEF Cause
  <2>3. QED
    BY <1>1, <1>2, <2>1, <2>2, MessageFrom
<1>3. QED
  BY <1>1, <1>2 DEF Proper, No, In, Offer

LEMMA DoneFrom ==
    ASSUME Going, NEW q \in Sides, side'[q].done
    PROVE  \/ side[q].done
           \/ OkDone(q) /\ ~Left(side[q]) /\ side[q].ua = "updating"
           \/ RefusalDone(q) /\ ~Left(side[q]) /\ side[q].ua = "updating"
           \/ ByeDone(q) /\ ~Left(side[q]) /\ side[q].busy /\ ~side'[q].busy
<1>1. Typed /\ Moved
  BY Parts DEF Going
<1>2. CASE side'[q] = side[q]
  BY <1>2
<1>3. CASE \E t : AskDone(q, t)
  BY <1>3 DEF AskDone, Same, Fields
<1>4. CASE \E t : LateDone(q, t) \/ HangDone(q, t)
  BY <1>4 DEF LateDone, HangDone, Same, Fields
<1>5. CASE q = "bob" /\ \E t : ConnectDone(t)
  BY <1>5 DEF ConnectDone, bob, Same, Fields
<1>6. CASE q = "alice" /\ ConnectedDone
  BY <1>6 DEF ConnectedDone, alice, Same, Fields
<1>7. CASE InviteDone(q) \/ DeadDone(q)
  BY <1>7 DEF InviteDone, DeadDone, Same, Fields
<1>8. CASE OkDone(q)
  BY <1>8 DEF OkDone, Left
<1>9. CASE RefusalDone(q)
  BY <1>9 DEF RefusalDone, Left
<1>10. CASE ByeDone(q)
  BY <1>10 DEF ByeDone, FailDone
<1>11. QED
  BY <1>1, <1>2, <1>3, <1>4, <1>5, <1>6, <1>7, <1>8, <1>9, <1>10, SideDoes DEF Does

LEMMA OnceStep ==
    ASSUME Going
    PROVE  Once'
<1>1. /\ Steady /\ Typed /\ Sane /\ Moved /\ Begun /\ Rung /\ Settled /\ Knows /\ Once /\ Busy
      /\ Asker \in Sides /\ alice = side["alice"] /\ "alice" \in Sides
      /\ scn' = scn /\ Asker' = Asker /\ (Holds' <=> Holds)
      /\ InTurn(Asker, Answerer)
  BY Parts, Roles, SameRoles DEF Going
<1>2. SUFFICES ASSUME ~Holds
               PROVE  /\ side'["alice"].sched = <<>>
                      /\ side'[Asker].done => Asks(Asker)' = {} /\ ~side'[Asker].busy
  BY <1>1 DEF Once, alice
<1>3. side'["alice"].sched = <<>>
  BY <1>1, <1>2, StaysDone DEF Once
<1>4. ASSUME side'[Asker].done
      PROVE  Asks(Asker)' = {} /\ ~side'[Asker].busy
  <2>1. CASE side[Asker].done
    <3>1. Asked /\ Idle
      BY <1>1, <1>2, <2>1, StillRinging DEF Once, Asked, Idle
    <3>2. QED
      BY <3>1, AskedStays
  <2>2. CASE (OkDone(Asker) \/ RefusalDone(Asker)) /\ ~Left(side[Asker])
             /\ side[Asker].ua = "updating"
    <3>1. Asked
      BY <1>1, <1>2, <2>2 DEF Asked, InTurn
    <3>2. QED
      BY <1>1, <2>2, <3>1, AskedStays, OkEvent, RefusalEvent
  <2>3. CASE ByeDone(Asker) /\ ~Left(side[Asker]) /\ side[Asker].busy /\ ~side'[Asker].busy
    <3>1. In(Head(net[Asker]), net[Asker]) /\ Head(net[Asker]).kind = "BYE"
      BY <1>1, <2>3, DueNow DEF ByeDone
    <3>2. ssut.leg = "over"
      BY <1>1, <3>1 DEF Knows, No, In
    <3>3. Asked
      BY <1>1, <1>2, <3>2 DEF Asked, Settled, Begun, Rung
    <3>4. QED
      BY <2>3, <3>3, AskedStays
  <2>4. QED
    BY <1>1, <1>4, <2>1, <2>2, <2>3, DoneFrom
<1>5. QED
  BY <1>2, <1>3, <1>4

-----------------------------------------------------------------------------
(* Time enough                                                             *)

\* Where a re-INVITE on its way comes from.
LEMMA OfferFrom ==
    ASSUME Going, NEW m, In(m, net'[Answerer]), m.kind = "INVITE"
    PROVE  \/ In(m, net[Answerer])
           \/ \E t : AskDone(Asker, t) /\ Joins(Answerer, m)
<1>1. /\ Steady /\ Typed /\ Sane /\ Prompt /\ Moved /\ Clean
      /\ Asker \in Sides /\ Answerer \in Sides /\ Other(Answerer) = Asker
  BY Parts, Roles DEF Going
<1>2. CASE Joins(Answerer, m)
  <2>1. Cause(Answerer, m)
    BY <1>2 DEF Joins
  <2>2. AskCause(Answerer, m)
    BY <2>1 DEF Cause, EchoCause, ReplyCause, EndCause
  <2>3. QED
    BY <1>1, <1>2, <2>2 DEF AskCause
<1>3. QED
  BY <1>1, <1>2, MessageFrom

LEMMA ReplyFrom ==
    ASSUME Going, NEW m, In(m, net'[Asker]), m.kind \in Reply
    PROVE  \/ In(m, net[Asker])
           \/ \E t : AskDone(Asker, t) /\ Joins(Asker, m)
           \/ InviteDone(Answerer) /\ ssut.leg # "over" /\ Joins(Asker, m)
<1>1. /\ Steady /\ Typed /\ Sane /\ Prompt /\ Moved /\ Clean
      /\ Asker \in Sides /\ Answerer \in Sides /\ Other(Asker) = Answerer
  BY Parts, Roles DEF Going
<1>2. CASE Joins(Asker, m)
  <2>1. Cause(Asker, m)
    BY <1>2 DEF Joins
  <2>2. EchoCause(Asker, m) \/ ReplyCause(Asker, m)
    BY <2>1 DEF Cause, AskCause, EndCause, Reply
  <2>3. ~\E t : LateDone(Answerer, t)
    BY <1>1 DEF Prompt, LateDone, Clean
  <2>4. QED
    BY <1>1, <1>2, <2>2, <2>3 DEF EchoCause, ReplyCause
<1>3. QED
  BY <1>1, <1>2, MessageFrom

\* A new re-INVITE is set as Alice hears of Bob's answer, or of the answer to
\* the last one.
LEMMA AskFrom ==
    ASSUME Going, NEW u \in Asks(Asker)'
    PROVE  \/ u \in Asks(Asker)
           \/ /\ Asker = "alice" /\ ConnectedDone /\ alice.ua = "ringing"
              /\ u.at = now + ReinviteIval(scn.cls)
           \/ /\ Asker = "alice" /\ Holds /\ OkDone("alice") /\ alice.ua = "updating"
              /\ alice.sched # <<>> /\ HoldDone(side'["alice"], alice)
              /\ u.at = now + alice.sched[Len(alice.sched)]
<1>1. /\ Typed /\ Moved /\ Clean /\ Asker \in Sides /\ scn' = scn /\ Asker' = Asker
      /\ alice = side["alice"]
  BY Parts, Roles, SameRoles DEF Going
<1>2. u \in side'[Asker].timers /\ u.cb \in {"reinvite", "off_hold"}
  BY <1>1 DEF Asks
<1>3. CASE u \in side[Asker].timers
  BY <1>2, <1>3 DEF Asks
<1>4. CASE Sets(Asker, u)
  BY <1>1, <1>2, <1>4 DEF Sets, Timer, Holds, Clean
<1>5. QED
  BY <1>1, <1>2, <1>3, <1>4, TimerSet

SpareNext ==
    (IF scn.cls = "reinv_bad_ack" THEN 3299 ELSE 0) + 217 * Len(side'["alice"].sched)

LEMMA SpareLess ==
    ASSUME Going
    PROVE  /\ SpareNext \in Nat /\ SpareNext <= Spare /\ Spare \in Nat
           /\ Asker = "bob" => Spare = 0
           /\ alice.sched # <<>> /\ HoldDone(side'["alice"], alice) => SpareNext + 217 = Spare
<1>1. /\ Steady /\ Typed /\ Moved /\ Once /\ alice = side["alice"] /\ "alice" \in Sides
      /\ alice.sched \in Seq(Nat) /\ Len(alice.sched) \in Nat /\ Spare \in Nat
      /\ Holds \/ scn.cls = "reinv_bad_ack" => Asker = "alice"
  BY Parts, Roles, SpareNat DEF Going
<1>2. Asker = "bob" => alice.sched = <<>> /\ scn.cls # "reinv_bad_ack"
  BY <1>1 DEF Once
<1>3. Asker = "bob" => Spare = 0
  BY <1>2 DEF Spare
<1> DEFINE old == Len(alice.sched)
           new == Len(side'["alice"].sched)
<1>4. new \in Nat /\ new <= old
      /\ (alice.sched # <<>> /\ HoldDone(side'["alice"], alice) => new + 1 = old)
  <2>1. alice.sched # <<>> /\ HoldDone(side'["alice"], alice)
            => new + 1 = old /\ new \in Nat
    <3>1. alice.sched # <<>> => Len(alice.sched) > 0
      BY <1>1
    <3>2. QED
      BY <1>1, <3>1 DEF HoldDone
  <2>2. alice.sched = <<>> /\ HoldDone(side'["alice"], alice) => new = old
    BY DEF HoldDone
  <2>3. side'["alice"].sched = alice.sched \/ HoldDone(side'["alice"], alice)
    BY <1>1, StaysDone
  <2>4. QED
    BY <1>1, <2>1, <2>2, <2>3
<1> DEFINE base == IF scn.cls = "reinv_bad_ack" THEN 3299 ELSE 0
<1>5. base \in Nat /\ SpareNext = base + 217 * new /\ Spare = base + 217 * old /\ old \in Nat
  BY <1>1 DEF Spare, SpareNext
<1>6. /\ SpareNext \in Nat /\ SpareNext <= Spare
      /\ new + 1 = old => SpareNext + 217 = Spare
  <2> HIDE DEF base, old, new
  <2>1. QED
    BY <1>4, <1>5
<1>7. QED
  BY <1>1, <1>3, <1>4, <1>6

\* What there was time for there is still time for.
LEMMA RoomKept ==
    ASSUME Going, NEW time \in Nat, Room(time),
           \/ time <= 798
           \/ bob.connect /\ ~(alice.ua = "ringing" /\ ConnectedDone),
           NEW s \in Nat, s <= time
    PROVE  RoomNext(s)
<1>1. Typed /\ now \in Nat
  BY Parts, SideTyped, Roles DEF Going
<1>2. Room(s)
  BY <1>1, RoomLess
<1>3. /\ DisconnectIval("bob", scn.cls) \in Nat /\ DisconnectIval("bob", scn.cls) > 798
      /\ DisconnectIval("alice", scn.cls) \in Nat /\ DisconnectIval("alice", scn.cls) > 798
  BY DEF DisconnectIval
<1>4. CASE time <= 798
  BY <1>1, <1>2, <1>3, <1>4, RoomStays
<1>5. CASE bob.connect /\ ~(alice.ua = "ringing" /\ ConnectedDone)
  BY <1>1, <1>2, <1>5, RoomStays
<1>6. QED
  BY <1>4, <1>5

\* The first re-INVITE fits in.
LEMMA RoomAtAnswer ==
    ASSUME Going, Asker = "alice", ConnectedDone, alice.ua = "ringing"
    PROVE  /\ RoomNext(now + ReinviteIval(scn.cls) + 198 + SpareNext)
           /\ now <= AnswerIval(scn.cls) + 99
<1>1. /\ Steady /\ Typed /\ Moved /\ Begun /\ Rung /\ Counted /\ Once /\ now \in Nat
      /\ alice = side["alice"] /\ bob = side["bob"] /\ "alice" \in Sides /\ "bob" \in Sides
      /\ net["alice"] \in Seq(MsgShape) /\ scn.cls \in ReinviteClasses /\ Clean
      /\ side["alice"] \in SideShape
  BY Parts, Roles, SideTyped DEF Going
<1>2. net["alice"] # <<>> /\ Head(net["alice"]).at = now
  BY <1>1, DueNow DEF ConnectedDone, Arrives
<1>3. bob.connect
  BY <1>1, <1>2 DEF Begun
<1>4. /\ now <= AnswerIval(scn.cls) + 99
      /\ \A u \in bob.timers : u.cb = "disconnect" =>
             now + DisconnectIval("bob", scn.cls) - 99 <= u.at
  BY <1>1, <1>2, <1>3 DEF Rung
<1>5. /\ Len(alice.sched) \in Nat /\ alice.sched \in Seq(Nat)
      /\ Holds => Len(alice.sched) <= 4
      /\ ~Holds => Len(alice.sched) = 0
  <2>1. Holds => alice.holds + alice.offs + Len(alice.sched) <= 4
    BY <1>1 DEF Counted, Tally, Holds
  <2>2. alice.holds = 0 /\ alice.offs = 0
    BY <1>1, StillRinging
  <2>3. QED
    BY <1>1, <2>1, <2>2, SpareNat DEF Once
<1>6. Spare = (IF scn.cls = "reinv_bad_ack" THEN 3299 ELSE 0) + 217 * Len(alice.sched)
  BY DEF Spare
<1>7. SpareNext <= (IF Holds THEN 868 ELSE IF scn.cls = "reinv_bad_ack" THEN 3299 ELSE 0)
  <2> DEFINE len == Len(alice.sched)
  <2>1. Holds => scn.cls # "reinv_bad_ack"
    BY DEF Holds
  <2>2. Spare <= (IF Holds THEN 868 ELSE IF scn.cls = "reinv_bad_ack" THEN 3299 ELSE 0)
    <3>1. len \in Nat /\ (Holds => len <= 4) /\ (~Holds => len = 0)
      BY <1>5
    <3>2. Spare = (IF scn.cls = "reinv_bad_ack" THEN 3299 ELSE 0) + 217 * len
      BY <1>6
    <3> HIDE DEF len
    <3>3. QED
      BY <2>1, <3>1, <3>2
  <2>3. SpareNext \in Nat /\ Spare \in Nat /\ SpareNext <= Spare
    BY SpareLess
  <2>4. CASE Holds
    BY <2>1, <2>2, <2>3, <2>4
  <2>5. CASE ~Holds
    BY <2>2, <2>3, <2>5
  <2>6. QED
    BY <2>4, <2>5
<1> DEFINE ask == ReinviteIval(scn.cls) + 198
                    + (IF Holds THEN 868 ELSE IF scn.cls = "reinv_bad_ack" THEN 3299 ELSE 0)
<1>8. /\ ReinviteIval(scn.cls) \in Nat
      /\ ask < DisconnectIval("bob", scn.cls) - 99
      /\ ~Holds => ask < DisconnectIval("alice", scn.cls)
      /\ DisconnectIval("alice", scn.cls) \in Nat /\ DisconnectIval("bob", scn.cls) \in Nat
  BY <1>1 DEF ReinviteIval, DisconnectIval, Holds, Refused, Clean
<1>9. now + ReinviteIval(scn.cls) + 198 + SpareNext <= now + ask /\ SpareNext \in Nat
  BY SMTT(30), <1>1, <1>7, <1>8, SpareLess
<1>10. ASSUME NEW q \in Sides, ~(q = "alice" /\ Holds),
              NEW u \in side'[q].timers, u.cb = "disconnect"
       PROVE  now + ask < u.at
  <2>1. u.at \in Nat
    BY SMTT(30), <1>1, SideMoves DEF SideShape, TimerShape
  <2>2. CASE u \in side[q].timers
    <3>1. alice.timers = {}
      BY <1>1 DEF Begun
    <3>2. q = "bob"
      BY <1>1, <2>2, <3>1 DEF Sides
    <3>3. now + DisconnectIval("bob", scn.cls) - 99 <= u.at
      BY <1>1, <1>4, <1>10, <2>2, <3>2
    <3>4. QED
      BY SMTT(30), <1>1, <1>8, <2>1, <3>3
  <2>3. CASE q = "alice" /\ u.at = now + DisconnectIval("alice", scn.cls)
    BY <1>1, <1>8, <1>10, <2>3
  <2>4. QED
    BY <1>3, <1>10, <2>2, <2>3, HangUpsSet
<1>11. ASSUME NEW q \in Sides, ~(q = "alice" /\ Holds),
              NEW u \in side'[q].timers, u.cb = "disconnect"
       PROVE  now + ReinviteIval(scn.cls) + 198 + SpareNext < u.at
  <2>1. now + ask < u.at
    BY <1>10, <1>11
  <2>2. u.at \in Nat
    BY SMTT(30), <1>1, <1>11, SideMoves DEF SideShape, TimerShape
  <2>3. ask \in Int
    BY <1>8
  <2> HIDE DEF ask
  <2>4. QED
    BY <1>1, <1>8, <1>9, <2>1, <2>2, <2>3
<1>12. QED
  BY <1>4, <1>11 DEF RoomNext

LEMMA TimelyStep ==
    ASSUME Going
    PROVE  Timely'
<1>1. /\ Steady /\ Typed /\ Sane /\ Moved /\ Begun /\ Rung /\ Counting /\ Timely /\ now \in Nat
      /\ Asker \in Sides /\ Answerer \in Sides /\ "alice" \in Sides /\ "bob" \in Sides
      /\ alice = side["alice"] /\ bob = side["bob"] /\ (Asker = "alice" \/ Asker = "bob")
      /\ InTurn(Asker, Answerer) /\ Within(net', 99)
      /\ scn' = scn /\ now' = now /\ Asker' = Asker /\ Answerer' = Answerer
      /\ (Holds' <=> Holds) /\ Latest' = Latest /\ (Holds => Asker = "alice")
      /\ Asker # Answerer
      /\ side' \in [Sides -> SideShape]
  BY Parts, Roles, SameRoles, SideTyped, SideMoves, WithinStep DEF Going
<1>2. /\ SpareNext \in Nat /\ SpareNext <= Spare /\ Spare \in Nat
      /\ Asker = "bob" => Spare = 0
      /\ alice.sched # <<>> /\ HoldDone(side'["alice"], alice) => SpareNext + 217 = Spare
  BY SpareLess
<1>3. Latest \in Nat /\ (Asker = "bob" => Latest = 600)
  BY DEF Latest, AnswerIval, ReinviteIval, DisconnectIval
<1>4. net' \in [Sides -> Seq(MsgShape)]
  BY <1>1, NetMoves DEF Grown, Nets
<1>5. \A q \in Sides : \A m : In(m, net'[q]) => m.at \in Nat /\ m.at <= now + 99
  <2>1. ASSUME NEW q \in Sides, NEW m, In(m, net'[q])
        PROVE  m.at \in Nat /\ m.at <= now + 99
    <3>1. PICK i \in 1..Len(net'[q]) : net'[q][i] = m
      BY <2>1 DEF In
    <3>2. net'[q] \in Seq(MsgShape)
      BY <1>4
    <3>3. m \in MsgShape
      BY <3>1, <3>2
    <3>4. QED
      BY <1>1, <2>1, <3>3 DEF MsgShape, Within
  <2>2. QED
    BY <2>1
\* Whatever is still to come, was to come before Bob had answered, or before
\* Alice heard, in Bob's turn only.
<1>6. ASSUME NEW q \in Sides, NEW m, In(m, net[q]), m.kind \in Offer \cup Reply
      PROVE  /\ bob.connect
             /\ alice.ua = "ringing" => Asker = "bob"
  <2>1. bob.connect
    BY <1>1, <1>6 DEF Begun, In, Sides
  <2>2. alice.ua = "ringing" /\ Asker = "alice" => FALSE
    BY <1>1, <1>6, StillRinging DEF In, No, InTurn, Sides, Answerer, Other
  <2>3. QED
    BY <1>1, <2>1, <2>2
<1>7. ASSUME NEW t \in Asks(Asker)
      PROVE  /\ t.at \in Nat /\ now <= t.at
             /\ Room(t.at + 198 + Spare) /\ (Asker = "bob" => t.at = 600)
             /\ Holds \/ t.at <= Latest
             /\ \/ t.at + 198 + Spare <= 798
                \/ bob.connect /\ ~(alice.ua = "ringing" /\ ConnectedDone)
  <2>1. t.at \in Nat /\ now <= t.at
    BY <1>1, <1>7, DueNow DEF Asks
  <2>2. Asker = "alice" => alice.ua # "ringing"
    BY <1>1, <1>7, StillRinging
  <2>3. Asker = "alice" => bob.connect
    BY <1>1, <2>2 DEF Begun
  <2>4. QED
    BY <1>1, <1>2, <1>7, <2>1, <2>2, <2>3 DEF Timely
<1>8. ASSUME NEW u \in Asks(Asker)'
      PROVE  /\ RoomNext(u.at + 198 + SpareNext) /\ (Asker = "bob" => u.at = 600)
             /\ Holds \/ u.at <= Latest
  <2>1. CASE u \in Asks(Asker)
    <3>1. /\ u.at + 198 + Spare \in Nat /\ u.at + 198 + SpareNext \in Nat
          /\ u.at + 198 + SpareNext <= u.at + 198 + Spare
      BY <1>2, <1>7, <2>1
    <3>2. QED
      BY <1>7, <2>1, <3>1, RoomKept
  <2>2. CASE /\ Asker = "alice" /\ ConnectedDone /\ alice.ua = "ringing"
             /\ u.at = now + ReinviteIval(scn.cls)
    <3>1. RoomNext(u.at + 198 + SpareNext) /\ now <= AnswerIval(scn.cls) + 99
      BY <2>2, RoomAtAnswer
    <3>2. ReinviteIval(scn.cls) \in Nat /\ AnswerIval(scn.cls) \in Nat
      BY DEF ReinviteIval, AnswerIval, DisconnectIval
    <3>3. u.at <= Latest
      BY <1>1, <2>2, <3>1, <3>2 DEF Latest
    <3>4. QED
      BY <2>2, <3>1, <3>3
  <2>3. CASE /\ Asker = "alice" /\ Holds /\ OkDone("alice") /\ alice.ua = "updating"
             /\ alice.sched # <<>> /\ HoldDone(side'["alice"], alice)
             /\ u.at = now + alice.sched[Len(alice.sched)]
    <3>1. /\ In(Head(net["alice"]), net["alice"]) /\ Head(net["alice"]).at = now
          /\ Head(net["alice"]).kind = "200"
      BY <1>1, <2>3, DueNow DEF OkDone
    <3>2. Room(now + Spare) /\ bob.connect
      BY <1>1, <1>6, <2>3, <3>1 DEF Timely, Reply
    <3>3. alice.sched[Len(alice.sched)] <= 19 /\ alice.sched[Len(alice.sched)] \in Nat
      <4>1. alice.sched \in Seq(Nat) /\ Len(alice.sched) \in Nat
        BY <1>1, SpareNat
      <4>2. Len(alice.sched) \in 1..Len(alice.sched)
        BY <2>3, <4>1
      <4>3. QED
        BY SMTT(30), <1>1, <2>3, <4>1, <4>2 DEF Counting
    <3>4. SpareNext + 217 = Spare
      BY <1>2, <2>3
    <3>5. /\ now + Spare \in Nat /\ u.at + 198 + SpareNext \in Nat
          /\ u.at + 198 + SpareNext <= now + Spare
      BY SMTT(30), <1>1, <1>2, <2>3, <3>3, <3>4
    <3>6. RoomNext(u.at + 198 + SpareNext)
      BY <2>3, <3>2, <3>5, RoomKept
    <3>7. QED
      BY <2>3, <3>6
  <2>4. QED
    BY <2>1, <2>2, <2>3, AskFrom
\* An event at this moment for which there was time.
<1>9. ASSUME NEW t, AskDone(Asker, t)
      PROVE  /\ t.at = now /\ Room(now + 198 + Spare) /\ (Holds \/ now <= Latest)
             /\ \/ now + 198 + Spare <= 798
                \/ bob.connect /\ ~(alice.ua = "ringing" /\ ConnectedDone)
  BY <1>1, <1>7, <1>9, AskEvent
<1>10. ASSUME NEW m, In(m, net'[Answerer]), m.kind = "INVITE"
       PROVE  RoomNext(m.at + 99 + SpareNext) /\ (Holds \/ m.at <= Latest + 99)
  <2>1. m.at \in Nat /\ m.at <= now + 99
    BY <1>1, <1>5, <1>10
  <2>2. CASE In(m, net[Answerer])
    <3>1. Room(m.at + 99 + Spare) /\ (Holds \/ m.at <= Latest + 99)
      BY <1>1, <1>10, <2>2 DEF Timely, Offer
    <3>2. bob.connect /\ (alice.ua = "ringing" => Asker = "bob")
      BY <1>1, <1>6, <1>10, <2>2 DEF Offer
    <3>3. /\ m.at + 99 + Spare \in Nat /\ m.at + 99 + SpareNext \in Nat
          /\ m.at + 99 + SpareNext <= m.at + 99 + Spare
          /\ Asker = "bob" => m.at + 99 + Spare <= 798
      BY <1>1, <1>2, <1>3, <2>1, <3>1
    <3>4. QED
      BY <3>1, <3>2, <3>3, RoomKept
  <2>3. ASSUME NEW t, AskDone(Asker, t)
        PROVE  RoomNext(m.at + 99 + SpareNext) /\ (Holds \/ m.at <= Latest + 99)
    <3>1. /\ now + 198 + Spare \in Nat /\ m.at + 99 + SpareNext \in Nat
          /\ m.at + 99 + SpareNext <= now + 198 + Spare
      BY <1>1, <1>2, <2>1
    <3>2. RoomNext(m.at + 99 + SpareNext)
      BY <1>9, <2>3, <3>1, RoomKept
    <3>3. QED
      BY <1>1, <1>3, <1>9, <2>1, <2>3, <3>2
  <2>4. QED
    BY <1>10, <2>2, <2>3, OfferFrom
<1>11. ASSUME NEW m, In(m, net'[Asker]), m.kind \in Reply
       PROVE  RoomNext(m.at + SpareNext) /\ (Holds \/ m.at <= Latest + 198)
  <2>1. m.at \in Nat /\ m.at <= now + 99
    BY <1>1, <1>5, <1>11
  <2>2. CASE In(m, net[Asker])
    <3>1. Room(m.at + Spare) /\ (Holds \/ m.at <= Latest + 198)
      BY <1>1, <1>11, <2>2 DEF Timely
    <3>2. bob.connect /\ (alice.ua = "ringing" => Asker = "bob")
      BY <1>1, <1>6, <1>11, <2>2
    <3>3. /\ m.at + Spare \in Nat /\ m.at + SpareNext \in Nat
          /\ m.at + SpareNext <= m.at + Spare
          /\ Asker = "bob" => m.at + Spare <= 798
      BY <1>1, <1>2, <1>3, <2>1, <3>1
    <3>4. QED
      BY <3>1, <3>2, <3>3, RoomKept
  <2>3. ASSUME NEW t, AskDone(Asker, t)
        PROVE  RoomNext(m.at + SpareNext) /\ (Holds \/ m.at <= Latest + 198)
    <3>1. /\ now + 198 + Spare \in Nat /\ m.at + SpareNext \in Nat
          /\ m.at + SpareNext <= now + 198 + Spare
      BY <1>1, <1>2, <2>1
    <3>2. RoomNext(m.at + SpareNext)
      BY <1>9, <2>3, <3>1, RoomKept
    <3>3. QED
      BY <1>1, <1>3, <1>9, <2>1, <2>3, <3>2
  <2>4. CASE InviteDone(Answerer)
    <3>1. /\ In(Head(net[Answerer]), net[Answerer]) /\ Head(net[Answerer]).at = now
          /\ Head(net[Answerer]).kind = "INVITE"
      BY <1>1, <2>4, DueNow DEF InviteDone
    <3>2. Room(now + 99 + Spare) /\ (Holds \/ now <= Latest + 99)
      BY <1>1, <3>1 DEF Timely, Offer
    <3>3. bob.connect /\ (alice.ua = "ringing" => Asker = "bob")
      BY <1>1, <1>6, <3>1 DEF Offer
    <3>4. /\ now + 99 + Spare \in Nat /\ m.at + SpareNext \in Nat
          /\ m.at + SpareNext <= now + 99 + Spare
          /\ Asker = "bob" => now + 99 + Spare <= 798
      BY <1>1, <1>2, <1>3, <2>1, <3>2
    <3>5. RoomNext(m.at + SpareNext)
      BY <3>2, <3>3, <3>4, RoomKept
    <3>6. QED
      BY <1>1, <1>3, <2>1, <3>2, <3>5
  <2>5. QED
    BY <1>11, <2>2, <2>3, <2>4, ReplyFrom
<1>12. /\ \A time : Room(time)' <=> RoomNext(time)
       /\ Spare' = SpareNext
  BY <1>1 DEF Room, RoomNext, Spare, SpareNext, alice
<1>13. QED
  BY <1>1, <1>8, <1>10, <1>11, <1>12 DEF Timely, Room, RoomNext, Offer

-----------------------------------------------------------------------------
(* The bad ACK                                                             *)

\* A BYE that reaches a side ends the call.
LEMMA ByeIsLast ==
    ASSUME Steady, NEW q \in Sides, ByeDone(q)
    PROVE  ssut.leg = "over" /\ Asks(Asker) = {} /\ alice.ua # "ringing"
<1>1. Typed /\ Knows /\ Settled /\ Begun /\ Rung
  BY Parts
<1>2. In(Head(net[q]), net[q]) /\ Head(net[q]).kind = "BYE"
  BY DueNow DEF ByeDone
<1>3. ssut.leg = "over"
  BY <1>1, <1>2 DEF Knows, No, In
<1>4. QED
  BY <1>1, <1>3 DEF Settled, Begun, Rung

LEMMA AckDueStep ==
    ASSUME Going
    PROVE  AckDue'
<1>1. /\ Steady /\ Typed /\ Sane /\ Moved /\ Begun /\ Rung /\ Knows /\ Stage /\ Refusing
      /\ Once /\ Busy /\ Timely /\ AckDue /\ Punctual /\ BobsTimers /\ Clean
      /\ "alice" \in Sides /\ "bob" \in Sides /\ alice = side["alice"] /\ bob = side["bob"]
      /\ scn' = scn /\ now' = now /\ now \in Nat /\ ssut \in SsutShape /\ ssut.ackby \in Nat
      /\ InTurn(Asker, Answerer) /\ Within(net', 99) /\ net \in Nets
  BY Parts, Roles, SameRoles, SideTyped, WithinStep DEF Going, Typed, SsutShape
<1>2. scn.cls = "reinv_bad_ack" => Asker = "alice" /\ ~Holds /\ scn.cls \notin Refused
  BY <1>1, Roles DEF Holds, Refused
<1>3. ASSUME ssut'.ackby # Never
      PROVE  scn.cls = "reinv_bad_ack" /\ side'["alice"].done
  <2>1. CASE ssut'.ackby = ssut.ackby
    BY <1>1, <1>3, <2>1, StaysDone DEF AckDue
  <2>2. CASE ssut'.ackby # ssut.ackby
    <3>1. PICK q \in Sides : OkDone(q) /\ ssut' = [ssut EXCEPT !.ackby = now + AckTimeout]
      BY <1>3, <2>2, SessionSteps
    <3>2. ssut' # ssut
      BY <2>2
    <3>3. scn.cls = "reinv_bad_ack"
      BY <3>1, <3>2 DEF OkDone
    <3>4. QED
      BY <1>1, <1>2, <3>1, <3>2, <3>3, OkEvent
  <2>3. QED
    BY <2>1, <2>2
\* What Alice of reinv_bad_ack waits for.
<1>4. ASSUME scn.cls = "reinv_bad_ack", ssut.leg # "over", alice.done
      PROVE  /\ ssut.ackby # Never /\ now <= ssut.ackby /\ Room(ssut.ackby + 99)
             /\ bob.connect /\ alice.ua # "ringing"
  BY <1>1, <1>4 DEF AckDue, Begun
<1>5. ASSUME scn.cls = "reinv_bad_ack", ssut'.leg # "over", side'["alice"].done
      PROVE  ssut'.ackby # Never /\ now <= ssut'.ackby /\ RoomNext(ssut'.ackby + 99)
  <2>1. ssut.leg # "over" /\ ~Left(alice)
    BY <1>1, <1>5, SessionSteps DEF Knows
  <2>2. CASE alice.done
    <3>1. ssut'.ackby = ssut.ackby
      <4>1. ASSUME NEW q \in Sides, OkDone(q)
            PROVE  FALSE
        <5>1. q = "alice" /\ alice.ua = "updating"
          BY <1>1, <1>2, <1>5, <2>1, <4>1, OkEvent
        <5>2. QED
          BY <1>1, <1>2, <1>5, <2>2, <5>1 DEF Once, Busy
      <4>2. QED
        BY <1>5, <4>1, SessionSteps
    <3>2. /\ ssut.ackby # Never /\ now <= ssut.ackby /\ Room(ssut.ackby + 99)
          /\ bob.connect /\ alice.ua # "ringing"
      BY <1>4, <1>5, <2>1, <2>2
    <3>3. ssut.ackby + 99 \in Nat /\ ssut.ackby + 99 <= ssut.ackby + 99
      BY <1>1
    <3>4. RoomNext(ssut.ackby + 99)
      BY <3>2, <3>3, RoomKept
    <3>5. QED
      BY <3>1, <3>2, <3>4
  <2>3. CASE ~alice.done
    <3>1. OkDone("alice") /\ alice.ua = "updating"
      <4>1. ~ByeDone("alice")
        BY <1>1, <2>1, ByeIsLast
      <4>2. ~RefusalDone("alice")
        BY <1>1, <1>2, <1>5, RefusalEvent
      <4>3. QED
        BY <1>1, <1>5, <2>3, <4>1, <4>2, DoneFrom
    <3>2. /\ In(Head(net["alice"]), net["alice"]) /\ Head(net["alice"]).at = now
          /\ Head(net["alice"]).kind = "200"
      BY <1>1, <3>1, DueNow DEF OkDone
    <3>3. bob.connect
      BY <1>1, <3>1 DEF Begun
    <3>4. ssut.leg = "up"
      BY <1>1, <2>1, <3>3 DEF Rung, SsutShape
    <3>5. ssut' = [ssut EXCEPT !.ackby = now + AckTimeout]
      BY <1>1, <1>5, <3>1, <3>4 DEF OkDone, Clean
    <3>6. ssut'.ackby = now + 3200
      BY <1>1, <3>5 DEF SsutShape, AckTimeout
    <3>7. Spare = 3299
      <4>1. alice.sched = <<>>
        BY <1>1, <1>2, <1>5 DEF Once
      <4>2. QED
        BY <1>5, <4>1 DEF Spare
    <3>8. Room(now + 3299)
      BY <1>1, <1>2, <1>5, <3>2, <3>7 DEF Timely, Reply
    <3>9. now <= 6100
      <4>1. now <= BobLeaves
        BY <1>1, <2>1, BeforeTheEnd
      <4>2. QED
        BY <1>5, <4>1 DEF BobLeaves, AnswerIval, DisconnectIval
    <3>10. now + 3299 \in Nat /\ now + 3200 + 99 \in Nat /\ now + 3200 + 99 <= now + 3299
           /\ now + 3200 # Never /\ now <= now + 3200
      BY <1>1, <3>9 DEF Never
    <3>11. RoomNext(now + 3200 + 99)
      BY <3>1, <3>3, <3>8, <3>10, RoomKept
    <3>12. QED
      BY <3>6, <3>10, <3>11
  <2>4. QED
    BY <2>2, <2>3
<1>6. ASSUME scn.cls = "reinv_bad_ack", ssut'.leg = "over"
      PROVE  \/ Left(side'["alice"])
             \/ \E m : /\ In(m, net'["alice"]) /\ m.kind = "BYE"
                       /\ \A u \in side'["alice"].timers : u.cb = "disconnect" => m.at < u.at
  <2>1. CASE ssut.leg = "over" /\ Left(alice)
    BY <1>1, <2>1, LeftStays
  <2>2. CASE ssut.leg = "over" /\ ~Left(alice)
    <3>1. PICK m : /\ In(m, net["alice"]) /\ m.kind = "BYE"
                   /\ \A u \in alice.timers : u.cb = "disconnect" => m.at < u.at
      BY <1>1, <1>6, <2>2 DEF AckDue
    <3>2. alice.ua # "ringing"
      BY <1>1, <2>2 DEF Begun, Rung
    <3>3. \A u \in side'["alice"].timers : u.cb = "disconnect" => u \in alice.timers
      BY <1>1, <1>2, <1>6, <3>2, HangUpsSet
    <3>4. CASE In(m, net'["alice"])
      BY <3>1, <3>3, <3>4
    <3>5. CASE m = Head(net["alice"]) /\ Hears("alice")
      <4>1. ByeDone("alice")
        BY <3>1, <3>5 DEF Hears, ConnectedDone, InviteDone, OkDone, RefusalDone, Arrives
      <4>2. QED
        BY <4>1 DEF ByeDone, Left
    <3>6. QED
      BY <1>1, <3>1, <3>4, <3>5, MessageStays
  <2>3. CASE ssut.leg # "over"
    <3>1. alice.done
      <4>1. ~ssut.refused
        BY <1>1, <1>2, <1>6 DEF Refusing
      <4>2. QED
        BY <1>1, <1>2, <1>6, <2>3, <4>1, EndsWell DEF Idle
    <3>2. now <= ssut.ackby /\ Room(ssut.ackby + 99)
      BY <1>4, <1>6, <2>3, <3>1
    <3>3. Room(now + 99)
      <4>1. now + 99 \in Nat /\ ssut.ackby + 99 \in Nat /\ now + 99 <= ssut.ackby + 99
        BY <1>1, <3>2
      <4>2. QED
        BY <1>1, <3>2, <4>1, RoomLess
    <3>4. ASSUME NEW p \in Sides, HangsUp(p), ~Left(side[p]), Left(side'[p])
          PROVE  FALSE
      <4>1. PICK u : HangDone(p, u)
        BY <3>4 DEF HangsUp
      <4>2. now + 99 \in Nat /\ now <= now + 99
        BY <1>1
      <4>3. QED
        BY <1>1, <1>2, <1>6, <3>3, <4>1, <4>2, RoomOver
    <3>5. ASSUME NEW blame, ByesDone(blame)
          PROVE  \E m : /\ In(m, net'["alice"]) /\ m.kind = "BYE"
                        /\ \A u \in side'["alice"].timers : u.cb = "disconnect" => m.at < u.at
      <4>1. side' = side
        BY <3>5 DEF ByesDone
      <4>2. PICK m : /\ net'["alice"] = Append(net["alice"], m) /\ Behind(net["alice"], m)
                     /\ m.kind = "BYE"
        BY <1>1, <3>5 DEF ByesDone
      <4>3. m \in MsgShape /\ net["alice"] \in Seq(MsgShape)
        BY <1>1, <4>2, SideTyped DEF Behind
      <4>4. In(m, net'["alice"])
        BY <4>2, <4>3, AppendedIn
      <4>5. m.at <= now + 99 /\ m.at \in Nat
        BY <1>1, <4>3, <4>4 DEF Within, MsgShape
      <4>6. ASSUME NEW u \in side'["alice"].timers, u.cb = "disconnect"
            PROVE  m.at < u.at
        <5>1. now + 99 < u.at
          BY <1>1, <1>2, <1>6, <3>3, <4>1, <4>6 DEF Room
        <5>2. u.at \in Nat
          BY <1>1, <4>1, <4>6, DueNow
        <5>3. QED
          BY <1>1, <4>5, <5>1, <5>2
      <4>7. QED
        BY <4>2, <4>4, <4>6
    <3>6. QED
      BY <1>1, <1>6, <2>3, <3>4, <3>5, CallEnds
  <2>4. QED
    BY <2>1, <2>2, <2>3
<1>7. \A time : Room(time)' <=> RoomNext(time)
  BY <1>1 DEF Room, RoomNext, Holds
<1>8. QED
  BY <1>1, <1>3, <1>5, <1>6, <1>7 DEF AckDue, alice, Room, RoomNext

-----------------------------------------------------------------------------
(* Holds                                                                   *)

\* Alice's phone rings until she hears of Bob's answer.
LEMMA RingEnds ==
    ASSUME Going, alice.ua = "ringing"
    PROVE  side'["alice"] = side["alice"] \/ ConnectedDone
<1>1. /\ Typed /\ Begun /\ Rung /\ Moved /\ alice = side["alice"] /\ "alice" \in Sides
  BY Parts, Roles DEF Going
<1>2. alice.timers = {} /\ alice.ua # "ended"
      /\ (net["alice"] # <<>> => Head(net["alice"]).kind = "answer")
  BY <1>1 DEF Begun, Rung
<1>3. Does("alice") => ConnectedDone
  BY <1>1, <1>2 DEF Does, AskDone, Asks, LateDone, Owed, HangDone, DeadDone,
     InviteDone, OkDone, RefusalDone, ByeDone, Arrives
<1>4. QED
  BY <1>1, <1>3, SideDoes

LEMMA AskStays ==
    ASSUME Going, NEW t \in Asks(Asker)
    PROVE  t \in Asks(Asker)' \/ AskDone(Asker, t)
<1>1. Typed /\ Moved /\ Asker \in Sides /\ Asker' = Asker
  BY Parts, Roles, SameRoles DEF Going
<1>2. ~LateDone(Asker, t) /\ ~HangDone(Asker, t) /\ ~ConnectDone(t)
  BY DEF Asks, LateDone, Owed, HangDone, ConnectDone
<1>3. t \in side[Asker].timers
  BY DEF Asks
<1>4. QED
  BY <1>1, <1>2, <1>3, TimerStays DEF Asks

\* How a re-INVITE of Alice's is counted, and what an answer to it leaves.
LEMMA HoldSteps ==
    ASSUME Going, Holds
    PROVE  \/ \E t : /\ AskDone("alice", t) /\ Asks("alice") # {} /\ Asks("alice")' = {}
                     /\ side'["alice"].holds = alice.holds
                            + (IF t.cb = "reinvite" THEN 1 ELSE 0)
                     /\ side'["alice"].offs = alice.offs
                            + (IF t.cb = "off_hold" THEN 1 ELSE 0)
                     /\ side'["alice"].sched = alice.sched
                     /\ side'["alice"].ua # "ringing" /\ alice.ua # "ringing"
           \/ /\ side'["alice"].holds = alice.holds /\ side'["alice"].offs = alice.offs
              /\ \/ OkDone("alice") /\ ~Left(alice) /\ HoldDone(side'["alice"], alice)
                 \/ /\ side'["alice"].sched = alice.sched
                    /\ alice.ua = "ringing" =>
                           side'["alice"].ua = "ringing" \/ Asks("alice")' # {}
                    /\ Asks("alice") # {} => Asks("alice")' # {}
                    /\ Asks("alice")' # {} => Asks("alice") # {} \/ alice.ua = "ringing"
<1>1. /\ Steady /\ Typed /\ Moved /\ Asker = "alice" /\ "alice" \in Sides
      /\ alice = side["alice"] /\ scn.cls = "reinv_onhold" /\ scn' = scn
      /\ Asker = Reinviter(scn.cls)
      /\ Asks(Asker) = Asks("alice") /\ Asks(Asker)' = Asks("alice")'
  <2>1. Typed /\ Asker' = Asker
    BY Parts, SameRoles DEF Going
  <2>2. Asker = "alice"
    BY <2>1, Roles
  <2>3. Asks(Asker) = Asks("alice") /\ Asks(Asker)' = Asks("alice")'
    BY <2>1, <2>2 DEF Asks
  <2>4. QED
    BY <2>2, <2>3, Parts, Roles DEF Going, Holds
<1>2. CASE \E t : AskDone("alice", t)
  <2>1. PICK t : AskDone("alice", t)
    BY <1>2
  <2>2. /\ MayReinvite(alice) /\ t \in Asks("alice")
        /\ \A u \in side'["alice"].timers : u.cb \notin {"reinvite", "off_hold"}
        /\ Same(side'["alice"], alice, {"timers", "offs", "holds", "ua", "busy"})
        /\ side'["alice"].ua = "updating"
    BY <1>1, <2>1, AskEvent
  <2>3. Asks("alice")' = {}
    BY <2>2 DEF Asks
  <2>4. alice.ua # "ringing"
    BY <1>1, <2>2, StillRinging
  <2>5. /\ side'["alice"].holds = alice.holds + (IF t.cb = "reinvite" THEN 1 ELSE 0)
        /\ side'["alice"].offs = alice.offs + (IF t.cb = "off_hold" THEN 1 ELSE 0)
    BY <1>1, <2>1, <2>2 DEF AskDone
  <2>6. side'["alice"].sched = alice.sched
    BY <2>2 DEF Same, Fields
  <2>7. QED
    BY <2>1, <2>2, <2>3, <2>4, <2>5, <2>6
<1>3. CASE ~\E t : AskDone("alice", t)
  <2>1. side'["alice"].holds = alice.holds /\ side'["alice"].offs = alice.offs
    BY <1>1, <1>3, HoldsFrom
  <2>2. CASE OkDone("alice") /\ ~Left(alice)
    <3>1. HoldDone(side'["alice"], alice)
      BY <1>1, <2>2, OkEvent
    <3>2. QED
      BY <2>1, <2>2, <3>1
  <2>3. CASE ~(OkDone("alice") /\ ~Left(alice))
    <3>1. side'["alice"].sched = alice.sched
      BY <1>1, <2>3, StaysDone
    <3>2. ASSUME alice.ua = "ringing"
          PROVE  side'["alice"].ua = "ringing" \/ Asks("alice")' # {}
      <4>1. CASE side'["alice"] = side["alice"]
        BY <1>1, <3>2, <4>1
      <4>2. CASE ConnectedDone
        <5>1. Timer("reinvite", ReinviteIval(scn.cls)) \in side'["alice"].timers
          BY <1>1, <3>2, <4>2 DEF ConnectedDone
        <5>2. QED
          BY <5>1 DEF Asks, Timer
      <4>3. QED
        BY <3>2, <4>1, <4>2, RingEnds
    <3>3. Asks("alice") # {} => Asks("alice")' # {}
      BY <1>1, <1>3, AskStays
    <3>4. ASSUME NEW u \in Asks("alice")', Asks("alice") = {}
          PROVE  alice.ua = "ringing"
      BY <1>1, <2>3, <3>4, AskFrom DEF Left
    <3>5. QED
      BY <2>1, <3>1, <3>2, <3>3, <3>4
  <2>4. QED
    BY <2>2, <2>3
<1>4. QED
  BY <1>2, <1>3

LEMMA CountingStep ==
    ASSUME Going
    PROVE  Counting'
<1>1. /\ Steady /\ Typed /\ Moved /\ Counting /\ alice = side["alice"] /\ "alice" \in Sides
      /\ scn' = scn /\ (Holds' <=> Holds) /\ InTurn(Asker, Answerer) /\ Counted
      /\ side["alice"] \in SideShape
      /\ alice.sched \in Seq(Nat) /\ Len(alice.sched) \in Nat
      /\ Holds => Asker = "alice"
  BY Parts, Roles, SameRoles, SideTyped, SpareNat DEF Going
<1>2. SUFFICES ASSUME Holds
               PROVE  /\ \A i \in 1..Len(side'["alice"].sched) : side'["alice"].sched[i] <= 19
                      /\ side'["alice"].holds + side'["alice"].offs + Len(side'["alice"].sched)
                           >= (IF side'["alice"].ua = "ringing" \/ Asks("alice")' # {}
                               THEN 4 ELSE 5)
                      /\ \/ side'["alice"].holds + side'["alice"].offs >= 2
                         \/ (side'["alice"].holds + side'["alice"].offs >= 1
                             /\ Asks("alice")' # {})
                         => side'["alice"].done
  BY <1>1 DEF Counting, alice
<1>3. /\ \A i \in 1..Len(alice.sched) : alice.sched[i] <= 19
      /\ alice.holds + alice.offs + Len(alice.sched)
             >= (IF alice.ua = "ringing" \/ Asks("alice") # {} THEN 4 ELSE 5)
      /\ \/ alice.holds + alice.offs >= 2
         \/ alice.holds + alice.offs >= 1 /\ Asks("alice") # {}
         => alice.done
      /\ alice.holds \in Nat /\ alice.offs \in Nat
  BY <1>1, <1>2 DEF Counting, SideShape
<1>4. alice.done => side'["alice"].done
  BY <1>1, StaysDone
<1>5. ASSUME NEW t, AskDone("alice", t), Asks("alice") # {}, Asks("alice")' = {},
             side'["alice"].holds = alice.holds + (IF t.cb = "reinvite" THEN 1 ELSE 0),
             side'["alice"].offs = alice.offs + (IF t.cb = "off_hold" THEN 1 ELSE 0),
             side'["alice"].sched = alice.sched,
             side'["alice"].ua # "ringing", alice.ua # "ringing"
      PROVE  /\ \A i \in 1..Len(side'["alice"].sched) : side'["alice"].sched[i] <= 19
             /\ side'["alice"].holds + side'["alice"].offs + Len(side'["alice"].sched) >= 5
             /\ side'["alice"].holds + side'["alice"].offs >= 2 => side'["alice"].done
  <2>1. t.cb = "reinvite" \/ t.cb = "off_hold"
    BY <1>5 DEF AskDone, Asks
  <2>2. alice.holds + alice.offs + Len(alice.sched) >= 4 /\ (alice.holds + alice.offs >= 1 => alice.done)
    BY <1>3, <1>5
  <2>3. side'["alice"].holds + side'["alice"].offs = alice.holds + alice.offs + 1
    BY <1>3, <1>5, <2>1
  <2>4. alice.holds + alice.offs \in Nat
    BY <1>3
  <2>5. side'["alice"].holds + side'["alice"].offs + Len(alice.sched) >= 5
    BY <1>1, <2>2, <2>3, <2>4
  <2>6. side'["alice"].holds + side'["alice"].offs >= 2 => alice.holds + alice.offs >= 1
    BY <2>3, <2>4
  <2>7. QED
    BY <1>3, <1>4, <1>5, <2>2, <2>5, <2>6
<1>6. ASSUME side'["alice"].holds = alice.holds, side'["alice"].offs = alice.offs,
             OkDone("alice"), ~Left(alice), HoldDone(side'["alice"], alice)
      PROVE  /\ \A i \in 1..Len(side'["alice"].sched) : side'["alice"].sched[i] <= 19
             /\ side'["alice"].holds + side'["alice"].offs + Len(side'["alice"].sched)
                  >= (IF side'["alice"].ua = "ringing" \/ Asks("alice")' # {}
                      THEN 4 ELSE 5)
             /\ side'["alice"].done
  <2>1. side'["alice"].done /\ alice.ua = "updating" /\ side'["alice"].ua = "up"
    BY <1>1, <1>2, <1>6, OkEvent
  <2>2. Asks("alice") = {} /\ alice.ua # "ringing"
    BY <1>1, <1>2, <2>1 DEF InTurn
  <2>3. alice.holds + alice.offs + Len(alice.sched) >= 5
    BY <1>3, <2>2
  <2>4. CASE alice.sched = <<>>
    <3>1. side'["alice"].sched = alice.sched /\ side'["alice"].timers = alice.timers
      BY <1>6, <2>4 DEF HoldDone
    <3>2. Asks("alice")' = {}
      BY <1>1, <2>2, <3>1 DEF Asks
    <3>3. QED
      BY <1>3, <1>6, <2>1, <2>3, <3>1, <3>2
  <2>5. CASE alice.sched # <<>>
    <3>1. Len(alice.sched) > 0
      BY <1>1, <2>5
    <3>2. /\ side'["alice"].sched = SubSeq(alice.sched, 1, Len(alice.sched) - 1)
          /\ Len(side'["alice"].sched) = Len(alice.sched) - 1
      BY <1>6, <2>5 DEF HoldDone
    <3>3. \A i \in 1..Len(side'["alice"].sched) :
              i \in 1..Len(alice.sched) /\ side'["alice"].sched[i] = alice.sched[i]
      BY <1>1, <3>1, <3>2
    <3>4. \A i \in 1..Len(side'["alice"].sched) : side'["alice"].sched[i] <= 19
      BY <1>3, <3>3
    <3>5. side'["alice"].holds + side'["alice"].offs + Len(side'["alice"].sched) >= 4
      BY SMTT(30), <1>1, <1>3, <1>6, <2>3, <3>2
    <3>6. Asks("alice")' # {}
      <4>1. PICK ival : Timer(IF alice.holds > alice.offs THEN "off_hold" ELSE "reinvite", ival)
                            \in side'["alice"].timers
        BY <1>6, <2>5 DEF HoldDone
      <4>2. QED
        BY <4>1 DEF Asks, Timer
    <3>7. QED
      BY <2>1, <3>4, <3>5, <3>6
  <2>6. QED
    BY <2>4, <2>5
<1>7. ASSUME side'["alice"].holds = alice.holds, side'["alice"].offs = alice.offs,
             side'["alice"].sched = alice.sched,
             alice.ua = "ringing" => side'["alice"].ua = "ringing" \/ Asks("alice")' # {},
             Asks("alice") # {} => Asks("alice")' # {},
             Asks("alice")' # {} => Asks("alice") # {} \/ alice.ua = "ringing"
      PROVE  /\ side'["alice"].holds + side'["alice"].offs + Len(side'["alice"].sched)
                  >= (IF side'["alice"].ua = "ringing" \/ Asks("alice")' # {}
                      THEN 4 ELSE 5)
             /\ \/ side'["alice"].holds + side'["alice"].offs >= 2
                \/ (side'["alice"].holds + side'["alice"].offs >= 1 /\ Asks("alice")' # {})
                => side'["alice"].done
  <2>1. alice.ua = "ringing" => alice.holds = 0 /\ alice.offs = 0
    BY <1>1, StillRinging
  <2>2. QED
    BY <1>1, <1>3, <1>4, <1>7, <2>1
<1>8. QED
  BY <1>2, <1>3, <1>5, <1>6, <1>7, HoldSteps

\* When no re-INVITE is under way and none is to come, Alice has sent them all.
LEMMA AllSent ==
    ASSUME Steady, Holds, Asks(Asker) = {}, alice.ua # "ringing", alice.sched = <<>>
    PROVE  OnHoldOver(alice)
<1>1. /\ Typed /\ Counting /\ Counted /\ alice = side["alice"] /\ Asker = "alice"
      /\ side["alice"] \in SideShape /\ scn.cls = "reinv_onhold"
  BY Parts, Roles, SideTyped DEF Holds
<1>2. alice.holds \in Nat /\ alice.offs \in Nat /\ Len(alice.sched) = 0
  BY <1>1 DEF SideShape
<1>3. alice.holds + alice.offs + Len(alice.sched) >= 5
  BY <1>1 DEF Counting
<1>4. /\ alice.holds + alice.offs + Len(alice.sched) <= 5
      /\ alice.holds = alice.offs \/ alice.holds = alice.offs + 1
  BY <1>1 DEF Counted, Tally
<1>5. QED
  BY <1>2, <1>3, <1>4 DEF OnHoldOver

LEMMA FollowingStep ==
    ASSUME Going
    PROVE  Following'
<1>1. /\ Steady /\ Typed /\ Sane /\ Moved /\ Knows /\ Stage /\ Settled /\ Following /\ Begun
      /\ alice = side["alice"] /\ bob = side["bob"] /\ "alice" \in Sides /\ "bob" \in Sides
      /\ scn' = scn /\ (Holds' <=> Holds) /\ Clean /\ InTurn(Asker, Answerer)
      /\ Holds => Asker = "alice" /\ Answerer = "bob" /\ scn.cls = "reinv_onhold"
      /\ net \in Nets /\ net["bob"] \in Seq(MsgShape) /\ Prompt
      /\ Other("alice") = "bob" /\ Other("bob") = "alice" /\ Asker = Reinviter(scn.cls)
  BY Parts, Roles, SameRoles, SideTyped DEF Going, Holds
<1>2. ASSUME Holds
      PROVE  \A i, j \in 1..Len(net'["bob"]) :
                 i < j /\ net'["bob"][i].kind = "BYE" => net'["bob"][j].kind # "INVITE"
  <2>1. \A i, j \in 1..Len(net["bob"]) :
            i < j /\ net["bob"][i].kind = "BYE" => net["bob"][j].kind # "INVITE"
    BY <1>1, <1>2 DEF Following
  <2>2. CASE QueueKept("bob")
    BY <2>1, <2>2 DEF QueueKept
  <2>3. CASE QueueShorter("bob")
    <3>1. net["bob"] # <<>> /\ net'["bob"] = Tail(net["bob"])
      BY <2>3 DEF QueueShorter
    <3>2. /\ Len(Tail(net["bob"])) = Len(net["bob"]) - 1 /\ Len(net["bob"]) \in Nat
          /\ \A i \in 1..Len(Tail(net["bob"])) :
                 i + 1 \in 1..Len(net["bob"]) /\ Tail(net["bob"])[i] = net["bob"][i + 1]
      BY <1>1, <3>1, TakenDoes
    <3>3. ASSUME NEW i \in 1..Len(net'["bob"]), NEW j \in 1..Len(net'["bob"]),
                 i < j, net'["bob"][i].kind = "BYE", net'["bob"][j].kind = "INVITE"
          PROVE  FALSE
      <4>1. /\ i + 1 \in 1..Len(net["bob"]) /\ j + 1 \in 1..Len(net["bob"]) /\ i + 1 < j + 1
            /\ net["bob"][i + 1].kind = "BYE" /\ net["bob"][j + 1].kind = "INVITE"
        BY <3>1, <3>2, <3>3
      <4>2. QED
        BY <2>1, <4>1
    <3>4. QED
      BY <3>3
  <2>4. ASSUME NEW m, Joins("bob", m)
        PROVE  \A i, j \in 1..Len(net'["bob"]) :
                   i < j /\ net'["bob"][i].kind = "BYE" => net'["bob"][j].kind # "INVITE"
    <3>1. net'["bob"] = Append(net["bob"], m) /\ m \in MsgShape /\ Cause("bob", m)
      BY <2>4 DEF Joins, Behind
    <3>2. m.kind = "INVITE" => No(net["bob"], {"BYE"})
      <4>1. m.kind = "INVITE" => ssut.leg # "over"
        BY <3>1 DEF Cause, AskCause, EchoCause, ReplyCause, EndCause
      <4>2. QED
        BY <1>1, <4>1 DEF Knows
    <3>3. /\ Len(Append(net["bob"], m)) = Len(net["bob"]) + 1 /\ Len(net["bob"]) \in Nat
          /\ Append(net["bob"], m)[Len(net["bob"]) + 1] = m
          /\ \A i \in 1..Len(net["bob"]) : Append(net["bob"], m)[i] = net["bob"][i]
      BY <1>1, <3>1
    <3>4. ASSUME NEW i \in 1..Len(net'["bob"]), NEW j \in 1..Len(net'["bob"]),
                 i < j, net'["bob"][i].kind = "BYE", net'["bob"][j].kind = "INVITE"
          PROVE  FALSE
      <4>1. i \in 1..Len(net["bob"]) /\ net["bob"][i].kind = "BYE"
        BY <3>1, <3>3, <3>4
      <4>2. CASE j = Len(net["bob"]) + 1
        BY <3>1, <3>2, <3>3, <3>4, <4>1, <4>2 DEF No
      <4>3. CASE j \in 1..Len(net["bob"])
        BY <2>1, <3>1, <3>3, <3>4, <4>1, <4>3
      <4>4. QED
        BY <3>1, <3>3, <3>4, <4>2, <4>3
    <3>5. QED
      BY <3>4
  <2>5. QED
    BY <1>1, <2>2, <2>3, <2>4, NetJoins DEF QueueMoved
<1>3. ASSUME Holds, ~Left(side'["bob"])
      PROVE  /\ No(net'["bob"], Offer) =>
                    /\ side'["bob"].holds = side'["alice"].holds
                    /\ side'["bob"].offs = side'["alice"].offs
             /\ \A m : In(m, net'["bob"]) /\ m.kind \in Offer =>
                    IF m.body = "hold"
                    THEN /\ side'["bob"].holds + 1 = side'["alice"].holds
                         /\ side'["bob"].offs = side'["alice"].offs
                    ELSE /\ side'["bob"].holds = side'["alice"].holds
                         /\ side'["bob"].offs + 1 = side'["alice"].offs
  <2>1. ~Left(bob)
    BY <1>1, <1>3, LeftStays
  <2>2. /\ No(net["bob"], Offer) => bob.holds = alice.holds /\ bob.offs = alice.offs
        /\ \A m : In(m, net["bob"]) /\ m.kind \in Offer =>
               IF m.body = "hold" THEN bob.holds + 1 = alice.holds /\ bob.offs = alice.offs
               ELSE bob.holds = alice.holds /\ bob.offs + 1 = alice.offs
    BY <1>1, <1>3, <2>1 DEF Following
  <2>3. bob.holds \in Nat /\ bob.offs \in Nat /\ alice.holds \in Nat /\ alice.offs \in Nat
    BY <1>1, SideTyped DEF SideShape
  <2>4. ASSUME NEW t, AskDone("alice", t)
        PROVE  /\ ~No(net'["bob"], Offer)
               /\ \A m : In(m, net'["bob"]) /\ m.kind \in Offer =>
                    IF m.body = "hold"
                    THEN /\ side'["bob"].holds + 1 = side'["alice"].holds
                         /\ side'["bob"].offs = side'["alice"].offs
                    ELSE /\ side'["bob"].holds = side'["alice"].holds
                         /\ side'["bob"].offs + 1 = side'["alice"].offs
    <3>1. /\ t \in Asks("alice") /\ MayReinvite(alice) /\ ~Left(alice)
          /\ Sent(net, "bob", "INVITE", AskBody(t))
      BY <1>1, <1>3, <2>4, AskEvent
    <3>2. No(net["bob"], Offer)
      BY <1>1, <1>3, <3>1 DEF InTurn
    <3>3. bob.holds = alice.holds /\ bob.offs = alice.offs
      BY <2>2, <3>2
    <3>4. /\ side'["alice"].holds = alice.holds + (IF t.cb = "reinvite" THEN 1 ELSE 0)
          /\ side'["alice"].offs = alice.offs + (IF t.cb = "off_hold" THEN 1 ELSE 0)
          /\ side'["bob"] = bob
      BY <1>1, <1>3, <2>4, <3>1 DEF AskDone, Turn, Sides
    <3>5. AskBody(t) = IF t.cb = "reinvite" THEN "hold" ELSE "plain"
      BY <1>1, <1>3 DEF AskBody
    <3>6. t.cb = "reinvite" \/ t.cb = "off_hold"
      BY <3>1 DEF Asks
    <3>7. PICK x : /\ net'["bob"] = Append(net["bob"], x) /\ x \in MsgShape
                   /\ x.kind = "INVITE" /\ x.body = AskBody(t)
      BY <1>1, <3>1 DEF Sent, Behind, Nets
    <3>8. ~No(net'["bob"], Offer)
      BY <1>1, <3>1, SentNo DEF Offer
    <3>9. ASSUME NEW m, In(m, net'["bob"]), m.kind \in Offer
          PROVE  m = x
      BY <1>1, <3>2, <3>7, <3>9, AppendedIn DEF No, In
    <3>10. QED
      BY <2>3, <3>3, <3>4, <3>5, <3>6, <3>7, <3>8, <3>9
  <2>5. CASE InviteDone("bob")
    <3>1. /\ In(Head(net["bob"]), net["bob"]) /\ Head(net["bob"]).kind = "INVITE"
          /\ net["bob"] # <<>>
      BY <1>1, <2>5, DueNow DEF InviteDone, Arrives
    <3>2. /\ Counts(side'["bob"], bob, Head(net["bob"]).body)
          /\ side'["alice"] = alice
      BY <1>1, <1>3, <2>1, <2>5 DEF InviteDone, Turn, Sides
    <3>3. side'["bob"].holds = side'["alice"].holds /\ side'["bob"].offs = side'["alice"].offs
      BY <2>2, <2>3, <3>1, <3>2 DEF Counts, Offer
    <3>4. net'["bob"] = Tail(net["bob"])
      <4>1. Taken("bob") \in Nets /\ Taken("bob")["bob"] = Tail(net["bob"])
        BY <1>1, <3>1, TakenDoes
      <4>2. SsutFrom("bob", Taken("bob"), "200", "plain") /\ "plain" \in Bodies
        BY <1>1, <1>3, <2>1, <2>5 DEF InviteDone, Bodies
      <4>3. \/ net' = Taken("bob")
            \/ \E b : Sent(Taken("bob"), "alice", "200", b)
        BY <1>1, <4>1, <4>2, SsutAccepts
      <4>4. QED
        BY <1>1, <4>1, <4>3, SentNo
    <3>5. No(net'["bob"], Offer)
      <4>1. One(net["bob"], Offer)
        BY <1>1, <1>3 DEF InTurn
      <4>2. QED
        BY <1>1, <3>1, <3>4, <4>1, TailNo DEF Offer
    <3>6. QED
      BY <3>3, <3>5 DEF No, In
  <2>6. CASE ~InviteDone("bob") /\ ~\E t : AskDone("alice", t)
    <3>1. /\ side'["bob"].holds = bob.holds /\ side'["bob"].offs = bob.offs
          /\ side'["alice"].holds = alice.holds /\ side'["alice"].offs = alice.offs
      <4>1. ~\E t : AskDone("bob", t)
        BY <1>1, <1>3 DEF AskDone
      <4>2. QED
        BY <1>1, <2>6, <4>1, HoldsFrom
    <3>2. \A m : In(m, net'["bob"]) /\ m.kind \in Offer => In(m, net["bob"])
      BY <1>1, <1>3, <2>6, OfferFrom DEF Offer
    <3>3. ASSUME NEW m, In(m, net["bob"]), m.kind \in Offer
          PROVE  In(m, net'["bob"])
      <4>1. ~(m = Head(net["bob"]) /\ Hears("bob"))
        BY <2>6, <3>3 DEF Hears, ConnectedDone, OkDone, RefusalDone, ByeDone, Arrives, Offer
      <4>2. QED
        BY <1>1, <3>3, <4>1, MessageStays
    <3>4. No(net'["bob"], Offer) => No(net["bob"], Offer)
      BY <3>3 DEF No, In
    <3>5. QED
      BY <2>2, <3>1, <3>2, <3>4
  <2>7. QED
    BY <2>4, <2>5, <2>6
<1>4. ASSUME Holds, Left(side'["bob"])
      PROVE  side'["bob"].holds = 3 /\ side'["bob"].offs = 2
  <2>1. CASE Left(bob)
    <3>1. ~InviteDone("bob") \/ side'["bob"] = side["bob"]
      BY <1>1, <2>1 DEF InviteDone
    <3>2. side'["bob"].holds = bob.holds /\ side'["bob"].offs = bob.offs
      <4>1. ~\E t : AskDone("bob", t)
        BY <1>1, <1>4 DEF AskDone
      <4>2. QED
        BY <1>1, <2>1, <3>1, <4>1, HoldsFrom
    <3>3. QED
      BY <1>1, <1>4, <2>1, <3>2 DEF Following, OnHoldOver
  <2>2. CASE ~Left(bob)
    <3>1. /\ OnHoldOver(alice) /\ No(net["bob"], Offer)
          /\ side'["bob"].holds = bob.holds /\ side'["bob"].offs = bob.offs
      <4>1. CASE HangsUp("bob")
        <5>1. PICK u : HangDone("bob", u)
          BY <4>1 DEF HangsUp
        <5>2. /\ alice.ua # "ringing" /\ Asks(Asker) = {}
              /\ No(net["bob"], Offer) /\ No(net[Asker], Reply)
          BY <1>1, <1>4, <5>1, NothingToCome
        <5>3. OnHoldOver(alice)
          <6>1. CASE ssut.leg = "over"
            BY <1>1, <1>4, <6>1 DEF Settled
          <6>2. CASE ssut.leg # "over"
            <7>1. alice.sched = <<>>
              BY <1>1, <1>4, <5>2, <6>2 DEF Stage
            <7>2. QED
              BY <1>1, <1>4, <5>2, <7>1, AllSent
          <6>3. QED
            BY <6>1, <6>2
        <5>4. side'["bob"].holds = bob.holds /\ side'["bob"].offs = bob.offs
          BY <1>1, <4>1 DEF HangsUp, Same, Fields
        <5>5. QED
          BY <5>2, <5>3, <5>4
      <4>2. CASE ByeDone("bob")
        <5>1. ssut.leg = "over"
          BY <1>1, <4>2, ByeIsLast
        <5>2. OnHoldOver(alice)
          BY <1>1, <1>4, <5>1 DEF Settled
        <5>3. net["bob"] # <<>> /\ Head(net["bob"]).kind = "BYE"
          BY <4>2 DEF ByeDone, Arrives
        <5>4. net["bob"][1].kind = "BYE" /\ 1 \in 1..Len(net["bob"]) /\ Len(net["bob"]) \in Nat
          BY <1>1, <5>3
        <5>5. No(net["bob"], Offer)
          <6>1. ASSUME NEW j \in 1..Len(net["bob"]), net["bob"][j].kind = "INVITE"
                PROVE  FALSE
            <7>1. j # 1
              BY <5>4, <6>1
            <7>2. 1 < j
              BY <7>1
            <7>3. QED
              BY <1>1, <1>4, <5>4, <6>1, <7>2 DEF Following
          <6>2. QED
            BY <6>1 DEF No, Offer
        <5>6. side'["bob"].holds = bob.holds /\ side'["bob"].offs = bob.offs
          BY <1>1, <4>2 DEF ByeDone, Same, Fields
        <5>7. QED
          BY <5>2, <5>5, <5>6
      <4>3. QED
        BY <1>1, <1>4, <2>2, <4>1, <4>2, Leaves
    <3>2. bob.holds = alice.holds /\ bob.offs = alice.offs
      BY <1>1, <1>4, <2>2, <3>1 DEF Following
    <3>3. QED
      BY <3>1, <3>2 DEF OnHoldOver
  <2>3. QED
    BY <2>1, <2>2
<1>5. QED
  BY <1>1, <1>2, <1>3, <1>4 DEF Following, OnHoldOver, alice, bob

-----------------------------------------------------------------------------
(* Nobody is blamed                                                        *)

LEMMA UnharmedStep ==
    ASSUME Going
    PROVE  Unharmed'
<1>1. /\ Steady /\ Typed /\ Sane /\ Moved /\ Knows /\ Begun /\ Rung /\ Stage /\ Settled
      /\ Refusing /\ Once /\ AckDue /\ Counting /\ Following /\ Unharmed /\ Faultless /\ Busy
      /\ Asker \in Sides /\ Answerer \in Sides /\ "alice" \in Sides /\ "bob" \in Sides
      /\ alice = side["alice"] /\ bob = side["bob"] /\ now \in Nat
      /\ scn' = scn /\ Asker' = Asker /\ Asker = Reinviter(scn.cls)
      /\ Holds => Asker = "alice"
      /\ scn.cls \in Refused => Asker = "alice"
      /\ scn.cls = "reinv_bad_ack" => Asker = "alice" /\ ~Holds
      /\ InTurn(Asker, Answerer)
  BY Parts, Roles, SameRoles, SideTyped DEF Going, Holds
<1>2. side'[Asker].nerrs = 0
  <2>1. SUFFICES ASSUME Erred(Asker)
                 PROVE  side'[Asker].nerrs = side[Asker].nerrs
    BY <1>1, ErrorsFrom DEF Unharmed
  <2>2. ASSUME NEW t, HangDone("alice", t), scn.cls = "reinv_bad_ack", ~Left(alice)
        PROVE  FALSE
    <3>1. t \in alice.timers /\ t.cb = "disconnect" /\ now >= t.at /\ t.at \in Nat
      BY <1>1, <2>2, DueNow DEF HangDone
    <3>2. CASE ssut.leg = "over"
      <4>1. PICK m : In(m, net["alice"]) /\ m.at < t.at
        BY <1>1, <2>2, <3>1, <3>2 DEF AckDue
      <4>2. m.at \in Nat /\ now <= m.at
        BY <1>1, <4>1, DueNow
      <4>3. QED
        BY <1>1, <3>1, <4>1, <4>2
    <3>3. CASE ssut.leg # "over"
      <4>1. /\ alice.ua # "ringing" /\ Asks(Asker) = {}
            /\ No(net[Answerer], Offer) /\ No(net[Asker], Reply)
        BY <1>1, <2>2, NothingToCome
      <4>2. alice.done
        BY <1>1, <2>2, <3>3, <4>1 DEF Stage, Idle
      <4>3. now <= ssut.ackby /\ Room(ssut.ackby + 99) /\ ssut.ackby \in Nat
        BY <1>1, <2>2, <3>3, <4>2 DEF AckDue, Typed, SsutShape
      <4>4. ssut.ackby + 99 \in Nat /\ now <= ssut.ackby + 99
        BY <1>1, <4>3
      <4>5. QED
        BY <1>1, <2>2, <4>3, <4>4, RoomOver
    <3>4. QED
      BY <3>2, <3>3
  <2>3. ASSUME OkDone(Asker)
        PROVE  side'[Asker].nerrs = side[Asker].nerrs
    BY <1>1, <2>3, OkEvent
  <2>4. ASSUME RefusalDone(Asker)
        PROVE  side'[Asker].nerrs = side[Asker].nerrs
    BY <1>1, <2>4, RefusalEvent
  <2>5. ASSUME ByeDone(Asker), ~Left(side[Asker]), side[Asker].busy
        PROVE  side'[Asker].nerrs = side[Asker].nerrs
    <3>1. ssut.leg = "over"
      BY <1>1, <2>5, ByeIsLast
    <3>2. scn.cls \in Refused
      BY <1>1, <2>5, <3>1 DEF Settled, Idle
    <3>3. QED
      BY <1>1, <2>5, <3>2 DEF ByeDone, FailDone
  <2>6. QED
    BY <1>1, <2>1, <2>2, <2>3, <2>4, <2>5 DEF Erred
<1>3. ASSUME Left(side'[Asker])
      PROVE  side'[Asker].done
  <2>1. CASE Left(side[Asker])
    BY <1>1, <2>1, StaysDone DEF Unharmed
  <2>2. CASE ~Left(side[Asker]) /\ HangsUp(Asker)
    <3>1. PICK u : HangDone(Asker, u) /\ ~Polls(Asker)
      BY <2>2 DEF HangsUp
    <3>2. side[Asker].done
      <4>1. CASE Holds
        <5>1. OnHoldOver(alice)
          BY <1>1, <3>1, <4>1 DEF Polls, Holds
        <5>2. alice.holds + alice.offs >= 2
          BY <5>1 DEF OnHoldOver
        <5>3. QED
          BY <1>1, <4>1, <5>2 DEF Counting
      <4>2. CASE ~Holds
        <5>1. /\ alice.ua # "ringing" /\ Asks(Asker) = {}
              /\ No(net[Answerer], Offer) /\ No(net[Asker], Reply)
          BY <1>1, <3>1, <4>2, NothingToCome
        <5>2. Idle
          BY <1>1, <2>2, <5>1 DEF Stage, Settled
        <5>3. QED
          BY <5>2 DEF Idle
      <4>3. QED
        BY <4>1, <4>2
    <3>3. QED
      BY <1>1, <3>2, StaysDone
  <2>3. CASE ~Left(side[Asker]) /\ ByeDone(Asker)
    <3>1. ssut.leg = "over"
      BY <1>1, <2>3, ByeIsLast
    <3>2. CASE Idle
      BY <1>1, <3>2, StaysDone DEF Idle
    <3>3. CASE scn.cls \in Refused /\ ~No(net[Asker], Reply)
      <4>1. side[Asker].ua = "updating"
        BY <1>1, <2>3, <3>3 DEF InTurn
      <4>2. side[Asker].busy
        BY <1>1, <4>1 DEF Busy
      <4>3. QED
        BY <1>1, <2>3, <3>3, <4>2 DEF ByeDone, FailDone
    <3>4. QED
      BY <1>1, <2>3, <3>1, <3>2, <3>3 DEF Settled
  <2>4. QED
    BY <1>1, <1>3, <2>1, <2>2, <2>3, Leaves
<1>4. ASSUME NEW q \in Sides
      PROVE  side'[q].verdict # Failure
  <2>1. CASE side'[q].verdict = side[q].verdict
    BY <1>1, <2>1 DEF Unharmed
  <2>2. CASE DeadDone(q)
    <3>1. side[q].ua = "ended" /\ side'[q].verdict = VerdictAfter(q, side[q])
      BY <2>2 DEF DeadDone
    <3>2. Left(side[q]) /\ side[q].disconnect
      BY <1>1, <3>1 DEF Left, Sane
    <3>3. side[q].connect
      <4>1. q = "alice" \/ q = "bob"
        BY DEF Sides
      <4>2. QED
        BY <1>1, <3>1, <4>1 DEF Rung, Begun
    <3>4. side[q].nerrs = 0
      <4>1. CASE q = Asker
        BY <1>1, <4>1 DEF Unharmed
      <4>2. CASE q # Asker
        BY <1>1, <4>2 DEF Faultless
      <4>3. QED
        BY <4>1, <4>2
    <3>5. ReinviteErrs(q, scn.cls, side[q]) = 0
      <4>1. ~(q = "bob" /\ scn.cls = "reinv_onhold" /\ ~OnHoldOver(side[q]))
        BY <1>1, <3>2 DEF Following, Holds
      <4>2. ~(q = Reinviter(scn.cls) /\ (~side[q].done \/ ~side[q].disconnect))
        BY <1>1, <3>2 DEF Unharmed
      <4>3. QED
        BY <4>1, <4>2 DEF ReinviteErrs
    <3>6. QED
      BY <3>1, <3>2, <3>3, <3>4, <3>5 DEF VerdictAfter, Success, Failure
  <2>3. QED
    BY <1>1, <2>1, <2>2, VerdictStays
<1>5. QED
  BY <1>1, <1>2, <1>3, <1>4 DEF Unharmed

LEMMA SmoothStep ==
    ASSUME Going
    PROVE  Smooth'
<1>1. Within(net', 99) /\ now' = now
  BY Parts, WithinStep DEF Going
<1>2. Within(net, 99)'
  BY <1>1 DEF Within
<1>3. Rung' /\ Stage' /\ Settled' /\ Refusing' /\ Proper' /\ Once'
  BY RungStep, StageStep, SettledStep, RefusingStep, ProperStep, OnceStep
<1>4. Timely' /\ AckDue' /\ Counting' /\ Following' /\ Unharmed'
  BY TimelyStep, AckDueStep, CountingStep, FollowingStep, UnharmedStep
<1>5. QED
  BY <1>2, <1>3, <1>4 DEF Smooth

\* The clock does not pass the moment at which the SSuT gives up.
LEMMA SmoothTick ==
    ASSUME Steady, TickDone \/ Stay
    PROVE  Smooth'
<1>1. /\ Typed /\ Within(net, 99) /\ Rung /\ Stage /\ Settled /\ Refusing /\ Proper /\ Once
      /\ Timely /\ AckDue /\ Counting /\ Following /\ Unharmed
      /\ now \in Nat /\ ssut.ackby \in Nat
  BY Parts DEF Typed, SsutShape
<1>2. /\ scn' = scn /\ side' = side /\ ssut' = ssut /\ net' = net
      /\ now' \in Nat /\ now' >= now
  BY <1>1 DEF TickDone, Stay
<1>3. Within(net, 99)'
  <2>1. ASSUME NEW q \in Sides, NEW m, In(m, net[q])
        PROVE  m.at <= now' + 99
    <3>1. m.at <= now + 99 /\ m.at \in Nat
      BY <1>1, <2>1, DueNow, InTyped DEF Within
    <3>2. QED
      BY <1>1, <1>2, <3>1
  <2>2. QED
    BY <1>2, <2>1 DEF Within
<1>4. ssut.ackby # Never /\ now <= ssut.ackby => now' <= ssut.ackby
  <2>1. CASE TickDone
    BY <2>1 DEF TickDone, Deadlines
  <2>2. CASE Stay
    BY <2>2 DEF Stay
  <2>3. QED
    BY <2>1, <2>2
<1>5. AckDue'
  BY <1>1, <1>2, <1>4 DEF AckDue, Room, Holds, alice, In
<1>6. Rung' /\ Stage' /\ Settled' /\ Refusing' /\ Proper' /\ Once'
  BY <1>1, <1>2 DEF Rung, Stage, Settled, Refusing, Proper, Once, Asker, Answerer, Holds, Idle,
     Asks, alice, bob
<1>7. Counting' /\ Following' /\ Unharmed'
  BY <1>1, <1>2 DEF Counting, Following, Unharmed, Asker, Holds, Asks, alice, bob
<1>8. Timely'
  <2>1. /\ Asker' = Asker /\ Answerer' = Answerer /\ (Holds' <=> Holds) /\ Latest' = Latest
        /\ Asks(Asker)' = Asks(Asker) /\ Spare' = Spare
    BY <1>2, SameRoles DEF Asks, Spare, alice
  <2>2. \A time : Room(time)' <=> Room(time)
    BY <1>2, <2>1 DEF Room
  <2>3. QED
    BY <1>1, <1>2, <2>1, <2>2 DEF Timely, Room
<1>9. QED
  BY <1>3, <1>5, <1>6, <1>7, <1>8 DEF Smooth

\* Four intervals that fit in are short ones.
LEMMA ShortDraws ==
    ASSUME NEW sched \in Scheds("reinv_onhold", Draws), sched \in Seq(Nat), Len(sched) <= 4
    PROVE  Len(sched) = 4 /\ \A i \in 1..Len(sched) : sched[i] <= 19
<1>1. /\ sched \in [1..4 -> Draws]
      /\ sched[1] + sched[2] + sched[3] + sched[4] < 50
  BY DEF Scheds, RingIval, AnswerIval, ReinviteIval, DisconnectIval
<1>2. \A i \in 1..4 : sched[i] \in 10..60
  BY <1>1, ReinviteAssumption
<1>3. /\ sched[1] \in 10..60 /\ sched[2] \in 10..60 /\ sched[3] \in 10..60
      /\ sched[4] \in 10..60
  BY <1>2
<1>4. sched[1] <= 19 /\ sched[2] <= 19 /\ sched[3] <= 19 /\ sched[4] <= 19
  <2>1. \A a, b, c, d \in 10..60 :
            a + b + c + d < 50 => a <= 19 /\ b <= 19 /\ c <= 19 /\ d <= 19
    OBVIOUS
  <2>2. QED
    BY <1>1, <1>3, <2>1
<1>5. DOMAIN sched = 1..4 /\ Len(sched) \in Nat /\ DOMAIN sched = 1..Len(sched)
  BY <1>1, LenProperties
<1>6. Len(sched) = 4
  <2>1. 4 \in 1..Len(sched)
    BY <1>5
  <2>2. QED
    BY <1>5, <2>1
<1>7. \A i \in 1..4 : i = 1 \/ i = 2 \/ i = 3 \/ i = 4
  OBVIOUS
<1>8. QED
  BY <1>4, <1>6, <1>7

LEMMA StartBlameless ==
    ASSUME Start
    PROVE  Blameless
<1>1. /\ "alice" \in Sides /\ "bob" \in Sides /\ alice = side["alice"] /\ bob = side["bob"]
      /\ \A q \in Sides : q = "alice" \/ q = "bob"
      /\ \A q \in Sides : net[q] = <<>>
      /\ ssut = NoSession /\ Asker \in Sides /\ Answerer \in Sides
      /\ \A q \in Sides : \A kinds : No(net[q], kinds)
      /\ \A q \in Sides : \A m : ~In(m, net[q])
      /\ Asker = "alice" \/ Asker = "bob"
      /\ Asker = "bob" <=> scn.cls \in {"reinv_frombob", "nated_contact"}
      /\ Asker = Reinviter(scn.cls)
  BY DEF Start, Sides, alice, bob, No, In, Asker, Answerer, Other, Reinviter
<1>2. \A q \in Sides :
          /\ side[q].ua = "ringing" /\ ~side[q].connect /\ side[q].nerrs = 0 /\ ~side[q].busy
          /\ ~side[q].done /\ side[q].holds = 0 /\ side[q].offs = 0
          /\ side[q].verdict = Pending /\ ~Left(side[q])
          /\ \A t \in side[q].timers : t.cb # "disconnect"
  BY <1>1 DEF Start, Untouched, Left
<1>3. ssut.leg = "calling" /\ ~ssut.refused /\ ssut.ackby = Never
  BY <1>1 DEF NoSession
<1>4. Asks("alice") = {} /\ alice.timers = {}
  BY <1>1 DEF Asks, Start, Untouched
<1>5. \A t \in Asks(Asker) : Asker = "bob" /\ t.at = 600 /\ t.at \in Nat
  BY <1>1, <1>4 DEF Asks, Start, Untouched, ReinviteIval, RingIval, DisconnectIval, Refused
<1>6. Asker = "bob" => Asks(Asker) # {}
  BY <1>1 DEF Asks, Start, Untouched
<1>7. \A time : Room(time)
  BY <1>2 DEF Room
<1>8. ~Holds => alice.sched = <<>>
  BY <1>1 DEF Start, Scheds, Holds
<1>9. Holds => Len(alice.sched) = 4 /\ \A i \in 1..Len(alice.sched) : alice.sched[i] <= 19
  <2>1. alice.sched \in Seq(Nat) /\ Len(alice.sched) <= 4
        /\ (Holds => alice.sched \in Scheds("reinv_onhold", Draws))
    BY <1>1 DEF Start, SideShape, Holds
  <2>2. QED
    BY <2>1, ShortDraws
<1>10. Within(net, 99) /\ Rung /\ Settled /\ Refusing /\ Proper /\ AckDue
  BY <1>1, <1>2, <1>3 DEF Within, Rung, Settled, Refusing, Proper, AckDue
<1>11. Stage
  BY <1>1, <1>2, <1>6 DEF Stage
<1>12. Once
  BY <1>1, <1>2, <1>8 DEF Once
<1>13. Timely
  BY <1>1, <1>5, <1>7 DEF Timely, Latest
<1>14. Counting
  BY SMTT(30), <1>1, <1>2, <1>4, <1>9 DEF Counting
<1>15. Following
  <2>1. Len(net["bob"]) = 0
    BY <1>1
  <2>2. QED
    BY <1>1, <1>2, <2>1 DEF Following
<1>16. Unharmed
  BY <1>1, <1>2 DEF Unharmed, Pending, Failure
<1>17. QED
  BY <1>10, <1>11, <1>12, <1>13, <1>14, <1>15, <1>16 DEF Blameless, Smooth

LEMMA BlamelessStep ==
    ASSUME IInv, Bounded, Ending, Blameless, [Next]_vars, Delays \subseteq 0..99
    PROVE  Blameless'
<1>1. scn' = scn /\ ((Moved /\ now' = now /\ scn' = scn) \/ TickDone \/ Stay)
  BY StepMoves DEF IInv, TickDone, Stay
<1>2. SUFFICES ASSUME Clean
               PROVE  Smooth'
  BY <1>1 DEF Blameless, Clean
<1>3. Steady
  BY <1>2 DEF Steady, Blameless
<1>4. CASE Moved /\ now' = now /\ scn' = scn
  BY <1>3, <1>4, SmoothStep DEF Going
<1>5. CASE TickDone \/ Stay
  BY <1>3, <1>5, SmoothTick
<1>6. QED
  BY <1>1, <1>4, <1>5

\* NoFalseAlarm: a correct SSuT is never blamed, in any class but reinv_adelay
\* and however the holds were drawn, when its messages take less than a second:
\* the re-INVITEs, their refusals, the polling of reinv_onhold and the time-out
\* of the bad ACK all fit between the hang-ups.
THEOREM NobodyBlamed ==
    ASSUME Delays \subseteq 0..99
    PROVE  Spec => []NoFalseAlarm
<1>1. Delays \subseteq 0..300
  OBVIOUS
<1>2. Init => IInv /\ Bounded /\ Ending /\ Blameless
  BY InitStarts, StartHolds, StartBounded, StartEnding, StartBlameless DEF IInv
<1>3. IInv /\ Bounded /\ Ending /\ Blameless /\ [Next]_vars
          => Bounded' /\ Ending' /\ Blameless'
  BY <1>1, BoundedStep, EndingStep, BlamelessStep DEF IInv
<1>4. IInv /\ Blameless => NoFalseAlarm
  <2>1. SUFFICES ASSUME IInv, Blameless, BothReported, Clean, NEW q \in Sides
                 PROVE  Passed(q)
    BY DEF NoFalseAlarm, BothPass, Clean, Sides
  <2>2. side[q].verdict \in {Success, Failure, Pending}
    BY <2>1, SideTyped DEF IInv, SideShape
  <2>3. QED
    BY <2>1, <2>2 DEF Blameless, Smooth, Unharmed, BothReported, Passed
<1>5. QED
  BY <1>2, <1>3, <1>4, ReinviteInvariant, PTL DEF Spec
=============================================================================
