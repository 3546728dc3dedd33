------------------------------ MODULE Opening -------------------------------
(***************************************************************************)
(* How a call of Bob's begins and how an early CANCEL ends it: the first   *)
(* transactions between the SSuT and Bob over a network that delays and    *)
(* reorders datagrams and may lose a few.  Bob's part is the transaction   *)
(* manager BobSTM and recvRequest() of lib/bob_testcore.py with answer()   *)
(* of t1.py; the scenarios are early_cancel, early_cancel_lost100 and, for *)
(* the challenge, a call like t1 with credentials.                         *)
(*                                                                         *)
(* The SSuT is external: one client transaction at a time, which repeats   *)
(* its INVITE until it hears of it, holds a CANCEL back until then, and    *)
(* answers a challenge with a new transaction.  Times are hundredths of a  *)
(* second and the clock jumps to what is due next.                         *)
(***************************************************************************)
EXTENDS TestcoreBase, Sequences

CONSTANTS
    Calls,     \* which [cls, fault] may be run
    Delays,    \* how long a datagram may take
    MaxLoss,   \* how many datagrams the network may lose
    MaxTries   \* how often the SSuT repeats a request

OpeningClasses == {"early_cancel", "early_cancel_lost100", "1"}

ASSUME OpeningAssumption ==
    /\ Calls \subseteq [cls : OpeningClasses, fault : {"none", "deaf"}]
    /\ Delays \subseteq Nat /\ Delays # {}
    /\ MaxLoss \in Nat /\ MaxTries \in Nat

VARIABLES
    now,      \* the clock
    call,     \* the scenario, and whether the SSuT relays a CANCEL
    alice,    \* when she left the call, and her verdict
    client,   \* the SSuT's client transaction
    server,   \* Bob's server transactions: branch |-> what he has made of it
    rval,     \* Bob's counter
    net,      \* datagrams under way
    lost      \* how many have been lost

vars == <<now, call, alice, client, server, rval, net, lost>>

Never == 100000
Pending == 2

\* T1: the first interval after which a request is repeated.
T1 == 50

GoDeadTimeout == 1000

\* From the INVITE to connect(): ring_ival and the least answer_ival.
AnswerAfter == 500 + 800

Early(c) == c # "1"

\* cancel_ival
CancelIval == 1

\* max_delay; Alice of early_cancel_lost100 has that of early_cancel.
MaxDelay(side, c) ==
    IF side = "bob" /\ c = "early_cancel_lost100" THEN 100 ELSE 75

\* A mistake: the delay is not rounded.
Rounded_Not(d) == d

\* round(delay, 1)
Rounded(d) == ((d + 5) \div 10) * 10

\* test_early_cancel.alldone(): by the account of a call that has ended, it was
\* cut off unanswered, and soon.
CutOffEarly(side, delay, connected) ==
    /\ ~connected
    /\ Rounded(delay) <= MaxDelay(side, call.cls)

-----------------------------------------------------------------------------
(* The network is a set of datagrams; n tells copies apart.                *)

Packet(to, kind, branch, n, d) ==
    [to |-> to, kind |-> kind, branch |-> branch, n |-> n, at |-> now + d]

\* Each of kinds is sent once; the copies arrive in any order.
Sent(to, kinds, branch, n, base) ==
    \E d \in [DOMAIN kinds -> Delays] :
        net' = base \cup {Packet(to, kinds[i], branch, n + i - 1, d[i]) : i \in DOMAIN kinds}

Arrived(to, kind) == {m \in net : m.to = to /\ m.kind = kind /\ now >= m.at}

Lose ==
    /\ lost < MaxLoss
    /\ \E m \in net : net' = net \ {m}
    /\ lost' = lost + 1
    /\ UNCHANGED <<now, call, alice, client, server, rval>>

-----------------------------------------------------------------------------
(* Alice, as far as a CANCEL goes                                          *)

\* a_test1.cancel(), 0.01 s after run(): her user agent leaves the call at once.
Cancel ==
    /\ Early(call.cls)
    /\ alice.ended = Never
    /\ now >= CancelIval
    /\ alice' = [alice EXCEPT !.ended = now]
    /\ Sent("ssut", <<"CANCEL">>, 0, 1, net)
    /\ UNCHANGED <<now, call, client, server, rval, lost>>

AliceDead ==
    /\ alice.ended # Never /\ alice.verdict = Pending
    /\ alice' = [alice EXCEPT !.verdict =
                     IF CutOffEarly("alice", alice.ended, FALSE) THEN Success ELSE Failure]
    /\ UNCHANGED <<now, call, client, server, rval, net, lost>>

-----------------------------------------------------------------------------
(* The SSuT's client.  state: "calling", "proceeding", "cancelled", "over". *)

\* A request that has not been answered is repeated after T1, 2 * T1, ...
Repeat(c) == [c EXCEPT !.tries = @ + 1, !.at = IF c.tries < MaxTries
                                               THEN now + T1 * 2 ^ c.tries ELSE Never]

NewClient(branch) ==
    [branch |-> branch, state |-> "calling", cancel |-> FALSE, tries |-> 1,
     at |-> now + T1]

Resend ==
    /\ client.state \in {"calling", "cancelled"}
    /\ now >= client.at
    /\ Sent("bob", <<IF client.state = "calling" THEN "INVITE" ELSE "CANCEL">>,
            client.branch, client.tries + 1, net)
    /\ client' = Repeat(client)
    /\ UNCHANGED <<now, call, alice, server, rval, lost>>

SendCancel(base) ==
    /\ Sent("bob", <<"CANCEL">>, client.branch, 1, base)
    /\ client' = [client EXCEPT !.state = "cancelled", !.cancel = TRUE,
                                !.tries = 1, !.at = now + T1]

\* Alice's CANCEL: kept until the INVITE has been heard of.
SsutCancel ==
    /\ \E m \in Arrived("ssut", "CANCEL") :
           IF call.fault = "none" /\ client.state = "proceeding"
           THEN SendCancel(net \ {m})
           ELSE /\ net' = net \ {m}
                /\ client' = [client EXCEPT !.cancel = @ \/ call.fault = "none"]
    /\ UNCHANGED <<now, call, alice, server, rval, lost>>

SsutTrying ==
    /\ \E m \in Arrived("ssut", "100") :
           CASE m.branch = client.branch /\ client.state = "calling" /\ client.cancel ->
                    SendCancel(net \ {m})
             [] m.branch = client.branch /\ client.state = "calling" /\ ~client.cancel ->
                    /\ net' = net \ {m}
                    /\ client' = [client EXCEPT !.state = "proceeding", !.at = Never]
             [] OTHER -> net' = net \ {m} /\ UNCHANGED client
    /\ UNCHANGED <<now, call, alice, server, rval, lost>>

\* A challenge is answered once: its duplicate belongs to a transaction that is
\* over.
SsutChallenged ==
    /\ \E m \in Arrived("ssut", "401") :
           IF m.branch = client.branch /\ client.state # "over"
           THEN /\ client' = NewClient(client.branch + 1)
                /\ Sent("bob", <<"INVITE">>, client.branch + 1, 1, net \ {m})
           ELSE net' = net \ {m} /\ UNCHANGED client
    /\ UNCHANGED <<now, call, alice, server, rval, lost>>

\* A final answer.
SsutFinal ==
    /\ \E m \in Arrived("ssut", "final") :
           /\ net' = net \ {m}
           /\ client' = IF m.branch = client.branch
                        THEN [client EXCEPT !.state = "over", !.at = Never] ELSE client
    /\ UNCHANGED <<now, call, alice, server, rval, lost>>

-----------------------------------------------------------------------------
(* Bob.  A server transaction: state "trying", "challenged" (its subtest is *)
(* gone), "ended" or "dead"; when it came and when the call ended; whether *)
(* the call was answered; the verdict of the subtest.                      *)

NewSubtest ==
    [state |-> "trying", came |-> now, ended |-> Never, connected |-> FALSE,
     verdict |-> Pending]

\* A mistake: the credentials of a request are not found.
HasCredentials_Never(branch) == FALSE

\* Only an answer to a challenge carries any.
HasCredentials(branch) == branch > 1

\* What a repeated INVITE makes the transaction manager send again.
LastAnswer(t) ==
    CASE t.state = "trying" -> "100"
      [] t.state = "challenged" -> "401"
      [] OTHER -> "final"

\* BobSTM.transmitData(): a 401 goes out twice.  complete_answer() of
\* early_cancel_lost100 makes the first answer, the 100, get lost.
FirstAnswer(kind) ==
    CASE kind = "401" -> <<"401", "401">>
      [] kind = "100" /\ call.cls = "early_cancel_lost100" -> <<>>
      [] OTHER -> <<kind>>

\* The transactions with one more.
Plus(b, t) == [c \in DOMAIN server \cup {b} |-> IF c = b THEN t ELSE server[c]]

\* A mistake: the subtest of a challenged INVITE stays in the counter.
Challenge_Kept(b) ==
    /\ server' = Plus(b, [NewSubtest EXCEPT !.state = "challenged"])
    /\ rval' = rval + 1

\* recvRequest() of an INVITE that answer() challenges: the subtest is listed,
\* counted and taken back.
Challenge(b) ==
    /\ server' = Plus(b, [NewSubtest EXCEPT !.state = "challenged"])
    /\ rval' = rval

\* answer(): with credentials set, and early_cancel.py sets none, an INVITE
\* without any is challenged.
MustAuthenticate(b) == ~Early(call.cls) /\ ~HasCredentials(b)

\* recvRequest() of an INVITE: a new subtest, unless it is a repetition, which
\* does not get past the transaction manager.
Invite ==
    /\ \E m \in Arrived("bob", "INVITE") :
           LET b == m.branch
           IN  CASE b \in DOMAIN server ->
                        /\ Sent("ssut", <<LastAnswer(server[b])>>, b, m.n + 2, net \ {m})
                        /\ UNCHANGED <<server, rval>>
                 [] b \notin DOMAIN server /\ MustAuthenticate(b) ->
                        /\ Challenge(b)
                        /\ Sent("ssut", FirstAnswer("401"), b, 1, net \ {m})
                 [] OTHER ->
                        /\ server' = Plus(b, NewSubtest)
                        /\ rval' = rval + 1
                        /\ Sent("ssut", FirstAnswer("100"), b, 1, net \ {m})
    /\ UNCHANGED <<now, call, alice, client, lost>>

\* A CANCEL ends a call that has not been answered; disconnected() is called with
\* origin "caller".
Cancelled ==
    /\ \E m \in Arrived("bob", "CANCEL") :
           LET b == m.branch
           IN  IF b \in DOMAIN server
               THEN /\ server' = [server EXCEPT ![b] =
                                     IF @.state = "trying"
                                     THEN [@ EXCEPT !.state = "ended", !.ended = now] ELSE @]
                    /\ Sent("ssut", <<"final">>, b, m.n, net \ {m})
               ELSE net' = net \ {m} /\ UNCHANGED server
    /\ UNCHANGED <<now, call, alice, client, rval, lost>>

\* ring() and connect(): nobody has cancelled, the call is answered and, sooner
\* or later, over.
Answer ==
    /\ \E b \in DOMAIN server :
           /\ server[b].state = "trying"
           /\ now >= server[b].came + AnswerAfter
           /\ server' = [server EXCEPT ![b].state = "ended", ![b].ended = now,
                                       ![b].connected = TRUE]
           /\ Sent("ssut", <<"final">>, b, 1, net)
    /\ UNCHANGED <<now, call, alice, client, rval, lost>>

\* alldone() of the scenario and subtest_done().
BobDead ==
    /\ \E b \in DOMAIN server :
           LET t == server[b]
               v == IF Early(call.cls) = CutOffEarly("bob", t.ended - t.came, t.connected)
                    THEN Success ELSE Failure
           IN  /\ t.state = "ended"
               /\ server' = [server EXCEPT ![b].state = "dead", ![b].verdict = v]
               /\ rval' = RvalAfter(rval, v)
    /\ UNCHANGED <<now, call, alice, client, net, lost>>

-----------------------------------------------------------------------------
Deadlines ==
    {m.at : m \in net} \cup ({client.at} \ {Never})
    \cup (IF Early(call.cls) /\ alice.ended = Never THEN {CancelIval} ELSE {})
    \cup (IF alice.ended # Never /\ alice.verdict = Pending
          THEN {alice.ended + GoDeadTimeout} ELSE {})
    \cup {server[b].came + AnswerAfter : b \in {c \in DOMAIN server : server[c].state = "trying"}}
    \cup {server[b].ended + GoDeadTimeout : b \in {c \in DOMAIN server : server[c].state = "ended"}}

Tick ==
    /\ \E t \in Deadlines : t > now /\ (\A u \in Deadlines : u >= t) /\ now' = t
    /\ UNCHANGED <<call, alice, client, server, rval, net, lost>>

\* The SSuT has just relayed Alice's INVITE.
Init ==
    /\ now = 0
    /\ call \in Calls
    /\ alice = [ended |-> Never, verdict |-> Pending]
    /\ client = [branch |-> 1, state |-> "calling", cancel |-> FALSE, tries |-> 1, at |-> T1]
    /\ server = <<>>
    /\ rval = 1
    /\ \E d \in Delays : net = {Packet("bob", "INVITE", 1, 1, d)}
    /\ lost = 0

Progress ==
    \/ Cancel \/ AliceDead
    \/ Resend \/ SsutCancel \/ SsutTrying \/ SsutChallenged \/ SsutFinal
    \/ Invite \/ Cancelled \/ Answer \/ BobDead
    \/ Tick

Next == Progress \/ Lose

\* The network need not lose anything.
Spec == Init /\ [][Next]_vars /\ WF_vars(Progress)

-----------------------------------------------------------------------------
Subtests == {b \in DOMAIN server : server[b].state # "challenged"}

TypeOK ==
    /\ call \in Calls
    /\ client.branch \in 1..2
    /\ client.state \in {"calling", "proceeding", "cancelled", "over"}
    /\ DOMAIN server \subseteq 1..2
    /\ \A b \in DOMAIN server :
           /\ server[b].state \in {"trying", "challenged", "ended", "dead"}
           /\ server[b].verdict \in Verdicts \cup {Pending}
    /\ rval \in 0..3
    /\ lost \in 0..MaxLoss

\* One call makes one subtest, whatever is repeated, duplicated, lost or
\* overtaken on the way: a challenged INVITE leaves no trace in the counter, and
\* a repeated one, or the second 401, makes no second call.
OneSubtestPerCall ==
    /\ Cardinality(Subtests) <= 1
    /\ rval = 1 + Cardinality({b \in Subtests : server[b].verdict # Success})

\* Both sides come to the right verdict: a call with credentials is set up
\* although a datagram is lost, and as long as none is, an early CANCEL reaches
\* Bob within the time he allows, with the 100 or without, and its absence does
\* not go unnoticed.
EventuallyRight ==
    <>[](/\ \A b \in Subtests : server[b].verdict # Pending
         /\ Subtests # {}
         /\ Early(call.cls) => alice.verdict = Success
         /\ ~Early(call.cls) \/ lost = 0 =>
                \A b \in Subtests : server[b].verdict = Success <=> call.fault = "none")
=============================================================================
