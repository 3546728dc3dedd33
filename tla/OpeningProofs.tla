--------------------------- MODULE OpeningProofs ---------------------------
(***************************************************************************)
(* One call makes one subtest of Bob's, for every choice of calls, delays, *)
(* losses and repetitions: over a network that loses, delays and reorders, *)
(* and with the 401 sent twice.                                            *)
(***************************************************************************)
EXTENDS Opening, FiniteSetTheorems, TLAPS

\* The branch whose INVITE makes the subtest: the one that is not challenged.
TheBranch == IF Early(call.cls) THEN 1 ELSE 2

\* The records have the fields that matter here.
IsTransaction(t) == {"state", "verdict"} \subseteq DOMAIN t
IsClient(c) == {"branch", "state"} \subseteq DOMAIN c
Shape == IsClient(client) /\ \A b \in DOMAIN server : IsTransaction(server[b])

\* A datagram to Bob is of a branch the client has begun, a challenge is of one
\* that Bob has challenged.
Truthful(m) ==
    /\ m.to = "bob" => m.branch \in 1..client.branch
    /\ m.to = "ssut" /\ m.kind = "401" =>
           m.branch \in DOMAIN server /\ server[m.branch].state = "challenged"

\* A branch is challenged exactly when it must be, and a second branch begins
\* only in a call whose first one was challenged.
Branches ==
    \A b \in DOMAIN server :
        /\ b \in 1..client.branch
        /\ server[b].state = "challenged" <=> MustAuthenticate(b)

SecondTry ==
    client.branch = 2 =>
        /\ ~Early(call.cls)
        /\ 1 \in DOMAIN server /\ server[1].state = "challenged"

\* The counter: one for the timer and one for the subtest until it passes.
Account ==
    /\ rval = IF TheBranch \in Subtests /\ server[TheBranch].verdict # Success
              THEN 2 ELSE 1
    /\ \A b \in DOMAIN server : server[b].state # "dead" => server[b].verdict = Pending

IInv ==
    /\ TypeOK /\ Shape /\ Branches /\ SecondTry /\ Account
    /\ \A m \in net : Truthful(m)

-----------------------------------------------------------------------------
\* What Sent() adds to the network.
LEMMA SentOnly ==
    ASSUME NEW to, NEW kinds, NEW branch, NEW n, NEW base,
           Sent(to, kinds, branch, n, base)
    PROVE  \A m \in net' :
               \/ m \in base
               \/ /\ m.to = to /\ m.branch = branch
                  /\ \E i \in DOMAIN kinds : m.kind = kinds[i]
BY DEF Sent, Packet

\* Only one branch is ever the subtest of a call.
LEMMA OnlyTheBranch ==
    ASSUME Branches, SecondTry, TypeOK
    PROVE  Subtests \subseteq {TheBranch}
<1> SUFFICES ASSUME NEW b \in DOMAIN server, server[b].state # "challenged"
             PROVE  b = TheBranch
  BY DEF Subtests
<1>1. b \in 1..client.branch /\ ~MustAuthenticate(b) /\ client.branch \in 1..2
  BY DEF Branches, TypeOK
<1>2. CASE Early(call.cls)
  BY <1>1, <1>2 DEF SecondTry, TheBranch
<1>3. CASE ~Early(call.cls)
  BY <1>1, <1>3 DEF TheBranch, MustAuthenticate, HasCredentials
<1> QED BY <1>2, <1>3

\* So it is one subtest, and the counter is one more than the failures.
LEMMA CountOne == IInv => OneSubtestPerCall
<1> SUFFICES ASSUME IInv PROVE OneSubtestPerCall
  OBVIOUS
<1> DEFINE bad == {b \in Subtests : server[b].verdict # Success}
<1>1. Subtests \subseteq {TheBranch}
  BY OnlyTheBranch DEF IInv
<1>2. Cardinality({}) = 0 /\ Cardinality({TheBranch}) = 1
  BY FS_EmptySet, FS_Singleton
<1>3. Cardinality(Subtests) <= 1
  <2>1. Subtests = {} \/ Subtests = {TheBranch}
    BY <1>1
  <2> QED BY <1>2, <2>1
<1>4. bad = IF TheBranch \in Subtests /\ server[TheBranch].verdict # Success
            THEN {TheBranch} ELSE {}
  BY <1>1
<1>5. rval = 1 + Cardinality(bad)
  <2> HIDE DEF bad
  <2>1. rval = IF TheBranch \in Subtests /\ server[TheBranch].verdict # Success
               THEN 2 ELSE 1
    BY DEF IInv, Account
  <2>2. CASE TheBranch \in Subtests /\ server[TheBranch].verdict # Success
    BY <1>2, <1>4, <2>1, <2>2
  <2>3. CASE ~(TheBranch \in Subtests /\ server[TheBranch].verdict # Success)
    BY <1>2, <1>4, <2>1, <2>3
  <2> QED BY <2>2, <2>3
<1> QED BY <1>3, <1>5 DEF OneSubtestPerCall

LEMMA InitIInv == Init => IInv
<1> SUFFICES ASSUME Init PROVE IInv
  OBVIOUS
<1>1. /\ call \in Calls /\ server = <<>> /\ rval = 1 /\ lost = 0
      /\ client = [branch |-> 1, state |-> "calling", cancel |-> FALSE,
                   tries |-> 1, at |-> T1]
  BY DEF Init
<1>2. DOMAIN server = {} /\ client.branch = 1 /\ IsClient(client)
  BY <1>1 DEF IsClient
<1>3. MaxLoss \in Nat
  BY OpeningAssumption
<1>4. TypeOK
  BY <1>1, <1>2, <1>3 DEF TypeOK
<1>5. Shape /\ Branches /\ SecondTry
  BY <1>2 DEF Shape, Branches, SecondTry
<1>6. Account
  BY <1>1, <1>2 DEF Account, Subtests
<1>7. \A m \in net : m.to = "bob" /\ m.branch = 1
  BY DEF Init, Packet
<1>8. \A m \in net : Truthful(m)
  BY <1>2, <1>7 DEF Truthful
<1> QED BY <1>4, <1>5, <1>6, <1>8 DEF IInv

-----------------------------------------------------------------------------
(* Steps that leave Bob alone.                                             *)

\* A step of the client: its branch does not fall, and grows only after a
\* challenge.
LEMMA ClientKeeps ==
    ASSUME IInv,
           UNCHANGED <<call, server, rval>>, lost' \in 0..MaxLoss,
           IsClient(client'), client'.branch = client.branch,
           client'.state \in {"calling", "proceeding", "cancelled", "over"},
           \A m \in net' : Truthful(m)'
    PROVE  IInv'
<1>1. TypeOK'
  BY DEF IInv, TypeOK
<1>2. Shape' /\ Branches' /\ SecondTry'
  BY DEF IInv, Shape, Branches, SecondTry, IsTransaction, MustAuthenticate
<1>3. Account'
  BY DEF IInv, Account, Subtests, TheBranch
<1> QED BY <1>1, <1>2, <1>3 DEF IInv

\* A datagram that was truthful stays so as long as no branch is forgotten.
LEMMA StaysTruthful ==
    ASSUME IInv, client' = client, UNCHANGED server, NEW m \in net
    PROVE  Truthful(m)'
BY DEF IInv, Truthful

\* So a step that only takes datagrams away keeps the invariant.
LEMMA FewerKeeps ==
    ASSUME IInv, UNCHANGED <<call, client, server, rval>>, lost' \in 0..MaxLoss,
           net' \subseteq net
    PROVE  IInv'
<1>1. \A m \in net' : Truthful(m)'
  BY StaysTruthful
<1>2. IsClient(client')
  BY DEF IInv, Shape, IsClient
<1>3. client'.branch = client.branch
      /\ client'.state \in {"calling", "proceeding", "cancelled", "over"}
  BY DEF IInv, TypeOK
<1> QED BY <1>1, <1>2, <1>3, ClientKeeps DEF IInv, TypeOK

LEMMA AliceKeeps ==
    ASSUME IInv, Cancel \/ AliceDead
    PROVE  IInv'
<1>1. UNCHANGED <<call, client, server, rval, lost>> /\ lost \in 0..MaxLoss
  BY DEF Cancel, AliceDead, IInv, TypeOK
<1>2. \A m \in net' : m \in net \/ (m.to = "ssut" /\ m.kind = "CANCEL")
  <2>1. CASE Cancel
    <3>1. Sent("ssut", <<"CANCEL">>, 0, 1, net)
      BY <2>1 DEF Cancel
    <3> QED BY <3>1, SentOnly
  <2>2. CASE AliceDead
    BY <2>2 DEF AliceDead
  <2> QED BY <2>1, <2>2
<1>3. \A m \in net' : Truthful(m)'
  <2> SUFFICES ASSUME NEW m \in net' PROVE Truthful(m)'
    OBVIOUS
  <2>1. CASE m \in net
    BY <1>1, <2>1, StaysTruthful
  <2>2. CASE m.to = "ssut" /\ m.kind = "CANCEL"
    BY <2>2 DEF Truthful
  <2> QED BY <1>2, <2>1, <2>2
<1>4. IsClient(client') /\ client'.branch = client.branch
      /\ client'.state \in {"calling", "proceeding", "cancelled", "over"}
  BY <1>1 DEF IInv, Shape, IsClient, TypeOK
<1> QED BY <1>1, <1>3, <1>4, ClientKeeps

\* A step of the client that sends on the branch it is on.
LEMMA ClientSends ==
    ASSUME IInv, UNCHANGED <<call, server, rval, lost>>,
           IsClient(client'), client'.branch = client.branch,
           client'.state \in {"calling", "proceeding", "cancelled", "over"},
           \A m \in net' : m \in net \/ (m.to = "bob" /\ m.branch = client.branch)
    PROVE  IInv'
<1>1. \A m \in net' : Truthful(m)'
  BY DEF IInv, Truthful, TypeOK
<1> QED BY <1>1, ClientKeeps DEF IInv, TypeOK

LEMMA ResendKeeps ==
    ASSUME IInv, Resend
    PROVE  IInv'
<1>1. UNCHANGED <<call, server, rval, lost>> /\ client' = Repeat(client)
  BY DEF Resend
<1>2. IsClient(client') /\ client'.branch = client.branch
      /\ client'.state = client.state
  BY <1>1 DEF IInv, Shape, IsClient, Repeat
<1>3. \E kinds : Sent("bob", kinds, client.branch, client.tries + 1, net)
  BY DEF Resend
<1>4. \A m \in net' : m \in net \/ (m.to = "bob" /\ m.branch = client.branch)
  BY <1>3, SentOnly
<1> QED BY <1>1, <1>2, <1>4, ClientSends DEF IInv, TypeOK

\* The CANCEL of the SSuT.
LEMMA CancelSent ==
    ASSUME IInv, UNCHANGED <<call, server, rval, lost>>,
           NEW base \in SUBSET net, SendCancel(base)
    PROVE  IInv'
<1>1. IsClient(client') /\ client'.branch = client.branch
      /\ client'.state = "cancelled"
  BY DEF IInv, Shape, IsClient, SendCancel
<1>2. Sent("bob", <<"CANCEL">>, client.branch, 1, base)
  BY DEF SendCancel
<1>3. \A m \in net' : m \in net \/ (m.to = "bob" /\ m.branch = client.branch)
  BY <1>2, SentOnly
<1> QED BY <1>1, <1>3, ClientSends

\* A step of the client that only takes a datagram.
LEMMA ClientTakes ==
    ASSUME IInv, UNCHANGED <<call, server, rval, lost>>,
           IsClient(client'), client'.branch = client.branch,
           client'.state \in {"calling", "proceeding", "cancelled", "over"},
           net' \subseteq net
    PROVE  IInv'
BY ClientSends

LEMMA SsutHears ==
    ASSUME IInv, SsutCancel \/ SsutTrying \/ SsutFinal
    PROVE  IInv'
<1>0. /\ UNCHANGED <<call, server, rval, lost>>
      /\ IsClient(client)
      /\ client.state \in {"calling", "proceeding", "cancelled", "over"}
  BY DEF IInv, Shape, TypeOK, SsutCancel, SsutTrying, SsutFinal
<1>1. CASE SsutCancel
  <2>1. PICK m \in net :
            \/ SendCancel(net \ {m})
            \/ /\ net' = net \ {m}
               /\ client' = [client EXCEPT !.cancel = @ \/ call.fault = "none"]
    BY <1>1 DEF SsutCancel, Arrived
  <2>2. CASE SendCancel(net \ {m})
    BY <1>0, <2>2, CancelSent
  <2>3. CASE ~SendCancel(net \ {m})
    <3>1. /\ IsClient(client') /\ client'.branch = client.branch
          /\ client'.state = client.state
      BY <1>0, <2>1, <2>3 DEF IsClient
    <3> QED BY <1>0, <2>1, <2>3, <3>1, ClientTakes
  <2> QED BY <2>2, <2>3
<1>2. CASE SsutTrying
  <2>1. PICK m \in net :
            \/ SendCancel(net \ {m})
            \/ /\ net' = net \ {m}
               /\ client' = [client EXCEPT !.state = "proceeding", !.at = Never]
            \/ net' = net \ {m} /\ UNCHANGED client
    BY <1>2 DEF SsutTrying, Arrived
  <2>2. CASE SendCancel(net \ {m})
    BY <1>0, <2>2, CancelSent
  <2>3. CASE ~SendCancel(net \ {m})
    <3>1. /\ IsClient(client') /\ client'.branch = client.branch
          /\ client'.state \in {client.state, "proceeding"}
      BY <1>0, <2>1, <2>3 DEF IsClient
    <3> QED BY <1>0, <2>1, <2>3, <3>1, ClientTakes
  <2> QED BY <2>2, <2>3
<1>3. CASE SsutFinal
  <2>1. PICK m \in net :
            /\ net' = net \ {m}
            /\ client' = IF m.branch = client.branch
                         THEN [client EXCEPT !.state = "over", !.at = Never] ELSE client
    BY <1>3 DEF SsutFinal, Arrived
  <2>2. /\ IsClient(client') /\ client'.branch = client.branch
        /\ client'.state \in {client.state, "over"}
    BY <1>0, <2>1 DEF IsClient
  <2> QED BY <1>0, <2>1, <2>2, ClientTakes
<1> QED BY <1>1, <1>2, <1>3

\* A challenge is answered once: the second 401 is of a branch the client has
\* left.
LEMMA ChallengedKeeps ==
    ASSUME IInv, SsutChallenged
    PROVE  IInv'
<1>0. /\ UNCHANGED <<call, server, rval, lost>>
      /\ IsClient(client)
      /\ client.state \in {"calling", "proceeding", "cancelled", "over"}
  BY DEF IInv, Shape, TypeOK, SsutChallenged
<1>1. PICK m \in net :
          /\ m.to = "ssut" /\ m.kind = "401"
          /\ IF m.branch = client.branch /\ client.state # "over"
             THEN /\ client' = NewClient(client.branch + 1)
                  /\ Sent("bob", <<"INVITE">>, client.branch + 1, 1, net \ {m})
             ELSE net' = net \ {m} /\ UNCHANGED client
  BY DEF SsutChallenged, Arrived
<1>2. CASE m.branch = client.branch /\ client.state # "over"
  <2>1. /\ client.branch \in DOMAIN server /\ server[client.branch].state = "challenged"
        /\ client.branch \in 1..2
    BY <1>1, <1>2 DEF IInv, Truthful, TypeOK
  <2>2. ~Early(call.cls) /\ client.branch = 1
    BY <2>1 DEF IInv, Branches, MustAuthenticate, HasCredentials
  <2>3. client'.branch = 2 /\ client'.state = "calling" /\ IsClient(client')
    BY <1>1, <1>2, <2>2 DEF NewClient, IsClient
  <2>4. \A p \in net' : p \in net \/ (p.to = "bob" /\ p.branch = 2)
    <3>1. Sent("bob", <<"INVITE">>, 2, 1, net \ {m})
      BY <1>1, <1>2, <2>2
    <3> QED BY <3>1, SentOnly
  <2>5. \A p \in net' : Truthful(p)'
    BY <1>0, <2>2, <2>3, <2>4 DEF IInv, Truthful
  <2>6. TypeOK'
    BY <1>0, <2>3 DEF IInv, TypeOK
  <2>7. Shape' /\ Branches' /\ SecondTry'
    BY <1>0, <2>1, <2>2, <2>3
       DEF IInv, Shape, Branches, SecondTry, IsTransaction, MustAuthenticate
  <2>8. Account'
    BY <1>0 DEF IInv, Account, Subtests, TheBranch
  <2> QED BY <2>5, <2>6, <2>7, <2>8 DEF IInv
<1>3. CASE ~(m.branch = client.branch /\ client.state # "over")
  BY <1>0, <1>1, <1>3, ClientTakes
<1> QED BY <1>2, <1>3

-----------------------------------------------------------------------------
(* Bob's steps.                                                            *)

\* A step of Bob's that forgets no branch and answers on branches he knows, with
\* a 401 only where he has challenged.
LEMMA BobKeeps ==
    ASSUME IInv, UNCHANGED <<call, client, lost>>,
           Shape', Branches', Account', rval' \in 0..3,
           DOMAIN server \subseteq DOMAIN server',
           \A b \in DOMAIN server :
               server[b].state = "challenged" => server'[b].state = "challenged",
           \A b \in DOMAIN server' :
               /\ server'[b].state \in {"trying", "challenged", "ended", "dead"}
               /\ server'[b].verdict \in Verdicts \cup {Pending},
           \A m \in net' :
               \/ m \in net
               \/ /\ m.to = "ssut"
                  /\ m.kind = "401" => /\ m.branch \in DOMAIN server'
                                       /\ server'[m.branch].state = "challenged"
    PROVE  IInv'
<1>1. \A m \in net' : Truthful(m)'
  BY DEF IInv, Truthful
<1>2. SecondTry'
  BY DEF IInv, SecondTry
<1>3. TypeOK'
  BY DEF IInv, TypeOK, Branches
<1> QED BY <1>1, <1>2, <1>3 DEF IInv

\* What the counter has to do with a transaction that is not forgotten.
LEMMA AccountKeeps ==
    ASSUME IInv, UNCHANGED call, NEW b \in DOMAIN server,
           DOMAIN server' = DOMAIN server,
           \A c \in DOMAIN server \ {b} : server'[c] = server[c],
           server'[b].state # "challenged", server[b].state # "challenged",
           server'[b].state # "dead" => server'[b].verdict = Pending,
           rval' = IF server'[b].verdict # Success THEN 2 ELSE 1
    PROVE  Account'
<1>1. b = TheBranch /\ TheBranch' = TheBranch
  BY OnlyTheBranch DEF IInv, Subtests, TheBranch
<1>2. TheBranch' \in Subtests'
  BY <1>1 DEF Subtests
<1> QED BY <1>1, <1>2 DEF IInv, Account

\* A new transaction has a new subtest, unless it is challenged.
LEMMA PlusKeeps ==
    ASSUME IInv, UNCHANGED <<call, client, lost>>,
           NEW b \in 1..client.branch, b \notin DOMAIN server,
           NEW t, IsTransaction(t), t.verdict = Pending,
           t.state = IF MustAuthenticate(b) THEN "challenged" ELSE "trying",
           server' = Plus(b, t),
           rval' = IF MustAuthenticate(b) THEN rval ELSE rval + 1,
           \A m \in net' :
               \/ m \in net
               \/ /\ m.to = "ssut" /\ m.branch = b
                  /\ m.kind = "401" => MustAuthenticate(b)
    PROVE  IInv'
<1>1. /\ DOMAIN server' = DOMAIN server \cup {b} /\ server'[b] = t
      /\ \A c \in DOMAIN server : server'[c] = server[c]
  BY DEF Plus
<1>2. Shape'
  BY <1>1 DEF IInv, Shape, IsClient, IsTransaction
<1>3. MustAuthenticate(b)' <=> MustAuthenticate(b)
  BY DEF MustAuthenticate
<1>4. Branches'
  <2> SUFFICES ASSUME NEW c \in DOMAIN server'
               PROVE  /\ c \in 1..client.branch
                      /\ server'[c].state = "challenged" <=> MustAuthenticate(c)'
    BY DEF Branches
  <2>1. CASE c = b
    BY <1>1, <1>3, <2>1
  <2>2. CASE c \in DOMAIN server
    BY <1>1, <2>2 DEF IInv, Branches, MustAuthenticate
  <2> QED BY <1>1, <2>1, <2>2
<1>5. Account' /\ rval' \in 0..3
  <2>1. TheBranch' = TheBranch /\ rval \in {1, 2}
    BY DEF TheBranch, IInv, Account
  <2>2. \A c \in DOMAIN server' : server'[c].state # "dead" => server'[c].verdict = Pending
    BY <1>1 DEF IInv, Account
  <2>3. CASE MustAuthenticate(b)
    <3>1. Subtests' = Subtests
      BY <1>1, <2>3 DEF Subtests
    <3>2. TheBranch \in Subtests => server'[TheBranch] = server[TheBranch]
      BY <1>1 DEF Subtests
    <3> QED BY <2>1, <2>2, <2>3, <3>1, <3>2 DEF IInv, Account
  <2>4. CASE ~MustAuthenticate(b)
    <3>1. b \in Subtests'
      BY <1>1, <2>4 DEF Subtests
    <3>2. b = TheBranch
      BY <2>4 DEF IInv, SecondTry, TypeOK, TheBranch, MustAuthenticate, HasCredentials
    <3>3. TheBranch \notin Subtests
      BY <3>2 DEF Subtests
    <3>4. rval = 1 /\ rval' = 2
      BY <2>4, <3>3 DEF IInv, Account
    <3>5. server'[TheBranch].verdict # Success
      BY <1>1, <3>2 DEF Pending, Success
    <3> QED BY <2>1, <2>2, <3>1, <3>2, <3>4, <3>5 DEF Account
  <2> QED BY <2>3, <2>4
<1>6. \A c \in DOMAIN server' :
          /\ server'[c].state \in {"trying", "challenged", "ended", "dead"}
          /\ server'[c].verdict \in Verdicts \cup {Pending}
  BY <1>1 DEF IInv, TypeOK
<1> QED BY <1>1, <1>2, <1>4, <1>5, <1>6, BobKeeps

\* recvRequest() of an INVITE: a repetition repeats an answer, a new one is
\* challenged or taken.
LEMMA InviteKeeps ==
    ASSUME IInv, Invite
    PROVE  IInv'
<1>0. UNCHANGED <<call, client, lost>>
  BY DEF Invite
<1>1. PICK m \in Arrived("bob", "INVITE") :
          LET b == m.branch
          IN  CASE b \in DOMAIN server ->
                       /\ Sent("ssut", <<LastAnswer(server[b])>>, b, m.n + 2, net \ {m})
                       /\ UNCHANGED <<server, rval>>
                [] b \notin DOMAIN server /\ MustAuthenticate(b) ->
                       /\ Challenge(b)
                       /\ Sent("ssut", FirstAnswer("401"), b, 1, net \ {m})
                [] OTHER ->
                       /\ server' = Plus(b, NewSubtest)
                       /\ rval' = rval + 1
                       /\ Sent("ssut", FirstAnswer("100"), b, 1, net \ {m})
  BY DEF Invite
<1> DEFINE b == m.branch
<1>2. m \in net /\ b \in 1..client.branch
  BY DEF Arrived, IInv, Truthful
<1>3. CASE b \in DOMAIN server
  <2>1. Sent("ssut", <<LastAnswer(server[b])>>, b, m.n + 2, net \ {m})
        /\ UNCHANGED <<server, rval>>
    BY <1>1, <1>3
  <2>2. \A p \in net' : p \in net \/ (p.to = "ssut" /\ p.branch = b
                                      /\ p.kind = LastAnswer(server[b]))
    BY <2>1, SentOnly
  <2>3. LastAnswer(server[b]) = "401" => server[b].state = "challenged"
    BY DEF LastAnswer
  <2>4. Shape' /\ Branches' /\ Account' /\ rval' \in 0..3
    BY <1>0, <2>1
       DEF IInv, TypeOK, Shape, Branches, Account, Subtests, TheBranch,
           IsClient, IsTransaction, MustAuthenticate
  <2>5. \A c \in DOMAIN server' :
            /\ server'[c].state \in {"trying", "challenged", "ended", "dead"}
            /\ server'[c].verdict \in Verdicts \cup {Pending}
    BY <2>1 DEF IInv, TypeOK
  <2> QED BY <1>0, <1>3, <2>1, <2>2, <2>3, <2>4, <2>5, BobKeeps
<1>4. CASE b \notin DOMAIN server /\ MustAuthenticate(b)
  <2>1. Challenge(b) /\ Sent("ssut", FirstAnswer("401"), b, 1, net \ {m})
    BY <1>1, <1>4
  <2>2. \A p \in net' : p \in net \/ (p.to = "ssut" /\ p.branch = b)
    BY <2>1, SentOnly
  <2> DEFINE t == [NewSubtest EXCEPT !.state = "challenged"]
  <2>3. IsTransaction(t) /\ t.verdict = Pending /\ t.state = "challenged"
    BY DEF NewSubtest, IsTransaction
  <2>4. server' = Plus(b, t) /\ rval' = rval
    BY <2>1 DEF Challenge
  <2> QED BY <1>0, <1>2, <1>4, <2>2, <2>3, <2>4, PlusKeeps
<1>5. CASE b \notin DOMAIN server /\ ~MustAuthenticate(b)
  <2>1. /\ server' = Plus(b, NewSubtest)
        /\ rval' = rval + 1
        /\ Sent("ssut", FirstAnswer("100"), b, 1, net \ {m})
    BY <1>1, <1>5
  <2>2. \A p \in net' : p \in net \/ (p.to = "ssut" /\ p.branch = b /\ p.kind # "401")
    BY <2>1, SentOnly DEF FirstAnswer
  <2>3. /\ IsTransaction(NewSubtest) /\ NewSubtest.verdict = Pending
        /\ NewSubtest.state = "trying"
    BY DEF NewSubtest, IsTransaction
  <2> QED BY <1>0, <1>2, <1>5, <2>1, <2>2, <2>3, PlusKeeps
<1> QED BY <1>3, <1>4, <1>5

\* One subtest goes on from state to state, and answers with no challenge.
LEMMA SubtestKeeps ==
    ASSUME IInv, UNCHANGED <<call, client, lost>>,
           NEW b \in DOMAIN server, server[b].state # "challenged",
           NEW t, IsTransaction(t), t.state \in {"trying", "ended", "dead"},
           t.verdict \in Verdicts \cup {Pending},
           t.state # "dead" => t.verdict = Pending,
           server' = [server EXCEPT ![b] = t],
           rval' = IF t.verdict # Success THEN 2 ELSE 1,
           \A m \in net' : m \in net \/ (m.to = "ssut" /\ m.kind # "401")
    PROVE  IInv'
<1>1. /\ DOMAIN server' = DOMAIN server /\ server'[b] = t
      /\ \A c \in DOMAIN server \ {b} : server'[c] = server[c]
  OBVIOUS
<1>2. Account'
  BY <1>1, AccountKeeps
<1>3. Shape'
  BY <1>1 DEF IInv, Shape, IsClient, IsTransaction
<1>4. Branches'
  BY <1>1 DEF IInv, Branches, MustAuthenticate
<1>5. \A c \in DOMAIN server' :
          /\ server'[c].state \in {"trying", "challenged", "ended", "dead"}
          /\ server'[c].verdict \in Verdicts \cup {Pending}
  BY <1>1 DEF IInv, TypeOK
<1>6. rval' \in 0..3
  OBVIOUS
<1>7. \A c \in DOMAIN server :
          server[c].state = "challenged" => server'[c].state = "challenged"
  BY <1>1
<1> QED BY <1>1, <1>2, <1>3, <1>4, <1>5, <1>6, <1>7, BobKeeps

\* While the subtest has not passed, Bob's counter is 2.
LEMMA CounterOf ==
    ASSUME IInv, NEW b \in DOMAIN server, server[b].state # "challenged"
    PROVE  rval = IF server[b].verdict # Success THEN 2 ELSE 1
BY OnlyTheBranch DEF IInv, Account, Subtests

\* A CANCEL, an answer and the report of a subtest.
LEMMA SubtestGoesOn ==
    ASSUME IInv, Cancelled \/ Answer \/ BobDead
    PROVE  IInv'
<1>0. UNCHANGED <<call, client, lost>>
  BY DEF Cancelled, Answer, BobDead
<1>1. \A b \in DOMAIN server : IsTransaction(server[b])
  BY DEF IInv, Shape
<1>2. CASE Cancelled
  <2>1. PICK m \in net :
            IF m.branch \in DOMAIN server
            THEN /\ server' = [server EXCEPT ![m.branch] =
                                  IF @.state = "trying"
                                  THEN [@ EXCEPT !.state = "ended", !.ended = now] ELSE @]
                 /\ Sent("ssut", <<"final">>, m.branch, m.n, net \ {m})
            ELSE net' = net \ {m} /\ UNCHANGED server
    BY <1>2 DEF Cancelled, Arrived
  <2>2. rval' = rval
    BY <1>2 DEF Cancelled
  <2>3. CASE m.branch \in DOMAIN server /\ server[m.branch].state = "trying"
    <3> DEFINE b == m.branch
               t == [server[b] EXCEPT !.state = "ended", !.ended = now]
    <3>1. server' = [server EXCEPT ![b] = t]
      BY <2>1, <2>3
    <3>2. server[b].verdict = Pending /\ rval' = 2
      BY <2>2, <2>3, CounterOf DEF IInv, Account, Pending, Success
    <3>3. IsTransaction(t) /\ t.state = "ended" /\ t.verdict = Pending
      BY <1>1, <2>3, <3>2 DEF IsTransaction
    <3>4. t.verdict # Success
      BY <3>3 DEF Pending, Success
    <3>5. \A p \in net' : p \in net \/ (p.to = "ssut" /\ p.kind # "401")
      BY <2>1, <2>3, SentOnly
    <3> HIDE DEF t
    <3> QED BY <1>0, <2>3, <3>1, <3>2, <3>3, <3>4, <3>5, SubtestKeeps
  <2>4. CASE ~(m.branch \in DOMAIN server /\ server[m.branch].state = "trying")
    <3>1. /\ DOMAIN server' = DOMAIN server
          /\ \A c \in DOMAIN server : server'[c] = server[c]
      <4>1. CASE m.branch \in DOMAIN server
        BY <2>1, <2>4, <4>1
      <4>2. CASE m.branch \notin DOMAIN server
        BY <2>1, <4>2
      <4> QED BY <4>1, <4>2
    <3>2. \A p \in net' : p \in net \/ (p.to = "ssut" /\ p.kind # "401")
      BY <2>1, SentOnly
    <3>3. Shape' /\ Branches' /\ Account' /\ rval' \in 0..3
      BY <1>0, <2>2, <3>1
         DEF IInv, TypeOK, Shape, Branches, Account, Subtests, TheBranch,
             IsClient, IsTransaction, MustAuthenticate
    <3>4. \A c \in DOMAIN server' :
              /\ server'[c].state \in {"trying", "challenged", "ended", "dead"}
              /\ server'[c].verdict \in Verdicts \cup {Pending}
      BY <3>1 DEF IInv, TypeOK
    <3> QED BY <1>0, <3>1, <3>2, <3>3, <3>4, BobKeeps
  <2> QED BY <2>3, <2>4
<1>3. CASE Answer
  <2>1. PICK b \in DOMAIN server :
            /\ server[b].state = "trying"
            /\ server' = [server EXCEPT ![b].state = "ended", ![b].ended = now,
                                        ![b].connected = TRUE]
            /\ Sent("ssut", <<"final">>, b, 1, net)
    BY <1>3 DEF Answer
  <2> DEFINE t == [server[b] EXCEPT !.state = "ended", !.ended = now, !.connected = TRUE]
  <2>2. server' = [server EXCEPT ![b] = t]
    BY <2>1
  <2>3. rval' = rval
    BY <1>3 DEF Answer
  <2>4. server[b].verdict = Pending /\ rval' = 2
    BY <2>1, <2>3, CounterOf DEF IInv, Account, Pending, Success
  <2>5. IsTransaction(t) /\ t.state = "ended" /\ t.verdict = Pending
    BY <1>1, <2>1, <2>4 DEF IsTransaction
  <2>6. t.verdict # Success
    BY <2>5 DEF Pending, Success
  <2>7. \A p \in net' : p \in net \/ (p.to = "ssut" /\ p.kind # "401")
    BY <2>1, SentOnly
  <2> HIDE DEF t
  <2> QED BY <1>0, <2>1, <2>2, <2>4, <2>5, <2>6, <2>7, SubtestKeeps
<1>4. CASE BobDead
  <2>1. PICK b \in DOMAIN server, v \in {Success, Failure} :
            /\ server[b].state = "ended"
            /\ server' = [server EXCEPT ![b].state = "dead", ![b].verdict = v]
            /\ rval' = RvalAfter(rval, v)
    BY <1>4 DEF BobDead
  <2> DEFINE t == [server[b] EXCEPT !.state = "dead", !.verdict = v]
  <2>2. server' = [server EXCEPT ![b] = t]
    BY <2>1
  <2>3. server[b].verdict = Pending /\ rval = 2
    BY <2>1, CounterOf DEF IInv, Account, Pending, Success
  <2>4. IsTransaction(t) /\ t.state = "dead" /\ t.verdict = v
    BY <1>1, <2>1 DEF IsTransaction
  <2>5. rval' = IF v # Success THEN 2 ELSE 1
    BY <2>1, <2>3 DEF RvalAfter
  <2>6. net' = net
    BY <1>4 DEF BobDead
  <2> HIDE DEF t
  <2> QED BY <1>0, <2>1, <2>2, <2>4, <2>5, <2>6, SubtestKeeps DEF Verdicts
<1> QED BY <1>2, <1>3, <1>4

\* Every step keeps the invariant.
LEMMA NextIInv == IInv /\ [Next]_vars => IInv'
<1> SUFFICES ASSUME IInv, [Next]_vars PROVE IInv'
  OBVIOUS
<1>1. CASE Tick \/ UNCHANGED vars
  <2>1. UNCHANGED <<call, client, server, rval, net, lost>>
    BY <1>1 DEF Tick, vars
  <2> QED BY <2>1, FewerKeeps DEF IInv, TypeOK
<1>2. CASE Lose
  <2>1. lost' \in 0..MaxLoss
    BY <1>2, OpeningAssumption DEF Lose, IInv, TypeOK
  <2> QED BY <1>2, <2>1, FewerKeeps DEF Lose
<1> QED BY <1>1, <1>2, AliceKeeps, ResendKeeps, SsutHears, ChallengedKeeps,
           InviteKeeps, SubtestGoesOn DEF Next, Progress

\* Client, server and counter of an opening call agree in every reachable state.
THEOREM OpeningInvariant == Spec => []IInv
BY InitIInv, NextIInv, PTL DEF Spec

\* There is never a third transaction, nor a counter beyond one subtest.
THEOREM TypeCorrect == Spec => []TypeOK
<1>1. IInv => TypeOK
  BY DEF IInv
<1> QED BY OpeningInvariant, <1>1, PTL

\* One call makes one subtest and the counter is the number of those that have
\* not passed, for every choice of delays, losses and repetitions.
THEOREM OneSubtest == Spec => []OneSubtestPerCall
BY OpeningInvariant, CountOne, PTL
=============================================================================
