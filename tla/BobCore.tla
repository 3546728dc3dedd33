------------------------------ MODULE BobCore -------------------------------
(***************************************************************************)
(* The core of the answering process: class b_test of lib/bob_testcore.py  *)
(* on top of testcore_base, and the exit status bob_main.py makes of it.   *)
(*                                                                         *)
(* Bob does not know how many calls to expect.  He creates a subtest for   *)
(* each INVITE that starts a dialog, counts it in rval, and decides only   *)
(* when his timer fires.  A request that the transaction layer delivers is *)
(* abstract here: which branch of recvRequest it takes is the sender's     *)
(* choice, and so is the verdict of the subtest it may start.              *)
(***************************************************************************)
EXTENDS TestcoreBase

CONSTANT Reqs   \* the requests delivered to recvRequest() in one run of Bob

\* As many as this lose nothing of the counter in the 8 bits of an exit code.
ASSUME ReqsAssumption == IsFiniteSet(Reqs) /\ Cardinality(Reqs) + 1 < 256

VARIABLES
    bPhase,    \* "loop" in ED2.loop(), "exited"
    bReply,    \* what recvRequest() did with each request so far
    bRunning,  \* subtests_running, a subtest being named after its INVITE
    bRval,     \* rval
    bVerdict,  \* the rval of the subtest of each request
    bTimer,    \* Timeout(self.timeout, tcfg.test_timeout, 1)
    bBreak,    \* ED2.breakLoop() was called
    bStatus    \* exit status, meaningful once bPhase = "exited"

vars == <<bPhase, bReply, bRunning, bRval, bVerdict, bTimer, bBreak, bStatus>>

\* "none": not received; "ua": passed on to a user agent by subtest.answer();
\* "raised": answer() let an exception escape from recvRequest(); the others
\* are the final responses.
Replies == {"none", "481", "404", "501", "401", "403", "ua", "raised"}

\* The replies after which a subtest stays registered.
Registering == {"403", "ua", "raised"}

Init ==
    /\ bPhase = "loop"
    /\ bReply = [r \in Reqs |-> "none"]
    /\ bRunning = {}
    /\ bRval = 1
    /\ bVerdict = [r \in Reqs |-> Failure]
    /\ bTimer = "armed"
    /\ bBreak = FALSE
    /\ bStatus = 0

-----------------------------------------------------------------------------
(* recvRequest()                                                           *)

Receive(r, reply) ==
    /\ bPhase = "loop"
    /\ bReply[r] = "none"
    /\ bReply' = [bReply EXCEPT ![r] = reply]
    /\ UNCHANGED <<bPhase, bVerdict, bTimer, bBreak, bStatus>>

\* A To tag and no such dialog, an INVITE for a class nobody has, a method that
\* is not INVITE: refused before any subtest exists.
Refuse(r) ==
    /\ \E reply \in {"481", "404", "501"} : Receive(r, reply)
    /\ UNCHANGED <<bRunning, bRval>>

\* A mistake: the subtest is listed and not counted.
Answer_Uncounted(r) ==
    /\ Receive(r, "ua")
    /\ bRunning' = bRunning \cup {r}
    /\ UNCHANGED bRval

\* A subtest is made, listed and counted, and its answer() hands the INVITE to
\* a user agent.
Answer(r) ==
    /\ Receive(r, "ua")
    /\ bRunning' = bRunning \cup {r}
    /\ bRval' = bRval + 1

\* A mistake: only the list is put back.
Challenge_Counted(r) ==
    /\ Receive(r, "401")
    /\ bRunning' = (bRunning \cup {r}) \ {r}
    /\ bRval' = bRval + 1

\* AuthRequired: the same, and then both the list and the counter are put back;
\* the client will send the INVITE again with credentials.
Challenge(r) ==
    /\ Receive(r, "401")
    /\ bRunning' = (bRunning \cup {r}) \ {r}
    /\ bRval' = (bRval + 1) - 1

\* A mistake: a subtest that got no user agent is forgotten.
Strand_Forgotten(r) ==
    /\ \E reply \in {"403", "raised"} : Receive(r, reply)
    /\ UNCHANGED <<bRunning, bRval>>

\* AuthFailed, and every other exception of answer() (an INVITE without a body,
\* an SDP that fails its validation): the subtest has no user agent, so nothing
\* will ever report for it, and it stays in the list and in the counter.
Strand(r) ==
    /\ \E reply \in {"403", "raised"} : Receive(r, reply)
    /\ bRunning' = bRunning \cup {r}
    /\ bRval' = bRval + 1

-----------------------------------------------------------------------------
\* A mistake: Bob leaves with his last subtest, as Alice does.
SubtestDone_Leaves(r, v) ==
    /\ bPhase = "loop"
    /\ r \in bRunning
    /\ bReply[r] = "ua"
    /\ bRunning' = bRunning \ {r}
    /\ bVerdict' = [bVerdict EXCEPT ![r] = v]
    /\ bRval' = RvalAfter(bRval, v)
    /\ bBreak' = (bBreak \/ bRunning' = {})
    /\ UNCHANGED <<bPhase, bReply, bTimer, bStatus>>

\* subtest_done(), called by alldone() through done() and done_cb.  Only a
\* subtest with a user agent has somebody to call it.  Bob's core leaves
\* _on_no_subtests_left() empty.
SubtestDone(r, v) ==
    /\ bPhase = "loop"
    /\ r \in bRunning
    /\ bReply[r] = "ua"
    /\ bRunning' = bRunning \ {r}
    /\ bVerdict' = [bVerdict EXCEPT ![r] = v]
    /\ bRval' = RvalAfter(bRval, v)
    /\ UNCHANGED <<bPhase, bReply, bTimer, bBreak, bStatus>>

\* A mistake: an empty list is taken for success.
Expire_ListOnly ==
    /\ bPhase = "loop"
    /\ bTimer = "armed"
    /\ bTimer' = "fired"
    /\ bRval' = IF bRunning = {} THEN 0 ELSE bRval
    /\ bBreak' = TRUE
    /\ UNCHANGED <<bPhase, bReply, bRunning, bVerdict, bStatus>>

\* A mistake: the loop is left only when nothing is running.
Expire_Waits ==
    /\ bPhase = "loop"
    /\ bTimer = "armed"
    /\ bTimer' = "fired"
    /\ bRval' = IF bRunning = {} /\ bRval = 1 THEN 0 ELSE bRval
    /\ bBreak' = (bRunning = {})
    /\ UNCHANGED <<bPhase, bReply, bRunning, bVerdict, bStatus>>

\* timeout(): the 1 rval started from is dropped when nothing is left over.
\* A request or a callback that was due in the same round of the dispatcher is
\* still delivered after it, and meets the new rval.
Expire ==
    /\ bPhase = "loop"
    /\ bTimer = "armed"
    /\ bTimer' = "fired"
    /\ bRval' = IF bRunning = {} /\ bRval = 1 THEN 0 ELSE bRval
    /\ bBreak' = TRUE
    /\ UNCHANGED <<bPhase, bReply, bRunning, bVerdict, bStatus>>

\* ED2.loop() returns and main_func() calls sys.exit(bcore.rval).
Exit ==
    /\ bPhase = "loop"
    /\ bBreak
    /\ bPhase' = "exited"
    /\ bStatus' = ExitStatus(bRval)
    /\ UNCHANGED <<bReply, bRunning, bRval, bVerdict, bTimer, bBreak>>

Next ==
    \/ \E r \in Reqs : \/ Refuse(r)
                       \/ Answer(r)
                       \/ Challenge(r)
                       \/ Strand(r)
    \/ \E r \in Reqs, v \in Verdicts : SubtestDone(r, v)
    \/ Expire
    \/ Exit

\* ED2 delivers a due timer and a broken loop returns.
Fairness == WF_vars(Expire) /\ WF_vars(Exit)

Spec == Init /\ [][Next]_vars /\ Fairness

-----------------------------------------------------------------------------
Started == {r \in Reqs : bReply[r] \in Registering}
Passed == {r \in Reqs : bVerdict[r] = Success}

TypeOK ==
    /\ bPhase \in {"loop", "exited"}
    /\ bReply \in [Reqs -> Replies]
    /\ bRunning \subseteq Reqs
    /\ bRval \in Nat
    /\ bVerdict \in [Reqs -> Verdicts]
    /\ bTimer \in {"armed", "fired"}
    /\ bBreak \in BOOLEAN
    /\ bStatus \in 0..255

\* Exit status 0 means that every subtest Bob ever started reported success
\* and none is left: a subtest stranded by a 403 or by an exception keeps Bob
\* unhappy to the end, a challenged INVITE does not, and neither does any order
\* of late requests, late callbacks and the adjustment made by timeout().
HappyMeansAllPassed ==
    bPhase = "exited" /\ bStatus = 0 => Started = Passed /\ bRunning = {}

\* A Bob who has finished every call he knows of waits for his timer all the
\* same, because the next INVITE may be on its way.
WaitsForTheTimer == bPhase = "exited" => bTimer = "fired"

\* When the timer finds every started subtest passed and nothing arrives after
\* it, Bob is happy: the challenges, the refusals and the order in which the
\* calls ended leave no remainder in the counter.
NoFalseAlarm ==
    [][Expire /\ Started = Passed => bRval' = 0]_vars

\* Bob terminates whatever the callers and the subtests do.
Terminates == <>(bPhase = "exited")

\* The promise of the abstract specification.
V == INSTANCE Verdict WITH
        Subtests <- Reqs,
        started  <- Started,
        passed   <- Passed,
        outcome  <- IF bPhase # "exited" THEN "none"
                    ELSE IF bStatus = 0 THEN "happy" ELSE "unhappy"

\* A test process reports success only when every subtest it started passed,
\* and nothing is started or passed after the report (abstract specification
\* Verdict).
Promise == V!Spec

-----------------------------------------------------------------------------
\* The inductive invariant: the counter is the number of subtests that did not
\* pass, plus the 1 it started from, until the timer takes that 1 away because
\* nothing was left.  After that it may be either.
RunningHaveNotPassed == bRunning \subseteq Started \ Passed

PassedWereStarted == Passed \subseteq Started

Accounting ==
    LET left == Cardinality(Started \ Passed)
    IN  IF bTimer = "armed"
        THEN bRval = left + 1 /\ ~bBreak /\ bPhase = "loop"
        ELSE bRval \in {left, left + 1}

ExitStatusIsRval == bPhase = "exited" => bStatus = ExitStatus(bRval)

IInv == /\ TypeOK
        /\ RunningHaveNotPassed
        /\ PassedWereStarted
        /\ Accounting
        /\ ExitStatusIsRval
=============================================================================
