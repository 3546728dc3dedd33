------------------------------ MODULE RtpFeed -------------------------------
(***************************************************************************)
(* The RTP end point of a subtest (class test of test_cases/t1.py, lines   *)
(* 51-61 and 97-271): the main thread creates it, points it at the media   *)
(* address of each SDP, and at the end closes it and prints a report; the  *)
(* output worker, a thread of its own, asks for a new chunk of audio       *)
(* whenever it has played the last.  The two share the flag _rtp_closing   *)
(* and the counter _rtp_tx_gen, without a lock.                            *)
(*                                                                         *)
(* RTPEPoint and RTPOutputWorker are external: a worker is started once    *)
(* there is a target, counts what it gets (rcvd) and what it has played    *)
(* (prcsd), and shutdown() ends it and waits for it.  Counters are in      *)
(* chunks, not frames.                                                     *)
(***************************************************************************)
EXTENDS TestConfig

CONSTANTS
    Ranges,       \* arguments of "-p"
    MaxChunks,    \* the worker stops asking after that many
    MaxUpdates,   \* how often the media address may change
    MayRaise      \* whether soundout() and shutdown() may raise

ASSUME RtpFeedAssumption ==
    /\ MaxChunks \in Nat /\ MaxUpdates \in Nat
    /\ MayRaise \in BOOLEAN

\* A user of "-p" gives the lower end first; PortRange does not check it.
ASSUME RangesAssumption ==
    \A r \in Ranges : r.min \in Int /\ r.max \in Int /\ r.min <= r.max

VARIABLES
    who,      \* the side, its family, mode and media IPs, its _rtp_enabled
    sdp,      \* the media section this side sends
    main,     \* the main thread: "calling", "up", "over" (alldone is next),
              \* "closing", "sampled", "reported"
    closing,  \* _rtp_closing
    ep,       \* _rtp_ep: "none", "bound" (no target yet), "live"
    target,   \* _rtp_target has been set
    updates,  \* _rtp_updates
    worker,   \* "none", "drained", "feeding", "fed", "playing", "idle", "gone"
    gen,      \* _rtp_tx_gen
    rcvd,     \* the worker's counters
    prcsd,
    report,   \* what report_rtp() prints of them
    raised    \* shutdown() has raised

vars == <<who, sdp, main, closing, ep, target, updates, worker, gen, rcvd,
          prcsd, report, raised>>

mainVars == <<who, sdp, main, closing, ep, target, updates, report, raised>>

NoReport == [gen |-> -1, rcvd |-> 0, prcsd |-> 0]

Loopback(atype) == IF atype = "IP4" THEN "127.0.0.1" ELSE "::1"

-----------------------------------------------------------------------------
(* The main thread                                                         *)

\* _rtp_prepare_local_sdp() and _make_media_answer(): the end point's own
\* address and port, the latter from _rtp_port_alloc().
LocalMedia(range, atype) ==
    [port : GenNotInRange(range), atype : {atype}, addr : {Loopback(atype)}]

\* _rtp_start_or_update() of an SDP that has audio.
StartOrUpdate(audio) ==
    IF ~who.enabled \/ ~audio
    THEN UNCHANGED <<ep, target, updates, worker>>
    ELSE /\ updates' = IF ep = "none" THEN updates ELSE updates + 1
         /\ ep' = "live"
         /\ target' = TRUE
         /\ worker' = IF worker = "none" THEN "drained" ELSE worker

\* A 183, the answer, or the answer to a re-INVITE, which Alice gets and Bob, in
\* ring() and connect(), gives.  Bob may have answered Alice with a fax, she
\* always offers audio.
Media ==
    /\ main \in {"calling", "up"}
    /\ updates < MaxUpdates
    /\ \E audio \in IF who.side = "alice" THEN BOOLEAN ELSE {TRUE} :
           StartOrUpdate(audio)
    /\ sdp' \in IF who.side = "bob" /\ who.enabled /\ ep = "none"
                THEN LocalMedia(who.range, who.atype) ELSE {sdp}
    /\ main' \in {main, "up"}
    /\ UNCHANGED <<who, closing, gen, rcvd, prcsd, report, raised>>

\* The call ends, answered or not.
HangUp ==
    /\ main \in {"calling", "up"}
    /\ main' = "over"
    /\ UNCHANGED <<who, sdp, closing, ep, target, updates, worker, gen, rcvd,
                   prcsd, report, raised>>

\* done(): a signalling-only subtest reports nothing; report_rtp() of one
\* without RTP (t13, t14) or without an end point has zeroes to print.
Done ==
    /\ main = "over"
    /\ closing' = who.enabled
    /\ IF who.enabled /\ ep # "none"
       THEN main' = "closing" /\ UNCHANGED report
       ELSE /\ main' = "reported"
            /\ report' = IF who.sigonly THEN report ELSE [NoReport EXCEPT !.gen = gen]
    /\ UNCHANGED <<who, sdp, ep, target, updates, worker, gen, rcvd, prcsd, raised>>

\* _rtp_shutdown_stats(): get_frm_ctrs(), then shutdown() is called.
Sample ==
    /\ main = "closing"
    /\ main' = "sampled"
    /\ report' = IF worker = "none" THEN report
                 ELSE [report EXCEPT !.rcvd = rcvd, !.prcsd = prcsd]
    /\ UNCHANGED <<who, sdp, closing, ep, target, updates, worker, gen, rcvd,
                   prcsd, raised>>

\* report_rtp() prints the counter and forgets the end point, whether shutdown()
\* has raised or not.
ReportRtp(failed) ==
    /\ main = "sampled"
    /\ raised' = failed
    /\ main' = "reported"
    /\ ep' = "none"
    /\ report' = [report EXCEPT !.gen = gen]
    /\ UNCHANGED <<who, sdp, closing, target, updates, worker, gen, rcvd, prcsd>>

\* A mistake: nobody waits for the worker.
Finish_NoJoin == ReportRtp(FALSE)

\* shutdown() comes back when the worker is gone, or raises.
Finish == worker \in {"none", "gone"} /\ ReportRtp(FALSE)
ShutdownRaises == MayRaise /\ ReportRtp(TRUE)

-----------------------------------------------------------------------------
(* The worker                                                              *)

\* A mistake: a closing end point makes the worker try again.
Drain_Again ==
    /\ worker = "drained"
    /\ worker' = CASE closing -> worker
                  [] ~closing /\ gen = MaxChunks -> "idle"
                  [] OTHER -> "feeding"
    /\ UNCHANGED <<mainVars, gen, rcvd, prcsd>>

\* update_frm_ctrs() with nothing left to play calls _rtp_feed_once().
Drain ==
    /\ worker = "drained"
    /\ worker' = IF closing \/ gen = MaxChunks THEN "idle" ELSE "feeding"
    /\ UNCHANGED <<mainVars, gen, rcvd, prcsd>>

\* soundout(): the worker counts and queues the chunk.  If it raises, nothing is
\* queued and the worker is never drained again.
Feed ==
    /\ worker = "feeding"
    /\ \/ worker' = "fed" /\ rcvd' = rcvd + 1
       \/ MayRaise /\ worker' = "idle" /\ UNCHANGED rcvd
    /\ UNCHANGED <<mainVars, gen, prcsd>>

\* A mistake: _rtp_tx_gen takes the frames of a chunk for chunks.
Count_Frames ==
    /\ worker = "fed"
    /\ worker' = "playing"
    /\ gen' = gen + 800
    /\ UNCHANGED <<mainVars, rcvd, prcsd>>

\* _rtp_feed_once() after soundout() has returned.
Count ==
    /\ worker = "fed"
    /\ worker' = "playing"
    /\ gen' = gen + 1
    /\ UNCHANGED <<mainVars, rcvd, prcsd>>

Play ==
    /\ worker = "playing"
    /\ worker' = "drained"
    /\ prcsd' = prcsd + 1
    /\ UNCHANGED <<mainVars, gen, rcvd>>

\* end(): the worker leaves with what was queued before played or not.
Leave ==
    /\ main = "sampled"
    /\ worker \in {"idle", "playing"}
    /\ worker' = "gone"
    /\ UNCHANGED <<mainVars, gen, rcvd, prcsd>>

-----------------------------------------------------------------------------
\* a_test1.__init__() binds an end point, b_test1.__init__() leaves it to the
\* first SDP.  _rtp_enabled is FALSE in a signalling-only subtest and in t13.
Init ==
    /\ \E side \in {"alice", "bob"}, atype \in {"IP4", "IP6"}, sigonly \in BOOLEAN,
          on \in BOOLEAN, env \in {{}, {"127.0.0.1", "10.1.1.1"}, {"*"}},
          range \in {r \in Ranges : ValidRange(r)} :
          /\ on => ~sigonly
          /\ who = [side |-> side, atype |-> atype, sigonly |-> sigonly,
                    enabled |-> on, range |-> range,
                    mips |-> CheckMediaIps(env, IF atype = "IP4" THEN "127.0.0.1"
                                                ELSE "[::1]")]
    /\ sdp \in IF who.side = "alice" /\ who.enabled
               THEN LocalMedia(who.range, who.atype)
               ELSE FillHostPort(who.range, who.atype)
    /\ main = "calling"
    /\ closing = FALSE
    /\ ep = IF who.side = "alice" /\ who.enabled THEN "bound" ELSE "none"
    /\ target = FALSE
    /\ updates = 0
    /\ worker = "none"
    /\ gen = 0 /\ rcvd = 0 /\ prcsd = 0
    /\ report = NoReport
    /\ raised = FALSE

MainStep == Media \/ HangUp \/ Done \/ Sample \/ Finish

WorkerStep == Drain \/ Feed \/ Count \/ Play \/ Leave

Next == MainStep \/ ShutdownRaises \/ WorkerStep

\* Both threads run, and shutdown() need not raise; that a call ends is what Call
\* and Reinvite check.
Spec == Init /\ [][Next]_vars /\ WF_vars(MainStep) /\ WF_vars(WorkerStep)

-----------------------------------------------------------------------------
TypeOK ==
    /\ main \in {"calling", "up", "over", "closing", "sampled", "reported"}
    /\ {closing, target, raised} \subseteq BOOLEAN
    /\ ep \in {"none", "bound", "live"}
    /\ worker \in {"none", "drained", "feeding", "fed", "playing", "idle", "gone"}
    /\ updates \in 0..MaxUpdates
    /\ {gen, rcvd, prcsd} \subseteq 0..MaxChunks
    /\ report \in [gen : -1..MaxChunks, rcvd : 0..MaxChunks, prcsd : 0..MaxChunks]

\* "The output worker is the sole writer and is joined before reporting"
\* (t1.py): unless shutdown() raised, the number that is printed is final, no
\* end point is left, and it is what the worker had received when it was asked,
\* or one chunk more, which was on its way while the end point closed.
ReportAddsUp ==
    main = "reported" /\ ~who.sigonly /\ ~raised =>
        /\ ep = "none" /\ worker \in {"none", "gone"}
        /\ report.gen = gen
        /\ report.prcsd <= report.rcvd
        /\ gen - report.rcvd \in {0, 1}

\* An SDP of this side that the SSuT does not rewrite never passes the check of
\* the other side, for the port if not for the address, which with RTP is the
\* one that is expected; a rewritten one always does.
CheckTellsRewritten ==
    /\ ~CheckHostPort(who.range, who.atype, who.mips, sdp)
    /\ \A p \in {who.range.min, who.range.max} :
           CheckHostPort(who.range, who.atype, who.mips,
                         [sdp EXCEPT !.port = p, !.addr = Loopback(who.atype)])

\* The report is printed: neither thread waits for the other for ever.
EventuallyReported == <>(main = "reported")
=============================================================================
