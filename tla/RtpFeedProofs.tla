--------------------------- MODULE RtpFeedProofs ----------------------------
(***************************************************************************)
(* The report of an RTP end point is of a worker that is gone, and an SDP  *)
(* of a test never passes the check that a rewritten one passes: for every *)
(* number of chunks and updates and every choice of ports and addresses.   *)
(***************************************************************************)
EXTENDS RtpFeed, TLAPS

\* Which side this is never changes, and a side without RTP has no end point.
Ownership ==
    /\ who.enabled \in BOOLEAN /\ who.sigonly \in BOOLEAN
    /\ who.enabled => ~who.sigonly
    /\ ep # "none" => who.enabled
    /\ worker # "none" /\ main # "reported" => ep = "live"

\* The worker's own books: what it has received it has counted, but for the
\* chunk between the two, and it plays what it has counted.
Books ==
    /\ rcvd = gen + (IF worker = "fed" THEN 1 ELSE 0)
    /\ prcsd + (IF worker = "playing" THEN 1 ELSE 0) <= gen
    /\ worker \in {"feeding", "fed"} => gen < MaxChunks
    /\ worker = "none" => gen = 0

\* How far the counter may be from what the main thread has sampled.
Drift ==
    /\ worker \in {"none", "feeding"} => gen = report.rcvd
    /\ worker = "fed" => gen - report.rcvd \in {-1, 0}
    /\ worker \notin {"none", "feeding", "fed"} => gen - report.rcvd \in {0, 1}

\* Where the main thread is.
Progress ==
    /\ main \in {"closing", "sampled"} => closing /\ who.enabled
    /\ main \notin {"sampled", "reported"} => report = NoReport
    /\ main # "reported" => ~raised
    /\ main = "sampled" => Drift
    /\ report.prcsd <= report.rcvd

\* A report that shutdown() has not spoilt.
Joined ==
    main = "reported" /\ ~raised /\ ~who.sigonly =>
        /\ ep = "none" /\ worker \in {"none", "gone"}
        /\ report.gen = gen
        /\ gen - report.rcvd \in {0, 1}

IInv == TypeOK /\ Ownership /\ Books /\ Progress /\ Joined

LEMMA InitIInv == Init => IInv
<1> SUFFICES ASSUME Init PROVE IInv
  OBVIOUS
<1>1. MaxChunks \in Nat /\ MaxUpdates \in Nat
  BY RtpFeedAssumption
<1>2. who.enabled \in BOOLEAN /\ who.sigonly \in BOOLEAN /\ (who.enabled => ~who.sigonly)
  BY DEF Init
<1>3. /\ main = "calling" /\ closing = FALSE /\ target = FALSE /\ updates = 0
      /\ ep = IF who.side = "alice" /\ who.enabled THEN "bound" ELSE "none"
      /\ worker = "none" /\ gen = 0 /\ rcvd = 0 /\ prcsd = 0
      /\ report = NoReport /\ raised = FALSE
  BY DEF Init
<1>4. TypeOK
  <2>1. report \in [gen : -1..MaxChunks, rcvd : 0..MaxChunks, prcsd : 0..MaxChunks]
    <3>1. -1 \in -1..MaxChunks /\ 0 \in 0..MaxChunks
      BY <1>1
    <3> QED BY <1>3, <3>1 DEF NoReport
  <2>2. updates \in 0..MaxUpdates /\ {gen, rcvd, prcsd} \subseteq 0..MaxChunks
    BY <1>1, <1>3
  <2>3. {closing, target, raised} \subseteq BOOLEAN
    BY <1>3
  <2> QED BY <1>3, <2>1, <2>2, <2>3 DEF TypeOK
<1>5. Ownership /\ Books /\ Progress /\ Joined
  BY <1>1, <1>2, <1>3 DEF Ownership, Books, Progress, Joined, NoReport
<1> QED BY <1>4, <1>5 DEF IInv

\* The main thread, before it closes.
LEMMA CallKeeps ==
    ASSUME IInv, Media \/ HangUp
    PROVE  IInv'
<1>1. MaxChunks \in Nat /\ MaxUpdates \in Nat
  BY RtpFeedAssumption
<1>2. CASE Media
  <2>1. /\ main' \in {"calling", "up"} /\ main \in {"calling", "up"}
        /\ UNCHANGED <<who, closing, gen, rcvd, prcsd, report, raised>>
    BY <1>2 DEF Media
  <2>2. \/ UNCHANGED <<ep, target, updates, worker>>
        \/ /\ who.enabled /\ ep' = "live" /\ target' = TRUE
           /\ updates' \in {updates, updates + 1} /\ updates < MaxUpdates
           /\ worker' = IF worker = "none" THEN "drained" ELSE worker
    BY <1>2 DEF Media, StartOrUpdate
  <2>3. TypeOK'
    <3>1. updates' \in 0..MaxUpdates
      BY <1>1, <2>2 DEF IInv, TypeOK
    <3>2. /\ ep' \in {"none", "bound", "live"}
          /\ worker' \in {"none", "drained", "feeding", "fed", "playing", "idle", "gone"}
      BY <2>2 DEF IInv, TypeOK
    <3>3. {closing', target', raised'} \subseteq BOOLEAN
      BY <2>1, <2>2 DEF IInv, TypeOK
    <3> QED BY <2>1, <3>1, <3>2, <3>3 DEF IInv, TypeOK
  <2>4. Ownership' /\ Books' /\ Progress' /\ Joined'
    BY <1>1, <2>1, <2>2
       DEF IInv, TypeOK, Ownership, Books, Progress, Joined
  <2> QED BY <2>3, <2>4 DEF IInv
<1>3. CASE HangUp
  BY <1>3 DEF HangUp, IInv, TypeOK, Ownership, Books, Progress, Joined
<1> QED BY <1>2, <1>3

\* done(), and the sample, with which the drift begins.
LEMMA DoneKeeps ==
    ASSUME IInv, Done
    PROVE  IInv'
<1>1. MaxChunks \in Nat
  BY RtpFeedAssumption
<1>2. /\ main = "over" /\ closing' = who.enabled /\ report = NoReport /\ ~raised
      /\ UNCHANGED <<who, sdp, ep, target, updates, worker, gen, rcvd, prcsd, raised>>
  BY DEF Done, IInv, Progress
<1>3. CASE who.enabled /\ ep # "none"
  <2>1. main' = "closing" /\ report' = report
    BY <1>3 DEF Done
  <2> QED BY <1>2, <1>3, <2>1 DEF IInv, TypeOK, Ownership, Books, Progress, Joined
<1>4. CASE ~(who.enabled /\ ep # "none")
  <2>1. /\ main' = "reported"
        /\ report' = IF who.sigonly THEN report ELSE [NoReport EXCEPT !.gen = gen]
    BY <1>4 DEF Done
  <2>2. ep = "none" /\ worker = "none" /\ gen = 0
    BY <1>2, <1>4 DEF IInv, Ownership, Books
  <2>3. report'.prcsd = 0 /\ report'.rcvd = 0 /\ report'.gen \in -1..MaxChunks
        /\ (~who.sigonly => report'.gen = gen)
        /\ report' \in [gen : -1..MaxChunks, rcvd : 0..MaxChunks, prcsd : 0..MaxChunks]
    BY <1>1, <1>2, <2>1, <2>2 DEF NoReport
  <2> QED BY <1>1, <1>2, <2>1, <2>2, <2>3
          DEF IInv, TypeOK, Ownership, Books, Progress, Joined
<1> QED BY <1>3, <1>4

LEMMA SampleKeeps ==
    ASSUME IInv, Sample
    PROVE  IInv'
<1>1. MaxChunks \in Nat
  BY RtpFeedAssumption
<1>2. /\ main = "closing" /\ main' = "sampled" /\ report = NoReport /\ ~raised
      /\ closing /\ who.enabled
      /\ UNCHANGED <<who, sdp, closing, ep, target, updates, worker, gen, rcvd,
                     prcsd, raised>>
  BY DEF Sample, IInv, Progress
<1>3. /\ gen \in 0..MaxChunks /\ rcvd \in 0..MaxChunks /\ prcsd \in 0..MaxChunks
      /\ prcsd <= rcvd
  BY <1>1 DEF IInv, TypeOK, Books
<1>4. /\ report' \in [gen : -1..MaxChunks, rcvd : 0..MaxChunks, prcsd : 0..MaxChunks]
      /\ report'.rcvd = rcvd /\ report'.prcsd <= report'.rcvd
  <2>1. CASE worker = "none"
    BY <1>1, <1>2, <1>3, <2>1 DEF Sample, NoReport, IInv, Books
  <2>2. CASE worker # "none"
    <3>1. report' = [gen |-> -1, rcvd |-> rcvd, prcsd |-> prcsd]
      BY <1>2, <2>2 DEF Sample, NoReport
    <3>2. -1 \in -1..MaxChunks
      BY <1>1
    <3> QED BY <1>3, <3>1, <3>2
  <2> QED BY <2>1, <2>2
<1>5. Drift'
  <2>1. /\ worker = "fed" => gen - rcvd = -1
        /\ worker # "fed" => gen - rcvd = 0 /\ gen = rcvd
    <3>1. /\ worker = "fed" => rcvd = gen + 1
          /\ worker # "fed" => rcvd = gen + 0
      BY DEF IInv, Books
    <3>2. gen \in Int
      BY <1>1, <1>3
    <3> QED BY <3>1, <3>2
  <2>2. worker' = worker /\ gen' = gen /\ report'.rcvd = rcvd
    BY <1>2, <1>4
  <2> QED BY <2>1, <2>2 DEF Drift
<1> QED BY <1>1, <1>2, <1>4, <1>5
        DEF IInv, TypeOK, Ownership, Books, Progress, Joined

\* The report; only when shutdown() has raised may the worker still be there.
LEMMA ReportKeeps ==
    ASSUME IInv, Finish \/ ShutdownRaises
    PROVE  IInv'
<1>1. MaxChunks \in Nat
  BY RtpFeedAssumption
<1>2. /\ main = "sampled" /\ main' = "reported" /\ ep' = "none"
      /\ report' = [report EXCEPT !.gen = gen]
      /\ raised' \in BOOLEAN
      /\ ~raised' => worker \in {"none", "gone"}
      /\ UNCHANGED <<who, sdp, closing, target, updates, worker, gen, rcvd, prcsd>>
  BY DEF Finish, ShutdownRaises, ReportRtp
<1>3. /\ report' \in [gen : -1..MaxChunks, rcvd : 0..MaxChunks, prcsd : 0..MaxChunks]
      /\ report'.rcvd = report.rcvd /\ report'.prcsd = report.prcsd
      /\ report'.gen = gen
  BY <1>1, <1>2 DEF IInv, TypeOK
<1>4. ~raised' => gen - report.rcvd \in {0, 1}
  BY <1>1, <1>2 DEF IInv, TypeOK, Progress, Drift
<1> QED BY <1>1, <1>2, <1>3, <1>4
        DEF IInv, TypeOK, Ownership, Books, Progress, Joined

\* The worker.  Once the end point is closing, a drained worker asks no more.
LEMMA WorkerKeeps ==
    ASSUME IInv, WorkerStep
    PROVE  IInv'
<1>1. MaxChunks \in Nat
  BY RtpFeedAssumption
<1>2. /\ gen \in 0..MaxChunks /\ rcvd \in 0..MaxChunks /\ prcsd \in 0..MaxChunks
      /\ report.rcvd \in 0..MaxChunks
  BY DEF IInv, TypeOK
<1>3. /\ UNCHANGED mainVars
      /\ worker \notin {"none", "gone"} /\ worker' # "none"
  BY DEF WorkerStep, Drain, Feed, Count, Play, Leave
<1>4. TypeOK' /\ Books'
  <2>1. CASE Drain
    BY <1>1, <1>2, <2>1 DEF Drain, IInv, TypeOK, Books, mainVars
  <2>2. CASE Feed
    BY <1>1, <1>2, <2>2 DEF Feed, IInv, TypeOK, Books, mainVars
  <2>3. CASE Count
    BY <1>1, <1>2, <2>3 DEF Count, IInv, TypeOK, Books, mainVars
  <2>4. CASE Play
    BY <1>1, <1>2, <2>4 DEF Play, IInv, TypeOK, Books, mainVars
  <2>5. CASE Leave
    BY <1>1, <1>2, <2>5 DEF Leave, IInv, TypeOK, Books, mainVars
  <2> QED BY <2>1, <2>2, <2>3, <2>4, <2>5 DEF WorkerStep
<1>5. main = "sampled" => Drift'
  <2> SUFFICES ASSUME main = "sampled" PROVE Drift'
    OBVIOUS
  <2>1. Drift /\ closing /\ report' = report
    BY <1>3 DEF IInv, Progress, mainVars
  <2>2. CASE Drain
    BY <1>1, <1>2, <2>1, <2>2 DEF Drain, Drift
  <2>3. CASE Feed
    BY <1>1, <1>2, <2>1, <2>3 DEF Feed, Drift
  <2>4. CASE Count
    BY <1>1, <1>2, <2>1, <2>4 DEF Count, Drift
  <2>5. CASE Play
    BY <1>1, <1>2, <2>1, <2>5 DEF Play, Drift
  <2>6. CASE Leave
    BY <1>1, <1>2, <2>1, <2>6 DEF Leave, Drift
  <2> QED BY <2>2, <2>3, <2>4, <2>5, <2>6 DEF WorkerStep
<1>6. Ownership'
  BY <1>3 DEF IInv, Ownership, mainVars
<1>7. Progress'
  BY <1>3, <1>5 DEF IInv, Progress, mainVars
<1>8. Joined'
  BY <1>3 DEF IInv, Joined, mainVars
<1> QED BY <1>4, <1>6, <1>7, <1>8 DEF IInv

LEMMA NextIInv == IInv /\ [Next]_vars => IInv'
<1> SUFFICES ASSUME IInv, [Next]_vars PROVE IInv'
  OBVIOUS
<1>1. CASE UNCHANGED vars
  BY <1>1 DEF vars, IInv, TypeOK, Ownership, Books, Progress, Drift, Joined
<1> QED BY <1>1, CallKeeps, DoneKeeps, SampleKeeps, ReportKeeps, WorkerKeeps
        DEF Next, MainStep

\* The inductive invariant: end point, worker and counters agree at every step
\* of either thread.
THEOREM FeedInvariant == Spec => []IInv
BY InitIInv, NextIInv, PTL DEF Spec

\* No counter outgrows what there is to play, for any number of chunks.
THEOREM TypeCorrect == Spec => []TypeOK
<1>1. IInv => TypeOK
  BY DEF IInv
<1> QED BY FeedInvariant, <1>1, PTL

\* "joined before reporting" (t1.py): the printed number is final and off from
\* the sample by one chunk at most.
THEOREM ReportIsFinal == Spec => []ReportAddsUp
<1>1. IInv => ReportAddsUp
  BY DEF IInv, Progress, Joined, ReportAddsUp
<1> QED BY FeedInvariant, <1>1, PTL

-----------------------------------------------------------------------------
(* The SDP check                                                           *)

\* No port that gennotinrange() returns is one that isinrange() accepts.
LEMMA PortsApart ==
    ASSUME NEW r, r.min \in Int, r.max \in Int, NEW p \in GenNotInRange(r)
    PROVE  ~IsInRange(r, p)
<1>1. p \in PortDraws /\ (p < r.min \/ p > r.max)
  BY DEF GenNotInRange
<1>2. p \in Int
  BY <1>1, PortDrawsAssumption
<1> QED BY <1>1, <1>2 DEF IsInRange

\* The side and the SDP it sends.
Sending ==
    /\ who.range \in Ranges
    /\ who.atype \in {"IP4", "IP6"}
    /\ "*" \in who.mips \/ "127.0.0.1" \in who.mips \/ who.atype = "IP6"
    /\ sdp \in [port : GenNotInRange(who.range), atype : {who.atype},
                addr : {Loopback(who.atype)} \cup GenIP(who.atype)]

LEMMA InitSending == Init => Sending
<1> SUFFICES ASSUME Init PROVE Sending
  OBVIOUS
<1>1. PICK side \in {"alice", "bob"}, atype \in {"IP4", "IP6"}, sigonly \in BOOLEAN,
           on \in BOOLEAN, env \in {{}, {"127.0.0.1", "10.1.1.1"}, {"*"}},
           range \in {r \in Ranges : ValidRange(r)} :
        /\ on => ~sigonly
        /\ who = [side |-> side, atype |-> atype, sigonly |-> sigonly,
                  enabled |-> on, range |-> range,
                  mips |-> CheckMediaIps(env, IF atype = "IP4" THEN "127.0.0.1"
                                              ELSE "[::1]")]
  BY DEF Init
<1>2. who.range \in Ranges /\ who.atype \in {"IP4", "IP6"}
  BY <1>1
<1>3. "*" \in who.mips \/ "127.0.0.1" \in who.mips \/ who.atype = "IP6"
  BY <1>1 DEF CheckMediaIps
<1>4. sdp \in LocalMedia(who.range, who.atype) \/ sdp \in FillHostPort(who.range, who.atype)
  BY DEF Init
<1> QED BY <1>2, <1>3, <1>4 DEF Sending, LocalMedia, FillHostPort

LEMMA NextSending == Sending /\ [Next]_vars => Sending'
<1> SUFFICES ASSUME Sending, [Next]_vars PROVE Sending'
  OBVIOUS
<1>1. CASE Media
  <2>1. who' = who
    BY <1>1 DEF Media
  <2>2. sdp' = sdp \/ sdp' \in LocalMedia(who.range, who.atype)
    BY <1>1 DEF Media
  <2> QED BY <2>1, <2>2 DEF Sending, LocalMedia
<1>2. CASE UNCHANGED <<who, sdp>>
  BY <1>2 DEF Sending
<1>3. ~Media => UNCHANGED <<who, sdp>>
  BY DEF Next, MainStep, WorkerStep, HangUp, Done, Sample, Finish, ShutdownRaises,
         ReportRtp, Drain, Feed, Count, Play, Leave, mainVars, vars
<1> QED BY <1>1, <1>2, <1>3

\* An SDP that the SSuT did not rewrite never passes, one that it did always
\* does, whatever is drawn and whatever range "-p" gives.
THEOREM RewriteIsTold == Spec => []CheckTellsRewritten
<1>1. Sending => CheckTellsRewritten
  <2> SUFFICES ASSUME Sending PROVE CheckTellsRewritten
    OBVIOUS
  <2>1. /\ who.range.min \in Int /\ who.range.max \in Int
        /\ who.range.min <= who.range.max
    BY RangesAssumption DEF Sending
  <2>2. sdp.port \in GenNotInRange(who.range) /\ sdp.atype = who.atype
    BY DEF Sending
  <2>3. ~CheckHostPort(who.range, who.atype, who.mips, sdp)
    BY <2>1, <2>2, PortsApart DEF CheckHostPort
  <2>4. ASSUME NEW p \in {who.range.min, who.range.max}
        PROVE  CheckHostPort(who.range, who.atype, who.mips,
                   [sdp EXCEPT !.port = p, !.addr = Loopback(who.atype)])
    <3> DEFINE sect == [sdp EXCEPT !.port = p, !.addr = Loopback(who.atype)]
    <3>1. /\ sect.port = p /\ sect.atype = who.atype
          /\ sect.addr = Loopback(who.atype)
      BY <2>2 DEF Sending
    <3>2. IsInRange(who.range, p)
      BY <2>1, <2>4 DEF IsInRange
    <3> HIDE DEF sect
    <3>3. CheckHostPort(who.range, who.atype, who.mips, sect)
      BY <3>1, <3>2 DEF CheckHostPort, Loopback, Sending
    <3> QED BY <3>3 DEF sect
  <2> QED BY <2>3, <2>4 DEF CheckTellsRewritten
<1> QED BY InitSending, NextSending, <1>1, PTL DEF Spec
=============================================================================
