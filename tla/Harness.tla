------------------------------ MODULE Harness -------------------------------
(***************************************************************************)
(* One run of test_run.sh, with the parameters of the script functions: it *)
(* starts RTPproxy, Bob, the SSuT, the statistics and Alice, waits for     *)
(* them, stops the rest and reports.  A run may be interrupted, and the    *)
(* next one begins by stopping what the last has left.                     *)
(*                                                                         *)
(* Alice's and Bob's insides are the business of AliceCore, BobCore, Call  *)
(* and Reinvite: here a call lasts at most as long as those modules allow. *)
(* Times are whole seconds; what only computes takes none.                 *)
(***************************************************************************)
EXTENDS TestConfig

CONSTANTS
    Confs,    \* which [mm, rtpc, mode, fault, rtppReady, mmReady] may be run
    Lasts     \* how long a call of each test takes at most

MmTypes == {"b2bua", "go-b2bua", "opensips", "kamailio", "siphon"}

\* CONTINUE or INTERACTIVE is set, or neither.
Modes == {"strict", "continue", "interactive"}

\* What may go wrong, other than starting slowly: a command of the start fails,
\* a test fails, the statistics differ, a program crashes during the tests.
HarnessFaults == {"none", "rtpp_sock", "mm_config", "mm_sock", "alice", "bob",
                  "stdout", "rtpp_crash", "mm_crash"}

\* ALL_TESTS of alice_testcore.py
AllTests ==
    {"1", "2", "3", "4", "5", "6", "7", "8", "9", "10", "11", "12", "13", "14",
     "early_cancel", "early_cancel_lost100", "reinvite", "reinv_fail",
     "reinv_brkn1", "reinv_brkn2", "reinv_onhold", "reinv_adelay",
     "reinv_frombob", "reinv_bad_ack", "inv_brkn1", "nated_contact"}

ASSUME HarnessAssumption ==
    /\ Confs \subseteq [mm : MmTypes, rtpc : {"udp", "rtp.io"}, mode : Modes,
                        fault : HarnessFaults, rtppReady : Nat, mmReady : Nat]
    /\ \A c \in Confs :
           /\ c.fault = "mm_config" => c.mm \in {"opensips", "kamailio"}
           /\ c.fault = "mm_sock" => c.mm = "b2bua"
    /\ Lasts \in [AllTests -> Nat]

VARIABLES
    now,      \* the clock
    conf,     \* the run
    pc,       \* where the script is
    last,     \* where it was when it ended
    wake,     \* the end of the script's sleep
    turns,    \* i, the counter of a wait loop
    epoch,    \* TEST_EPOCH
    proc,     \* the processes
    pidf,     \* which of them have a pid file
    stdout,   \* RTPproxy's output is the expected one
    status    \* exit status of the script

vars == <<now, conf, pc, last, wake, turns, epoch, proc, pidf, stdout, status>>

Never == 1000
Running == 256
Interrupted == 130

-----------------------------------------------------------------------------
(* Parameters                                                              *)

B2buas == {"b2bua", "go-b2bua"}

MmInitDelay(mm) == IF mm \in B2buas THEN 4 + 1 ELSE 1

\* A mistake: opensips, which runs the tests that end by a media time-out, is
\* sampled as early as kamailio.
RtppStatTimeout_Basic(mm) == IF mm \in B2buas THEN 57 ELSE 36

RtppStatTimeout(mm) == IF mm \in B2buas \cup {"opensips"} THEN 57 ELSE 36

\* ALICE_TIMEOUT and BOB_TIMEOUT: NO_MEDIA_TIMEOUT or BASIC_TIMEOUT.
Timeout(mm) == IF mm \in B2buas \cup {"opensips"} THEN 75 ELSE 45

MmWaitReady == 4

TestSet(mm) ==
    {"1", "2", "3", "4", "5", "6", "7", "8", "9", "10", "early_cancel",
     "early_cancel_lost100", "reinvite", "reinv_fail", "reinv_onhold",
     "reinv_frombob"}
    \cup (IF mm \in B2buas \cup {"opensips"} THEN {"11", "12", "13", "14"} ELSE {})
    \cup (IF mm \in B2buas THEN {"reinv_brkn1", "reinv_brkn2", "reinv_bad_ack"} ELSE {})
    \cup (IF mm = "b2bua" THEN {"inv_brkn1"} ELSE {})
    \cup (IF mm \in {"kamailio", "opensips"} THEN {"nated_contact"} ELSE {})

Opt(opt, arg) == [opt |-> opt, arg |-> arg]

\* A mistake: Bob is not given the time the SSuT takes to start.
BobOpts_Plain(mm) == <<Opt("-l", "*"), Opt("-P", 5062), Opt("-T", Timeout(mm))>>

BobOpts(mm) ==
    <<Opt("-l", "*"), Opt("-P", 5062), Opt("-T", Timeout(mm) + MmInitDelay(mm))>>

AliceOpts(mm) ==
    <<Opt("-l", "*"), Opt("-4", ""), Opt("-6", ""), Opt("-t", TestSet(mm)),
      Opt("-P", 5061), Opt("-T", Timeout(mm))>>

\* alice_main.py: the names of -t are not compared with anything.
Requested(opts) == OptArg(opts, "-t", AllTests)

\* a_test.__init__(): the classes that are in tcfg.tests.
Scheduled(opts) == AllTests \cap Requested(opts)

\* bob_main.py asserts that there are none but common options.
BobAccepts(opts) == LeftOpts(opts) = {}

-----------------------------------------------------------------------------
(* Processes: "off", "up", "down"; when started; when the timer set at the *)
(* start goes off; exit code.                                              *)

Off == [st |-> "off", since |-> 0, until |-> Never, rc |-> 0]

Started(procs, p, ival) ==
    [procs EXCEPT ![p] = [st |-> "up", since |-> now, until |-> now + ival, rc |-> 0]]

Stopped(p, rc) == [proc EXCEPT ![p].st = "down", ![p].rc = rc]

Up(p) == proc[p].st = "up"

RtppIsReady == now >= proc["rtpp"].since + conf.rtppReady
MmIsReady == now >= proc["mm"].since + conf.mmReady

\* godead_timeout
GoDeadTimeout == 10

\* When the user agents of the calls are dead, at the latest.
Deaths ==
    {proc["alice"].since + Lasts[t] + GoDeadTimeout : t \in Scheduled(AliceOpts(conf.mm))}

CallsDeadBy(t) == \A d \in Deaths : d <= t
CallsOverBy(t) == CallsDeadBy(t + GoDeadTimeout)

\* The SSuT was not there in time, or has left: calls may have failed.
Late == proc["mm"].since + conf.mmReady > proc["alice"].since
Hampered == Late \/ proc["mm"].st = "down"

\* Verdicts of a core, when these timers go off.
ExitCodes(p, timers) ==
    IF conf.fault = p \/ \E t \in timers : ~CallsDeadBy(t) THEN {1}
    ELSE IF Hampered THEN {0, 1} ELSE {0}

\* sys.exit(acore.rval): when no subtest is left, or when the timer has gone off.
AliceExits ==
    /\ Up("alice")
    /\ CallsDeadBy(now) \/ now >= proc["alice"].until
    /\ \E rc \in ExitCodes("alice", {proc["alice"].until, proc["bob"].until}) :
           proc' = Stopped("alice", rc)
    /\ UNCHANGED <<now, conf, pc, last, wake, turns, epoch, pidf, stdout, status>>

\* sys.exit(bcore.rval): when the timer has gone off.
BobExits ==
    /\ Up("bob")
    /\ now >= proc["bob"].until
    /\ \E rc \in IF proc["alice"].st = "off" THEN {0}
                 ELSE ExitCodes("bob", {proc["bob"].until}) :
           proc' = Stopped("bob", rc)
    /\ UNCHANGED <<now, conf, pc, last, wake, turns, epoch, pidf, stdout, status>>

\* rtpproxy_get_stats(): the counters are as expected once all calls are over.
StatsTaken ==
    /\ Up("stats")
    /\ now >= proc["stats"].until
    /\ proc' = Stopped("stats", 0)
    /\ \E right \in IF Hampered THEN BOOLEAN ELSE {TRUE} :
           stdout' = (right /\ CallsOverBy(now) /\ conf.fault # "stdout" /\ proc["rtpp"].st # "down")
    /\ UNCHANGED <<now, conf, pc, last, wake, turns, epoch, pidf, status>>

\* One of the programs under test crashes while the tests are running.
Crash ==
    /\ Up("alice")
    /\ \/ conf.fault = "mm_crash" /\ Up("mm") /\ proc' = Stopped("mm", 1)
       \/ conf.fault = "rtpp_crash" /\ Up("rtpp") /\ proc' = Stopped("rtpp", 1)
    /\ UNCHANGED <<now, conf, pc, last, wake, turns, epoch, pidf, stdout, status>>

-----------------------------------------------------------------------------
(* The script                                                              *)

At(label) == pc = label /\ now >= wake

Exit(code) == pc' = "end" /\ last' = pc /\ status' = code

\* report_rc() and report_rc_log(), and fail_rc(): with CONTINUE, or when the
\* user says so, the script goes on.
ReportRc(good, next) ==
    \/ (good \/ conf.mode # "strict") /\ pc' = next /\ UNCHANGED <<last, status>>
    \/ ~good /\ conf.mode # "continue" /\ Exit(1)

\* RTPproxy writes its pid file when it is ready.
StartRtpp ==
    /\ At("start_rtpp")
    /\ IF conf.rtpc = "rtp.io"
       THEN pc' = "start_bob" /\ UNCHANGED <<proc, wake>>
       ELSE /\ pc' = "wait_rtpp"
            /\ proc' = Started(proc, "rtpp", Never)
            /\ wake' = now + 1
    /\ UNCHANGED <<now, conf, last, turns, epoch, pidf, stdout, status>>

WaitRtpp ==
    /\ At("wait_rtpp")
    /\ IF RtppIsReady
       THEN /\ pc' = "probe_rtpp"
            /\ pidf' = pidf \cup {"rtpp"}
            /\ UNCHANGED <<last, turns, status>>
       ELSE /\ ReportRc(turns <= 4, "wait_rtpp")
            /\ turns' = turns + 1
            /\ UNCHANGED pidf
    /\ wake' = now + 1
    /\ UNCHANGED <<now, conf, epoch, proc, stdout>>

ProbeRtpp ==
    /\ At("probe_rtpp")
    /\ ReportRc(conf.fault # "rtpp_sock", "start_bob")
    /\ UNCHANGED <<now, conf, wake, turns, epoch, proc, pidf, stdout>>

StartBob ==
    /\ At("start_bob")
    /\ proc' = IF BobAccepts(BobOpts(conf.mm))
               THEN Started(proc, "bob", TestTimeoutOf(BobOpts(conf.mm)))
               ELSE Stopped("bob", 1)
    /\ pc' = "bob_started"
    /\ UNCHANGED <<now, conf, last, wake, turns, epoch, pidf, stdout, status>>

\* The script learns the number of the process and writes it down: a step of its
\* own, here as for the SSuT and Alice, because an abort may come before it.
BobStarted ==
    /\ At("bob_started")
    /\ pidf' = pidf \cup {"bob"}
    /\ pc' = "check_mm"
    /\ UNCHANGED <<now, conf, last, wake, turns, epoch, proc, stdout, status>>

\* start_mm() up to the start: a stale pid file is removed, and opensips and
\* kamailio check their configuration.
CheckMm ==
    /\ At("check_mm")
    /\ pidf' = pidf \ {"mm"}
    /\ ReportRc(conf.mm \in {"opensips", "kamailio"} => conf.fault # "mm_config",
                "start_mm")
    /\ UNCHANGED <<now, conf, wake, turns, epoch, proc, stdout>>

\* A mistake: the turns of the first wait loop are not forgotten.
StartMm_NoReset ==
    /\ At("start_mm")
    /\ proc' = Started(proc, "mm", Never)
    /\ pc' = IF conf.mm = "b2bua" THEN "wait_mm" ELSE "mm_started"
    /\ UNCHANGED <<now, conf, last, wake, turns, epoch, pidf, stdout, status>>

StartMm ==
    /\ At("start_mm")
    /\ proc' = Started(proc, "mm", Never)
    /\ pc' = IF conf.mm = "b2bua" THEN "wait_mm" ELSE "mm_started"
    /\ turns' = 0
    /\ UNCHANGED <<now, conf, last, wake, epoch, pidf, stdout, status>>

\* Only the b2bua has a socket to wait for and to be asked on.
WaitMm ==
    /\ At("wait_mm")
    /\ IF MmIsReady
       THEN /\ ReportRc(conf.fault # "mm_sock", "mm_started")
            /\ UNCHANGED <<turns, wake>>
       ELSE /\ ReportRc(turns <= MmWaitReady, "wait_mm")
            /\ turns' = turns + 1
            /\ wake' = now + 1
    /\ UNCHANGED <<now, conf, epoch, proc, pidf, stdout>>

\* A mistake: the SSuT gets no pid file.
MmStarted_NoPid ==
    /\ At("mm_started")
    /\ wake' = epoch + MmInitDelay(conf.mm)
    /\ pc' = "start_alice"
    /\ UNCHANGED <<now, conf, last, turns, epoch, proc, pidf, stdout, status>>

\* The end of start_mm().  MM_INIT_DELAY counts from the beginning of the run.
MmStarted ==
    /\ At("mm_started")
    /\ pidf' = pidf \cup {"mm"}
    /\ wake' = epoch + MmInitDelay(conf.mm)
    /\ pc' = "start_alice"
    /\ UNCHANGED <<now, conf, last, turns, epoch, proc, stdout, status>>

\* rtp.io is asked for its statistics first.
StartAlice ==
    /\ At("start_alice")
    /\ ReportRc(conf.rtpc = "rtp.io" => conf.fault # "rtpp_sock", "alice_started")
    /\ IF pc' = "end" THEN UNCHANGED <<epoch, proc>>
       ELSE /\ epoch' = now
            /\ proc' = Started(Started(proc, "stats", RtppStatTimeout(conf.mm)),
                               "alice", TestTimeoutOf(AliceOpts(conf.mm)))
    /\ UNCHANGED <<now, conf, wake, turns, pidf, stdout>>

AliceStarted ==
    /\ At("alice_started")
    /\ pidf' = pidf \cup {"alice"}
    /\ pc' = "wait_alice"
    /\ UNCHANGED <<now, conf, last, wake, turns, epoch, proc, stdout, status>>

\* A mistake: the script waits for everything before it stops anything.
TestsOver_All == \A p \in {"stats", "alice", "bob", "mm"} : proc[p].st = "down"

\* wait STATS_PID, ALICE_PID and BOB_PID
TestsOver == \A p \in {"stats", "alice", "bob"} : proc[p].st = "down"

\* The SSuT is told to end and waited for, and when all is well RTPproxy is
\* given the rest of 6 s after its statistics.
StopMm ==
    /\ At("wait_alice")
    /\ TestsOver
    /\ proc' = IF Up("mm") THEN Stopped("mm", 0) ELSE proc
    /\ wake' = IF \A p \in {"alice", "bob", "mm"} : proc'[p].rc = 0
               THEN epoch + RtppStatTimeout(conf.mm) + 6 ELSE now
    /\ pc' = "stop_rtpp"
    /\ UNCHANGED <<now, conf, last, turns, epoch, pidf, stdout, status>>

\* RTPproxy likewise; the pid files of Alice and Bob are removed.
StopRtpp ==
    /\ At("stop_rtpp")
    /\ proc' = IF Up("rtpp") THEN Stopped("rtpp", 0) ELSE proc
    /\ pidf' = (pidf \ {"alice", "bob"}) \ {"rtpp"}
    /\ pc' = "report"
    /\ turns' = 1
    /\ UNCHANGED <<now, conf, last, wake, epoch, stdout, status>>

\* What is reported, in this order.
Reports ==
    <<proc["alice"].rc = 0, proc["bob"].rc = 0, proc["rtpp"].rc = 0, stdout,
      proc["mm"].rc = 0>>

Report ==
    /\ At("report")
    /\ IF turns <= Len(Reports)
       THEN ReportRc(Reports[turns], "report")
       ELSE Exit(0)
    /\ turns' = turns + 1
    /\ UNCHANGED <<now, conf, wake, epoch, proc, pidf, stdout>>

\* The user stops the script.  What it has started in the background is not
\* told.
Interrupt ==
    /\ pc \notin {"end", "cleaned"}
    /\ Exit(Interrupted)
    /\ UNCHANGED <<now, conf, wake, turns, epoch, proc, pidf, stdout>>

\* The beginning of the next run: what has a pid file is told to end.
NextRun ==
    /\ pc = "end"
    /\ pc' = "cleaned"
    /\ proc' = [p \in DOMAIN proc |->
                   IF p \in pidf THEN [proc[p] EXCEPT !.st = "down"] ELSE proc[p]]
    /\ UNCHANGED <<now, conf, last, wake, turns, epoch, pidf, stdout, status>>

-----------------------------------------------------------------------------
Deadlines ==
    (IF pc \in {"end", "cleaned"} THEN {} ELSE {wake})
    \cup {proc[p].until : p \in {q \in {"bob", "stats", "alice"} : Up(q)}}
    \cup (IF Up("alice") THEN {d \in Deaths : CallsDeadBy(d)} ELSE {})

Tick ==
    /\ \A t \in Deadlines : t > now \/ (t = wake /\ pc = "wait_alice")
    /\ \E t \in Deadlines :
           t > now /\ (\A u \in Deadlines : u > now => u >= t) /\ now' = t
    /\ UNCHANGED <<conf, pc, last, wake, turns, epoch, proc, pidf, stdout, status>>

Init ==
    /\ now = 0
    /\ conf \in Confs
    /\ pc = "start_rtpp" /\ last = pc
    /\ wake = 0 /\ turns = 0 /\ epoch = 0
    /\ proc = [p \in {"rtpp", "bob", "mm", "stats", "alice"} |-> Off]
    /\ pidf = {}
    /\ stdout = FALSE
    /\ status = Running

ScriptStep ==
    \/ StartRtpp \/ WaitRtpp \/ ProbeRtpp \/ StartBob \/ BobStarted
    \/ CheckMm \/ StartMm \/ WaitMm \/ MmStarted \/ StartAlice \/ AliceStarted
    \/ StopMm \/ StopRtpp \/ Report

Progress == ScriptStep \/ AliceExits \/ BobExits \/ StatsTaken \/ Tick

Next == Progress \/ Crash \/ Interrupt \/ NextRun

\* Processes run and time goes on.  Nobody need crash or be interrupted.
Spec == Init /\ [][Next]_vars /\ WF_vars(Progress)

-----------------------------------------------------------------------------
TypeOK ==
    /\ conf \in Confs
    /\ \A p \in DOMAIN proc :
           proc[p].st \in {"off", "up", "down"} /\ proc[p].rc \in {0, 1}
    /\ turns \in Nat
    /\ turns <= 7 \/ turns <= conf.rtppReady \/ turns <= conf.mmReady
    /\ pidf \subseteq DOMAIN proc
    /\ stdout \in BOOLEAN
    /\ status \in {0, 1, Interrupted, Running}

\* The script succeeds exactly when the SSuT is good: every fault, in whichever
\* process it shows, makes it exit with an error, and a correct SSuT that is
\* ready when Alice starts is never blamed, because the calls of each TEST_SET
\* are over before the statistics are taken and dead before either timer goes
\* off.  With CONTINUE or an obliging user the status says nothing.
RunTellsTruth ==
    conf.mode = "strict" /\ status \in {0, 1} =>
        /\ status = 0 =>
               /\ conf.fault \in {"none", "rtpp_crash", "mm_crash"}
               /\ \A p \in DOMAIN proc : proc[p].st # "up" /\ proc[p].rc = 0
        /\ status = 1 =>
               \/ conf.fault # "none"
               \/ conf.rtppReady > 6
               \/ conf.mm = "b2bua" /\ conf.mmReady > MmWaitReady + 1
               \/ conf.mm # "b2bua" /\ Late

\* In a strict run Bob's timer, which is started before the SSuT, never goes off
\* before Alice's: BOB_TIMEOUT + MM_INIT_DELAY covers the longest wait for the
\* SSuT.  With CONTINUE or an obliging user the script waits on without end.
BobOutlivesAlice ==
    conf.mode = "strict" /\ Up("alice") => proc["bob"].until >= proc["alice"].until

\* What an aborted run leaves behind is stopped by the next one: all but the
\* statistics, which have no pid file, and the one program that was running when
\* the script was aborted and whose pid file was not written yet: RTPproxy or a
\* b2bua it was waiting for, and whichever program it had that moment started.
LeftoversStopped ==
    pc = "cleaned" => \A p \in DOMAIN proc :
        Up(p) => \/ p = "stats"
                 \/ p = "rtpp" /\ last = "wait_rtpp"
                 \/ p = "bob" /\ last = "bob_started"
                 \/ p = "mm" /\ last \in {"wait_mm", "mm_started"}
                 \/ p = "alice" /\ last = "alice_started"

\* Every run comes to an end.
EventuallyEnds == <>(status # Running)
=============================================================================
