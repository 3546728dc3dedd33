--------------------------- MODULE HarnessProofs ----------------------------
(***************************************************************************)
(* What the exit status of test_run.sh says, and what an aborted run       *)
(* leaves behind, for every kind of SSuT, however slowly it and RTPproxy   *)
(* start, and for every table of how long the calls last that fits the     *)
(* time-outs of functions.                                                 *)
(***************************************************************************)
EXTENDS Harness, TLAPS

Procs == {"rtpp", "bob", "mm", "stats", "alice"}

\* The script, in order.
BeforeBob == {"start_rtpp", "wait_rtpp", "probe_rtpp", "start_bob"}
BeforeMm == BeforeBob \cup {"bob_started", "check_mm", "start_mm"}
BeforeAlice == BeforeMm \cup {"wait_mm", "mm_started", "start_alice"}
Stopping == {"stop_rtpp", "report"}
Testing == {"alice_started", "wait_alice"}
Places == BeforeAlice \cup Testing \cup Stopping

\* The script is running.
Active == pc \notin {"end", "cleaned"}

\* Where it is, or where it has ended.
Place == IF Active THEN pc ELSE last

Strict == conf.mode = "strict"

ProcType == [st : {"off", "up", "down"}, since : Nat, until : Nat, rc : {0, 1}]

Typed ==
    /\ now \in Nat /\ wake \in Nat /\ turns \in Nat /\ epoch \in Nat
    /\ conf \in Confs
    /\ pc \in Places \cup {"end", "cleaned"} /\ last \in Places
    /\ proc \in [Procs -> ProcType]
    /\ pidf \in SUBSET Procs
    /\ stdout \in BOOLEAN
    /\ status \in {0, 1, Interrupted, Running}
    /\ Active => status = Running

\* Who can be there at which place.
Alive ==
    /\ Place \in BeforeBob => ~Up("bob")
    /\ Place \in BeforeMm => ~Up("mm")
    /\ Place \in BeforeAlice => ~Up("alice") /\ ~Up("stats")
    /\ Place \in Stopping => \A p \in {"alice", "bob", "stats", "mm"} : ~Up(p)
    /\ Place = "report" => ~Up("rtpp")

\* The processes without a pid file to be stopped by.
Untracked(p) ==
    \/ p = "stats"
    \/ p = "rtpp" /\ Place = "wait_rtpp"
    \/ p = "bob" /\ Place = "bob_started"
    \/ p = "mm" /\ Place \in {"wait_mm", "mm_started"}
    \/ p = "alice" /\ Place = "alice_started"

Tracked == \A p \in Procs : Up(p) => (p \in pidf /\ pc # "cleaned") \/ Untracked(p)

\* The counter of a wait loop is the time since it began, and the script is
\* never late for the end of a sleep.
Loops ==
    /\ pc = "start_rtpp" => turns = 0 /\ wake = 0
    /\ pc = "wait_rtpp" =>
           /\ proc["rtpp"].since = 0
           /\ wake = turns + 1 /\ turns <= conf.rtppReady
    /\ pc = "wait_mm" =>
           /\ conf.mm = "b2bua"
           /\ wake = proc["mm"].since + turns /\ turns <= conf.mmReady
           /\ Strict => turns <= MmWaitReady + 1
    /\ pc = "report" => turns \in 1..6
    /\ turns <= 7 \/ turns <= conf.rtppReady \/ turns <= conf.mmReady
    /\ pc \in BeforeAlice => epoch = 0
    /\ pc \in BeforeAlice \ {"start_alice"} => now <= wake

\* When the processes were started, by when.
BobStart == proc["bob"].since
Starts ==
    /\ Active /\ pc \notin BeforeBob =>
           proc["bob"].until = BobStart + Timeout(conf.mm) + MmInitDelay(conf.mm)
    /\ pc \in {"bob_started", "check_mm", "start_mm"} => wake = BobStart
    /\ pc = "wait_mm" => proc["mm"].since = BobStart
    /\ Strict /\ pc = "mm_started" => wake <= BobStart + MmInitDelay(conf.mm)
    /\ pc = "start_alice" => wake = MmInitDelay(conf.mm)
    /\ Strict /\ pc = "start_alice" => now <= BobStart + MmInitDelay(conf.mm)
    /\ pc \in {"mm_started", "start_alice"} /\ conf.mm = "b2bua" => MmIsReady
    /\ Active /\ pc \in BeforeAlice => proc["alice"].st = "off"
    /\ Active /\ pc \notin BeforeAlice =>
           /\ proc["alice"].until = proc["alice"].since + Timeout(conf.mm)
           /\ proc["stats"].until = proc["alice"].since + RtppStatTimeout(conf.mm)
           /\ conf.mm = "b2bua" => ~Late
           /\ proc["alice"].st # "off"
    /\ Strict /\ Place \notin BeforeAlice =>
           proc["alice"].until <= proc["bob"].until

\* The faults that would have ended a strict run before its place.
Passed ==
    Active /\ Strict =>
        /\ pc \notin {"start_rtpp", "wait_rtpp", "probe_rtpp"} /\ conf.rtpc # "rtp.io"
               => conf.fault # "rtpp_sock"
        /\ pc \notin BeforeAlice => conf.fault # "rtpp_sock"
        /\ pc \notin BeforeBob \cup {"bob_started", "check_mm"} => conf.fault # "mm_config"
        /\ pc \notin BeforeMm \cup {"wait_mm"} => conf.fault # "mm_sock"

\* The faults that have left their mark by now.
Marks ==
    /\ Active /\ Strict =>
           /\ \A p \in {"alice", "bob"} :
                  conf.fault = p /\ proc[p].st = "down" => proc[p].rc = 1
           /\ pc = "report" => \A i \in 1..(turns - 1) : Reports[i]
           /\ pc \in Stopping => \A p \in {"alice", "bob"} : proc[p].st = "down"
    /\ stdout => conf.fault # "stdout"
    /\ proc["stats"].rc = 0

\* The first half of RunTellsTruth.
GoodMeansGood ==
    Strict /\ status = 0 =>
        /\ conf.fault \in {"none", "rtpp_crash", "mm_crash"}
        /\ \A p \in Procs : ~Up(p) /\ proc[p].rc = 0

\* What may be blamed on the SSuT or RTPproxy: the second half.
Guilty ==
    \/ conf.fault # "none"
    \/ conf.rtppReady > 6
    \/ conf.mm = "b2bua" /\ conf.mmReady > MmWaitReady + 1
    \/ conf.mm # "b2bua" /\ Late

\* A call of a test set is over before the statistics and dead before the
\* time-out.
LastsFit ==
    \A c \in Confs : \A t \in AllTests \cap TestSet(c.mm) :
        /\ Lasts[t] <= RtppStatTimeout(c.mm)
        /\ Lasts[t] + GoDeadTimeout <= Timeout(c.mm)

\* Before the tests nothing has ended.
Intact ==
    Active /\ Strict /\ pc \in BeforeAlice =>
        /\ \A p \in Procs : proc[p].rc = 0
        /\ proc["rtpp"].st # "down"
        /\ pc \notin BeforeMm => Up("mm")

\* As long as nobody is guilty nothing goes wrong.
Clean ==
    Active /\ Strict /\ pc \notin BeforeAlice /\ ~Guilty =>
        /\ \A p \in Procs : proc[p].rc = 0
        /\ proc["stats"].st = "down" => stdout
        /\ pc \in Testing => Up("mm") /\ proc["rtpp"].st # "down"
        /\ pc \in Stopping => proc["stats"].st = "down"

BlameFits == Strict /\ status = 1 => Guilty

IInv ==
    /\ Typed /\ Alive /\ Tracked /\ Loops /\ Starts
    /\ Passed /\ Marks /\ GoodMeansGood

-----------------------------------------------------------------------------
(* Numbers and options.                                                    *)

LEMMA Codes ==
    /\ Never \in Nat
    /\ Running # 0 /\ Running # 1 /\ Interrupted # 0 /\ Interrupted # 1
    /\ Running # Interrupted
BY DEF Never, Running, Interrupted

LEMMA Delays ==
    ASSUME NEW mm
    PROVE  /\ Timeout(mm) \in Nat /\ RtppStatTimeout(mm) \in Nat
           /\ MmInitDelay(mm) \in Nat /\ MmInitDelay(mm) <= MmWaitReady + 1
           /\ mm = "b2bua" => MmInitDelay(mm) = MmWaitReady + 1
           /\ GoDeadTimeout \in Nat /\ MmWaitReady = 4
BY DEF Timeout, RtppStatTimeout, MmInitDelay, MmWaitReady, B2buas, GoDeadTimeout

LEMMA AliceOptions ==
    ASSUME NEW mm
    PROVE  /\ {i \in DOMAIN AliceOpts(mm) : AliceOpts(mm)[i].opt = "-t"} = {4}
           /\ {i \in DOMAIN AliceOpts(mm) : AliceOpts(mm)[i].opt = "-T"} = {6}
           /\ AliceOpts(mm)[4].arg = TestSet(mm)
           /\ AliceOpts(mm)[6].arg = Timeout(mm)
<1>1. DOMAIN AliceOpts(mm) = 1..6
  BY DEF AliceOpts
<1>2. AliceOpts(mm)[1].opt = "-l" /\ AliceOpts(mm)[2].opt = "-4"
  BY DEF AliceOpts, Opt
<1>6. AliceOpts(mm)[3].opt = "-6"
  BY DEF AliceOpts, Opt
<1>3. AliceOpts(mm)[4].opt = "-t" /\ AliceOpts(mm)[4].arg = TestSet(mm)
  BY DEF AliceOpts, Opt
<1>4. AliceOpts(mm)[5].opt = "-P"
  BY DEF AliceOpts, Opt
<1>5. AliceOpts(mm)[6].opt = "-T" /\ AliceOpts(mm)[6].arg = Timeout(mm)
  BY DEF AliceOpts, Opt
<1> QED BY <1>1, <1>2, <1>3, <1>4, <1>5, <1>6

\* What the scripts' command lines come to.
LEMMA Options ==
    ASSUME NEW mm
    PROVE  /\ BobAccepts(BobOpts(mm))
           /\ TestTimeoutOf(BobOpts(mm)) = Timeout(mm) + MmInitDelay(mm)
           /\ TestTimeoutOf(AliceOpts(mm)) = Timeout(mm)
           /\ Scheduled(AliceOpts(mm)) = AllTests \cap TestSet(mm)
<1>1. BobAccepts(BobOpts(mm))
  BY DEF BobAccepts, BobOpts, LeftOpts, CommonOpts, Opt
<1>2. TestTimeoutOf(BobOpts(mm)) = Timeout(mm) + MmInitDelay(mm)
  <2> DEFINE o == BobOpts(mm)
             given == {i \in DOMAIN o : o[i].opt = "-T"}
  <2>1. given = {3} /\ o[3].arg = Timeout(mm) + MmInitDelay(mm)
    BY DEF BobOpts, Opt
  <2>2. (CHOOSE i \in {3} : \A j \in {3} : j <= i) = 3
    OBVIOUS
  <2> QED BY <2>1, <2>2 DEF TestTimeoutOf, OptArg
<1>3. TestTimeoutOf(AliceOpts(mm)) = Timeout(mm)
  <2> DEFINE o == AliceOpts(mm)
             given == {i \in DOMAIN o : o[i].opt = "-T"}
  <2>1. given = {6} /\ o[6].arg = Timeout(mm)
    BY AliceOptions
  <2>2. (CHOOSE i \in {6} : \A j \in {6} : j <= i) = 6
    OBVIOUS
  <2> QED BY <2>1, <2>2 DEF TestTimeoutOf, OptArg
<1>4. Scheduled(AliceOpts(mm)) = AllTests \cap TestSet(mm)
  <2> DEFINE o == AliceOpts(mm)
             given == {i \in DOMAIN o : o[i].opt = "-t"}
  <2>1. given = {4} /\ o[4].arg = TestSet(mm)
    BY AliceOptions
  <2>2. (CHOOSE i \in {4} : \A j \in {4} : j <= i) = 4
    OBVIOUS
  <2>3. Requested(o) = TestSet(mm)
    BY <2>1, <2>2 DEF Requested, OptArg
  <2> QED BY <2>3 DEF Scheduled
<1> QED BY <1>1, <1>2, <1>3, <1>4

LEMMA ConfFields ==
    ASSUME conf \in Confs
    PROVE  /\ conf.mm \in MmTypes /\ conf.rtpc \in {"udp", "rtp.io"}
           /\ conf.mode \in Modes /\ conf.fault \in HarnessFaults
           /\ conf.rtppReady \in Nat /\ conf.mmReady \in Nat
           /\ conf.fault = "mm_config" => conf.mm \in {"opensips", "kamailio"}
           /\ conf.fault = "mm_sock" => conf.mm = "b2bua"
BY HarnessAssumption

-----------------------------------------------------------------------------
(* Processes.                                                              *)

LEMMA OneStarted ==
    ASSUME Typed, NEW procs \in [Procs -> ProcType], NEW p \in Procs, NEW ival \in Nat
    PROVE  /\ Started(procs, p, ival) \in [Procs -> ProcType]
           /\ Started(procs, p, ival)[p].st = "up"
           /\ Started(procs, p, ival)[p].rc = 0
           /\ Started(procs, p, ival)[p].since = now
           /\ Started(procs, p, ival)[p].until = now + ival
           /\ \A q \in Procs \ {p} : Started(procs, p, ival)[q] = procs[q]
<1> DEFINE r == [st |-> "up", since |-> now, until |-> now + ival, rc |-> 0]
<1>1. r \in ProcType
  BY DEF Typed, ProcType
<1>2. Started(procs, p, ival) = [procs EXCEPT ![p] = r]
  BY DEF Started
<1> QED BY <1>1, <1>2

LEMMA OneStopped ==
    ASSUME Typed, NEW p \in Procs, NEW rc \in {0, 1}
    PROVE  /\ Stopped(p, rc) \in [Procs -> ProcType]
           /\ Stopped(p, rc)[p].st = "down" /\ Stopped(p, rc)[p].rc = rc
           /\ Stopped(p, rc)[p].since = proc[p].since
           /\ Stopped(p, rc)[p].until = proc[p].until
           /\ \A q \in Procs \ {p} : Stopped(p, rc)[q] = proc[q]
<1>1. proc[p] \in ProcType /\ DOMAIN proc = Procs
  BY DEF Typed
<1> DEFINE f == [proc EXCEPT ![p].st = "down"]
<1>2. Stopped(p, rc) = [f EXCEPT ![p].rc = rc]
  BY DEF Stopped
<1>3. /\ f \in [Procs -> ProcType] /\ f[p].st = "down"
      /\ f[p].since = proc[p].since /\ f[p].until = proc[p].until
      /\ \A q \in Procs \ {p} : f[q] = proc[q]
  BY <1>1 DEF Typed, ProcType
<1> HIDE DEF f
<1> QED BY <1>2, <1>3 DEF ProcType

-----------------------------------------------------------------------------
(* Typed.                                                                  *)

LEMMA ReportTyped ==
    ASSUME Typed, Active, NEW good, NEW next \in Places, ReportRc(good, next)
    PROVE  /\ pc' \in Places \cup {"end", "cleaned"} /\ last' \in Places
           /\ status' \in {0, 1, Interrupted, Running}
           /\ pc' \notin {"end", "cleaned"} => status' = Running
BY DEF Typed, Active, ReportRc, Exit, Places

LEMMA InitTyped == Init => Typed
<1> SUFFICES ASSUME Init PROVE Typed
  OBVIOUS
<1>1. Off \in ProcType
  BY Codes DEF Off, ProcType
<1>2. proc \in [Procs -> ProcType]
  BY <1>1 DEF Init, Procs
<1> QED BY <1>2 DEF Init, Typed, Places, BeforeAlice, BeforeMm, BeforeBob, Active

LEMMA TypedStep == Typed /\ [Next]_vars => Typed'
<1> SUFFICES ASSUME Typed, [Next]_vars PROVE Typed'
  OBVIOUS
<1> USE DEF Places, BeforeAlice, BeforeMm, BeforeBob, Testing, Stopping
<1>0. /\ now \in Nat /\ wake \in Nat /\ turns \in Nat /\ epoch \in Nat
      /\ conf \in Confs /\ pc \in Places \cup {"end", "cleaned"} /\ last \in Places
      /\ proc \in [Procs -> ProcType] /\ pidf \in SUBSET Procs /\ stdout \in BOOLEAN
      /\ status \in {0, 1, Interrupted, Running} /\ (Active => status = Running)
  BY DEF Typed
<1>1. CASE StartRtpp
  <2>1. Started(proc, "rtpp", Never) \in [Procs -> ProcType]
    BY <1>0, OneStarted, Codes DEF Procs
  <2> QED BY <1>0, <1>1, <2>1 DEF StartRtpp, Typed, Active, At
<1>2. CASE WaitRtpp
  <2>1. Active
    BY <1>2 DEF WaitRtpp, At, Active
  <2>2. CASE RtppIsReady
    <3>1. pc' = "probe_rtpp" /\ pidf' = pidf \cup {"rtpp"} /\ wake' = now + 1
      BY <1>2, <2>2 DEF WaitRtpp
    <3>2. UNCHANGED <<now, conf, last, turns, epoch, proc, stdout, status>>
      BY <1>2, <2>2 DEF WaitRtpp
    <3> QED BY <1>0, <2>1, <3>1, <3>2 DEF Typed, Active, Procs
  <2>3. CASE ~RtppIsReady
    <3>1. ReportRc(turns <= 4, "wait_rtpp")
      BY <1>2, <2>3 DEF WaitRtpp
    <3> QED BY <1>0, <1>2, <2>1, <2>3, <3>1, ReportTyped DEF WaitRtpp, Typed, Active
  <2> QED BY <2>2, <2>3
<1>3. CASE ProbeRtpp
  <2>1. Active /\ ReportRc(conf.fault # "rtpp_sock", "start_bob")
    BY <1>3 DEF ProbeRtpp, At, Active
  <2> QED BY <1>0, <1>3, <2>1, ReportTyped DEF ProbeRtpp, Typed, Active
<1>4. CASE StartBob
  <2>1. proc' = Started(proc, "bob", Timeout(conf.mm) + MmInitDelay(conf.mm))
    BY <1>4, Options DEF StartBob
  <2> DEFINE ival == Timeout(conf.mm) + MmInitDelay(conf.mm)
  <2>2. ival \in Nat
    BY Delays
  <2> HIDE DEF ival
  <2>3. proc' \in [Procs -> ProcType]
    BY <1>0, <2>1, <2>2, OneStarted DEF Procs, ival
  <2> QED BY <1>0, <1>4, <2>3 DEF StartBob, Typed, Active, At, Procs
<1>5. CASE CheckMm
  <2>1. /\ Active
        /\ ReportRc(conf.mm \in {"opensips", "kamailio"} => conf.fault # "mm_config",
                    "start_mm")
    BY <1>5 DEF CheckMm, At, Active
  <2> QED BY <1>0, <1>5, <2>1, ReportTyped DEF CheckMm, Typed, Active
<1>6. CASE StartMm
  <2>1. Started(proc, "mm", Never) \in [Procs -> ProcType]
    BY <1>0, OneStarted, Codes DEF Procs
  <2> QED BY <1>0, <1>6, <2>1 DEF StartMm, Typed, Active, At
<1>7. CASE WaitMm
  <2>1. Active
    BY <1>7 DEF WaitMm, At, Active
  <2>2. CASE MmIsReady
    <3>1. ReportRc(conf.fault # "mm_sock", "mm_started")
      BY <1>7, <2>2 DEF WaitMm
    <3> QED BY <1>0, <1>7, <2>1, <2>2, <3>1, ReportTyped DEF WaitMm, Typed, Active
  <2>3. CASE ~MmIsReady
    <3>1. ReportRc(turns <= MmWaitReady, "wait_mm")
      BY <1>7, <2>3 DEF WaitMm
    <3> QED BY <1>0, <1>7, <2>1, <2>3, <3>1, ReportTyped DEF WaitMm, Typed, Active
  <2> QED BY <2>2, <2>3
<1>8. CASE MmStarted
  <2>1. wake' \in Nat
    BY <1>0, <1>8, Delays DEF MmStarted
  <2> QED BY <1>0, <1>8, <2>1 DEF MmStarted, Typed, Active, At, Procs
<1>9. CASE StartAlice
  <2>1. /\ Active
        /\ ReportRc(conf.rtpc = "rtp.io" => conf.fault # "rtpp_sock", "alice_started")
    BY <1>9 DEF StartAlice, At, Active
  <2> DEFINE first == Started(proc, "stats", RtppStatTimeout(conf.mm))
  <2>2. first \in [Procs -> ProcType]
    BY <1>0, OneStarted, Delays DEF Procs
  <2> HIDE DEF first
  <2>3. Started(first, "alice", Timeout(conf.mm)) \in [Procs -> ProcType]
    BY <1>0, <2>2, OneStarted, Delays DEF Procs
  <2>4. TestTimeoutOf(AliceOpts(conf.mm)) = Timeout(conf.mm)
    BY Options
  <2>5. CASE pc' = "end"
    BY <1>0, <1>9, <2>1, <2>5, ReportTyped DEF StartAlice, Typed, Active
  <2>6. CASE pc' # "end"
    <3>1. proc' \in [Procs -> ProcType] /\ epoch' = now
      BY <1>9, <2>3, <2>4, <2>6 DEF StartAlice, first
    <3> QED BY <1>0, <1>9, <2>1, <3>1, ReportTyped DEF StartAlice, Typed, Active, Procs
  <2> QED BY <2>5, <2>6
<1>10. CASE StopMm
  <2>1. proc' \in [Procs -> ProcType]
    BY <1>0, <1>10, OneStopped DEF StopMm, Procs
  <2>2. wake' \in Nat
    BY <1>0, <1>10, Delays DEF StopMm
  <2> QED BY <1>0, <1>10, <2>1, <2>2 DEF StopMm, Typed, Active, At
<1>11. CASE StopRtpp
  <2>1. proc' \in [Procs -> ProcType]
    BY <1>0, <1>11, OneStopped DEF StopRtpp, Procs
  <2> QED BY <1>0, <1>11, <2>1 DEF StopRtpp, Typed, Active, At, Procs
<1>12. CASE Report
  <2>1. Active /\ turns' = turns + 1
    BY <1>12 DEF Report, At, Active
  <2>2. CASE turns <= Len(Reports)
    <3>1. ReportRc(Reports[turns], "report")
      BY <1>12, <2>2 DEF Report
    <3> QED BY <1>0, <1>12, <2>1, <3>1, ReportTyped DEF Report, Typed, Active
  <2>3. CASE ~(turns <= Len(Reports))
    BY <1>0, <1>12, <2>1, <2>3 DEF Report, Exit, Typed, Active
  <2> QED BY <2>2, <2>3
<1>13. CASE AliceExits \/ BobExits \/ StatsTaken \/ Crash
  <2>1. PICK p \in Procs, rc \in {0, 1} : proc' = Stopped(p, rc)
    BY <1>13 DEF AliceExits, BobExits, StatsTaken, Crash, ExitCodes, Procs
  <2>2. proc' \in [Procs -> ProcType]
    BY <2>1, OneStopped
  <2>3. UNCHANGED <<now, conf, pc, last, wake, turns, epoch, pidf, status>>
    BY <1>13 DEF AliceExits, BobExits, StatsTaken, Crash
  <2>4. stdout' \in BOOLEAN
    BY <1>0, <1>13 DEF AliceExits, BobExits, StatsTaken, Crash, Typed
  <2> QED BY <1>0, <2>2, <2>3, <2>4 DEF Typed, Active
<1>14. CASE Interrupt
  BY <1>0, <1>14 DEF Interrupt, Exit, Typed, Active
<1>15. CASE NextRun
  <2>1. proc' \in [Procs -> ProcType]
    BY <1>0, <1>15 DEF NextRun, ProcType
  <2> QED BY <1>0, <1>15, <2>1 DEF NextRun, Typed, Active
<1>16. CASE Tick
  <2>1. \A t \in Deadlines : t \in Nat
    <3>1. Lasts \in [AllTests -> Nat] /\ GoDeadTimeout \in Nat
      BY HarnessAssumption, Delays
    <3>2. \A d \in Deaths : d \in Nat
      BY <1>0, <3>1, Options DEF Deaths, ProcType, Procs
    <3> QED BY <1>0, <3>2 DEF Deadlines, ProcType, Procs
  <2> QED BY <1>0, <1>16, <2>1 DEF Tick, Typed, Active
<1>17. CASE UNCHANGED vars
  BY <1>17 DEF vars, Typed, Active
<1>18. CASE BobStarted \/ AliceStarted
  BY <1>0, <1>18 DEF BobStarted, AliceStarted, Typed, Active, At, Procs
<1> QED BY <1>1, <1>2, <1>3, <1>4, <1>5, <1>6, <1>7, <1>8, <1>9, <1>10, <1>11, <1>12,
           <1>13, <1>14, <1>15, <1>16, <1>17, <1>18 DEF Next, Progress, ScriptStep

-----------------------------------------------------------------------------
(* Alive and Tracked.                                                      *)

\* Nothing is started and the script stays where it is or has stopped there.
LEMMA QuietKeeps ==
    ASSUME Alive, Tracked, Place' = Place, pc' = "cleaned" => pc = "cleaned",
           pidf \subseteq pidf', \A p \in Procs : Up(p)' => Up(p)
    PROVE  Alive' /\ Tracked'
<1>1. Alive'
  BY DEF Alive, Procs
<1>2. Tracked'
  BY DEF Tracked, Untracked
<1> QED BY <1>1, <1>2

\* Where a report takes the script.
LEMMA ReportPlace ==
    ASSUME Typed, Active, NEW good, NEW next \in Places, ReportRc(good, next)
    PROVE  /\ (Place' = next /\ pc' = next) \/ (Place' = pc /\ pc' = "end")
           /\ Place = pc /\ pc' # "cleaned"
BY DEF Active, Place, ReportRc, Exit, Places, BeforeAlice, BeforeMm, BeforeBob, Testing,
       Stopping

LEMMA InitAlive == Init => Alive /\ Tracked
<1> SUFFICES ASSUME Init PROVE Alive /\ Tracked
  OBVIOUS
<1>1. \A p \in Procs : proc[p].st = "off"
  BY DEF Init, Off, Procs
<1>2. \A p \in Procs : ~Up(p)
  BY <1>1 DEF Up
<1>3. pc = "start_rtpp"
  BY DEF Init
<1> QED BY <1>2, <1>3 DEF Alive, Tracked, Procs, Place, Active, Stopping

LEMMA AliveStep == Typed /\ Alive /\ Tracked /\ [Next]_vars => Alive' /\ Tracked'
<1> SUFFICES ASSUME Typed, Alive, Tracked, [Next]_vars PROVE Alive' /\ Tracked'
  OBVIOUS
<1> USE DEF Places, BeforeAlice, BeforeMm, BeforeBob, Testing, Stopping
<1>0. /\ proc \in [Procs -> ProcType] /\ pidf \in SUBSET Procs
      /\ "rtpp" \in Procs /\ "bob" \in Procs /\ "mm" \in Procs
      /\ "stats" \in Procs /\ "alice" \in Procs
  BY DEF Typed, Procs
<1>1. CASE StartRtpp
  <2>1. pc = "start_rtpp" /\ UNCHANGED pidf
    BY <1>1 DEF StartRtpp, At
  <2>2. CASE conf.rtpc = "rtp.io"
    <3>1. pc' = "start_bob" /\ UNCHANGED proc
      BY <1>1, <2>2 DEF StartRtpp
    <3> QED BY <2>1, <3>1 DEF Alive, Tracked, Untracked, Place, Active, Up
  <2>3. CASE conf.rtpc # "rtp.io"
    <3>1. pc' = "wait_rtpp" /\ \A q \in Procs \ {"rtpp"} : proc'[q] = proc[q]
      BY <1>0, <1>1, <2>3, OneStarted, Codes DEF StartRtpp
    <3> QED BY <2>1, <3>1 DEF Alive, Tracked, Untracked, Place, Active, Up, Procs
  <2> QED BY <2>2, <2>3
<1>2. CASE WaitRtpp
  <2>1. pc = "wait_rtpp" /\ Active /\ UNCHANGED proc
    BY <1>2 DEF WaitRtpp, At, Active
  <2>2. CASE RtppIsReady
    <3>1. pc' = "probe_rtpp" /\ pidf' = pidf \cup {"rtpp"}
      BY <1>2, <2>2 DEF WaitRtpp
    <3> QED BY <2>1, <3>1 DEF Alive, Tracked, Untracked, Place, Active, Up
  <2>3. CASE ~RtppIsReady
    <3>1. ReportRc(turns <= 4, "wait_rtpp") /\ UNCHANGED pidf
      BY <1>2, <2>3 DEF WaitRtpp
    <3>2. Place' = Place /\ pc' # "cleaned"
      BY <2>1, <3>1, ReportPlace
    <3> QED BY <2>1, <3>1, <3>2, QuietKeeps DEF Up
  <2> QED BY <2>2, <2>3
<1>3. CASE ProbeRtpp
  <2>1. /\ pc = "probe_rtpp" /\ Active /\ UNCHANGED <<proc, pidf>>
        /\ ReportRc(conf.fault # "rtpp_sock", "start_bob")
    BY <1>3 DEF ProbeRtpp, At, Active
  <2>2. Place = pc /\ Place' \in {"start_bob", pc} /\ pc' # "cleaned"
    BY <2>1, ReportPlace
  <2> QED BY <2>1, <2>2 DEF Alive, Tracked, Untracked, Up
<1>4. CASE StartBob
  <2>1. proc' = Started(proc, "bob", Timeout(conf.mm) + MmInitDelay(conf.mm))
    BY <1>4, Options DEF StartBob
  <2> DEFINE ival == Timeout(conf.mm) + MmInitDelay(conf.mm)
  <2>2. ival \in Nat
    BY Delays
  <2> HIDE DEF ival
  <2>3. \A q \in Procs \ {"bob"} : proc'[q] = proc[q]
    BY <1>0, <2>1, <2>2, OneStarted DEF ival
  <2>4. pc = "start_bob" /\ pc' = "bob_started" /\ UNCHANGED pidf
    BY <1>4 DEF StartBob, At
  <2> QED BY <2>3, <2>4 DEF Alive, Tracked, Untracked, Place, Active, Up, Procs
<1>5. CASE CheckMm
  <2>1. /\ pc = "check_mm" /\ Active /\ UNCHANGED proc /\ pidf' = pidf \ {"mm"}
        /\ ReportRc(conf.mm \in {"opensips", "kamailio"} => conf.fault # "mm_config",
                    "start_mm")
    BY <1>5 DEF CheckMm, At, Active
  <2>2. Place = pc /\ Place' \in {"start_mm", pc} /\ pc' # "cleaned"
    BY <2>1, ReportPlace
  <2> QED BY <2>1, <2>2 DEF Alive, Tracked, Untracked, Up
<1>6. CASE StartMm
  <2>1. \A q \in Procs \ {"mm"} : proc'[q] = proc[q]
    BY <1>0, <1>6, OneStarted, Codes DEF StartMm
  <2>2. pc = "start_mm" /\ pc' \in {"wait_mm", "mm_started"} /\ UNCHANGED pidf
    BY <1>6 DEF StartMm, At
  <2> QED BY <2>1, <2>2 DEF Alive, Tracked, Untracked, Place, Active, Up, Procs
<1>7. CASE WaitMm
  <2>1. pc = "wait_mm" /\ Active /\ UNCHANGED <<proc, pidf>>
    BY <1>7 DEF WaitMm, At, Active
  <2>2. \/ ReportRc(conf.fault # "mm_sock", "mm_started")
        \/ ReportRc(turns <= MmWaitReady, "wait_mm")
    BY <1>7 DEF WaitMm
  <2>3. Place = pc /\ Place' \in {"wait_mm", "mm_started"} /\ pc' # "cleaned"
    BY <2>1, <2>2, ReportPlace
  <2> QED BY <2>1, <2>3 DEF Alive, Tracked, Untracked, Up
<1>8. CASE MmStarted
  <2>1. /\ pc = "mm_started" /\ pc' = "start_alice" /\ UNCHANGED proc
        /\ pidf' = pidf \cup {"mm"}
    BY <1>8 DEF MmStarted, At
  <2> QED BY <2>1 DEF Alive, Tracked, Untracked, Place, Active, Up
<1>9. CASE StartAlice
  <2>1. /\ pc = "start_alice" /\ Active
        /\ ReportRc(conf.rtpc = "rtp.io" => conf.fault # "rtpp_sock", "alice_started")
    BY <1>9 DEF StartAlice, At, Active
  <2>2. CASE pc' = "end"
    <3>1. UNCHANGED <<proc, pidf>>
      BY <1>9, <2>2 DEF StartAlice
    <3>2. Place' = Place
      BY <2>1, <2>2, ReportPlace
    <3> QED BY <2>2, <3>1, <3>2, QuietKeeps DEF Up
  <2>3. CASE pc' # "end"
    <3> DEFINE first == Started(proc, "stats", RtppStatTimeout(conf.mm))
    <3>1. /\ first \in [Procs -> ProcType]
          /\ \A q \in Procs \ {"stats"} : first[q] = proc[q]
      <4>1. RtppStatTimeout(conf.mm) \in Nat
        BY Delays
      <4>2. "stats" \in Procs /\ proc \in [Procs -> ProcType]
        BY <1>0 DEF Typed, Procs
      <4> QED BY <1>0, <4>1, <4>2, OneStarted
    <3> HIDE DEF first
    <3>2. proc' = Started(first, "alice", Timeout(conf.mm)) /\ UNCHANGED pidf
      BY <1>9, <2>3, Options DEF StartAlice, first
    <3>3. \A q \in Procs \ {"stats", "alice"} : proc'[q] = proc[q]
      <4>1. Timeout(conf.mm) \in Nat /\ "alice" \in Procs
        BY Delays DEF Procs
      <4> QED BY <1>0, <3>1, <3>2, <4>1, OneStarted
    <3>4. Place = pc /\ Place' = "alice_started" /\ pc' = "alice_started"
      BY <2>1, <2>3, ReportPlace
    <3> QED BY <2>1, <3>2, <3>3, <3>4 DEF Alive, Tracked, Untracked, Up, Procs
  <2> QED BY <2>2, <2>3
<1>10. CASE StopMm
  <2>1. /\ pc = "wait_alice" /\ pc' = "stop_rtpp" /\ UNCHANGED pidf
        /\ \A p \in {"stats", "alice", "bob"} : proc[p].st = "down"
    BY <1>10 DEF StopMm, At, TestsOver
  <2>2. ~Up("mm")' /\ \A q \in Procs \ {"mm"} : proc'[q] = proc[q]
    BY <1>0, <1>10, OneStopped DEF StopMm, Procs, Up
  <2> QED BY <2>1, <2>2 DEF Alive, Tracked, Untracked, Place, Active, Up, Procs
<1>11. CASE StopRtpp
  <2>1. /\ pc = "stop_rtpp" /\ pc' = "report"
        /\ pidf' = (pidf \ {"alice", "bob"}) \ {"rtpp"}
    BY <1>11 DEF StopRtpp, At
  <2>2. ~Up("rtpp")' /\ \A q \in Procs \ {"rtpp"} : proc'[q] = proc[q]
    BY <1>0, <1>11, OneStopped DEF StopRtpp, Procs, Up
  <2> QED BY <2>1, <2>2 DEF Alive, Tracked, Untracked, Place, Active, Up, Procs
<1>12. CASE Report
  <2>1. pc = "report" /\ Active /\ UNCHANGED <<proc, pidf>>
    BY <1>12 DEF Report, At, Active
  <2>2. ReportRc(Reports[turns], "report") \/ Exit(0)
    BY <1>12 DEF Report
  <2>3. Place' = Place /\ pc' # "cleaned"
    BY <2>1, <2>2, ReportPlace DEF Exit, Place, Active
  <2> QED BY <2>1, <2>3, QuietKeeps DEF Up
<1>13. CASE AliceExits \/ BobExits \/ StatsTaken \/ Crash
  <2>1. PICK p \in Procs, rc \in {0, 1} : proc' = Stopped(p, rc)
    BY <1>13 DEF AliceExits, BobExits, StatsTaken, Crash, ExitCodes, Procs
  <2>2. \A q \in Procs : Up(q)' => Up(q)
    BY <2>1, OneStopped DEF Up
  <2>3. UNCHANGED <<pc, last, pidf>>
    BY <1>13 DEF AliceExits, BobExits, StatsTaken, Crash
  <2> QED BY <2>2, <2>3, QuietKeeps DEF Place, Active
<1>14. CASE Interrupt
  <2>1. Place' = Place /\ pc' # "cleaned" /\ UNCHANGED <<proc, pidf>>
    BY <1>14 DEF Interrupt, Exit, Place, Active
  <2> QED BY <2>1, QuietKeeps DEF Up
<1>15. CASE NextRun
  <2>1. Place' = Place /\ UNCHANGED pidf
    BY <1>15 DEF NextRun, Place, Active
  <2>2. \A p \in Procs : Up(p)' => Up(p) /\ p \notin pidf
    BY <1>0, <1>15 DEF NextRun, Up, ProcType
  <2>3. \A p \in Procs : Untracked(p) <=> Untracked(p)'
    BY <2>1 DEF Untracked
  <2> QED BY <2>1, <2>2, <2>3 DEF Alive, Tracked, Procs
<1>16. CASE Tick \/ UNCHANGED vars
  <2>1. UNCHANGED <<pc, last, proc, pidf>>
    BY <1>16 DEF Tick, vars
  <2> QED BY <2>1, QuietKeeps DEF Place, Active, Up
<1>17. CASE BobStarted
  <2>1. /\ pc = "bob_started" /\ pc' = "check_mm" /\ UNCHANGED proc
        /\ pidf' = pidf \cup {"bob"}
    BY <1>17 DEF BobStarted, At
  <2> QED BY <2>1 DEF Alive, Tracked, Untracked, Place, Active, Up
<1>18. CASE AliceStarted
  <2>1. /\ pc = "alice_started" /\ pc' = "wait_alice" /\ UNCHANGED proc
        /\ pidf' = pidf \cup {"alice"}
    BY <1>18 DEF AliceStarted, At
  <2> QED BY <2>1 DEF Alive, Tracked, Untracked, Place, Active, Up
<1> QED BY <1>1, <1>2, <1>3, <1>4, <1>5, <1>6, <1>7, <1>8, <1>9, <1>10, <1>11, <1>12,
           <1>13, <1>14, <1>15, <1>16, <1>17, <1>18 DEF Next, Progress, ScriptStep

\* What an aborted run leaves behind is stopped by the next one, wherever the
\* script was aborted: all but the statistics and the one program that was up
\* then and whose pid file the script had not written yet.
THEOREM LeftoversStop == Spec => []LeftoversStopped
<1>1. Init => Typed /\ Alive /\ Tracked
  BY InitTyped, InitAlive
<1>2. Typed /\ Alive /\ Tracked /\ [Next]_vars => (Typed /\ Alive /\ Tracked)'
  BY TypedStep, AliveStep
<1>3. Typed /\ Alive /\ Tracked => LeftoversStopped
  BY DEF Typed, Alive, Tracked, Untracked, LeftoversStopped, Place, Active, Up
<1> QED BY <1>1, <1>2, <1>3, PTL DEF Spec

-----------------------------------------------------------------------------
(* Loops and Starts.                                                       *)

\* No process is started.
Dates ==
    \A p \in Procs : proc'[p].since = proc[p].since /\ proc'[p].until = proc[p].until

\* The script ends, or has ended.
LEMMA EndKeeps ==
    ASSUME Typed, Loops, Starts, pc' \in {"end", "cleaned"}, Place' = Place, Dates,
           turns' = turns \/ turns' <= 7 \/ turns' <= conf.rtppReady
               \/ turns' <= conf.mmReady,
           UNCHANGED conf
    PROVE  Loops' /\ Starts'
<1>1. Loops'
  BY DEF Loops, BeforeAlice, BeforeMm, BeforeBob
<1>2. "alice" \in Procs /\ "bob" \in Procs
  BY DEF Procs
<1>3. proc'["alice"].until = proc["alice"].until /\ proc'["bob"].until = proc["bob"].until
  BY <1>2 DEF Dates
<1>4. Starts'
  BY <1>3 DEF Starts, Active, Strict, BeforeAlice, BeforeMm, BeforeBob
<1> QED BY <1>1, <1>4

\* What a step does that neither starts a process nor moves the script.
LEMMA DatesKeep ==
    ASSUME Typed, Loops, Starts, Dates, UNCHANGED <<conf, pc, last, wake, turns, epoch>>,
           now' \in Nat, now' >= now, pc \in BeforeAlice => now' = now \/ now' <= wake,
           proc'["alice"].st = "off" <=> proc["alice"].st = "off"
    PROVE  Loops' /\ Starts'
<1>1. /\ proc'["rtpp"].since = proc["rtpp"].since /\ proc'["mm"].since = proc["mm"].since
      /\ proc'["bob"].since = proc["bob"].since /\ proc'["bob"].until = proc["bob"].until
      /\ proc'["alice"].since = proc["alice"].since
      /\ proc'["alice"].until = proc["alice"].until
      /\ proc'["stats"].until = proc["stats"].until
  BY DEF Dates, Procs
<1>2. Place' = Place /\ (Active <=> Active') /\ (Strict <=> Strict')
  BY DEF Place, Active, Strict
<1>3. now \in Nat /\ wake \in Nat /\ proc["bob"].since \in Nat
      /\ proc["mm"].since \in Nat /\ conf.mmReady \in Nat
  BY ConfFields DEF Typed, ProcType, Procs
<1>4. Loops'
  BY <1>1, <1>2, <1>3 DEF Loops, BeforeAlice, BeforeMm, BeforeBob
<1>5. Starts'
  <2>1. "start_alice" \in BeforeAlice /\ "mm_started" \in BeforeAlice
    BY DEF BeforeAlice
  <2>2. pc = "start_alice" /\ Strict => now' <= BobStart + MmInitDelay(conf.mm)
    BY <1>3, <2>1, Delays DEF Starts, BobStart
  <2>3. MmIsReady => MmIsReady'
    BY <1>1, <1>3 DEF MmIsReady
  <2>4. Late' = Late
    BY <1>1 DEF Late
  <2>5. BobStart' = BobStart
    BY <1>1 DEF BobStart
  <2> QED BY <1>1, <1>2, <2>2, <2>3, <2>4, <2>5 DEF Starts
<1> QED BY <1>4, <1>5

LEMMA InitLoops == Init => Loops /\ Starts
<1> SUFFICES ASSUME Init PROVE Loops /\ Starts
  OBVIOUS
<1>1. /\ pc = "start_rtpp" /\ last = pc /\ now = 0 /\ wake = 0 /\ turns = 0 /\ epoch = 0
      /\ proc["alice"].st = "off"
  BY DEF Init, Off
<1> QED BY <1>1 DEF Loops, Starts, Active, Place, BeforeAlice, BeforeMm, BeforeBob

\* The script moves on one place, at the end of its sleep, and starts nothing.
LEMMA PlainKeeps ==
    ASSUME Typed, Loops, Starts, Active, Dates, UNCHANGED <<now, conf, turns, epoch>>,
           pc \in BeforeAlice, proc'["alice"].st = proc["alice"].st,
           At(pc), Active', pc' \in BeforeAlice,
           pc = "start_rtpp" => pc' = "start_bob" /\ wake' = now,
           pc = "wait_rtpp" => pc' = "probe_rtpp" /\ wake' = now + 1,
           pc = "probe_rtpp" => pc' = "start_bob" /\ wake' = wake,
           pc = "bob_started" => pc' = "check_mm" /\ wake' = wake,
           pc = "check_mm" => pc' = "start_mm" /\ wake' = wake,
           pc = "mm_started" => pc' = "start_alice" /\ wake' = MmInitDelay(conf.mm),
           pc \notin {"start_bob", "start_mm", "wait_mm", "start_alice"}
    PROVE  Loops' /\ Starts'
<1>1. /\ proc'["rtpp"].since = proc["rtpp"].since /\ proc'["mm"].since = proc["mm"].since
      /\ proc'["bob"].since = proc["bob"].since /\ proc'["bob"].until = proc["bob"].until
  BY DEF Dates, Procs
<1>2. now \in Nat /\ wake \in Nat /\ (Strict <=> Strict') /\ Place' = pc'
  BY DEF Typed, Strict, Place
<1>3. now = wake
  BY <1>2 DEF Loops, At
<1>4. Loops'
  BY <1>1, <1>2, <1>3 DEF Loops, BeforeAlice, BeforeMm, BeforeBob
<1>5. (MmIsReady' <=> MmIsReady) /\ BobStart' = BobStart
  BY <1>1 DEF MmIsReady, BobStart
<1>6. Starts'
  BY <1>1, <1>2, <1>3, <1>5 DEF Starts, Active, BeforeAlice, BeforeMm, BeforeBob
<1> QED BY <1>4, <1>6

LEMMA LoopsStep ==
    Typed /\ Alive /\ Loops /\ Starts /\ [Next]_vars => Loops' /\ Starts'
<1> SUFFICES ASSUME Typed, Alive, Loops, Starts, [Next]_vars PROVE Loops' /\ Starts'
  OBVIOUS
<1>0. /\ now \in Nat /\ wake \in Nat /\ turns \in Nat /\ epoch \in Nat
      /\ proc \in [Procs -> ProcType] /\ proc["bob"].since \in Nat
      /\ "rtpp" \in Procs /\ "bob" \in Procs /\ "mm" \in Procs
      /\ "stats" \in Procs /\ "alice" \in Procs /\ conf.mmReady \in Nat
      /\ conf.rtppReady \in Nat
  BY ConfFields DEF Typed, Procs, ProcType
<1>1. CASE StartRtpp
  <2>1. /\ pc = "start_rtpp" /\ At(pc) /\ Active /\ pc \in BeforeAlice
        /\ UNCHANGED <<now, conf, turns, epoch>>
    BY <1>1 DEF StartRtpp, At, Active, BeforeAlice, BeforeMm, BeforeBob
  <2>2. now = 0 /\ turns = 0 /\ wake = 0
    BY <1>0, <2>1 DEF Loops, At, BeforeAlice, BeforeMm, BeforeBob
  <2>3. CASE conf.rtpc = "rtp.io"
    <3>1. pc' = "start_bob" /\ UNCHANGED <<proc, wake>>
      BY <1>1, <2>3 DEF StartRtpp
    <3> QED BY <2>1, <2>2, <3>1, PlainKeeps
            DEF Dates, Active, BeforeAlice, BeforeMm, BeforeBob
  <2>4. CASE conf.rtpc # "rtp.io"
    <3>1. pc' = "wait_rtpp" /\ wake' = now + 1 /\ proc' = Started(proc, "rtpp", Never)
      BY <1>1, <2>4 DEF StartRtpp
    <3>2. /\ proc'["rtpp"].since = 0
          /\ \A q \in Procs \ {"rtpp"} : proc'[q] = proc[q]
      BY <1>0, <2>2, <3>1, OneStarted, Codes
    <3>3. proc'["alice"] = proc["alice"]
      BY <3>2 DEF Procs
    <3>4. Loops'
      BY <1>0, <2>1, <2>2, <3>1, <3>2 DEF Loops, BeforeAlice, BeforeMm, BeforeBob
    <3>5. Starts'
      BY <2>1, <3>1, <3>3
         DEF Starts, Active, Place, Strict, BeforeAlice, BeforeMm, BeforeBob
    <3> QED BY <3>4, <3>5
  <2> QED BY <2>3, <2>4
<1>2. CASE WaitRtpp
  <2>1. /\ pc = "wait_rtpp" /\ At(pc) /\ Active /\ pc \in BeforeAlice
        /\ UNCHANGED <<now, conf, epoch, proc>> /\ wake' = now + 1
    BY <1>2 DEF WaitRtpp, At, Active, BeforeAlice, BeforeMm, BeforeBob
  <2>2. /\ now = wake /\ wake = turns + 1 /\ turns <= conf.rtppReady
        /\ proc["rtpp"].since = 0
    BY <1>0, <2>1 DEF Loops, At, BeforeAlice, BeforeMm, BeforeBob
  <2>3. CASE RtppIsReady
    <3>1. pc' = "probe_rtpp" /\ UNCHANGED turns
      BY <1>2, <2>3 DEF WaitRtpp
    <3> QED BY <2>1, <3>1, PlainKeeps DEF Dates, Active, BeforeAlice, BeforeMm, BeforeBob
  <2>4. CASE ~RtppIsReady
    <3>1. ReportRc(turns <= 4, "wait_rtpp") /\ turns' = turns + 1
      BY <1>2, <2>4 DEF WaitRtpp
    <3>2. turns' <= conf.rtppReady
      BY <1>0, <2>2, <2>4, <3>1 DEF RtppIsReady
    <3>3. Dates
      BY <2>1 DEF Dates
    <3>4. CASE pc' = "wait_rtpp"
      <4>1. Loops'
        BY <1>0, <2>1, <2>2, <3>1, <3>2, <3>4 DEF Loops, BeforeAlice, BeforeMm, BeforeBob
      <4>2. Starts'
        BY <2>1, <3>4 DEF Starts, Active, Place, Strict, BeforeAlice, BeforeMm, BeforeBob
      <4> QED BY <4>1, <4>2
    <3>5. CASE pc' = "end"
      <4>1. Place' = Place
        BY <2>1, <3>1, <3>5 DEF ReportRc, Exit, Place, Active
      <4> QED BY <2>1, <3>2, <3>3, <3>5, <4>1, EndKeeps
    <3> QED BY <3>1, <3>4, <3>5 DEF ReportRc, Exit
  <2> QED BY <2>3, <2>4
<1>3. CASE ProbeRtpp
  <2>1. /\ pc = "probe_rtpp" /\ At(pc) /\ Active /\ pc \in BeforeAlice
        /\ UNCHANGED <<now, conf, wake, turns, epoch, proc>>
        /\ ReportRc(conf.fault # "rtpp_sock", "start_bob") /\ Dates
    BY <1>3 DEF ProbeRtpp, At, Active, Dates, BeforeAlice, BeforeMm, BeforeBob
  <2>2. CASE pc' = "start_bob"
    BY <2>1, <2>2, PlainKeeps DEF Active, BeforeAlice, BeforeMm, BeforeBob
  <2>3. CASE pc' = "end" /\ last' = pc
    BY <2>1, <2>3, EndKeeps DEF Place, Active
  <2> QED BY <2>1, <2>2, <2>3 DEF ReportRc, Exit
<1>4. CASE StartBob
  <2> DEFINE ival == Timeout(conf.mm) + MmInitDelay(conf.mm)
  <2>1. proc' = Started(proc, "bob", ival) /\ ival \in Nat
    BY <1>4, Options, Delays DEF StartBob
  <2>2. /\ pc = "start_bob" /\ At(pc) /\ Active /\ pc' = "bob_started"
        /\ UNCHANGED <<now, conf, wake, turns, epoch>>
    BY <1>4 DEF StartBob, At, Active
  <2>3. now = wake /\ turns \in Nat /\ epoch = 0
    BY <1>0, <2>2 DEF Loops, At, BeforeAlice, BeforeMm, BeforeBob
  <2> HIDE DEF ival
  <2>4. /\ proc'["bob"].since = now /\ proc'["bob"].until = now + ival
        /\ \A q \in Procs \ {"bob"} : proc'[q] = proc[q]
    BY <1>0, <2>1, OneStarted
  <2>5. proc'["alice"] = proc["alice"] /\ proc["alice"].st = "off"
    BY <2>2, <2>4 DEF Procs, Starts, BeforeAlice, BeforeMm, BeforeBob
  <2>6. Loops'
    BY <1>0, <2>2, <2>3 DEF Loops, BeforeAlice, BeforeMm, BeforeBob
  <2>7. proc'["bob"].until = BobStart' + Timeout(conf.mm) + MmInitDelay(conf.mm)
    BY <1>0, <2>4, Delays DEF BobStart, ival
  <2>8. Starts'
    BY <2>2, <2>3, <2>4, <2>5, <2>7
       DEF Starts, Active, Place, Strict, BobStart, BeforeAlice, BeforeMm, BeforeBob
  <2> QED BY <2>6, <2>8
<1>5. CASE CheckMm
  <2>1. /\ pc = "check_mm" /\ At(pc) /\ Active /\ pc \in BeforeAlice
        /\ UNCHANGED <<now, conf, wake, turns, epoch, proc>>
        /\ ReportRc(conf.mm \in {"opensips", "kamailio"} => conf.fault # "mm_config",
                    "start_mm")
        /\ Dates
    BY <1>5 DEF CheckMm, At, Active, Dates, BeforeAlice, BeforeMm, BeforeBob
  <2>2. CASE pc' = "start_mm"
    BY <2>1, <2>2, PlainKeeps DEF Active, BeforeAlice, BeforeMm, BeforeBob
  <2>3. CASE pc' = "end" /\ last' = pc
    BY <2>1, <2>3, EndKeeps DEF Place, Active
  <2> QED BY <2>1, <2>2, <2>3 DEF ReportRc, Exit
<1>6. CASE StartMm
  <2>1. /\ pc = "start_mm" /\ At(pc) /\ Active /\ turns' = 0
        /\ pc' = (IF conf.mm = "b2bua" THEN "wait_mm" ELSE "mm_started")
        /\ UNCHANGED <<now, conf, wake, epoch>> /\ proc' = Started(proc, "mm", Never)
    BY <1>6 DEF StartMm, At, Active
  <2>2. now = wake /\ epoch = 0 /\ wake = BobStart
    BY <1>0, <2>1 DEF Loops, Starts, At, BeforeAlice, BeforeMm, BeforeBob
  <2>3. /\ proc'["mm"].since = now
        /\ \A q \in Procs \ {"mm"} : proc'[q] = proc[q]
    BY <1>0, <2>1, OneStarted, Codes
  <2>4. /\ proc'["bob"] = proc["bob"] /\ proc'["alice"] = proc["alice"]
        /\ BobStart' = BobStart
    BY <2>3 DEF Procs, BobStart
  <2>5. MmWaitReady \in Nat /\ MmInitDelay(conf.mm) \in Nat
    BY Delays
  <2>6. Loops'
    BY <1>0, <2>1, <2>2, <2>3, <2>5 DEF Loops, BeforeAlice, BeforeMm, BeforeBob
  <2>7. Starts'
    BY <1>0, <2>1, <2>2, <2>3, <2>4, <2>5
       DEF Starts, Active, Place, Strict, BobStart, BeforeAlice, BeforeMm, BeforeBob
  <2> QED BY <2>6, <2>7
<1>7. CASE WaitMm
  <2>1. /\ pc = "wait_mm" /\ At(pc) /\ Active
        /\ UNCHANGED <<now, conf, epoch, proc>> /\ Dates
    BY <1>7 DEF WaitMm, At, Active, Dates
  <2>2. /\ now = wake /\ wake = proc["mm"].since + turns /\ turns <= conf.mmReady
        /\ proc["mm"].since = BobStart /\ conf.mm = "b2bua" /\ epoch = 0
        /\ Strict => turns <= MmWaitReady + 1
    BY <1>0, <2>1 DEF Loops, Starts, At, BeforeAlice, BeforeMm, BeforeBob
  <2>3. MmInitDelay(conf.mm) = MmWaitReady + 1 /\ MmWaitReady = 4
    BY <2>2, Delays
  <2>4. CASE MmIsReady
    <3>1. ReportRc(conf.fault # "mm_sock", "mm_started") /\ UNCHANGED <<turns, wake>>
      BY <1>7, <2>4 DEF WaitMm
    <3>2. CASE pc' = "mm_started"
      <4>1. Loops'
        BY <1>0, <2>1, <2>2, <3>1, <3>2 DEF Loops, BeforeAlice, BeforeMm, BeforeBob
      <4>2. Strict => wake' <= BobStart' + MmInitDelay(conf.mm)
        BY <1>0, <2>1, <2>2, <2>3, <3>1 DEF BobStart
      <4>3. MmIsReady'
        BY <2>1, <2>4 DEF MmIsReady
      <4>4. Starts'
        BY <2>1, <3>2, <4>2, <4>3
           DEF Starts, Active, Place, Strict, BobStart, BeforeAlice, BeforeMm, BeforeBob
      <4> QED BY <4>1, <4>4
    <3>3. CASE pc' = "end" /\ last' = pc
      BY <2>1, <3>1, <3>3, EndKeeps DEF Place, Active
    <3> QED BY <3>1, <3>2, <3>3 DEF ReportRc, Exit
  <2>5. CASE ~MmIsReady
    <3>1. /\ ReportRc(turns <= MmWaitReady, "wait_mm") /\ turns' = turns + 1
          /\ wake' = now + 1
      BY <1>7, <2>5 DEF WaitMm
    <3>2. turns' <= conf.mmReady /\ wake' = proc'["mm"].since + turns' /\ now <= wake'
      <4>1. proc["mm"].since \in Nat
        BY <1>0, <2>2 DEF BobStart
      <4> QED BY <1>0, <2>1, <2>2, <2>5, <3>1, <4>1 DEF MmIsReady
    <3>3. CASE pc' = "wait_mm" /\ (turns <= MmWaitReady \/ ~Strict)
      <4>1. Strict' => turns' <= MmWaitReady + 1
        BY <1>0, <2>1, <2>3, <3>1, <3>3 DEF Strict
      <4>2. Loops'
        BY <1>0, <2>1, <2>2, <3>1, <3>2, <3>3, <4>1
           DEF Loops, BeforeAlice, BeforeMm, BeforeBob
      <4>3. Starts'
        BY <2>1, <3>3 DEF Starts, Active, Place, Strict, BobStart,
                          BeforeAlice, BeforeMm, BeforeBob
      <4> QED BY <4>2, <4>3
    <3>4. CASE pc' = "end" /\ last' = pc
      BY <2>1, <3>2, <3>4, EndKeeps DEF Place, Active
    <3> QED BY <3>1, <3>3, <3>4 DEF ReportRc, Exit, Strict
  <2> QED BY <2>4, <2>5
<1>8. CASE MmStarted
  <2>1. /\ pc = "mm_started" /\ At(pc) /\ Active /\ pc \in BeforeAlice
        /\ pc' = "start_alice" /\ wake' = epoch + MmInitDelay(conf.mm)
        /\ UNCHANGED <<now, conf, turns, epoch, proc>> /\ Dates
    BY <1>8 DEF MmStarted, At, Active, Dates, BeforeAlice
  <2>2. wake' = MmInitDelay(conf.mm)
    BY <2>1, Delays DEF Loops
  <2> QED BY <2>1, <2>2, PlainKeeps DEF Active, BeforeAlice
<1>9. CASE StartAlice
  <2>1. /\ pc = "start_alice" /\ Active /\ UNCHANGED <<now, conf, wake, turns>>
        /\ ReportRc(conf.rtpc = "rtp.io" => conf.fault # "rtpp_sock", "alice_started")
    BY <1>9 DEF StartAlice, At, Active
  <2>2. CASE pc' = "end" /\ last' = pc
    <3>1. UNCHANGED <<epoch, proc>> /\ Dates
      BY <1>9, <2>2 DEF StartAlice, Dates
    <3> QED BY <2>1, <2>2, <3>1, EndKeeps DEF Place, Active
  <2>3. CASE pc' = "alice_started"
    <3> DEFINE first == Started(proc, "stats", RtppStatTimeout(conf.mm))
    <3>1. /\ first \in [Procs -> ProcType]
          /\ first["stats"].until = now + RtppStatTimeout(conf.mm)
          /\ \A q \in Procs \ {"stats"} : first[q] = proc[q]
      <4>1. RtppStatTimeout(conf.mm) \in Nat
        BY Delays
      <4>2. "stats" \in Procs /\ proc \in [Procs -> ProcType]
        BY <1>0 DEF Typed, Procs
      <4> QED BY <1>0, <4>1, <4>2, OneStarted
    <3> HIDE DEF first
    <3>2. proc' = Started(first, "alice", Timeout(conf.mm))
      BY <1>9, <2>3, Options DEF StartAlice, first
    <3>3. /\ proc'["alice"].since = now /\ proc'["alice"].until = now + Timeout(conf.mm)
          /\ proc'["alice"].st = "up"
          /\ \A q \in Procs \ {"alice"} : proc'[q] = first[q]
      <4>1. Timeout(conf.mm) \in Nat
        BY Delays
      <4> QED BY <1>0, <3>1, <3>2, <4>1, OneStarted
    <3>4. /\ proc'["stats"].until = now + RtppStatTimeout(conf.mm)
          /\ proc'["bob"] = proc["bob"] /\ proc'["mm"] = proc["mm"]
      BY <3>1, <3>3 DEF Procs
    <3>5. conf.mm = "b2bua" => proc["mm"].since + conf.mmReady <= now
      BY <1>0, <2>1 DEF Starts, MmIsReady, Typed, ProcType
    <3>6. conf.mm = "b2bua" => ~Late'
      BY <1>0, <2>1, <3>3, <3>4, <3>5 DEF Late, Typed, ProcType
    <3>7. /\ proc["bob"].until = BobStart + Timeout(conf.mm) + MmInitDelay(conf.mm)
          /\ Strict => now <= BobStart + MmInitDelay(conf.mm)
      BY <2>1 DEF Starts, BeforeBob
    <3>8. BobStart' = BobStart
      BY <3>4 DEF BobStart
    <3>9. Strict => proc'["alice"].until <= proc'["bob"].until
      BY <1>0, <3>3, <3>4, <3>7, Delays DEF BobStart
    <3>10. Loops'
      BY <2>1, <2>3 DEF Loops, BeforeAlice, BeforeMm, BeforeBob
    <3>11. Starts'
      BY <2>1, <2>3, <3>3, <3>4, <3>6, <3>7, <3>8, <3>9
         DEF Starts, Active, Place, Strict, BeforeAlice, BeforeMm, BeforeBob
    <3> QED BY <3>10, <3>11
  <2> QED BY <2>1, <2>2, <2>3 DEF ReportRc, Exit
<1>10. CASE StopMm \/ StopRtpp
  <2>1. /\ pc \in {"wait_alice", "stop_rtpp"} /\ pc' \in {"stop_rtpp", "report"}
        /\ UNCHANGED <<now, conf, epoch>> /\ turns' \in {turns, 1}
        /\ pc' = "report" => turns' = 1
    BY <1>10 DEF StopMm, StopRtpp, At
  <2>2. Dates
    <3>1. \/ proc' = proc
          \/ \E p \in Procs : proc' = Stopped(p, 0)
      BY <1>0, <1>10 DEF StopMm, StopRtpp
    <3> QED BY <3>1, OneStopped DEF Dates
  <2>3. /\ proc'["mm"].since = proc["mm"].since
        /\ proc'["bob"].since = proc["bob"].since /\ proc'["bob"].until = proc["bob"].until
        /\ proc'["alice"].since = proc["alice"].since
        /\ proc'["alice"].until = proc["alice"].until
        /\ proc'["stats"].until = proc["stats"].until
    BY <2>2 DEF Dates, Procs
  <2>4. Loops'
    BY <1>0, <2>1 DEF Loops, BeforeAlice, BeforeMm, BeforeBob
  <2>5. Late' = Late /\ BobStart' = BobStart
    BY <2>1, <2>3 DEF Late, BobStart
  <2>6. proc'["alice"].st = proc["alice"].st
    <3>1. \/ proc' = proc
          \/ proc' = Stopped("mm", 0)
          \/ proc' = Stopped("rtpp", 0)
      BY <1>10 DEF StopMm, StopRtpp
    <3>2. "alice" \in Procs \ {"mm"} /\ "alice" \in Procs \ {"rtpp"}
      BY <1>0
    <3>3. /\ Stopped("mm", 0)["alice"] = proc["alice"]
          /\ Stopped("rtpp", 0)["alice"] = proc["alice"]
      BY <1>0, <3>2, OneStopped
    <3> QED BY <3>1, <3>3
  <2>7. Starts'
    BY <2>1, <2>3, <2>5, <2>6 DEF Starts, Active, Place, Strict, BeforeAlice, BeforeMm, BeforeBob
  <2> QED BY <2>4, <2>7
<1>11. CASE AliceStarted
  <2>1. /\ pc = "alice_started" /\ pc' = "wait_alice"
        /\ UNCHANGED <<now, conf, wake, turns, epoch, proc>>
    BY <1>11 DEF AliceStarted, At
  <2>2. Late' = Late /\ BobStart' = BobStart
    BY <2>1 DEF Late, BobStart
  <2>3. Loops'
    BY <2>1 DEF Loops, BeforeAlice, BeforeMm, BeforeBob
  <2>4. Starts'
    BY <2>1, <2>2 DEF Starts, Active, Place, Strict, BeforeAlice, BeforeMm, BeforeBob
  <2> QED BY <2>3, <2>4
<1>12. CASE Report
  <2>1. /\ pc = "report" /\ Active /\ UNCHANGED <<now, conf, wake, epoch, proc>> /\ Dates
        /\ turns' = turns + 1
    BY <1>12 DEF Report, At, Active, Dates
  <2>2. turns \in 1..6 /\ Len(Reports) = 5
    BY <2>1 DEF Loops, Reports
  <2>3. CASE pc' = "report" /\ turns <= 5
    <3>1. Loops'
      BY <2>1, <2>2, <2>3 DEF Loops, BeforeAlice, BeforeMm, BeforeBob
    <3>2. Late' = Late /\ BobStart' = BobStart
      BY <2>1 DEF Late, BobStart
    <3>3. Starts'
      BY <2>1, <2>3, <3>2 DEF Starts, Active, Place, Strict, BeforeAlice, BeforeMm, BeforeBob
    <3> QED BY <3>1, <3>3
  <2>4. CASE pc' = "end" /\ last' = pc
    BY <2>1, <2>2, <2>4, EndKeeps DEF Place, Active
  <2> QED BY <1>12, <2>2, <2>3, <2>4 DEF Report, ReportRc, Exit
<1>13. CASE AliceExits \/ BobExits \/ StatsTaken \/ Crash
  <2>1. PICK p \in Procs, rc \in {0, 1} : proc' = Stopped(p, rc) /\ (p = "alice" => Up("alice"))
    BY <1>13 DEF AliceExits, BobExits, StatsTaken, Crash, ExitCodes, Procs
  <2>2. Dates
    BY <2>1, OneStopped DEF Dates
  <2>3. UNCHANGED <<now, conf, pc, last, wake, turns, epoch>>
    BY <1>13 DEF AliceExits, BobExits, StatsTaken, Crash
  <2>4. proc'["alice"].st = "off" <=> proc["alice"].st = "off"
    BY <1>0, <2>1, OneStopped DEF Up
  <2> QED BY <1>0, <2>2, <2>3, <2>4, DatesKeep
<1>14. CASE Interrupt
  <2>1. /\ pc' = "end" /\ Place' = Place /\ Dates /\ UNCHANGED <<turns, conf>>
    BY <1>14 DEF Interrupt, Exit, Place, Active, Dates
  <2> QED BY <2>1, EndKeeps
<1>15. CASE NextRun
  <2>1. pc' = "cleaned" /\ Place' = Place /\ UNCHANGED <<turns, conf>>
    BY <1>15 DEF NextRun, Place, Active
  <2>2. Dates
    BY <1>0, <1>15 DEF NextRun, Dates, ProcType
  <2> QED BY <2>1, <2>2, EndKeeps
<1>16. CASE Tick
  <2>1. UNCHANGED <<conf, pc, last, wake, turns, epoch, proc>> /\ Dates
    BY <1>16 DEF Tick, Dates
  <2>2. PICK t \in Deadlines :
            t > now /\ (\A u \in Deadlines : u > now => u >= t) /\ now' = t
    BY <1>16 DEF Tick
  <2>3. now' \in Nat /\ now' >= now
    <3>1. now' \in Nat
      BY <1>16, TypedStep DEF Next, Progress, Typed
    <3> QED BY <1>0, <2>2, <3>1
  <2>4. pc \in BeforeAlice => now' <= wake
    <3>1. SUFFICES ASSUME pc \in BeforeAlice PROVE now' <= wake
      OBVIOUS
    <3>2. wake \in Deadlines /\ pc # "wait_alice"
      BY <3>1 DEF Deadlines, BeforeAlice, BeforeMm, BeforeBob
    <3>3. wake > now
      BY <1>16, <3>2 DEF Tick
    <3> QED BY <1>0, <2>2, <2>3, <3>2, <3>3
  <2> QED BY <2>1, <2>3, <2>4, DatesKeep
<1>17. CASE UNCHANGED vars
  <2>1. UNCHANGED <<now, conf, pc, last, wake, turns, epoch, proc>> /\ Dates
    BY <1>17 DEF vars, Dates
  <2> QED BY <1>0, <2>1, DatesKeep
<1>18. CASE BobStarted
  <2>1. /\ pc = "bob_started" /\ At(pc) /\ Active /\ pc \in BeforeAlice
        /\ pc' = "check_mm" /\ UNCHANGED <<now, conf, wake, turns, epoch, proc>> /\ Dates
    BY <1>18 DEF BobStarted, At, Active, Dates, BeforeAlice, BeforeMm
  <2> QED BY <2>1, PlainKeeps DEF Active, BeforeAlice, BeforeMm
<1> QED BY <1>1, <1>2, <1>3, <1>4, <1>5, <1>6, <1>7, <1>8, <1>9, <1>10, <1>11, <1>12,
           <1>13, <1>14, <1>15, <1>16, <1>17, <1>18 DEF Next, Progress, ScriptStep

-----------------------------------------------------------------------------
(* Passed, Marks and GoodMeansGood.                                        *)

LEMMA InitMarks == Init => Passed /\ Marks /\ GoodMeansGood
<1> SUFFICES ASSUME Init PROVE Passed /\ Marks /\ GoodMeansGood
  OBVIOUS
<1>1. /\ pc = "start_rtpp" /\ stdout = FALSE /\ status = Running
      /\ \A p \in Procs : proc[p].st = "off" /\ proc[p].rc = 0
  BY DEF Init, Off, Procs
<1>2. Passed
  BY <1>1 DEF Passed, BeforeAlice, BeforeMm, BeforeBob
<1>3. Marks
  BY <1>1 DEF Marks, Stopping, Procs
<1>4. GoodMeansGood
  BY <1>1, Codes DEF GoodMeansGood
<1> QED BY <1>2, <1>3, <1>4

LEMMA PassedStep == Typed /\ Passed /\ [Next]_vars => Passed'
<1> SUFFICES ASSUME Typed, Passed, [Next]_vars, Active', Strict' PROVE Passed'
  BY DEF Passed
<1> USE DEF Passed, Active, Strict, BeforeAlice, BeforeMm, BeforeBob, At
<1>1. CASE StartRtpp
  BY <1>1 DEF StartRtpp
<1>2. CASE WaitRtpp
  BY <1>2 DEF WaitRtpp, ReportRc, Exit
<1>3. CASE ProbeRtpp
  BY <1>3 DEF ProbeRtpp, ReportRc, Exit
<1>4. CASE StartBob
  BY <1>4 DEF StartBob
<1>5. CASE CheckMm
  <2>1. conf.fault = "mm_config" => conf.mm \in {"opensips", "kamailio"}
    BY ConfFields DEF Typed
  <2> QED BY <1>5, <2>1 DEF CheckMm, ReportRc, Exit
<1>6. CASE StartMm
  <2>1. conf.fault = "mm_sock" => conf.mm = "b2bua"
    BY ConfFields DEF Typed
  <2> QED BY <1>6, <2>1 DEF StartMm
<1>7. CASE WaitMm
  BY <1>7 DEF WaitMm, ReportRc, Exit
<1>8. CASE MmStarted
  BY <1>8 DEF MmStarted
<1>9. CASE StartAlice
  <2>1. conf.rtpc \in {"udp", "rtp.io"}
    BY ConfFields DEF Typed
  <2> QED BY <1>9, <2>1 DEF StartAlice, ReportRc, Exit
<1>10. CASE StopMm \/ StopRtpp
  BY <1>10 DEF StopMm, StopRtpp
<1>11. CASE Report
  BY <1>11 DEF Report, ReportRc, Exit
<1>12. CASE Interrupt \/ NextRun
  BY <1>12 DEF Interrupt, NextRun, Exit
<1>13. CASE AliceExits \/ BobExits \/ StatsTaken \/ Crash \/ Tick \/ UNCHANGED vars
  BY <1>13 DEF AliceExits, BobExits, StatsTaken, Crash, Tick, vars
<1>14. CASE BobStarted \/ AliceStarted
  BY <1>14 DEF BobStarted, AliceStarted
<1> QED BY <1>1, <1>2, <1>3, <1>4, <1>5, <1>6, <1>7, <1>8, <1>9, <1>10, <1>11, <1>12,
           <1>13, <1>14 DEF Next, Progress, ScriptStep

\* Bob is there until Alice is started: of a strict run.
LEMMA BobWaits ==
    ASSUME Typed, Alive, Loops, Starts, Active, Strict, BobExits
    PROVE  proc["alice"].st # "off"
<1> SUFFICES ASSUME proc["alice"].st = "off" PROVE FALSE
  OBVIOUS
<1>1. /\ now \in Nat /\ wake \in Nat /\ BobStart \in Nat
  BY DEF Typed, BobStart, ProcType, Procs
<1>2. Up("bob") /\ now >= proc["bob"].until
  BY DEF BobExits
<1>3. Timeout(conf.mm) \in Nat /\ Timeout(conf.mm) > 0
  BY DEF Timeout
<1>4. Place = pc /\ pc \in Places
  BY DEF Place, Active, Typed
<1>5. pc \notin BeforeBob
  BY <1>2, <1>4 DEF Alive
<1>6. now >= BobStart + Timeout(conf.mm) + MmInitDelay(conf.mm)
  BY <1>2, <1>5 DEF Starts
<1>7. CASE pc \in BeforeAlice
  <2>1. MmInitDelay(conf.mm) \in Nat /\ MmWaitReady = 4
        /\ (conf.mm = "b2bua" => MmInitDelay(conf.mm) = MmWaitReady + 1)
    BY Delays
  <2>2. pc \in {"bob_started", "check_mm", "start_mm", "wait_mm", "mm_started",
                "start_alice"}
    BY <1>5, <1>7 DEF BeforeAlice, BeforeMm
  <2>3. now <= BobStart + MmInitDelay(conf.mm)
    <3>1. pc # "start_alice" => now <= wake
      BY <1>7 DEF Loops
    <3>2. CASE pc \in {"bob_started", "check_mm", "start_mm"}
      BY <1>1, <2>1, <3>1, <3>2 DEF Starts
    <3>3. CASE pc = "wait_mm"
      <4>1. /\ wake = BobStart + turns /\ turns <= MmWaitReady + 1
            /\ conf.mm = "b2bua" /\ turns \in Nat
        BY <3>3 DEF Starts, Loops, Typed
      <4> QED BY <1>1, <2>1, <3>1, <3>3, <4>1
    <3>4. CASE pc \in {"mm_started", "start_alice"}
      BY <1>1, <2>1, <3>1, <3>4 DEF Starts
    <3> QED BY <2>2, <3>2, <3>3, <3>4
  <2> QED BY <1>1, <1>3, <1>6, <2>1, <2>3
<1>8. CASE pc \notin BeforeAlice
  BY <1>8 DEF Starts
<1> QED BY <1>7, <1>8

\* A step of another process than Alice, Bob and the statistics, or none.
LEMMA MarksKeep ==
    ASSUME Typed, Marks, UNCHANGED <<conf, stdout>>,
           \A p \in {"alice", "bob", "stats"} : proc'[p].st = "down" => proc'[p] = proc[p],
           proc'["stats"].rc = proc["stats"].rc,
           Active' => Active,
           pc' \in Stopping /\ Active' /\ Strict =>
               \A p \in {"alice", "bob"} : proc'[p].st = "down",
           pc' = "report" /\ Active' /\ Strict =>
               \A i \in 1..(turns' - 1) : Reports'[i]
    PROVE  Marks'
BY DEF Marks, Strict

LEMMA MarksStep ==
    /\ Typed /\ Alive /\ Loops /\ Starts /\ Marks
    /\ [Next]_vars
    => Marks'
<1> SUFFICES ASSUME Typed, Alive, Loops, Starts, Marks, [Next]_vars PROVE Marks'
  OBVIOUS
<1>0. /\ proc \in [Procs -> ProcType] /\ turns \in Nat
      /\ "rtpp" \in Procs /\ "bob" \in Procs /\ "mm" \in Procs
      /\ "stats" \in Procs /\ "alice" \in Procs
      /\ proc["stats"].rc = 0
  BY DEF Typed, Procs, Marks
<1>1. CASE StartRtpp
  <2>1. /\ pc = "start_rtpp" /\ pc' \in {"start_bob", "wait_rtpp"}
        /\ UNCHANGED <<conf, stdout>>
    BY <1>1 DEF StartRtpp, At
  <2>2. \A q \in Procs \ {"rtpp"} : proc'[q] = proc[q]
    BY <1>0, <1>1, OneStarted, Codes DEF StartRtpp
  <2>3. \A p \in {"alice", "bob", "stats"} : proc'[p] = proc[p]
    BY <2>2 DEF Procs
  <2> QED BY <2>1, <2>3, MarksKeep DEF Active, Stopping
<1>2. CASE WaitRtpp \/ ProbeRtpp \/ BobStarted \/ CheckMm \/ WaitMm \/ MmStarted
           \/ AliceStarted
  <2>1. /\ Active /\ pc' \notin Stopping /\ UNCHANGED <<conf, stdout, proc>>
    BY <1>2 DEF WaitRtpp, ProbeRtpp, BobStarted, CheckMm, WaitMm, MmStarted, AliceStarted,
                At, Active, ReportRc, Exit, Stopping
  <2> QED BY <2>1, MarksKeep DEF Stopping
<1>3. CASE StartBob
  <2> DEFINE ival == Timeout(conf.mm) + MmInitDelay(conf.mm)
  <2>1. proc' = Started(proc, "bob", ival) /\ ival \in Nat
    BY <1>3, Options, Delays DEF StartBob
  <2> HIDE DEF ival
  <2>2. proc'["bob"].st = "up" /\ \A q \in Procs \ {"bob"} : proc'[q] = proc[q]
    BY <1>0, <2>1, OneStarted
  <2>3. proc'["alice"] = proc["alice"] /\ proc'["stats"] = proc["stats"]
    BY <2>2 DEF Procs
  <2>4. Active /\ pc' = "bob_started" /\ UNCHANGED <<conf, stdout>>
    BY <1>3 DEF StartBob, At, Active
  <2> QED BY <2>2, <2>3, <2>4, MarksKeep DEF Stopping
<1>4. CASE StartMm
  <2>1. \A q \in Procs \ {"mm"} : proc'[q] = proc[q]
    BY <1>0, <1>4, OneStarted, Codes DEF StartMm
  <2>2. \A p \in {"alice", "bob", "stats"} : proc'[p] = proc[p]
    BY <2>1 DEF Procs
  <2>3. Active /\ pc' \notin Stopping /\ UNCHANGED <<conf, stdout>>
    BY <1>4 DEF StartMm, At, Active, Stopping
  <2> QED BY <2>2, <2>3, MarksKeep DEF Stopping
<1>5. CASE StartAlice
  <2>1. Active /\ pc' \in {"end", "alice_started"} /\ UNCHANGED <<conf, stdout>>
    BY <1>5 DEF StartAlice, At, Active, ReportRc, Exit
  <2>2. CASE pc' = "end"
    BY <1>5, <2>1, <2>2, MarksKeep DEF StartAlice, Stopping
  <2>3. CASE pc' = "alice_started"
    <3> DEFINE first == Started(proc, "stats", RtppStatTimeout(conf.mm))
    <3>1. /\ first \in [Procs -> ProcType]
          /\ first["stats"].st = "up" /\ first["stats"].rc = 0
          /\ \A q \in Procs \ {"stats"} : first[q] = proc[q]
      <4>1. RtppStatTimeout(conf.mm) \in Nat
        BY Delays
      <4>2. "stats" \in Procs /\ proc \in [Procs -> ProcType]
        BY <1>0 DEF Typed, Procs
      <4> QED BY <1>0, <4>1, <4>2, OneStarted
    <3> HIDE DEF first
    <3>2. proc' = Started(first, "alice", Timeout(conf.mm)) /\ Timeout(conf.mm) \in Nat
      BY <1>5, <2>3, Options, Delays DEF StartAlice, first
    <3>3. /\ proc'["alice"].st = "up"
          /\ \A q \in Procs \ {"alice"} : proc'[q] = first[q]
      BY <1>0, <3>1, <3>2, OneStarted
    <3>4. /\ proc'["stats"].st = "up" /\ proc'["stats"].rc = 0
          /\ proc'["bob"] = proc["bob"]
      BY <3>1, <3>3 DEF Procs
    <3> QED BY <1>0, <2>1, <2>3, <3>3, <3>4, MarksKeep DEF Stopping
  <2> QED BY <2>1, <2>2, <2>3
<1>6. CASE StopMm
  <2>1. /\ Active /\ pc' = "stop_rtpp" /\ UNCHANGED <<conf, stdout>>
        /\ proc["alice"].st = "down" /\ proc["bob"].st = "down"
    BY <1>6 DEF StopMm, TestsOver, At, Active
  <2>2. \A q \in Procs \ {"mm"} : proc'[q] = proc[q]
    BY <1>0, <1>6, OneStopped DEF StopMm
  <2>3. \A p \in {"alice", "bob", "stats"} : proc'[p] = proc[p]
    BY <2>2 DEF Procs
  <2> QED BY <2>1, <2>3, MarksKeep
<1>7. CASE StopRtpp
  <2>1. Active /\ pc = "stop_rtpp" /\ pc' = "report" /\ turns' = 1
        /\ UNCHANGED <<conf, stdout>>
    BY <1>7 DEF StopRtpp, At, Active
  <2>2. \A q \in Procs \ {"rtpp"} : proc'[q] = proc[q]
    BY <1>0, <1>7, OneStopped DEF StopRtpp
  <2>3. \A p \in {"alice", "bob", "stats"} : proc'[p] = proc[p]
    BY <2>2 DEF Procs
  <2>4. Strict => \A p \in {"alice", "bob"} : proc'[p].st = "down"
    BY <2>1, <2>3 DEF Marks, Stopping
  <2>5. 1..(turns' - 1) = {}
    BY <2>1
  <2> QED BY <2>1, <2>3, <2>4, <2>5, MarksKeep
<1>8. CASE Report
  <2>1. /\ Active /\ pc = "report" /\ UNCHANGED <<conf, stdout, proc>>
        /\ turns' = turns + 1 /\ turns \in 1..6
    BY <1>8 DEF Report, At, Active, Loops
  <2>2. Reports' = Reports
    BY <2>1 DEF Reports
  <2>3. pc' = "report" /\ Strict => Reports[turns]
    BY <1>8 DEF Report, ReportRc, Exit, Strict
  <2>4. Strict => \A i \in 1..(turns - 1) : Reports[i]
    BY <2>1 DEF Marks
  <2>5. pc' = "report" /\ Strict => \A i \in 1..(turns' - 1) : Reports'[i]
    BY <2>1, <2>2, <2>3, <2>4
  <2>6. Strict => \A p \in {"alice", "bob"} : proc'[p].st = "down"
    BY <2>1 DEF Marks, Stopping
  <2> QED BY <2>1, <2>5, <2>6, MarksKeep
<1>9. CASE Interrupt \/ NextRun
  <2>1. pc' \in {"end", "cleaned"} /\ UNCHANGED <<conf, stdout>>
    BY <1>9 DEF Interrupt, NextRun, Exit
  <2>2. proc'["stats"].rc = 0
    BY <1>0, <1>9 DEF Interrupt, NextRun, ProcType
  <2> QED BY <2>1, <2>2 DEF Marks, Active
<1>10. CASE AliceExits
  <2>1. PICK rc \in ExitCodes("alice", {proc["alice"].until, proc["bob"].until}) :
            proc' = Stopped("alice", rc)
    BY <1>10 DEF AliceExits
  <2>2. rc \in {0, 1} /\ (conf.fault = "alice" => rc = 1)
    BY <2>1 DEF ExitCodes
  <2>3. /\ Stopped("alice", rc)["alice"].rc = rc
        /\ \A q \in Procs \ {"alice"} : proc'[q] = proc[q]
    BY <1>0, <2>1, <2>2, OneStopped
  <2>4. proc'["bob"] = proc["bob"] /\ proc'["stats"] = proc["stats"]
    BY <2>3 DEF Procs
  <2>5. Up("alice") /\ UNCHANGED <<conf, pc, last, turns, stdout>>
    BY <1>10 DEF AliceExits
  <2>6. Active => pc \notin Stopping
    BY <2>5 DEF Alive, Place
  <2> QED BY <2>1, <2>2, <2>3, <2>4, <2>5, <2>6 DEF Marks, Active, Strict, Stopping
<1>11. CASE BobExits
  <2>1. PICK rc \in (IF proc["alice"].st = "off" THEN {0}
                     ELSE ExitCodes("bob", {proc["bob"].until})) :
            proc' = Stopped("bob", rc)
    BY <1>11 DEF BobExits
  <2>2. rc \in {0, 1} /\ (conf.fault = "bob" /\ proc["alice"].st # "off" => rc = 1)
    BY <2>1 DEF ExitCodes
  <2>3. /\ Stopped("bob", rc)["bob"].rc = rc
        /\ \A q \in Procs \ {"bob"} : proc'[q] = proc[q]
    BY <1>0, <2>1, <2>2, OneStopped
  <2>4. proc'["alice"] = proc["alice"] /\ proc'["stats"] = proc["stats"]
    BY <2>3 DEF Procs
  <2>5. Up("bob") /\ UNCHANGED <<conf, pc, last, turns, stdout>>
    BY <1>11 DEF BobExits
  <2>6. Active => pc \notin Stopping
    BY <2>5 DEF Alive, Place
  <2>7. Active /\ Strict => proc["alice"].st # "off"
    BY <1>11, BobWaits
  <2> QED BY <2>1, <2>2, <2>3, <2>4, <2>5, <2>6, <2>7 DEF Marks, Active, Strict, Stopping
<1>12. CASE StatsTaken
  <2>1. /\ Up("stats") /\ proc' = Stopped("stats", 0) /\ UNCHANGED <<conf, pc, last, turns>>
        /\ stdout' => conf.fault # "stdout"
    BY <1>12 DEF StatsTaken
  <2>2. /\ proc'["stats"].rc = 0 /\ \A q \in Procs \ {"stats"} : proc'[q] = proc[q]
    BY <1>0, <2>1, OneStopped
  <2>3. proc'["alice"] = proc["alice"] /\ proc'["bob"] = proc["bob"]
    BY <2>2 DEF Procs
  <2>4. Active => pc \notin Stopping
    BY <2>1 DEF Alive, Place
  <2> QED BY <2>1, <2>2, <2>3, <2>4 DEF Marks, Active, Strict, Stopping
<1>13. CASE Crash
  <2>1. /\ Up("alice") /\ UNCHANGED <<conf, pc, last, turns, stdout>>
        /\ \E p \in {"mm", "rtpp"} : proc' = Stopped(p, 1)
    BY <1>13 DEF Crash
  <2>2. \A q \in Procs \ {"mm", "rtpp"} : proc'[q] = proc[q]
    BY <1>0, <2>1, OneStopped
  <2>3. \A p \in {"alice", "bob", "stats"} : proc'[p] = proc[p]
    BY <2>2 DEF Procs
  <2>4. Active => pc \notin Stopping
    BY <2>1 DEF Alive, Place
  <2> QED BY <2>1, <2>3, <2>4, MarksKeep DEF Active, Stopping
<1>14. CASE Tick \/ UNCHANGED vars
  <2>1. UNCHANGED <<conf, pc, turns, proc, stdout>>
    BY <1>14 DEF Tick, vars
  <2>2. Reports' = Reports
    BY <2>1 DEF Reports
  <2> QED BY <2>1, <2>2 DEF Marks, Active, Strict
<1> QED BY <1>1, <1>2, <1>3, <1>4, <1>5, <1>6, <1>7, <1>8, <1>9, <1>10, <1>11, <1>12,
           <1>13, <1>14 DEF Next, Progress, ScriptStep

LEMMA GoodStep ==
    /\ Typed /\ Alive /\ Loops /\ Passed /\ Marks /\ GoodMeansGood
    /\ [Next]_vars
    => GoodMeansGood'
<1> SUFFICES ASSUME Typed, Alive, Loops, Passed, Marks, GoodMeansGood, [Next]_vars,
                    Strict', status' = 0
             PROVE  /\ conf'.fault \in {"none", "rtpp_crash", "mm_crash"}
                    /\ \A p \in Procs : (~Up(p))' /\ proc'[p].rc = 0
  BY DEF GoodMeansGood
<1>0. proc \in [Procs -> ProcType] /\ UNCHANGED conf
  BY DEF Typed, Next, Progress, ScriptStep, StartRtpp, WaitRtpp, ProbeRtpp, StartBob,
         BobStarted, CheckMm, StartMm, WaitMm, MmStarted, StartAlice, AliceStarted, StopMm,
         StopRtpp, Report,
         AliceExits, BobExits, StatsTaken, Tick, Crash, Interrupt, NextRun, vars
<1>1. CASE status = 0
  <2>1. /\ ~Active /\ \A p \in Procs : ~Up(p) /\ proc[p].rc = 0
        /\ conf.fault \in {"none", "rtpp_crash", "mm_crash"}
    BY <1>0, <1>1, Codes DEF Typed, GoodMeansGood, Strict
  <2>2. UNCHANGED proc \/ NextRun
    <3>1. ~ScriptStep
      BY <2>1 DEF ScriptStep, StartRtpp, WaitRtpp, ProbeRtpp, StartBob, BobStarted,
         CheckMm, StartMm, WaitMm, MmStarted, StartAlice, AliceStarted, StopMm, StopRtpp,
         Report, At, Active
    <3>2. ~Up("alice") /\ ~Up("bob") /\ ~Up("stats")
      BY <2>1 DEF Procs
    <3>3. ~(AliceExits \/ BobExits \/ StatsTaken \/ Crash)
      BY <3>2 DEF AliceExits, BobExits, StatsTaken, Crash
    <3> QED BY <3>1, <3>3 DEF Next, Progress, Tick, Interrupt, vars
  <2>3. \A p \in Procs : proc'[p].st # "up" /\ proc'[p].rc = 0
    BY <1>0, <2>1, <2>2 DEF NextRun, ProcType, Up
  <2> QED BY <1>0, <2>1, <2>3 DEF Up
<1>2. CASE status # 0
  <2>1. Report /\ Exit(0) /\ ~(turns <= Len(Reports))
    <3>1. ~(AliceExits \/ BobExits \/ StatsTaken \/ Tick \/ Crash \/ NextRun
            \/ UNCHANGED vars)
      BY <1>2 DEF AliceExits, BobExits, StatsTaken, Tick, Crash, NextRun, vars
    <3>2. ~(StartRtpp \/ StartBob \/ BobStarted \/ StartMm \/ MmStarted \/ AliceStarted
            \/ StopMm \/ StopRtpp)
      BY <1>2 DEF StartRtpp, StartBob, BobStarted, StartMm, MmStarted, AliceStarted, StopMm,
                StopRtpp
    <3>3. ~(WaitRtpp \/ ProbeRtpp \/ CheckMm \/ WaitMm \/ StartAlice)
      BY <1>2 DEF WaitRtpp, ProbeRtpp, CheckMm, WaitMm, StartAlice, ReportRc, Exit
    <3>4. ~Interrupt
      BY Codes DEF Interrupt, Exit
    <3>5. Report
      BY <3>1, <3>2, <3>3, <3>4 DEF Next, Progress, ScriptStep
    <3> QED BY <1>2, <3>5 DEF Report, ReportRc, Exit
  <2>2. pc = "report" /\ Active /\ Place = pc /\ UNCHANGED proc /\ Strict
    BY <1>0, <2>1 DEF Report, At, Active, Place, Strict
  <2>3. turns = 6
    BY <2>1, <2>2 DEF Loops, Reports
  <2>4. \A i \in 1..5 : Reports[i]
    BY <2>2, <2>3 DEF Marks
  <2>5. /\ proc["alice"].rc = 0 /\ proc["bob"].rc = 0 /\ proc["rtpp"].rc = 0 /\ stdout
        /\ proc["mm"].rc = 0
    <3>1. Reports[1] /\ Reports[2] /\ Reports[3] /\ Reports[4] /\ Reports[5]
      BY <2>4
    <3> QED BY <3>1 DEF Reports
  <2>6. \A p \in Procs : ~Up(p)
    BY <2>2 DEF Alive, Stopping, Procs
  <2>7. \A p \in Procs : proc[p].rc = 0
    BY <2>5 DEF Marks, Procs
  <2>8. /\ conf.fault \notin {"alice", "bob", "stdout", "rtpp_sock", "mm_config", "mm_sock"}
    <3>1. proc["alice"].st = "down" /\ proc["bob"].st = "down"
      BY <2>2 DEF Marks, Stopping
    <3>2. conf.fault \notin {"alice", "bob", "stdout"}
      BY <2>2, <2>5, <3>1 DEF Marks
    <3>3. conf.fault \notin {"rtpp_sock", "mm_config", "mm_sock"}
      BY <2>2 DEF Passed, BeforeAlice, BeforeMm, BeforeBob
    <3> QED BY <3>2, <3>3
  <2>9. conf.fault \in HarnessFaults
    BY ConfFields DEF Typed
  <2> QED BY <1>0, <2>2, <2>6, <2>7, <2>8, <2>9 DEF HarnessFaults, Up
<1> QED BY <1>1, <1>2

-----------------------------------------------------------------------------
(* Intact, Clean and BlameFits.                                            *)

LEMMA GuiltyStays ==
    ASSUME Dates, UNCHANGED conf
    PROVE  Guilty' <=> Guilty
<1>1. proc'["mm"].since = proc["mm"].since /\ proc'["alice"].since = proc["alice"].since
  BY DEF Dates, Procs
<1> QED BY <1>1 DEF Guilty, Late

\* All calls are dead before a timer and over before the statistics.
LEMMA CallsFit ==
    ASSUME LastsFit, Typed, Starts, Active, Strict, pc \notin BeforeAlice
    PROVE  /\ CallsDeadBy(proc["alice"].until) /\ CallsDeadBy(proc["bob"].until)
           /\ now >= proc["stats"].until => CallsOverBy(now)
<1> DEFINE since == proc["alice"].since
<1>1. /\ since \in Nat /\ now \in Nat /\ proc["alice"].until \in Nat
      /\ proc["bob"].until \in Nat /\ conf \in Confs
  BY DEF Typed, ProcType, Procs
<1>2. /\ proc["alice"].until = since + Timeout(conf.mm)
      /\ proc["stats"].until = since + RtppStatTimeout(conf.mm)
      /\ proc["alice"].until <= proc["bob"].until
  BY DEF Starts, Place
<1>3. /\ Timeout(conf.mm) \in Nat /\ RtppStatTimeout(conf.mm) \in Nat
      /\ GoDeadTimeout \in Nat
  BY Delays
<1> SUFFICES ASSUME NEW d \in Deaths
             PROVE  /\ d <= proc["alice"].until /\ d <= proc["bob"].until
                    /\ now >= proc["stats"].until => d <= now + GoDeadTimeout
  BY DEF CallsDeadBy, CallsOverBy
<1>4. PICK t \in AllTests \cap TestSet(conf.mm) : d = since + Lasts[t] + GoDeadTimeout
  BY Options DEF Deaths
<1>5. /\ Lasts[t] <= RtppStatTimeout(conf.mm)
      /\ Lasts[t] + GoDeadTimeout <= Timeout(conf.mm)
  BY <1>1, <1>4 DEF LastsFit
<1>6. Lasts[t] \in Nat
  BY <1>4, HarnessAssumption
<1> HIDE DEF since
<1> QED BY <1>1, <1>2, <1>3, <1>4, <1>5, <1>6

LEMMA NotHampered ==
    ASSUME Typed, Starts, Clean, Active, Strict, pc \in Testing, ~Guilty
    PROVE  ~Hampered
<1>1. pc \notin BeforeAlice
  BY DEF Testing, BeforeAlice, BeforeMm, BeforeBob
<1>2. proc["mm"].st = "up"
  BY <1>1 DEF Clean, Up
<1>3. ~Late
  BY <1>1 DEF Starts, Guilty
<1> QED BY <1>2, <1>3 DEF Hampered

LEMMA InitClean == Init => Intact /\ Clean /\ BlameFits
<1> SUFFICES ASSUME Init PROVE Intact /\ Clean /\ BlameFits
  OBVIOUS
<1>1. /\ pc = "start_rtpp" /\ status = Running
      /\ \A p \in Procs : proc[p].st = "off" /\ proc[p].rc = 0
  BY DEF Init, Off, Procs
<1> QED BY <1>1, Codes
        DEF Intact, Clean, BlameFits, Procs, BeforeAlice, BeforeMm, BeforeBob

\* The programs of a strict run end, or are crashed, once Alice is started only.
LEMMA EndsInTests ==
    ASSUME Typed, Alive, Loops, Starts, Active, Strict,
           AliceExits \/ BobExits \/ StatsTaken \/ Crash
    PROVE  pc \in Testing
<1>1. Place = pc /\ pc \in Places
  BY DEF Place, Active, Typed
<1>2. Up("alice") \/ Up("stats") \/ (Up("bob") /\ proc["alice"].st # "off")
  <2>1. CASE BobExits
    BY <2>1, BobWaits DEF BobExits
  <2>2. CASE AliceExits \/ StatsTaken \/ Crash
    BY <2>2 DEF AliceExits, StatsTaken, Crash
  <2> QED BY <2>1, <2>2
<1>3. pc \notin BeforeAlice
  BY <1>1, <1>2 DEF Alive, Starts
<1>4. pc \notin Stopping
  BY <1>1, <1>2 DEF Alive
<1> QED BY <1>1, <1>3, <1>4 DEF Places

LEMMA IntactStep ==
    /\ Typed /\ Alive /\ Loops /\ Starts /\ Intact
    /\ [Next]_vars
    => Intact'
<1> SUFFICES ASSUME Typed, Alive, Loops, Starts, Intact, [Next]_vars,
                    Active', Strict', pc' \in BeforeAlice
             PROVE  /\ \A p \in Procs : proc'[p].rc = 0
                    /\ proc'["rtpp"].st # "down"
                    /\ pc' \notin BeforeMm => Up("mm")'
  BY DEF Intact
<1> USE DEF BeforeAlice, BeforeMm, BeforeBob
<1>0. /\ proc \in [Procs -> ProcType]
      /\ "rtpp" \in Procs /\ "bob" \in Procs /\ "mm" \in Procs
      /\ "stats" \in Procs /\ "alice" \in Procs
  BY DEF Typed, Procs
<1> DEFINE Whole == /\ \A p \in Procs : proc[p].rc = 0
                    /\ proc["rtpp"].st # "down"
                    /\ pc \notin BeforeMm => Up("mm")
<1>1. CASE StartRtpp
  <2>1. pc = "start_rtpp" /\ Active /\ Strict /\ pc' \in {"wait_rtpp", "start_bob"}
    BY <1>1 DEF StartRtpp, At, Active, Strict
  <2>2. Whole
    BY <2>1 DEF Intact
  <2>3. \/ proc' = proc
        \/ /\ proc'["rtpp"].st = "up" /\ proc'["rtpp"].rc = 0
           /\ \A q \in Procs \ {"rtpp"} : proc'[q] = proc[q]
    BY <1>0, <1>1, OneStarted, Codes DEF StartRtpp
  <2> QED BY <2>1, <2>2, <2>3
<1>2. CASE WaitRtpp \/ ProbeRtpp \/ BobStarted \/ CheckMm \/ WaitMm \/ MmStarted
  <2>1. pc \in BeforeAlice /\ Active /\ Strict /\ UNCHANGED proc
        /\ (pc' \notin BeforeMm => pc \notin BeforeMm)
    BY <1>2 DEF WaitRtpp, ProbeRtpp, BobStarted, CheckMm, WaitMm, MmStarted, At, Active,
                ReportRc, Exit, Strict
  <2>2. Whole
    BY <2>1 DEF Intact
  <2> QED BY <2>1, <2>2 DEF Up
<1>3. CASE StartBob
  <2> DEFINE ival == Timeout(conf.mm) + MmInitDelay(conf.mm)
  <2>1. proc' = Started(proc, "bob", ival) /\ ival \in Nat
    BY <1>3, Options, Delays DEF StartBob
  <2> HIDE DEF ival
  <2>2. proc'["bob"].rc = 0 /\ \A q \in Procs \ {"bob"} : proc'[q] = proc[q]
    BY <1>0, <2>1, OneStarted
  <2>3. pc = "start_bob" /\ Active /\ Strict /\ pc' = "bob_started"
    BY <1>3 DEF StartBob, At, Active, Strict
  <2>4. Whole
    BY <2>3 DEF Intact
  <2>5. proc'["rtpp"] = proc["rtpp"]
    BY <2>2 DEF Procs
  <2> QED BY <2>2, <2>3, <2>4, <2>5
<1>4. CASE StartMm
  <2>1. /\ proc'["mm"].rc = 0 /\ proc'["mm"].st = "up"
        /\ \A q \in Procs \ {"mm"} : proc'[q] = proc[q]
    BY <1>0, <1>4, OneStarted, Codes DEF StartMm
  <2>2. pc = "start_mm" /\ Active /\ Strict
    BY <1>4 DEF StartMm, At, Active, Strict
  <2>3. Whole
    BY <2>2 DEF Intact
  <2>4. proc'["rtpp"] = proc["rtpp"]
    BY <2>1 DEF Procs
  <2> QED BY <2>1, <2>3, <2>4 DEF Up
<1>5. CASE StartAlice \/ AliceStarted \/ StopMm \/ StopRtpp \/ Report \/ Interrupt
           \/ NextRun
  BY <1>5 DEF StartAlice, AliceStarted, StopMm, StopRtpp, Report, Interrupt, NextRun,
              ReportRc, Exit, Active
<1>6. CASE AliceExits \/ BobExits \/ StatsTaken \/ Crash
  <2>1. UNCHANGED <<pc, conf>>
    BY <1>6 DEF AliceExits, BobExits, StatsTaken, Crash
  <2>2. Active /\ Strict
    BY <2>1 DEF Active, Strict
  <2> QED BY <1>6, <2>1, <2>2, EndsInTests DEF Testing
<1>7. CASE Tick \/ UNCHANGED vars
  <2>1. UNCHANGED <<pc, conf, proc>>
    BY <1>7 DEF Tick, vars
  <2> QED BY <2>1 DEF Intact, Active, Strict, Up
<1> QED BY <1>1, <1>2, <1>3, <1>4, <1>5, <1>6, <1>7 DEF Next, Progress, ScriptStep

LEMMA CleanStep ==
    ASSUME LastsFit, Typed, Alive, Loops, Starts, Intact, Clean, [Next]_vars
    PROVE  Clean'
<1> SUFFICES ASSUME Active', Strict', pc' \notin BeforeAlice, ~Guilty'
             PROVE  /\ \A p \in Procs : proc'[p].rc = 0
                    /\ proc'["stats"].st = "down" => stdout'
                    /\ pc' \in Testing => Up("mm")' /\ proc'["rtpp"].st # "down"
                    /\ pc' \in Stopping => proc'["stats"].st = "down"
  BY DEF Clean
<1>0. /\ proc \in [Procs -> ProcType]
      /\ "rtpp" \in Procs /\ "bob" \in Procs /\ "mm" \in Procs
      /\ "stats" \in Procs /\ "alice" \in Procs /\ UNCHANGED conf
  BY DEF Typed, Procs, Next, Progress, ScriptStep, StartRtpp, WaitRtpp, ProbeRtpp, StartBob,
         BobStarted, CheckMm, StartMm, WaitMm, MmStarted, StartAlice, AliceStarted, StopMm,
         StopRtpp, Report,
         AliceExits, BobExits, StatsTaken, Tick, Crash, Interrupt, NextRun, vars
<1> DEFINE Good == /\ \A p \in Procs : proc[p].rc = 0
                   /\ proc["stats"].st = "down" => stdout
                   /\ pc \in Testing => Up("mm") /\ proc["rtpp"].st # "down"
                   /\ pc \in Stopping => proc["stats"].st = "down"
<1>1. CASE StartRtpp \/ WaitRtpp \/ ProbeRtpp \/ StartBob \/ BobStarted \/ CheckMm
           \/ StartMm \/ WaitMm \/ MmStarted \/ Interrupt \/ NextRun
  BY <1>1 DEF StartRtpp, WaitRtpp, ProbeRtpp, StartBob, BobStarted, CheckMm, StartMm,
              WaitMm, MmStarted, Interrupt, NextRun, ReportRc, Exit, Active,
              BeforeAlice, BeforeMm, BeforeBob
<1>2. CASE StartAlice
  <2>1. /\ pc = "start_alice" /\ Active /\ Strict /\ pc' = "alice_started"
    BY <1>2 DEF StartAlice, ReportRc, Exit, At, Active, Strict
  <2>2. /\ \A p \in Procs : proc[p].rc = 0
        /\ proc["rtpp"].st # "down" /\ Up("mm")
    BY <2>1 DEF Intact, BeforeAlice, BeforeMm, BeforeBob
  <2> DEFINE first == Started(proc, "stats", RtppStatTimeout(conf.mm))
  <2>3. /\ first \in [Procs -> ProcType]
        /\ first["stats"].st = "up" /\ first["stats"].rc = 0
        /\ \A q \in Procs \ {"stats"} : first[q] = proc[q]
    BY <1>0, OneStarted, Delays
  <2> HIDE DEF first
  <2>4. proc' = Started(first, "alice", Timeout(conf.mm)) /\ Timeout(conf.mm) \in Nat
    BY <1>2, <2>1, Options, Delays DEF StartAlice, first
  <2>5. /\ proc'["alice"].rc = 0
        /\ \A q \in Procs \ {"alice"} : proc'[q] = first[q]
    BY <1>0, <2>3, <2>4, OneStarted
  <2>6. /\ proc'["stats"].st = "up" /\ proc'["mm"] = proc["mm"]
        /\ proc'["rtpp"] = proc["rtpp"]
    BY <2>3, <2>5 DEF Procs
  <2>7. \A p \in Procs : proc'[p].rc = 0
    BY <2>2, <2>3, <2>5
  <2> QED BY <2>1, <2>2, <2>6, <2>7 DEF Stopping, Up
<1>3. CASE StopMm
  <2>1. /\ pc = "wait_alice" /\ Active /\ Strict /\ pc' = "stop_rtpp" /\ UNCHANGED stdout
        /\ proc["stats"].st = "down"
    BY <1>3 DEF StopMm, At, Active, Strict, TestsOver
  <2>0. (proc' = Stopped("mm", 0) \/ proc' = proc) /\ "mm" \in Procs
    BY <1>3 DEF StopMm, Procs
  <2>2. /\ \A p \in Procs : proc'[p].rc = proc[p].rc \/ proc'[p].rc = 0
        /\ \A q \in Procs \ {"mm"} : proc'[q] = proc[q]
    <3>1. CASE proc' = Stopped("mm", 0)
      <4>1. /\ Stopped("mm", 0)["mm"].rc = 0
            /\ \A q \in Procs \ {"mm"} : Stopped("mm", 0)[q] = proc[q]
        BY <1>0, <2>0, OneStopped
      <4> QED BY <3>1, <4>1
    <3> QED BY <2>0, <3>1
  <2>3. Dates
    <3>1. CASE proc' = Stopped("mm", 0)
      <4>1. /\ Stopped("mm", 0)["mm"].since = proc["mm"].since
            /\ Stopped("mm", 0)["mm"].until = proc["mm"].until
            /\ \A q \in Procs \ {"mm"} : Stopped("mm", 0)[q] = proc[q]
        BY <1>0, <2>0, OneStopped
      <4> QED BY <3>1, <4>1 DEF Dates
    <3> QED BY <2>0, <3>1 DEF Dates
  <2>4. ~Guilty
    BY <1>0, <2>3, GuiltyStays
  <2>5. Good
    BY <2>1, <2>4 DEF Clean, BeforeAlice, BeforeMm, BeforeBob
  <2>6. proc'["stats"] = proc["stats"]
    BY <2>2 DEF Procs
  <2> QED BY <2>1, <2>2, <2>5, <2>6 DEF Testing, Stopping
<1>4. CASE StopRtpp
  <2>1. /\ pc = "stop_rtpp" /\ Active /\ Strict /\ pc' = "report" /\ UNCHANGED stdout
    BY <1>4 DEF StopRtpp, At, Active, Strict
  <2>2. /\ \A p \in Procs : proc'[p].rc = proc[p].rc \/ proc'[p].rc = 0
        /\ \A q \in Procs \ {"rtpp"} : proc'[q] = proc[q]
    BY <1>0, <1>4, OneStopped DEF StopRtpp
  <2>3. Dates
    BY <1>0, <1>4, OneStopped DEF StopRtpp, Dates
  <2>4. ~Guilty
    BY <1>0, <2>3, GuiltyStays
  <2>5. Good
    BY <2>1, <2>4 DEF Clean, BeforeAlice, BeforeMm, BeforeBob
  <2>6. proc'["stats"] = proc["stats"]
    BY <2>2 DEF Procs
  <2> QED BY <2>1, <2>2, <2>5, <2>6 DEF Testing, Stopping
<1>5. CASE Report \/ Tick \/ UNCHANGED vars
  <2>1. /\ Active /\ Strict /\ UNCHANGED <<proc, pc, stdout>>
    BY <1>0, <1>5 DEF Report, Tick, vars, ReportRc, Exit, At, Active, Strict
  <2>2. ~Guilty
    BY <1>0, <2>1, GuiltyStays DEF Dates
  <2>3. Good
    BY <2>1, <2>2 DEF Clean
  <2> QED BY <2>1, <2>3 DEF Up
<1>6. CASE AliceExits \/ BobExits \/ StatsTaken \/ Crash
  <2>1. UNCHANGED pc /\ Active /\ Strict
    BY <1>0, <1>6 DEF AliceExits, BobExits, StatsTaken, Crash, Active, Strict
  <2>2. pc \in Testing /\ pc \notin BeforeAlice /\ pc \notin Stopping
    BY <1>6, <2>1, EndsInTests DEF Testing, BeforeAlice, BeforeMm, BeforeBob, Stopping
  <2>3. PICK p \in Procs, rc \in {0, 1} : proc' = Stopped(p, rc)
    BY <1>6 DEF AliceExits, BobExits, StatsTaken, Crash, ExitCodes, Procs
  <2>4. ~Guilty
    <3>1. Dates
      BY <2>3, OneStopped DEF Dates
    <3> QED BY <1>0, <3>1, GuiltyStays
  <2>5. Good /\ conf.fault = "none"
    BY <2>1, <2>2, <2>4 DEF Clean, Guilty
  <2>6. ~Hampered
    BY <2>1, <2>2, <2>4, NotHampered
  <2>7. /\ CallsDeadBy(proc["alice"].until) /\ CallsDeadBy(proc["bob"].until)
        /\ now >= proc["stats"].until => CallsOverBy(now)
    BY <2>1, <2>2, CallsFit
  <2>8. CASE AliceExits
    <3>1. ExitCodes("alice", {proc["alice"].until, proc["bob"].until}) = {0}
      BY <2>5, <2>6, <2>7 DEF ExitCodes
    <3>2. proc' = Stopped("alice", 0) /\ UNCHANGED stdout
      BY <2>8, <3>1 DEF AliceExits
    <3>3. proc'["alice"].rc = 0 /\ \A q \in Procs \ {"alice"} : proc'[q] = proc[q]
      BY <1>0, <3>2, OneStopped
    <3>4. /\ proc'["mm"] = proc["mm"] /\ proc'["rtpp"] = proc["rtpp"]
          /\ proc'["stats"] = proc["stats"]
      BY <3>3 DEF Procs
    <3> QED BY <2>1, <2>2, <2>5, <3>2, <3>3, <3>4 DEF Up
  <2>9. CASE BobExits
    <3>1. ExitCodes("bob", {proc["bob"].until}) = {0}
      BY <2>5, <2>6, <2>7 DEF ExitCodes
    <3>2. proc' = Stopped("bob", 0) /\ UNCHANGED stdout
      BY <2>9, <3>1 DEF BobExits
    <3>3. proc'["bob"].rc = 0 /\ \A q \in Procs \ {"bob"} : proc'[q] = proc[q]
      BY <1>0, <3>2, OneStopped
    <3>4. /\ proc'["mm"] = proc["mm"] /\ proc'["rtpp"] = proc["rtpp"]
          /\ proc'["stats"] = proc["stats"]
      BY <3>3 DEF Procs
    <3> QED BY <2>1, <2>2, <2>5, <3>2, <3>3, <3>4 DEF Up
  <2>10. CASE StatsTaken
    <3>1. proc' = Stopped("stats", 0) /\ now >= proc["stats"].until
      BY <2>10 DEF StatsTaken
    <3>2. proc'["stats"].rc = 0 /\ \A q \in Procs \ {"stats"} : proc'[q] = proc[q]
      BY <1>0, <3>1, OneStopped
    <3>3. proc'["mm"] = proc["mm"] /\ proc'["rtpp"] = proc["rtpp"]
      BY <3>2 DEF Procs
    <3>4. stdout'
      BY <2>2, <2>5, <2>6, <2>7, <2>10, <3>1 DEF StatsTaken
    <3> QED BY <2>1, <2>2, <2>5, <3>2, <3>3, <3>4 DEF Up
  <2>11. ~Crash
    BY <2>5 DEF Crash
  <2> QED BY <1>6, <2>8, <2>9, <2>10, <2>11
<1>7. CASE AliceStarted
  <2>1. /\ pc = "alice_started" /\ pc' = "wait_alice" /\ Active /\ Strict
        /\ UNCHANGED <<proc, stdout>>
    BY <1>0, <1>7 DEF AliceStarted, At, Active, Strict
  <2>2. ~Guilty
    BY <1>0, <2>1, GuiltyStays DEF Dates
  <2>3. Good
    BY <2>1, <2>2 DEF Clean, BeforeAlice, BeforeMm, BeforeBob
  <2> QED BY <2>1, <2>3 DEF Up, Testing, Stopping
<1> QED BY <1>1, <1>2, <1>3, <1>4, <1>5, <1>6, <1>7 DEF Next, Progress, ScriptStep

\* A report that ends a strict run has a reason.
LEMMA BlameStep ==
    ASSUME Typed, Alive, Loops, Starts, Passed, Marks, Intact, Clean, BlameFits, [Next]_vars
    PROVE  BlameFits'
<1> SUFFICES ASSUME Strict', status' = 1 PROVE Guilty'
  BY DEF BlameFits
<1>0. /\ proc \in [Procs -> ProcType] /\ turns \in Nat /\ now \in Nat
      /\ UNCHANGED conf /\ conf.rtppReady \in Nat /\ conf.mmReady \in Nat
  BY ConfFields
     DEF Typed, Procs, Next, Progress, ScriptStep, StartRtpp, WaitRtpp, ProbeRtpp, StartBob,
         BobStarted, CheckMm, StartMm, WaitMm, MmStarted, StartAlice, AliceStarted, StopMm,
         StopRtpp, Report,
         AliceExits, BobExits, StatsTaken, Tick, Crash, Interrupt, NextRun, vars
<1>1. Strict
  BY <1>0 DEF Strict
<1>2. CASE status = 1
  <2>1. ~Active /\ Guilty
    BY <1>1, <1>2, Codes DEF Typed, BlameFits
  <2>2. ~ScriptStep
    BY <2>1 DEF ScriptStep, StartRtpp, WaitRtpp, ProbeRtpp, StartBob, BobStarted,
       CheckMm, StartMm, WaitMm, MmStarted, StartAlice, AliceStarted, StopMm, StopRtpp,
       Report, At, Active
  <2>3. Dates
    <3>1. CASE AliceExits \/ BobExits \/ StatsTaken \/ Crash
      <4>1. PICK p \in Procs, rc \in {0, 1} : proc' = Stopped(p, rc)
        BY <3>1 DEF AliceExits, BobExits, StatsTaken, Crash, ExitCodes, Procs
      <4> QED BY <4>1, OneStopped DEF Dates
    <3>2. CASE NextRun
      BY <1>0, <3>2 DEF NextRun, Dates, ProcType
    <3>3. CASE Tick \/ Interrupt \/ UNCHANGED vars
      BY <3>3 DEF Tick, Interrupt, vars, Dates
    <3> QED BY <2>2, <3>1, <3>2, <3>3 DEF Next, Progress
  <2> QED BY <1>0, <2>1, <2>3, GuiltyStays
<1>3. CASE status # 1
  <2>1. Guilty
    <3>1. CASE ProbeRtpp \/ CheckMm \/ StartAlice
      BY <1>3, <3>1 DEF ProbeRtpp, CheckMm, StartAlice, ReportRc, Exit, Guilty
    <3>2. CASE WaitRtpp
      <4>1. /\ pc = "wait_rtpp" /\ ~RtppIsReady /\ ~(turns <= 4)
        BY <1>3, <3>2 DEF WaitRtpp, ReportRc, Exit, At
      <4>2. now >= turns + 1 /\ proc["rtpp"].since = 0
        BY <3>2, <4>1 DEF Loops, WaitRtpp, At
      <4>3. conf.rtppReady > 6
        BY <1>0, <4>1, <4>2 DEF RtppIsReady
      <4> QED BY <4>3 DEF Guilty
    <3>3. CASE WaitMm
      <4>1. CASE MmIsReady
        BY <1>3, <3>3, <4>1 DEF WaitMm, ReportRc, Exit, Guilty
      <4>2. CASE ~MmIsReady
        <5>1. pc = "wait_mm" /\ now >= wake /\ ~(turns <= MmWaitReady)
          BY <1>3, <3>3, <4>2 DEF WaitMm, ReportRc, Exit, At
        <5>2. wake = proc["mm"].since + turns /\ conf.mm = "b2bua"
          BY <5>1 DEF Loops
        <5>3. proc["mm"].since \in Nat
          BY <1>0 DEF ProcType, Procs
        <5>4. conf.mmReady > MmWaitReady + 1
          BY <1>0, <4>2, <5>1, <5>2, <5>3, Delays DEF MmIsReady
        <5> QED BY <5>2, <5>4 DEF Guilty
      <4> QED BY <4>1, <4>2
    <3>4. CASE Report
      <4>1. pc = "report" /\ Active /\ turns <= Len(Reports) /\ ~Reports[turns]
        BY <1>3, <3>4 DEF Report, ReportRc, Exit, At, Active
      <4>2. turns \in 1..5
        BY <4>1 DEF Loops, Reports
      <4>3. SUFFICES ASSUME ~Guilty PROVE FALSE
        OBVIOUS
      <4>4. (\A p \in Procs : proc[p].rc = 0) /\ stdout
        BY <1>1, <4>1, <4>3 DEF Clean, Stopping, BeforeAlice, BeforeMm, BeforeBob
      <4>5. Reports[1] /\ Reports[2] /\ Reports[3] /\ Reports[4] /\ Reports[5]
        BY <4>4 DEF Reports, Procs
      <4> QED BY <4>1, <4>2, <4>5
    <3>5. ~Interrupt
      BY Codes DEF Interrupt, Exit
    <3>6. ~(AliceExits \/ BobExits \/ StatsTaken \/ Tick \/ Crash \/ NextRun
            \/ UNCHANGED vars)
      BY <1>3 DEF AliceExits, BobExits, StatsTaken, Tick, Crash, NextRun, vars
    <3>7. ~(StartRtpp \/ StartBob \/ BobStarted \/ StartMm \/ MmStarted \/ AliceStarted
            \/ StopMm \/ StopRtpp)
      BY <1>3 DEF StartRtpp, StartBob, BobStarted, StartMm, MmStarted, AliceStarted, StopMm,
                StopRtpp
    <3> QED BY <3>1, <3>2, <3>3, <3>4, <3>5, <3>6, <3>7 DEF Next, Progress, ScriptStep
  <2>2. UNCHANGED proc
    BY <1>3 DEF Next, Progress, ScriptStep, StartRtpp, WaitRtpp, ProbeRtpp, StartBob,
         BobStarted, CheckMm, StartMm, WaitMm, MmStarted, StartAlice, AliceStarted, StopMm,
         StopRtpp, Report,
         AliceExits, BobExits, StatsTaken, Tick, Crash, Interrupt, NextRun, vars,
         ReportRc, Exit
  <2> QED BY <1>0, <2>1, <2>2, GuiltyStays DEF Dates
<1> QED BY <1>2, <1>3

-----------------------------------------------------------------------------
(* The theorems.                                                           *)

\* The invariant of test_run.sh, for every SSuT, start delay and fault.
THEOREM HarnessInvariant == Spec => []IInv
<1>1. Init => IInv
  BY InitTyped, InitAlive, InitLoops, InitMarks DEF IInv
<1>2. IInv /\ [Next]_vars => IInv'
  <2> SUFFICES ASSUME IInv, [Next]_vars PROVE IInv'
    OBVIOUS
  <2>1. Typed' /\ Alive' /\ Tracked'
    BY TypedStep, AliveStep DEF IInv
  <2>2. Loops' /\ Starts'
    BY LoopsStep DEF IInv
  <2>3. Passed' /\ Marks' /\ GoodMeansGood'
    BY PassedStep, MarksStep, GoodStep DEF IInv
  <2> QED BY <2>1, <2>2, <2>3 DEF IInv
<1> QED BY <1>1, <1>2, PTL DEF Spec

\* The variables stay in range: the counter of the wait loops of test_run.sh
\* never exceeds its limit, or the delay with CONTINUE.
THEOREM TypeCorrect == Spec => []TypeOK
<1>1. IInv => TypeOK
  BY DEF IInv, Typed, Loops, TypeOK, ProcType
<1> QED BY <1>1, HarnessInvariant, PTL

\* BOB_TIMEOUT + MM_INIT_DELAY: Bob's timer, which runs from before the start of
\* the SSuT, does not go off before Alice's.
THEOREM BobOutlives == Spec => []BobOutlivesAlice
<1>1. IInv => BobOutlivesAlice
  BY DEF IInv, Alive, Starts, BobOutlivesAlice, Strict
<1> QED BY <1>1, HarnessInvariant, PTL

\* The exit status of a strict run says whether the SSuT is good, provided that
\* a call of its test set takes no longer than the time-outs of functions allow.
THEOREM TruthTold == ASSUME LastsFit PROVE Spec => []RunTellsTruth
<1> DEFINE All == IInv /\ Intact /\ Clean /\ BlameFits
<1>1. Init => All
  BY InitTyped, InitAlive, InitLoops, InitMarks, InitClean DEF IInv
<1>2. All /\ [Next]_vars => All'
  <2> SUFFICES ASSUME All, [Next]_vars PROVE All'
    OBVIOUS
  <2>1. Typed' /\ Alive' /\ Tracked'
    BY TypedStep, AliveStep DEF IInv
  <2>2. Loops' /\ Starts'
    BY LoopsStep DEF IInv
  <2>3. Passed' /\ Marks' /\ GoodMeansGood'
    BY PassedStep, MarksStep, GoodStep DEF IInv
  <2>4. Intact'
    BY IntactStep DEF IInv
  <2>5. Clean'
    BY CleanStep DEF IInv
  <2>6. BlameFits'
    BY BlameStep DEF IInv
  <2> QED BY <2>1, <2>2, <2>3, <2>4, <2>5, <2>6 DEF IInv
<1>3. All => RunTellsTruth
  <2> SUFFICES ASSUME All, Strict, status \in {0, 1} PROVE RunTellsTruth
    BY DEF RunTellsTruth, Strict
  <2>1. DOMAIN proc = Procs
    BY DEF IInv, Typed
  <2>2. status = 0 =>
            /\ conf.fault \in {"none", "rtpp_crash", "mm_crash"}
            /\ \A p \in DOMAIN proc : proc[p].st # "up" /\ proc[p].rc = 0
    BY <2>1 DEF IInv, GoodMeansGood, Up
  <2>3. status = 1 => Guilty
    BY DEF BlameFits
  <2> HIDE DEF All
  <2> QED BY <2>2, <2>3 DEF RunTellsTruth, Guilty
<1> QED BY <1>1, <1>2, <1>3, PTL DEF Spec
=============================================================================
