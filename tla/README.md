# A TLA+ model of the VoIP integrated tests

The repository tests SIP servers. A calling process ("Alice") places some
hundred calls through a system under test (the SSuT: b2bua, kamailio, opensips,
siphon with an RTPproxy), an answering process ("Bob") takes them, and the exit
codes of the two decide whether the SSuT is good. The thing that can be wrong
here is therefore a *verdict*: a run that reports success for an SSuT that
failed, or a failure for one that did not. These modules model how the verdict
comes about, from the timers and callbacks of one call up to the exit status of
a process.

## The system

| Component | Source | State | Operations | Interacts with | Hard part | Correct when |
|---|---|---|---|---|---|---|
| Test core base | `lib/testcore_base.py` | `subtests_running`, `rval` | `subtest_done`, `timeout`, `recvRequest` (501) | called by subtests through `done_cb`, by ED2's timer | one counter is the only memory of failures | the counter is the number of subtests that did not pass |
| Alice's core | `lib/alice_testcore.py`, `alice_main.py` | the above, the schedule | `__init__` (schedule, shuffle, start), `_on_no_subtests_left` | starts subtests; exits with `rval` | completions, timer and late callbacks in any order | exit 0 iff every scheduled subtest passed |
| Bob's core | `lib/bob_testcore.py`, `bob_main.py` | the above | `recvRequest` with its seven outcomes, `timeout` | requests from the SSuT | does not know how many calls to expect; challenges and stranded subtests | exit 0 only if every subtest started has passed |
| One call | `test_cases/t1.py` .. `t14.py`, `inv_brkn1.py` | the flags `ring_done`, `connect_done`, `disconnect_done`, `nerrs`, `rval`; one pending `Timeout` each | `answer`, `ring`, `connect`, `disconnect`, `recvEvent`, `connected`, `disconnected`, `alldone` | user agents (sippy.UA), through them the SSuT | timers that outlive the call, crossing BYEs, media time-outs, random intervals | a correct SSuT always passes, a faulty one does not |
| CANCEL | `early_cancel*.py` | the same plus `acct` | `cancel` | | CANCEL at 0.01 s against 100, 180 and retransmissions | both sides see a call of no length |
| Re-INVITE | `reinvite.py`, `reinv_*.py`, `nated_contact.py` | `reinvite_done`, counters | `reinvite`, `process_reinvite` | | re-INVITE against BYE, polling for completion | the exchange happened as often as planned |
| RTP end point | `t1.py` 51-61, 97-263 | counters, end point, target | start, update, feed (a thread of its own), shut down | RTP worker threads | counters read while the worker writes | the report is of a stopped worker |
| Authentication | `lib/bob_testcore.py` 76-93, `t1.py` 408-426 | challenges, duplicated 401 | `transmitData` | client transactions | a 401 sent twice | one authenticated call per challenge |
| Configuration | `lib/test_config.py`, `lib/PortRange.py`, `lib/GenIPs.py` | options | option parsing, `fillhostport`, `checkhostport` | all of the above | a port Alice offers must never pass her own check | own SDP fails the check, rewritten SDP passes |
| Harness | `test_run.sh`, `functions` | processes, exit codes, `TEST_EPOCH` | start in order, wait, compare statistics, report | every process | deadlines of processes started at different times | the run succeeds iff every check does |
| Statistics | `rtpproxy.*.output` | expected counters | `diff` | RTPproxy | depend on test set, families and the moment of sampling | agree with the test set |
| SSuT scenarios | `scenarios/` | configurations of external programs | | | | |

External and modelled only from how `src/` uses them: the event dispatcher ED2
(delivers timers and callbacks; a loop that is being broken still delivers what
was due in the same round), `sippy.UA` (calls `conn_cbs`, `disc_cbs`,
`fail_cbs`, and `dead_cbs` at most `godead_timeout` = 10 s after the end;
ignores events once it has ended), and the SSuT.

## The modules

| Module | Models | Read it with |
|---|---|---|
| `TestcoreBase` | the counter, its update and the 8-bit exit status | `testcore_base.py` |
| `Verdict` | abstract: a process starts subtests, some pass, and success is reported only when all did | |
| `AliceCore` | the schedule, its start, completion, timer, exit | `alice_testcore.py` |
| `BobCore` | each branch of `recvRequest`, completion, timer, exit | `bob_testcore.py` |
| `Scenario` | what each class changes: intervals, events, guards, `alldone` | `t1.py` .. `t14.py`, `inv_brkn1.py` |
| `Call` | one call: both subtests, the SSuT, two FIFO channels, a clock | `t1.py` |
| `ReinviteScenario` | what each re-INVITE class changes | `reinv_*.py`, `nated_contact.py` |
| `Reinvite` | an established call with re-INVITEs: both sides, the SSuT, a clock of hundredths | `reinvite.py` |
| `Opening` | the first transactions of a call: challenge, CANCEL, loss, repetition | `bob_testcore.py`, `early_cancel*.py` |
| `TestConfig` | ports and addresses of an SDP, its check, the common options | `test_config.py`, `PortRange.py`, `GenIPs.py` |
| `RtpFeed` | the RTP end point of a subtest: main thread and output worker | `t1.py` 51-271 |
| `Harness` | a run of the script and the beginning of the next | `test_run.sh`, `functions` |
| `AliceCoreProofs`, `BobCoreProofs`, `CallProofs`, `RtpFeedProofs`, `OpeningProofs`, `HarnessProofs`, `ReinviteProofs`, `ReinviteCleanProofs` | theorems | |
| `MCAliceCore`, `MCBobCore`, `MCCall`, `MCReinvite`, `MCOpening`, `MCRtpFeed`, `MCHarness` | instances for TLC | |

`TestcoreBase` is extended by both cores, `Call`, `Reinvite` and `Opening`;
`TestConfig` by `RtpFeed`, which uses its ports, and by `Harness`, which uses its
options; `ReinviteScenario` is to `Reinvite` what `Scenario` is to `Call`.
`Harness` takes from `Call` and `Reinvite` how long a call may last.

**AliceCore.** `aRunning`, `aRval`, `aTimer` and `aBreak` are
`subtests_running`, `rval`, the `Timeout` and the loop flag of ED2; `aVerdict`
is the `rval` of each subtest object. `InitTest` is one turn of the loop at
`alice_testcore.py:111`, in any order because of `shuffle`; `SubtestDone(t, v)`
is `alldone` of subtest `t` down to `_on_no_subtests_left`, with the verdict `v`
left open (`Call` is about that). `Expire` does not disable `SubtestDone`:
`breakLoop` lets the callbacks that are due run.

**BobCore.** A request is an element of `Reqs`; which branch of `recvRequest` it
takes is open. `Answer` is the branch that creates a user agent, `Strand` the
two in which `answer` raises something other than `AuthRequired` (the subtest
stays in the list and in the counter and nobody will ever report for it),
`Challenge` the one that takes both back. `Expire` contains the adjustment of
`bob_testcore.py:161`.

**Scenario and Call.** A scenario class is its differences from `a_test1` and
`b_test1`; the operators of `Scenario` are indexed by the class. In `Call` each
side is a record of the flags of class `test`, the state of its user agent, one
pending timer and its verdict. The timers of a side are chained (`ring` arms
`connect`, `connect` arms `disconnect`), so one is enough. `Tick` advances the
clock by a second when nothing is due. Messages take between 0 and `MaxDelay`
seconds. The SSuT of `Call` is a back-to-back agent with the media time-outs of
RTPproxy (`-W 30 -T 45`, `functions:57`): the first applies while only one side
has given SDP, the second after that unless RTP flows. The constant `Faults`
lets it drop the call at any moment (`SsutHangup`; in leg "idle" this is a
refused INVITE) or forget to rewrite any SDP. A 100 of the SSuT's sets Alice's
`ring_done` as a 180 does (`t1.py:296`); it may be lost, so `AliceTrying` is a step
that need not happen, and no property depends on it. Three fields are history that the
code does not have: `ssut.gaveUp`, `ssut.forgot`, and `answered`, which records
that Bob's user agent really sent a final answer.

**Reinvite.** The mixin `test_reinvite` is the same code on both sides, so a
side is an element of the function `side` and an action has the side for a
parameter: `Reinvite(p)` is `reinvite()`, `Disconnect(p)` is `disconnect()`, with
an operator for each class that overrides them (`HoldReinvite`, `BrokenReinvite`,
`HastyReinvite`, `GiveUpOnAck`, `PollHolds`); `ReceiveReinvite`, `ReceiveOk`,
`ReceiveRefusal` and `ReceiveBye` are the branches of `recvEvent`, `OnFailed` and `AnsweredReinvite`
those parts of it that `a_test_reinv_fail` overrides. `timers` is a set here,
because a re-INVITE and a `disconnect` are pending at the same time. The model
begins when Bob rings; before that nothing differs from `Call`. `Hand` is
`ua.recvEvent()`: a user agent that has left the call drops the event, and the
history field `late` records it. The SSuT is correct or has one of seven faults.

**Opening.** Here a message is a datagram: the network is a set, copies overtake
each other, and `Lose` takes a few away. `Invite` is `recvRequest` of an INVITE
behind the transaction manager, which swallows repetitions; `FirstAnswer` is
`BobSTM.transmitData` with the second 401, and the 100 that
`complete_answer` of `early_cancel_lost100` makes disappear. `CutOffEarly` is the
judgement of `alldone` over `acct`, with `round(delay, 1)`. The SSuT's client
transaction is external: it repeats an INVITE after 0.5, 1, 2 s and holds a
CANCEL back until the INVITE has been heard of.

**TestConfig and RtpFeed.** `GenNotInRange` is the set of ports that
`gennotinrange()` can return, `CheckHostPort` is `checkhostport()`. In `RtpFeed`
the variable `main` is the program counter of the main thread from the first SDP to the
report and `worker` that of the output thread inside
`update_frm_ctrs` and `_rtp_feed_once`: asked (`drained`), past the test of
`_rtp_closing` (`feeding`), after `soundout()` (`fed`), after the increment
(`playing`). Each is a step of its own because no lock orders them against
`_rtp_closing = True`, `get_frm_ctrs()` and `shutdown()` in the main thread.

**Harness.** `pc` is the place in `test_run.sh`, `wake` the end of a `sleep` or
of `sleep_until`, `epoch` is `TEST_EPOCH`, `turns` the counter of a wait loop and
in `Report` the number of the check. `ReportRc` is `report_rc` with `fail_rc`,
so that `CONTINUE` and `INTERACTIVE` are alternatives of every check. Command
lines are sequences of options that `TestConfig` takes apart as
`test_config.__init__` does. A process is a record of when it was started, when
its timer goes off and its exit code; the exit codes of Alice and Bob follow
from whether their calls fit into the time, the SSuT was there, and a test
failed. `NextRun` is the loop over the pid files at the beginning of the script.
The start of Bob, of the SSuT and of Alice and the line that writes the pid file
are steps of their own (`StartBob` and `BobStarted`, `StartMm` and `MmStarted`,
`StartAlice` and `AliceStarted`), since the script may be aborted between the two.

## The runs

| Run | Question | Bounds |
|---|---|---|
| `alice_core` | does the exit status tell the truth? | one known scenario and one unknown name, two families, both media modes: four subtests |
| `bob_core` | the same for Bob | three requests, symmetric |
| `call_clean` | does a correct SSuT always pass, in time? | ten classes (the compact twins t6-t10 behave as t1-t5), both media modes, 8, 10, 13 s to answer, 4, 9, 14 s to hang up, delay up to 1 s |
| `call_faults` | are verdicts final, is an abandoned ring or a raw SDP noticed? | every class but t3, one draw of each interval, hang-up at any moment, any subset of SDPs raw |
| `call_post_ring` | the same for t3: **violated** | |
| `call_pre_ring` | does Alice verify a rejection? **violated** | class t4 |
| `reinvite` | are re-INVITEs judged rightly, in time, and is nothing sent into a dead call? | nine classes, messages of 0 or 0.6 s, draws of 0.1 and 0.12 s for the holds; the correct SSuT with every class, each fault with the classes whose outcome it can change |
| `reinvite_contact` | is the Contact verified? **violated** | class `nated_contact` |
| `reinvite_rewrite` | is the SDP of a re-INVITE checked? **violated** | `reinvite` and `reinv_frombob` |
| `opening` | one subtest per call, and the right verdict on a CANCEL? | both CANCEL classes and an authenticated call, datagrams of 0, 0.09, 0.18 s, one loss, four tries |
| `rtp_feed` | is the report final, and does the SDP check tell a rewrite? | three chunks, two updates, three port ranges with ports at and beside their ends, exceptions in `soundout` and `shutdown` |
| `harness` | does the exit status tell the truth? | five kinds of SSuT, RTPproxy separate or inside, RTPproxy ready after 0, 6, 7 s and the SSuT after 0, 5, 6 s, nine faults, three modes of `fail_rc` |

Four subtests for Alice give two passed, one failed and one left over at the
same time; three requests give Bob one that passes, one that is stranded or
challenged and one that arrives around his timer. The proofs remove these
bounds. In `Call` the intervals are the ends and a middle of the random ranges;
9 is there because Alice also hangs up 9 s after the answer, so the BYEs cross.
`Horizon` = 80 s is beyond `NO_MEDIA_TIMEOUT` = 75 s. Deadlock checking is off
because all of these systems stop.

In `Reinvite` a message of 0.6 s makes the five exchanges of `reinv_onhold`
outlast Alice's 9 s, so that `disconnect()` has to poll; with 0 s everything
happens in one instant and every order is tried. In `Opening` three hops of
0.18 s bring the CANCEL of `early_cancel_lost100` to Bob 1.04 s after the
INVITE, which still rounds to 1.0. With a datagram lost, an early CANCEL may
rightly be judged late: `EventuallyRight` then asks for Bob's report and Alice's
verdict, and for the right one of Bob only in the authenticated call. In
`RtpFeed` the third chunk is there so that one is played, one is queued and one
is on its way when the end point closes. In `Harness` the longest call of each test is 29 s, 32 s (t11, t12) or
50 s (t13, t14, `reinv_bad_ack`), which is what `Call` and `Reinvite` show plus a
second or two; readiness of 6 and 7 s is on either side of the loop that waits
for RTPproxy, 5 and 6 s of the one that waits for b2bua. Commands that only
compute take no time, and a run has one fault.

What the properties are about:

* `ExitTellsTruth`, `HappyMeansAllPassed`, `NoFalseAlarm` (Bob): the counter
  neither hides nor invents a failure.
* `NoEarlyExit`, `WaitsForTheTimer`: who may leave when.
* `Promise`: both cores implement `Verdict` under a refinement mapping.
* `NoFalseAlarm` (Call), `InTime`, `EventuallyReported`: a correct SSuT is never
  blamed, within the time-outs of `functions`.
* `MediaTimeoutsOnTime`: the moments the comments of t12 and t13 name.
* `VerdictStands`, `PassMeansAnswered`, `RewriteChecked`: what a passing pair of
  verdicts is worth when the SSuT misbehaves.
* `NoFalseAlarm`, `InTime`, `EventuallyReported` (Reinvite): the same as in
  `Call`, now with polling, late answers and hang-ups between two re-INVITEs.
* `DelayedAnswerNeverPasses`: the class `reinv_adelay` fails by construction,
  unless the SSuT answers the re-INVITE itself; no `TEST_SET` contains it.
* `HoldsSeen`, `WrongAnswerNoticed`, `BadAckNoticed`: what the counters, the
  inverted `recvEvent` of `reinv_fail` and the early end of `reinv_bad_ack` are
  worth against an SSuT that swallows, answers or tolerates.
* `NothingToTheDead`: of the many timers of a re-INVITE class none hands an
  event to a user agent that has left; the exception is Bob's `_process_reinvite`
  of `reinv_adelay`, which has no guard.
* `OneSubtestPerCall`, `EventuallyRight`: over a bad network.
* `ReportAddsUp`: the comment at `t1.py:161`, that the worker is joined before the
  report, holds unless `shutdown()` raises; `CheckTellsRewritten` is why an
  unchanged SDP is always noticed where it is checked.
* `RunTellsTruth`, `BobOutlivesAlice`: the time-outs of `functions`, the
  intervals of `test_run.sh` and the exit codes fit together for every SSuT.
* `LeftoversStopped`: what an interrupted or failed run leaves for the next one,
  wherever it was aborted. Besides the statistics it is one program at most: the one
  that was up and had no pid file yet.
* `EventuallyEnds`: no wait of the script is for ever.

### What the violated runs show

1. `t3.py:45` tests `connect_done` twice and never `disconnect_done`. If the SSuT
   abandons the call while Bob rings, Bob's `connect` timer still fires, sets
   `connect_done`, and when the user agent dies a moment later the inherited
   `alldone` is content. Alice is content as well (next item). `t5`, with the
   right guard, catches the same SSuT.
2. `a_test3.alldone` (`t3.py:35`) accepts any end of the call. An SSuT that
   refuses the INVITE itself passes t3, t4 and t5 on Alice's side, and Bob, who
   never saw it, has nothing to report. `README.md:17-20` promises more. (The
   statistics of RTPproxy, compared at the end of `test_run.sh`, may still
   notice.)
3. Alice of `nated_contact` compares the R-URI of the re-INVITE with her Contact
   in `on_reinvite_connected`, which only the *sender* of a re-INVITE is given.
   She is the receiver: the comparison never runs.
4. A `CCEventUpdate` is answered without a look at its SDP (`reinvite.py:72-79`),
   and Bob does not look at that of the answer to his own re-INVITE either
   (`t1.py:483`). Only Alice, as the sender, checks (`WrongAnswerNoticed`).

Other things met on the way, on which no property rests: t14 is called a
two-minute call and `-T 45` ends it after about 48 s. `nupdates` is counted and
never looked at, so an SSuT that answers a re-INVITE itself passes `reinvite`.
The classes that want a refusal are content with a hang-up too. Without media,
`reinv_bad_ack` passes by the 45 s of RTPproxy instead of by the missing ACK.
Alice of `early_cancel` passes if the SSuT refuses the INVITE, since she only
sees that the call was short. `gennotinrange` never comes back from a range that
holds every port. With `CONTINUE` the script exits with 0 whatever failed.
`forcefail` (`functions:135`) would try to run the command `0=1`, but nobody
calls it. An interrupted run leaves its statistics job, which has no pid file
and may append to the `rtpproxy.stats` of the next run. An SSuT that was not ready
in time is not found either, nor is a Bob, an Alice or an SSuT if the script was
aborted after it was started and before its number was written down
(`test_run.sh:313-315` for Bob). The pid file of an SSuT that ended long ago is
found, because nobody removes it. `MM_INIT_DELAY` counts from before RTPproxy was
started, so a slow RTPproxy uses up the time of the SSuT.

## Fairness

The cores assume weak fairness of the timer, of the exit of a broken loop and,
for Alice, of the straight-line constructor: ED2 delivers a due timer. Nothing
is assumed of the subtests, so termination holds although no call may ever
end. `Call` assumes weak fairness of everything except the fault: the
dispatcher delivers, the network delivers within `MaxDelay` (SIP retransmits),
and time goes on. `Reinvite`, `Opening` and `Harness` assume the same of their
`Progress`: time only jumps to what is due next, and what is due happens. No
fairness is assumed of `SsutHangup`, `Lose`, `Crash`, `Interrupt` and `NextRun`:
they may happen and need not. `RtpFeed` has weak fairness of each of the two
threads, which the operating system schedules, and none of `ShutdownRaises`.

## The proofs

`AliceCoreProofs` and `BobCoreProofs` prove an inductive invariant `IInv` and from
it the safety properties and the refinement of `Verdict`. The arithmetic under them:
the number of members of a finite set that have not passed falls by one when one
passes and rises by one when one is started, and is zero only when all passed.

The safety properties are not inductive: that the exit status is zero says
nothing about the step before it. For Alice the strengthening is
`aRval = Cardinality(Tests \ Passed)` after the constructor, with
`aRunning \cap Passed = {}` so that a report is always of a subtest that has not
been counted. For Bob it is `bRval = left + 1` while the timer is armed and
`bRval \in {left, left + 1}` after it, `left` being the number of started
subtests that did not pass; both values are possible afterwards, because the
last callbacks may come before or after `timeout()` has taken the 1 away. That
is why a Bob whose last call passes in the round of his timer is unhappy, and
why the converse of `HappyMeansAllPassed` is not a theorem.

Assumptions: the schedule is finite and smaller than 256 (26 classes, two
slots and two modes make at most 104); Bob gets fewer than 255 requests.

`CallProofs` proves, for every set of scenarios without t3 and t8, every
interval, delay, time-out and fault, what the two verdicts are worth. A verdict
stands (`VerdictStands`): the invariant `IInv` says of each side that an ended
call has `disconnect_done` and that only a dead user agent has reported, and
reported what its flags justify. For it to survive Bob's `answer`, one needs that
a call under way is never offered again: the one INVITE is first in the queue,
Bob's subtest has not begun while it is there, no timer of his runs before it,
and a session that has begun does not go back to `idle`. The proof has a lemma
for each action; it would fail at `connect` of t3 (`BobConnectKeeps`), which is
finding 1.

A second invariant on top of it, `Noticed`, gives `PassMeansAnswered` and
`RewriteChecked`. Bob sets `connect_done` together with a final answer, so a Bob
who passes a class that answers has given one (`BobAnswers`). An SDP that the SSuT
forgot to rewrite is in Bob's INVITE, has stranded him, is on its way to Alice or
has been counted in her `nerrs` (`ForgottenShows`). That it is counted once it is
on its way to her needs her to be listening still: she is `calling` while an SDP as
it was is in her queue, and no answer and no end is before it (`BadIsHeard`),
because the SSuT relays in order, and the session is up or over as soon as it has
sent either (`AliceWaits`). Bob, whom such an offer strands, never reports at all.

The third part of `CallProofs` is about a correct SSuT (`CleanRun`) and every set of
scenarios, t3 and t8 included: it is never blamed (`NoFalseAlarm`), no subtest is
late (`InTime`), the media time-outs strike when the tests say (`MediaTimeoutsOnTime`),
and `TypeOK`. These are statements about sums of intervals, so the invariant `Course`
follows the call through six stages: `Placed`, `Offered` (the INVITE is on its
way), `Alerted` (Bob is about to ring), `Ringing`, `Talking` and `Closing`. Each stage
says which flags each side has, which callback is scheduled and when, relative to
the last message RTPproxy saw, and which message is still on its way; `Fetched` and
`Minded` say that nothing is overdue. In `Closing` either side may go first, so it
says what each is still owed (`BobCloses`, `AliceCloses`) and by when it must be told
(`Told`) and has left (`Leaves`). `CleanRun` has three hypotheses. The SSuT makes none
of the `Faults`. RTPproxy has the 30 s and 45 s of `functions`, since t11 to t13
expect these. A message takes a second at most, so that one is on its way in each
direction at a time: with two seconds the 183 and the 200 of t14 may both be, and
`Course` is false, though in the instances TLC could try the four properties
still hold.

`RtpFeedProofs` proves, for any number of chunks and updates and with exceptions
in `soundout()` and `shutdown()`, that the printed report is of a worker that is
gone and at most one chunk off the sample (`ReportAddsUp`). That is not
inductive: the sample is taken while the worker may be anywhere in
`_rtp_feed_once`. The strengthening keeps the worker's books (`Books`: received
is counted plus the one chunk between `soundout()` and the increment) and, from
the sample on, bounds the drift of the counter by the place the worker is in
(`Drift`: not yet counted, 0 or -1 in `fed`; 0 in `feeding`; 0 or 1 after it).
A drained worker does not ask again because `_rtp_closing` was set first; if
`done()` sampled before it set the flag, `Drift` would not hold.
Assumed are counters that start at zero and a range of `-p` with its lower end
first (`RangesAssumption`; `PortRange` does not check it).
The module also proves `CheckTellsRewritten` for every port range whose ends are
in order and every address: no drawn port is one that `isinrange()` accepts.

`OpeningProofs` proves, for every delay, number of losses and of repetitions, that
a call makes one subtest of Bob's and costs one count of `rval`
(`OneSubtestPerCall`), and `TypeOK`, by which there is never a third transaction.
The invariant says which INVITE makes the subtest (`TheBranch`: the first of an
early CANCEL, the second of an authenticated call), that a branch is challenged
exactly when its INVITE has no credentials (`Branches`), that the second begins
only after a challenge of the first (`SecondTry`), and that what is in the network
is about a transaction that exists (`Truthful`). Since the network is a set, a
copy of the 401 that comes late is covered by the last one.

`HarnessProofs` proves the three safety properties of `test_run.sh` and its type
invariant, for every kind of SSuT, every readiness and every fault. The invariant
goes along the script: who is alive at which line (`Alive`) and has a pid file
there or is the one that has none yet (`Tracked`), what the counter of a wait loop says of the clock (`Loops`),
when the processes were started relative to Bob (`Starts`), which faults a strict
run has survived by then (`Passed`) and which have left a mark (`Marks`).
`LeftoversStopped` and `BobOutlivesAlice` follow for every table `Lasts` of how
long a call takes. So does the half of `RunTellsTruth` by which an exit status of
0 means a good run; the other half, that a failure is somebody's fault, assumes
`LastsFit`: a call of the test set is over before the statistics are compared and
dead, 10 s later, before the time-out. `Call` and `Reinvite` show that of the
real table.

`ReinviteProofs` is about every class, every fault, every set of delays and draws.
Parts of its invariant describe the call as such: nothing is overdue and a queue is
in order (`Punctual`); a side that has left, or will hear that it must, is known
to the SSuT (`Knows`); Bob of `reinv_adelay` alone takes time over an answer
(`Prompt`), which is `NothingToTheDead`; one side sends the re-INVITEs, and one is
under way at most, in one of four places: a timer, a request, a pending
`_process_reinvite`, an answer (`OneAtATime`). The others belong to a class.
`Counted` keeps the tallies of `reinv_onhold` in step, Bob's behind Alice's by the
re-INVITE under way; with it two sides that pass have seen three holds and two
off-holds (`HoldsSeen`). `Caught` is where an answer that should not be is: in
`nerrs`, in Alice's queue with nothing before it that ends her wait, or too late
for her to get done (`WrongAnswerNoticed`). `Hasty` puts Alice's `disconnect` of
`reinv_adelay` before any answer of Bob's (`DelayedAnswerNeverPasses`). The proof
of this one did not go through as the property first stood: an SSuT that answers
the re-INVITE itself is fast enough, so the property now excludes it and the run
has the class with the faults that remain. `Patient` orders the hang-ups of
`reinv_bad_ack` (`BadAckNoticed`). That theorem assumes `HeardInTime`: a message
takes less than the 10 s by which Bob waits longer than Alice; with slower ones
Bob may end the call first, and the property is false.

Two more invariants stand on that one. `Ending` leads to `InTime`: Bob's `connect`
and then his `disconnect` are ahead of the clock (`BobsTimers`), so that the SSuT
knows of the end by then; whoever has not left has a BYE on its way (`Heeded`); and
a user agent that has left reports within `GoDeadTimeout` (`Reported`). The theorem
assumes that a message takes 3 s at most: in `reinv_bad_ack` Bob answers after 11 s
and hangs up after 50 s, which with those 3 s and the 10 s of the report is the
whole of `BOB_TIMEOUT`, to the hundredth. `Bounded` leads to `TypeOK` without any
assumption: the side that only answers counts no error (`Faultless`); the other
counts none while it has something to send or waits for an answer, two at most
before it leaves and two more as it leaves (`Errors`); in `reinv_bad_ack`, where
giving up is an error as well, it is refused nothing before it hears the BYE
(`BadAsks`, `AfterBye`, `BadErrors`); the holds of the two sides bound each other
(`Holding`).

`ReinviteCleanProofs` is about a correct SSuT: its invariant `Blameless` leads to
`NoFalseAlarm` of `Reinvite`. `Course` of `Call` names stages; here the four places of
`OneAtATime` are the stages already, and `Smooth` says what holds in each. Something
is to come until all is done (`Stage`), the call ends when all is done or as it is
refused (`Settled`), and every re-INVITE is answered as its class wants
(`Refusing`, `Proper`). What is to come fits in before every hang-up (`Timely`):
`Room` is the time left and `Spare` what the rest of the call takes, 2.17 s for each
interval that Alice of `reinv_onhold` has still to wait (two messages of 0.99 s and
a draw of 0.19 s at most, because four draws of 0.1 s or more add up to less than
0.5 s, `ShortDraws`), and 32.99 s in `reinv_bad_ack` for the SSuT to give up
(`AckDue`). `Rung` puts Bob's answer before all this, `Counting` says that Alice
leaves no hold out, and `Following` that Bob hears of each before he hears of the
end. The theorem assumes that a message takes less than a second. That is all there
is: Alice asks 7 s after `connected()` and hangs up after 9 s, so that a re-INVITE
and its answer of 1 s each would be a tie with her `disconnect`.

Assumptions on constants are those of the modules (delays and losses are natural
numbers, the classes are those of the source) and the ones named above.

Model-checked only: termination, `EventuallyReported`, `EventuallyRight` and
`EventuallyEnds` (liveness); `TypeOK` of `Call` for an SSuT that errs. Most
inductive invariants are proved and not checked by a run, since the proof covers
the instances.

## Not modelled, and the plan

Worth doing next: `Course` for messages that take longer; then `Suite`, both cores
with abstract calls, both refining one `Verdict`.

Not modelled: the text of the expected statistics and the first of the two
samples, which b2bua takes after 44 s (fixed numbers about an external program);
the generation of the SSuT's configuration; credentials files, next hops and the
wait of `-w` in `test_config.py`; codec and packet time of the RTP end point and
its receiving half, which only counts; `gen_bye` and `gen_cancel` of
`reinv_adelay`, which are never called; the 501 to unknown requests.

Left out for good: the wire format (compact headers, wording of the SDP),
logging, `sleep_abs_mono` (a loop around a system call), `contrib/objgraph.py`
(vendored), packaging and CI.
