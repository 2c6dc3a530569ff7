# wsnp-sfds: a verification development

TLA+ models of the SYN-flood detector built as a weighted spiking neural P system, the engine that
runs it, and the pipeline around it, with TLC configurations and TLAPS proofs. All paths below are
relative to the repository (`src/` here).

## 1. The system

| Component | State | Operations | Hard behaviour |
|---|---|---|---|
| SN P rules `snp_engine/rule.py` | immutable | parse, match, outcome | the guard's bound: exact or at least |
| Engine `snp_engine/{neuron,system,main}.py` | per neuron: spikes, mailbox, delays, rule fired; per system: history | constructor tick, `simulate_step`, halting check, two endpoints | order of activation inside a tick, mail seen in the tick it is sent, halting |
| Builder `per_source_builder.py`, `rulemaker.py` | none | `build_system` | offsets that keep a counter natural, list order, one vote a feature |
| Windowing `packet_encoding/data_preprocessor.py` | windows, window end, pending handshakes | `add_packet`, `_soft_limit`, `export_csv` | boundary, grace, cap |
| Encoder `packet_encoding/packet_encoder.py` | none | device discovery, one line per window and device | a line's meaning is its place |
| Simulator and analyzer `simulator.py`, `analyzer.py` | window files, one thread a group, history files, verdict | preprocess, post, retry, join, score | concurrent threads, lost and half-written histories, requests never answered, reruns into one directory |
| Sweep `n_simulator.py` | output files, batches of threads, summaries | `_simulate_feature`, `_get_summary`, `_make_plots` | batches started a turn late, outputs of an earlier sweep |
| Verification `verify.py` | engine process, port, pass count, one output directory a scenario | start and await the engine, run scenarios, stop it | a port taken in between, readiness by any answer, an engine that dies |
| Generator `traffic_generation/attacker/` | next send, thread pool, counters | pacing loop, handshakes off it, teardown | falling behind, a pool that drains late |
| Victim `traffic_generation/victim/` | the bound port; stored packets | accept; sniff for a duration, save | slow starts, death unnoticed |
| Scenario runner `traffic_generation/scenario_runner.py` | its children | capture, streams and server, one scenario after the other | processes timed by sleeps, Ctrl-C |
| Oracle `analysis/inspect_capture.py` | none | peaks per fixed window | its grid is not the detector's |
| Exporters `websnapse_export.py`, `dump_system.py`; logger | none | rewriting, printing | none |

A capture is windowed, exported, encoded into one line of symbols per window and device, grouped
into one request per window, and posted to the engine by one thread per group. The engine builds the
posted system, ticks it until it halts and answers with a snapshot per tick. The simulator writes the
snapshots to a history file, and the analyzer marks a feature if its neuron fired in any row of any
history. The sweep runs all of this for every threshold of every feature, the verification script for
every scenario against an engine it starts itself. The captures come from the traffic lab: the runner
starts a server, and for each scenario a capture and one generator a stream.

What makes each part correct: the engine keeps natural counts, halts, and answers; the detector says
exactly what the counts of a window deserve, in whatever order the packets came, and votes once a
feature; windowing loses and reorders nothing and bounds every window; encoding and grouping put
every window and device in its place; the verdict of a run is made of this run's groups; the sweep
counts this sweep's outputs; a pass of the verification is earned; a capture holds the traffic of its
own scenario, at the rate its label says, and nothing of the lab is left running.

## 2. The modules

| Module | Models | State and actions |
|---|---|---|
| `Rule` | `Rule` objects | a guard is a bound and whether it is exact; `Matches`, `Consumed` |
| `RuleMaker` | `rulemaker.py` | one operator per generated rule |
| `PerSourceBuilder` | `build_system` | names, order, contents, rules and weights for any `n` and thresholds |
| `SNPSystem` | one request in the engine, for any posted system | variables are the fields of the neurons; `BeginTick`, one step per neuron (`Replay`, `Record`, `Rest`, `Fire`), `EndTick`, `Answer` |
| `Detector` | the built network, a whole tick a step | spikes per counter, detector, flag, vote; `Tick`, `NegativeSpikes`, `Halt` |
| `EngineDetector` | `SNPSystem` on `PerSourceBuilder` | the refinement mapping from engine to `Detector` is read off the history row |
| `Windowing` | `DataPreprocessor`, `WindowedPackets` | `Add` and `OpenNext`, each a row offered |
| `Encoder` | `PacketEncoder` | `_symbol`, `_discover_devices`, `encode_packets`; sorted devices and the packets of one are the places of a set of numbers taken `InOrder` |
| `Simulator` | `SNPSimulator`, `Analyzer`, run after run | main thread `Preprocess`, `Start`, `StartRaises`, `Join`, then the analyzer `List`, `Read`, `ReadRaises`, `Score`; thread k `Write`, `Save`, `Fail`, `Hang`, `Retry`; `Rerun` |
| `Sweep` | `NSimulator` | feature threads `Make`, `Launch`; runs `Score`, `Raise`; summaries `Read`, `RunInLine`, `RunInLineRaises`, `Sum`; `WriteResults` |
| `Metrics` | the matrix and metrics of `_get_summary` | operators, extended by `Sweep` |
| `RatioBase` | `_compute_ratio_base` | a recursive function; `detector` and `engine` take their base from it |
| `Verify` | `verify.py` | its main thread from `FreePort` to `Report`; a window's `Save`, `Cut`, `Lose`, `Hang`, or `NotJoined`; around it `Bind`, `Die`, `OtherBinds` |
| `TrafficGenerator` | one generator process a stream | the loop `Begin`, `Submit`, `EmitSyn`, `EmitRaises`, `LeaveLoop`; the pool `Connect`, `Complete`, `Fail`; `Teardown`, `Exit` |
| `PacketCapture` | one capture process a scenario | `Popen`, `BeginSniff`, `Sniff`, `EndSniff`, `Save`, `Die`, `Interrupted` |
| `ScenarioRunner` | the runner, composing the two with the server | main thread `StartServer` to `RunnerExits`, stream threads `Launch`, `Interrupt`; a clock, `Tick` |
| `PacketFields` | the readings of a packet's flags: capture, windowing, encoder | operators over sets of flags |
| `Oracle` | the oracle's rate prediction | operators over `Windowing`'s state |
| `Websnapse` | `to_websnapse` | operators over `PerSourceBuilder` |
| `DetectorProofs`, `EngineProofs`, `WindowingProofs`, `SimulatorProofs`, `SweepProofs`, `VerifyProofs`, `ScenarioRunnerProofs`, `WebsnapseProofs` | | theorems about the module each is named after; `EngineProofs` about `EngineDetector`, `WindowingProofs` about `Oracle` too |
| `MC*` | | values for TLC |

`Detector` is the abstract specification of the engine on this network. `SNPSystem` is neuron by
neuron because what a neuron does depends on who has written to its mailbox before its turn; all
synapses of the built network lead forward in list order, so one tick has one outcome, and that is
what `ImplementsDetector` says: TLC checks it on two sources, and `EngineProofs` proves it for any
number. What is proved of the verdicts is then proved of the smaller specification, and holds of the
engine's answers.

Abstractions. Spikes are numbers, not strings. Guards are the two shapes the rule maker writes; the
rule grammar, the text of the rules and the run-length display are left out. A delayed production is
kept as the set of its delays, because the code stores it and never releases it. A history is the
last row, plus the set of neurons some row shows firing (what the analyzer reads). A captured row is
its timestamp, kind and handshake in `Windowing`, and its device, direction, flags and spoofing in
`Encoder`. In `Simulator` the engine's answer is the constant operator `Answer`, from a group to the
features its history marks; what that answer is, is the subject of `Detector`. A history file is the
run that opened it last, the features its rows mark, and whether it stops within a row; the export of
windows and the encoding are one step, `Preprocess`, and a run may be killed at any moment after it.
A cut row whose missing columns come after `RateDetector` may mark rate before the exception; nothing
of such a file is scored, so it is taken to mark nothing. One run of the simulator is one step of
`Sweep`, and in `Verify` it is what becomes of each window: saved, cut short, lost, or never
answered. In the lab time is in ticks, and a packet is the stream it comes from;
`PacketCapture` is told the time by `ScenarioRunner`, whose `Sending` ties a generator's step to the
capture. A loop turn takes no time of its own; a slow one is a late one.

## 3. The runs

| Run | Instance | Shows |
|---|---|---|
| `engine` | two sources, up to two packets each and three in all, plus a window over the limit; both endpoints | the engine implements `Detector` tick by tick, errors included; at most one rule applies; no mail crosses a tick; a halt leaves no work; every request is answered |
| `detector` | two sources, every window of up to three packets each, plus windows over the limit | the ratio ledger; the ratio, rate, pattern and alarm verdicts are the counts; one vote a feature; no failure within the limit; every window answered |
| `windowing` | up to four rows of two handshakes, times up to three widths, grace 1, cap 3 | nothing is lost or moved; bounds on time and packets; no early close; a handshake whose SYN-ACK is in keeps its ACK if it comes within the grace; a grid cell and a window overlap little enough that the oracle's rate and the detector's are within a factor of each other |
| `simulator` | two inputs, two runs of five captures of one or two windows | a group is a window; every packet to the target is posted once, as its symbol; what a verdict is made of after failures, and after a rerun; which features of an earlier run may be in it, and from where; every run ends, unless it waits for a request never answered |
| `sweep` | two features, two thresholds, two captures, any earlier coverage | an output that was counted does not change; where an old output may be counted; the sweep ends, with complete results or an exception |
| `lab` | two scenarios, of a normal and a spoofed stream and of a longer flood; one worker; loops up to three ticks late, captures up to two slow | a stream never bursts by more than two; the summary accounts for every attempt; captures are of one scenario; what a capture misses is late, by how much; the run ends with nothing left running |
| `verify` | five scenarios: none expected, an older capture beside, no capture, one feature, two and the alarm; three probes; two engines that differ | exit code 0 is earned; it ends with a code and no engine, unless it waits for requests never answered |
| `threshold_one` (violation) | pattern threshold 1 | two spoofed SYNs in one tick are not reported |
| `late_inhibition` (violation) | a two-neuron network with a negative synapse | halting with undelivered negative mail |
| `handshake_in_flight` (violation) | as `windowing` | a SYN-ACK at the boundary does not keep its handshake whole |
| `histories_fetched` (violation) | one run | "Successfully fetch all histories." after a group was given up |
| `whole_range` (violation) | one feature, three thresholds | the last threshold's batch is never started |

Bounds and why they suffice. With thresholds of two and three and up to six packets, every detector
fires, the pattern detector and RatioOR fire again after their flag is spent (RatioOR with no other
feature, so a second vote of its own would raise the alarm), two sources' spikes meet in a tick and
miss each other, and the ratio test is met with equality; a window of one packet more than `H`
reaches the negative-spike error. Sources are alike, so the engine run takes the first as the
longer. Two pending handshakes, a width of two and a grace of one reach every comparison at, before
and after its boundary, and the cap. Two runs are the shortest history with leftovers; two groups
the smallest with two threads; a capture of one device leaves the last group short of lines, which
is padded. Two captures make a batch with two threads, and two thresholds one that is launched and
one that is not. In the lab a lag of three at an interval of one is past the drift guard; one worker
makes the second handshake queue; a capture that may need two ticks where the lead-in is one can
miss the first packets, and a margin of two a late one. In `verify` the stranger's answers differ
from the engine's both ways, so taking it for the engine may make a scenario fail, and one scenario
expects what an earlier one found, so a shared directory would pass it. In `simulator` the
window of spoofed SYNs is marked with a feature no other one is, so a leftover of it is told from
what a capture without it shows.

Fairness. One request runs in one thread to its end, so the engine and the detector have weak
fairness on their next step. In `Simulator` the main thread and the posting threads are scheduled. A
posted request is answered, fails, or is never answered (`Hang`): `requests.post` has no timeout, so
nothing ends that wait, and `EveryRunEnds` names it as the only one that may last. A `start()` that
raises is one of the main thread's steps, and nothing makes it happen; nor does anybody have to run
the program again. `Sweep` has weak fairness on its next step: all its threads are scheduled and each
run ends, with a result or by raising, so `SweepEnds` is under the assumption that the engine leaves
no request unanswered. `Windowing` has no liveness property: a capture may end anywhere. `ScenarioRunner` has weak
fairness on `Step`, which is every process's own progress and the clock; the server's binding, the
deaths and Ctrl-C are outside it, because nothing makes them happen. `Verify` has it on its main
thread, exceptions and a thread that cannot be started left out: the timeout ends each readiness
probe, a posted window is saved, cut, lost or never answered, and `Bind` need never happen.

## 4. What the counterexamples mean

- `threshold_one`: `rulemaker.py` writes the bound only for thresholds above one. The same holds of
  the velocity and decision rules, which is why `AggregateVerdicts` and `AlarmVerdict` assume
  thresholds above one. The default thresholds are; the pattern sweep starts at one.
- `late_inhibition`: no network the builder makes has a backward synapse, so `HaltedIsQuiescent`
  holds in `engine` and fails only for posted systems of other shapes.
- `handshake_in_flight`: what keeps a window open is a SYN-ACK in it, not a SYN; `HandshakeKept`
  states what does hold.
- `histories_fetched`: the verdict is then the features of the groups that were fetched
  (`FirstVerdict`), and nothing in the result file says so.
- `whole_range`: in a new directory the summary fills the gap in line, one run at a time; in an old
  one it counts the earlier sweep's output (`OldOnlyWhereNotRun` says where).

Three things the runs say are weaker than one might read into the code. `PassEarned` asks evidence
only for the features a scenario expects: one that expects none passes when all its windows were
lost. It counts the answers of whoever holds the port, too: that these are the private engine's, so
that "the verification always runs against the current code" (`verify.py`'s docstring), is true only
if nobody takes the port between its release and the engine's binding, a race `free_port` calls
negligible. `MissedOnlyLate` gives the capture's tail `margin - lead_in` and not the "extra capture
seconds after the streams finish" of `traffic_generation/README.md`, since its clock starts first;
with the defaults of 8 and 5 seconds that leaves three, more than the two of a handshake's timeout
but less than a queue of them behind the pool's workers may take. And the summaries of
`--skip-simulation`, which its help says "only summarise existing outputs", run what is missing
(`RunInLine`).

`RerunVerdict` needs its assumption: a rerun into a directory whose earlier run had more windows or
groups encodes and scores what is left of them. `StaleOnlyLeftOver` drops it, lets any group fail and
the earlier run be killed, and says what an earlier run can then add to a verdict: the features of a
window file past the capture's last one, which is encoded and posted again, and those of a history
this run never opened, because it could not fetch the group or has no such group.

A history that stops within a row, because its write failed or its run was killed, is a `TypeError` in
`_check_feature`: the run ends by it, with no verdict of its own and an earlier run's result file as
it was (`ReadRaises`, the second case of `EveryRunEnds`). When a `start()` raises, the handler around
the joins goes on to the scoring while the threads already started still write (`StartRaises`); the
bound from above of `FirstVerdict` holds then, the one from below does not.

## 5. The proofs

`DetectorProofs` proves, for every number of sources, every ratio below the base, every limit,
threshold and weight, and every set of well-formed streams:

- `TypeCorrect`, with the bound of three on a flag;
- `VotesOnce`: a spent flag never reaches its firing count again;
- `WindowsNeverFail`: within the limit no neuron goes below zero;
- `RatioIsLedgered`: a ratio detector holds exactly its balance until its end marker is counted;
- `RatioVerdictIsExact`: at a halt the ratio feature is marked if and only if some source has
  `(base - ratio) * SYNs > ratio * ACKs`.

Assumptions: `BuilderAssumption` (positive counts and thresholds, `ratio < base`) and
`StreamsAssumption` (symbols 1 to 5, the 5 last and only there, as the encoder writes them).

The verdict is not inductive. What is, is `RatioInv`: the type invariant; that the counters hold the
last symbol sent (`HeldIsLastSent`); the ledger itself, which says what each detector holds as a
function of how many symbols have passed; that a spike in `RatioOR` or a ratio mark comes from a
source that exceeds the ratio (`OrIsSound`); that a halted network is idle; and that it has not
failed. The step through a tick rests on arithmetic lemmas: one more symbol changes a count by zero
or one (`CountStep`) and so the balance by what its counter sends (`BalanceStep`); a source's SYNs
and ACKs together are at most the symbols passed (`CountBounds`, `CountWhole`); and so the balance is
never negative, never at `base * H + 1` before the end marker, and after it exactly when the ratio is
exceeded (`OffsetArithmetic`, `BalanceBounds`).

The other verdicts need more, under the same assumptions:

- `AggregateVerdictsAreExact`: at a halt the rate feature is marked if and only if the sources hold
  the limit of SYNs between them, and the pattern feature likewise;
- `AlarmVerdictIsExact`: at a halt the alarm is marked if and only if the weights of the features
  the window deserves reach its threshold.

`AggregateVerdictsAreExact` needs `SharedLedger`: until it fires, a detector that all sources write
to holds the number of their symbols that have passed, which a tick raises by as many as there are
sources whose counter holds the symbol (so the proof counts two sets against each other).
`AlarmVerdictIsExact` needs `FlagsFollow`, that a flag has left its first value if and only if its
feature is marked, and `VoteLedger`, that the decision and what it has spent are at most the votes
cast, and exactly those until it alarms.

`EngineProofs` proves, for every number of sources, all thresholds and weights and any requests, what
the engine does with the built system, neuron by neuron:

- `EngineInvariant`: the inductive invariant `EngineInv` below;
- `MailFolded`: no mail crosses a tick;
- `OneRule`: at most one rule of a neuron applies;
- `Quiescence`: a halt leaves no mail, no spikes to replay and no rule that applies;
- `Typing`: the types, and that nothing is ever delayed;
- `Refinement`: every behaviour of the engine is one of `Detector`, errors included;
- `EngineAnswers`: for streams as the encoder writes them the engine never fails on a window within
  the limit, and with thresholds above one its answer from `/simulate` marks exactly the features
  whose conditions, counted on the window's packets, hold, and the alarm accordingly.

Assumptions: `BuilderAssumption` and `WiringAssumption` (the constants of `SNPSystem` are what
`PerSourceBuilder` builds, and a request gives each input a stream of symbols); `EngineAnswers` adds
`D!StreamsAssumption`.

Between two turns of a tick the mailboxes are half full, so an invariant of whole ticks is not
inductive. `EngineInv` says what every box holds at any turn: the mail of the neurons activated so
far and no other (`Progress`), each sending what the last row of the history makes it send, and a
neuron that has had its turn holds what the row and all its mail make it hold. That a neuron's mail
is complete at its turn is `Forward`: every synapse leads to a later place in the list. `Mail` is
given in closed form, by the kind of neuron and the sources that send (`MailStep` adds one sender),
which is what the recorded row needs at the end of a tick. `RowOK` is what a row can hold,
`TrainEnd` that a spent input stays spent, and `Shape` the types. The refinement maps `BeginTick`
and the turns to stutters, and `EndTick` to `Tick`, or to a stutter when nothing was awake
(`Asleep`); a turn that fails is a `RatioDetector` below zero, the only neuron with mail that may be
negative (`NaturalMail`), and maps to `NegativeSpikes`. `EngineAnswers` then carries the verdicts of
`DetectorProofs` over through the mapping.

`WindowingProofs` proves, for any width, grace, cap and capture (`WindowingAssumption`):

- `TypeCorrect`;
- `WindowsStayBounded`: every window within the cap and within its end and the grace;
- `WindowsKeepCapture`: the windows one after the other are the rows of the capture but for its RST
  and FIN rows, in order;
- `WindowsKeepWidth`: two windows are a full width apart unless the cap closed the first;
- `HandshakesAreKept`: an ACK within the grace is in the window of its SYN-ACK, unless the cap was
  reached;
- `OracleIsNear`: a window lies within `Reach + 1` cells of the oracle's grid and a cell within two
  windows, so where the cap closed no window, the rate of one is within a factor of the other's.

All rest on `Steps`: a step offers one row, and either drops it, appends it to the last window, or
opens a window with it. `WindowsKeepCapture` needs `OrderInv`, that the rows taken so far are the
prefix of the capture read so far without its RST and FIN rows; `WindowsKeepWidth` needs
`FullWidthInv`, that the current end is a width after the last window's first row, so that closing
by time puts the next window past it. `HandshakesAreKept` needs `StillWaiting`: a SYN-ACK that
nothing of its handshake has followed is pending in the last window, or its window was closed by the
cap or when the grace was over (`RefusedWhilePending`). `OracleIsNear` needs `TimeInv`, that no row
of an earlier window is as late as the start of a later one. A cell with `k` SYNs is split between
two windows, one of which has half (`CellHasWindow`); a window's SYNs are in at most `Reach + 1`
cells, and if each had fewer than its share there would not be enough (`Pigeonholes`, by the
least number of cells it fails for).

`SimulatorProofs` proves, for any captures of any packets, any engine and numbers of inputs and runs:

- `FirstVerdictIsBetween`: the first verdict is within what all the groups are marked with, and once
  the threads were joined it has all that the saved ones are;
- `GroupsAreWindows`: with as many devices as inputs, group `k` is window `k`;
- `PacketsArePosted`: of each symbol the groups hold as many as the files hold packets with it, end
  markers aside, whatever the windows, devices and the padding;
- `Typing`;
- `RerunIsItsOwn`: a rerun into a directory that had no more windows and groups, with as many devices
  as inputs and every group saved, is scored by the windows of its own capture;
- `StaleIsLeftOver`: any other feature of a joined run's verdict is that of a window file or of a
  history that an earlier run left, whatever failed or was killed.

The verdict theorems need `Threads`, that after `simulate` all threads have ended or some will never
start; `HistoryOk`, that a history this run opened has marks of its own group only; `ThreadOk`, that
the file a thread is writing is this run's, and a saved one whole; and `ReadInv`, what the analyzer
has marked so far: once the threads are joined no history changes under it, so it is what those it
has read hold. The others need `EncodedInv`, that once the groups are posted they are those of the
files, of which the first are the capture's, and what the encoding computes. `FlattenSeq` is a fold over a sequence, and the library's induction
theorems cannot be used; but when every window has as many lines, line `(w - 1) * D + d` is line `d`
of window `w` (`InBlocks`), and a prefix for which that is not so would have a shortest one
(`WFMin`). `InOrder` of a finite set is proved to exist from the place of an element, the number of
those before it (`InOrderSorts`). `PacketsArePosted` is then a bijection: a packet is at one place
among its device's packets, which is one place of one line, which is one place of one group.

`SweepProofs` proves, for any number of features, thresholds and captures (`SweepAssumption`):

- `TypeCorrect`;
- `CountsAreKept`: what a summary counted is what the directory holds from then on;
- `OldIsCountedWhereNotRun`: where an earlier sweep's output may be counted.

`CountsAreKept` needs `Threads`: no batch is started in a loop's last turn, so no simulator is
running once the loops have ended. `OldIsCountedWhereNotRun` adds `SweptOutputs`, that every
threshold whose batch has been joined is this sweep's but where a simulator raised, and
`LoopsEnded`.

`VerifyProofs` proves, for any scenarios with their captures, and any engines (`VerifyAssumption`):

- `TypeCorrect`, with no more passed than run;
- `PassesAreEarned`: exit code 0 is earned by the answers to every scenario that has a capture.

It rests on `DirLedger`, that a directory holds at least what was saved into it and at most what was
answered for its scenario, and on `PassLedger`, that as long as every comparison passed every
scenario behind is earned; `CorrectIsEarned` is the step between them.

`WebsnapseProofs` proves that the export keeps what every rule of the built system applies to and
takes (`RulesPreserved`), and gives no two neurons one position (`PositionsApart`).

`ScenarioRunnerProofs` proves, for any scenarios with disjoint streams that end within them
(`RunnerAssumption`), any rates, pools and timeouts (`GeneratorAssumption`) and any lateness within
the bounds:

- `TypeCorrect`, with no pool above its workers;
- `CapturesApart`: a capture still running holds packets of its own scenario only;
- `StreamsPaced`: no stream bursts by more than two connections;
- `SummaryComplete`: the summary accounts for every attempt;
- `CaptureCovers`: what a living capture misses is late, by how much.

`CapturesApart` needs `PlaceInv`: a generator that is there belongs to the current scenario, and none
is there but while its streams are being waited for or after Ctrl-C (`Placed`), and one that is not
there has an empty pool (`IdleInv`), which is what `shutdown(wait=True)` gives. `StreamsPaced` adds
`Ahead`: the next send is later than each earlier one by the intervals between them, less one that
the drift guard may have dropped; `NextSend` gives one back for each it adds. `SummaryComplete` adds
`Balanced`, attempts against what the pool holds and the counters show, and `Numbered`, that a worker
never takes an attempt that is already being made. `CaptureCovers` adds `Clocks`: the streams start
within the overrun of the lead-in, and a capture that has stopped has run its full time.

Only model-checked: the exact results of `Metrics`, `PacketFields` and `RatioBase` over bounded
inputs (as `ASSUME`s TLC evaluates; `RatioBase` is recursive, so what it computes is an induction
over data), and all liveness, which is outside the prover's reach: `Served`, and that every window
is answered, every run and verification ended or waiting for an answer, every sweep ended and the
lab left empty. Every
safety invariant and action property of a passing run is proved.

## 6. Not modelled, and the plan

Not modelled: the rule grammar and schema validation (as assumptions); the simulator's raw run
without an input file; plots, the logger, and the XML and JSON around the exporters; the generator's
packet limit and sender log, which the runner does not use, and its choice of addresses; the runner's
`--no-server` and a process that cannot be started at all; the server's connection count; the
oracle's ratio and pattern predictions.

What is left, in this order:

1. A window-level specification that says what a window deserves, and that `Detector` implements.
2. The oracle's other predictions, against `Encoder` and `Detector`.
