# Verification of the WIDS capture worker

TLA+ models of the wireless-intrusion-detection sensor in `WIDS/src/wids`, the
TLC runs that check them and the TLAPS proofs about them.

## The system

The repository holds the *capture phase* of a WIDS: a worker process that reads
802.11 management frames from a monitor-mode interface or from a PCAP file,
normalises them, computes sliding-window features and reports its status. The
API, persistence and detection layers are empty packages, one health endpoint
and one table.

| component | state it keeps | operations | talks to |
|---|---|---|---|
| `CaptureManager` (`capture/capture_manager.py`) | session state, stop event, current source, counters, seen packet numbers, clock fields | `run`, `stop`, `status`, `touch_heartbeat`, `update_current_channel` | drives a packet source, the parser, the frame sink, the feature extractor |
| packet sources (`capture/packet_source.py`) | the PyShark capture, a plain lock, the generator | `packets`, `close` | TShark through PyShark |
| `FeatureExtractor` (`capture/feature_extractor.py`) | per window: entries, groups, counters; the time observed through | `ingest`, `snapshots`, `reset` | called by the manager |
| `PacketParser`, frame models (`capture/packet_parser.py`, `frame_models.py`) | none; immutable records | `parse`; constructors, JSON | called by the manager |
| `CaptureWorker` (`workers/capture_worker.py`) | heartbeat, hopper, evidence target, background error | `run`, `run_source`, `stop`, signal handler | owns all of the others |
| `HeartbeatService` (`workers/heartbeat.py`) | thread, stop event | `start`, `stop`, `publish_once` | calls the manager's status and a publisher |
| `ChannelHopper`, `ChannelManager` (`capture/channel_manager.py`) | thread, stop event | `start`, `stop`, `set_channel` | runs `iw`, calls back into the manager and the worker |
| `InterfaceManager` (`capture/interface_manager.py`) | none; the adapter's type and link state | `ensure_monitor_mode`, `set_interface_type` | runs `ip` and `iw` |
| `EvidenceWriter` (`capture/evidence_writer.py`) | files below a root directory | `prepare_live_capture`, `copy_replay_evidence`, `finalize` | file system |

Three kinds of threads meet in one process. The *main thread* runs
`CaptureWorker.run`, and in it the manager, the source's generator, the parser
and the sinks. Python runs the *signal handler* that `main()` installs on that
same thread, between any two of its steps; it calls `CaptureWorker.stop`. The
*hopper* and the *heartbeat* are daemon threads; the hopper's error callback
stops the manager, the heartbeat reads its status.

### What is hard in it

* `stop()` against `run()`: the state, the stop event, `_source`, the capture
  published by the generator and the two locks are separate pieces, touched by
  several threads. A stop may come before the capture is opened, between opening
  and publishing it, or after the session is over.
* The signal handler runs *inside* the main thread: the manager's `RLock` lets it
  into a section the main thread has not finished; the plain locks of the source
  and of the hopper block it for ever.
* Blocking reads: a live capture returns from a read only when a packet arrives or
  the capture is closed.
* Errors half way: closing may fail, a sink may raise after the frame is delivered,
  a command may time out after its effect, joins give up after five seconds.
* Counters and windows kept incrementally over long sequences: skips, duplicates,
  retries, expiry, resets between sessions.
* Files: names chosen by looking, a lock per writer but none between processes,
  a capture that TShark still writes, copies that a fault or a crash cuts off.
* A parser of some fifty fields, any of which may be missing, unreadable or beyond
  what a record can hold, and which turns every exception into one verdict.

### What makes each part correct

* *Manager*: one session at a time; an honest state; counters that add up; no
  packet number delivered twice; an accepted stop stays in force, bounds what is
  still counted and ends the session.
* *Sources*: a capture that was opened is closed and forgotten before `run`
  returns; `close()` returns; a file comes to an end.
* *Feature extractor*: at any time a window holds exactly the groups of frames
  younger than its length, each counted once.
* *Interface manager*: success means the mode that was asked for; a change that
  fails once the type is being changed does not leave the adapter down.
* *Worker, heartbeat, hopper*: no thread outlives a run; the last record published
  is the final one; a hopper that dies ends the session and is reported.
* *Evidence writer*: the evidence of a capture is never overwritten, truncated or
  half copied; a copy leaves no `.part` file behind; the metadata is that of the
  file.
* *Parser, frame models, channel arithmetic*: a frame is lost as a whole only for
  what the contract has no room for; `complete` means that nothing needed is
  missing and nothing given was dropped; a record survives JSON; a replay of the
  evidence gives the frames of the live capture; a channel names its frequency.

## The modules

| module | models | uses |
|---|---|---|
| `PacketSource` | generator and `close()` of the PCAP and live sources | |
| `CaptureManager` | `run`, `stop`, the counters; who calls them and when | extends `PacketSource`, instantiates `CaptureContract` |
| `CaptureContract` | what the manager promises to the worker (abstract) | |
| `CaptureManager_proofs` | theorems about the manager's state and counters, the refinement | extends `CaptureManager` |
| `CaptureSession_proofs` | theorems about what a session does with its source and packets | extends `CaptureManager_proofs` |
| `FeatureExtractor` | windows, groups, counters | |
| `InterfaceManager` | the command sequences and their faults | |
| `HeartbeatService`, `ChannelHopper` | the two background threads | |
| `CaptureWorker` | both threads, the main thread and the signal handler together | extends the two |
| `EvidenceWriter` | names, replay copies, live captures, metadata, on one directory | |
| `FeatureExtractor_proofs`, `InterfaceManager_proofs`, `CaptureWorker_proofs`, `EvidenceWriter_proofs`, `PacketParser_proofs` | theorems about the module of that name | extend it |
| `Channels` | conversions between channels and frequencies | |
| `FrameModels` | vocabulary and constructors of the records | extends `Channels` |
| `PacketParser` | `parse`, once live and once from the file | extends `FrameModels` |
| `MCCaptureManager`, `MCFeatureExtractor`, `MCEvidenceWriter`, `MCPacketParser` | constant values for TLC | |

### PacketSource and CaptureManager

`generator[s]` is where a source's generator stands (`new`, `opened` with the
capture running but not yet in `_capture`, `storing` inside the lock section,
`reading`, `fetched` before the stop check, `yielded`, `over`); `attached` is
`_capture is not None`, `opened` is the TShark process, `closer[a]` is where an
agent stands in `close()` / `_close_capture`. `pc[r]` is where a caller of `run()`
stands; names follow the code (`Begin` and `FinishBegin` are the two halves of
`_begin`, `SetRunning` the assignment of `RUNNING`, `Count`, `Dedup`, `Parse`,
`Deliver`, `RecordSkip`, `NoteError`, `CountParsed` the loop body in its order,
`SetStopped`, `CheckFailure`, `SetFailed`, `Finalize`, `Return` the end of
`run()`). Blocks under a lock that do one thing are one action; those that a signal
can interrupt with consequences (`_begin`, the two sections of the source lock) are
two. Agents are the callers of `run()`, other threads that call `stop()`
(`Stoppers`) and signal deliveries (`Handlers`), which suspend the main thread
while they are in `stop()`.

Abstracted: packets are their numbers; parsing is its result class; `last_error` is
where it came from; the heartbeat timestamps, `current_channel`, `dropped_packets`
and the session id are left out. Assumptions: reading from a PyShark capture that
has been closed returns (it ends or raises); `PacketParser.parse` does not raise;
handlers do not nest; a source is used for one session. `RenumberingSources` are
injected sources whose envelopes repeat packet numbers; the shipped ones number
with `enumerate`.

### FeatureExtractor

`windows[w]` is a `_WindowState`: the deque `entries`, the dictionary `groups`
(content of the first frame and occurrences) and `counts`, the six `Counter`s as
one over keys of all kinds. All methods hold one lock, hence one action each:
`Ingest`, `RejectFrame`, `Snapshots`, `Reset`. `log` is a history of the frames,
from which the properties say what a window should hold. A frame identity fixes
transmitter and subtype, as `_retry_identity` does. Contents and identities are any
sets; `FrameCount`, the sum of the subtype counters, is the size of a disjoint
union, so that a proof can count it.

### InterfaceManager

One action per command of `ensure_monitor_mode` and `set_interface_type`. A command
takes effect and succeeds, fails, exits with 0 without effect, or times out, before
its effect or after it. The kernel refuses to change the type of an interface that
is up. `iw` and `ip` are external: the model takes from the code what it looks at,
the type and the link. `trying` remembers whether the call has reached its `try`
block: the first command, `ip link set down`, is outside of it.

### HeartbeatService, ChannelHopper, CaptureWorker

`beatPc`, `hopPc` and `workerPc` are the control points of heartbeat threads, hopper
threads and main thread. Each run has a heartbeat service of its own; `run()` makes
a new hopper, `run_source()` uses the one there is, which is how
`HopperStillRuns` comes about. The joins give up (`timedOut` remembers it),
publishers may raise, a channel command may fail at any time, evidence may fail to
be finalized. `hopLocked` is the hopper's plain lock, which the handler needs too.

Of the manager and of the source it reads, the module keeps what decides whether a
stop is heard, in the steps of `CaptureManager` and `PacketSource`: `BeginSession`
makes the session stoppable (`accepting`) and `FinishBegin` clears the stop event
(`stoppers`, whose `stop()` has set it), `SetRunning` overwrites whatever the state
has become, `OpenCapture` and `StoreCapture` come before there is a `capture` to
close, `ForgetCapture` and `EndSession` after the read. `stop()` is two steps,
`AcceptStop` and `CloseSource`, both for the signal handler and for the hopper's
error callback; `closers` are the hoppers between the two whose source is still the
current one. A session that has been told to stop may therefore go on: if the stop
came before the capture was stored, if closing the capture failed, or if the stop
was accepted inside `_begin`.

### EvidenceWriter

`files` is the root directory: a file is the sequence of its blocks, a block the
capture it comes from, so that a foreign block or a missing one shows. `pc[c]` is
where a use of a writer stands. `ReadClock`, `EnterLock`, `TryNext` and `Choose` are
`prepare_live_capture`, with a step for every name looked at; `OpenPart`,
`CopyBlock`, `Replace`, `CopyFails` and `Unlink` are `copy_replay_evidence`;
`OpenEvidence`, `HashChunk` and `Measure` are `finalize`, as the worker calls it.
Each writer has a lock of its own and stands for a process that may crash between
any two steps; TShark goes on writing meanwhile. It is external: it truncates its
output file and appends to it until it is closed.

The histories carry the exceptions of the properties. `sharing` holds the captures
that were given a name which another one held without having created its file:
same session, same microsecond. The docstring of `prepare_live_capture` speaks of a
reserved name, but only an existing file reserves one. `unclosed` holds the live
captures whose `close()` raised, so that TShark may still write. `born` holds those
whose file has come into being.

### Channels, FrameModels, PacketParser

A packet has layers, a layer is a function from field names to values, or `None`.
`Missing` is a field that is not there, `Garbled` a text in which nothing is found,
`Invalid` a constructor that raises. A MAC address is a text `[mac, notation]`, the
bytes of an SSID `[id, length, utf8]`, a cipher or AKM suite `[token, number]`
(the first number of the text counts, a vendor prefix's too), a digest
`[digest |-> what it was made of]`, a time a number of days. The aliases of a field
that the code tries together are one name; where the order of two sources matters
(`wlan_mgt` before `wlan`, `ra` before `addr1`) it is kept.

`Obstacles` is the sequence of early returns of `parse` and of the exceptions it
turns into `parser_error`; `Verdict` takes the first that is met. The records of
`FrameModels` are what the constructors normalise and refuse. `Rebuilt` is
`from_json(to_json(f))`, every constructor called again. The same packet is parsed
in two processes, because the iteration order of a Python set of strings differs
from one to the next (`Orders`). What the envelope brings and `semantic_dict` keeps
is presumed equal in both passes, as it is in the repository's own test
(`test_live_and_replay_are_semantically_equivalent`): the capture session id, which
the model leaves out, the PCAP reference and the packet number, which it holds fixed.
Replay equivalence says nothing of envelopes that differ in one of them. Which
order `sorted` gives to names is left open (`Arranged` is one arrangement for each
set). The warning `malformed_ssid_ie` has no case: a field that is there always
yields bytes, if need be those of its own text.

## The runs

Bounds are the constants of each `.cfg`; unbounded counters are capped by
`MaxPackets`, `MaxFrames`, `MaxTime`, `MaxFaults`, `MaxRuns`, `MaxSignals`,
`MaxTimeouts`, `MaxTroubles` and, for the blocks of a capture, `Size`.

| run | instance | checks |
|---|---|---|
| `sessions` | two `run()` callers, a `stop()` thread, a file that may renumber and a live capture, one packet each; 388,074 states | `TypeOK`, `OneSession`, `StateTracksSession`, `AcceptedStopSticks`, `NoCaptureLeak`, `StopBounded`, `ImplementsContract` |
| `signals` | one `run()` caller, a signal at every point, two sessions of up to two packets, closes may fail; 606,632 states | `Accounting`, `NoRedelivery`, `StateTracksSession` |
| `liveness` | `FairSpec`, one `run()` caller, a `stop()` thread, a file and a live capture, closes may fail; 126,644 states | `ReplayEnds`, `StopCallReturns`, `StopClosesAttached`, `BusyStopTerminates` |
| `windows` | windows of 1 and 3 ticks, a clock of 5, three frames between resets, two frames sharing an identity; 73,563 states | `TypeOK`, `CountsWindow`, `CountersMatchGroups`, `SeenTimesExact`, `RetryKnown` |
| `monitor_mode` | every initial adapter, two faults per call; 329 states | `TypeOK`, `SuccessIsUsable`, `NotLeftDown` |
| `worker` | `FairSpec`, two runs, a signal or a join that gives up; 338,224 states | `TypeOK`, `LastRecordFinal`, `ThreadsEnd`, `HopperStopReported`, `HopperFailureEnds`, `HopperFailureCloses` |
| `evidence` | a copy and a live capture of one process, a copy of another, one session, two clock readings, captures of two blocks, one fault, crashes; 1,617,130 states | `TypeOK`, `EvidenceSurvives`, `CopyIsAtomic`, `NoLeftovers`, `MetadataDescribesFile` |
| `parsing` | 6,314 packets, each parsed live and replayed in two iteration orders; 25,256 states | `TypeOK`, `ErrorsDeserved`, `CompleteMeansComplete`, `RoundTrip`, `ReplayEquivalence`, `ChannelNamesFrequency` |

Why the bounds are enough: one packet is already in flight, duplicated by a second
session's packet or by a renumbering file, and a stop can come before, during or
after it; two sessions show what the first leaves behind. Two runners and one stop
caller make every pair of racing calls. Three frames are an opener, a duplicate and
an unrelated one, and the clock lets the first expire from one window, from both or
from none. Two faults per call are one in the change and one in its recovery:
"best effort" recovery can be asked to survive the first only (`faults <= 1` in
`NotLeftDown`), and the mode is never claimed wrongly after either. One join that
gives up is enough to reach the second run with a thread of the first still alive.
`MaxTroubles` keeps it and the signal from meeting in one behaviour, to keep the
liveness check short; the four safety properties of the worker are proved for all
values of these bounds (see below). Two captures of one writer meet under its lock, one of
another writer meets them without; equal clock readings give equal names, and two
blocks make a half copied or half digested file different from a whole one.

The packets of `parsing` are a beacon, the same beacon with its fields in the
`wlan` layer, a probe response, a probe request, an authentication and a
deauthentication, each with any one field, or any two of one layer, missing,
unreadable, at the end of its range or beyond it; or without a layer; and a beacon
on each of 464 frequencies around the ends of the channel rasters. Two deviations
are what a record needs to be invalid when neither value is (lengths, sequence and
fragment, SSID and its bytes).

`CHECK_DEADLOCK FALSE` in `signals`, `signal_under_lock`, `worker` and `early_stop`:
with a signal handler the process can really block for ever (see the findings), and
the worker stops after its last run. Also in `evidence`, where captures end, and in
`parsing`, where a packet is parsed twice and that is all.

### Fairness

`CaptureManager!FairSpec`: a thread that can take a step of its own eventually does
(`RunnerStep`, `CallerStep`), and a read returns when the source is a file (files
are finite) or its capture has been closed. Nothing is assumed of new calls,
packets or faults. `BusyAir` (packets keep arriving) appears only as the hypothesis
of `BusyStopTerminates`.

`CaptureWorker!FairSpec`: main thread, handler, hopper and heartbeat threads take
their steps, and the read of a capture that has been closed returns (`ReadClosed`).
The hoppers share one fairness condition, and so do the heartbeats, which is weaker
than one for each thread and enough.
That a stopped session ends is *not* assumed: `quiet_stop` shows that on a silent
channel it may not. `HopperFailureEnds` has `BusyAir`, that packets keep arriving
and the loop then sees the stop event (`StopEnds`), as its hypothesis, as
`BusyStopTerminates` has; `HopperFailureCloses` does without, and is about a capture
that is being read, which the stop closes. Nothing is assumed of new
runs, signals, packets or faults.

Each exception that the two name was tried without, and TLC then refutes the
property: without `BusyAir`, a stop before the capture is stored, or a close that
fails; without `Stuck`, a signal inside a section of a plain lock; from `starting`
instead of `source`, a stop that `_begin` has accepted and cleared, which leaves the
manager `STOPPING` and deaf to the hopper until `run()` says `RUNNING`.

### Deviations

Beside a definition there is sometimes a variant that no specification uses
(`LockIgnored`, `DetachForgotten`, `DecrementNothing`, `StoreErrorLast`, ...). Each
is a plausible bug in that place: a forgotten reset, a swapped order, a dropped
guard. Substituted for the definition above or below it, it makes TLC find one of
the properties violated, which shows that the property depends on the code
being as it is.

## Findings

Runs whose property states what the code or its comments say, and which TLC
refutes:

| run | property | what happens |
|---|---|---|
| `quiet_stop` | `StopTerminates` | a stop accepted before the live capture is in `_capture` closes nothing; on a silent channel the session blocks in the read for good |
| `signal_under_lock` | `NoSelfDeadlock` | a signal while the main thread is inside `with self._lock` of the source: the handler waits for its own thread |
| `early_stop` | `StopHeeded` | a signal before `manager.run()` has begun is forgotten: the capture starts and runs on |
| `stale_content` | `DescribesWindow` | a group keeps its first frame while later frames of its identity keep it alive: the snapshot describes a frame that left the window and not the one in it |

The same defect as `signal_under_lock` exists in the hopper's lock;
`HopperFailureEnds` and `HopperFailureCloses` name both locks as their exception
(`Stuck`). The defect of `quiet_stop` reaches the hopper too: if its failure stops
the manager before the live capture is stored, a silent session goes on with a dead
hopper, which is why `HopperFailureEnds` needs `BusyAir`.

More follows from the models and has no run of its own; where a property needs an
exception for it, the comment above the property says so:

* A second `run()` on another thread may begin before the first has dropped
  `_source`, and then loses its own (nothing in `src/` starts two).
* A hopper that fails before the manager is `RUNNING` may stop nothing (the manager
  is `IDLE`, or `STOPPING` from a stop that `_begin` has cleared); its error is
  reported when the session ends by itself.
* A signal inside `_begin`, after `STARTING` has been set, is accepted through the
  `RLock`; `_begin` then clears the stop event. `sessions` with a handler refutes
  `AcceptedStopSticks`, and `StopSticks` is proved without handlers.
* `ip link set down` that takes effect and then times out leaves the adapter down:
  the command comes before the `try` (`NotLeftDown` without `trying` fails).
* A driver that ignores `ip link set up` and lets it exit with 0 leaves the adapter
  down after a success: only the type is read back (`SuccessIsUsable` without
  `ignored` fails).
* Two captures of one session with equal timestamps are given the same evidence
  name if neither has created its file (`sharing`).
* 5960 MHz, which is no centre frequency, is converted to channel 2 of the 6 GHz
  band, and that channel to 5935 MHz.

## The proofs

Each theorem holds for every value of the constants: any number of threads,
sources, packets, windows, captures, faults. The assumptions are the named `ASSUME`s
of the modules (kinds and disjointness of constants), which TLC evaluates in the
runs; five theorems have a hypothesis of their own, given below. Each module has
one inductive invariant, TLC-checked before it was proved, a lemma for each of its
parts that a step may disturb, with one step for each action, and theorems that
follow from it.

### Manager: `CaptureManager_proofs`

| theorem | says |
|---|---|
| `InductiveInvariant` | `Spec => []IInv` |
| `TypeCorrect` | `Spec => []TypeOK` |
| `SessionsExclude` | `Spec => []OneSession` |
| `StateIsHonest` | `Spec => []StateTracksSession` |
| `CountersAddUp` | `Spec => []Accounting`, signals included |
| `StopSticks` | without handlers, `Spec => []AcceptedStopSticks` |
| `ManagerImplementsContract` | `Spec => Contract!Spec`, the refinement |

`IInv` is `TypeOK /\ LocalsKnown /\ OneSession /\ StateTracksSession /\ Accounting`.
None of the last three is inductive alone. `OneSession` needs `StateTracksSession`,
because `_begin` looks at the state and not at the other runners; that one needs
`OneSession`, because the runner that sets the final state must be the only one in
the session. `Accounting` needs `OneSession`, since `InFlight` counts the packets of all
runners and steps by one only if at most one runner is in the loop. `LocalsKnown`
says that a runner in the session has an argument and, at `skip`, a reason; without
it the counter that `RecordSkip` increments is not defined. For `StopSticks` the
invariant also carries `BeginLocked` (a runner at `begin` owns the manager's lock
and no stop of its session has been accepted), which is what keeps other threads
out until the event has been cleared. A handler
gets past it, so the hypothesis `Handlers = {}` is needed: with one, TLC finds the
counterexample. The refinement maps `phase` to `Phase` (the state, with
the half of `_begin` after which the counters are zero) and `settled` to
`parsed + skipped`; each step is shown to be a contract step or a stutter.

### Sessions: `CaptureSession_proofs`

| theorem | says |
|---|---|
| `StopBoundsSession` | without handlers, `Spec => []StopBounded` |
| `DuplicatesDropped` | `Spec => []NoRedelivery`, signals included |
| `RunReleasesCapture` | a `run()` about to return has forgotten its capture, and closed it unless closing may fail |
| `NothingLeaks` | if closing never raises, `Spec => []NoCaptureLeak` |

All three rest on `OwnInv`, which adds to `IInv` that a source has one owner
(`SourceOwned`) and that the point its generator has reached follows from the point
its session has reached (`GeneratorFollows`): without it a packet might be in a
generator of which the loop knows nothing.

* `StopInv` adds how much room is left below `MaxPackets` for what is not counted
  yet, and that what has been seen and what is in hand stay within the allowance
  fixed when the stop was accepted. It needs `AcceptedStopSticks`, and therefore
  `Handlers = {}`.
* `OnceInv` adds `Remembered`: of each number, either nothing has been delivered or
  the number is in `seenPackets`. It survives the reset between sessions only
  because the next session has a source that nobody had before.
* `LeakInv` adds where a runner stands in `_close_capture` and what that leaves to be
  closed and to be forgotten. The hypothesis `~CloseMayRaise` is what the code cannot
  do without: a `close()` that raises leaves the capture running.

### Feature extractor: `FeatureExtractor_proofs`

| theorem | says |
|---|---|
| `TypeCorrect` | `Spec => []TypeOK`; no counter falls below zero |
| `CountersBalance` | `Spec => []CountersMatchGroups` |
| `WindowsCount` | `Spec => []CountsWindow` |
| `TimesExact` | `Spec => []SeenTimesExact` |
| `RetriesRecognised` | `Spec => []RetryKnown` |

The properties compare a window with the history `log`, or a counter with the
groups. `IInv` is `TypeOK /\ Chronicle /\ Fits /\ RetryKnown`: the log is ordered and
not ahead of the clock, and each window is `Coherent` and `Aligned`. `Coherent`: a
group's `occurrences` is the number of its entries, and each counter is the number
of groups it counts; `AddCoherent` and `ExpireCoherent` show that `_insert` and
`_expire` preserve it, the latter by splitting the entries into those popped and
those kept (`SplitCount`). `Aligned`: the entries are the last frames of the log,
those not older than the window, because the deque and the log are in one order of
time; `_expire` pops from the front only, and that is enough. `frame_count` is the
number of groups (`FrameCountGroups`) since each content has exactly one subtype.

### Interface manager, worker: `InterfaceManager_proofs`, `CaptureWorker_proofs`

| theorem | says |
|---|---|
| `InterfaceManager_proofs!TypeCorrect`, `CaptureWorker_proofs!TypeCorrect` | `Spec => []TypeOK` |
| `ReturnMeansUsable` | `Spec => []SuccessIsUsable`: after a success, for any number of faults, the mode is the one asked for, and the link is up unless the driver ignored this call's `ip link set up` |
| `FailureLeavesLinkUp` | `Spec => []NotLeftDown` |
| `FinalRecordLast` | `Spec => []LastRecordFinal` |
| `RunJoinsThreads` | `Spec => []ThreadsEnd` |
| `HopperFailureReported` | `Spec => []HopperStopReported` |

In the interface manager, `Progress` counts faults against damage: at `verify` a wrong
mode or a link that is down costs one fault, both cost two, and the link is down only
if its command was ignored. In the worker, `OwnThreads`
says whose hopper and heartbeat may be alive at each point of the run, `PhaseKnown`
that nobody else begins or ends the session and that no stop is accepted outside of it, `FinalKept` that nothing is published
after the final record, `ErrorKept` follows the hopper's error from its thread through
`_background_error` to the result. The last three are conditional on
`NoTimeouts`: a join that has given up breaks each of them, as the code accepts.

### Evidence writer: `EvidenceWriter_proofs`

| theorem | says |
|---|---|
| `TypeCorrect` | `Spec => []TypeOK` |
| `NeverOverwritten` | `Spec => []EvidenceSurvives` |
| `AtomicCopy` | `Spec => []CopyIsAtomic` |
| `PartsAccounted` | `Spec => []NoLeftovers` |
| `MetadataTrue` | `Spec => []MetadataDescribesFile` |

Crashes and failing operations are steps like any other. The argument is about
ownership of names. `Made` (evidence that was created is still there) and `Apart` (two
captures that may both write under one name are both in `sharing`) support each
other: a second capture can be given a name only while its file does not exist, and
the code that finds this out is the only thing that keeps them apart. From it follow
what each file holds: `OwnFiles` (a block is found only in the target and the part
file of its capture), `CopySoFar` and `Unmixed` (a running copy), `Whole` (a finished
one), `Hashed` (what `finalize` has digested is the beginning of the file, because
TShark is gone by then).

### Parser, records, channels: `PacketParser_proofs`

| theorem | says |
|---|---|
| `TypeCorrect` | `Spec => []TypeOK`, if no model value is a record |
| `ErrorsAreDeserved` | `Spec => []ErrorsDeserved`, under the same hypothesis |
| `ReplayIsEquivalent` | `Spec => []ReplayEquivalence` |
| `FramesRoundTrip` | `Spec => []RoundTrip` |
| `ChannelsNameFrequencies` | `Spec => []ChannelNamesFrequency` |
| `CompleteIsComplete` | `Spec => []CompleteMeansComplete` |

About any packets whose lists of suites are finite (`ParserAssumption`), whose
readable address texts denote addresses (`AddressAssumption`) and whose numbers and
bytes are numbers and bytes (`KindAssumption`), and any orders in which a process
may iterate its set of protocols. The invariant `Origin` says that a result is what
`parse` makes of the packet; the rest is about operators. `SameSecurity`: the security
profile does not depend on the order, because it is canonical before it is digested
(`OrderIrrelevant` carries this to the whole parse). `SameSemantics`: the mode reaches
only the three fields that `semantic_dict` leaves out. `ProfileTwice`,
`AddressesTwice`, `ManagementTwice`: a constructor accepts what it has made, and leaves it
alone; for the profile this needs that sorting what is sorted changes nothing
(`CanonicalTwice`), and that the fingerprint is not part of what it digests.
`ChannelOfFrequency` is the arithmetic of the four rasters, over all frequencies.
`CompleteFrame` splits the status in two: nothing was malformed (`NothingMalformed`,
with `AddressesKept` for the three optional addresses) and nothing the subtype needs is
missing (`NothingMissing`, `NeededPresent`). It needs that no obstacle was met
(`AcceptedFrame`): only then are there a receiver and a transmitter to fall back on.
An unreadable RSN element is covered by the second half alone: it leaves the security
profile empty, which a beacon needs.
`ParsedParts` is the whole of `parse`: which of its answers is a `parser_error`, and
what an accepted frame is made of. It goes through the constructors one by one and
shows what each refuses: the radio and the addresses nothing (`RadioAccepted`,
`AddressesAccepted`, for what is unusable has been dropped before), the lengths never
disagree (`LengthsAgree`), the SSID fields always agree (`SsidAgrees`); management
fields are refused exactly for a number beyond the contract (`ManagementRefused`), and
so is the sequence control (`SequenceRefused`). These two theorems have the hypothesis
`NoRecords`: `None` and `Invalid`, which stand for the absence of a record, are not
records. It holds of TLC's model values, but TLC cannot evaluate it, so it is a
hypothesis and not an `ASSUME`.

### Only model-checked

* Everything under fairness (`ReplayEnds`, `StopCallReturns`, `StopClosesAttached`,
  `BusyStopTerminates`, `HopperFailureEnds`, `HopperFailureCloses`): liveness and `ENABLED` are out of the
  prover's reach.
* `StopBounded` and `AcceptedStopSticks` with a handler are false; without one they are
  proved.

## Not modelled

* Of the manager: the clock fields of the status, `current_channel`,
  `dropped_packets`, and `heartbeat_is_stale`.
* Of the worker: the checks of `WorkerConfig`, and its setup as one sequence with
  the interface and the evidence; both are modelled by themselves.
* Of the manager's `_begin`: the moment between the assignments of the state and of
  `_source`, which only a signal handler could see, and in which it would find no
  source of this session to close.
* Of the sources: errors of `capture.close()` other than those that `_close_capture`
  swallows.
* Of the interface manager: adapters of a type other than `managed` and `monitor`.
* Of the hopper: which channel of the plan comes next.
* Of the evidence writer: a root directory that cannot be made; a copy that goes on
  writing into a `.part` file a rival of the same name has unlinked, and then raises
  in `os.replace` (the model stops it where the file is gone; only captures in
  `sharing` get there).
* Of the evidence writer and the sources: the layout of references and extensions.
* Of the frame models: `frame_id`, the contract version, `CaptureStatus` as a
  record. Of the parser: attribute and getter access to PyShark objects and the
  regular expressions, abstracted to what they return.
* The health endpoint, the configuration and the `detection_rule` table, which have
  no behaviour of their own; empty packages; the sample generator; the PyShark,
  TShark, `ip` and `iw` programs beyond what the code relies on.
* `InMemoryPacketSource` is a test double without a resource.

## Plan

1. `Status`: the clock fields of the manager, with the heartbeat time that is read
   before the lock is taken.
2. The worker over the manager's contract: that `CaptureWorker`'s view of a session is
   one that `CaptureContract` allows, as a refinement.
3. A property that notices a frame dropped as a duplicate of an earlier session.
