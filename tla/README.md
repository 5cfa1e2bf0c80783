# TLA+ models of the Sendspin conformance harness

This directory holds TLA+ models of the harness in this repository and of the
vendored SDK it runs on, the TLC configurations that check them on small
instances, and TLAPS proofs of the theorems that hold for every instance. Paths
below are relative to `src/conformance/` of the repository unless they start
with `tests/`, `scripts/` or `adapters/`; `sdk/` stands for
`src/conformance/_vendor/aiosendspin/`.

The harness judges other programs, so its own correctness is mostly fairness:
a case must end whatever its adapters do, it must leave nothing behind that
disturbs the next one, a pass must be earned, and nobody may be blamed for
what they did not do. The SDK is the other half: the reference server every
client is judged against has to send what it promised, to whom it promised it.
Those are the properties the models state.

## 1. Inventory

The program is Python (about 50 000 lines, of which the SDK is 33 000), one
asyncio event loop per process, with subprocesses and files between processes.
`adapters/` at the top holds adapters in other languages. `PROJECT.json`
"components" lists every part with what is modelled of it and why the rest is
not; "hazards" lists what is hard to test, each at its line.

### Running the matrix

| Component | State | Operations | Interacts with |
|---|---|---|---|
| Matrix runner, `runner.py` `run_matrix` | semaphore, tasks, results directory, `index.json` | clear old results, start a task per case, gather, write the index | case runner (calls), `asyncio.run` (cancellation) |
| Case runner, `runner.py` `run_case`, `_run_failfast_role`; `process.py`, `io.py` | case directory, two processes | decide, spawn, wait for files and exits, kill, read summaries, record | adapters (files, exit status, signals) |
| Launch-spec builders, toolchains, build, repositories | build report | build the command of a role, or none, or raise; run external tools | case runner |
| Scenarios and models: `scenarios.py`, `models.py`, `fixtures.py` | tables | look-ups | everything |

### Judging a case

| Component | State | Operations | Interacts with |
|---|---|---|---|
| Server and client adapters, `adapters/aiosendspin_*.py` | SDK objects, recorded evidence, ready file, summary | serve or connect, play a scenario, wait with deadlines, write, exit | case runner (files), each other (network, registry) |
| Endpoint registry, `registry.py` | one JSON file shared by processes | register (read, change, write), look up | adapters of both sides |
| Recorders, `adapters/_aiosendspin_protocol_evidence.py` | per-socket lists | wrap the SDK transport; insert a mark | SDK tasks (interleaved) |
| Protocol verdicts `protocol.py`, chunk framing, declared formats, summary comparisons `runner.py:583-1264` | loop variables | fold recorded lists into a verdict | recorders (data) |

### The validator (`validator/`)

| Component | State | Operations | Interacts with |
|---|---|---|---|
| Recorder and links (`suites.py` `Link`) | frames, events, connection numbers | observe, `wait_until`, reconnect, await | SDK callbacks, suites |
| Session and checks (`session.py`, `checks.py`) | phases of a run, the observed record | observe the opening, judge it | SDK server in strict mode |
| Suites (`suites.py`) | the stored pairing record | run the steps, swap and restore the record | links, prompter (user) |
| Code pairing (`code_pairing.py`, `code_pairing_checks.py`) | attempts, codes, windows | run attempts with right, wrong and missing codes; judge the record | SDK pairing, person |
| Storage, discovery, prompter, cli, report | identity and pairing files | | all of the above |

### The SDK (`sdk/`)

| Component | State | Operations | Interacts with |
|---|---|---|---|
| `server/push_stream.py`, `server/roles/player` | channel timelines, buffers, caches, encoders, generation counters | prepare, commit, join, leave, change format, catch up, clear, stop | worker threads, groups, writer |
| `server/connection.py`, outbound; `server/audio.py` | priority and role queues, tickets, buffer tracker, epochs | enqueue, drop, write, retire, pause for an activation | roles (producers), socket |
| `server/server.py`, `server/client.py` | dial tasks, tables by URL, registry with timers | dial, redial, disconnect, reclaim, mDNS, attach, detach, forget | network, groups |
| `server/group.py`, controller and player groups | members, playback state, what was told | join, leave, switch, stop, take over, return | clients, stream |
| `server/roles/scheduled_state.py`, metadata, colour | current and pending state, one timer | schedule, cancel, due, join | client's pending state |
| `server/connection.py`, `client/connection.py`, `noise/` | key, attempt, record, window on both ends | pair by three methods, cancel, time out, unpair, re-key, activate | each other, both stores |
| `client/client.py`, `noise/trust_store.py` | connections, the admitted one, lock, records with capacity | admit, displace, turn away, look up, store, evict, sweep | servers |
| time filter, audio output, wire formats, codecs | numbers | | |

### After a run

`merge.py`, `scripts/detect_regressions.py`, `cli.py`, `site.py`: sequential.

### What is hard, and what makes each component correct

* **Case runner.** Timeouts race files and exits, a kill races an exit, an
  earlier run's files lie in the directory. Correct: a case ends; no adapter
  outlives it; a pass rests on two clean exits and two summaries of this run;
  the reason names whoever reported one.
* **Matrix runner.** A semaphore, an exception in one task while others run,
  cancellation in every state. Correct: permits are conserved, the index
  tells of this run or is absent.
* **Verdicts.** What is received crosses what is being sent; a recorder cannot
  see the instant a frame reaches the wire; a connection ends with things under
  way. Correct: a conforming side is never blamed, a fault that was shown is
  never passed, a fault is put down to the side that has it, every step reports.
* **Validator.** Connections come and go under the steps, people are slow, a
  step may be cancelled while the stored pairing is swapped. Correct: a wait
  returns once its condition holds; the next connection is found; the user's
  pairing survives.
* **Audio.** Encoding yields the loop, so joins, format changes and clears fall
  between the halves of a commit. Correct: each role hears each piece once, in
  order, in the format announced; timelines do not drift, overlap or part.
* **Writer.** A send blocks for any time while calls drop, supersede and retire
  what is queued. Correct: what is on the wire is inside its stream, the
  device's buffer is never exceeded, the writer never sleeps on work.
* **Dialing, groups.** Timers, tasks that were cancelled and not yet ended, calls that
  call back. Correct: the tables say what was asked; everyone was told where
  they are.
* **Pairing, admission.** Two state machines and a wire, cancellation at each
  await, file writes that let others run. Correct: each frame is read under its
  key, both ends agree at rest, records are neither lost nor left over.

## 2. Modules

| Module | Models | Checked in run |
|---|---|---|
| `CaseSpec` | what a case promises to its caller | `case` (refinement) |
| `CaseRun`, `MCCaseRun` | `run_case`, `_run_failfast_role`, `process.py`, with adapters, kernel and child watcher as environment | `case`, `case_raises` |
| `Matrix` | `run_matrix`, with a case as `CaseSpec` promises it | `case` |
| `StartGate` | `availability_trace` and `stream_start_gate_violation` | `verdicts` |
| `Scenario` | both adapters of a case, the registry file, the frames, the summaries, the comparison | `verdicts` |
| `Opening` | opening exchange, observation, checks, the steps U1 to U4 and P1 | `verdicts`, `opening_early` |
| `CodePairing` | the code-pairing steps with server, client, person and checks | `verdicts` |
| `TimeExchange`, `TimeExchangeSdk` | `time_exchange` and its verdict; the SDK's reply queue and writer under it | `time` |
| `Link` | the validator's `Link` over the SDK server's handling of one client's connections, and its dial tasks for that client's url | `link`, `link_raises` |
| `PairingRecord` | the validator's pairing with the app over the steps, with the store, its file, the app and the user | `link`, `pairing_interrupt` |
| `PushStream` | the SDK server's `PushStream` on its main channel, and the player role it feeds | `audio` |
| `Timeline` | the play times of all channels | `audio` |
| `Writer` | a connection's queues and writer | `writer` |
| `Scheduled` | state that takes effect later, server and clients | `writer` |
| `Dial` | dial tasks, URL tables, registry, timers | `dial` |
| `Groups` | groups, roles' group state, what members are told | `dial` |
| `Admission` | which server a client serves, and its record store | `admission` |
| `PairSession` | both ends of pairing over one connection | `admission` |
| `MCRunner`, `MCVerdicts`, `MCLink`, `MCAudio`, `MCWriter`, `MCDial`, `MCAdmission`, `MCTimeExchange` | instances for TLC | |
| `CaseRunProofs`, `MatrixProofs`, `VerdictProofs`, `TimelineProofs`, `DialProofs`, `LinkProofs`, `AdmissionProofs`, `WriterProofs` | theorems | |

An MC module that names two or more of the others holds them **side by side**: a variable
`which`, chosen in the initial state, says which of them takes steps, and the
rest stay in one initial state. The components in one such module do not interact; they share
a run, not a state. Where the code does interact the modules are composed: `Matrix` uses a
case as `CaseSpec` describes it and `CaseRun` refines `CaseSpec`,
`TimeExchangeSdk` restricts `TimeExchange`, `CodePairing` and `PairSession`
hold both ends and the wire.

An operator introduced by a comment "Faulty variant" is a plausible bug in the
operation it precedes. No specification uses it; put in the operation's
place it breaks the property that guards against it. `PROJECT.json` "mutants"
pairs them.

### CaseSpec and CaseRun

`CaseRun` is `run_case` cut where it awaits. `pc` names the await (`Awaits`), or
the stretch of code between two awaits (`Stretches`); each action is one
stretch, with everything the stretch does.

* `Decide` is the chain of checks before the launch (`runner.py:1407-1506`).
  Its inputs, one record per case, are the outcomes the checks look at:
  supported, capable, build, command, per role. `ClearCaseDir` is the removal
  and creation of the case directory, in the same step.
* `SpawnServer` to `WaitClientExit` are the launch, the waits for the two ready
  files and the two exits. A launch opens the adapter's log before anything else
  (`OpenLog`); if it then raises or is cancelled, the log is open and no Process
  carries it, so `CloseLogs` passes it by. `GiveUp` is a wait that raises: time runs out, or
  the second spawn fails. Time is not counted; a bounded wait may give up
  at any moment, also when what it waits for is there (`wait_for` may lose the
  race against an exit it has observed), and it kills whatever has no
  returncode.
* `WaitKilledServer`, `WaitKilledClient` await the killed processes without a
  bound. `Judge` reads the summaries and records the result; it raises when a
  summary is cut off.
* `FFSpawn` to `FFJudge` are `_run_failfast_role`. `Cancel` is the cancellation
  of the task at any await, those of the launches included: the `finally` closes
  the logs of what was launched, nothing is killed.
* Adapters (`WriteReady`, `BeginSummary`, `FinishSummary`, `Exit`) may do any
  of it at any time, or hang. A summary is written in two steps, as `write_json`
  truncates and then writes. `Die` is SIGKILL taking effect, `Reap` is the
  event loop learning of an exit: until then `returncode` is None, which is
  what the code looks at.

Data kept of a summary: absent, partial (not JSON), ok, error (another status with a
reason), mute (one without). Data kept of a result: the status, the
kind of reason, who reported one, the mark, the exit codes as recorded.

`CaseSpec` is the promise in five variables: a case launches adapters while it
runs, ends once, with none alive unless it was cancelled, and passes only if
both vouched for it.

### Matrix

One action per step of a task or of the loop: `Begin` (clear the results,
create the tasks), `Arrive` (a task reaches the semaphore: takes a permit or
queues), `Resume` (a granted waiter runs), `Finish`, `Raise` (a case returns or
raises: its permit goes to the first waiter), `Return` (gather has all
results: the index is written), `CancelAll`, `CancelOne`, `Fail`
(`asyncio.run` cancels what is left after gather raised), `OrphanExits` (an
adapter of a cancelled case ends by itself). The semaphore is asyncio's: a
FIFO of waiters, a release wakes the first, `locked()` is true while anyone
waits. `MCRunner` runs it beside a case.

### StartGate

`ReceiveState` is `observe` on a client/state, `BeginFrame`, `ReachWire`,
`EndFrame`, `FrameRaises` are the recorder's `send_str` around the SDK's, with the
wire instant between its halves. `Snapshot` is `availability_trace` going into
the summary. `JudgeState`, `JudgeSending`, `JudgeSent`, `Conclude` are the
branches of the verdict's loop, over variables with the code's names. The ghost
`facts` keeps, per entry, what the server held, and for a sent frame what it
held at the wire instant: the recorder has neither. Stream starts come from
the SDK's single writer task, so one is in flight at a time. The server is
otherwise free. The roles a frame names, and the malformed traces another
adapter might write (`_gate_entries` returning None), are left out.

### TimeExchange and TimeExchangeSdk

`ReadClientTime` is `observe` on a client/time; `BeginSend` notes `began_at`,
`EndSend` appends the reply or calls `RecordOtherSent`, which inserts the mark;
`SendRaises` records nothing. `Verdict` is the loop of `time_exchange_violation`
(`Loop`, one `JudgeEntry` per turn), then `LeftUnanswered`. It is defined
on the list in any state, since a summary may be taken at any moment. The
ghosts `reads` and `done` are the true history. `TimeExchangeSdk` restricts the
server to the vendored connection: `HandleClientTime` queues a reply on the priority
queue, `QueueOther` any other message of that queue (an activation, the stream end of
a role it retires, a `server/unpair`), `WriteReply` and `WriteAnother` send its
head, `WriteOther` everything that comes after it. `Pause`, `WriteDirect` and `Resume` are
a pairing on the connection, which sends past the queue; `Disconnect` cancels the
writer mid-send. So a message may go out ahead of a reply (`overtaken`), and if the connection
ends before the reply the verdict has the SDK skip a client/time. `SdkIsBlamedAtTheCut`
says that this is the only blame and that it takes both.

The docstring of `time_exchange_violation` asks that the server sent another
message "and then received a further `client/time`"; the code, as
`tests/test_time_exchange.py` pins it, that the `client/time` is not the last
one received. `LeftUnanswered` and `SilenceIsNamed` follow the code.

### Link

The app's connections are numbered as the server takes them up. `stage` is the
handler's progress; `Accept` or `Dial`, `ReceiveInit`, `Attach`, `Reject`,
`Goodbye`, `Leave` and `End` are the server's, in any order. `Attach` is
`attach_connection`: it replaces an attached connection and has a task
disconnect it, and `_ConnectionEvents` records KEYED in the same stretch.
`Detach` is the end of `disconnect`, which detaches, and so makes a CLOSED
event, only if the connection is still the attached one. `current`, `is_open`,
`connections_since`, `Watermark`, `Settled` and `FirstOf` are what `Link`
computes from the recorder.

`reconnect` and `await_reconnect` are cut at their awaits: `ReconnectWaiting` or
`ReconnectDialing` (`_close` up to its first await, or on into `_next`),
`FinishDisconnect`, `SeeClosed` or `CloseTimesOut`, `SeePreviousClosed` or
`PreviousTimesOut`, `SeeDialed`, `DialRaises` or `DialTimesOut`, `SeeSettled` or `NextTimesOut`. Two abstractions: a wait whose
condition holds is not reported as timed out by `await_reconnect`, since a task that
has been woken runs within the same turn of the loop; and a connection has
one `client/init`, at most one goodbye and no other frames. `wait_until` is its
condition: it tests again after every event, and no await separates the test
from clearing the event. `tasks` are
the tasks that dial the app, `dial` the url's entries in the server's tables, `waiter` the
future Link awaits in `connect_to_client_and_wait` (`Connect`), `final` the connections that are
not redialed. A task whose dial failed, or whose connection ended, or that was cancelled
pops the url's entries and answers the waiter there is, whether they are its own or
those of the task that Link asked for meanwhile (`Over`). What a waiter is told other than a timeout
leaves the call as an exception (`DialRaises`), which `CallsAnswer` forbids and
`link_raises` finds. `connect_matching` is a loop of `reconnect`;
`note_keying` adds a KEYED event for a connection that has one.

### PairingRecord

`pc` is the step `SuiteRunner` does next; the steps in capitals ask the user
first, who may skip each (`Skip`). `memory`, `admit`, `disk` and `tmp` are the store
and its two files. `Save` hands the write to a thread and `saving` is the thread
whose end `SuiteRunner` awaits; `WriteTmp` and `Replace` are the two halves of
`_atomic_write_json`, on one temporary name. `Interrupt` cancels `SuiteRunner`
at a question, at a wait for the app, or at a save, whose thread goes on once it
has begun; the `finally` around the place runs. The ghost `cut` remembers a save
that was hit.

A session is what keyed it, what the server activated and what the app answered.
`Keying` is `_psk_provider` meeting the app's store: the server references its
record or the Sentinel, the app matches it or falls back. `Judge` is
`_judge_keying`. The app keeps the spec: it keeps its record until a `server/unpair`
on a long-term session, and what it loses by itself is connections (`Flaky`).
U2 to U4 are the reconnects they make, and the pairing suite is its outcome, a
record both have and a session rekeyed onto it. When the run begins, a record in
the store is one the app holds too.

### Scenario

`spc` and `cpc` are where the two adapters are. Registering
(`ServerRegisters`, `ClientRegisters`) takes two steps, because `write_text` truncates first
and the lookup of the other process polls meanwhile. `kind` is the scenario (PCM of either
depth, FLAC, Opus, framing, format request, metadata, controller, artwork), `fault`
the one thing an implementation does wrong, `adapter` what the client's adapter can
report. A clip is `Blocks` blocks; a hash is the sequence it was made from; a
chunk keeps what the framing verdict reads of its header. The deadlines end a wait
only when nothing is under way in either direction. `Verdict` is
`_compare_summaries` with the verdicts it calls, in their order, reduced to who is named.

### Opening

`spc` is the server in strict mode, `cpc` the client under test, `vpc` the
validator's own task (`session.py` and the step). `rec` is the recorder's list:
what the server sends is appended when sent, what the client sends when the
server reads it, and the server reads nothing between `client/hello` and having
sent its activation. The client conforms except for one of about forty faults, each a
field, a message or an answer. The checks of `checks.py` and the judges of the
steps are operators over `rec`, with the same early returns (N/A when
the connection was rejected before what they look at).

### CodePairing

One walkthrough step at a time: digits, QR token, static code, cancellation, time-out,
lockout. `att` is the SDK's attempt, `cli` the client's, `pc` the step's place in
its own script; the person enters a right or a wrong code, opens the window,
skips, or is slow. Every wait of the walkthrough has its deadline, which may
fall first while nothing is on the way. `Findings` is the list the checks return for the step, read off
`log` as the code reads it off the connection's record.

### PushStream and Timeline

`PushStream` cuts `commit_audio` where it yields to worker threads: `load`,
`yield`, `resample`, `encode`, `deliver`. Whatever it re-reads after each
(`_is_generation_active`, membership, the transform key) is a condition of the next
step. A catch-up is a task of `s.tasks` with the pieces it has yet to encode;
it yields every `YieldEvery` pieces. `heard` is the ghost: what each role was sent, with
the number of the piece and whether the stream/start that announces its
had been sent. `NoHoleAlone` says that no role misses a piece as long as one change
(join or format) is under way; with two it may (section 6). `ReapFirst` says in which order the loop runs a cancelled
catch-up's `finally` and the call that follows the cancellation; it is a named
constant because the event loop fixes it and the code does not. The runs take FALSE;
that a `finally` which runs late removes its successor's entries needs a third change and has no property.

`Timeline` is what does not await: `_resolve_channel_play_start`,
`_advance_channel_timing`, shifting all channels after a stall, historical audio
before the live edge, the rebase of a channel on a join. Times are ticks; a
channel with a rate has a rest that whole ticks lose.

### Writer and Scheduled

`q` holds the queues, `ready` and `delayed` tickets with generations as in
`connection.py`; `writer.pc` is where `_writer` is: looking, sending, asleep with a
deadline, paused. Producers enqueue audio, messages, clears and ends, drop
pending audio, and an activation pauses the writer, drains, swaps roles and
resumes it. A message of no role (server/time, a change of activities) goes ahead of the
roles' queues. `client` is what the wire told the device; `stray` collects what reached it
out of place. Both loops over data, a role's held chunks and the roles that retire, are
recursive functions over a sequence, so that the proofs can follow them.

`Scheduled` has the server's current and pending state, the one loop timer, and
per client the channel, what it shows and what it holds. Loop timers are late by up to
`Slack`.

### Dial and Groups

`task` is one background task per dial (`new`, `connecting`, `session`, `sleep`),
`tab` the tables by URL, `conn` the connections from hello to close, `client` the
registry. `asked` is the ghost: what callers and announcements last asked of each URL. A
cancelled task ends in a step of its own, so that its `finally` runs after
whatever the canceller did next. A URL may be dialed again
before that step, as the validator does; the new task is then beside one whose end will
pop its entries. `asked.beside` has such a URL until it is dialed anew with no
task left, and the clauses on tasks and waiters leave it out, but not the others.

A handler of `Groups` never gives up the loop, so each is one step and a
composition of operators on the whole state `w`; what makes it hard is that
leaving, stopping and renaming call each other and the roles' hooks.

### PairSession and Admission

`PairSession`: `s` and `c` are the ends, `s2c` and `c2s` the frames, each with the
key it was written under. An attempt is admission, gesture, rounds with codes,
finalize, store, acknowledge and re-key; application calls (unpair, activate, cancel),
time-outs and the loss of the socket may come anywhere. Calls begin also while the
session returns to its record, when `_in_pairing` is cleared already: an attempt begun there
(`InitiateEarly`) ends the connection (`EndsEarly`), and a change of trust queues an activation
written for the session before, which is sent after the one of the new session (`Late`; `behind` until the client is told again).

`Admission`: `conn[k].pc` names the await a connection is at, `lock` who holds
the admission lock, `open` and `prov` the slots, `recs` the store in order of use.
Every write of the store's file lets other tasks run. `gone`, `late`, `young`, `cut`
and `failed` are ghosts that name the exceptions the properties make.

## 3. Runs

| Run | Instance | Shows |
|---|---|---|
| `case` | 30-odd cases: the launched pair, and every way one or two competing decisions stop a case; every content of the directory beforehand | `NoAdapterOutlivesCase`, `PassIsEarned`, `ReportedReasonLeads`, `LaunchDiscipline` (a case one side cannot run launches that side alone; logs outlive adapters, and only a launch that came to nothing leaves one open), `KeepsThePromise` (refinement of `CaseSpec`), `CaseEnds` |
| (`case`) | beside it, a matrix of 5 cases and 2 jobs | `PermitsConserved`, `IndexTellsThisRun`, `MatrixEnds` |
| `verdicts` | traces of up to 6 entries; 5 attempts of 2 rounds; a clip of 3 blocks, 9 kinds of scenario, 19 faults of an implementation; 5 plans of the validator, 41 faults of a client; 14 of one that pairs by code | `BlameIsReal`, `PassIsWitnessed`, `GapIsIgnorance` of the gate; `ConformantNotBlamed`, `FaultIsFound`, `BlameIsFair`, `EveryoneReports` of the others |
| `time` | 2 senders, 3 client/time, 3 sends, 2 values; any server, or the SDK | `BlameIsTrue`; `SilenceIsNamed`, unless sends overlap; `BlamedOnlyAtTheCut` (the SDK) |
| `link` | 3 connections, 2 dial tasks, another client, `Link` waits or the server dials; every set of suites, an app that comes and goes, Ctrl-C anywhere | `ReturnsTheNextOne`, `CallsReturn`; `PairingIsKept` (unless Ctrl-C came at a save); `StepsAreFair` |
| `audio` | 2 channels of 2 rates, 3 calls on the timelines; 2 roles of 2 formats, 4 pieces, 1 clear, 2 changes | `DriftFree`, `Placed`; `Delivered`, `PipelineInOrder` |
| `writer` | 2 roles, a device of one chunk, queues of 3, 5 calls; 1 client of each kind, 4 calls of the scheduled state | `OnlyTheStream`, `BufferBound`, `WriterAttends`; `InSync` |
| `dial` | 2 URLs, 2 devices, 2 tasks and 2 connections in all, 3 calls; 3 clients of three kinds, each alone or all in one group, 3 steps from there | `RegistrySound`, `DialsAreAccounted`; `MembersToldTruth`, `PlaybackFollowsPlayers` |
| `admission` | 3 connections of 2 servers, a store of 3, a message budget of 4; 2 long-term credentials, 6 handshakes, 4 calls | `AdmissionSound`, `StoreSound`; `SessionReads`, `BothEndsAgree` |
| `case_raises`, `opening_early`, `pairing_interrupt`, `link_raises` | as `case`, `verdicts`, `link` with an app that stays, and `link` with 2 connections | `RanCaseHasResult`, `EarlyMessageIsFound`, `PairingIsRestored`, `CallsAnswer` are violated (findings) |

The passing runs have between 37 thousand (`case`) and 4.2 million (`writer`)
distinct states.

### Bounds

A case has two roles and no loop but the waits, so `CaseRun` is checked without
a bound; only the combinations of three or more failed decisions are left out,
where the first in the code's order hides the rest. Five cases on two permits
have two running, a waiter that is granted, one behind it and one not yet
arrived, in every mix of returning, raising and being cancelled. Six entries of a
gate trace hold two brackets of which the second is judged with the first's
leftovers. Three client/time messages are one skipped, one answered and one last; three
sends are a reply, a mark and another that overlaps either; two values make an echo
ambiguous or wrong. Three connections of `Link` (`MaxConns`) are the one left behind,
one that fails, replaces it or is missed, and the one after, and two dial tasks
(`MaxTasks`) the cancelled one and its successor; calls follow each other without a bound.

`CodePairing`, `Scenario` and `Opening` are finite by themselves: their scripts
end. `Attempts` = 5 is the lockout's run; `Blocks` = 3 has a first, a last and one
between. In `PushStream`, two roles with two changes are a join or format change while
another is under way, four pieces (`MaxAudio`) are one cached, one in flight, one buffered and one
later, `YieldEvery` = 2 gives way inside a replay. `Times` = {9} makes a stall long against
`SendAhead`; `MaxCalls` = 3 is two commits and the join or the history between
them. In `Writer`, a device of one chunk (`Capacity`) makes every second chunk wait, and five calls (`MaxOps`) are
a start, two chunks and two that supersede them. Three calls of `Dial`
are a dial, a disconnect and another dial; `Reasons` leaves out the goodbye reasons that
take the same branch. `Volumes` has one value, as a group's volume is told when
it comes to be. In `Admission` one connection is in place, one
displaces it and one arrives meanwhile; `Capacity` = 3 is one more than `CapacityKept`
needs. Six keys are a connect, a re-key for the method, one onto the record,
and the same again after a failure.

Deadlock checking is off where something ends or where a bound stops it, which is all runs but `time`.

One constant says what the code leaves to the event loop: `ReapFirst` is FALSE in the
runs; section 6 says more.

### Fairness

`CaseRun`: weak fairness of the runner's next step, because the event loop
resumes a coroutine that can run and every wait on an adapter has a timeout; of
`Die`, because SIGKILL cannot be refused; of `Reap`, because the child watcher
reports an exit. Adapters get none: they may hang. `Matrix`: weak fairness of
each task's step, of which "a case ends" is `CaseEnds`, and of the loop's own
steps. `Link`: weak fairness of `Resume`, because the event loop resumes a
coroutine whose future is done, and every await is bounded; the app and the
server's handlers get none. `CodePairing`: weak fairness of the protocol (frames
are delivered, time-outs fire) and of the walkthrough's own task; the person
gets none, but in the lockout step for the wrong codes the step itself
supplies (`_wrong_static_provider`). `Scenario` and `Opening`: weak fairness of the next
step, since both adapters and the validator are tasks whose every wait has a
deadline, and a deadline is one of the steps. The other properties are safety properties.

### Findings

* `case_raises`: `run_case` guards the comparison of the summaries with "never
  let one bad case crash the whole matrix run", but reads them before, outside
  any `try`. An adapter that exits halfway through `write_json` leaves a file
  that is not JSON; `run_case` raises, `gather` raises, and the run ends
  with its results cleared and no index.
* `opening_early`: CORE-ORDER-001 is judged on what the record holds before
  the activation. The server reads nothing between `client/hello` and having sent
  `server/activate`, so a state sent in between is recorded after it and passes.
* `pairing_interrupt`: R3 removes the record before its `try` (`validator/suites.py:583`), so Ctrl-C
  while the removal is written ends the run with nothing to restore it, and the
  thread renames the file without the record into place. Where a `finally` does
  restore it (`_unpaired`, in U1), a longer trace loses it too: a cancelled save releases
  its lock while its thread still writes, the restore has a second thread
  write the same temporary file, and the file without the record may be the last.
* `link_raises`: the app's connection has ended when `reconnect` is called, so `_close` cancels
  the dial task and `_next` asks for the next connection in one step. The old
  task's end pops the new one's entries, the request to retry among them; when the first
  dial then fails, the waiter is given the exception, and the call raises where class `Link`
  promises None.

## 4. Proofs

The theorems hold for every value of the constants; TLC had confirmed each
invariant first.

* `CaseRunProofs`. For every set of cases: `TypeCorrect`, `NoOrphans`,
  `PassedIsEarned`, `ReasonLeads`, `LaunchIsDisciplined`, and `Implements`, the
  refinement of `CaseSpec`. The properties are not inductive: that no adapter is left at the
  end needs to know, at each await, who can be alive, what has been reaped and
  that a reaped process is dead. `Phases` says it await by await,
  `ReapedIsDead` the last; `Records` says that nothing is recorded before the
  end and that a summary on disk is this run's once the directory has been
  cleared. Which side was launched follows from `Fitness`: what `Decide` found
  against a side still holds when the case ends; `LogsClosed` does the same for
  the log handles: whose log may be open without an adapter, and where the case then is. The refinement is proved action by action under this invariant.
* `MatrixProofs`. For every number of cases and jobs: `SemaphoreCorrect` (type,
  `PermitsConserved`, and with it `NoIdlePermit` and `NoOvertaking`, which no
  run repeats) and `IndexCorrect`. The strengthening relates the queue to the tasks that wait
  (`Queue`: sorted, no duplicates, exactly the waiters), the order of arrival
  (`Arrivals`) and what each phase allows (`PhaseFacts`). Assumed:
  `NumCases` natural, `Jobs` positive (`run_matrix` raises ValueError otherwise).
* `VerdictProofs`, on `StartGate`. For traces of any length: `BlamesAreReal`,
  `PassesAreWitnessed`, `GapsAreIgnorance`. The invariant has two halves:
  `RecorderInv` (each sent entry closes a bracket that only client/state
  entries crossed, and the wire instant lies in it) and `JudgeInv` (the loop
  variables against the entries read). They meet in lemma `BracketsAgree`, on
  reading a sent entry.
* `VerdictProofs`, on the time exchange. For any senders and values and any numbers of messages:
  `VerdictSaysWhatHappened` (`BlameIsTrue`), `NoSilenceOverlooked` (`SilenceIsNamed`) and
  `SdkBlamedAtTheCut` (`BlamedOnlyAtTheCut`). A mark is inserted into the middle of the list, so nothing can be said of
  positions that stays true; `TimeInv` speaks of counts (`UpTo`): how many client/time messages, replies or
  echoes of a value lie up to an entry, against how many had been read or written when it was
  recorded. The client/time messages and the replies are listed in the order in which they happened
  (`TimesOK`, `RepliesOK`), and a mark lies no later than where the send began that it stands for (`MarksOK`),
  or, while sends do not overlap, at that place (`AloneOK`, `Alone`). Inserting leaves
  every count as it was, but for the entries moved by one (`InsertedSets`, `MarkCounts`). `Clean` says in the
  same counts what the loop holds after n entries without a blame: whom it takes for unanswered,
  passed over and answered last; `LoopTurned` follows it turn by turn. Of the SDK, `SdkOK` adds that the n-th reply is to the n-th
  client/time, that the queue holds the rest of them in order, among the other messages, and that as
  long as nothing has overtaken a reply a mark lies only where all before it is answered. Assumed: `NotInteger` is no value.

* `TimelineProofs`. For every finite set of channels, every set of sample rates
  and buffer lengths: `TypeCorrect`, `TimelinesAreDriftFree`, `LiveAudioIsInTime`
  (`FloorKept` and `NoOverlap`). The invariant is about every channel, those
  without a timeline included, since a channel that is placed later inherits what
  it was left with: `Sound` (the count is exact and the timeline is not behind
  the end of its audio), and a channel that never had audio has an end of 0.
  `Rebase` and `HistoryStart` need the least of a finite set of instants to be
  one of them (`LeastValue`, by the shortest prefix of an enumeration that has no
  least value); `AdvanceSound` is the arithmetic of the remainder.
  `ChannelsStayTogether` (`Aligned`) and `AudioIsPlaced` (`Placed`, for `MCSpec`) compare
  the channels that listeners share, two by two (`Together`). Ticks alone are not inductive: a
  tick is gained when the remainders add up to one, so that `Even` bounds the distance with
  the remainders counted in, and holds as long as all carry remainders of one rate.
  Where they do not, `Near` has them nearer by the one tick that a remainder may still add.

* `DialProofs`. For any addresses and devices, any number of tasks and connections:
  `RegistryIsSound` and `DialsAreAccountedFor`. `RegistryInv` relates the four tables the
  server keeps of a dial: the task of an address, the connection its session has, the
  task and address that connection notes, and the registry's entry of the device; a
  connection's task is where its stage allows. It includes the properties, but needs
  that connections are numbered in the order in which they are made and that a task's
  last one is the one in its table. `AccountInv` adds why: one task per address, cancelled or not
  (`OneTask`), what a task has told its waiters by each stage (`TaskStages`), that a
  redial is noted only on a connection that closes for good (`RedialNoted`), and that a
  goodbye is noted or still to be read off the connection when its sender announces itself
  again (`EndedNoted`). An address dialed beside a task that is not over
  is left out until it is settled (`asked.beside`), and `BesideCut` says that its waiters count as
  disconnected, which they may in effect be (section 6).
* `LinkProofs`. For any number of connections: `NextOneIsReturned`, `SuitesKeepThePairing` and
  `AppIsJudgedFairly`. `LinkInv` adds to the type of `Link` that what a call holds was once current, and
  that while it settles nothing it counts as new is above its watermark. `PairInv`
  follows the record through five places, the store's memory, its file, the thread that saves,
  the copy the step took and the app, for every step at which Ctrl-C may strike
  (`StoreInv`, `MemoryInv`, `PlaceInv`), and what the session last seen says of them
  (`SessionInv`); only an R4 the app was not told of is blamed (`BlameInv`).
* `AdmissionProofs`. For any connections and servers, any room in the store for at least the three
  records it starts with (the code has room for five or more): `AdmissionIsSound`. `AdmInv` says who may hold the lock (`LockOK`), that whoever is past the
  decision is the one admitted, until it has closed (`AdmittedOK`), what the withdrawal of
  unpaired access leaves (`ShutOK`), and that a decision still holds when it is acted on, but
  for the playback that began in between (`ChosenOK`). Assumed: the markers for nobody and
  for the configuration's own use of the lock are no connections.
* `AdmissionProofs`, on the store, under the same assumptions and for any number of
  messages and records: `StoreIsSound` (`StoreSound`). `StoreInv` holds on top of `AdmInv`. No two
  records have one id, and ids are given out in turn (`RecordsOK`). A connection has found or runs on
  a record only at the places where it is tracked, open or provisional, and so protects it
  (`LinksOK`). The heart is `UsedOK`: what a session runs on is not just in the
  store but in `Stays`, the records that no removal decided earlier and still to come will
  take, unless it was found while one was (`late`). Likewise `LeftOK`: each superseded record has a removal
  to come, a connection that will cause one when it closes, or a failed handshake.
  `RoomOK` is the bound on the size; it rests on `TrimmedIs`: what is left of a store that is
  trimmed is all that is protected, and no more than there is room for unless all that
  is left is protected. `Without` and `Trimmed` pick records by position (`At`,
  `UpTo`), since `SelectSeq` cannot be expanded by the provers; lemma `AtKeeps` says what such a pick keeps.
* `AdmissionProofs`, on `PairSession`. For any methods and limits, any number of calls,
  handshakes and credentials, and queues of any length: `FramesAreRead` (`SessionReads`) and
  `EndsAgreeHolds` (`BothEndsAgree`). None of what they state is inductive, since the ends never look at
  each other but through the queues. `SessionInv` says of two ends that are up that they are in
  one session (`Session`): the queues hold frames under its key alone (`Steady`), or behind
  them the one message of a handshake (`Open`), or its answer (`Accepted`). Where the client lags behind
  is said of the queue: after the last activation on the way it is where an idle server
  takes it to be (`Idle`); the admission of an attempt is on the way with at most an unpair behind it
  (`Announcing`); or both are in the attempt (`Conversing`) and `Talk` lists, for
  each place of the server, the place of the client, what is asked of it on the way and what it has said
  that is still to be read. A client that left did so from such a place, with an abort behind what
  it said (`Stance`); what it said in earlier attempts is told by its number (`Earlier`).
  `Closing` is the move onto the stored record. Each of the 31 actions has a lemma
  (`InitiateOK` to `ClientUnpairsOK`). A call that begins during the return is one of them: after
  `InitiateEarly` all that is left is the end of the connection, and a late activation
  is said of the queue, whose last one then is not what an idle server takes the client to be (`behind`).
* `WriterProofs`, on `Scheduled`. For any members, old and new, and any states: `ClientsAreInSync`. Each
  member's channel is read as a whole (`MemberOK`): its newest message, if
  any is under way, or else what the client holds, is what the server means the client to
  have; and the one timer is for the pending state, or about to find that it was for
  an earlier one (`TimerOK`). Assumed: a loop timer is late by less than the lead,
  which is 20 seconds (`MAX_SCHEDULED_LEAD_US`, `scheduled_state.py:17`).
* `WriterProofs`, on `Writer`. For any finite set of roles, any bound of the queues and any
  buffer: `WriterForgetsNoRole`. The invariant `WriterInv` has `QOK` of the queues: an entry is in its role's
  queue under a number of its own (else `Head1` would choose among equals), no queue is
  over its bound, and a blocked role is on the list of delays with its time and generation; and
  every role with something queued is `Cared` for unless it is the one being sent. Every call
  of a producer `Keeps` the queues: it forgets nobody, and wakes the writer if it changed
  what the writer looks at. `Keeps` is transitive, so that a call made of five others
  needs no proof of its own. The writer's own steps are proved by what they do to the one role they serve and
  that they leave the rest `Cared` for (`Looks`). `Promote`, `Popped`, `Block` and the
  discards have a lemma each.
* `WriterProofs`, on what the client hears. `AudioStaysInItsStream` (`OnlyTheStream`): `StreamInv`
  compares, role by role, the stream the role believes in, its queue and the client
  (`StreamOK`). What counts in the queue, stream messages and chunks of the current
  epoch, leaves in the order of the calls, and an end before all else (`InOrder`); the client is
  behind the role by exactly the starts and clears that are queued, and each chunk follows
  its own (`Follows`); held chunks are of the stream the role is in (`HeldFit`); a client
  whose stream is over has its end queued or among the messages that go ahead (`Ended`).
  Those messages are led by the ends of the roles that retire (`PrioOK`), so no activation
  overtakes one. A call is proved by what it does to its own role's queue and that it keeps `Apart`
  from the others; an activation by what `RetireAll` leaves of each role.
* `BufferNeverOverruns` (`BufferBound`): the tracker counts every chunk the client has not
  played (`Counted`), or it was reset, and then a clear or end that empties the buffer is still
  queued ahead of the next chunk (`WillEmpty`). A chunk is sent only where `Prune` left room for it
  (`NoWaitIsRoom`), and the head of the queue is a chunk only when nothing that empties
  stands before it, which is `StreamInv`'s order of the queue (`HeadMeansCounted`). Both
  theorems hold for every number of calls and every time: `MaxOps` and `MaxNow` are any naturals.

**Induction.** The library's induction theorems take an operator as a parameter and cannot be
instantiated here. Where a proof needs induction over data (a recursive function over held
chunks, retiring roles or a recorded list, the greatest of a range, the last of a finite set) it takes
the least counterexample instead: lemma `LeastOf` (`WriterProofs`, `VerdictProofs`) gets a least element from
`NatLessThanWellFounded` and `WFMin`, and the case before it refutes it. The same argument
shows that the recursive function exists (`HeldPath`, `RetirePath`, `LoopIs`).

Model-checked only:

* liveness (`CaseEnds`, `MatrixEnds`, `EveryoneReports`, `CallsReturn`), which needs fairness and
  ENABLED;
* `Delivered` and `PipelineInOrder`, `MembersToldTruth`, and the verdicts of `Scenario`, `Opening` and `CodePairing`:
  no proof has been written yet. What `PushStream`, `Groups` and `Scenario` compute is built from library folds and filters
  (`FoldLeft`, `SelectSeq`, `MapThenSumSet`), which the provers cannot expand; they would first have to be restated by position or as
  recursive functions, as was done for the time exchange and the store. `Opening` and `CodePairing` have none, but check each walkthrough
  against some forty faults, a case analysis that TLC makes exhaustively. `MembersToldTruth` also needs enough ids in `Ids` that one is always free.

## 5. What is not modelled

* The text of reasons, command lines, logs, HTML; cryptography, codecs, the
  numbers of the time filter, encoder and resampler latency.
* Wrappers (`go run`, `dotnet run`) that survive the kill of their parent; the
  ports of a case, which are arithmetic on its number (1000 apart, `runner.py:382`).
* The scenarios protocol-baseline, visualizer and source, and so `activation_violation` and
  `group_update_violation`; overlapping `register_endpoint` calls.
* Of the validator: the checks of R1 to R5 (outcomes in `PairingRecord`),
  `connect_matching` (a loop of `reconnect`), `record.rejected` and three questions to
  the person in `CodePairing`, discovery, the identity file.
* Of `PushStream`: visualizer tracks and the encoding of historical audio.
* Of `Groups`: initial-state gate timers and holds, the redistribution of a
  group's volume over its players. Of `Dial`: external players, start and stop
  of the server. Of `PairSession`: management messages. Of `Admission`: removal of records by the
  user.
* Merging of results, the regression gate, the site, tables, toolchains:
  sequential, no state worth a model. Three things there are worth a
  note nevertheless. `merge.py:45` removes its output before it reads its inputs;
  a filter given twice plans the same case in two slots with one directory (`runner.py:1657`);
  a fresh start writes the new identity before it unlinks the old pairing
  records (`validator/storage.py:70`), so that a crash in between leaves records
  of another identity.

## 6. Observations

What the models showed that no document contradicts, or that depends on an
order the code leaves open. Each is excluded from a property by a named
condition, or noted beside it.

* **Case.** The log of a launch that fails or is cancelled is closed by no code
  (`process.py:43`); the interpreter closes it when it collects the handle.
* **Time exchange.** A `server/activate`, a stream end or an unpair shares the queue with the replies. Queued
  before a reply it goes out first, and if the connection ends there the verdict has the
  SDK send past a client/time.
* **Link.** A replaced connection never gets a CLOSED event (`sdk/server/connection.py:1035`):
  `await_reconnect` (`validator/suites.py:228`) returns None although the app restarted.
  `reconnect` takes its watermark after the close (`suites.py:219`): a
  `client/init` that arrives meanwhile is never found. An exception of a dial (`link_raises`), or
  the CancelledError with which a cancelled task answers the waiter of its successor
  (`sdk/server/server.py:1065`, `:1101`), goes through `SuiteRunner.run` as Ctrl-C does in `PairingRecord`: the
  `finally` around the step restores the record. Not modelled: a task cancelled before its first
  step, and a cancellation swallowed where `disconnect` awaits its writer.
* **Suites.** R4 (`suites.py:624`) unpairs on any open session; with R1, R3 and R5
  skipped that is a Sentinel session, where the app ignores `server/unpair`, and
  POSTPAIR-004 fails it.
* **Opening.** With unpaired access off, an early message is reported as
  CORE-STATE-003; a state before the hello also fails CORE-HELLO-001; the opening's
  checks run over the whole record, so a client that is silent in U2 fails CORE-STATE-001
  too; a goodbye in flight when P1 begins fails PAIR-PSK-003.
* **Code pairing.** A person who never opens the window fails the client's
  PAIR-STATIC-003, a slow one PAIR-DYN-003, one who mistypes round 1
  PAIR-DYN-010; a window that ends between lockout attempts fails PAIR-STATIC-009.
  `slow` is the ghost that `ConformantNotBlamed` excepts.
* **Scenario.** A lookup that reads the registry while it is written raises
  JSONDecodeError and the adapter reports it as its own failure. A client that does not decode passes
  with part of a clip.
* **PushStream.** With two changes `NoHole` fails: two deferred joiners of a new
  key count each other in `_other_roles_use_transform_key`, and neither is
  caught up; `NoHoleAlone`, which is part of `Delivered`, is what holds. With `ReapFirst` FALSE and three
  changes a cancelled catch-up's `finally` removes its successor's entries;
  catch-ups that share a PCM shape overwrite each other's resampler.
* **Timeline.** `_rebase_far_ahead_join_tail` puts a rejoining role's channel near
  now while the others are far ahead. Channels drift apart by up to two ticks for each commit
  that leaves one of them out or brings a late one beside others. A late channel joins at the
  earliest position of all that are active or prepared (`push_stream.py:1347`): a
  prepared channel that nobody listens to may be anywhere, and drags it behind those that
  are heard. `Aligned` excepts such a commit.
* **Dial.** An address that is dialed again while its cancelled task winds down loses its
  entries to that task's `finally` (`sdk/server/server.py:1111`): the new task goes on without a place in
  the table, so that disconnecting does not reach it, two tasks may dial one URL, and whoever
  waits may wait for ever. Whoever waits in `connect_to_client_and_wait` also waits for ever if the
  URL is disconnected during a redial or before the task starts.
* **Groups.** A hello sent again that newly lists the player role does not register the client's
  events (`sdk/server/client.py:635`).
* **Scheduled.** A pending state replaced within the lead is not restated first;
  a timer later than the lead sends nothing; a client without a synchronised clock
  applies at once.
* **PairSession.** A call of `initiate_pairing` while the session returns to its record
  writes under the key that is being retired, and the connection ends; a change of trust there leaves the client
  with the activation of the session before, until the next one. Sends are one step, so a
  call that begins between the two messages of the return is not modelled. A late `pair/abort` of the client can
  abort the next attempt. `NoFault` excepts two cases: that
  call, and the client giving up on the acknowledgement, so that the server re-keys onto a record only it has.
* **Admission.** Which records are protected is computed before the file is
  written; a pairing cancelled during the write leaves the store untrimmed; a failed handshake that
  had resolved a record leaves the superseded one; a decision to displace may be
  stale when it is carried out (`late`, `cut`, `failed`, `young`). Open connections stay below the
  capacity, "so a completing pairing always finds a record it may evict"
  (`client/client.py:940`), but connections still being brought up beyond the limit protect their
  records too (`:931`), so a store may pass its capacity by those (`cut`); `trust_store.py:492` allows for it.

## 7. Plan

1. done: the runner, the verdicts and recorders, the validator's links, suites,
   opening and code pairing, the SDK's stream, writer, dialing, groups,
   scheduled state, pairing and admission.
2. Proofs still to write: `MembersToldTruth`; `Delivered` and `PipelineInOrder`; the verdicts of `MCVerdicts`.
3. Composition: `PushStream` as the producer of `Writer`; `Admission` with
   `PairSession` as each of its connections.
4. Abstract specifications: a stream as the sequence of pieces a role is promised,
   which `PushStream` implements as long as one change is under way.
5. The protocol-baseline scenario in `Scenario`; initial-state gates in `Groups`;
   overlapping registrations.
