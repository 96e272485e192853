# Verification of pdf-to-epub and its LocalSend plugin

TLA+ models of the parts of this repository in which several actors race, the
TLC configurations that check them, and TLAPS proofs of the properties that
matter most.  `PROJECT.json` is the index: components, runs, the definition to
source-line map, hazards, findings and theorems.

1. Inventory of the system
2. Modules, and how they correspond to the code
3. Runs: what is checked, with which bounds, under which fairness
4. Proofs
5. Findings and deviations
6. What is not modelled
7. Plan

## 1. Inventory

The repository has three programs.

* A **desktop application** (Python, `src/src/pdf_to_epub`) converts PDF to EPUB
  (page extraction, OCR, EPUB packing) and sends the result to an e-reader.
* A **LocalSend program** (Go, `src/koreader-plugin/cmd` and `internal`) runs on
  the e-reader.  `recv` is a long-lived HTTP(S) server and WebRTC receiver,
  `send` and `scan` are one-shot commands.
* A **KOReader plugin** (Lua, `src/koreader-plugin/lua`) starts, supervises and
  stops the Go program from KOReader's single UI thread.

They interact over the LocalSend HTTP protocol (desktop -> Go receiver), WebRTC
data channels set up by a signaling server (web application -> Go receiver), and,
between Lua and Go, by processes, signals and files: a PID file, a busy marker,
a transfer log and firewall rules.

| Component | State | Operations | Hard because | Correct when |
|---|---|---|---|---|
| HTTP receive sessions (`session/recv.go`, `recvsessman.go`, `recv/handlers.go`) | session map, admission mutex, per session `started`, `filesCount`, `lastActivity`, per file status, attempts, target | prepare-upload, upload, cancel, vacuum | handlers run in parallel, state is checked before and used after a body that may take hours, the counter is changed outside the lock, files outlive sessions | one writer per file, reported files complete on disk, no leftovers, the session ends exactly when its files are done, a dead client blocks nobody for good |
| Plugin lifecycle (`localsend_server.lua`, `main.lua`, `localsend_transfers.lua`, `localsend_power.lua`, `localsend_state.lua`) | PID file, firewall rules, operation id, `stop_in_progress`, restart request, registered handlers, power holds, scheduled closures | start, stop, restart, suspend, resume, network events, document switch, exit | scheduled closures outlive the operation and the widget that made them, KOReader can crash, processes can outlive signals, pids are reused | the PID file names every running receiver, ports are open while it runs and closed after, it is stopped before sleep, the user's stop is final |
| WebRTC receiver (`webrtc/transfer/receiver.go`) | state, peer, accepting, tokens, file in progress, writer, hash, PIN attempts, paired peers, block list | AcceptOffer, message handlers, close callbacks, Close | callbacks of several connections share one receiver and are not told apart; the mutex is dropped for network calls and for the selection callback; connections are closed in goroutines | busy only for a live reason, PIN and pairing before files, no connection forgotten, no session taken over |
| WebRTC sender (`webrtc/transfer/sender.go`), peer connection (`peer.go`) | handshake state, response channels of one place, send buffer, drain event | Send, SendFiles, Close, open, message and close callbacks | responses race with timeouts and Close; channels of capacity one are filled under a mutex; headers are sent ahead of acknowledgements | a reported success is one, frames stay under their own header, no drain event is missed, the program ends |
| Signaling client (`webrtc/signaling/client.go`), reconnect loop (`cmd/recv/recv.go`) | socket, peers, answer callback, offer, send and info channels, id file | connect, HELLO wait, read, write, ping and refresh loops, Offers, Close, reconnect | five goroutines, bounded channels, a watcher that sets deadlines, silent connections | offers after the subscription are not lost, a break is noticed and repaired, everything ends on Close |
| PIN gate (`utils/ratelimit.go`, `recv/recv.go`, `send/rvsend.go`) | failures per address with their age; sessions of the reverse sender | check, compare, record, clear, clean up; create and use a session | check and record are separate critical sections | wrong PINs are bounded, a block holds, a session serves only its client |
| HTTP sender (`send/fwdsend.go`, `cmd/send/send.go`) | jobs, workers, tracked connections, abort flag, session id | prepare, upload with retries, Cancel, signal | cancel against a dial under way, lost answers, a receiver that stops reading | nothing is sent twice or after a cancel, success is true, a failure releases the receiver |
| Discovery (`localsend/scan.go`, `recv/recv.go`, `cmd/scan`) | sockets, tasks, keys in flight, device table, subnet probe | bind, listen, answer, register, expire, evict, probe, rebind, Stop | two listeners, answer goroutines, a supervisor that replaces the Discoverer, cancellation at any step | table and keys consistent, no socket left behind, listening resumes, cancellation ends all |
| Nonce cache (`localsend/nonce_cache.go`) | LRU list and map | add, get, evict | two structures must agree | map and list hold the same keys, at most the limit |
| File names and routing (`utils/files.go`, `folderremap.go`, `paths.go`, `recv/routing.go`) | none | unique name, remap | interplay with O_EXCL | result is inside the save directory and free |
| Busy marker and transfer log (`cmd/recv/activity.go`, `recv/recv.go`) | marker file, log file | begin, end, LogTransfer | Lua reads while Go writes | marker present only during transfers |
| Trusted devices (`storage/trusted_devices.go`) | map, file | add, evict, save | crash or failure in the save | file and map agree |
| Plugin sender, scan, updater (Lua) | operation ids, pid files, staged directories | send, cancel, update | late polls, crash points | as the lifecycle |
| Converter, desktop, LocalSend client (Python) | job, event queue, pause gate, identity files | convert, pause, cancel, send | worker thread against UI thread, crash between two writes | output published whole, no event applied to the wrong job |

The other parts (cryptographic primitives, message encoding, dialogs, i18n,
diagnostics, command lines, installers) are listed under `components` with the
reason for leaving them out.  Every hazard found in the survey is under
`hazards` at its line, with the properties that cover it or the reason none does.

## 2. Modules

| Module | Models |
|---|---|
| `RecvSessions` | HTTP receive sessions |
| `FileDelivery` | abstract: what a receiver of offered files promises |
| `RecvDelivery` | the refinement mapping from `RecvSessions` to `FileDelivery` |
| `PluginLifecycle` | plugin, receiver process, KOReader and device |
| `RTCReceiver` | WebRTC receiver and the connections it sees |
| `ReceiveSlot` | abstract: what a receiver of one session at a time promises; `RTCReceiver` maps its state to it |
| `RTCSender` | WebRTC sender over its peer connection |
| `Signaling` | signaling client, and the programs that own one |
| `Discovery` | Discoverer, the receiver's supervisor, the scan |
| `HttpSender` | forward sender and the send command |
| `PinGate` | PIN check and rate limiter of both HTTP servers, reverse sender's sessions |
| `RecvSessionsProofs`, `DiscoveryProofs`, `PluginLifecycleProofs`, `RTCReceiverProofs`, `RTCSenderProofs`, `SignalingProofs`, `HttpSenderProofs`, `PinGateProofs` | theorems and proofs about the module of that name (`RecvSessionsProofs` and `RTCReceiverProofs` also the refinements) |
| `MCRecvSessions`, `MCPluginLifecycle`, `MCRTCReceiver`, `MCDiscovery`, `MCSignaling` | symmetry sets and structured constants, for TLC only |

Each specification is self-contained and parameterised by CONSTANTS; an `MC`
module only EXTENDS it.  Operators named `...Twice`, `...Late`,
`...Always` and the like are mutated forms of the definition below them: they are
used by no action and exist so that each property can be shown to be able to fail.

### RecvSessions

A handler goroutine is a process with a program counter `upc`, and every
critical section or atomic operation of the Go code is one step, so a step
boundary is exactly a place where another goroutine can get in.

* `AdmitCheck`, `AdmitStore`, `AdmitStart`, `AdmitRespond` are `CreateSessionIfAllowed`
  and its response: the check of all sessions under `admissionMu`, the store
  into the map, `Start`, and the answer that tells the client its ids.
* `UploadBegin`, `SaveCheck`, `Claim`, `Create`, `ReadBody`, `CopyEnds`, `CloseFile`,
  `FinishFileAttempt`, `CountDown`, `EndCas`, `EndZero` (and `PrepareFails`) are the
  upload handler with `SaveFile`: the unlocked check of
  `started`, the claim under the file mutex, the O_EXCL creation under a name
  that was free, reads that refresh `lastActivity`, the copy's outcome (complete,
  I/O error, checksum mismatch), the deferred close and removal, and
  `finishFileAttempt` with its counter decrement and `End`.
* `Kill`, `KillCas`, `KillZero` are the cancel handler with `KillSession`; `VacuumCheck` and
  `VacuumDelete` are the two unsynchronised halves of `vacuumTask`.
* `Timeout` is the passing of `SessionTimeout`; `ForeignCreate` is another program
  that takes a path of the save directory, at any time.

Data left out: file bodies, ids (fresh UUIDs, known only to the client that was
answered) and names (any free path).  Time is reduced to "silent for longer than
`SessionTimeout` or not".

### FileDelivery and RecvDelivery

`FileDelivery` knows sessions, files and paths and nothing of handlers: an offer
is made once, an offered file is saved in one step at a free path or given up,
a saved file stays, and a session finishes by itself only when none of its
files is outstanding.  `RecvDelivery` maps `RecvSessions` onto it.  A file counts
as saved at the step in which its copy ends well (`CopyEnds`), before
`finishFileAttempt` records it; a partial file does not count as occupying its
path, because only its own handler can complete or remove it.  A cancelled
session may still save the file that was being received, which is what the code
does: `KillSession` does not stop a running copy.

### PluginLifecycle

The record `k` holds the plugin's shared state and the processes it started;
`app` says whether KOReader runs, `asleep` and `net` are the device, `exited` is a
history variable for the teardown and `k.unseen` a history field: no
`registerEvents` of the shown widget since the last launch.  A Lua handler runs to completion
on the UI thread, so each handler is one action; what interleaves is what is
scheduled for later.  Closures are tasks with the operation id and the widget
instance that created them, so a poll of a superseded operation or of a closed
widget can still run (`TaskStep`, `ResumeTask`, `SentinelPoll`); a widget closes at any
time, whatever is scheduled.  The environment
kills receivers, leaves some unkillable (`Unkillable`), reuses pids (`PidReuse`),
crashes KOReader and starts it again, and changes the network and power state.

Abstracted: the polls' periods (a poll count), shell commands (their effect),
menus and messages.  Assumed: writing the PID file works; a pid is not reused
inside a synchronous stop's blocking loop.

### RTCReceiver

The record `r` is the `RTCReceiver` struct plus three history fields: `stray`
(a handler ran for a connection that is not the session's), `pinOK` and
`paired` (the session's sender gave the PIN; was known as trusted or accepted
pairing).  `conn` is what each connection is doing, `listen` the
part of `AcceptOffer` under way, `picks` the selection callbacks that run with
the mutex dropped, `blocked` the peer block list and `down` the end of the
program.  A handler that holds the mutex throughout is one action;
`AcceptOffer` is three (reservation, network calls, installation) and
`handleFileList` two.  Nothing in `handleDataMessage` tells the session's
connection from another one, so the model lets any connection whose channel is
open deliver any frame.

Left out: error texts, folder remapping and extension routing, the persistent
store of paired devices, and branches the program cannot reach (token
verification failure, since no expected key is ever set; `pinProvider`).
Signatures and certificates are taken as valid or not, chosen freely.

### RTCSender

`pc` is the main goroutine of `sendViaWebRTC`: `Start`, `AwaitAnswer` and
`AwaitAcceptance` are `Send`; `BeginFile`, `SendChunk`, `EndFile`, `AwaitAck` and `Flush` are
`SendFiles` with its pipelined headers; `Close` and `ClosePeer` end it.  `BufferFull`,
`Arm`, `Recheck` and `AwaitLow` are the four steps of
`WaitBufferBelowWithTimeout`, between which the buffer drains.  The callbacks run
beside it: `ChannelOpens` with `startNonceExchange`, the message handlers
(`handleNonceResponse` and so on), and `ConnectionLost` with `HandleClose`.  The record
`s` is what the mutex guards, with the channels of one place; a blocked send on
one of them with the mutex held is a state (`opening = "stuck"`), not a deadlock
hidden by the model.  The remote side is external: it may answer at any time, late,
twice, or for an id that was never offered.

### Signaling

`sup` is the owner: the receiver's reconnect loop (`LoopHead` to `WaitReconnect`), the
sender, which sends one offer, or the scan, which only looks.  `Dial`,
`Watch`, `Cut`, `HelloArrives`, `HelloFails`, `Watched` are `ConnectWithContext` and
`waitForHello` with its watcher goroutine; `Receive`, `LoadSubscribed`, `PutOffer`,
`OfferAbandoned`, `ReadFails` are `readLoop`, in which loading the subscription flag and
putting the offer are two steps; `Write` and `WriterEnds` are `writeLoop`;
`Tick`, `LoopSends`, `LoopEnds` the ping and refresh loops; `EnqueueCheck` and
`EnqueueSend` the two selects of `enqueue`.  The server is external: it may
reset the connection, or fall silent without an error.

### Discovery

`sup` is `startDiscoveryWithRetry` for the receiver, or the scan's listener
goroutine; `inst` is the current Discoverer, `current` whether the receiver's field
points to it, `after` the `AfterFunc` on its context.  `ReadAnnouncement`,
`StartResponse`, `Confirm`, `EndResponse` are `respondToAnnouncement` and
`sendHTTPResponse`: insertion of the key, the attempt to take a slot, the confirmed
device, and the release of slot and key in that order.  `PutDiscovered`,
`cleanupStaleDiscovered` and `bestDiscoveryChannel` are the operators on the table;
the last is a fold over the channels in an arbitrary order, as Go iterates a map.
`StartProbe`, `EnqueueJob`, `StopEnqueueing`, `tryScanIP` and `ProbeEnds` are
`ScanSubnet`.

### HttpSender

`pc` is `Start`; each worker runs `TakeJob`, `CheckAbort`, `Dial`, `Track` and
`ReadReply` (or a failure) per file.  `trackUploadDial` is two steps, the dial and the
check of `abort` under the lock, because `Cancel` may store `abort` in between.
`Cancel` has two callers, `Start` itself and the signal goroutine, and four steps:
`StoreAbort`, `Snapshot`, `CloseOne`, `Ask`.  The process ends with `Start` (`Alive`).

### PinGate

A request is a handler with a step per lock: `CheckBlocked`, `Compare`, then `Record`
or `Clear`, and for the reverse sender `createSession` or `UseSession`.  `Tick` lets
entries age; `CleanupExpired` may run at any time.  Both servers and both settings
(PIN or none) are initial states of one run.

## 3. Runs

| Run | Instance | Distinct states | Shows |
|---|---|---|---|
| `recv_files` | 1 session, 2 clients, 2 files, 2 handlers, 3 paths, 2 checksum attempts, no removal faults | 483 thousand | upload state machine, counter, disk; implements `FileDelivery` |
| `recv_sessions` | 2 sessions, 1 file, 2 handlers, 1 path, removal faults | 2.66 million | sessions competing for admission and for one path |
| `recv_drain` | 2 sessions, 1 file, 1 handler, 1 slot, fair | 161 thousand | no client blocks the receiver for good |
| `plugin_lifecycle` | 3 operations, 2 KOReader runs, 2 pids, unkillable and reused pids | 3.24 million | tracking, ports, sleep, teardown |
| `plugin_switch` | 3 operations, 1 run, autostart, document switches with closures pending, fair | 437 thousand | the same with autostart; a user's stop holds; `stop_in_progress` is always cleared |
| `rtc_receiver` | 3 connections, 1 peer, 2 files, pairing and PIN required, 2 PIN attempts, size 1 | 1.31 million | session, file, PIN and pairing state; implements `ReceiveSlot` |
| `rtc_others` | 2 connections, pairing not required | violation | finding 1 |
| `rtc_sender` | 2 files of 2 frames, buffer limit 1, 1 stray acknowledgement, fair | 101 thousand | success, framing, flow control, ending |
| `signaling` | 2 peers, `MaxPeers` 1, channels of 1, 2 offers per connection, fair | 240 thousand | HELLO wait, offers, breaks, reconnect, shutdown |
| `discovery` | 2 devices, table of 1, 3 hosts, 1 answer at a time, 2 read errors, fair | 400 thousand | table, keys, sockets, rebinding, cancellation |
| `http_sender` | 3 files, 2 workers, 3 attempts, signal, fair | 481 thousand | cancel, retries, results, release of the receiver |
| `pin_gate` | 2 clients, 2 requests, 2 attempts, 2 sessions | 483 thousand | bounded guesses, blocks, sessions |

**Properties.**  Each is stated in words above its definition.

* `RecvSessions`: `ExclusiveWriters` (no two handlers own one file or write one
  path), `SavedIsOnDisk` (a file reported as saved is complete under its own
  path), `NoPartialLeft` (a partial file has a running handler), `CountMatches`
  (`filesCount` equals the unfinished files plus the decrements still to come),
  `SingleActive` (two active sessions only after a timeout), `SavedFilesKept` (no
  step harms a complete or a foreign file), `SessionsDrain` (liveness), and
  `DeliversFiles` of `RecvDelivery` (the refinement).  `TypeOK`, `EndsWhenDone` and
  `TerminalIsFinal` are left to the proofs.
* `PluginLifecycle`: `PluginSound` (`TypeOK`; `ReceiverTracked`: the PID file names every
  live receiver; `PortsOpen`; `TeardownComplete`), `SeenReceiverStops` (the device sleeps with
  a receiver only if the shown widget has not run `registerEvents` since the launch),
  `UserStopHolds`, `StopSettles` (liveness).
* `RTCReceiver`: `BusyIsLive`, `ConnectionOwned`, `FileStateAgrees`,
  `PinBeforeFiles`, `PairBeforeFiles`, and `OneAtATime` (the refinement: no offer, loss,
  reject or `Close` lets one connection take over another's session, or have one on a
  reservation that was revoked).  `TypeOK` is left to the proofs.
* `RTCSender`: `SuccessMeansSaved` (an acknowledgement out of turn is not taken for
  another file's), `WireFramed` (pipelined headers never shift a file),
  `FlowSound` (`TypeOK`; `NoMissedDrain`; `BufferBounded`: what is sent without waiting
  exceeds the limit by two frames at most), `EndsOrStuck` (liveness, with the one exception under deviations).
* `Signaling`: `ClientSound` (`TypeOK`; `NotPoisoned`: the HELLO watcher leaves no
  deadline behind; `PeersTrack`; `CallbackFree`), `OffersReliable`, `IdFileLive`, and the
  liveness properties `Reconnects` (a break is noticed and followed by a new
  connection) and `EndsClean`.
* `Discovery`: `TableShown` (`TypeOK`; `TableSound`; `BestWellDefined`: the channel shown
  of an entry does not depend on map order), `KeysOwned`, and the liveness properties
  `CancelStops` (with no socket left by a discarded Discoverer) and `Rebinds`.
* `HttpSender`: `CancelSticks`, `SavedOnce`, `ResultTrue` (`TypeOK`; `OkMeansSaved`;
  `FailureReleases`), `CancelFinishes` (liveness).
* `PinGate`: `GuessesBounded`, `BlockHolds`, `SessionsOwned` (`TypeOK`; `SessionsAgree`;
  `ServedAuthed`).

**Why the bounds are enough.**  The races of `RecvSessions` are between two
handlers on one file, two files on one counter, two sessions on one path or on
admission: two of each is the smallest instance that has them.  Two files and
three paths let each file take a path and still leave one to a foreign program;
two checksum attempts give one retry and one final failure.  `MaxReads` = 1 is one
activity update per upload, which is all it takes to revive a session.
`recv_sessions` has one path so that sessions must collide on it, and
`recv_drain` one slot so that one stuck session blocks everybody.  The plugin's
operations are capped by `MaxOps`: a stale closure needs the operation that
scheduled it, the one that supersedes it and one more to disturb.  Two polls let a poll succeed, fail and give up;
two pids let an old and a new receiver live side by side.  Three connections
are the sender that leaves its traces, the one whose selection callback is pending
and the one it returns into; two files are the file in progress and the next.
In `rtc_sender` two files of two frames with a limit of one make the sender wait
inside a file, at its end and with the next header already sent.  In `signaling`
every channel holds one message, so each is full after one; the second offer
is the one that finds it full, and connections follow one another without limit.
In `discovery` a table of one and two devices force an eviction, hosts of both
families an entry with two channels, one slot a refused answer; `TTL` = 0 makes a
channel stale after one tick, and two errors are one that is forgiven and one
that ends the listener.  In `http_sender` the third file is the job that waits
while both workers are busy.  In `pin_gate` two requests of one client are what the
bound of `GuessesBounded` is about; two clients tell one's block from the other's.
The theorems of section 4 remove the bounds for every safety property and for both
refinements.

**Symmetry** is used only for constants the specification treats alike, and never
in a run with a liveness property.

**Deadlock** is left unchecked where the system may rightly stop: the ids or the
operations of the bounded instance are used up, or the program has ended.

**Fairness.**  `RecvSessions!FairSpec` assumes weak fairness of admission,
`KillSession`, the timeout, the vacuum's check of each session and its deletion,
and each handler's own steps: goroutines and timers that the Go runtime does run.
It assumes nothing of the network: the server sets no read timeout, so a body
may stall for ever, and `SessionsDrain` holds nevertheless because the vacuum
does not need the handler.  `PluginLifecycle!FairSpec` assumes weak fairness
of scheduled closures, of opening a widget after one was closed, and of the
sentinel poll: KOReader's UI loop runs what is due.  Users, network and
processes owe nothing.  `RTCReceiver` is checked for safety only: it has no
timeouts, so a silent sender can hold the session for ever.  `RTCSender!FairSpec`
assumes that the main goroutine (whose waits all have timeouts), the open
callback and the close handler run, and nothing of the remote side.
`Signaling!FairSpec` assumes that goroutines run and tickers tick, and strong
fairness of a successful dial and HELLO: a server that is tried again and again
answers at last; only the second half of `Reconnects` needs that.
`Discovery!FairSpec` assumes that goroutines run and requests end by their
timeouts, and strong fairness of a successful bind, which `Rebinds` needs: the
network comes back.  `HttpSender!FairSpec` assumes that `Start`, `Cancel` and
the workers run, except that a worker which streams is only sure to go on once its
connection is closed: the upload client has no deadline.

## 4. Proofs

`tlapm` checks every proof to the last leaf.  The theorems are for every value of
the constants that satisfies the named assumption of each module: finite sets,
`None` and `Stranger` outside them, natural bounds, positive capacities and
attempt limits, and for `HttpSender` at least one worker (`uploadConcurrency`
is a positive constant).  The number of sessions, handlers, workers, connections, requests, peers,
process ids, files, frames, polls, operations and KOReader runs is arbitrary.

In each module `Invariance` proves the inductive invariant `IndInv`, which was
checked with TLC before it was proved; the other theorems follow from it.  A
proof has a lemma per operator that says what it changes and keeps, and one
step lemma per action or per part of the invariant.

| Module | Theorems (property) |
|---|---|
| `RecvSessionsProofs` | `TypeCorrect`, `WritersExclusive` (`ExclusiveWriters`), `FinishedOnDisk` (`SavedIsOnDisk`), `PartialOwned` (`NoPartialLeft`), `CountCorrect` (`CountMatches`), `EndsCorrectly` (`EndsWhenDone`), `OnlyTimeDefeatsAdmission` (`SingleActive`), `FilesKept` (`SavedFilesKept`), `FinalIsFinal` (`TerminalIsFinal`), `SessionsDeliver` (`DeliversFiles`, the refinement) |
| `RTCReceiverProofs` | `TypeCorrect`, `RefusesForLiveReason` (`BusyIsLive`), `NoConnectionForgotten` (`ConnectionOwned`), `FileRecordsAgree` (`FileStateAgrees`), `PinFirst` (`PinBeforeFiles`), `PairFirst` (`PairBeforeFiles`), `OneSessionAtATime` (`OneAtATime`, the refinement) |
| `RTCSenderProofs` | `SuccessIsTrue` (`SuccessMeansSaved`), `FramesStayInOrder` (`WireFramed`), `FlowStaysSound` (`FlowSound`) |
| `SignalingProofs` | `ClientStaysSound` (`ClientSound`), `OffersArrive` (`OffersReliable`), `IdFileNamesSession` (`IdFileLive`) |
| `HttpSenderProofs` | `CancelKeepsClosed` (`CancelSticks`), `SavedAtMostOnce` (`SavedOnce`), `ResultIsTrue` (`ResultTrue`) |
| `PinGateProofs` | `GuessesStayBounded` (`GuessesBounded`), `SessionsStayOwned` (`SessionsOwned`), `BlocksHold` (`BlockHolds`) |
| `PluginLifecycleProofs` | `PluginStaysSound` (`PluginSound`), `SleepsWithUnseenOnly` (`SeenReceiverStops`), `UserStopStays` (`UserStopHolds`) |
| `DiscoveryProofs` | `KeysStayOwned` (`KeysOwned`), `TableStaysSound` (`TableShown`), `LeaveOldestFirst` (`OldestFirst`), `AlwaysRoom` (eviction always finds an entry), `NoSocketForgotten` (the safety half of `CancelStops`) |

**RecvSessionsProofs.**  The parts of `IndInv` beside the properties themselves:

* `LocalsInv`: what a handler's locals say at each program counter;
* `AttemptsInv`: a file that can still be claimed has an attempt left, so a claim
  stays within the bound of `TypeOK`;
* `ClaimInv`: a claimed file is in progress, for one handler only.  Without it
  `ExclusiveWriters` is not inductive;
* `DiskInv` and `PathInv`: what the path of each owned or finished file holds,
  and that two files never share one: this is where O_EXCL and "remove before
  pending again" enter;
* `AdmitInv`: admission is exclusive, and only sessions that were stored are in
  the map, running or being killed;
* `EndInv`: a running session whose counter is zero is being ended by a handler,
  and one that ended was cancelled or has nothing left to do;
* `QuietInv`: while a session is being admitted no other one is active unless it
  was revived after its timeout, which is what `SingleActive` needs at
  `AdmitStart`.

`CountMatches` needs cardinalities; lemmas about adding and removing one
element are taken from `FiniteSetTheorems`, and every step that changes the
counter changes the counted sets by one element.

**The refinement of `FileDelivery`.**  Every step of `RecvSessions` is a step of `FileDelivery` or
leaves its variables alone.  Each step lemma says which sessions change phase,
which file changes its fate and which path its content; all others are kept
point by point (`PhasesKept`, `FatesKept`, `StoresKept`, `PlacesKept`) and so, as
functions, are the abstract variables.  `CopyEnds` is the step that saves,
`FinishFileAttempt` the one that gives up, `EndCas` the one that finishes a session.  The inductive
invariant supplies what the abstract guards ask: the path was free,
no saved file is given up, nothing is outstanding when a session finishes by
itself.

**RTCReceiverProofs.**  `IndInv` has `TypeOK`, `ListenInv`, `StateInv`, `PickInv`,
`PinInv`, `PairInv` and the properties.  `ListenInv` says what an accept under way may rely
on (its connection is new, the session it reserved is fresh or was closed by
`Close`), `StateInv` that a session beyond the nonce has a connection or is a
rejected transfer, `PickInv` that a selection callback holds up its own
connection, so that only another connection's handler can move its session on
meanwhile, `PinInv` that the PIN came before anything that leads to a token, and
`PairInv` the same of pairing: a key is kept, and a token issued where pairing is
required, only in a session whose sender was recognised or accepted it.

**The refinement of `ReceiveSlot`.**  `reserved` is `accepting`, `owner` is `peer`, `seen`
the connections that were set up.  A message handler keeps `accepting` and keeps or
drops `peer` (`HandlerSlot`, from the lemmas about the fields each operator changes);
`BusyIsLive` makes the slot free when `Busy` is false, `ListenInv` the connection new when it is
installed, and both together leave `Close` and a lost connection only one
thing to give up.  `SlotStep` says what each action is for the slot.

**RTCSenderProofs.**  The hard part is that headers go out before the
acknowledgement of the file before.  A position in the stream is a file number
and a number of its frames; `FrameInv` says that the frames on the wire lead,
one position at a time and always forward, from the remote side's position to the main
goroutine's, and that acknowledgements under way are for files the remote side
has passed unless one strayed.  `WireFramed` is then immediate, and `FlowInv` follows: a
good acknowledgement of the current file means that the remote side has also
read the header sent ahead, so the wire is empty when the next file begins and
what is sent without waiting exceeds the limit by two frames at most.  `SavedInv` carries the files left behind for `SuccessMeansSaved`, `QueueInv` and `HeaderInv` tie
`index` and `announced` to the program counter.

**SignalingProofs.**  `PeerInv`: a peer in the table, or about to join it, is in the
room or has a departure on the wire behind it.  `NumberInv`: the offers on the wire
are numbered without a gap from the last one read to the last one sent;
`HoldInv`: the offer in the reader's hands is the last one read, and one that is
tried without waiting was read before the subscription.  `OffersReliable` needs both,
because the subscription flag is loaded in one step and used in the next.
`AnswerInv` says that the answer callback is called at most once, with an empty
channel, and `DeadlineInv` that a connection stands only after the HELLO watcher
has ended.

**HttpSenderProofs.**  `JobInv`: a file is with one worker or on offer, never both.
`SavedInv`: what a worker has in hand was saved exactly if its answer is ok, so a
retry never repeats a save.  `CancelInv`: from the store of `abort` on no connection opens, and
those open at the snapshot are still to be closed.  `DoneInv`: without an error or an
abort every accepted file is on offer, in hand or saved, and somebody is left
to take it.

**PinGateProofs.**  `GuessInv`: a client's counted failures plus its requests
between check and record stay within the bound of `GuessesBounded`; the sum can
grow only while the count is below the limit.  `SessionInv` and `AuthInv` keep the two session maps inverse
to each other and within the clients that gave the PIN.

**PluginLifecycleProofs.**  The operators of the model map plugin states to plugin states, and so do the
lemmas: `Safe(s, who, r)` says what a function run on a widget's plugin object keeps
of a sound state.  `Sound` is the strengthening: a closure whose operation is
the current one knows the receiver (a start is waited for only while there is
none, a stop waits for the only one, and a restart is still wanted by the user).
Every operation begins with `nextServerOpID`, which makes all earlier closures stale; that is why
they cannot touch its receiver.  For `SeenReceiverStops` the strengthening is that the shown widget's handlers
are registered whenever a receiver runs and `unseen` is false; a closure of a closed
widget can start a receiver and register the handlers there only, which is why the
property cannot do without `unseen` (section 5).

**DiscoveryProofs.**  `KeyInv`: beside `KeysOwned`, no key has a listener and an answer, or
two listeners, at once; without that the first owner to finish would release the
key of the second.  `SlotInv` counts the goroutines that hold a slot and `ProbeInv` the probe's
workers.  `TableOK` is `TableSound` with the table's types and limit, stated of any table so that a
lemma can say it of each one `PutDiscovered` may leave (`PutSound`, whichever oldest entry
goes); a tick is monotone on ages (`OlderEntry`), and an entry that is not stale keeps
its newest channel when it is trimmed (`FreshKept`).  `OldestFirst` follows step by step: what
`PutDiscovered` drops was oldest, and the cleanup, which looks at channels, drops exactly
the entries older than `TTL` because a sound entry has a channel of its own age.  The table of
one entry in `discovery` leaves no choice to evict; TLC checked `OldestFirst` with three
devices and a table of two before it was proved.

`BestWellDefined` is about a recursion over sequences.  The library's induction rules
take a predicate as parameter, so `SetInduction` states induction for a set of numbers,
from the well-foundedness of `<` and its minimum rule (`WFMin`).  By it the recursive function of
`bestDiscoveryChannel` exists (`PassExists`, `BestIsPass`), and after n channels holds one that
none of the n is preferred to (`BestIsGreatest`).  `Prefer` is a strict total order on
an entry's channels (`ChannelsOrdered`): this needs the one channel per host of
`TableSound`, for only then does the address break every tie.  Every
enumeration of the finite set of channels reaches all of them, so all passes end with the
same one (`OneBest`).  `AlwaysRoom` uses the same minimum rule to find an oldest entry.

`NoSocketForgotten` has an invariant of its own, `SockInv`: where the loop can bind or wait for a
retry no socket is open, and where it can end with one open, the Discoverer
is the installed one and `Stop`, which will find it, is still to come.  TLC checked it on
the instance of `discovery`.

**Only model-checked:** every liveness property (`SessionsDrain`, `StopSettles`, `EndsOrStuck`,
`Reconnects`, `EndsClean`, `CancelStops`, `Rebinds`, `CancelFinishes`).  Liveness under
fairness is beyond the prover.

## 5. Findings and deviations

One run has a violation as its expected result; the quotation and the line
are in `findings`.

1. `OthersIgnored` (`rtc_others`): a connection that was reported lost and recovered
   can end the next sender's file.

**Deviations.**  These behaviours are in the models and TLC reaches them; the
properties are stated so as to allow exactly them.  The first two contradict what a
comment of the plugin says; no comment or test contradicts the others outright.

* `main.lua:452`: "Keep handlers registered if: 1. Server is currently running" and "Stop
  server before device suspends" (`main.lua:449`, `:500`).  The user starts the server
  while offline (`Toggle`) and opens another document (`CloseWidget`, `OpenWidget`), the network
  comes up, the closure of the closed widget starts the receiver
  (`RunWhenConnected("old")`) and registers the handlers on its own plugin object.  The
  shown widget has none, and the device goes to sleep with the receiver running.
* `localsend_transfers.lua:186`: "The receiver itself must not keep an e-reader awake
  indefinitely" (`localsend_power.lua:4`).  A receiver that dies between the two `isRunning`
  calls of one sentinel poll leaves the power hold, and no poll that would release
  it; so does one that dies between two widgets, when `cleanupOrphanedResources`
  clears its PID file and not its hold.  The hold lasts until the next start that clears
  the log, stop, sleep or exit.
* `recvsessman.go:98`: a session that timed out but is still in the map does not
  block admission, and a late upload makes it active next to the new one
  (`SingleActive` states what does hold).
* `main.lua:518`: a second sleep before the network is back forgets the restart
  that the first one owed.
* `receiver.go:1223`: after a rejected file, a header already in flight opens a
  file that no connection owns.
* `sender.go:372`: `startNonceExchange` sends its error on a channel of one place with
  the mutex held; if the connection was already reported lost and `Send` has
  returned, the send never completes and `Close` waits for the mutex for ever
  (the exception in `EndsOrStuck`).
* `fwdsend.go:350`: a cancel before the prepare-upload answer knows no session id;
  `Start` then finds every file aborted and returns nil, and the receiver's session
  waits for its timeout (`OkMeansSaved` speaks of runs without a cancel).
* `cmd/send/send.go:133`: the process ends with `Start`, which may cut off the signal
  goroutine's cancel request.
* `client.go:262`: an offer read just before the receiver subscribes is dropped if
  the channel is full (`OffersReliable` starts at the subscription).
* `scan.go:673`: an announcement between the release of an answer's slot and of its
  key is absorbed; the next one is answered.
* `scan.go:854`: `GetAllDiscovered` is keyed by host; of two fingerprints confirmed at one
  address, map order decides which is shown.  The table keeps both (`TableShown` is
  per entry); the map built for the output is not modelled.
* `scan.go:367`: the IPv6 listener may give up alone; only the IPv4 one is supervised.

## 6. Not modelled

Everything with status `not_modelled` or named as left out under `partly` in
`components`.  Of the modelled parts:

* plugin: failure to write the PID file (the receiver would be orphaned), a signal
  that hits a stranger after pid reuse, the plugin's life after `stopPlugin`, `start`
  on the released task of a closed instance, the stop and start made by
  diagnostics and by the updater;
* WebRTC: the closing of connections that were only reported disconnected, the
  sender-side PIN challenge and PIN provider (the program sets neither), the
  store of trusted devices, SDP and ICE;
* signaling: message encoding, the length of the reconnect delays, the other
  start-up work of `recv`;
* discovery: the choice of interfaces, the datagrams sent, the address cache, the
  printed result; what goroutines of a discarded Discoverer still do to its own
  table before they end;
* HTTP: filters and routing of prepare-upload, the web server and page of the
  reverse sender, the collection of the files to send.

Cryptography, encodings, OCR and EPUB layout are library calls or pure data and
stay out.

## 7. Plan

Modelled and checked: `RecvSessions`, `FileDelivery`, `PluginLifecycle`, `RTCReceiver`,
`ReceiveSlot`, `RTCSender`, `Signaling`, `Discovery`, `HttpSender`, `PinGate`.  Proved: the safety
properties of all of them, and both refinements.

Models to come, if any of these parts grows: the busy marker and transfer log with
their Lua readers, the trusted device store (eviction and save with failures),
the nonce cache, the plugin's sender, scan and updater, and on the desktop
side the worker thread, pause gate and publication of outputs.
