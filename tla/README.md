# vox-streaming: TLA+ models, model checks and proofs

vox-streaming receives the camera, screen and audio streams of an online exam,
records them, lets proctors watch and rewind them, and turns each stream into
one recording afterwards. Media arrives in two ways: a browser or client sends
WebRTC, which the service records with ffmpeg, or a desktop client records
locally and uploads finished segments over HTTP. Redis holds the registries,
Kafka the hand-overs between parts, an S3 store the media.

The models here are of the code's own control logic: what each handler,
goroutine, timer and callback does, in which order, and what happens when calls
fail, processes die or two of them meet. `PROJECT.json` maps every definition
to its source lines and lists the hazards, runs and theorems.

## 1. The system: inventory

| Part | State it keeps | Operations | Interacts with |
|---|---|---|---|
| Desktop upload sessions (`handler/segment`, `usecase/segment_usecase`, `cache/session`, `cache/inventory`, `cache/segment`) | upload sessions and their index, segment registry, inventory, complete flag (all Redis), objects | create/resume, upload, declare inventory, complete | arms the assembly watchdog; publishes assembly requests |
| WebRTC peers (`transport/webrtc/peer`, `handler`, `session`; `usecase/stream_usecase`) | session map, signaling binding with its generation, two grace timers, `closedByFailure`, Redis registration | mint, adopt, bind, release, bye, ICE callbacks, replace, close, reap | starts a recorder; publishes stream.started/ended, alerts; arms the watchdog |
| Recorder ingest (`recorder/*`, `watcher/segment_watch`, parts of `peer`) | port pool, recorder semaphore, ffmpeg attempts, unbuffered segment channel, uploaded segments | start, commit or roll back, restart, give up, upload, close, janitor | object store; peer close |
| Frame extractor (`recorder/frame_extractor`) | reorder buffer, loss counter, NAL and picture buffers, PLI throttle | push packet, commit picture, request key frame | frame capture, AI relay |
| Live rewind (`watcher/hls_watch`, `cache/hls`, `live_manifest`, `GetLiveManifest`) | ffmpeg's playlist, init and fragment registry | tail, upload, register, serve manifest | peer close ends the stream |
| Recording assembly (`usecase/assembler_usecase`, `watcher/assembly_watchdog`, `cache/assembly`) | due-set, in-flight set, slots, published state, recording | assemble on request, on stream.ended, on the watchdog's sweep | Kafka consumers; coverage |
| Coverage (`stream/*`, the assembler's summary) | none | reconcile, audit gaps, summarise | read by the assembler and the audit endpoint |
| Kafka consumer (`queue/consumer`, `dlq`, `config`) | committed offsets, position, retry and dead-letter failure counters | fetch, handle, retry, dead-letter, commit | runs every asynchronous handler |
| Kafka publisher and topic admin (`queue/publisher`, `admin`) | recovery mutex, time and verdict of the last recovery | publish, recover topics, ensure topics | every part that publishes; the broker |
| Queue monitor (`queue/monitor`) | lag clock, dead-letter and fetch-error counters | sample lag, record dead letter, record fetch error | consumers; alert channels |
| Monitor feed (`ServeMonitor`, `broadcaster`, `usecase/monitor_usecase`, `cache/session`) | stream registry (Redis), pub/sub subscriptions, alert fan-in, what a screen was told | register, refresh, unregister, publish event or alert, snapshot, relay | peers; consumers of stream.started/ended; proctors |

The other parts (frame conversion, AI relay, storage client, authentication,
media probe, gRPC, health, playback, wiring, sweep, generated code) are listed
in `PROJECT.json` with what is modelled of them, or why they are not.

What is hard here, and what makes each part correct:

* **Assembly** has three triggers that may fire together, and a durable due-set
  that must neither be dropped before the work is done nor fire while a stream
  still grows: an early recording is final, because assembly stops at an
  existing one. Correct means: no stream with segments is left without an
  owner, a recording is written once, READY is backed by it, and an armed
  stream is recorded in the end.
* **Upload sessions** are read, judged and written in separate Redis calls
  except in the Lua scripts. Correct means: one active stream per candidate and
  type, a finished one stays finished, and a complete inventory with nothing
  missing means a whole recording.
* **Peers** outlive their sockets. Sockets, two timers, ICE callbacks, bye and a
  replacement can all act on one peer at once. Correct means: the newest peer
  holds the key, the newest socket holds the peer, nothing is leaked, no drop
  is reported that did not happen.
* **Recorders** are scarce (slots, ports) and chained by an unbuffered channel.
  Correct means: exact accounting, no lost segment without a mark, no file
  removed that is not stored, and a close that ends.
* **Live rewind** is a list that grows at one end and is read through a moving
  window. Correct means: what a player derives (numbers, discontinuities,
  dates) is the same in every refresh.
* **The consumer** must deliver at least once over retries, rebalances and
  restarts, without being blocked by one bad message.
* **The assembly job** works in a directory named after the stream, which a
  crash leaves behind and another attempt finds. Correct means: the recording
  plays the segments that were listed, each once and in order, and nothing left
  behind stands in the way of the next attempt.
* **The publisher** shares one recovery pass among all calls that find their
  topic missing. Correct means: a call that waited for a successful pass uses
  it, and topics in use come back.
* **The queue monitor** samples. Correct means: an alert is earned by the whole
  duration, and a lasting excess is reported.
* **The monitor feed** puts a snapshot and a lossy event stream together.
  Correct means: the screen and the alert routing become right again whatever
  was lost, a stream that is up stays registered, and nothing is left running
  when the proctor goes.
* **The frame extractor** sees loss, reordering and duplication over a 16-bit
  counter. Correct means: order, exact loss accounting, no picture put together
  from pieces that do not belong to it.

## 2. The modules

Each module's header says what it models. A state variable carries the code's
name where it has one; history variables, which only properties read, are
marked so.

| Module | Models | Actions correspond to |
|---|---|---|
| `RecordingAssembly` | desktop sessions and peers as far as they arm, feed and end a stream; both assembly topics with their consumers; the watchdog; the assembler | one action per Redis, Kafka or storage call of a handler; `Claim` .. `PublishReady` are the stretches of `assemble` between calls; `Crash` loses requests, peers, in-flight set and goroutines and keeps Redis, Kafka, storage |
| `KafkaConsumer` | one consumer group over all partitions of a topic, under one of the settings of `config` | `Fetch`, handling with retries, dead-letter write, commit, each of which may fail; `Rebalance`, `Restart` |
| `PeerSession` | all sockets and peers of one (schedule, candidate, type) | steps of `ServeStream` per socket; ICE callbacks and timers as goroutines of their own; `close` cut at the points where others can see it |
| `RecorderIngest` | recorder start, supervisor, uploader and teardown of a set of streams | one action per lock-protected stretch or channel operation; `OtherStreams` takes and returns slots and ports for the streams left out of the set |
| `LiveRewind` | playlist, watcher, uploader, registry, manifest | each tick of the watcher; each upload; the three reads of `GetLiveManifest` |
| `UploadSession` | the desktop API with concurrent requests | each Redis or storage call; a Lua script is one step |
| `Coverage` | `Reconcile`, `AuditGaps`, median frame rate, summary | operators, not actions; `MCCoverage` enumerates the streams |
| `FrameExtractor` | reorder buffer to committed picture | a packet arrives, again or late; a tick passes |
| `RecordingLedger` | nothing of its own: what assembly promises to the services that read its results | `Register`, `Store`, `Announce`; `RecordingAssembly` instantiates it as `Ledger` |
| `AssemblyJob` | the inside of `assemble` for one stream, in several processes | one action per call to Redis, storage, the file system or ffmpeg; a crash tears the files being written |
| `MonitorFeed` | peers as far as the registry and the events show them, the two relaying consumers, Redis pub/sub, one `ServeMonitor` with its goroutines | Redis and Kafka calls of the peer; the goroutine of each subscription; each branch of the `select` of `ServeMonitor`, the scan and the fetch of a snapshot apart |
| `TopicRecovery` | concurrent calls of `publish`, `recoverTopics`, `EnsureTopics`, the broker's topics | the two writes; the cooldown branch and the pass, cut at its three broker calls |
| `QueueMonitor` | `Monitor` for one consumer | a sample, a dead letter, a fetch error, a tick |
| `QueueHealth` | the two side by side: they share nothing, so one is observed at a time | all of both |

`MC*` modules give model values, symmetry and enumerated inputs; where a module
needs none, its cfg names it directly. `<module>Proofs` holds the theorems about
a module (section 4); `QueueProofs` those about `KafkaConsumer` and
`QueueHealth`, `MediaProofs` those about `LiveRewind`, `FrameExtractor` and
`MCCoverage`. Definitions whose comment begins with "Mutant:" are
plausible wrong versions of the definition that follows; nothing in a specification uses them.
They exist to show that each property can fail: put in place of the right
version, each makes TLC report the property it is paired with in
`PROJECT.json`.

Abstractions that matter to a reader:

* `RecordingAssembly`: the building of a recording is one step that works or
  fails (`AssemblyJob` has its inside); READY stands for READY and PARTIAL; the 24 h TTLs never expire; one process;
  one /complete at a time per stream (racing ones are in `UploadSession`).
  "Already in flight" counts as success, as in the code, and is remembered in
  `yielded`. The watchdog reads the segment registry (`Handle`) and removes the
  entry of an empty stream (`DropEmpty`, remembered in `forgotten`) in two
  calls, between which others may register segments and schedule the stream.
* `KafkaConsumer`: commits are synchronous (`CommitInterval` is 0 in
  `consumer.go:68`), so a commit fails when its call does. `config` is chosen in
  `Init` and never changes: a record of the three settings in which the groups
  of the service differ.
* `PeerSession`: pion runs each ICE callback in a goroutine of its own, so the
  callbacks of one peer are not ordered.
* `Coverage`: rates are integers scaled to stay exact; the code divides floats.
* `FrameExtractor`: `Layout` is a stretch of the stream of up to half the
  sequence space, 32,768 packets (`ExtractorAssumption`), and everything is said
  of such stretches, not of an exam-long stream: packets further apart could
  meet only if one were delayed by as much. The sender packs NAL units as RFC 6184 says
  (`LayoutAssumption`): a picture ends with a marker, never inside a NAL unit,
  and the fragments of one travel in consecutive packets. The code relies on it
  (`frame_extractor.go:345`, "the RTP marker (which ends the whole frame)").
* `AssemblyJob`: a file's content is the sequence of segments it plays; ffmpeg
  reads the files of its list in order and truncates its output first. A concat
  list is the set of its files, which are played in the order of their names as
  text: `SortsBefore` compares `%04d` names, of four digits up to 10,000
  segments (`NameCapacity`) and of five up to 100,000. A line of the list that cannot be
  written is missing without an error. A caller that finds the stream in flight
  gets success and is not made to ask again. Audio transcoding and the probes,
  which only log or feed the report, are left out.
* `MonitorFeed`: one schedule, one proctor. "Slots" are the registry's keys
  (session and stream type); successive streams of a slot are generations.
  Kafka delivers in any order between the two topics and may redeliver; a
  client adds a stream on joined and removes it on left. An outage in which
  every refresh of a live stream fails until its key expires is one fault
  (`Expire`); the next refresh, an EXPIRE, does not bring the key back.
  `excused` remembers slots whose newest stream failed to register, lost its key
  in such an outage, or was overwritten or removed by a peer it replaced.
* `TopicRecovery`: a pass may take any time, as `topicRecoveryTimeout` bounds
  its connects and its poll but not the requests on an open connection. The
  mutex passes to the calls that waited for a pass before a tick is over.
  Async writers never see an unknown topic and are left out.
* `LiveRewind`: dates are media time within an epoch, the only thing a playlist
  compares.

## 3. The runs

All runs pass:

| Run | Instance | Shows |
|---|---|---|
| `desktop` | one desktop stream, two segments, failing calls, a crash | `NoOrphan` for /complete, its consumer and the watchdog; `LedgerKept`: the refinement of `RecordingLedger`, in which READY takes a stored recording |
| `webrtc` | one peer, two segments, two failing calls (as many as the watchdog has attempts), one crash, fair scheduling | `NoOrphan` and `ArmedIsRecorded` when stream.ended and the due time are the triggers |
| `consumer` | two partitions of two messages, good and garbage, both kinds of group, failing handlers and dead-letter writes, a rebalance or restart | `CommittedIsTried`: no offset is passed over that was neither handled, nor dead-lettered, nor tried; `ForceIsEarned`: a commit without a dead letter follows the full count of failures; `EventuallySettled` |
| `peer` | two sockets in any order, two ICE changes, one failed creation | `NewestConnHolds`, `NoLeakedPeer`, `DropIsReal` |
| `recorder` | one stream beside others that share slots and ports, several ffmpeg exits, failing calls | `CopyIsWhole`, `CleanupIsSafe`, `ResourcesExact`, `CloseEnds` |
| `rewind` | two epochs, one failing call, fair watcher and player | `DatesExact` as long as no fragment was lost; `NothingSkipped`: a fragment's number never goes down from one playlist to the next, so a player that goes on at the next number skips no stored media, also where a fragment was lost; `StableDiscontinuity`; `EventuallyServed` |
| `uploads` | two requests in flight, up to two streams, a segment, two declarations, every call may fail | `OneActiveStream`, `NeverReopened`, `CompleteIsWhole` |
| `coverage` | every stream of a few segments, studied for its rates and for its gaps | `MajorityProtects` and `NoFalseAlarm`: the baseline of the frame rate is moved neither down nor up by a minority of segments; `InteriorGapSeen` |
| `reorder` | packets across the wrap, lost, late and duplicated, of single and fragmented pictures | `InOrder`, `LossExact`, `NeverMixed`, `FragmentsWhole` |
| `monitor_feed` | one slot with two successive streams, one proctor, channels of one message, one fault | `EventuallyExact`, `EventuallyRouted`: a connected screen ends up with the registered streams and their alert channels; `TileIsRouted`; `RegistrationHolds`; `GoroutinesEnd` |
| `assembly_job` | two replicas, one of them with a consumer, two segments registered at any time, one failing call, one crash | `RecordingIsListed`, `DirIsOwned`; `EventuallyRecorded`: a stream for which assembly is run again and again is recorded |
| `queue_health` | three calls, two topics and a dead-letter topic, one loss of all topics, one failing call; a consumer with thresholds of 2 and 3 | `EarnedRetry`: of a pass that left a tick of the cooldown; `TopicsReturn`; `LagAlertEarned`, `LagReported` |

`MCPeerLive.cfg` (module `MCPeerSession`) checks in addition that `DetachedEnds`
holds: a peer that loses its socket is adopted again or torn down. The type
invariants, `RecordingWrittenOnce` and `ReadyHasRecording` (which `LedgerKept` implies) and
`CurrentIsLatest` are defined in the modules and hold in these instances.

### Further counterexamples

Each cfg below checks one more statement that one would like to make of the
code and TLC refutes; the property's comment says what it rests on. They
document the limits of the properties above and of the hazards in
`PROJECT.json`. `tlc -config <cfg> <module>` shows the
trace.

| cfg, module | Property | What TLC finds |
|---|---|---|
| `MCRacingResumes`, `MCRecordingAssembly` | `ArmedPastExpiry` | two overlapping resumes arm the watchdog in the wrong order; it is due before the credential ends |
| `MCLateUpload`, `MCRecordingAssembly` | `NoGrowthAfterExpiry` | an upload admitted in time is registered after expiry |
| `MCReplaced`, `MCRecordingAssembly` | `StoredIsOwned` | replacing the process strands what a live peer has stored |
| `MCEmptySweep`, `MCRecordingAssembly` | `DropIsRight` ("Dropping it quietly is right", `assembly_watchdog.go:116`) | the watchdog reads no segments, the peer closes, registers its segments and is scheduled by stream.ended, and the watchdog removes that entry: nobody owns the stream |
| `MCYield`, `MCRecordingAssembly` | `DisarmAfterRecording` | "already in flight" disarms the watchdog, and the run in flight then fails |
| `MCTruncated`, `MCRecordingAssembly` | `RecordingWhole` | a peer that outlives its due time is recorded without its tail |
| `MCSkippedCommit`, `MCKafkaConsumer` | `CommittedIsSettled` | a message whose dead letter could not be written is skipped, not committed "so the message gets redelivered" (`queue/config.go:41`), and the next commit of its partition passes it |
| `MCPartitions`, `MCKafkaConsumer` | `ForcedByItself` | the poison-pill counter mixes partitions |
| `MCUnregistered`, `MCPeerSession` | `RegisteredWhileAlive` | a replaced peer's close removes its successor's registration |
| `MCStopProcess`, `RecorderIngest` | `SlotCoversProcess` | `StopProcess` returns while the next ffmpeg is starting |
| `MCRewindGap`, `LiveRewind` | `DatesMatch` | after a failed fragment upload, dates move |
| `MCLongNames`, `AssemblyJob` | `NamesAlwaysSort` | with more segments than names of one length, `10000.mp4` is played before `1001.mp4` |
| `MCEndlist`, `LiveRewind` | `EndlistIsFinal` | a fragment is registered after ENDLIST was served |
| `MCStaleInventory`, `MCUploadSession` | `InventoryOnlyGrows` | the older of two racing declarations wins |
| `MCConflict`, `MCUploadSession` | `StoredMatchesRegistered` | two contents of one segment are both accepted |
| `MCGiveUp`, `MCFrameExtractor` | `GivenUpLate` | a second gap inherits the first one's wait |

Others are refuted in the instance of a run, with the property in place of the
run's own (and the specification without fairness for an invariant):

| cfg, module | Property | What TLC finds |
|---|---|---|
| `MCMonitor`, `MonitorFeed` | `LeftStaysGone` | a snapshot shows a stream again that is closing and was announced as left: it stays registered until its uploads are drained |
| `MCMonitor`, `MonitorFeed` | `AlertsSurvive` | an alert subscription that broke is never opened again, while a broken event subscription ends the connection |
| `MCMonitor` with two types and one generation, `MonitorFeed` | `CreditedToItsType` | an alert of a type that is not registered is credited to the session's other stream |
| `MCJob`, `AssemblyJob` | `OneShot` | two replicas pass the existence check together and the second upload replaces the first |
| `MCJob`, `AssemblyJob` | `FailedIsTrue` | FAILED of one attempt is published after the recording of another |
| `MCJob`, `AssemblyJob` | `EventuallyClean` | after a crash that follows the upload no attempt reaches the directory again |
| `MCJob`, `AssemblyJob` | `ListIsWhole` | a line of the concat list is not written, the error of `Fprintf` is ignored and READY is published |
| `MCUploads`, `MCUploadSession` | `UnfinishedSurvives` | a lookup deletes a session that was just resumed |
| `MCRewind`, `LiveRewind` | `NumbersKept` | after a failed fragment upload, numbers move (by `NothingSkipped` only so that media is repeated, never left out) |
| `MCPeer`, `MCPeerSession` | `NoCorpseBound` | a peer that closes during `BindSignaling` is bound |
| `MCPeer`, `MCPeerSession` | `ByeIsClean` | a concurrent ICE failure turns a bye into a drop |
| `MCCoverage`, `MCCoverage` | `MissingNeverArrived` | without an inventory the segment after a gap is named as missing |
| `MCCoverage`, `MCCoverage` | `InventoryIsStronger` | with a stale inventory a listed gap is not counted as one |
| `MCReorder`, `MCFrameExtractor` | `IDRComplete` | a picture without its first slice is taken for complete |
| `MCMonitor`, `MonitorFeed` | `LiveIsVisible` | a replaced peer that connects or unregisters late takes the key of its successor, or its refreshes fail until the key expires, and the heartbeat, an EXPIRE, does not bring it back |
| `MCQueue`, `QueueHealth` | `WaitersGoAhead` ("callers queued behind a successful one are told to go ahead", `publisher.go:227`) | a pass outlasts the cooldown, which counts from its start; the waiter runs a pass of its own, which fails |
| `MCQueue`, `QueueHealth` | `DLQTopicsReturn` | a pass that creates the required topics and fails on a dead-letter one leaves that one missing: publishes succeed and no pass is run again |
| `MCQueue`, `QueueHealth` | `FetchErrorsInARow` | the fetch-error counter is not reset by a message that was fetched, though the alert says "in a row" |

`LiveRewind` also shows something no property states: the doc comment of
`GetLiveManifest` says only live streams get a manifest, while its body serves
ended ones on purpose. `BuildAlertConfigs` takes an override as a whole: the one
of the `vox-assembler` group (`main.go:421`) names no `FetchErrorThreshold`, so
there every single fetch error raises an alert (`QueueMonitor` with
`FetchErrorThreshold = 0`).

### Bounds

Every bound is a CONSTANT named `Max...` and is explained where it is declared.
Faults, crashes, resets and ICE changes are budgets: the properties concern what
a few of them do in any order, and each mutant that breaks a property needs no
more than the budget. `webrtc` has as many faults as the watchdog has attempts,
so that it also gives up. Times are a few ticks, enough for a session to expire
before, at and after each due time. `CHECK_DEADLOCK FALSE` is set in every cfg:
clocks and budgets are bounded, and all of these parts may legitimately come to
rest. Streams do not touch each other's state except through slots and ports,
which `recorder` lets `OtherStreams` take and return at any time, and the
assembler's semaphore. `desktop` and `webrtc` have one stream each, so nobody
waits there for another stream's slot: the proofs cover the safety properties
for any number of streams, and `MCSharedSlot.cfg` (module
`MCRecordingAssembly`, two peers, one slot, a crash, no failing call; two
minutes) checks that `ArmedIsRecorded` holds there too. Two requests
or sockets are enough for every race between a read and a write. The failure
limit of the consumer is scaled down to 2: what matters is below, at and past
the limit. The sequence space of the packets is 32 with the wrap inside the
instance, which keeps the half-space comparison of `int16(a - b)` meaningful. In
`monitor_feed` a channel of capacity one drops the second message, as the
code's drop the seventeenth; two alerts fill the merged channel and leave one in
hand; two generations are the replaced peer and its successor. In
`assembly_job` the second replica has only a watchdog, as a Kafka partition is
given to one replica of a group; two callers in one process and one in another
is every kind of overlap. Two segments have names of one length there
(`NameCapacity` is 2); `MCLongNames.cfg` has more. In `queue_health` a pass may
end before, with or after the cooldown of three ticks, and three calls are one
that runs the pass, one that waits for it and one that comes later.

### Fairness

Weak fairness is assumed of goroutines that are ready to run, of tickers and
timers, and of calls already made, which time out. Nothing is assumed of
clients, the network, ffmpeg (except in `rewind`, that it closes an init
file it has named, and that players poll) or of failures. In
`RecordingAssembly` each runner, consumer, the watchdog and the clock are fair;
requests and peers owe nothing. In `KafkaConsumer` the consume loop is, as it
runs until its context ends, and commits fail only a bounded number of times.
In `MonitorFeed` the loop of `ServeMonitor`, its ticker and the goroutines it
started are fair; peers, consumers, proctors and publishers owe nothing. In
`AssemblyJob` a call of `assemble` that runs proceeds, and nobody has to make
one: `EventuallyRecorded` is about streams for which it is entered again and
again, and who sees to that is the question of `RecordingAssembly`. In
`QueueHealth` the broker finishes what it accepted and answers the requests of a
pass, though these have no deadline and `recoveryMu` is held meanwhile: of a
broker that never answers nothing is claimed. Calls proceed, the ticker fires,
and time passes (strong fairness, as a tick waits for steps that take no time).

## 4. The proofs

Every safety property that a run checks, invariant or action property, and the
refinement of the ledger are also proved, for every value of the constants that
satisfies the assumptions of the module; TLC evaluates these assumptions in the
runs. They say that bounds are numbers, that limits the code divides or counts
by are not zero, that one topic is not the dead-letter topic of another, that
file names have at most one digit more than `%04d` asks for, that sentinels (`None`, "no call") are not values they stand
beside, that segment lengths, pauses and frame counts are numbers, and what is
said of RTP packets above. No theorem assumes that a set of streams, sockets or
processes is finite; only `AssemblyJob` needs finitely many segments, as it
sorts them. Eight modules hold theorems:

| Module | Theorem | States | Run property |
|---|---|---|---|
| `RecordingAssemblyProofs` | `NeverOrphaned` | `Spec => []NoOrphan` | yes |
| | `ReadyIsReal` | `Spec => []ReadyHasRecording`, which `LedgerKept` implies | |
| | `ImplementsLedger` | `Spec => LedgerKept`: `RecordingAssembly` implements `RecordingLedger` | yes |
| | `WrittenOnce`, `Inductive`, `TypeCorrect` | `Spec => RecordingWrittenOnce`, `[]IInv`, `[]TypeOK` | |
| `QueueProofs` | `DeliveredAtLeastOnce` | `Spec => []CommittedIsTried` | yes |
| | `ForcedLate` | `Spec => []ForceIsEarned` | yes |
| | `RetriesAreEarned` | `HealthSpec => EarnedRetry` | yes |
| | `AlertsAreEarned` | `HealthSpec => []LagAlertEarned` | yes |
| `PeerSessionProofs` | `NewestHolds` | `Spec => []NewestConnHolds` | yes |
| | `PeersNeverLeak` | `Spec => []NoLeakedPeer` | yes |
| | `DropsAreReal` | `Spec => []DropIsReal` | yes |
| | `MapNamesLatest` | `Spec => []CurrentIsLatest` | |
| `RecorderIngestProofs` | `ResourcesAreExact` | `Spec => []ResourcesExact` | yes |
| | `CopiesAreWhole` | `Spec => []CopyIsWhole` | yes |
| | `CleanupsAreSafe` | `Spec => []CleanupIsSafe` | yes |
| `UploadSessionProofs` | `OneStreamActive` | `Spec => []OneActiveStream` | yes |
| | `WholeIfComplete` | `Spec => []CompleteIsWhole` | yes |
| | `FinishedStaysFinished` | `Spec => NeverReopened` | yes |
| `MonitorFeedProofs` | `TilesAreRouted` | `Spec => []TileIsRouted` | yes |
| | `RegistrationsHold` | `Spec => []RegistrationHolds` | yes |
| `AssemblyJobProofs` | `StoredIsListed` | `Spec => []RecordingIsListed` | yes |
| | `DirsAreOwned` | `Spec => []DirIsOwned` | yes |
| | `StoredInOrder` | `Spec => []PlaysInOrder` (defined there) | |
| `MediaProofs` | `DiscontinuityIsKept` | `RewindSpec => StableDiscontinuity` | yes |
| | `NothingIsSkipped` | `RewindSpec => NothingSkipped` | yes |
| | `DatesAreExact` | `RewindSpec => []DatesExact` | yes |
| | `PacketsInOrder` | `ExtractorSpec => []InOrder` | yes |
| | `LossIsExact` | `ExtractorSpec => []LossExact` | yes |
| | `PicturesNeverMixed` | `ExtractorSpec => []NeverMixed` | yes |
| | `UnitsWhole` | `ExtractorSpec => []FragmentsWhole` | yes |
| | `NoFalseAlarms` | `CoverageSpec => []NoFalseAlarm` | yes |
| | `InteriorGapsAreSeen` | `CoverageSpec => []InteriorGapSeen` | yes |
| | `MajorityIsProtected` | `CoverageSpec => []MajorityProtects` | yes |
| | `RewindInductive`, `ExtractorInductive`, `CoverageInductive` | the inductive invariants below | |

Type correctness is proved of every specification but those of `QueueHealth` and
`MCCoverage`: `TypeCorrect`, and in `MediaProofs` `RewindTypeCorrect` and
`ExtractorTypeCorrect`.

Few of the properties are inductive. What each argument adds, and why (TLC
checked every one of these invariants on the instance of the run first):

* `RecordingAssembly`. `NoOrphan` depends on what a handler achieved before its
  message is committed, and that on who else holds the stream:

      IInv == TypeOK /\ ConsumersOK /\ ClaimsOK /\ WorkOK /\ HandOverOK /\ ReadyHasRecording

  `ConsumersOK`: a consumer works on the head of its own topic; `ClaimsOK`: a
  runner inside `assemble` holds a claim nobody else has; `WorkOK`: what a runner
  knows at each point (past the idempotency check there is no recording and, by
  the claim, nobody else can write one); `HandOverOK`: a stream that was armed or
  handed over is settled, owned, or in the hands of a step that will make it so,
  and a /complete about to disarm has its request in the topic. Two things are
  excepted by name, as the code does break it there: streams on which a trigger
  yielded, and streams whose due entry the watchdog removed after reading no
  segments, until they are armed again. The refinement
  shows of each step that it is a step of the ledger or leaves its variables
  alone: registering is `Register`, publishing is `Announce` (for READY by
  `WorkOK`), building is `Store`, by `WorkOK` and by `MetasOK`: what a runner
  listed was registered.
* `KafkaConsumer`. A commit is of the message in hand, so `DeliveryInv` adds what
  the reader has passed (`ReadIsTried`) and what lies before the message in hand
  (`InHandIsNext`), which a rebalance can put ahead of the reader. `PoisonInv`
  adds `CounterIsReal`: the poison-pill counter never exceeds the failed writes
  at the offset it remembers. The code counts them by offset alone, so the
  failures are those of that offset on all partitions (`FailedAt`).
* `PeerSession`. `SignalInv` adds that generations of a peer go each to one
  connection (`Generations`) and that every handler works on a peer that exists
  (`Minted`); `NoLeakedPeer` is strengthened to `HeldByNewest`: a stale handler
  does not count, as its release will do nothing. `DropInv` adds that whatever
  may lead to a drop began with real trouble (`AlarmIsReal`).
* `RecorderIngest`. `IInv` adds, per stream, what a start may have done so far
  (`Phased`), the arithmetic of restarts (`Counted`), that a supervisor past an
  attempt has no process and nothing to forward (`Quiet`), that every segment
  sent was stored, is in hand or marked the recording (`Accounted`), and that
  copy and clean-up follow the end of the uploader (`Settled`). `ResourcesExact`
  counts holders, so it needs that they are finitely many at any time
  (`HoldersFinite`), whatever the set of streams.
* `UploadSession`. `IInv` adds that requests are about created streams
  (`KnownStreams`), that a segment is stored before it is registered
  (`StoredFirst`), and that a complete declaration, also one still under way,
  lists all that was captured (`DeclaredOK`). `NeverReopened` then follows from
  `OneActiveStream` and the steps that write a session.
* `MonitorFeed`. With the types, `TileIsRouted` and `RegistrationHolds` are
  inductive: every path that shows a stream opens its channel first, and every
  step that takes a key away from the newest stream, an outage included, excuses
  its slot.
* `AssemblyJob`. `Core` says that one caller of a process is inside `assemble`
  (`Exclusive`), that lists are numbered, ascend and are no longer than the
  registry (`ListOK`), that no file of the job dir has an index the list does not
  have (`Covered`, `DirsOK`), and what is in the directory at each point
  (`Progress`). Segments are never unregistered, so whatever a crash left has an
  index that a later, longer list has too, and is overwritten. That `Sorted`
  lists a finite set, all of it and ascending, is `SortedEnumerates`, by the
  pigeonhole principle; that indices are already in order is `SortedInterval`,
  and that names of one length sort as their numbers do `ShortNamesSort`.
  `RecordingIsListed` and `PlaysInOrder` are of lists with such names
  (`NamesSort`: up to 10,000 segments), and `RecordingIsListed` of recordings
  whose concat list lost no line.
* `QueueHealth`. `MonitorInv`: the lag clock is behind both the run of samples and
  the time since the last alert. `RecoveryInv`: a pass has the mutex to itself,
  and while a retry is owed for a pass that left a tick of the cooldown
  (`timely`), the verdict that earned it stands and the cooldown has not run
  out, since no tick passes before the mutex is handed on.
* `LiveRewind`. The properties are about what a player derives from a playlist,
  so each has to be traced back to the list in Redis:

      RewindInv == RewindTypeOK /\ NumbersRunOn /\ ClockRunsOn /\ ServedOK

  `NumbersRunOn`: two fragments are at least as far apart by number as by place
  (a failed upload uses its number up), so numbers that are as far apart as the
  places have no hole between them. `ClockRunsOn`: a fragment of the same epoch
  and with the next number starts where the one before it ends, and the
  uploader's clock is there for the next. `ServedOK`: the playlist served last
  is the stretch of the list that the window chose when the list was shorter,
  and its two counters are those of its first fragment in the whole list. The
  window never goes back (`WindowAdvances`), however long the fragments are, and
  numbers run ahead of places at least as far at a later start of it
  (`NumbersRunOn`), so no fragment's number goes down: `NothingIsSkipped`. From there,
  `DiscontinuityInList` shows that what a player counts for a fragment is the
  number of epoch changes up to its place in the list, whatever the window has
  trimmed, and `SpanTelescopes` that the durations added up within an epoch are
  the distance of its fragments' starts.
* `FrameExtractor`. One packet can release a run of others, which a recursive
  function works off; the invariant is shown of every one of its steps:

      ExtractorInv == BufferOK /\ PictureOK(Picture) /\ ClocksOK

  `BufferOK`: what is held lies ahead of the next number, and what was handed on
  before it. `PictureOK` has the count of losses at every packet (`CountOK`),
  what a picture without the mark of corruption must be like (`Untainted`: the
  open NAL unit has no gap and ends at the last packet handed on, the units
  before it are complete and of the same picture), and what was kept for capture
  (`KeptOK`). Without `Untainted` neither `NeverMixed` nor `FragmentsWhole` is
  inductive: a picture whose marker is lost is kept apart from the next one only
  because the gap taints it. `PushStretch` says that a push hands on consecutive
  packets, `DeltaIsDistance` that the signed difference of two wrapped sequence
  numbers is the distance of their packets.
* `MCCoverage`. `CoverageInv`: what was captured is numbered and ordered in time,
  and what was received is a part of it in the same order. `InteriorGapsAreSeen`
  is then two lemmas (`GapMeansLoss`, `LossMeansGap`); `MajorityIsProtected` and
  `NoFalseAlarms` rest on `PlacesFill`: the places of the rates in ascending
  order are a numbering of them, so where most rates lie on one side of a rate
  the median does too (`HighSide`, `LowSide`).

TLAPS has no induction over data that the installed provers can use directly: the
induction theorems of its library take an operator as a parameter. `MediaProofs`
uses the least-number principle instead (`LeastNumber`, from the well-foundedness
of `<` on the naturals): the folds of the model exist (`SumsExist`,
`IngestExists`), and a least step at which one of them went wrong leads to a
contradiction (`SpanTelescopes`, `IngestedOK`).

Proofs that a step preserves an invariant have one case per action; frame lemmas
(`Others`, `Leave`, `Outside`...) take care of what an action leaves alone.

Only model-checked, not proved, is every liveness property, as fairness and
ENABLED are outside the prover's reach: `ArmedIsRecorded`, `EventuallySettled`,
`CloseEnds`, `EventuallyServed`, `EventuallyExact`, `EventuallyRouted`,
`GoroutinesEnd`, `EventuallyRecorded`, `TopicsReturn`, `LagReported`; and of what
`Coverage` computes, the number of frames and the duration it reports, about
which no property is stated.

## 5. Plan

Done: the modules, runs and theorems above, in this order: assembly, consumer,
peers, recorder, live rewind, upload sessions, coverage, frame extractor; the
ledger and its refinement, the assembly job, the monitor feed, topic recovery
and the queue monitor.

Next, models:
1. `PendingAssemblyRegistry` in detail (sorted set and detail key, the TTL on
   both, a sweep that meets half an entry), shown to implement the due-set of
   `RecordingAssembly`.
2. An abstract at-least-once queue, implemented by `KafkaConsumer` when
   dead-lettering works.
3. The AI relay: `Close` reads the connection id that `negotiate` has not stored
   yet, and the AI service keeps the connection.
4. The hand-over of a picture from the extractor to `CaptureJPEG`.

Next, proofs: the refinements of items 1 and 2, and the sum of frames that
`Reconcile` reports, by the least-number principle.

### Not modelled

* Frame conversion: a stateless handler (download, ffmpeg, upload, publish);
  its delivery is that of the frame group in `consumer`.
* AI relay: a queue that drops, and the negotiation of a second peer connection
  over HTTP; nothing flows back into recording. See the plan.
* Media probing, the rest of the storage client (buckets, life cycle rules,
  presigned URLs), token and signature validation, gRPC and HTTP adapters,
  metrics, health, playback: no state of their own, or I/O only.
* The sweep of temp directories at start-up, which runs before any recorder
  exists, configuration parsing and generated code.
