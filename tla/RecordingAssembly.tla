------------------------- MODULE RecordingAssembly -------------------------
(***************************************************************************)
(* How a stream's uploaded segments become one recording.                  *)
(*                                                                         *)
(* Two producers end a stream: the desktop client, which opens an upload   *)
(* session, uploads segments and calls /complete, and a WebRTC peer, which *)
(* uploads while it is live and registers its segments when it closes.     *)
(* Three sequential goroutines may then assemble it: the consumer of       *)
(* stream.ended ("assembler"), the consumer of assembly requests           *)
(* ("recordingAssembler") and the assembly watchdog, which sweeps the      *)
(* durable due-set in Redis.  All three call AssemblerUseCase.             *)
(*                                                                         *)
(* Redis, Kafka and the object store survive a crash; requests, peers and  *)
(* the three goroutines do not.                                            *)
(***************************************************************************)
EXTENDS Integers, Sequences, FiniteSets

CONSTANTS
    Desktop,         \* ids of streams uploaded by the desktop client
    WebRTC,          \* ids of streams recorded from a WebRTC peer
    NoStream,        \* "no stream", for an idle runner
    Seqs,            \* segment sequence numbers
    Expiries,        \* upload windows a stream token can ask for (absolute times)
    WatchdogGrace,   \* assemblyWatchdogGrace, after the session's expiry
    WebRTCGrace,     \* webrtcAssemblyGrace, after the stream's window
    GracePeriod,     \* wait after a stream.ended that is not complete
    RetryInterval,   \* watchdogRetryInterval
    MaxAttempts,     \* watchdogMaxAttempts
    MaxTries,        \* maxRetries + 1 handler attempts per Kafka message
    MaxConcurrent,   \* capacity of the assembler's semaphore
    MaxCreates,      \* bound: concurrent CreateSession requests per stream
    MaxQueue,        \* bound: undelivered assembly requests
    MaxNow,          \* bound: the clock
    MaxFaults,       \* bound: failing calls to Redis, Kafka, storage or ffmpeg
    MaxCrashes       \* bound: process crashes or replacements

ASSUME ConstantsAssumption ==
    /\ Desktop \cap WebRTC = {}
    /\ NoStream \notin Desktop \cup WebRTC
    /\ Expiries \subseteq Nat
    /\ WatchdogGrace \in Nat /\ WebRTCGrace \in Nat
    /\ GracePeriod \in Nat /\ RetryInterval \in Nat
    /\ MaxNow \in Nat /\ MaxFaults \in Nat /\ MaxCrashes \in Nat
    /\ MaxCreates \in Nat /\ MaxQueue \in Nat
    /\ MaxAttempts \in Nat \ {0} /\ MaxTries \in Nat \ {0} /\ MaxConcurrent \in Nat \ {0}

VARIABLES
    now,             \* wall clock
    faults,          \* failing calls so far
    crashes,         \* crashes so far
    session,         \* Redis: upload session of a desktop stream
    arming,          \* CreateSession requests registered but not yet scheduled
    uploading,       \* Upload requests admitted but not yet registered
    completing,      \* progress of the Complete request, if any
    peer,            \* life cycle of a WebRTC stream's peer
    stored,          \* WebRTC segments in the object store, known to the peer
    todo,            \* segments a closing peer has still to register
    incomplete,      \* the peer's ffmpegIngest.incomplete flag
    segments,        \* Redis: registered segments of a stream
    complete,        \* Redis: the segment registry's completion flag
    pending,         \* Redis: the assembly due-set
    forgotten,       \* history: streams whose due entry the watchdog removed
                     \* because it had read no segments, not armed since
    topic,           \* Kafka: messages not yet committed, per consumer
    dlq,             \* streams whose message went to the dead-letter queue
    lost,            \* streams whose message failed and could not be dead-lettered
    recording,       \* object store: segments in recording.mp4, {} when absent
    status,          \* last recording.part.changed status published
    inFlight,        \* AssemblerUseCase.inFlight
    pc,              \* where each runner is
    cur,             \* the stream a runner works on
    metas,           \* the segment list a runner's assemble call read
    tries,           \* handler attempt (consumers), Attempts (watchdog)
    batch,           \* due entries of the current sweep still to handle
    gaveUp,          \* history: streams the watchdog abandoned
    yielded,         \* history: streams on which assemble returned nil because
                     \* another run was in flight
    entrusted        \* history: streams that were armed in the due-set or whose
                     \* assembly message was published

Streams == Desktop \cup WebRTC
Consumers == {"assembler", "recordingAssembler"}
Runners == Consumers \cup {"watchdog"}

NotPending == [dueAt |-> -1, attempts |-> -1]
NoSession == [state |-> "none", expiresAt |-> 0]

counters == <<now, faults, crashes>>
desktopVars == <<session, arming, uploading, completing>>
peerVars == <<peer, stored, todo, incomplete>>
dueVars == <<pending, forgotten, entrusted>>
redisVars == <<segments, complete, dueVars>>
kafkaVars == <<topic, dlq, lost>>
runnerVars == <<inFlight, pc, cur, metas, tries, batch>>
resultVars == <<recording, status, gaveUp, yielded>>
vars == <<counters, desktopVars, peerVars, redisVars, kafkaVars, runnerVars, resultVars>>

-----------------------------------------------------------------------------
(* Times beyond the bounded clock count as its last instant.               *)
Cap(t) == IF t > MaxNow THEN MaxNow ELSE t

Later(a, b) == IF a > b THEN a ELSE b

Ok == UNCHANGED faults
Fault == faults < MaxFaults /\ faults' = faults + 1

(* The upload session answers LookupUpload: stored and not yet expired.    *)
Live(s) == session[s].state # "none" /\ now < session[s].expiresAt

Schedule(s, due, attempts) ==
    /\ pending' = [pending EXCEPT ![s] = [dueAt |-> Cap(due), attempts |-> attempts]]
    /\ forgotten' = forgotten \ {s}
    /\ entrusted' = entrusted \cup {s}

Cancel(s) == pending' = [pending EXCEPT ![s] = NotPending] /\ UNCHANGED <<forgotten, entrusted>>

(* SegmentRegistry.Add and MarkComplete.                                   *)
AddSegment(s, q) == segments' = [segments EXCEPT ![s] = @ \cup {q}]
SetComplete(s) == complete' = [complete EXCEPT ![s] = TRUE]

(* publishRecordingState: the last state a downstream service has seen.    *)
PublishState(s, st) == status' = [status EXCEPT ![s] = st]

(* A Schedule or Cancel whose Redis call failed is logged and leaves the   *)
(* entry as it was.                                                        *)
OrFault(A) == (A /\ Ok) \/ (Fault /\ UNCHANGED dueVars)

-----------------------------------------------------------------------------
(***************************************************************************)
(* The desktop client's requests.  Each handler is split where another     *)
(* goroutine can run between two of its calls.                             *)
(***************************************************************************)

(* The first call stores the session, a repeated one replaces the expiry   *)
(* of the unfinished session it resumes.                                   *)
RegisterOrGetUpload(s, e) ==
    /\ e > now
    /\ session[s].state = "none" \/ (Live(s) /\ session[s].state = "open")
    /\ session' = [session EXCEPT ![s] = [state |-> "open", expiresAt |-> e]]

CreateSession(s, e) ==
    /\ Cardinality(arming[s]) < MaxCreates
    /\ RegisterOrGetUpload(s, e)
    /\ arming' = [arming EXCEPT ![s] = @ \cup {e}]
    /\ UNCHANGED <<counters, uploading, completing, peerVars, redisVars, kafkaVars, runnerVars, resultVars>>

(* The rest of CreateSession: arm the watchdog after the expiry this       *)
(* request registered, then publish UPLOADING.                             *)
ArmWatchdog(s, e) ==
    /\ e \in arming[s]
    /\ arming' = [arming EXCEPT ![s] = @ \ {e}]
    /\ \/ /\ OrFault(Schedule(s, e + WatchdogGrace, 0))
          /\ PublishState(s, "UPLOADING")
       \/ Schedule(s, e + WatchdogGrace, 0) /\ Fault /\ UNCHANGED status
    /\ UNCHANGED <<now, crashes, session, uploading, completing, peerVars, segments, complete>>
    /\ UNCHANGED <<kafkaVars, runnerVars, recording, gaveUp, yielded>>

(* SegmentUseCase.Upload up to its storage call: the session must be live  *)
(* and unfinished and the sequence number new.                             *)
UploadAdmit(s, q) ==
    /\ Live(s) /\ session[s].state = "open"
    /\ q \notin segments[s] \cup uploading[s]
    /\ uploading' = [uploading EXCEPT ![s] = @ \cup {q}]
    /\ UNCHANGED <<counters, session, arming, completing, peerVars, redisVars, kafkaVars, runnerVars, resultVars>>

(* The object is stored and the segment registered, or either call fails.  *)
UploadRegister(s, q) ==
    /\ q \in uploading[s]
    /\ uploading' = [uploading EXCEPT ![s] = @ \ {q}]
    /\ \/ AddSegment(s, q) /\ Ok
       \/ Fault /\ UNCHANGED segments
    /\ UNCHANGED <<now, crashes, session, arming, completing, peerVars, complete, dueVars>>
    /\ UNCHANGED <<kafkaVars, runnerVars, resultVars>>

MarkUploadComplete(s) == session' = [session EXCEPT ![s].state = "completed"]

(* SegmentUseCase.MarkComplete: close the session, then set the registry's *)
(* completion flag.  Repeating it on a finished session is allowed.        *)
MarkComplete(s) ==
    /\ Live(s) /\ completing[s] = "no"
    /\ MarkUploadComplete(s)
    /\ \/ /\ SetComplete(s) /\ Ok
          /\ completing' = [completing EXCEPT ![s] = "marked"]
       \/ Fault /\ UNCHANGED <<complete, completing>>
    /\ UNCHANGED <<now, crashes, arming, uploading, peerVars, segments, dueVars>>
    /\ UNCHANGED <<kafkaVars, runnerVars, resultVars>>

(* Complete publishes the assembly request on every call ...               *)
RequestAssembly(s) ==
    /\ completing[s] = "marked"
    /\ Len(topic["recordingAssembler"]) < MaxQueue
    /\ \/ /\ topic' = [topic EXCEPT !["recordingAssembler"] = Append(@, s)] /\ Ok
          /\ entrusted' = entrusted \cup {s}
          /\ completing' = [completing EXCEPT ![s] = "queued"]
       \/ /\ Fault /\ UNCHANGED <<topic, entrusted>>
          /\ completing' = [completing EXCEPT ![s] = "no"]
    /\ UNCHANGED <<now, crashes, session, arming, uploading, peerVars, segments, complete>>
    /\ UNCHANGED <<pending, forgotten, dlq, lost>>
    /\ UNCHANGED <<runnerVars, resultVars>>

(* Mutant: the watchdog is disarmed before the request is published.       *)
CompleteDisarmsFirst(s) ==
    /\ completing[s] \in {"marked", "queued"}
    /\ completing' = [completing EXCEPT ![s] = IF @ = "queued" THEN "no" ELSE @]
    /\ OrFault(Cancel(s))
    /\ UNCHANGED <<now, crashes, session, arming, uploading, peerVars, segments, complete>>
    /\ UNCHANGED <<kafkaVars, runnerVars, resultVars>>

(* ... and only then disarms the watchdog.                                 *)
CompleteDisarm(s) ==
    /\ completing[s] = "queued"
    /\ completing' = [completing EXCEPT ![s] = "no"]
    /\ OrFault(Cancel(s))
    /\ UNCHANGED <<now, crashes, session, arming, uploading, peerVars, segments, complete>>
    /\ UNCHANGED <<kafkaVars, runnerVars, resultVars>>

-----------------------------------------------------------------------------
(***************************************************************************)
(* A WebRTC stream.                                                        *)
(***************************************************************************)

(* ServeStream arms the watchdog for the new peer; a failure is logged.    *)
Connect(s) ==
    /\ peer[s] = "none"
    /\ peer' = [peer EXCEPT ![s] = "live"]
    /\ \E e \in Expiries : OrFault(Schedule(s, Later(now, e) + WebRTCGrace, 0))
    /\ UNCHANGED <<now, crashes, desktopVars, stored, todo, incomplete, segments, complete>>
    /\ UNCHANGED <<kafkaVars, runnerVars, resultVars>>

(* The peer's uploader stores one finished segment; after three failed     *)
(* attempts the recording counts as incomplete.                            *)
CaptureSegment(s, q) ==
    /\ peer[s] = "live"
    /\ q \notin stored[s]
    /\ \/ stored' = [stored EXCEPT ![s] = @ \cup {q}] /\ Ok /\ UNCHANGED incomplete
       \/ Fault /\ incomplete' = [incomplete EXCEPT ![s] = TRUE] /\ UNCHANGED stored
    /\ UNCHANGED <<now, crashes, desktopVars, peer, todo, redisVars, kafkaVars, runnerVars, resultVars>>

(* Peer.close drains the uploader and takes over its segment list.         *)
PeerClose(s) ==
    /\ peer[s] = "live"
    /\ peer' = [peer EXCEPT ![s] = "closing"]
    /\ todo' = [todo EXCEPT ![s] = stored[s]]
    /\ UNCHANGED <<counters, desktopVars, stored, incomplete, redisVars, kafkaVars, runnerVars, resultVars>>

(* close registers the segments one by one.                                *)
PeerRegister(s, q) ==
    /\ peer[s] = "closing" /\ q \in todo[s]
    /\ todo' = [todo EXCEPT ![s] = @ \ {q}]
    /\ \/ AddSegment(s, q) /\ Ok /\ UNCHANGED incomplete
       \/ Fault /\ incomplete' = [incomplete EXCEPT ![s] = TRUE] /\ UNCHANGED segments
    /\ UNCHANGED <<now, crashes, desktopVars, peer, stored, complete, dueVars>>
    /\ UNCHANGED <<kafkaVars, runnerVars, resultVars>>

(* Only a clean close with every segment registered sets the completion    *)
(* flag; "dropped" is closedByFailure or a supervisor that gave up.        *)
PeerMarkComplete(s, dropped) ==
    /\ peer[s] = "closing" /\ todo[s] = {}
    /\ peer' = [peer EXCEPT ![s] = "ending"]
    /\ IF ~dropped /\ ~incomplete[s] /\ stored[s] # {}
       THEN \/ SetComplete(s) /\ Ok
            \/ Fault /\ UNCHANGED complete
       ELSE Ok /\ UNCHANGED complete
    /\ UNCHANGED <<now, crashes, desktopVars, stored, todo, incomplete, segments, dueVars>>
    /\ UNCHANGED <<kafkaVars, runnerVars, resultVars>>

(* NotifyStreamEnded publishes stream.ended; a failure is only logged.     *)
PeerEnded(s) ==
    /\ peer[s] = "ending"
    /\ peer' = [peer EXCEPT ![s] = "closed"]
    /\ \/ /\ topic' = [topic EXCEPT !["assembler"] = Append(@, s)] /\ Ok
          /\ entrusted' = entrusted \cup {s}
       \/ Fault /\ UNCHANGED <<topic, entrusted>>
    /\ UNCHANGED <<now, crashes, desktopVars, stored, todo, incomplete, segments, complete>>
    /\ UNCHANGED <<pending, forgotten, dlq, lost>>
    /\ UNCHANGED <<runnerVars, resultVars>>

-----------------------------------------------------------------------------
(***************************************************************************)
(* AssemblerUseCase.AssembleRequested, called by the three runners.        *)
(***************************************************************************)

(* A runner holds the in-flight entry of its stream ...                    *)
Holding == {"list", "sem", "check", "build", "publish"}
(* ... and a semaphore slot.                                               *)
InSemaphore == {"check", "build", "publish"}

Step(r, from, to) == pc[r] = from /\ pc' = [pc EXCEPT ![r] = to]

Release(r) == inFlight' = inFlight \ {cur[r]}

(* assemble returns nil at once when the stream is already in flight, and  *)
(* claims it otherwise.                                                    *)
Claim(r) ==
    /\ pc[r] = "claim"
    /\ \/ /\ cur[r] \in inFlight
          /\ Step(r, "claim", "ok")
          /\ yielded' = yielded \cup {cur[r]}
          /\ UNCHANGED inFlight
       \/ /\ cur[r] \notin inFlight
          /\ Step(r, "claim", "list")
          /\ inFlight' = inFlight \cup {cur[r]}
          /\ UNCHANGED yielded
    /\ UNCHANGED <<counters, desktopVars, peerVars, redisVars, kafkaVars>>
    /\ UNCHANGED <<cur, metas, tries, batch, recording, status, gaveUp>>

(* The segment list is read once; an empty or unreadable one is a failure. *)
ListSegments(r) ==
    /\ pc[r] = "list"
    /\ \/ /\ segments[cur[r]] # {}
          /\ Step(r, "list", "sem") /\ Ok
          /\ metas' = [metas EXCEPT ![r] = segments[cur[r]]]
          /\ UNCHANGED inFlight
       \/ /\ Fault \/ (segments[cur[r]] = {} /\ Ok)
          /\ Step(r, "list", "fail") /\ Release(r)
          /\ UNCHANGED metas
    /\ UNCHANGED <<now, crashes, desktopVars, peerVars, redisVars, kafkaVars>>
    /\ UNCHANGED <<cur, tries, batch, resultVars>>

(* Wait for one of the MaxConcurrent slots.                                *)
AcquireSlot(r) ==
    /\ Cardinality({o \in Runners : pc[o] \in InSemaphore}) < MaxConcurrent
    /\ Step(r, "sem", "check")
    /\ UNCHANGED <<counters, desktopVars, peerVars, redisVars, kafkaVars>>
    /\ UNCHANGED <<inFlight, cur, metas, tries, batch, resultVars>>

(* Mutant: there is no existence check, every attempt rebuilds.            *)
CheckExistingRebuilds(r) ==
    /\ Step(r, "check", "build") /\ Ok /\ UNCHANGED inFlight
    /\ UNCHANGED <<now, crashes, desktopVars, peerVars, redisVars, kafkaVars>>
    /\ UNCHANGED <<cur, metas, tries, batch, resultVars>>

(* RecordingExists: an existing recording is only reported again.          *)
CheckExisting(r) ==
    /\ pc[r] = "check"
    /\ \/ recording[cur[r]] # {} /\ Step(r, "check", "publish") /\ Ok /\ UNCHANGED inFlight
       \/ recording[cur[r]] = {} /\ Step(r, "check", "build") /\ Ok /\ UNCHANGED inFlight
       \/ Step(r, "check", "fail") /\ Fault /\ Release(r)
    /\ UNCHANGED <<now, crashes, desktopVars, peerVars, redisVars, kafkaVars>>
    /\ UNCHANGED <<cur, metas, tries, batch, resultVars>>

(* Download, concatenate and upload recording.mp4; any step may fail.      *)
BuildRecording(r) ==
    /\ \/ /\ Step(r, "build", "publish") /\ Ok /\ UNCHANGED inFlight
          /\ recording' = [recording EXCEPT ![cur[r]] = metas[r]]
       \/ Step(r, "build", "fail") /\ Fault /\ Release(r) /\ UNCHANGED recording
    /\ UNCHANGED <<now, crashes, desktopVars, peerVars, redisVars, kafkaVars>>
    /\ UNCHANGED <<cur, metas, tries, batch, status, gaveUp, yielded>>

(* Publish READY or PARTIAL ("READY" here); assemble then returns and its  *)
(* deferred calls free the in-flight entry and the slot.                   *)
PublishReady(r) ==
    /\ \/ Step(r, "publish", "ok") /\ Ok /\ PublishState(cur[r], "READY")
       \/ Step(r, "publish", "err") /\ Fault /\ UNCHANGED status
    /\ Release(r)
    /\ UNCHANGED <<now, crashes, desktopVars, peerVars, redisVars, kafkaVars>>
    /\ UNCHANGED <<cur, metas, tries, batch, recording, gaveUp, yielded>>

(* AssembleRequested reports a failed assembly after assemble returned.    *)
PublishFailed(r) ==
    /\ Step(r, "fail", "err")
    /\ \/ PublishState(cur[r], "FAILED") /\ Ok
       \/ Fault /\ UNCHANGED status
    /\ UNCHANGED <<now, crashes, desktopVars, peerVars, redisVars, kafkaVars>>
    /\ UNCHANGED <<inFlight, cur, metas, tries, batch, recording, gaveUp, yielded>>

-----------------------------------------------------------------------------
(***************************************************************************)
(* The two Kafka consumers.                                                *)
(***************************************************************************)

Entry(c) == IF c = "assembler" THEN "ended" ELSE "claim"

Fetch(c) ==
    /\ topic[c] # <<>>
    /\ Step(c, "idle", Entry(c))
    /\ cur' = [cur EXCEPT ![c] = Head(topic[c])]
    /\ tries' = [tries EXCEPT ![c] = 1]
    /\ UNCHANGED <<counters, desktopVars, peerVars, redisVars, kafkaVars, inFlight, metas, batch, resultVars>>

(* Mutant: an incomplete stream is disarmed like a complete one.           *)
OnStreamEndedDisarms ==
    LET c == "assembler" IN
    /\ pc[c] = "ended"
    /\ \/ complete[cur[c]] /\ Step(c, "ended", "claim") /\ UNCHANGED dueVars
       \/ ~complete[cur[c]] /\ Step(c, "ended", "commit") /\ Cancel(cur[c])
    /\ UNCHANGED <<counters, desktopVars, peerVars, segments, complete, kafkaVars>>
    /\ UNCHANGED <<inFlight, cur, metas, tries, batch, resultVars>>

(* OnStreamEnded: a complete stream is assembled now, any other waits out  *)
(* its grace period in the due-set.                                        *)
OnStreamEnded ==
    LET c == "assembler" IN
    /\ pc[c] = "ended"
    /\ \/ complete[cur[c]] /\ Step(c, "ended", "claim") /\ Ok /\ UNCHANGED dueVars
       \/ ~complete[cur[c]] /\ Step(c, "ended", "commit") /\ Ok /\ Schedule(cur[c], now + GracePeriod, 0)
       \/ Step(c, "ended", "err") /\ Fault /\ UNCHANGED dueVars
    /\ UNCHANGED <<now, crashes, desktopVars, peerVars, segments, complete, kafkaVars>>
    /\ UNCHANGED <<inFlight, cur, metas, tries, batch, resultVars>>

(* OnStreamEnded's disarmWatchdog once AssembleRequested returned nil.     *)
DisarmWatchdog ==
    /\ Step("assembler", "ok", "commit")
    /\ OrFault(Cancel(cur["assembler"]))
    /\ UNCHANGED <<now, crashes, desktopVars, peerVars, segments, complete, kafkaVars>>
    /\ UNCHANGED <<inFlight, cur, metas, tries, batch, resultVars>>

RequestDone ==
    /\ Step("recordingAssembler", "ok", "commit")
    /\ UNCHANGED <<counters, desktopVars, peerVars, redisVars, kafkaVars>>
    /\ UNCHANGED <<inFlight, cur, metas, tries, batch, resultVars>>

Commit(c) ==
    /\ Step(c, "commit", "idle")
    /\ topic' = [topic EXCEPT ![c] = Tail(@)]
    /\ cur' = [cur EXCEPT ![c] = NoStream]
    /\ metas' = [metas EXCEPT ![c] = {}]
    /\ tries' = [tries EXCEPT ![c] = 0]
    /\ UNCHANGED <<counters, desktopVars, peerVars, redisVars, dlq, lost>>
    /\ UNCHANGED <<inFlight, batch, resultVars>>

(* handleWithRetry, then the dead-letter queue; when that fails as well    *)
(* the consumer moves on without this message.                             *)
HandlerFailed(c) ==
    /\ \/ /\ tries[c] < MaxTries
          /\ Step(c, "err", Entry(c)) /\ Ok
          /\ tries' = [tries EXCEPT ![c] = @ + 1]
          /\ UNCHANGED <<dlq, lost>>
       \/ /\ tries[c] >= MaxTries
          /\ Step(c, "err", "commit")
          /\ \/ dlq' = dlq \cup {cur[c]} /\ Ok /\ UNCHANGED lost
             \/ lost' = lost \cup {cur[c]} /\ Fault /\ UNCHANGED dlq
          /\ UNCHANGED tries
    /\ UNCHANGED <<now, crashes, desktopVars, peerVars, redisVars, topic>>
    /\ UNCHANGED <<inFlight, cur, metas, batch, resultVars>>

-----------------------------------------------------------------------------
(***************************************************************************)
(* The watchdog.                                                           *)
(***************************************************************************)

Due == {s \in Streams : pending[s] # NotPending /\ pending[s].dueAt <= now}

(* Mutant: the sweep takes the due entries out of the set as it reads them. *)
SweepTakes ==
    /\ pc["watchdog"] = "idle" /\ batch = {}
    /\ Due # {}
    /\ batch' = {[stream |-> s, attempts |-> pending[s].attempts] : s \in Due}
    /\ pending' = [s \in Streams |-> IF s \in Due THEN NotPending ELSE pending[s]]
    /\ UNCHANGED <<counters, desktopVars, peerVars, segments, complete, forgotten, entrusted, kafkaVars>>
    /\ UNCHANGED <<inFlight, pc, cur, metas, tries, resultVars>>

(* SweepOnce reads the due entries and handles its copies one after the    *)
(* other, whatever happens to the entries meanwhile.                       *)
Sweep ==
    /\ pc["watchdog"] = "idle" /\ batch = {}
    /\ Due # {}
    /\ batch' = {[stream |-> s, attempts |-> pending[s].attempts] : s \in Due}
    /\ UNCHANGED <<counters, desktopVars, peerVars, redisVars, kafkaVars>>
    /\ UNCHANGED <<inFlight, pc, cur, metas, tries, resultVars>>

(* handle reads the segment registry; when that fails the entry waits for  *)
(* the next sweep.                                                         *)
Handle(e) ==
    LET w == "watchdog" IN
    /\ e \in batch
    /\ batch' = batch \ {e}
    /\ \/ pc[w] = "idle" /\ Fault /\ UNCHANGED <<pc, cur, tries>>
       \/ /\ Step(w, "idle", IF segments[e.stream] = {} THEN "drop" ELSE "claim") /\ Ok
          /\ cur' = [cur EXCEPT ![w] = e.stream]
          /\ tries' = [tries EXCEPT ![w] = e.attempts]
    /\ UNCHANGED <<now, crashes, desktopVars, peerVars, redisVars, kafkaVars>>
    /\ UNCHANGED <<inFlight, metas, resultVars>>

WatchdogIdle ==
    /\ cur' = [cur EXCEPT !["watchdog"] = NoStream]
    /\ metas' = [metas EXCEPT !["watchdog"] = {}]
    /\ tries' = [tries EXCEPT !["watchdog"] = 0]

(* A stream that had no segments when handle looked loses its due entry,   *)
(* whatever has been registered or scheduled in the meantime.              *)
DropEmpty ==
    LET s == cur["watchdog"] IN
    /\ Step("watchdog", "drop", "idle")
    /\ WatchdogIdle
    /\ \/ /\ pending' = [pending EXCEPT ![s] = NotPending] /\ Ok
          /\ forgotten' = forgotten \cup {s} /\ UNCHANGED entrusted
       \/ Fault /\ UNCHANGED dueVars
    /\ UNCHANGED <<now, crashes, desktopVars, peerVars, segments, complete, kafkaVars>>
    /\ UNCHANGED <<inFlight, batch, resultVars>>

WatchdogDone ==
    /\ Step("watchdog", "ok", "idle")
    /\ WatchdogIdle
    /\ OrFault(Cancel(cur["watchdog"]))
    /\ UNCHANGED <<now, crashes, desktopVars, peerVars, segments, complete, kafkaVars>>
    /\ UNCHANGED <<inFlight, batch, resultVars>>

(* A failed attempt is rescheduled, the last one abandoned.                *)
WatchdogFailed ==
    LET s == cur["watchdog"]
        n == tries["watchdog"] + 1 IN
    /\ Step("watchdog", "err", "idle")
    /\ WatchdogIdle
    /\ \/ /\ n >= MaxAttempts
          /\ OrFault(Cancel(s))
          /\ gaveUp' = gaveUp \cup {s}
       \/ /\ n < MaxAttempts
          /\ OrFault(Schedule(s, now + RetryInterval, n))
          /\ UNCHANGED gaveUp
    /\ UNCHANGED <<now, crashes, desktopVars, peerVars, segments, complete, kafkaVars>>
    /\ UNCHANGED <<inFlight, batch, recording, status, yielded>>

-----------------------------------------------------------------------------
Tick ==
    /\ now < MaxNow
    /\ now' = now + 1
    /\ UNCHANGED <<faults, crashes, desktopVars, peerVars, redisVars, kafkaVars, runnerVars, resultVars>>

(* The process is replaced: whatever lived in memory is gone.  main does   *)
(* not close the peers on shutdown either.                                 *)
Crash ==
    /\ crashes < MaxCrashes
    /\ crashes' = crashes + 1
    /\ arming' = [s \in Desktop |-> {}]
    /\ uploading' = [s \in Desktop |-> {}]
    /\ completing' = [s \in Desktop |-> "no"]
    /\ peer' = [s \in WebRTC |-> IF peer[s] \in {"none", "closed"} THEN peer[s] ELSE "dead"]
    /\ todo' = [s \in WebRTC |-> {}]
    /\ inFlight' = {}
    /\ pc' = [r \in Runners |-> "idle"]
    /\ cur' = [r \in Runners |-> NoStream]
    /\ metas' = [r \in Runners |-> {}]
    /\ tries' = [r \in Runners |-> 0]
    /\ batch' = {}
    /\ UNCHANGED <<now, faults, session, stored, incomplete, redisVars, kafkaVars, resultVars>>

Init ==
    /\ now = 0 /\ faults = 0 /\ crashes = 0
    /\ session = [s \in Desktop |-> NoSession]
    /\ arming = [s \in Desktop |-> {}]
    /\ uploading = [s \in Desktop |-> {}]
    /\ completing = [s \in Desktop |-> "no"]
    /\ peer = [s \in WebRTC |-> "none"]
    /\ stored = [s \in WebRTC |-> {}]
    /\ todo = [s \in WebRTC |-> {}]
    /\ incomplete = [s \in WebRTC |-> FALSE]
    /\ segments = [s \in Streams |-> {}]
    /\ complete = [s \in Streams |-> FALSE]
    /\ pending = [s \in Streams |-> NotPending]
    /\ topic = [c \in Consumers |-> <<>>]
    /\ dlq = {} /\ lost = {} /\ gaveUp = {} /\ yielded = {} /\ forgotten = {} /\ entrusted = {}
    /\ recording = [s \in Streams |-> {}]
    /\ status = [s \in Streams |-> "none"]
    /\ inFlight = {} /\ batch = {}
    /\ pc = [r \in Runners |-> "idle"]
    /\ cur = [r \in Runners |-> NoStream]
    /\ metas = [r \in Runners |-> {}]
    /\ tries = [r \in Runners |-> 0]

DesktopStep(s) ==
    \/ \E e \in Expiries : CreateSession(s, e) \/ ArmWatchdog(s, e)
    \/ \E q \in Seqs : UploadAdmit(s, q) \/ UploadRegister(s, q)
    \/ MarkComplete(s) \/ RequestAssembly(s) \/ CompleteDisarm(s)

PeerStep(s) ==
    \/ Connect(s) \/ PeerClose(s) \/ PeerEnded(s)
    \/ \E q \in Seqs : CaptureSegment(s, q) \/ PeerRegister(s, q)
    \/ \E dropped \in BOOLEAN : PeerMarkComplete(s, dropped)

AssembleStep(r) ==
    Claim(r) \/ ListSegments(r) \/ AcquireSlot(r) \/ CheckExisting(r) \/ BuildRecording(r)
        \/ PublishReady(r) \/ PublishFailed(r)

ConsumerStep(c) == Fetch(c) \/ Commit(c) \/ HandlerFailed(c)

WatchdogStep ==
    Sweep \/ (\E e \in batch : Handle(e)) \/ DropEmpty \/ WatchdogDone \/ WatchdogFailed

Next ==
    \/ \E s \in Desktop : DesktopStep(s)
    \/ \E s \in WebRTC : PeerStep(s)
    \/ \E r \in Runners : AssembleStep(r)
    \/ \E c \in Consumers : ConsumerStep(c)
    \/ OnStreamEnded \/ DisarmWatchdog \/ RequestDone
    \/ WatchdogStep
    \/ Tick \/ Crash

Spec == Init /\ [][Next]_vars

(* The goroutines of the process are scheduled by the Go runtime and its   *)
(* tickers fire; requests and peers owe nothing.                           *)
Fairness ==
    /\ \A r \in Runners : WF_vars(AssembleStep(r))
    /\ \A c \in Consumers : WF_vars(ConsumerStep(c))
    /\ WF_vars(OnStreamEnded) /\ WF_vars(DisarmWatchdog) /\ WF_vars(RequestDone)
    /\ WF_vars(WatchdogStep)
    /\ WF_vars(Tick)

LiveSpec == Spec /\ Fairness

-----------------------------------------------------------------------------
Times == 0 .. MaxNow
PendingEntry == [dueAt : Times, attempts : 0 .. MaxAttempts - 1]
RunnerPC == {"idle", "ended", "claim", "fail", "ok", "err", "commit", "drop"} \cup Holding

CountersOK == now \in Times /\ faults \in 0 .. MaxFaults /\ crashes \in 0 .. MaxCrashes
DesktopOK ==
    /\ session \in [Desktop -> [state : {"none", "open", "completed"}, expiresAt : Expiries \cup {0}]]
    /\ arming \in [Desktop -> SUBSET Expiries]
    /\ uploading \in [Desktop -> SUBSET Seqs]
    /\ completing \in [Desktop -> {"no", "marked", "queued"}]
PeerOK ==
    /\ peer \in [WebRTC -> {"none", "live", "closing", "ending", "closed", "dead"}]
    /\ stored \in [WebRTC -> SUBSET Seqs]
    /\ todo \in [WebRTC -> SUBSET Seqs]
    /\ incomplete \in [WebRTC -> BOOLEAN]
RedisOK ==
    /\ segments \in [Streams -> SUBSET Seqs]
    /\ complete \in [Streams -> BOOLEAN]
    /\ pending \in [Streams -> PendingEntry \cup {NotPending}]
    /\ forgotten \subseteq Streams /\ entrusted \subseteq Streams
KafkaOK ==
    /\ topic \in [Consumers -> Seq(Streams)]
    /\ dlq \subseteq Streams /\ lost \subseteq Streams
RunnersOK ==
    /\ inFlight \subseteq Streams
    /\ pc \in [Runners -> RunnerPC]
    /\ cur \in [Runners -> Streams \cup {NoStream}]
    /\ \A r \in Runners : pc[r] # "idle" => cur[r] # NoStream
    /\ metas \in [Runners -> SUBSET Seqs]
    /\ tries \in [Runners -> Nat]
    /\ batch \subseteq [stream : Streams, attempts : 0 .. MaxAttempts - 1]
ResultsOK ==
    /\ recording \in [Streams -> SUBSET Seqs]
    /\ status \in [Streams -> {"none", "UPLOADING", "READY", "FAILED"}]
    /\ gaveUp \subseteq Streams /\ yielded \subseteq Streams

(* Every variable has its type: the due-set never holds an entry that has  *)
(* used up its attempts, and a runner that is not idle works on a stream.  *)
TypeOK ==
    CountersOK /\ DesktopOK /\ PeerOK /\ RedisOK /\ KafkaOK /\ RunnersOK /\ ResultsOK

(* A stream still has an owner: its due entry or an uncommitted message.   *)
InTopic(s) == \E c \in Consumers : \E i \in 1 .. Len(topic[c]) : topic[c][i] = s
Owned(s) == pending[s] # NotPending \/ InTopic(s)
(* Its failure is on record: dead-lettered, logged as lost, or abandoned.  *)
Reported(s) == s \in dlq \cup lost \cup gaveUp

(* Once a stream was armed or its assembly message published, and it has   *)
(* segments, it is recorded, owned, or reported as failed.  Two things in  *)
(* the code break this, and nothing else does: a trigger that takes        *)
(* "already in flight" for success, and the watchdog's removal of an entry *)
(* whose stream had no segments when it looked.  /complete must publish    *)
(* before it disarms, a consumer may only commit what is settled or left   *)
(* to the due-set, and a sweep may not take entries away before it is done *)
(* with them.                                                              *)
NoOrphan ==
    \A s \in entrusted :
        segments[s] # {} =>
            recording[s] # {} \/ Owned(s) \/ Reported(s) \/ s \in yielded \cup forgotten

(* recording.mp4 is written once: assemble's in-flight claim and its       *)
(* idempotency check keep a second run from replacing it.                  *)
RecordingWrittenOnce ==
    [][\A s \in Streams : recording[s] # {} => recording'[s] = recording[s]]_vars

(* READY or PARTIAL is only ever the last published state of a stream      *)
(* whose recording exists.                                                 *)
ReadyHasRecording == \A s \in Streams : status[s] = "READY" => recording[s] # {}

(* Assembly implements the ledger its consumers rely on: across retries,   *)
(* crashes, the watchdog and the two consumers, what is registered,        *)
(* recorded and announced changes only as the ledger allows.               *)
Ledger == INSTANCE RecordingLedger
    WITH Parts <- Seqs, registered <- segments, recorded <- recording, announced <- status

LedgerKept == Ledger!Spec

(* A stream with segments in the due-set is eventually recorded, by        *)
(* whichever of the three runners gets to it, unless its assembly fails    *)
(* for good (dead-lettered or given up), a trigger took "already in        *)
(* flight" for success, or the watchdog, having read the registry before   *)
(* the segments came, removes the entry as that of an empty stream.        *)
ArmedIsRecorded ==
    \A s \in Streams :
        (pending[s] # NotPending /\ segments[s] # {})
            ~> (recording[s] # {} \/ Reported(s) \/ s \in yielded \cup forgotten)

-----------------------------------------------------------------------------
(***************************************************************************)
(* What comments in the code say of it and the model refutes.              *)
(***************************************************************************)

(* A refreshed session is to "extend the watchdog rather than race it":    *)
(* while a session is open and no CreateSession request is between its     *)
(* registration and its Schedule, the due time lies past the expiry.       *)
ArmedPastExpiry ==
    \A s \in Desktop :
        (Live(s) /\ session[s].state = "open" /\ arming[s] = {} /\ pending[s] # NotPending)
            => pending[s].dueAt >= Cap(session[s].expiresAt + WatchdogGrace)

(* "The credential is already dead at ExpiresAt, so nothing can be added   *)
(* past that point": a segment is registered only while its session lives. *)
NoGrowthAfterExpiry ==
    [][\A s \in Desktop : segments'[s] # segments[s] => Live(s)]_vars

(* "assembly survives [...] the process being replaced": the segments a    *)
(* peer stored keep an owner when the peer's process dies.                 *)
StoredIsOwned ==
    \A s \in WebRTC :
        stored[s] # {} =>
            \/ peer[s] \in {"live", "closing", "ending"}
            \/ recording[s] # {} \/ Owned(s) \/ Reported(s)

(* "Disarm only after the recording exists": NoOrphan without its          *)
(* exception for a trigger that found the stream in flight.                *)
DisarmAfterRecording ==
    \A s \in entrusted :
        segments[s] # {} =>
            recording[s] # {} \/ Owned(s) \/ Reported(s) \/ s \in forgotten

(* "A stream that produced nothing [...] has nothing to assemble.          *)
(* Dropping it quietly is right": NoOrphan without its exception for the   *)
(* entries the watchdog removes, of streams whose peer has closed.         *)
DropIsRight ==
    \A s \in entrusted :
        (segments[s] # {} /\ (s \in WebRTC => peer[s] = "closed")) =>
            recording[s] # {} \/ Owned(s) \/ Reported(s) \/ s \in yielded

(* "the earliest moment this stream provably cannot grow any further": a   *)
(* peer that closed cleanly has all its segments in its recording.         *)
RecordingWhole ==
    \A s \in WebRTC :
        (complete[s] /\ recording[s] # {}) => stored[s] \subseteq recording[s]
=============================================================================
