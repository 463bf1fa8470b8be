--------------------------- MODULE RecorderIngest ---------------------------
(***************************************************************************)
(* How a peer's media gets an ffmpeg recorder and how that recorder ends.  *)
(*                                                                         *)
(* The goroutine of the second track starts the recording: it claims the   *)
(* start, takes a group of ports and a recorder slot, starts ffmpeg and    *)
(* its supervisor and then commits, unless the peer was closed meanwhile.  *)
(* The supervisor restarts an ffmpeg that exits and forwards the segments  *)
(* it lists, over an unbuffered channel, to the uploader.  Peer.close      *)
(* stops the process, frees the slot, waits for the uploader and takes     *)
(* over its segments.  Slots and ports are shared with the streams of      *)
(* other peers, of which only what they hold is kept: it is all that a     *)
(* stream sees of another one.                                             *)
(***************************************************************************)
EXTENDS Integers, FiniteSets

CONSTANTS
    Streams,
    MaxRecorders,       \* capacity of RecordSem
    PortGroups,         \* port groups of the allocator
    MaxAttempts,        \* maxAttempts: unproductive attempts in a row
    Multiplier,         \* maxTotalRestartMultiplier
    MaxStarts,          \* bound: starts of a stream's recording
    MaxSegments,        \* bound: segments ffmpeg lists, per stream
    MaxExits,           \* bound: ffmpeg processes that exit or hang, per stream
    MaxFaults           \* bound: failing system calls and uploads, timeouts

ASSUME ConstantsAssumption ==
    /\ MaxRecorders \in Nat /\ PortGroups \in Nat
    /\ MaxAttempts \in Nat \ {0} /\ Multiplier \in Nat \ {0}
    /\ MaxStarts \in Nat /\ MaxSegments \in Nat /\ MaxExits \in Nat /\ MaxFaults \in Nat

VARIABLES
    sem,          \* tokens in RecordSem
    ports,        \* free port groups
    otherSlots, otherPorts,   \* what the streams of the other peers hold
    start,        \* the start goroutine
    starts,       \* starts so far
    closing,      \* Peer.close; anything but "open" means done is closed
    janitor,      \* close's background goroutine
    sup,          \* the supervisor's run loop
    attempt,      \* run's current attempt
    cur,          \* RecorderSupervisor.cur
    stopCh,       \* stopCh is closed
    victim,       \* the attempt StopProcess read from cur
    alive,        \* attempts whose ffmpeg process runs
    stopped,      \* attempts with stopRequested set
    streak, restarts, produced, gaveUp,   \* run's bookkeeping
    uploader,     \* runFFmpegSegmentUploader, or the rollback's drain
    written,      \* segments listed by ffmpeg
    sent,         \* segments forwarded
    segs,         \* segments uploaded
    copied,       \* segments close took over, -1 before
    incomplete, cleaned,
    exits, faults \* how much went wrong so far

otherVars == <<otherSlots, otherPorts>>
startVars == <<sem, ports, start, starts>>
closeVars == <<closing, janitor, copied, cleaned>>
supVars == <<sup, attempt, cur, streak, restarts, gaveUp>>
stopVars == <<stopCh, victim, stopped>>
segVars == <<produced, uploader, written, sent, segs, incomplete>>
vars == <<otherVars, startVars, closeVars, supVars, stopVars, alive, segVars, exits, faults>>

Set(f, s, v) == [f EXCEPT ![s] = v]
Ok == UNCHANGED faults
Fault == faults < MaxFaults /\ faults' = faults + 1

DoneClosed(s) == closing[s] # "open"

-----------------------------------------------------------------------------
(***************************************************************************)
(* noteFFmpegIngestTrack.                                                  *)
(***************************************************************************)

(* Both tracks are there and no other start is under way; an aborted start *)
(* gives the claim back.                                                   *)
ClaimStart(s) ==
    /\ start[s] = "idle" /\ starts[s] < MaxStarts
    /\ starts' = Set(starts, s, starts[s] + 1)
    /\ start' = Set(start, s, "claimed")
    /\ UNCHANGED <<sem, ports, closeVars, supVars, stopVars, alive, segVars, exits, faults>>

(* StartSession allocates a port group, and fails without one or when a    *)
(* later step of it does.                                                  *)
StartSession(s) ==
    /\ start[s] = "claimed"
    /\ \/ DoneClosed(s) /\ start' = Set(start, s, "idle") /\ Ok /\ UNCHANGED ports
       \/ ~DoneClosed(s) /\ ports > 0 /\ start' = Set(start, s, "session") /\ ports' = ports - 1 /\ Ok
       \/ ~DoneClosed(s) /\ ports = 0 /\ start' = Set(start, s, "idle") /\ Ok /\ UNCHANGED ports
       \/ ~DoneClosed(s) /\ Fault /\ start' = Set(start, s, "idle") /\ UNCHANGED ports
    /\ UNCHANGED <<sem, starts, closeVars, supVars, stopVars, alive, segVars, exits>>

(* A slot is taken at once or not at all.                                  *)
TakeSlot(s) ==
    /\ start[s] = "session"
    /\ \/ sem < MaxRecorders /\ sem' = sem + 1 /\ start' = Set(start, s, "slot") /\ UNCHANGED ports
       \/ sem = MaxRecorders /\ ports' = ports + 1 /\ start' = Set(start, s, "idle") /\ UNCHANGED sem
    /\ UNCHANGED <<starts, closeVars, supVars, stopVars, alive, segVars, exits, faults>>

StartRecorderSupervisor(s) ==
    /\ start[s] = "slot"
    /\ \/ /\ start' = Set(start, s, "running") /\ Ok
          /\ sup' = Set(sup, s, "top") /\ alive' = Set(alive, s, {1})
          /\ attempt' = Set(attempt, s, 1) /\ cur' = Set(cur, s, 1)
          /\ UNCHANGED <<sem, ports>>
       \/ /\ Fault /\ start' = Set(start, s, "idle")
          /\ sem' = sem - 1 /\ ports' = ports + 1
          /\ UNCHANGED <<sup, alive, attempt, cur>>
    /\ UNCHANGED <<starts, closeVars, streak, restarts, gaveUp, stopVars, segVars, exits>>

(* Mutants: commit without looking at done, or without a consumer for what *)
(* a rolled back recorder still flushes.                                   *)
CommitBlindly(s) ==
    /\ start[s] = "running"
    /\ start' = Set(start, s, "committed") /\ uploader' = Set(uploader, s, "idle")
    /\ UNCHANGED <<sem, ports, starts, closeVars, supVars, stopVars, alive, exits, faults>>
    /\ UNCHANGED <<produced, written, sent, segs, incomplete>>
CommitUndrained(s) ==
    /\ start[s] = "running"
    /\ \/ ~DoneClosed(s) /\ start' = Set(start, s, "committed") /\ uploader' = Set(uploader, s, "idle")
       \/ DoneClosed(s) /\ start' = Set(start, s, "rollback") /\ UNCHANGED uploader
    /\ UNCHANGED <<sem, ports, starts, closeVars, supVars, stopVars, alive, exits, faults>>
    /\ UNCHANGED <<produced, written, sent, segs, incomplete>>

(* Under st.mu: hand session, supervisor and slot over to close, or roll   *)
(* back if done is closed.                                                 *)
Commit(s) ==
    /\ start[s] = "running"
    /\ \/ ~DoneClosed(s) /\ start' = Set(start, s, "committed")
       \/ DoneClosed(s) /\ start' = Set(start, s, "rollback")
    /\ uploader' = Set(uploader, s, "idle")
    /\ UNCHANGED <<sem, ports, starts, closeVars, supVars, stopVars, alive, exits, faults>>
    /\ UNCHANGED <<produced, written, sent, segs, incomplete>>

-----------------------------------------------------------------------------
(***************************************************************************)
(* ffmpeg and the supervisor's run loop.                                   *)
(***************************************************************************)

(* External: an ffmpeg process lists a finished segment ...                *)
WriteSegment(s) ==
    /\ alive[s] # {} /\ written[s] < MaxSegments
    /\ written' = Set(written, s, written[s] + 1)
    /\ UNCHANGED <<startVars, closeVars, supVars, stopVars, alive, produced, uploader, sent, segs, incomplete, exits, faults>>

(* ... and exits by itself, or because watchForHang shut it down.          *)
FFmpegExits(s) ==
    /\ alive[s] # {} /\ exits[s] < MaxExits
    /\ exits' = Set(exits, s, exits[s] + 1)
    /\ alive' = Set(alive, s, {})
    /\ UNCHANGED <<startVars, closeVars, supVars, stopVars, segVars, faults>>

(* Recorder.Stop returns once the process of attempt a is dead.            *)
StopRecorder(s, a) ==
    /\ stopped' = Set(stopped, s, stopped[s] \cup {a})
    /\ alive' = Set(alive, s, alive[s] \ {a})

(* The loop publishes its recorder in cur, then looks at stopCh.           *)
RunTop(s) ==
    /\ sup[s] = "top"
    /\ sup' = Set(sup, s, "check")
    /\ cur' = Set(cur, s, attempt[s])
    /\ produced' = Set(produced, s, FALSE)
    /\ UNCHANGED <<startVars, closeVars, attempt, streak, restarts, gaveUp, stopVars, alive>>
    /\ UNCHANGED <<uploader, written, sent, segs, incomplete, exits, faults>>

RunCheck(s) ==
    /\ sup[s] = "check"
    /\ sup' = Set(sup, s, "forward")
    /\ IF stopCh[s] THEN StopRecorder(s, attempt[s]) ELSE UNCHANGED <<stopped, alive>>
    /\ UNCHANGED <<startVars, closeVars, attempt, cur, streak, restarts, gaveUp, stopCh, victim, segVars, exits, faults>>

(* forwardSegments sends a listed segment as soon as somebody receives.    *)
Forward(s) ==
    /\ sup[s] = "forward" /\ sent[s] < written[s] /\ uploader[s] = "idle"
    /\ sent' = Set(sent, s, sent[s] + 1)
    /\ produced' = Set(produced, s, TRUE)
    /\ uploader' = Set(uploader, s, "busy")
    /\ UNCHANGED <<startVars, closeVars, supVars, stopVars, alive, written, segs, incomplete, exits, faults>>

(* maxTotalRestarts: restarts of a recording, productive or not.           *)
MaxRestarts == MaxAttempts * Multiplier

(* Once the process is dead and its list is drained: stop, give up, or     *)
(* wait and restart.                                                       *)
RunDecide(s) ==
    LET n == IF produced[s] THEN 0 ELSE streak[s] + 1
        exhausted == n >= MaxAttempts \/ restarts[s] + 1 >= MaxRestarts IN
    /\ sup[s] = "forward" /\ attempt[s] \notin alive[s] /\ sent[s] = written[s]
    /\ \/ /\ attempt[s] \in stopped[s] \/ stopCh[s]
          /\ sup' = Set(sup, s, "exited") /\ UNCHANGED <<streak, restarts, gaveUp>>
       \/ /\ attempt[s] \notin stopped[s] /\ ~stopCh[s]
          /\ streak' = Set(streak, s, n)
          /\ restarts' = Set(restarts, s, restarts[s] + 1)
          /\ gaveUp' = Set(gaveUp, s, exhausted)
          /\ sup' = Set(sup, s, IF exhausted THEN "exited" ELSE "backoff")
    /\ UNCHANGED <<startVars, closeVars, attempt, cur, stopVars, alive, segVars, exits, faults>>

(* The backoff ends with the timer or with stopCh.                         *)
RunBackoff(s) ==
    /\ sup[s] = "backoff"
    /\ \/ sup' = Set(sup, s, "spawn")
       \/ stopCh[s] /\ sup' = Set(sup, s, "exited")
    /\ UNCHANGED <<startVars, closeVars, attempt, cur, streak, restarts, gaveUp, stopVars, alive, segVars, exits, faults>>

(* The next attempt starts without another look at stopCh.                 *)
RunSpawn(s) ==
    /\ sup[s] = "spawn"
    /\ \/ /\ sup' = Set(sup, s, "top") /\ Ok
          /\ attempt' = Set(attempt, s, attempt[s] + 1)
          /\ alive' = Set(alive, s, {attempt[s] + 1})
          /\ UNCHANGED gaveUp
       \/ /\ Fault /\ sup' = Set(sup, s, "exited")
          /\ gaveUp' = Set(gaveUp, s, TRUE)
          /\ UNCHANGED <<attempt, alive>>
    /\ UNCHANGED <<startVars, closeVars, cur, streak, restarts, stopVars, segVars, exits>>

(* The uploader stores a segment or, after its last retry, marks the       *)
(* recording incomplete; a rollback throws the segment away.               *)
Upload(s) ==
    /\ uploader[s] = "busy"
    /\ uploader' = Set(uploader, s, "idle")
    /\ \/ segs' = Set(segs, s, segs[s] + 1) /\ Ok /\ UNCHANGED incomplete
       \/ Fault /\ incomplete' = Set(incomplete, s, TRUE) /\ UNCHANGED segs
    /\ UNCHANGED <<startVars, closeVars, supVars, stopVars, alive, produced, written, sent, exits>>

(* run closed segCh: the consumer's range loop ends.                       *)
UploaderEnds(s) ==
    /\ uploader[s] = "idle" /\ sup[s] = "exited"
    /\ uploader' = Set(uploader, s, "done")
    /\ UNCHANGED <<startVars, closeVars, supVars, stopVars, alive, produced, written, sent, segs, incomplete, exits, faults>>

-----------------------------------------------------------------------------
(***************************************************************************)
(* Peer.close, and the rollback of a start that lost the race with it.     *)
(***************************************************************************)
CloseBegin(s) ==
    /\ closing[s] = "open"
    /\ closing' = Set(closing, s, "begin")
    /\ UNCHANGED <<startVars, janitor, copied, cleaned, supVars, stopVars, alive, segVars, exits, faults>>

(* Under st.mu: what was committed is torn down, nothing else is.          *)
CloseRead(s) ==
    /\ closing[s] = "begin"
    /\ closing' = Set(closing, s, IF start[s] = "committed" THEN "stop" ELSE "closed")
    /\ UNCHANGED <<startVars, janitor, copied, cleaned, supVars, stopVars, alive, segVars, exits, faults>>

(* StopProcess closes stopCh, then reads cur ...                           *)
Stopping(s) == closing[s] = "stop" \/ start[s] = "rollback"
StopProcess(s) ==
    /\ Stopping(s) /\ ~stopCh[s]
    /\ stopCh' = Set(stopCh, s, TRUE)
    /\ victim' = Set(victim, s, cur[s])
    /\ UNCHANGED <<startVars, closeVars, supVars, stopped, alive, segVars, exits, faults>>

(* ... and stops the process it found there; close then frees the slot.    *)
CloseStopped(s) ==
    /\ closing[s] = "stop" /\ stopCh[s]
    /\ StopRecorder(s, victim[s])
    /\ closing' = Set(closing, s, "drain")
    /\ sem' = sem - 1
    /\ UNCHANGED <<ports, start, starts, janitor, copied, cleaned, supVars, stopCh, victim, segVars, exits, faults>>

(* Mutant: a drain that timed out does not make the recording incomplete.  *)
CloseDrainSilent(s) ==
    /\ closing[s] = "drain"
    /\ (uploader[s] = "done" /\ Ok) \/ (uploader[s] # "done" /\ Fault)
    /\ copied' = Set(copied, s, segs[s])
    /\ closing' = Set(closing, s, "session")
    /\ janitor' = Set(janitor, s, "waiting")
    /\ UNCHANGED <<startVars, cleaned, supVars, stopVars, alive, segVars, exits>>

(* Wait for the uploader, at most ffmpegUploadDrainTimeout, and take over  *)
(* its segments.                                                           *)
CloseDrain(s) ==
    /\ closing[s] = "drain"
    /\ \/ uploader[s] = "done" /\ Ok /\ UNCHANGED incomplete
       \/ uploader[s] # "done" /\ Fault /\ incomplete' = Set(incomplete, s, TRUE)
    /\ copied' = Set(copied, s, segs[s])
    /\ closing' = Set(closing, s, "session")
    /\ janitor' = Set(janitor, s, "waiting")
    /\ UNCHANGED <<startVars, cleaned, supVars, stopVars, alive, produced, uploader, written, sent, segs, exits>>

(* session.Close gives the ports back.                                     *)
CloseSession(s) ==
    /\ closing[s] = "session"
    /\ closing' = Set(closing, s, "closed")
    /\ ports' = ports + 1
    /\ UNCHANGED <<sem, start, starts, janitor, copied, cleaned, supVars, stopVars, alive, segVars, exits, faults>>

(* Mutant: the temp dir is removed whatever was uploaded.                  *)
JanitorCleansAll(s) ==
    /\ janitor[s] = "waiting" /\ sup[s] = "exited" /\ uploader[s] = "done"
    /\ janitor' = Set(janitor, s, "done")
    /\ cleaned' = Set(cleaned, s, TRUE)
    /\ UNCHANGED <<startVars, closing, copied, supVars, stopVars, alive, segVars, exits, faults>>

(* In the background: wait for the supervisor and the uploader, and remove *)
(* the files unless the recording is incomplete.                           *)
Janitor(s) ==
    /\ janitor[s] = "waiting" /\ sup[s] = "exited" /\ uploader[s] = "done"
    /\ janitor' = Set(janitor, s, "done")
    /\ cleaned' = Set(cleaned, s, ~incomplete[s])
    /\ UNCHANGED <<startVars, closing, copied, supVars, stopVars, alive, segVars, exits, faults>>

RollbackStopped(s) ==
    /\ start[s] = "rollback" /\ stopCh[s]
    /\ StopRecorder(s, victim[s])
    /\ start' = Set(start, s, "draining")
    /\ UNCHANGED <<sem, ports, starts, closeVars, supVars, stopCh, victim, segVars, exits, faults>>

(* Only when the supervisor has ended and its channel is drained are the   *)
(* files, the ports and the slot given up.                                 *)
RollbackEnd(s) ==
    /\ start[s] = "draining" /\ sup[s] = "exited" /\ uploader[s] = "done"
    /\ start' = Set(start, s, "over")
    /\ ports' = ports + 1 /\ sem' = sem - 1
    /\ UNCHANGED <<starts, closeVars, supVars, stopVars, alive, segVars, exits, faults>>

-----------------------------------------------------------------------------
(***************************************************************************)
(* The streams of other peers take a port group and then a slot, and give  *)
(* the slot back first; noteFFmpegIngestTrack and close once more.         *)
(***************************************************************************)
OtherStreams ==
    /\ \/ /\ ports > 0
          /\ ports' = ports - 1 /\ otherPorts' = otherPorts + 1 /\ UNCHANGED <<sem, otherSlots>>
       \/ /\ sem < MaxRecorders /\ otherSlots < otherPorts
          /\ sem' = sem + 1 /\ otherSlots' = otherSlots + 1 /\ UNCHANGED <<ports, otherPorts>>
       \/ /\ otherSlots > 0
          /\ sem' = sem - 1 /\ otherSlots' = otherSlots - 1 /\ UNCHANGED <<ports, otherPorts>>
       \/ /\ otherPorts > otherSlots
          /\ ports' = ports + 1 /\ otherPorts' = otherPorts - 1 /\ UNCHANGED <<sem, otherSlots>>
    /\ UNCHANGED <<start, starts, closeVars, supVars, stopVars, alive, segVars, exits, faults>>

-----------------------------------------------------------------------------
Init ==
    /\ otherSlots = 0 /\ otherPorts = 0
    /\ sem = 0 /\ ports = PortGroups /\ faults = 0
    /\ start = [s \in Streams |-> "idle"]
    /\ starts = [s \in Streams |-> 0]
    /\ closing = [s \in Streams |-> "open"]
    /\ janitor = [s \in Streams |-> "none"]
    /\ sup = [s \in Streams |-> "none"]
    /\ attempt = [s \in Streams |-> 0]
    /\ cur = [s \in Streams |-> 0]
    /\ stopCh = [s \in Streams |-> FALSE]
    /\ victim = [s \in Streams |-> 0]
    /\ alive = [s \in Streams |-> {}]
    /\ stopped = [s \in Streams |-> {}]
    /\ streak = [s \in Streams |-> 0]
    /\ restarts = [s \in Streams |-> 0]
    /\ produced = [s \in Streams |-> FALSE]
    /\ gaveUp = [s \in Streams |-> FALSE]
    /\ uploader = [s \in Streams |-> "none"]
    /\ written = [s \in Streams |-> 0]
    /\ sent = [s \in Streams |-> 0]
    /\ segs = [s \in Streams |-> 0]
    /\ copied = [s \in Streams |-> -1]
    /\ incomplete = [s \in Streams |-> FALSE]
    /\ cleaned = [s \in Streams |-> FALSE]
    /\ exits = [s \in Streams |-> 0]

StartStep(s) ==
    StartSession(s) \/ TakeSlot(s) \/ StartRecorderSupervisor(s) \/ Commit(s)
        \/ RollbackStopped(s) \/ RollbackEnd(s)

RunStep(s) ==
    RunTop(s) \/ RunCheck(s) \/ Forward(s) \/ RunDecide(s) \/ RunBackoff(s) \/ RunSpawn(s)

UploaderStep(s) == Upload(s) \/ UploaderEnds(s)

CloseStep(s) ==
    CloseRead(s) \/ StopProcess(s) \/ CloseStopped(s) \/ CloseDrain(s) \/ CloseSession(s)

StreamStep(s) ==
    \/ ClaimStart(s) \/ CloseBegin(s) \/ WriteSegment(s) \/ FFmpegExits(s)
    \/ StartStep(s) \/ RunStep(s) \/ UploaderStep(s) \/ CloseStep(s) \/ Janitor(s)

Next == OtherStreams \/ \E s \in Streams : StreamStep(s) /\ UNCHANGED otherVars

Spec == Init /\ [][Next]_vars

(* Goroutines run; peers, ffmpeg and the faults owe nothing.               *)
LiveSpec ==
    /\ Spec
    /\ \A s \in Streams :
          /\ WF_vars(StartStep(s) /\ UNCHANGED otherVars) /\ WF_vars(RunStep(s) /\ UNCHANGED otherVars)
          /\ WF_vars(UploaderStep(s) /\ UNCHANGED otherVars)
          /\ WF_vars(CloseStep(s) /\ UNCHANGED otherVars) /\ WF_vars(Janitor(s) /\ UNCHANGED otherVars)

-----------------------------------------------------------------------------
(* Every variable has its type; neither restart counter passes its limit.  *)
TypeOK ==
    /\ sem \in 0 .. MaxRecorders /\ ports \in 0 .. PortGroups /\ faults \in 0 .. MaxFaults
    /\ otherPorts \in 0 .. PortGroups /\ otherSlots \in 0 .. otherPorts
    /\ start \in [Streams -> {"idle", "claimed", "session", "slot", "running", "committed", "rollback",
                              "draining", "over"}]
    /\ starts \in [Streams -> 0 .. MaxStarts]
    /\ closing \in [Streams -> {"open", "begin", "stop", "drain", "session", "closed"}]
    /\ janitor \in [Streams -> {"none", "waiting", "done"}]
    /\ sup \in [Streams -> {"none", "top", "check", "forward", "backoff", "spawn", "exited"}]
    /\ attempt \in [Streams -> 0 .. MaxRestarts]
    /\ cur \in [Streams -> Nat] /\ victim \in [Streams -> Nat]
    /\ stopCh \in [Streams -> BOOLEAN]
    /\ alive \in [Streams -> SUBSET Nat] /\ stopped \in [Streams -> SUBSET Nat]
    /\ streak \in [Streams -> 0 .. MaxAttempts]
    /\ restarts \in [Streams -> 0 .. MaxRestarts]
    /\ produced \in [Streams -> BOOLEAN] /\ gaveUp \in [Streams -> BOOLEAN]
    /\ uploader \in [Streams -> {"none", "idle", "busy", "done"}]
    /\ written \in [Streams -> 0 .. MaxSegments] /\ sent \in [Streams -> 0 .. MaxSegments]
    /\ segs \in [Streams -> 0 .. MaxSegments] /\ copied \in [Streams -> -1 .. MaxSegments]
    /\ incomplete \in [Streams -> BOOLEAN] /\ cleaned \in [Streams -> BOOLEAN]
    /\ exits \in [Streams -> 0 .. MaxExits]

(* Who owns a port group and a slot, by where its goroutines are.          *)
HoldsSlot(s) ==
    \/ start[s] \in {"slot", "running", "rollback", "draining"}
    \/ start[s] = "committed" /\ closing[s] \in {"open", "begin", "stop"}
HoldsPorts(s) ==
    \/ start[s] \in {"session", "slot", "running", "rollback", "draining"}
    \/ start[s] = "committed" /\ closing[s] # "closed"

(* Slots and ports are exactly those of the streams that own them: no      *)
(* interleaving of a start with a close leaks one or gives it back twice.  *)
ResourcesExact ==
    /\ sem = otherSlots + Cardinality({s \in Streams : HoldsSlot(s)})
    /\ ports = PortGroups - otherPorts - Cardinality({s \in Streams : HoldsPorts(s)})

(* A recording that is not incomplete has every segment ffmpeg ever        *)
(* listed, over all its attempts, when close takes the segments over.      *)
CopyIsWhole ==
    \A s \in Streams : (copied[s] >= 0 /\ ~incomplete[s]) => copied[s] = written[s]

(* The temp dir, with the only copy of a segment that failed to upload, is *)
(* removed only when every segment is in the object store.                 *)
CleanupIsSafe == \A s \in Streams : cleaned[s] => segs[s] = written[s]

(* A closed peer's teardown ends, and so does its supervisor, with no      *)
(* process left: nobody waits for ever on the unbuffered channel.          *)
CloseEnds ==
    \A s \in Streams :
        DoneClosed(s) ~> (closing[s] = "closed" /\ sup[s] \in {"none", "exited"} /\ alive[s] = {} /\ ~HoldsSlot(s))

-----------------------------------------------------------------------------
(***************************************************************************)
(* What comments in the code say of it and the model refutes.              *)
(***************************************************************************)

(* StopProcess "returns once the OS process is confirmed dead": a stream   *)
(* whose slot was freed has no ffmpeg process.                             *)
SlotCoversProcess ==
    \A s \in Streams : closing[s] \in {"drain", "session", "closed"} /\ start[s] = "committed" => alive[s] = {}
=============================================================================
