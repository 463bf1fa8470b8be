------------------------ MODULE RecorderIngestProofs ------------------------
(***************************************************************************)
(* Theorems about RecorderIngest, for any streams (finitely many or not),  *)
(* slots, port groups, restart limits and faults.                          *)
(***************************************************************************)
EXTENDS RecorderIngest, FiniteSetTheorems, TLAPS

USE ConstantsAssumption


SlotHolders == {s \in Streams : HoldsSlot(s)}
PortHolders == {s \in Streams : HoldsPorts(s)}
HoldersFinite == IsFiniteSet(SlotHolders) /\ IsFiniteSet(PortHolders)

Early == {"idle", "claimed", "session", "slot"}
Trying == {"top", "check", "forward"}
Between == {"backoff", "spawn"}

(* Before the supervisor runs there is nothing of it, and only a committed *)
(* recording is torn down by close.                                        *)
Phased(s) ==
    /\ start[s] \in Early =>
          /\ sup[s] = "none" /\ attempt[s] = 0 /\ restarts[s] = 0 /\ streak[s] = 0
          /\ written[s] = 0
    /\ start[s] \in Early \cup {"running"} => uploader[s] = "none"
    /\ closing[s] \in {"stop", "drain", "session"} => start[s] = "committed"

(* Each attempt that did not exhaust a limit allows one more.              *)
Counted(s) ==
    /\ sup[s] \in Trying => attempt[s] = restarts[s] + 1
    /\ sup[s] \in Between => attempt[s] = restarts[s]
    /\ sup[s] \in Trying \cup Between => restarts[s] < MaxRestarts /\ streak[s] < MaxAttempts

(* Only the current attempt has a process; when run is past an attempt,    *)
(* its process is dead and everything it listed was forwarded.             *)
Quiet(s) ==
    /\ alive[s] \subseteq {attempt[s]}
    /\ sup[s] \in Between \cup {"none", "exited"} => alive[s] = {} /\ sent[s] = written[s]
    /\ uploader[s] = "done" => sup[s] = "exited"
    /\ sent[s] <= written[s]

(* What was forwarded was uploaded, is being uploaded or made the          *)
(* recording incomplete.                                                   *)
InHand(s) == IF uploader[s] = "busy" THEN 1 ELSE 0
Accounted(s) ==
    /\ segs[s] + InHand(s) <= sent[s]
    /\ ~incomplete[s] => segs[s] + InHand(s) = sent[s]

(* CopyIsWhole and CleanupIsSafe, and why they stay true: the uploader has *)
(* ended.                                                                  *)
Settled(s) ==
    /\ copied[s] >= 0 /\ ~incomplete[s] => uploader[s] = "done" /\ copied[s] = written[s]
    /\ cleaned[s] => uploader[s] = "done" /\ segs[s] = written[s]

StreamOK(s) == Phased(s) /\ Counted(s) /\ Quiet(s) /\ Accounted(s) /\ Settled(s)

IInv ==
    /\ TypeOK /\ HoldersFinite /\ ResourcesExact
    /\ \A s \in Streams : StreamOK(s)

-----------------------------------------------------------------------------
(***************************************************************************)
(* Each stream by itself.                                                  *)
(***************************************************************************)

(* The part of TypeOK about the streams' own variables.                    *)
StreamTypes ==
    /\ start \in [Streams -> {"idle", "claimed", "session", "slot", "running", "committed", "rollback",
                              "draining", "over"}]
    /\ starts \in [Streams -> 0 .. MaxStarts]
    /\ closing \in [Streams -> {"open", "begin", "stop", "drain", "session", "closed"}]
    /\ janitor \in [Streams -> {"none", "waiting", "done"}]
    /\ sup \in [Streams -> {"none", "top", "check", "forward", "backoff", "spawn", "exited"}]
    /\ attempt \in [Streams -> 0 .. MaxRestarts]
    /\ cur \in [Streams -> Nat] /\ victim \in [Streams -> Nat]
    /\ stopCh \in [Streams -> BOOLEAN]
    /\ alive \in [Streams -> SUBSET Nat] /\ stopped \in [Streams -> SUBSET Nat]
    /\ streak \in [Streams -> 0 .. MaxAttempts]
    /\ restarts \in [Streams -> 0 .. MaxRestarts]
    /\ produced \in [Streams -> BOOLEAN] /\ gaveUp \in [Streams -> BOOLEAN]
    /\ uploader \in [Streams -> {"none", "idle", "busy", "done"}]
    /\ written \in [Streams -> 0 .. MaxSegments] /\ sent \in [Streams -> 0 .. MaxSegments]
    /\ segs \in [Streams -> 0 .. MaxSegments] /\ copied \in [Streams -> -1 .. MaxSegments]
    /\ incomplete \in [Streams -> BOOLEAN] /\ cleaned \in [Streams -> BOOLEAN]
    /\ exits \in [Streams -> 0 .. MaxExits]

LEMMA TypeParts ==
  TypeOK <=> /\ sem \in 0 .. MaxRecorders /\ ports \in 0 .. PortGroups /\ faults \in 0 .. MaxFaults
             /\ otherPorts \in 0 .. PortGroups /\ otherSlots \in 0 .. otherPorts
             /\ StreamTypes
  BY DEF TypeOK, StreamTypes

LEMMA RestartLimit == MaxRestarts \in Nat \ {0}
  BY DEF MaxRestarts

(* Every step of a stream keeps its variables in their types.              *)
LEMMA TypesStep ==
  ASSUME StreamTypes, \A x \in Streams : StreamOK(x), NEW s \in Streams, StreamStep(s)
  PROVE StreamTypes'
  <1> USE DEF Set, StreamTypes, StreamOK, Phased, Counted, Quiet, Accounted, InHand, Early, Trying, Between,
              otherVars, startVars, closeVars, supVars, stopVars, segVars
  <1>1. CASE ClaimStart(s)
    BY <1>1, RestartLimit DEF ClaimStart
  <1>2. CASE StartSession(s)
    BY <1>2, RestartLimit DEF StartSession, DoneClosed, Ok, Fault
  <1>3. CASE TakeSlot(s)
    BY <1>3, RestartLimit DEF TakeSlot
  <1>4. CASE StartRecorderSupervisor(s)
    <2>1. CASE Fault /\ UNCHANGED <<sup, alive, attempt, cur>>
      BY <1>4, <2>1 DEF StartRecorderSupervisor
    <2>2. CASE /\ sup' = Set(sup, s, "top") /\ alive' = Set(alive, s, {1})
               /\ attempt' = Set(attempt, s, 1) /\ cur' = Set(cur, s, 1)
      <3>1. 1 \in 0 .. MaxRestarts /\ {1} \in SUBSET Nat
        BY RestartLimit
      <3>2. /\ sup' \in [Streams -> {"none", "top", "check", "forward", "backoff", "spawn", "exited"}]
            /\ alive' \in [Streams -> SUBSET Nat] /\ attempt' \in [Streams -> 0 .. MaxRestarts]
            /\ cur' \in [Streams -> Nat]
        BY <2>2, <3>1
      <3>3. start' = Set(start, s, "running") \/ start' = Set(start, s, "idle")
        BY <1>4 DEF StartRecorderSupervisor
      <3>4. QED
        BY <1>4, <3>2, <3>3 DEF StartRecorderSupervisor
    <2>3. QED
      BY <1>4, <2>1, <2>2 DEF StartRecorderSupervisor
  <1>5. CASE Commit(s)
    BY <1>5, RestartLimit DEF Commit, DoneClosed
  <1>6. CASE WriteSegment(s)
    BY <1>6, RestartLimit DEF WriteSegment
  <1>7. CASE FFmpegExits(s)
    BY <1>7, RestartLimit DEF FFmpegExits
  <1>8. CASE RunTop(s)
    BY <1>8, RestartLimit DEF RunTop
  <1>9. CASE RunCheck(s)
    <2>1. /\ alive' \in [Streams -> SUBSET Nat] /\ stopped' \in [Streams -> SUBSET Nat]
      <3>1. CASE stopCh[s]
        <4>1. /\ stopped' = [stopped EXCEPT ![s] = stopped[s] \cup {attempt[s]}]
              /\ alive' = [alive EXCEPT ![s] = alive[s] \ {attempt[s]}]
          BY <1>9, <3>1 DEF RunCheck, StopRecorder
        <4>2. attempt[s] \in Nat
          BY RestartLimit
        <4>3. stopped[s] \cup {attempt[s]} \in SUBSET Nat /\ alive[s] \ {attempt[s]} \in SUBSET Nat
          BY <4>2
        <4>4. QED
          BY <4>1, <4>3
      <3>2. CASE ~stopCh[s]
        BY <1>9, <3>2 DEF RunCheck
      <3>3. QED
        BY <3>1, <3>2
    <2>2. QED
      BY <1>9, <2>1 DEF RunCheck
  <1>10. CASE Forward(s)
    BY <1>10, RestartLimit DEF Forward
  <1>11. CASE RunDecide(s)
    <2>1. CASE UNCHANGED <<streak, restarts, gaveUp>>
      BY <1>11, <2>1 DEF RunDecide
    <2>2. CASE attempt[s] \notin stopped[s] /\ ~stopCh[s]
      <3> DEFINE n == IF produced[s] THEN 0 ELSE streak[s] + 1
                 exhausted == n >= MaxAttempts \/ restarts[s] + 1 >= MaxRestarts
      <3>1. sup[s] = "forward" /\ streak[s] \in Nat /\ restarts[s] \in Nat
        BY <1>11 DEF RunDecide
      <3>2. streak[s] < MaxAttempts /\ restarts[s] < MaxRestarts
        BY <3>1
      <3>3. n \in 0 .. MaxAttempts /\ restarts[s] + 1 \in 0 .. MaxRestarts /\ exhausted \in BOOLEAN
        BY <3>1, <3>2, RestartLimit
      <3>4. /\ streak' = [streak EXCEPT ![s] = n] /\ restarts' = [restarts EXCEPT ![s] = restarts[s] + 1]
            /\ gaveUp' = [gaveUp EXCEPT ![s] = exhausted]
            /\ sup' = [sup EXCEPT ![s] = IF exhausted THEN "exited" ELSE "backoff"]
        BY <1>11, <2>2 DEF RunDecide
      <3> HIDE DEF n, exhausted
      <3>5. /\ streak' \in [Streams -> 0 .. MaxAttempts] /\ restarts' \in [Streams -> 0 .. MaxRestarts]
            /\ gaveUp' \in [Streams -> BOOLEAN]
            /\ sup' \in [Streams -> {"none", "top", "check", "forward", "backoff", "spawn", "exited"}]
        BY <3>3, <3>4
      <3>6. QED
        BY <1>11, <3>5 DEF RunDecide
    <2>3. QED
      BY <1>11, <2>1, <2>2 DEF RunDecide
  <1>12. CASE RunBackoff(s)
    BY <1>12, RestartLimit DEF RunBackoff
  <1>13. CASE RunSpawn(s)
    <2>1. CASE UNCHANGED <<attempt, alive>>
      BY <1>13, <2>1 DEF RunSpawn
    <2>2. CASE attempt' = Set(attempt, s, attempt[s] + 1) /\ alive' = Set(alive, s, {attempt[s] + 1})
      <3>1. sup[s] = "spawn" /\ attempt[s] \in Nat
        BY <1>13 DEF RunSpawn
      <3>2. attempt[s] + 1 \in 0 .. MaxRestarts
        BY <3>1, RestartLimit
      <3>3. attempt' \in [Streams -> 0 .. MaxRestarts] /\ alive' \in [Streams -> SUBSET Nat]
        BY <2>2, <3>1, <3>2
      <3>4. gaveUp' \in [Streams -> BOOLEAN]
        BY <1>13 DEF RunSpawn
      <3>5. sup' \in [Streams -> {"none", "top", "check", "forward", "backoff", "spawn", "exited"}]
        BY <1>13 DEF RunSpawn
      <3>6. QED
        BY <1>13, <3>3, <3>4, <3>5 DEF RunSpawn
    <2>3. QED
      BY <1>13, <2>1, <2>2 DEF RunSpawn
  <1>14. CASE Upload(s)
    <2>1. segs[s] \in Nat /\ sent[s] \in 0 .. MaxSegments /\ segs[s] + 1 <= sent[s]
      BY <1>14 DEF Upload
    <2>2. segs' \in [Streams -> 0 .. MaxSegments]
      <3>1. segs[s] + 1 \in 0 .. MaxSegments
        BY <2>1
      <3>2. QED
        BY <1>14, <3>1 DEF Upload
    <2>3. incomplete' \in [Streams -> BOOLEAN]
      BY <1>14 DEF Upload
    <2>4. QED
      BY <1>14, <2>2, <2>3 DEF Upload
  <1>15. CASE UploaderEnds(s)
    BY <1>15, RestartLimit DEF UploaderEnds
  <1>16. CASE CloseBegin(s)
    BY <1>16, RestartLimit DEF CloseBegin
  <1>17. CASE CloseRead(s)
    BY <1>17, RestartLimit DEF CloseRead
  <1>18. CASE StopProcess(s)
    BY <1>18, RestartLimit DEF StopProcess, Stopping
  <1>19. CASE CloseStopped(s)
    BY <1>19, RestartLimit DEF CloseStopped, StopRecorder
  <1>20. CASE CloseDrain(s)
    <2>1. copied' \in [Streams -> -1 .. MaxSegments]
      <3>1. segs[s] \in -1 .. MaxSegments
        <4>1. segs[s] \in 0 .. MaxSegments
          OBVIOUS
        <4>2. QED
          BY <4>1
      <3>2. QED
        BY <1>20, <3>1 DEF CloseDrain
    <2>2. incomplete' \in [Streams -> BOOLEAN]
      BY <1>20 DEF CloseDrain
    <2>3. QED
      BY <1>20, <2>1, <2>2 DEF CloseDrain
  <1>21. CASE CloseSession(s)
    BY <1>21, RestartLimit DEF CloseSession
  <1>22. CASE Janitor(s)
    BY <1>22, RestartLimit DEF Janitor
  <1>23. CASE RollbackStopped(s)
    BY <1>23, RestartLimit DEF RollbackStopped, StopRecorder
  <1>24. CASE RollbackEnd(s)
    BY <1>24, RestartLimit DEF RollbackEnd
  <1>25. QED
    BY <1>1, <1>2, <1>3, <1>4, <1>5, <1>6, <1>7, <1>8, <1>9, <1>10, <1>11, <1>12, <1>13, <1>14,
       <1>15, <1>16, <1>17, <1>18, <1>19, <1>20, <1>21, <1>22, <1>23, <1>24
       DEF StreamStep, StartStep, RunStep, UploaderStep, CloseStep

(* ... and leaves the others alone.                                        *)
LEMMA OthersStep ==
  ASSUME StreamTypes, NEW s \in Streams, StreamStep(s)
  PROVE \A x \in Streams \ {s} :
           /\ start'[x] = start[x] /\ closing'[x] = closing[x] /\ sup'[x] = sup[x]
           /\ attempt'[x] = attempt[x] /\ restarts'[x] = restarts[x] /\ streak'[x] = streak[x]
           /\ alive'[x] = alive[x] /\ uploader'[x] = uploader[x] /\ written'[x] = written[x]
           /\ sent'[x] = sent[x] /\ segs'[x] = segs[x] /\ copied'[x] = copied[x]
           /\ incomplete'[x] = incomplete[x] /\ cleaned'[x] = cleaned[x]
  <1> USE DEF Set, StreamTypes,
              otherVars, startVars, closeVars, supVars, stopVars, segVars
  <1>1. CASE ClaimStart(s)
    BY <1>1 DEF ClaimStart
  <1>2. CASE StartSession(s)
    BY <1>2 DEF StartSession, DoneClosed, Ok, Fault
  <1>3. CASE TakeSlot(s)
    BY <1>3 DEF TakeSlot
  <1>4. CASE StartRecorderSupervisor(s)
    BY <1>4 DEF StartRecorderSupervisor, Ok, Fault
  <1>5. CASE Commit(s)
    BY <1>5 DEF Commit, DoneClosed
  <1>6. CASE WriteSegment(s)
    BY <1>6 DEF WriteSegment
  <1>7. CASE FFmpegExits(s)
    BY <1>7 DEF FFmpegExits
  <1>8. CASE RunTop(s)
    BY <1>8 DEF RunTop
  <1>9. CASE RunCheck(s)
    BY <1>9 DEF RunCheck, StopRecorder
  <1>10. CASE Forward(s)
    BY <1>10 DEF Forward
  <1>11. CASE RunDecide(s)
    BY <1>11 DEF RunDecide
  <1>12. CASE RunBackoff(s)
    BY <1>12 DEF RunBackoff
  <1>13. CASE RunSpawn(s)
    BY <1>13 DEF RunSpawn, Ok, Fault
  <1>14. CASE Upload(s)
    BY <1>14 DEF Upload, Ok, Fault
  <1>15. CASE UploaderEnds(s)
    BY <1>15 DEF UploaderEnds
  <1>16. CASE CloseBegin(s)
    BY <1>16 DEF CloseBegin
  <1>17. CASE CloseRead(s)
    BY <1>17 DEF CloseRead
  <1>18. CASE StopProcess(s)
    BY <1>18 DEF StopProcess, Stopping
  <1>19. CASE CloseStopped(s)
    BY <1>19 DEF CloseStopped, StopRecorder
  <1>20. CASE CloseDrain(s)
    BY <1>20 DEF CloseDrain, Ok, Fault
  <1>21. CASE CloseSession(s)
    BY <1>21 DEF CloseSession
  <1>22. CASE Janitor(s)
    BY <1>22 DEF Janitor
  <1>23. CASE RollbackStopped(s)
    BY <1>23 DEF RollbackStopped, StopRecorder
  <1>24. CASE RollbackEnd(s)
    BY <1>24 DEF RollbackEnd
  <1>25. QED
    BY <1>1, <1>2, <1>3, <1>4, <1>5, <1>6, <1>7, <1>8, <1>9, <1>10, <1>11, <1>12, <1>13, <1>14,
       <1>15, <1>16, <1>17, <1>18, <1>19, <1>20, <1>21, <1>22, <1>23, <1>24
       DEF StreamStep, StartStep, RunStep, UploaderStep, CloseStep

(* The start goroutine hands over to the supervisor once, and to close by  *)
(* Commit only.                                                            *)
LEMMA PhasedStep ==
  ASSUME StreamTypes, StreamTypes', \A x \in Streams : StreamOK(x), NEW s \in Streams, StreamStep(s)
  PROVE Phased(s)'
  <1> USE DEF Set, StreamTypes, StreamOK, Phased, Quiet, Early, Trying, Between,
              otherVars, startVars, closeVars, supVars, stopVars, segVars
  <1>1. CASE ClaimStart(s)
    BY <1>1, RestartLimit DEF ClaimStart
  <1>2. CASE StartSession(s)
    BY <1>2, RestartLimit DEF StartSession, DoneClosed, Ok, Fault
  <1>3. CASE TakeSlot(s)
    BY <1>3, RestartLimit DEF TakeSlot
  <1>4. CASE StartRecorderSupervisor(s)
    BY <1>4, RestartLimit DEF StartRecorderSupervisor, Ok, Fault
  <1>5. CASE Commit(s)
    BY <1>5, RestartLimit DEF Commit, DoneClosed
  <1>6. CASE WriteSegment(s)
    BY <1>6, RestartLimit DEF WriteSegment
  <1>7. CASE FFmpegExits(s)
    BY <1>7, RestartLimit DEF FFmpegExits
  <1>8. CASE RunTop(s)
    BY <1>8, RestartLimit DEF RunTop
  <1>9. CASE RunCheck(s)
    BY <1>9, RestartLimit DEF RunCheck, StopRecorder
  <1>10. CASE Forward(s)
    BY <1>10, RestartLimit DEF Forward
  <1>11. CASE RunDecide(s)
    BY <1>11, RestartLimit DEF RunDecide
  <1>12. CASE RunBackoff(s)
    BY <1>12, RestartLimit DEF RunBackoff
  <1>13. CASE RunSpawn(s)
    BY <1>13, RestartLimit DEF RunSpawn, Ok, Fault
  <1>14. CASE Upload(s)
    BY <1>14, RestartLimit DEF Upload, Ok, Fault
  <1>15. CASE UploaderEnds(s)
    BY <1>15, RestartLimit DEF UploaderEnds
  <1>16. CASE CloseBegin(s)
    BY <1>16, RestartLimit DEF CloseBegin
  <1>17. CASE CloseRead(s)
    BY <1>17, RestartLimit DEF CloseRead
  <1>18. CASE StopProcess(s)
    BY <1>18, RestartLimit DEF StopProcess, Stopping
  <1>19. CASE CloseStopped(s)
    BY <1>19, RestartLimit DEF CloseStopped, StopRecorder
  <1>20. CASE CloseDrain(s)
    BY <1>20, RestartLimit DEF CloseDrain, Ok, Fault
  <1>21. CASE CloseSession(s)
    BY <1>21, RestartLimit DEF CloseSession
  <1>22. CASE Janitor(s)
    BY <1>22, RestartLimit DEF Janitor
  <1>23. CASE RollbackStopped(s)
    BY <1>23, RestartLimit DEF RollbackStopped, StopRecorder
  <1>24. CASE RollbackEnd(s)
    BY <1>24, RestartLimit DEF RollbackEnd
  <1>25. QED
    BY <1>1, <1>2, <1>3, <1>4, <1>5, <1>6, <1>7, <1>8, <1>9, <1>10, <1>11, <1>12, <1>13, <1>14,
       <1>15, <1>16, <1>17, <1>18, <1>19, <1>20, <1>21, <1>22, <1>23, <1>24
       DEF StreamStep, StartStep, RunStep, UploaderStep, CloseStep

(* The two limits of run.                                                  *)
LEMMA CountedStep ==
  ASSUME StreamTypes, StreamTypes', \A x \in Streams : StreamOK(x), NEW s \in Streams, StreamStep(s)
  PROVE Counted(s)'
  <1> USE DEF Set, StreamTypes, StreamOK, Counted, Phased, Early, Trying, Between,
              otherVars, startVars, closeVars, supVars, stopVars, segVars
  <1>1. CASE ClaimStart(s)
    BY <1>1, RestartLimit DEF ClaimStart
  <1>2. CASE StartSession(s)
    BY <1>2, RestartLimit DEF StartSession, DoneClosed, Ok, Fault
  <1>3. CASE TakeSlot(s)
    BY <1>3, RestartLimit DEF TakeSlot
  <1>4. CASE StartRecorderSupervisor(s)
    BY <1>4, RestartLimit DEF StartRecorderSupervisor, Ok, Fault
  <1>5. CASE Commit(s)
    BY <1>5, RestartLimit DEF Commit, DoneClosed
  <1>6. CASE WriteSegment(s)
    BY <1>6, RestartLimit DEF WriteSegment
  <1>7. CASE FFmpegExits(s)
    BY <1>7, RestartLimit DEF FFmpegExits
  <1>8. CASE RunTop(s)
    BY <1>8, RestartLimit DEF RunTop
  <1>9. CASE RunCheck(s)
    BY <1>9, RestartLimit DEF RunCheck, StopRecorder
  <1>10. CASE Forward(s)
    BY <1>10, RestartLimit DEF Forward
  <1>11. CASE RunDecide(s)
    BY <1>11, RestartLimit DEF RunDecide
  <1>12. CASE RunBackoff(s)
    BY <1>12, RestartLimit DEF RunBackoff
  <1>13. CASE RunSpawn(s)
    BY <1>13, RestartLimit DEF RunSpawn, Ok, Fault
  <1>14. CASE Upload(s)
    BY <1>14, RestartLimit DEF Upload, Ok, Fault
  <1>15. CASE UploaderEnds(s)
    BY <1>15, RestartLimit DEF UploaderEnds
  <1>16. CASE CloseBegin(s)
    BY <1>16, RestartLimit DEF CloseBegin
  <1>17. CASE CloseRead(s)
    BY <1>17, RestartLimit DEF CloseRead
  <1>18. CASE StopProcess(s)
    BY <1>18, RestartLimit DEF StopProcess, Stopping
  <1>19. CASE CloseStopped(s)
    BY <1>19, RestartLimit DEF CloseStopped, StopRecorder
  <1>20. CASE CloseDrain(s)
    BY <1>20, RestartLimit DEF CloseDrain, Ok, Fault
  <1>21. CASE CloseSession(s)
    BY <1>21, RestartLimit DEF CloseSession
  <1>22. CASE Janitor(s)
    BY <1>22, RestartLimit DEF Janitor
  <1>23. CASE RollbackStopped(s)
    BY <1>23, RestartLimit DEF RollbackStopped, StopRecorder
  <1>24. CASE RollbackEnd(s)
    BY <1>24, RestartLimit DEF RollbackEnd
  <1>25. QED
    BY <1>1, <1>2, <1>3, <1>4, <1>5, <1>6, <1>7, <1>8, <1>9, <1>10, <1>11, <1>12, <1>13, <1>14,
       <1>15, <1>16, <1>17, <1>18, <1>19, <1>20, <1>21, <1>22, <1>23, <1>24
       DEF StreamStep, StartStep, RunStep, UploaderStep, CloseStep

(* run leaves an attempt when its process is dead and its list drained.    *)
LEMMA QuietStep ==
  ASSUME StreamTypes, StreamTypes', \A x \in Streams : StreamOK(x), NEW s \in Streams, StreamStep(s)
  PROVE Quiet(s)'
  <1> USE DEF Set, StreamTypes, StreamOK, Quiet, Phased, Counted, Early, Trying, Between,
              otherVars, startVars, closeVars, supVars, stopVars, segVars
  <1>1. CASE ClaimStart(s)
    BY <1>1, RestartLimit DEF ClaimStart
  <1>2. CASE StartSession(s)
    BY <1>2, RestartLimit DEF StartSession, DoneClosed, Ok, Fault
  <1>3. CASE TakeSlot(s)
    BY <1>3, RestartLimit DEF TakeSlot
  <1>4. CASE StartRecorderSupervisor(s)
    BY <1>4, RestartLimit DEF StartRecorderSupervisor, Ok, Fault
  <1>5. CASE Commit(s)
    BY <1>5, RestartLimit DEF Commit, DoneClosed
  <1>6. CASE WriteSegment(s)
    BY <1>6, RestartLimit DEF WriteSegment
  <1>7. CASE FFmpegExits(s)
    BY <1>7, RestartLimit DEF FFmpegExits
  <1>8. CASE RunTop(s)
    BY <1>8, RestartLimit DEF RunTop
  <1>9. CASE RunCheck(s)
    BY <1>9, RestartLimit DEF RunCheck, StopRecorder
  <1>10. CASE Forward(s)
    BY <1>10, RestartLimit DEF Forward
  <1>11. CASE RunDecide(s)
    BY <1>11, RestartLimit DEF RunDecide
  <1>12. CASE RunBackoff(s)
    BY <1>12, RestartLimit DEF RunBackoff
  <1>13. CASE RunSpawn(s)
    BY <1>13, RestartLimit DEF RunSpawn, Ok, Fault
  <1>14. CASE Upload(s)
    BY <1>14, RestartLimit DEF Upload, Ok, Fault
  <1>15. CASE UploaderEnds(s)
    BY <1>15, RestartLimit DEF UploaderEnds
  <1>16. CASE CloseBegin(s)
    BY <1>16, RestartLimit DEF CloseBegin
  <1>17. CASE CloseRead(s)
    BY <1>17, RestartLimit DEF CloseRead
  <1>18. CASE StopProcess(s)
    BY <1>18, RestartLimit DEF StopProcess, Stopping
  <1>19. CASE CloseStopped(s)
    BY <1>19, RestartLimit DEF CloseStopped, StopRecorder
  <1>20. CASE CloseDrain(s)
    BY <1>20, RestartLimit DEF CloseDrain, Ok, Fault
  <1>21. CASE CloseSession(s)
    BY <1>21, RestartLimit DEF CloseSession
  <1>22. CASE Janitor(s)
    BY <1>22, RestartLimit DEF Janitor
  <1>23. CASE RollbackStopped(s)
    BY <1>23, RestartLimit DEF RollbackStopped, StopRecorder
  <1>24. CASE RollbackEnd(s)
    BY <1>24, RestartLimit DEF RollbackEnd
  <1>25. QED
    BY <1>1, <1>2, <1>3, <1>4, <1>5, <1>6, <1>7, <1>8, <1>9, <1>10, <1>11, <1>12, <1>13, <1>14,
       <1>15, <1>16, <1>17, <1>18, <1>19, <1>20, <1>21, <1>22, <1>23, <1>24
       DEF StreamStep, StartStep, RunStep, UploaderStep, CloseStep

(* The uploader passes on or gives up what it received.                    *)
LEMMA AccountedStep ==
  ASSUME StreamTypes, StreamTypes', \A x \in Streams : StreamOK(x), NEW s \in Streams, StreamStep(s)
  PROVE Accounted(s)'
  <1> USE DEF Set, StreamTypes, StreamOK, Accounted, Phased, Quiet, InHand, Early, Trying, Between,
              otherVars, startVars, closeVars, supVars, stopVars, segVars
  <1>1. CASE ClaimStart(s)
    BY <1>1, RestartLimit DEF ClaimStart
  <1>2. CASE StartSession(s)
    BY <1>2, RestartLimit DEF StartSession, DoneClosed, Ok, Fault
  <1>3. CASE TakeSlot(s)
    BY <1>3, RestartLimit DEF TakeSlot
  <1>4. CASE StartRecorderSupervisor(s)
    BY <1>4, RestartLimit DEF StartRecorderSupervisor, Ok, Fault
  <1>5. CASE Commit(s)
    BY <1>5, RestartLimit DEF Commit, DoneClosed
  <1>6. CASE WriteSegment(s)
    BY <1>6, RestartLimit DEF WriteSegment
  <1>7. CASE FFmpegExits(s)
    BY <1>7, RestartLimit DEF FFmpegExits
  <1>8. CASE RunTop(s)
    BY <1>8, RestartLimit DEF RunTop
  <1>9. CASE RunCheck(s)
    BY <1>9, RestartLimit DEF RunCheck, StopRecorder
  <1>10. CASE Forward(s)
    BY <1>10, RestartLimit DEF Forward
  <1>11. CASE RunDecide(s)
    BY <1>11, RestartLimit DEF RunDecide
  <1>12. CASE RunBackoff(s)
    BY <1>12, RestartLimit DEF RunBackoff
  <1>13. CASE RunSpawn(s)
    BY <1>13, RestartLimit DEF RunSpawn, Ok, Fault
  <1>14. CASE Upload(s)
    BY <1>14, RestartLimit DEF Upload, Ok, Fault
  <1>15. CASE UploaderEnds(s)
    BY <1>15, RestartLimit DEF UploaderEnds
  <1>16. CASE CloseBegin(s)
    BY <1>16, RestartLimit DEF CloseBegin
  <1>17. CASE CloseRead(s)
    BY <1>17, RestartLimit DEF CloseRead
  <1>18. CASE StopProcess(s)
    BY <1>18, RestartLimit DEF StopProcess, Stopping
  <1>19. CASE CloseStopped(s)
    BY <1>19, RestartLimit DEF CloseStopped, StopRecorder
  <1>20. CASE CloseDrain(s)
    BY <1>20, RestartLimit DEF CloseDrain, Ok, Fault
  <1>21. CASE CloseSession(s)
    BY <1>21, RestartLimit DEF CloseSession
  <1>22. CASE Janitor(s)
    BY <1>22, RestartLimit DEF Janitor
  <1>23. CASE RollbackStopped(s)
    BY <1>23, RestartLimit DEF RollbackStopped, StopRecorder
  <1>24. CASE RollbackEnd(s)
    BY <1>24, RestartLimit DEF RollbackEnd
  <1>25. QED
    BY <1>1, <1>2, <1>3, <1>4, <1>5, <1>6, <1>7, <1>8, <1>9, <1>10, <1>11, <1>12, <1>13, <1>14,
       <1>15, <1>16, <1>17, <1>18, <1>19, <1>20, <1>21, <1>22, <1>23, <1>24
       DEF StreamStep, StartStep, RunStep, UploaderStep, CloseStep

(* Once the uploader has ended nothing changes what was recorded.          *)
LEMMA SettledStep ==
  ASSUME StreamTypes, StreamTypes', \A x \in Streams : StreamOK(x), NEW s \in Streams, StreamStep(s)
  PROVE Settled(s)'
  <1> USE DEF Set, StreamTypes, StreamOK, Settled, Quiet, Phased, Accounted, InHand, Early, Trying, Between,
              otherVars, startVars, closeVars, supVars, stopVars, segVars
  <1>1. CASE ClaimStart(s)
    BY <1>1, RestartLimit DEF ClaimStart
  <1>2. CASE StartSession(s)
    BY <1>2, RestartLimit DEF StartSession, DoneClosed, Ok, Fault
  <1>3. CASE TakeSlot(s)
    BY <1>3, RestartLimit DEF TakeSlot
  <1>4. CASE StartRecorderSupervisor(s)
    BY <1>4, RestartLimit DEF StartRecorderSupervisor, Ok, Fault
  <1>5. CASE Commit(s)
    BY <1>5, RestartLimit DEF Commit, DoneClosed
  <1>6. CASE WriteSegment(s)
    BY <1>6, RestartLimit DEF WriteSegment
  <1>7. CASE FFmpegExits(s)
    BY <1>7, RestartLimit DEF FFmpegExits
  <1>8. CASE RunTop(s)
    BY <1>8, RestartLimit DEF RunTop
  <1>9. CASE RunCheck(s)
    BY <1>9, RestartLimit DEF RunCheck, StopRecorder
  <1>10. CASE Forward(s)
    BY <1>10, RestartLimit DEF Forward
  <1>11. CASE RunDecide(s)
    BY <1>11, RestartLimit DEF RunDecide
  <1>12. CASE RunBackoff(s)
    BY <1>12, RestartLimit DEF RunBackoff
  <1>13. CASE RunSpawn(s)
    BY <1>13, RestartLimit DEF RunSpawn, Ok, Fault
  <1>14. CASE Upload(s)
    BY <1>14, RestartLimit DEF Upload, Ok, Fault
  <1>15. CASE UploaderEnds(s)
    BY <1>15, RestartLimit DEF UploaderEnds
  <1>16. CASE CloseBegin(s)
    BY <1>16, RestartLimit DEF CloseBegin
  <1>17. CASE CloseRead(s)
    BY <1>17, RestartLimit DEF CloseRead
  <1>18. CASE StopProcess(s)
    BY <1>18, RestartLimit DEF StopProcess, Stopping
  <1>19. CASE CloseStopped(s)
    BY <1>19, RestartLimit DEF CloseStopped, StopRecorder
  <1>20. CASE CloseDrain(s)
    BY <1>20, RestartLimit DEF CloseDrain, Ok, Fault
  <1>21. CASE CloseSession(s)
    BY <1>21, RestartLimit DEF CloseSession
  <1>22. CASE Janitor(s)
    BY <1>22, RestartLimit DEF Janitor
  <1>23. CASE RollbackStopped(s)
    BY <1>23, RestartLimit DEF RollbackStopped, StopRecorder
  <1>24. CASE RollbackEnd(s)
    BY <1>24, RestartLimit DEF RollbackEnd
  <1>25. QED
    BY <1>1, <1>2, <1>3, <1>4, <1>5, <1>6, <1>7, <1>8, <1>9, <1>10, <1>11, <1>12, <1>13, <1>14,
       <1>15, <1>16, <1>17, <1>18, <1>19, <1>20, <1>21, <1>22, <1>23, <1>24
       DEF StreamStep, StartStep, RunStep, UploaderStep, CloseStep

-----------------------------------------------------------------------------
(***************************************************************************)
(* Slots and ports.                                                        *)
(***************************************************************************)
SlotKept == SlotHolders' = SlotHolders /\ UNCHANGED sem
SlotTaken(s) ==
    s \notin SlotHolders /\ SlotHolders' = SlotHolders \cup {s} /\ sem < MaxRecorders /\ sem' = sem + 1
SlotGiven(s) == s \in SlotHolders /\ SlotHolders' = SlotHolders \ {s} /\ sem' = sem - 1

PortsKept == PortHolders' = PortHolders /\ UNCHANGED ports
PortsTaken(s) ==
    s \notin PortHolders /\ PortHolders' = PortHolders \cup {s} /\ ports > 0 /\ ports' = ports - 1
PortsGiven(s) == s \in PortHolders /\ PortHolders' = PortHolders \ {s} /\ ports' = ports + 1

Moved(s) ==
    /\ SlotKept \/ SlotTaken(s) \/ SlotGiven(s)
    /\ PortsKept \/ PortsTaken(s) \/ PortsGiven(s)

(* A step that takes or gives back a slot or a port group is a step by     *)
(* which its stream starts or ceases to own it.                            *)
LEMMA HoldersStep ==
  ASSUME StreamTypes, \A x \in Streams : StreamOK(x), NEW s \in Streams, StreamStep(s)
  PROVE Moved(s)
  <1>o. \A x \in Streams \ {s} : start'[x] = start[x] /\ closing'[x] = closing[x]
    BY OthersStep
  <1>t. /\ start \in [Streams -> {"idle", "claimed", "session", "slot", "running", "committed", "rollback",
                                 "draining", "over"}]
        /\ closing \in [Streams -> {"open", "begin", "stop", "drain", "session", "closed"}]
        /\ closing[s] \in {"stop", "drain", "session"} => start[s] = "committed"
    BY DEF StreamTypes, StreamOK, Phased
  <1>r. (\/ WriteSegment(s) \/ FFmpegExits(s) \/ RunTop(s) \/ RunCheck(s) \/ Forward(s)
         \/ RunDecide(s) \/ RunBackoff(s) \/ RunSpawn(s) \/ Upload(s) \/ UploaderEnds(s)
         \/ StopProcess(s) \/ Janitor(s))
        => UNCHANGED <<sem, ports, start, closing>>
    BY DEF WriteSegment, FFmpegExits, RunTop, RunCheck, Forward, RunDecide, RunBackoff,
           RunSpawn, Upload, UploaderEnds, StopProcess, Janitor, startVars, closeVars
  <1> USE DEF Set, Moved, SlotKept, SlotTaken, SlotGiven, PortsKept, PortsTaken, PortsGiven, SlotHolders,
              PortHolders, HoldsSlot, HoldsPorts, startVars, closeVars
  <1>1. CASE ClaimStart(s)
    BY <1>1, <1>o, <1>t DEF ClaimStart
  <1>2. CASE StartSession(s)
    BY <1>2, <1>o, <1>t DEF StartSession, DoneClosed, Ok, Fault
  <1>3. CASE TakeSlot(s)
    BY <1>3, <1>o, <1>t DEF TakeSlot
  <1>4. CASE StartRecorderSupervisor(s)
    BY <1>4, <1>o, <1>t DEF StartRecorderSupervisor, Ok, Fault
  <1>5. CASE Commit(s)
    BY <1>5, <1>o, <1>t DEF Commit, DoneClosed
  <1>6. CASE CloseBegin(s)
    BY <1>6, <1>o, <1>t DEF CloseBegin
  <1>7. CASE CloseRead(s)
    BY <1>7, <1>o, <1>t DEF CloseRead
  <1>8. CASE CloseStopped(s)
    BY <1>8, <1>o, <1>t DEF CloseStopped, StopRecorder
  <1>9. CASE CloseDrain(s)
    BY <1>9, <1>o, <1>t DEF CloseDrain, Ok, Fault
  <1>10. CASE CloseSession(s)
    BY <1>10, <1>o, <1>t DEF CloseSession
  <1>11. CASE RollbackStopped(s)
    BY <1>11, <1>o, <1>t DEF RollbackStopped, StopRecorder
  <1>12. CASE RollbackEnd(s)
    BY <1>12, <1>o, <1>t DEF RollbackEnd
  <1>13. CASE UNCHANGED <<sem, ports, start, closing>>
    BY <1>13
  <1>14. QED
    BY <1>1, <1>2, <1>3, <1>4, <1>5, <1>6, <1>7, <1>8, <1>9, <1>10, <1>11, <1>12, <1>13, <1>r
       DEF StreamStep, StartStep, RunStep, UploaderStep, CloseStep

(* The counters stay exact and within their capacities.                    *)
LEMMA CountersStep ==
  ASSUME TypeOK, HoldersFinite, ResourcesExact, NEW s \in Streams, Moved(s), UNCHANGED otherVars
  PROVE /\ HoldersFinite' /\ ResourcesExact'
        /\ sem' \in 0 .. MaxRecorders /\ ports' \in 0 .. PortGroups
  <1> DEFINE S == SlotHolders
             P == PortHolders
  <1>1. /\ IsFiniteSet(S) /\ IsFiniteSet(P)
        /\ sem = otherSlots + Cardinality(S) /\ ports = PortGroups - otherPorts - Cardinality(P)
    BY DEF HoldersFinite, ResourcesExact, SlotHolders, PortHolders
  <1>2. /\ sem \in 0 .. MaxRecorders /\ ports \in 0 .. PortGroups
        /\ otherPorts \in Nat /\ otherSlots \in Nat /\ otherPorts' = otherPorts /\ otherSlots' = otherSlots
    BY DEF TypeOK, otherVars
  <1>3. Cardinality(S) \in Nat /\ Cardinality(P) \in Nat
    BY <1>1, FS_CardinalityType
  <1>4. /\ IsFiniteSet(S') /\ Cardinality(S') \in Nat
        /\ sem' = otherSlots + Cardinality(S') /\ sem' \in 0 .. MaxRecorders
    <2>1. CASE SlotKept
      BY <1>1, <1>2, <1>3, <2>1 DEF SlotKept
    <2>2. CASE SlotTaken(s)
      <3>1. S' = S \cup {s} /\ s \notin S /\ sem < MaxRecorders /\ sem' = sem + 1
        BY <2>2 DEF SlotTaken
      <3>2. IsFiniteSet(S') /\ Cardinality(S') = Cardinality(S) + 1
        BY <1>1, <3>1, FS_AddElement
      <3>3. QED
        BY <1>1, <1>2, <1>3, <3>1, <3>2
    <2>3. CASE SlotGiven(s)
      <3>1. S' = S \ {s} /\ s \in S /\ sem' = sem - 1
        BY <2>3 DEF SlotGiven
      <3>2. IsFiniteSet(S') /\ Cardinality(S') = Cardinality(S) - 1
        BY <1>1, <3>1, FS_RemoveElement
      <3>3. Cardinality(S') \in Nat
        BY <3>2, FS_CardinalityType
      <3>4. QED
        BY <1>1, <1>2, <1>3, <3>1, <3>2, <3>3
    <2>4. QED
      BY <2>1, <2>2, <2>3 DEF Moved
  <1>5. /\ IsFiniteSet(P') /\ Cardinality(P') \in Nat
        /\ ports' = PortGroups - otherPorts - Cardinality(P') /\ ports' \in 0 .. PortGroups
    <2>1. CASE PortsKept
      BY <1>1, <1>2, <1>3, <2>1 DEF PortsKept
    <2>2. CASE PortsTaken(s)
      <3>1. P' = P \cup {s} /\ s \notin P /\ ports > 0 /\ ports' = ports - 1
        BY <2>2 DEF PortsTaken
      <3>2. IsFiniteSet(P') /\ Cardinality(P') = Cardinality(P) + 1
        BY <1>1, <3>1, FS_AddElement
      <3>3. QED
        BY <1>1, <1>2, <1>3, <3>1, <3>2
    <2>3. CASE PortsGiven(s)
      <3>1. P' = P \ {s} /\ s \in P /\ ports' = ports + 1
        BY <2>3 DEF PortsGiven
      <3>2. IsFiniteSet(P') /\ Cardinality(P') = Cardinality(P) - 1
        BY <1>1, <3>1, FS_RemoveElement
      <3>3. Cardinality(P') \in Nat
        BY <3>2, FS_CardinalityType
      <3>4. QED
        BY <1>1, <1>2, <1>3, <3>1, <3>2, <3>3
    <2>4. QED
      BY <2>1, <2>2, <2>3 DEF Moved
  <1>6. QED
    BY <1>2, <1>4, <1>5 DEF HoldersFinite, ResourcesExact, SlotHolders, PortHolders

(* The other streams take and give back what is theirs.                    *)
LEMMA OtherStreamsStep ==
  ASSUME IInv, OtherStreams
  PROVE IInv'
  <1>1. UNCHANGED <<start, starts, closeVars, supVars, stopVars, alive, segVars, exits, faults>>
    BY DEF OtherStreams
  <1>2. StreamTypes' /\ (\A s \in Streams : StreamOK(s)')
    <2>1. StreamTypes /\ \A s \in Streams : StreamOK(s)
      BY TypeParts DEF IInv
    <2>2. StreamTypes'
      BY <1>1, <2>1 DEF StreamTypes, closeVars, supVars, stopVars, segVars
    <2>3. QED
      BY <1>1, <2>1, <2>2 DEF StreamOK, Phased, Counted, Quiet, Accounted, InHand, Settled,
                              closeVars, supVars, stopVars, segVars
  <1>3. SlotHolders' = SlotHolders /\ PortHolders' = PortHolders
    BY <1>1 DEF SlotHolders, PortHolders, HoldsSlot, HoldsPorts, closeVars
  <1>4. /\ IsFiniteSet(SlotHolders) /\ IsFiniteSet(PortHolders)
        /\ sem = otherSlots + Cardinality(SlotHolders)
        /\ ports = PortGroups - otherPorts - Cardinality(PortHolders)
    BY DEF IInv, HoldersFinite, ResourcesExact, SlotHolders, PortHolders
  <1>5. Cardinality(SlotHolders) \in Nat /\ Cardinality(PortHolders) \in Nat
    BY <1>4, FS_CardinalityType
  <1>6. /\ sem \in 0 .. MaxRecorders /\ ports \in 0 .. PortGroups /\ faults \in 0 .. MaxFaults
        /\ otherPorts \in 0 .. PortGroups /\ otherSlots \in 0 .. otherPorts
    BY DEF IInv, TypeOK
  <1>7. /\ sem' = otherSlots' + Cardinality(SlotHolders)
        /\ ports' = PortGroups - otherPorts' - Cardinality(PortHolders)
        /\ sem' \in 0 .. MaxRecorders /\ ports' \in 0 .. PortGroups /\ faults' = faults
        /\ otherPorts' \in 0 .. PortGroups /\ otherSlots' \in 0 .. otherPorts'
    BY <1>4, <1>5, <1>6 DEF OtherStreams
  <1>8. HoldersFinite' /\ ResourcesExact'
    BY <1>3, <1>4, <1>7 DEF HoldersFinite, ResourcesExact, SlotHolders, PortHolders
  <1>9. TypeOK'
    <2>1. TypeOK' <=> /\ sem' \in 0 .. MaxRecorders /\ ports' \in 0 .. PortGroups
                      /\ faults' \in 0 .. MaxFaults /\ otherPorts' \in 0 .. PortGroups
                      /\ otherSlots' \in 0 .. otherPorts' /\ StreamTypes'
      BY DEF TypeOK, StreamTypes
    <2>2. QED
      BY <1>2, <1>6, <1>7, <2>1
  <1>10. QED
    BY <1>2, <1>8, <1>9 DEF IInv

-----------------------------------------------------------------------------
LEMMA InvInit == Init => IInv
  <1> SUFFICES ASSUME Init PROVE IInv
    OBVIOUS
  <1>1. TypeOK
    BY RestartLimit DEF Init, TypeOK
  <1>2. SlotHolders = {} /\ PortHolders = {}
    BY DEF Init, SlotHolders, PortHolders, HoldsSlot, HoldsPorts
  <1>3. HoldersFinite /\ ResourcesExact
    <2>1. IsFiniteSet(SlotHolders) /\ IsFiniteSet(PortHolders)
          /\ Cardinality(SlotHolders) = 0 /\ Cardinality(PortHolders) = 0
      BY <1>2, FS_EmptySet
    <2>2. sem = 0 /\ otherSlots = 0 /\ otherPorts = 0 /\ ports = PortGroups
      BY DEF Init
    <2>3. /\ sem = otherSlots + Cardinality(SlotHolders)
          /\ ports = PortGroups - otherPorts - Cardinality(PortHolders)
      BY <2>1, <2>2
    <2>4. QED
      BY <2>1, <2>3 DEF HoldersFinite, ResourcesExact, SlotHolders, PortHolders
  <1>4. \A s \in Streams : StreamOK(s)
    BY DEF Init, StreamOK, Phased, Counted, Quiet, Accounted, InHand, Settled, Early, Trying, Between
  <1>5. QED
    BY <1>1, <1>3, <1>4 DEF IInv

LEMMA InvStep == IInv /\ [Next]_vars => IInv'
  <1> SUFFICES ASSUME IInv, [Next]_vars PROVE IInv'
    OBVIOUS
  <1>t. StreamTypes /\ \A x \in Streams : StreamOK(x)
    BY TypeParts DEF IInv
  <1>1. ASSUME NEW s \in Streams, StreamStep(s), UNCHANGED otherVars PROVE IInv'
    <2>1. StreamTypes'
      BY <1>1, <1>t, TypesStep
    <2>2. \A x \in Streams : StreamOK(x)'
      <3>1. StreamOK(s)'
        BY <1>1, <1>t, <2>1, PhasedStep, CountedStep, QuietStep, AccountedStep, SettledStep DEF StreamOK
      <3>2. ASSUME NEW x \in Streams \ {s} PROVE StreamOK(x)'
        <4>1. /\ start'[x] = start[x] /\ closing'[x] = closing[x] /\ sup'[x] = sup[x]
              /\ attempt'[x] = attempt[x] /\ restarts'[x] = restarts[x] /\ streak'[x] = streak[x]
              /\ alive'[x] = alive[x] /\ uploader'[x] = uploader[x] /\ written'[x] = written[x]
              /\ sent'[x] = sent[x] /\ segs'[x] = segs[x] /\ copied'[x] = copied[x]
              /\ incomplete'[x] = incomplete[x] /\ cleaned'[x] = cleaned[x]
          BY <1>1, <1>t, OthersStep
        <4>2. StreamOK(x)
          BY <1>t
        <4>3. QED
          BY <4>1, <4>2 DEF StreamOK, Phased, Counted, Quiet, Accounted, InHand, Settled
      <3>3. QED
        BY <3>1, <3>2
    <2>3. Moved(s)
      BY <1>1, <1>t, HoldersStep
    <2>4. /\ HoldersFinite' /\ ResourcesExact'
          /\ sem' \in 0 .. MaxRecorders /\ ports' \in 0 .. PortGroups
      BY <1>1, <2>3, CountersStep DEF IInv
    <2>5. faults' \in 0 .. MaxFaults
      <3>1. faults \in 0 .. MaxFaults
        BY DEF IInv, TypeOK
      <3>2. UNCHANGED faults \/ Fault
        BY <1>1 DEF StreamStep, StartStep, RunStep, UploaderStep, CloseStep, Ok,
                    ClaimStart, StartSession, TakeSlot, StartRecorderSupervisor, Commit,
                    WriteSegment, FFmpegExits, RunTop, RunCheck, Forward, RunDecide, RunBackoff,
                    RunSpawn, Upload, UploaderEnds, CloseBegin, CloseRead, StopProcess,
                    CloseStopped, CloseDrain, CloseSession, Janitor, RollbackStopped, RollbackEnd
      <3>3. QED
        BY <3>1, <3>2 DEF Fault
    <2>6. otherPorts' \in 0 .. PortGroups /\ otherSlots' \in 0 .. otherPorts'
      BY <1>1 DEF IInv, TypeOK, otherVars
    <2>7. TypeOK' <=> /\ sem' \in 0 .. MaxRecorders /\ ports' \in 0 .. PortGroups
                      /\ faults' \in 0 .. MaxFaults /\ otherPorts' \in 0 .. PortGroups
                      /\ otherSlots' \in 0 .. otherPorts' /\ StreamTypes'
      BY DEF TypeOK, StreamTypes
    <2>8. QED
      BY <2>1, <2>2, <2>4, <2>5, <2>6, <2>7 DEF IInv
  <1>2. CASE OtherStreams
    BY <1>2, OtherStreamsStep
  <1>3. CASE UNCHANGED vars
    <2>1. TypeOK' /\ HoldersFinite' /\ ResourcesExact'
      BY <1>3 DEF IInv, vars, otherVars, startVars, closeVars, supVars, stopVars, segVars, TypeOK,
                  HoldersFinite, ResourcesExact, SlotHolders, PortHolders, HoldsSlot, HoldsPorts
    <2>2. \A s \in Streams : StreamOK(s)'
      BY <1>3, <1>t
         DEF vars, startVars, closeVars, supVars, stopVars, segVars, StreamOK, Phased, Counted,
                        Quiet, Accounted, InHand, Settled
    <2>3. QED
      BY <2>1, <2>2 DEF IInv
  <1>4. QED
    BY <1>1, <1>2, <1>3 DEF Next

LEMMA Inductive == Spec => []IInv
  BY InvInit, InvStep, PTL DEF Spec

(* Every variable keeps its type; in particular no slot or port counter    *)
(* leaves its capacity, and no restart counter passes its limit.           *)
THEOREM TypeCorrect == Spec => []TypeOK
  <1>1. IInv => TypeOK
    BY DEF IInv
  <1>2. QED
    BY <1>1, Inductive, PTL

(* RecordSem and the port allocator are exact: however starts, closes and  *)
(* rollbacks interleave, what is taken is what the streams own.            *)
THEOREM ResourcesAreExact == Spec => []ResourcesExact
  <1>1. IInv => ResourcesExact
    BY DEF IInv
  <1>2. QED
    BY <1>1, Inductive, PTL

(* The recording close takes over without calling it incomplete has every  *)
(* segment ffmpeg listed, over all its restarts.                           *)
THEOREM CopiesAreWhole == Spec => []CopyIsWhole
  <1>1. IInv => CopyIsWhole
    BY DEF IInv, StreamOK, Settled, CopyIsWhole
  <1>2. QED
    BY <1>1, Inductive, PTL

(* The janitor removes the files of a recording only when every segment is *)
(* in the object store.                                                    *)
THEOREM CleanupsAreSafe == Spec => []CleanupIsSafe
  <1>1. IInv => CleanupIsSafe
    BY DEF IInv, StreamOK, Settled, CleanupIsSafe
  <1>2. QED
    BY <1>1, Inductive, PTL
=============================================================================
