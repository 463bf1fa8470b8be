---------------------------- MODULE QueueProofs ----------------------------
(***************************************************************************)
(* Theorems about the queue package: QueueHealth, for any topics,          *)
(* concurrent calls, cooldowns, thresholds and failures, and               *)
(* KafkaConsumer, for any set of partitions, any log, any wiring of the    *)
(* group and any number of faults, restarts and rebalances.                *)
(***************************************************************************)
EXTENDS QueueHealth, KafkaConsumer, FiniteSetTheorems, TLAPS

-----------------------------------------------------------------------------
(***************************************************************************)
(* The monitor.  Its clock is reset with the history of samples and with   *)
(* every alert, so it never runs ahead of either.                          *)
(***************************************************************************)
ClockIsBehind ==
    /\ {since, held} \subseteq -1 .. Limit /\ quiet \in 0 .. Limit
    /\ since <= held /\ since <= quiet

MonitorInv == ClockIsBehind /\ LagAlertEarned

LEMMA MonitorStep == MonitorInv /\ [HealthNext]_healthVars => MonitorInv'
<1> SUFFICES ASSUME MonitorInv, [HealthNext]_healthVars
             PROVE  MonitorInv'
  OBVIOUS
<1> USE MonitorAssumption DEF NotExceeded, Limit
<1>1. since \in -1 .. Limit /\ held \in -1 .. Limit /\ quiet \in 0 .. Limit
      /\ since <= held /\ since <= quiet /\ LagDuration \in Nat
  BY DEF MonitorInv, ClockIsBehind
<1>2. CASE UNCHANGED <<since, held, quiet, alert>>
  BY <1>2 DEF MonitorInv, ClockIsBehind, LagAlertEarned
<1>3. CASE CheckLag
  <2>1. held' = IF lag = "ok" THEN -1 ELSE IF held = -1 THEN 0 ELSE held
    BY <1>3 DEF CheckLag, Sampled
  <2>2. CASE lag = "ok"
    <3>1. since' = -1 /\ UNCHANGED <<quiet, alert>>
      BY <1>3, <2>2 DEF CheckLag
    <3>2. QED
      BY <1>1, <2>1, <2>2, <3>1 DEF MonitorInv, ClockIsBehind, LagAlertEarned
  <2>3. CASE lag # "ok" /\ since = -1
    <3>1. since' = 0 /\ UNCHANGED <<quiet, alert>>
      BY <1>1, <1>3, <2>3 DEF CheckLag
    <3>2. QED
      BY <1>1, <2>1, <2>3, <3>1 DEF MonitorInv, ClockIsBehind, LagAlertEarned
  <2>4. CASE lag # "ok" /\ since # -1 /\ since > LagDuration
    <3>1. /\ since' = 0 /\ quiet' = 0
          /\ alert' = [kind |-> "lag", level |-> lag, held |-> held, quiet |-> quiet]
      BY <1>1, <1>3, <2>4 DEF CheckLag
    <3>2. held > LagDuration /\ quiet > LagDuration
      BY <1>1, <2>4
    <3>3. ClockIsBehind'
      BY <1>1, <2>1, <2>4, <3>1 DEF ClockIsBehind
    <3>4. LagAlertEarned'
      BY <3>1, <3>2 DEF LagAlertEarned
    <3>5. QED
      BY <3>3, <3>4 DEF MonitorInv
  <2>5. CASE lag # "ok" /\ since # -1 /\ ~(since > LagDuration)
    <3>1. UNCHANGED <<since, quiet, alert>>
      BY <1>3, <2>5 DEF CheckLag
    <3>2. QED
      BY <1>1, <2>1, <2>5, <3>1 DEF MonitorInv, ClockIsBehind, LagAlertEarned
  <2>6. QED
    BY <2>2, <2>3, <2>4, <2>5
<1>4. CASE RecordDLQ \/ RecordFetchError
  <2>1. UNCHANGED <<since, held, quiet>> /\ (alert' = alert \/ alert'.kind \in {"dlq", "fetch"})
    BY <1>4 DEF RecordDLQ, RecordFetchError
  <2>2. QED
    BY <2>1 DEF MonitorInv, ClockIsBehind, LagAlertEarned
<1>5. CASE MonitorTick
  <2>1. /\ since' = Older(since) /\ held' = Older(held) /\ quiet' = Older(quiet)
        /\ alert' = alert
    BY <1>5 DEF MonitorTick
  <2>2. ClockIsBehind'
    BY <1>1, <2>1 DEF ClockIsBehind, Older
  <2>3. QED
    BY <2>1, <2>2 DEF MonitorInv, LagAlertEarned
<1>6. CASE \E l \in Levels : LagChanges(l)
  BY <1>2, <1>6 DEF LagChanges
<1>7. CASE Fetched
  BY <1>2, <1>7 DEF Fetched
<1>8. CASE UNCHANGED monitorVars
  BY <1>2, <1>8 DEF monitorVars
<1>9. QED
  BY <1>3, <1>4, <1>5, <1>6, <1>7, <1>8
     DEF HealthNext, Tick, MonitorNext, PublisherActs, MonitorActs, healthVars

LEMMA Steps == HealthSpec => HealthInit /\ [][HealthNext]_healthVars
  BY DEF HealthSpec

(* checkLagAlert: whatever the lag does between samples, a lag alert means *)
(* that every sample of more than LagDuration was above the threshold, and *)
(* that the last alert is longer ago than that.                            *)
THEOREM AlertsAreEarned == HealthSpec => []LagAlertEarned
<1>1. HealthInit => MonitorInv
  BY MonitorAssumption
     DEF HealthInit, MonitorInit, MonitorInv, ClockIsBehind, LagAlertEarned, NotExceeded, Limit, NoAlert
<1>2. MonitorInv => LagAlertEarned
  BY DEF MonitorInv
<1>3. QED
  BY <1>1, <1>2, MonitorStep, Steps, PTL

-----------------------------------------------------------------------------
(***************************************************************************)
(* The topic recovery.  A pass has the mutex to itself, and the calls that *)
(* waited for it get the mutex before a tick is over.  So after a pass     *)
(* that left a tick of the cooldown, as long as a retry is owed the        *)
(* verdict that earned it stands, and the cooldown has not run out: no     *)
(* waiter starts a pass.  After a longer pass nothing is promised.         *)
(***************************************************************************)
InPass == {"read", "create", "verify"}
Places == {"idle", "write", "retry", "lock"} \cup InPass

CallsOK ==
    /\ DOMAIN call = Calls
    /\ \A c \in Calls : "at" \in DOMAIN call[c] /\ call[c].at \in Places

PassOK ==
    /\ age \in 0 .. Cooldown
    /\ \A c \in Calls : call[c].at \in InPass => holder = c
    /\ holder # NoCall => owed = {} \/ ~timely

OwedOK ==
    /\ owed \subseteq {c \in Calls : call[c].at \in {"lock"} \cup InPass}
    /\ timely \in BOOLEAN
    /\ timely => owed \subseteq {c \in Calls : call[c].at = "lock"}
    /\ timely /\ owed # {} => lastRecoveryOK /\ age < Cooldown

RecoveryInv == CallsOK /\ PassOK /\ OwedOK

(* What a call does to its own entry.                                      *)
LEMMA Gone ==
    ASSUME CallsOK, NEW c \in Calls, NEW to \in Places, Goto(c, to)
    PROVE  /\ CallsOK' /\ call'[c].at = to
           /\ \A d \in Calls \ {c} : call'[d] = call[d]
<1>1. /\ DOMAIN call' = Calls /\ call'[c] = [call[c] EXCEPT !.at = to]
      /\ \A d \in Calls \ {c} : call'[d] = call[d]
  BY DEF CallsOK, Goto
<1>2. DOMAIN call'[c] = DOMAIN call[c] /\ call'[c].at = to
  BY <1>1 DEF CallsOK
<1>3. QED
  BY <1>1, <1>2 DEF CallsOK

LEMMA Returned ==
    ASSUME CallsOK, NEW c \in Calls, Return(c)
    PROVE  /\ CallsOK' /\ call'[c].at = "idle"
           /\ \A d \in Calls \ {c} : call'[d] = call[d]
<1>1. /\ DOMAIN call' = Calls /\ call'[c] = Idle
      /\ \A d \in Calls \ {c} : call'[d] = call[d]
  BY DEF CallsOK, Return
<1>2. DOMAIN Idle = {"at"} /\ Idle.at = "idle" /\ "idle" \in Places
  BY DEF Idle, Places
<1>3. QED
  BY <1>1, <1>2 DEF CallsOK

(* The step of one call that keeps out of the mutex.                       *)
LEMMA Outside ==
    ASSUME RecoveryInv, NEW c \in Calls, call[c].at \in {"idle", "write", "retry"},
           UNCHANGED <<recoveryVars, debtVars>>, CallsOK', call'[c].at \notin InPass,
           \A d \in Calls \ {c} : call'[d] = call[d]
    PROVE  RecoveryInv'
<1>1. holder' = holder /\ age' = age /\ lastRecoveryOK' = lastRecoveryOK
      /\ owed' = owed /\ timely' = timely
  BY DEF recoveryVars, debtVars
<1>2. PassOK'
  BY <1>1 DEF RecoveryInv, PassOK
<1>3. c \notin owed
  BY DEF RecoveryInv, OwedOK, InPass
<1>4. OwedOK'
  BY <1>1, <1>3 DEF RecoveryInv, OwedOK
<1>5. QED
  BY <1>2, <1>4 DEF RecoveryInv

(* The end of a pass: its caller is owed nothing any more, and the verdict *)
(* is that of the pass.                                                    *)
LEMMA PassEnds ==
    ASSUME RecoveryInv, NEW c \in Calls, call[c].at \in InPass,
           NEW success \in BOOLEAN, EndPass(c, success)
    PROVE  RecoveryInv'
<1> USE RecoveryAssumption
<1>1. holder = c /\ c # NoCall
  BY DEF RecoveryInv, PassOK, NoCall
<1>2. (owed = {} \/ ~timely) /\ age' = age /\ age \in 0 .. Cooldown /\ timely \in BOOLEAN
      /\ holder' = NoCall /\ lastRecoveryOK' = success
  BY <1>1 DEF RecoveryInv, PassOK, OwedOK, EndPass
<1>3. /\ CallsOK' /\ call'[c].at \notin InPass
      /\ \A d \in Calls \ {c} : call'[d] = call[d]
  <2>1. "retry" \in Places /\ "retry" \notin InPass /\ "idle" \notin InPass
    BY DEF Places, InPass
  <2>2. QED
    BY <2>1, Gone, Returned DEF RecoveryInv, EndPass
<1>4. /\ owed' = (owed \ {c}) \cup {d \in Calls : success /\ call[d].at = "lock"}
      /\ timely' = IF success THEN age + 1 < Cooldown ELSE timely
  BY DEF EndPass
<1>5. \A d \in Calls : call'[d].at \notin InPass
  BY <1>1, <1>3 DEF RecoveryInv, PassOK
<1>6. PassOK'
  BY <1>2, <1>5 DEF PassOK
<1>7. \A d \in owed' : d # c /\ d \in Calls /\ call[d].at = "lock"
  <2>1. \A d \in Calls : call[d].at \in InPass => d = c
    BY <1>1 DEF RecoveryInv, PassOK
  <2>2. "lock" \notin InPass
    BY DEF InPass
  <2>3. QED
    BY <1>4, <2>1, <2>2 DEF RecoveryInv, OwedOK
<1>8. owed' \subseteq {d \in Calls : call'[d].at = "lock"}
  BY <1>3, <1>7
<1>9. CASE success
  <2>1. /\ timely' = (age + 1 < Cooldown)
        /\ lastRecoveryOK' = TRUE /\ age' = age /\ age \in Int /\ Cooldown \in Int
    BY <1>2, <1>4, <1>9
  <2>2. timely' \in BOOLEAN
    <3>1. (age + 1 < Cooldown) \in BOOLEAN
      BY <2>1
    <3>2. QED
      BY <2>1, <3>1, Zenon
  <2>3. timely' => age + 1 < Cooldown
    BY <2>1, Zenon
  <2>4. timely' => lastRecoveryOK' /\ age' < Cooldown
    BY <2>1, <2>3
  <2>5. QED
    BY <1>3, <1>6, <1>8, <2>2, <2>4 DEF RecoveryInv, OwedOK
<1>10. CASE ~success
  <2>1. timely' = timely /\ owed' = owed \ {c}
    BY <1>4, <1>10
  <2>2. timely' \in BOOLEAN /\ ~(timely' /\ owed' # {})
    BY <1>2, <2>1
  <2>3. QED
    BY <1>3, <1>6, <1>8, <2>2 DEF RecoveryInv, OwedOK
<1>11. QED
  BY <1>9, <1>10

(* A step within a pass.                                                   *)
LEMMA PassGoesOn ==
    ASSUME RecoveryInv, NEW c \in Calls, call[c].at \in InPass, NEW to \in InPass, Goto(c, to),
           UNCHANGED <<recoveryVars, debtVars>>
    PROVE  RecoveryInv'
<1>1. /\ CallsOK' /\ call'[c].at = to
      /\ \A d \in Calls \ {c} : call'[d] = call[d]
  BY Gone DEF RecoveryInv, Places
<1>2. holder' = holder /\ age' = age /\ lastRecoveryOK' = lastRecoveryOK
      /\ owed' = owed /\ timely' = timely
  BY DEF recoveryVars, debtVars
<1>3. holder = c
  BY DEF RecoveryInv, PassOK
<1>4. PassOK'
  BY <1>1, <1>2, <1>3 DEF RecoveryInv, PassOK
<1>5. timely => c \notin owed
  BY DEF RecoveryInv, OwedOK, InPass
<1>6. OwedOK'
  BY <1>1, <1>2, <1>5 DEF RecoveryInv, OwedOK
<1>7. QED
  BY <1>1, <1>4, <1>6 DEF RecoveryInv

LEMMA PublishStepInv ==
    ASSUME RecoveryInv, NEW c \in Calls, PublishStep(c)
    PROVE  RecoveryInv' /\ (timely => \A d \in owed : call'[d] # Idle)
<1> USE RecoveryAssumption
<1>1. timely => \A d \in owed : d \in Calls /\ call[d].at = "lock" /\ call[d] # Idle
  <2>1. Idle.at # "lock"
    BY DEF Idle
  <2>2. QED
    BY <2>1 DEF RecoveryInv, OwedOK
<1>2. ASSUME call[c].at # "lock", \A d \in Calls \ {c} : call'[d] = call[d]
      PROVE  timely => \A d \in owed : call'[d] # Idle
  BY <1>1, <1>2
<1>3. CASE WriteMessages(c)
  <2>1. Return(c) \/ Goto(c, "lock")
    BY <1>3 DEF WriteMessages
  <2>2. /\ CallsOK' /\ call'[c].at \notin InPass
        /\ \A d \in Calls \ {c} : call'[d] = call[d]
    BY <2>1, Gone, Returned DEF RecoveryInv, Places, InPass
  <2>3. RecoveryInv'
    BY <1>3, <2>2, Outside DEF WriteMessages
  <2>4. QED
    BY <1>2, <1>3, <2>2, <2>3 DEF WriteMessages
<1>4. CASE RetryWrite(c)
  <2>1. /\ CallsOK' /\ call'[c].at \notin InPass
        /\ \A d \in Calls \ {c} : call'[d] = call[d]
    BY <1>4, Returned DEF RetryWrite, RecoveryInv, InPass
  <2>2. RecoveryInv'
    BY <1>4, <2>1, Outside DEF RetryWrite
  <2>3. QED
    BY <1>2, <1>4, <2>1, <2>2 DEF RetryWrite
<1>5. CASE TakeVerdict(c)
  <2>1. /\ call[c].at = "lock" /\ holder = NoCall /\ owed' = owed \ {c}
        /\ UNCHANGED <<holder, age, lastRecoveryOK, timely>>
        /\ IF lastRecoveryOK THEN Goto(c, "retry") ELSE Return(c)
    BY <1>5 DEF TakeVerdict, recoveryVars
  <2>2. /\ CallsOK' /\ call'[c].at \in {"retry", "idle"}
        /\ \A d \in Calls \ {c} : call'[d] = call[d]
        /\ lastRecoveryOK => call'[c].at = "retry"
    BY <2>1, Gone, Returned DEF RecoveryInv, Places
  <2>3. PassOK'
    BY <2>1, <2>2 DEF RecoveryInv, PassOK, InPass
  <2>4. OwedOK'
    BY <2>1, <2>2 DEF RecoveryInv, OwedOK
  <2>5. timely /\ c \in owed => call'[c].at = "retry"
    BY <2>2 DEF RecoveryInv, OwedOK
  <2>6. Idle.at = "idle"
    BY DEF Idle
  <2>7. timely => \A d \in owed : call'[d] # Idle
    BY <1>1, <2>2, <2>5, <2>6
  <2>8. QED
    BY <2>2, <2>3, <2>4, <2>7 DEF RecoveryInv
<1>6. CASE BeginPass(c)
  <2>1. /\ call[c].at = "lock" /\ holder = NoCall /\ age = Cooldown
        /\ holder' = c /\ age' = 0 /\ lastRecoveryOK' = FALSE
        /\ owed' = owed /\ timely' = timely
        /\ Goto(c, "read")
    BY <1>6 DEF BeginPass, debtVars
  <2>2. owed = {} \/ ~timely
    BY <2>1 DEF RecoveryInv, OwedOK
  <2>3. /\ CallsOK' /\ call'[c].at = "read"
        /\ \A d \in Calls \ {c} : call'[d] = call[d]
    BY <2>1, Gone DEF RecoveryInv, Places, InPass
  <2>4. \A d \in Calls : call[d].at \notin InPass
    BY <2>1 DEF RecoveryInv, PassOK, NoCall
  <2>5. PassOK'
    BY <2>1, <2>2, <2>3, <2>4 DEF PassOK
  <2>6. OwedOK'
    BY <2>1, <2>2, <2>3 DEF RecoveryInv, OwedOK, InPass
  <2>7. QED
    BY <2>2, <2>3, <2>5, <2>6 DEF RecoveryInv
<1>7. CASE ReadTopics(c) \/ CreateTopics(c) \/ VerifyTopics(c)
  <2>1. call[c].at \in InPass
    BY <1>7 DEF ReadTopics, CreateTopics, VerifyTopics, InPass
  <2>2. \/ \E success \in BOOLEAN : EndPass(c, success)
        \/ \E to \in InPass : Goto(c, to) /\ UNCHANGED <<recoveryVars, debtVars>>
    <3>1. CASE ReadTopics(c)
      BY <3>1 DEF ReadTopics, InPass
    <3>2. CASE CreateTopics(c)
      BY <3>2 DEF CreateTopics, InPass
    <3>3. CASE VerifyTopics(c)
      BY <3>3 DEF VerifyTopics
    <3>4. QED
      BY <1>7, <3>1, <3>2, <3>3
  <2>3. RecoveryInv'
    BY <2>1, <2>2, PassEnds, PassGoesOn
  <2>4. owed = {} \/ ~timely
    BY <2>1 DEF RecoveryInv, PassOK, NoCall
  <2>5. QED
    BY <2>3, <2>4
<1>8. QED
  BY <1>3, <1>4, <1>5, <1>6, <1>7 DEF PublishStep

LEMMA RecoveryStep ==
    ASSUME RecoveryInv, [HealthNext]_healthVars
    PROVE  RecoveryInv' /\ (timely => \A c \in owed : call'[c] # Idle)
<1> USE RecoveryAssumption
<1>1. timely => \A d \in owed : call[d] # Idle
  <2>1. Idle.at # "lock"
    BY DEF Idle
  <2>2. QED
    BY <2>1 DEF RecoveryInv, OwedOK
<1>2. CASE UNCHANGED <<call, recoveryVars, debtVars>>
  BY <1>1, <1>2 DEF RecoveryInv, CallsOK, PassOK, OwedOK, recoveryVars, debtVars
<1>3. CASE LoseTopics \/ (\E t \in AllTopics : Appear(t))
           \/ CreatedElsewhere(AllTopics \ (broker \cup creating))
  BY <1>2, <1>3 DEF LoseTopics, Appear, CreatedElsewhere
<1>4. ASSUME NEW c \in Calls, NEW t \in Topics, Publish(c, t)
      PROVE  RecoveryInv' /\ (timely => \A d \in owed : call'[d] # Idle)
  <2>1. /\ call[c] = Idle /\ call' = [call EXCEPT ![c] = [at |-> "write", topic |-> t]]
        /\ UNCHANGED <<recoveryVars, debtVars>>
    BY <1>4 DEF Publish
  <2>2. /\ call'[c].at = "write" /\ "at" \in DOMAIN call'[c] /\ DOMAIN call' = Calls
        /\ \A d \in Calls \ {c} : call'[d] = call[d]
    BY <2>1 DEF RecoveryInv, CallsOK
  <2>3. CallsOK' /\ "write" \notin InPass
    BY <2>2 DEF RecoveryInv, CallsOK, Places, InPass
  <2>4. call[c].at = "idle"
    BY <2>1 DEF Idle
  <2>5. RecoveryInv'
    BY <2>1, <2>2, <2>3, <2>4, Outside
  <2>6. QED
    BY <1>1, <2>2, <2>4, <2>5 DEF RecoveryInv, OwedOK
<1>5. CASE RecoveryTick
  <2>1. /\ holder = NoCall => owed = {}
        /\ age' = IF age < Cooldown THEN age + 1 ELSE age
        /\ UNCHANGED <<call, holder, lastRecoveryOK, owed, timely>>
    BY <1>5 DEF RecoveryTick, debtVars
  <2>2. age \in 0 .. Cooldown /\ age' \in 0 .. Cooldown
    BY <2>1 DEF RecoveryInv, PassOK
  <2>3. PassOK'
    BY <2>1, <2>2 DEF RecoveryInv, PassOK
  <2>4. owed = {} \/ ~timely
    BY <2>1 DEF RecoveryInv, PassOK
  <2>5. OwedOK'
    BY <2>1, <2>4 DEF RecoveryInv, OwedOK
  <2>6. CallsOK'
    BY <2>1 DEF RecoveryInv, CallsOK
  <2>7. QED
    BY <2>3, <2>4, <2>5, <2>6 DEF RecoveryInv
<1>6. CASE UNCHANGED publisherVars
  BY <1>2, <1>6 DEF publisherVars
<1>7. CASE RecoveryNext
  BY <1>3, <1>4, <1>7, PublishStepInv DEF RecoveryNext
<1>8. QED
  BY <1>5, <1>6, <1>7 DEF HealthNext, Tick, PublisherActs, MonitorActs, healthVars

(* recoverTopics: for any calls, losses and faults, a call that waited     *)
(* behind a successful pass goes ahead with its message if that pass left  *)
(* a tick of the cooldown: its verdict is neither overtaken by another     *)
(* pass nor outlived by the cooldown.                                      *)
THEOREM RetriesAreEarned == HealthSpec => EarnedRetry
<1>1. HealthInit => RecoveryInv
  <2> SUFFICES ASSUME HealthInit
               PROVE  RecoveryInv
    OBVIOUS
  <2>1. /\ DOMAIN call = Calls /\ owed = {} /\ ~timely /\ timely \in BOOLEAN
        /\ holder = NoCall /\ age = Cooldown
        /\ \A c \in Calls : call[c] = Idle
    BY DEF HealthInit, RecoveryInit
  <2>2. DOMAIN Idle = {"at"} /\ Idle.at = "idle" /\ "idle" \in Places /\ "idle" \notin InPass
    BY DEF Idle, Places, InPass
  <2>3. CallsOK /\ PassOK /\ OwedOK
    BY <2>1, <2>2, RecoveryAssumption DEF CallsOK, PassOK, OwedOK
  <2>4. QED
    BY <2>3 DEF RecoveryInv
<1>2. RecoveryInv /\ [HealthNext]_healthVars => RecoveryInv'
  BY RecoveryStep
<1>3. RecoveryInv /\ [HealthNext]_healthVars => [timely => \A c \in owed : call'[c] # Idle]_publisherVars
  BY RecoveryStep
<1>4. QED
  BY <1>1, <1>2, <1>3, Steps, PTL DEF EarnedRetry

-----------------------------------------------------------------------------
(***************************************************************************)
(* KafkaConsumer.                                                          *)
(***************************************************************************)
USE ConstantsAssumption DEF AllKinds, Config, Nothing

(* A message is done with, or its dead letter could not be written.        *)
Tried(m) == Settled(m) \/ sendFails[m] > 0

(* What the reader has passed was tried, or is the message in hand; after  *)
(* a rebalance the message in hand may lie ahead of the reader.            *)
ReadIsTried ==
    \A p \in Partitions : \A o \in 0 .. position[p] - 1 : Tried(<<p, o>>) \/ cur = <<p, o>>

(* All before the message in hand was tried, and so was that message when  *)
(* its offset is about to be committed.                                    *)
InHandIsNext ==
    /\ pc # "fetch" => \A o \in 0 .. cur[2] - 1 : Tried(<<cur[1], o>>)
    /\ pc = "commit" => Tried(cur)

(* The poison-pill counter counts failed writes, all of them at the offset *)
(* it remembers.                                                           *)
CounterIsReal ==
    dlqFailCount > 0 =>
        lastFailOffset \in Offsets /\ dlqFailCount <= Cardinality(FailedAt(lastFailOffset))

FailuresFinite == \A o \in Offsets : IsFiniteSet(FailedAt(o))

DeliveryInv == TypeOK /\ CommittedIsTried /\ ReadIsTried /\ InHandIsNext
PoisonInv == TypeOK /\ FailuresFinite /\ CounterIsReal /\ ForceIsEarned

-----------------------------------------------------------------------------
(***************************************************************************)
(* Type correctness.                                                       *)
(***************************************************************************)
LEMMA MessageParts ==
  TypeOK /\ pc # "fetch" =>
      cur \in Messages /\ cur[1] \in Partitions /\ cur[2] \in 0 .. MaxLog - 1 /\ cur = <<cur[1], cur[2]>>
  <1> SUFFICES ASSUME TypeOK, pc # "fetch"
               PROVE cur[1] \in Partitions /\ cur[2] \in 0 .. MaxLog - 1 /\ cur = <<cur[1], cur[2]>>
                     /\ cur \in Messages
    OBVIOUS
  <1>1. cur \in Messages
    BY DEF TypeOK
  <1>2. QED
    BY <1>1 DEF Messages, Offsets

LEMMA TypeInit == Init => TypeOK
  BY DEF Init, TypeOK, NoMessage, Messages, Offsets

(* Every step leaves the variables in their types.                         *)
LEMMA TypeStep == TypeOK /\ [Next]_vars => TypeOK'
  <1> SUFFICES ASSUME TypeOK, [Next]_vars PROVE TypeOK'
    OBVIOUS
  <1>h. pc # "fetch" => cur \in Messages /\ cur[1] \in Partitions /\ cur[2] \in 0 .. MaxLog - 1
    BY MessageParts
  <1> USE DEF TypeOK, kafkaVars, budget, history
  <1>1. ASSUME NEW p \in Partitions, NEW k \in Kinds, Produce(p, k), UNCHANGED config PROVE TypeOK'
    BY <1>1 DEF Produce
  <1>2. ASSUME NEW p \in Partitions, Fetch(p), UNCHANGED config PROVE TypeOK'
    <2>1. position[p] \in Offsets /\ <<p, position[p]>> \in Messages /\ <<p, position[p]>> # NoMessage
      BY <1>2 DEF Fetch, Offsets, Messages, NoMessage
    <2>2. QED
      BY <1>2, <2>1 DEF Fetch
  <1>3. CASE HandlerOk /\ UNCHANGED config
    BY <1>3 DEF HandlerOk, NoMessage
  <1>4. CASE HandlerFails /\ UNCHANGED config
    BY <1>4 DEF HandlerFails
  <1>5. CASE DLQSend /\ UNCHANGED config
    BY <1>5 DEF DLQSend
  <1>6. CASE DLQFails /\ UNCHANGED config
    <2>0. pc = "dlq"
      BY <1>6 DEF DLQFails
    <2>1. cur \in Messages /\ cur[2] \in Offsets /\ FailCount \in Nat
      BY <1>h, <2>0 DEF FailCount, Offsets
    <2>2. dlq' \subseteq Messages /\ dlqFaults' \in 0 .. MaxDLQFaults
      BY <1>6, <2>1 DEF DLQFails, SendFailed
    <2>3. config \in Config /\ config.maxDLQFails \in Nat
      OBVIOUS
    <2>4. dlqFailCount' \in Nat /\ (config.maxDLQFails > 0 => dlqFailCount' < config.maxDLQFails)
      BY <1>6, <2>1, <2>3 DEF DLQFails, Exhausted
    <2>5. sendFails' \in [Messages -> Nat] /\ forced' \subseteq Messages /\ waived' \subseteq Messages
      BY <1>6, <2>1 DEF DLQFails
    <2>6. /\ pc' \in {"fetch", "handle", "dlq", "commit"} /\ tries' \in 0 .. MaxTries
          /\ cur' \in Messages \cup {NoMessage} /\ (cur' = NoMessage <=> pc' = "fetch")
      BY <1>6, <2>1 DEF DLQFails
    <2>7. QED
      BY <1>6, <2>1, <2>2, <2>4, <2>5, <2>6 DEF DLQFails
  <1>7. CASE Commit /\ UNCHANGED config
    <2>0. pc = "commit"
      BY <1>7 DEF Commit
    <2>1. cur[1] \in Partitions /\ cur[2] + 1 \in 1 .. MaxLog
      BY <1>h, <2>0
    <2>2. QED
      BY <1>7, <2>1 DEF Commit
  <1>8. ASSUME Reset PROVE /\ position' \in [Partitions -> 0 .. MaxLog] /\ skipped' \subseteq Messages
                           /\ resets' \in 0 .. MaxResets
    BY <1>8 DEF Reset, StartPosition
  <1>9. CASE Rebalance /\ UNCHANGED config
    BY <1>8, <1>9 DEF Rebalance, Reset
  <1>10. CASE Restart /\ UNCHANGED config
    BY <1>8, <1>10 DEF Restart, Reset
  <1>11. CASE UNCHANGED vars
    BY <1>11 DEF vars
  <1>12. QED
    BY <1>1, <1>2, <1>3, <1>4, <1>5, <1>6, <1>7, <1>9, <1>10, <1>11 DEF Next, Consume

(* Every state is type correct; in particular the poison-pill counter      *)
(* stays below maxDLQFails, whatever fails.                                *)
THEOREM TypeCorrect == Spec => []TypeOK
  BY TypeInit, TypeStep, PTL DEF Spec

-----------------------------------------------------------------------------
(***************************************************************************)
(* At-least-once delivery.                                                 *)
(***************************************************************************)

(* What was tried stays tried.                                             *)
LEMMA TriedGrows == TypeOK /\ [Next]_vars => \A m \in Messages : Tried(m) => Tried(m)'
  <1> SUFFICES ASSUME TypeOK, [Next]_vars, NEW m \in Messages, Tried(m) PROVE Tried(m)'
    OBVIOUS
  <1>1. UNCHANGED history \/ HandlerOk \/ DLQSend \/ DLQFails \/ Reset
    BY DEF Next, Consume, Produce, Fetch, HandlerFails, Commit, Rebalance, Restart, vars
  <1>2. handled \subseteq handled' /\ dlq \subseteq dlq' /\ forced \subseteq forced'
        /\ waived \subseteq waived' /\ skipped \subseteq skipped'
    BY <1>1 DEF history, HandlerOk, DLQSend, DLQFails, SendFailed, Reset
  <1>3. sendFails[m] \in Nat /\ sendFails'[m] \in Nat /\ sendFails'[m] >= sendFails[m]
    <2>1. CASE DLQFails
      BY <2>1 DEF TypeOK, DLQFails
    <2>2. CASE ~DLQFails
      BY <1>1, <2>2 DEF TypeOK, history, HandlerOk, DLQSend, Reset
    <2>3. QED
      BY <2>1, <2>2
  <1>4. QED
    BY <1>2, <1>3 DEF Tried, Settled

LEMMA DeliveryInit == Init => CommittedIsTried /\ ReadIsTried /\ InHandIsNext
  BY DEF Init, CommittedIsTried, ReadIsTried, InHandIsNext

(* The offsets of a partition that lie below one the consumer can reach    *)
(* are messages.                                                           *)
LEMMA BelowIsMessage ==
  ASSUME NEW p \in Partitions, NEW n \in -1 .. MaxLog, NEW o \in 0 .. n - 1
  PROVE <<p, o>> \in Messages
  BY DEF Messages, Offsets

(* Every step keeps the offsets behind what was tried.                     *)
LEMMA DeliveryStep == DeliveryInv /\ [Next]_vars => DeliveryInv'
  <1> SUFFICES ASSUME DeliveryInv, [Next]_vars PROVE DeliveryInv'
    OBVIOUS
  <1>0. TypeOK /\ TypeOK'
    BY TypeStep DEF DeliveryInv
  <1>g. \A m \in Messages : Tried(m) => Tried(m)'
    BY <1>0, TriedGrows
  <1> DEFINE Passed(p, n) == \A o \in 0 .. n - 1 : Tried(<<p, o>>)
  (* A group offset or reader position that stays, or a message in hand    *)
  (* that stays, is as good as before.                                     *)
  <1>p. \A p \in Partitions, n \in -1 .. MaxLog : Passed(p, n) => \A o \in 0 .. n - 1 : Tried(<<p, o>>)'
    BY <1>g, BelowIsMessage
  <1>c. \A p \in Partitions : committed[p] \in -1 .. MaxLog /\ position[p] \in -1 .. MaxLog
    BY <1>0 DEF TypeOK
  <1>k. \A p \in Partitions : Passed(p, committed[p])
    BY Zenon DEF DeliveryInv, CommittedIsTried, Tried
  <1>m. pc # "fetch" => cur \in Messages /\ cur[1] \in Partitions /\ cur[2] \in 0 .. MaxLog - 1
    BY <1>0, MessageParts
  <1>h. pc # "fetch" => \A p \in Partitions, o \in 0 .. MaxLog - 1 : p = cur[1] /\ o < cur[2] => Tried(<<p, o>>)'
    <2> SUFFICES ASSUME pc # "fetch", NEW p \in Partitions, NEW o \in 0 .. MaxLog - 1, p = cur[1], o < cur[2]
                 PROVE Tried(<<p, o>>)'
      OBVIOUS
    <2>1. Tried(<<p, o>>)
      BY <1>m DEF DeliveryInv, InHandIsNext
    <2>2. <<p, o>> \in Messages
      BY DEF Messages, Offsets
    <2>3. QED
      BY <1>g, <2>1, <2>2
  <1>t. pc = "commit" => \A m \in Messages : m = cur => Tried(m)'
    BY <1>g DEF DeliveryInv, InHandIsNext
  <1>r. \A p \in Partitions : \A o \in 0 .. position[p] - 1 : Tried(<<p, o>>)' \/ cur = <<p, o>>
    BY <1>c, <1>g, BelowIsMessage DEF DeliveryInv, ReadIsTried
  (* The steps that leave the offsets and the message in hand alone.       *)
  <1>1. ASSUME UNCHANGED <<committed, position, cur>>, pc' = "fetch" => pc = "fetch",
               pc # "fetch" \/ pc' = "fetch", pc' = "commit" => pc = "commit" \/ Tried(cur)'
        PROVE DeliveryInv'
    <2>1. CommittedIsTried'
      BY <1>1, <1>c, <1>p, <1>k DEF CommittedIsTried, Tried
    <2>2. ReadIsTried'
      BY <1>1, <1>r DEF ReadIsTried
    <2>3. pc # "fetch" => \A o \in 0 .. cur'[2] - 1 : Tried(<<cur[1], o>>)'
      BY <1>1, <1>h, <1>m
    <2>4. InHandIsNext'
      BY <1>1, <1>m, <1>t, <2>3 DEF InHandIsNext
    <2>5. QED
      BY <1>0, <2>1, <2>2, <2>4 DEF DeliveryInv
  <1>2. CASE \/ \E p \in Partitions, k \in Kinds : Produce(p, k)
             \/ HandlerFails \/ UNCHANGED vars
    <2>1. UNCHANGED <<committed, position, cur>> /\ (UNCHANGED pc \/ (pc = "handle" /\ pc' = "dlq"))
      BY <1>2 DEF Produce, HandlerFails, vars, kafkaVars
    <2>2. QED
      BY <1>1, <2>1
  <1>3. CASE HandlerOk \/ DLQSend
    <2>1. UNCHANGED <<committed, position, cur>> /\ pc # "fetch" /\ pc' = "commit"
      BY <1>3 DEF HandlerOk, DLQSend, kafkaVars
    <2>2. Tried(cur)'
      BY <1>3 DEF HandlerOk, DLQSend, Tried, Settled
    <2>3. QED
      BY <1>1, <2>1, <2>2
  <1>4. CASE DLQFails
    <2>1. UNCHANGED <<committed, position>> /\ pc = "dlq"
      BY <1>4 DEF DLQFails, kafkaVars
    <2>2. \A m \in Messages : m = cur => Tried(m)'
      BY <1>0, <1>4, <1>m, <2>1 DEF DLQFails, TypeOK, Tried
    <2>3. CASE UNCHANGED cur /\ pc' = "commit"
      BY <1>1, <1>m, <2>1, <2>2, <2>3
    <2>4. CASE cur' = NoMessage /\ pc' = "fetch"
      <3>1. CommittedIsTried'
        BY <2>1, <1>c, <1>p, <1>k DEF CommittedIsTried, Tried
      <3>2. ReadIsTried'
        BY <1>c, <1>r, <2>1, <2>2, BelowIsMessage DEF ReadIsTried
      <3>3. QED
        BY <1>0, <2>4, <3>1, <3>2 DEF DeliveryInv, InHandIsNext
    <2>5. QED
      BY <1>4, <2>3, <2>4 DEF DLQFails
  <1>5. CASE Commit
    <2>1. /\ UNCHANGED position /\ pc = "commit" /\ pc' = "fetch" /\ cur' = NoMessage
          /\ UNCHANGED committed \/ committed' = [committed EXCEPT ![cur[1]] = cur[2] + 1]
      BY <1>5 DEF Commit
    <2>2. \A p \in Partitions, o \in 0 .. MaxLog - 1 : cur = <<p, o>> => Tried(<<p, o>>)'
      BY <1>t, <2>1 DEF Messages, Offsets
    <2>3. \A p \in Partitions, o \in 0 .. MaxLog - 1 : p = cur[1] /\ o <= cur[2] => Tried(<<p, o>>)'
      <3>1. cur = <<cur[1], cur[2]>>
        BY <1>0, <2>1, MessageParts
      <3>2. QED
        BY <1>h, <1>m, <2>1, <2>2, <3>1
    <2>4. \A p \in Partitions : \A o \in 0 .. committed[p] - 1 : Tried(<<p, o>>)'
      BY <1>c, <1>p, <1>k
    <2>5. CommittedIsTried'
      <3>1. \A p \in Partitions : \A o \in 0 .. committed'[p] - 1 : Tried(<<p, o>>)'
        <4> SUFFICES ASSUME NEW p \in Partitions, NEW o \in 0 .. committed'[p] - 1 PROVE Tried(<<p, o>>)'
          OBVIOUS
        <4>1. committed'[p] = committed[p] \/ (p = cur[1] /\ committed'[p] = cur[2] + 1)
          BY <1>0, <1>m, <2>1 DEF TypeOK
        <4>2. CASE committed'[p] = committed[p]
          BY <2>4, <4>2
        <4>3. CASE p = cur[1] /\ committed'[p] = cur[2] + 1
          BY <1>m, <2>1, <2>3, <4>3
        <4>4. QED
          BY <4>1, <4>2, <4>3
      <3>2. QED
        BY <3>1 DEF CommittedIsTried, Tried
    <2>6. ReadIsTried'
      <3> SUFFICES ASSUME NEW p \in Partitions, NEW o \in 0 .. position[p] - 1 PROVE Tried(<<p, o>>)'
        BY <2>1 DEF ReadIsTried
      <3>1. o \in 0 .. MaxLog - 1
        BY <1>c
      <3>2. QED
        BY <1>r, <2>2, <3>1
    <2>7. QED
      BY <1>0, <2>1, <2>5, <2>6 DEF DeliveryInv, InHandIsNext
  <1>6. ASSUME NEW p \in Partitions, Fetch(p) PROVE DeliveryInv'
    <2>1. /\ UNCHANGED <<committed, sendFails, handled, dlq, forced, waived, skipped>>
          /\ pc = "fetch" /\ pc' = "handle" /\ cur' = <<p, position[p]>> /\ cur = NoMessage
          /\ position' = [position EXCEPT ![p] = @ + 1]
      BY <1>0, <1>6 DEF Fetch, kafkaVars, history, TypeOK
    <2>2. \A q \in Partitions : \A o \in 0 .. position[q] - 1 : Tried(<<q, o>>)'
      BY <1>r, <2>1 DEF NoMessage
    <2>3. CommittedIsTried'
      BY <2>1, <1>c, <1>p, <1>k DEF CommittedIsTried, Tried
    <2>4. ReadIsTried'
      <3> SUFFICES ASSUME NEW q \in Partitions, NEW o \in 0 .. position'[q] - 1
                   PROVE Tried(<<q, o>>)' \/ <<p, position[p]>> = <<q, o>>
        BY <2>1 DEF ReadIsTried
      <3>1. o \in 0 .. position[q] - 1 \/ (p = q /\ o = position[p])
        <4>1. position'[q] = (IF q = p THEN position[p] + 1 ELSE position[q]) /\ position[q] \in Nat /\ position[p] \in Nat
          BY <1>0, <2>1 DEF TypeOK
        <4>2. QED
          BY <4>1
      <3>2. QED
        BY <2>2, <3>1
    <2>5. InHandIsNext'
      BY <2>1, <2>2 DEF InHandIsNext
    <2>6. QED
      BY <1>0, <2>3, <2>4, <2>5 DEF DeliveryInv
  (* A reader starts at the group's offset, at the first message, or past  *)
  (* what it is wired to skip.                                             *)
  <1>7. ASSUME Reset PROVE CommittedIsTried' /\ \A p \in Partitions : \A o \in 0 .. position'[p] - 1 : Tried(<<p, o>>)'
    <2>1. /\ UNCHANGED committed /\ position' = [p \in Partitions |-> StartPosition(p)]
          /\ \A m \in Messages : ~config.startAtFirst /\ committed[m[1]] = Nothing /\ m[2] < Len(log[m[1]])
                => m \in skipped'
      BY <1>7 DEF Reset, kafkaVars
    <2>2. CommittedIsTried'
      BY <2>1, <1>c, <1>p, <1>k DEF CommittedIsTried, Tried
    <2>3. ASSUME NEW p \in Partitions, NEW o \in 0 .. position'[p] - 1 PROVE Tried(<<p, o>>)'
      <3>1. position'[p] = StartPosition(p)
        BY <2>1
      <3>2. CASE committed[p] # Nothing
        BY <1>c, <1>p, <1>k, <3>1, <3>2, <2>3 DEF StartPosition
      <3>3. CASE committed[p] = Nothing /\ ~config.startAtFirst
        <4>1. Len(log[p]) \in -1 .. MaxLog /\ o \in 0 .. Len(log[p]) - 1
          BY <1>0, <2>3, <3>1, <3>3 DEF StartPosition, TypeOK
        <4>2. <<p, o>> \in Messages
          BY <4>1, BelowIsMessage
        <4>3. <<p, o>> \in skipped'
          BY <2>1, <3>3, <4>1, <4>2
        <4>4. QED
          BY <4>3 DEF Tried, Settled
      <3>4. CASE committed[p] = Nothing /\ config.startAtFirst
        BY <2>3, <3>1, <3>4 DEF StartPosition
      <3>5. QED
        BY <3>2, <3>3, <3>4
    <2>4. QED
      BY <2>2, <2>3
  <1>8. CASE Rebalance
    <2>1. UNCHANGED <<pc, cur>>
      BY <1>8 DEF Rebalance
    <2>2. pc # "fetch" => \A o \in 0 .. cur'[2] - 1 : Tried(<<cur[1], o>>)'
      BY <1>h, <1>m, <2>1
    <2>4. InHandIsNext'
      BY <1>m, <1>t, <2>1, <2>2 DEF InHandIsNext
    <2>3. QED
      BY <1>0, <1>7, <1>8, <2>4 DEF DeliveryInv, ReadIsTried, Rebalance
  <1>9. CASE Restart
    BY <1>0, <1>7, <1>9 DEF DeliveryInv, ReadIsTried, InHandIsNext, Restart
  <1>10. QED
    BY <1>2, <1>3, <1>4, <1>5, <1>6, <1>8, <1>9 DEF Next, Consume

(* However deliveries, retries, failed commits, restarts and rebalances    *)
(* follow each other, Commit moves the group's offset only past messages   *)
(* that were handled, dead-lettered, announced as given up, or whose       *)
(* dead-letter write failed.                                               *)
THEOREM DeliveredAtLeastOnce == Spec => []CommittedIsTried
  <1>1. Init => DeliveryInv
    BY TypeInit, DeliveryInit DEF DeliveryInv
  <1>2. DeliveryInv => CommittedIsTried
    BY DEF DeliveryInv
  <1>3. QED
    BY <1>1, <1>2, DeliveryStep, PTL DEF Spec

-----------------------------------------------------------------------------
(***************************************************************************)
(* Poison pills.                                                           *)
(***************************************************************************)

(* A failed write is one more element of the failures at its offset, and   *)
(* none at another.                                                        *)
LEMMA OneMoreFailure ==
  ASSUME TypeOK, NEW p \in Partitions, NEW o \in Offsets, FailuresFinite,
         sendFails' = [sendFails EXCEPT ![<<p, o>>] = @ + 1]
  PROVE /\ FailuresFinite'
        /\ \A x \in Offsets : Cardinality(FailedAt(x)') >= Cardinality(FailedAt(x))
        /\ Cardinality(FailedAt(o)') = Cardinality(FailedAt(o)) + 1
  <1>1. ASSUME NEW x \in Offsets, x # o PROVE FailedAt(x)' = FailedAt(x)
    <2>1. \A q \in Partitions : <<q, x>> # <<p, o>> /\ sendFails'[<<q, x>>] = sendFails[<<q, x>>]
      BY <1>1 DEF TypeOK, Messages
    <2>2. QED
      BY <2>1 DEF FailedAt
  <1>2. \A q \in Partitions : <<q, o>> \in Messages /\ sendFails[<<q, o>>] \in Nat
    BY DEF TypeOK, Messages
  <1>3. \A q \in Partitions :
          sendFails'[<<q, o>>] = IF q = p THEN sendFails[<<q, o>>] + 1 ELSE sendFails[<<q, o>>]
    BY <1>2 DEF TypeOK
  <1> DEFINE new == <<p, sendFails[<<p, o>>] + 1>>
  <1>4. FailedAt(o)' = FailedAt(o) \cup {new}
    <2>1. ASSUME NEW f PROVE f \in FailedAt(o) <=> \E q \in Partitions : f \in {q} \X (1 .. sendFails[<<q, o>>])
      BY DEF FailedAt
    <2>2. ASSUME NEW f PROVE f \in FailedAt(o)' <=> \E q \in Partitions : f \in {q} \X (1 .. sendFails'[<<q, o>>])
      BY DEF FailedAt
    <2>3. \A q \in Partitions : q # p => {q} \X (1 .. sendFails'[<<q, o>>]) = {q} \X (1 .. sendFails[<<q, o>>])
      BY <1>3
    <2>4. {p} \X (1 .. sendFails'[<<p, o>>]) = ({p} \X (1 .. sendFails[<<p, o>>])) \cup {new}
      BY <1>2, <1>3
    <2>5. QED
      BY <2>1, <2>2, <2>3, <2>4
  <1>5. new \notin FailedAt(o)
    <2>1. \A q \in Partitions : new \notin {q} \X (1 .. sendFails[<<q, o>>])
      BY <1>2
    <2>2. QED
      BY <2>1 DEF FailedAt
  <1>6. /\ IsFiniteSet(FailedAt(o)')
        /\ Cardinality(FailedAt(o)') = Cardinality(FailedAt(o)) + 1
    BY <1>4, <1>5, FS_AddElement DEF FailuresFinite
  <1>7. \A x \in Offsets : Cardinality(FailedAt(x)) \in Nat
    BY FS_CardinalityType DEF FailuresFinite
  <1>8. QED
    BY <1>1, <1>6, <1>7 DEF FailuresFinite

(* Every step keeps the counter honest.                                    *)
LEMMA PoisonStep == PoisonInv /\ [Next]_vars => PoisonInv'
  <1> SUFFICES ASSUME PoisonInv, [Next]_vars PROVE PoisonInv'
    OBVIOUS
  <1>0. TypeOK /\ TypeOK'
    BY TypeStep DEF PoisonInv
  <1>n. \A o \in Offsets : Cardinality(FailedAt(o)) \in Nat
    BY FS_CardinalityType DEF PoisonInv, FailuresFinite
  <1>c. config' = config /\ config.maxDLQFails \in Nat
    BY <1>0 DEF Next, vars, TypeOK
  <1>1. CASE DLQFails
    <2>1. /\ pc = "dlq" /\ lastFailOffset' = cur[2]
          /\ sendFails' = [sendFails EXCEPT ![cur] = @ + 1]
          /\ \/ Exhausted /\ dlqFailCount' = 0 /\ forced' = forced \cup {cur}
             \/ ~Exhausted /\ dlqFailCount' = FailCount /\ forced' = forced
      BY <1>1 DEF DLQFails
    <2>2. PICK p \in Partitions, o \in Offsets : cur = <<p, o>>
      BY <1>0, <2>1, MessageParts DEF Offsets
    <2>3. /\ FailuresFinite'
          /\ \A x \in Offsets : Cardinality(FailedAt(x)') >= Cardinality(FailedAt(x))
          /\ Cardinality(FailedAt(o)') = Cardinality(FailedAt(o)) + 1
      BY <1>0, <2>1, <2>2, OneMoreFailure DEF PoisonInv
    <2>4. FailCount <= Cardinality(FailedAt(o)')
      <3>1. CASE o = lastFailOffset /\ dlqFailCount > 0
        BY <1>0, <1>n, <2>2, <2>3, <3>1 DEF FailCount, PoisonInv, CounterIsReal, TypeOK
      <3>2. CASE ~(o = lastFailOffset /\ dlqFailCount > 0)
        BY <1>0, <1>n, <2>2, <2>3, <3>2 DEF FailCount, TypeOK
      <3>3. QED
        BY <3>1, <3>2
    <2>5. \A x \in Offsets : Cardinality(FailedAt(x)') \in Nat
      BY <2>3, FS_CardinalityType DEF FailuresFinite
    <2>6. CounterIsReal'
      BY <2>1, <2>2, <2>4 DEF CounterIsReal
    <2>7. ASSUME NEW m \in forced' PROVE Cardinality(FailedAt(m[2])') >= config.maxDLQFails
      <3>1. CASE m \in forced
        <4>1. m[2] \in Offsets /\ Cardinality(FailedAt(m[2])) >= config.maxDLQFails
          BY <1>0, <3>1 DEF PoisonInv, ForceIsEarned, TypeOK, Messages
        <4>2. QED
          BY <1>c, <1>n, <2>3, <2>5, <4>1
      <3>2. CASE m \notin forced
        <4>1. m = cur /\ FailCount >= config.maxDLQFails /\ FailCount \in Nat
          BY <1>0, <2>1, <2>7, <3>2 DEF Exhausted, FailCount, TypeOK
        <4>2. QED
          BY <1>c, <2>2, <2>4, <2>5, <4>1
      <3>3. QED
        BY <3>1, <3>2
    <2>8. ForceIsEarned'
      BY <1>c, <2>7 DEF ForceIsEarned
    <2>9. QED
      BY <1>0, <2>3, <2>6, <2>8 DEF PoisonInv
  (* No other step writes a dead letter in vain or forces a commit.        *)
  <1>2. CASE ~DLQFails
    <2>1. /\ UNCHANGED <<sendFails, forced>>
          /\ UNCHANGED <<dlqFailCount, lastFailOffset>> \/ dlqFailCount' = 0
      BY <1>2 DEF Next, Consume, Produce, Fetch, HandlerOk, HandlerFails, DLQSend, Commit, Rebalance,
                  Restart, Reset, vars, history
    <2>2. \A o : FailedAt(o)' = FailedAt(o)
      BY <2>1 DEF FailedAt
    <2>3. QED
      BY <1>0, <1>c, <2>1, <2>2 DEF PoisonInv, FailuresFinite, CounterIsReal, ForceIsEarned
  <1>3. QED
    BY <1>1, <1>2

LEMMA PoisonInit == Init => PoisonInv
  <1> SUFFICES ASSUME Init PROVE PoisonInv
    OBVIOUS
  <1>1. ASSUME NEW o \in Offsets PROVE FailedAt(o) = {}
    <2>1. \A p \in Partitions : sendFails[<<p, o>>] = 0
      BY DEF Init, Messages
    <2>2. \A p \in Partitions : {p} \X (1 .. sendFails[<<p, o>>]) = {}
      BY <2>1
    <2>3. QED
      BY <2>2 DEF FailedAt
  <1>2. FailuresFinite
    BY <1>1, FS_EmptySet DEF FailuresFinite
  <1>3. QED
    BY <1>2, TypeInit DEF Init, PoisonInv, CounterIsReal, ForceIsEarned

(* DLQFails commits a poison pill by force only after maxDLQFails failed   *)
(* writes at its offset: the reset of the counter on another offset, and   *)
(* its loss in a restart, only make that later.                            *)
THEOREM ForcedLate == Spec => []ForceIsEarned
  <1>1. PoisonInv => ForceIsEarned
    BY DEF PoisonInv
  <1>2. QED
    BY <1>1, PoisonInit, PoisonStep, PTL DEF Spec
=============================================================================
