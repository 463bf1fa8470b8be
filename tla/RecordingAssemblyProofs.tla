---------------------- MODULE RecordingAssemblyProofs ----------------------
(***************************************************************************)
(* Theorems about RecordingAssembly.                                       *)
(***************************************************************************)
EXTENDS RecordingAssembly, TLAPS

USE ConstantsAssumption
USE DEF Streams, Consumers, Runners, RegisterOrGetUpload, MarkUploadComplete,
        AddSegment, SetComplete, PublishState, Due, dueVars

(* Each part of TypeOK depends on one group of variables only.             *)
LEMMA CountersFrame == CountersOK /\ UNCHANGED counters => CountersOK'
  BY DEF CountersOK, counters, Times, PendingEntry
(* The same for the desktop requests.                                      *)
LEMMA DesktopFrame == DesktopOK /\ UNCHANGED desktopVars => DesktopOK'
  BY DEF DesktopOK, desktopVars, Times, PendingEntry
(* The same for the peers.                                                 *)
LEMMA PeerFrame == PeerOK /\ UNCHANGED peerVars => PeerOK'
  BY DEF PeerOK, peerVars, Times, PendingEntry
(* The same for the segment registry and due-set.                          *)
LEMMA RedisFrame == RedisOK /\ UNCHANGED redisVars => RedisOK'
  BY DEF RedisOK, redisVars, Times, PendingEntry
(* The same for the topics and dead letters.                               *)
LEMMA KafkaFrame == KafkaOK /\ UNCHANGED kafkaVars => KafkaOK'
  BY DEF KafkaOK, kafkaVars, Times, PendingEntry
(* The same for the runners.                                               *)
LEMMA RunnersFrame == RunnersOK /\ UNCHANGED runnerVars => RunnersOK'
  BY DEF RunnersOK, runnerVars, Times, PendingEntry
(* The same for the recordings and reports.                                *)
LEMMA ResultsFrame == ResultsOK /\ UNCHANGED resultVars => ResultsOK'
  BY DEF ResultsOK, resultVars, Times, PendingEntry

(* What the provers need to know of the two queue operations.              *)
LEMMA AppendFacts ==
  ASSUME NEW S, NEW q \in Seq(S), NEW s \in S
  PROVE /\ Append(q, s) \in Seq(S)
        /\ Len(Append(q, s)) = Len(q) + 1
        /\ \A i \in 1 .. Len(q) : Append(q, s)[i] = q[i]
        /\ Append(q, s)[Len(q) + 1] = s
  OBVIOUS

(* The remaining messages after a commit.                                  *)
LEMMA TailFacts ==
  ASSUME NEW S, NEW q \in Seq(S), q # <<>>
  PROVE /\ Tail(q) \in Seq(S)
        /\ Len(q) \in Nat \ {0}
        /\ Len(Tail(q)) = Len(q) - 1
        /\ \A i \in 1 .. Len(q) - 1 : Tail(q)[i] = q[i + 1]
  OBVIOUS

(* The message a consumer fetches.                                         *)
LEMMA HeadFacts ==
  ASSUME NEW S, NEW q \in Seq(S), q # <<>>
  PROVE Head(q) = q[1] /\ q[1] \in S
  OBVIOUS

(***************************************************************************)
(* The inductive invariant.  NoOrphan alone is not inductive: that a       *)
(* message may be committed depends on what its handler achieved, which    *)
(* depends on who else holds the stream.                                   *)
(***************************************************************************)

(* A consumer works on the first message of its own topic.                 *)
ConsumersOK ==
    /\ topic["assembler"] \in Seq(WebRTC) /\ topic["recordingAssembler"] \in Seq(Desktop)
    /\ \A c \in Consumers : pc[c] # "idle" => topic[c] # <<>> /\ cur[c] = topic[c][1]
    /\ pc["recordingAssembler"] # "ended" /\ pc["watchdog"] \notin {"ended", "commit"}
    /\ \A c \in Consumers : pc[c] # "drop"

(* Every stream being assembled is claimed, by one runner only.            *)
ClaimsOK ==
    /\ \A r \in Runners : pc[r] \in Holding => cur[r] \in inFlight
    /\ \A q, r \in Runners :
          q # r /\ pc[q] \in Holding /\ pc[r] \in Holding => cur[q] # cur[r]

(* Nothing more is owed to the stream, or it fell into the yield gap.      *)
Settled(s) == recording[s] # {} \/ s \in dlq \cup lost \cup gaveUp \cup yielded

(* What a runner knows at each point of AssembleRequested.                 *)
WorkOK ==
    \A r \in Runners :
        /\ pc[r] \in {"sem", "check", "build"} => metas[r] # {}
        /\ pc[r] = "build" => recording[cur[r]] = {}
        /\ pc[r] = "publish" => recording[cur[r]] # {}
        /\ pc[r] = "ok" => Settled(cur[r])

(* A stream may be left to the due-set, unless the watchdog removed its    *)
(* entry as that of an empty stream.                                       *)
LeftToWatchdog(s) == pending[s] # NotPending \/ s \in forgotten

(* An entrusted stream is queued, settled or left to the due-set; a        *)
(* message about to be committed is not its stream's last hope; and what   *)
(* /complete has published is queued or settled when it disarms.           *)
HandOverOK ==
    /\ \A s \in entrusted : InTopic(s) \/ Settled(s) \/ LeftToWatchdog(s)
    /\ \A c \in Consumers : pc[c] = "commit" =>
          Settled(cur[c]) \/ (cur[c] \in WebRTC /\ LeftToWatchdog(cur[c]))
    /\ \A s \in Desktop : completing[s] = "queued" => InTopic(s) \/ Settled(s)

IInv == TypeOK /\ ConsumersOK /\ ClaimsOK /\ WorkOK /\ HandOverOK /\ ReadyHasRecording

(* The initial state is well typed.                                        *)
LEMMA TypeInit == Init => TypeOK
  BY DEF Init, TypeOK, CountersOK, DesktopOK, PeerOK, RedisOK, KafkaOK, RunnersOK, ResultsOK,
         Times, NoSession, RunnerPC, Holding

(* Every step preserves the types, one action at a time; Commit needs to   *)
(* know that the queue it shortens is not empty.                           *)
LEMMA TypeNext == TypeOK /\ ConsumersOK /\ [Next]_vars => TypeOK'
  <1> SUFFICES ASSUME TypeOK, ConsumersOK, [Next]_vars PROVE TypeOK'
    OBVIOUS
  <1> USE DEF TypeOK
  <1>1. ASSUME NEW s \in Desktop, NEW e \in Expiries, CreateSession(s, e) PROVE TypeOK'
    BY <1>1, CountersFrame, PeerFrame, RedisFrame, KafkaFrame, RunnersFrame, ResultsFrame
       DEF CreateSession, DesktopOK, desktopVars
  <1>2. ASSUME NEW s \in Desktop, NEW e \in Expiries, ArmWatchdog(s, e) PROVE TypeOK'
    BY <1>2, PeerFrame, KafkaFrame, RunnersFrame
       DEF ArmWatchdog, OrFault, Schedule, Cap, Ok, Fault, CountersOK, counters, DesktopOK,
           desktopVars, RedisOK, redisVars, ResultsOK, resultVars, Times, PendingEntry
  <1>3. ASSUME NEW s \in Desktop, NEW q \in Seqs, UploadAdmit(s, q) PROVE TypeOK'
    BY <1>3, CountersFrame, PeerFrame, RedisFrame, KafkaFrame, RunnersFrame, ResultsFrame
       DEF UploadAdmit, DesktopOK, desktopVars
  <1>4. ASSUME NEW s \in Desktop, NEW q \in Seqs, UploadRegister(s, q) PROVE TypeOK'
    BY <1>4, PeerFrame, KafkaFrame, RunnersFrame, ResultsFrame
       DEF UploadRegister, Ok, Fault, CountersOK, counters, DesktopOK, desktopVars, RedisOK,
           redisVars, Times, PendingEntry
  <1>5. ASSUME NEW s \in Desktop, MarkComplete(s) PROVE TypeOK'
    <2>1. CountersOK'
      BY <1>5 DEF MarkComplete, Ok, Fault, CountersOK, Times
    <2>2. DesktopOK'
      BY <1>5 DEF MarkComplete, Ok, Fault, DesktopOK
    <2>3. RedisOK'
      BY <1>5 DEF MarkComplete, Ok, Fault, RedisOK, PendingEntry, Times
    <2>4. QED
      BY <1>5, <2>1, <2>2, <2>3, PeerFrame, KafkaFrame, RunnersFrame, ResultsFrame
         DEF MarkComplete
  <1>6. ASSUME NEW s \in Desktop, RequestAssembly(s) PROVE TypeOK'
    <2>1. CountersOK'
      BY <1>6 DEF RequestAssembly, Ok, Fault, CountersOK, Times
    <2>2. DesktopOK'
      BY <1>6 DEF RequestAssembly, Ok, Fault, DesktopOK
    <2>3. KafkaOK'
      <3>1. Append(topic["recordingAssembler"], s) \in Seq(Streams)
        BY AppendFacts DEF KafkaOK
      <3>2. QED
        BY <1>6, <3>1 DEF RequestAssembly, Ok, Fault, KafkaOK
    <2>4. RedisOK'
      BY <1>6 DEF RequestAssembly, RedisOK, PendingEntry, Times
    <2>5. QED
      BY <1>6, <2>1, <2>2, <2>3, <2>4, PeerFrame, RunnersFrame, ResultsFrame
         DEF RequestAssembly
  <1>7. ASSUME NEW s \in Desktop, CompleteDisarm(s) PROVE TypeOK'
    BY <1>7, PeerFrame, KafkaFrame, RunnersFrame, ResultsFrame
       DEF CompleteDisarm, OrFault, Cancel, Ok, Fault, CountersOK, counters, DesktopOK,
           desktopVars, RedisOK, redisVars, Times, PendingEntry
  <1>8. ASSUME NEW s \in WebRTC, Connect(s) PROVE TypeOK'
    BY <1>8, DesktopFrame, KafkaFrame, RunnersFrame, ResultsFrame
       DEF Connect, OrFault, Schedule, Cap, Later, Ok, Fault, CountersOK, counters, PeerOK,
           peerVars, RedisOK, redisVars, Times, PendingEntry
  <1>9. ASSUME NEW s \in WebRTC, NEW q \in Seqs, CaptureSegment(s, q) PROVE TypeOK'
    <2>1. CountersOK'
      BY <1>9 DEF CaptureSegment, Ok, Fault, CountersOK, Times
    <2>2. PeerOK'
      <3>1. CASE UNCHANGED incomplete
        BY <1>9, <3>1 DEF CaptureSegment, PeerOK
      <3>2. CASE incomplete' = [incomplete EXCEPT ![s] = TRUE] /\ UNCHANGED stored
        BY <1>9, <3>2 DEF CaptureSegment, PeerOK
      <3>3. QED
        BY <1>9, <3>1, <3>2 DEF CaptureSegment
    <2>3. QED
      BY <1>9, <2>1, <2>2, DesktopFrame, RedisFrame, KafkaFrame, RunnersFrame, ResultsFrame
         DEF CaptureSegment
  <1>10. ASSUME NEW s \in WebRTC, PeerClose(s) PROVE TypeOK'
    BY <1>10, CountersFrame, DesktopFrame, RedisFrame, KafkaFrame, RunnersFrame, ResultsFrame
       DEF PeerClose, PeerOK, peerVars
  <1>11. ASSUME NEW s \in WebRTC, NEW q \in Seqs, PeerRegister(s, q) PROVE TypeOK'
    <2>1. CountersOK'
      BY <1>11 DEF PeerRegister, Ok, Fault, CountersOK, Times
    <2>2. PeerOK'
      BY <1>11 DEF PeerRegister, Ok, Fault, PeerOK
    <2>3. RedisOK'
      BY <1>11 DEF PeerRegister, Ok, Fault, RedisOK, PendingEntry, Times
    <2>4. QED
      BY <1>11, <2>1, <2>2, <2>3, DesktopFrame, KafkaFrame, RunnersFrame, ResultsFrame
         DEF PeerRegister
  <1>12. ASSUME NEW s \in WebRTC, NEW dropped \in BOOLEAN, PeerMarkComplete(s, dropped)
         PROVE TypeOK'
    <2>1. CountersOK'
      BY <1>12 DEF PeerMarkComplete, Ok, Fault, CountersOK, Times
    <2>2. PeerOK'
      BY <1>12 DEF PeerMarkComplete, Ok, Fault, PeerOK
    <2>3. RedisOK'
      BY <1>12 DEF PeerMarkComplete, Ok, Fault, RedisOK, PendingEntry, Times
    <2>4. QED
      BY <1>12, <2>1, <2>2, <2>3, DesktopFrame, KafkaFrame, RunnersFrame, ResultsFrame
         DEF PeerMarkComplete
  <1>13. ASSUME NEW s \in WebRTC, PeerEnded(s) PROVE TypeOK'
    <2>1. CountersOK'
      BY <1>13 DEF PeerEnded, Ok, Fault, CountersOK, Times
    <2>2. PeerOK'
      BY <1>13 DEF PeerEnded, Ok, Fault, PeerOK
    <2>3. KafkaOK'
      <3>1. Append(topic["assembler"], s) \in Seq(Streams)
        BY AppendFacts DEF KafkaOK
      <3>2. QED
        BY <1>13, <3>1 DEF PeerEnded, Ok, Fault, KafkaOK
    <2>4. RedisOK'
      BY <1>13 DEF PeerEnded, RedisOK, PendingEntry, Times
    <2>5. QED
      BY <1>13, <2>1, <2>2, <2>3, <2>4, DesktopFrame, RunnersFrame, ResultsFrame
         DEF PeerEnded
  <1>14. ASSUME NEW r \in Runners, Claim(r) PROVE TypeOK'
    BY <1>14, CountersFrame, DesktopFrame, PeerFrame, RedisFrame, KafkaFrame
       DEF Claim, Step, RunnersOK, runnerVars, ResultsOK, resultVars, RunnerPC, Holding
  <1>15. ASSUME NEW r \in Runners, ListSegments(r) PROVE TypeOK'
    BY <1>15, DesktopFrame, PeerFrame, KafkaFrame, ResultsFrame
       DEF ListSegments, Step, Release, Ok, Fault, CountersOK, counters, RunnersOK, runnerVars,
           RedisOK, redisVars, Times, RunnerPC, Holding, PendingEntry
  <1>16. ASSUME NEW r \in Runners, AcquireSlot(r) PROVE TypeOK'
    BY <1>16, CountersFrame, DesktopFrame, PeerFrame, RedisFrame, KafkaFrame, ResultsFrame
       DEF AcquireSlot, Step, RunnersOK, runnerVars, RunnerPC, Holding
  <1>17. ASSUME NEW r \in Runners, CheckExisting(r) PROVE TypeOK'
    BY <1>17, DesktopFrame, PeerFrame, RedisFrame, KafkaFrame, ResultsFrame
       DEF CheckExisting, Step, Release, Ok, Fault, CountersOK, counters, RunnersOK, runnerVars,
           Times, RunnerPC, Holding
  <1>18. ASSUME NEW r \in Runners, BuildRecording(r) PROVE TypeOK'
    BY <1>18, DesktopFrame, PeerFrame, RedisFrame, KafkaFrame
       DEF BuildRecording, Step, Release, Ok, Fault, CountersOK, counters, RunnersOK,
           runnerVars, ResultsOK, resultVars, Times, RunnerPC, Holding
  <1>19. ASSUME NEW r \in Runners, PublishReady(r) PROVE TypeOK'
    BY <1>19, DesktopFrame, PeerFrame, RedisFrame, KafkaFrame
       DEF PublishReady, Step, Release, Ok, Fault, CountersOK, counters, RunnersOK, runnerVars,
           ResultsOK, resultVars, Times, RunnerPC, Holding
  <1>20. ASSUME NEW r \in Runners, PublishFailed(r) PROVE TypeOK'
    BY <1>20, DesktopFrame, PeerFrame, RedisFrame, KafkaFrame
       DEF PublishFailed, Step, Ok, Fault, CountersOK, counters, RunnersOK, runnerVars,
           ResultsOK, resultVars, Times, RunnerPC, Holding
  <1>21. ASSUME NEW c \in Consumers, Fetch(c) PROVE TypeOK'
    BY <1>21, CountersFrame, DesktopFrame, PeerFrame, RedisFrame, ResultsFrame
       DEF Fetch, Step, Entry, RunnersOK, runnerVars, KafkaOK, kafkaVars, RunnerPC, Holding
  <1>22. ASSUME NEW c \in Consumers, Commit(c) PROVE TypeOK'
    <2>1. RunnersOK'
      BY <1>22 DEF Commit, Step, RunnersOK, RunnerPC, Holding
    <2>2. KafkaOK'
      BY <1>22, TailFacts DEF Commit, Step, KafkaOK, ConsumersOK
    <2>3. QED
      BY <1>22, <2>1, <2>2, CountersFrame, DesktopFrame, PeerFrame, RedisFrame, ResultsFrame
         DEF Commit
  <1>23. ASSUME NEW c \in Consumers, HandlerFailed(c) PROVE TypeOK'
    BY <1>23, DesktopFrame, PeerFrame, RedisFrame, ResultsFrame
       DEF HandlerFailed, Step, Entry, Ok, Fault, CountersOK, counters, RunnersOK, runnerVars,
           KafkaOK, kafkaVars, Times, RunnerPC, Holding
  <1>24. CASE OnStreamEnded
    BY <1>24, DesktopFrame, PeerFrame, KafkaFrame, ResultsFrame
       DEF OnStreamEnded, Step, Schedule, Cap, Ok, Fault, CountersOK, counters, RunnersOK,
           runnerVars, RedisOK, redisVars, Times, RunnerPC, Holding, PendingEntry
  <1>25. CASE DisarmWatchdog
    BY <1>25, DesktopFrame, PeerFrame, KafkaFrame, ResultsFrame
       DEF DisarmWatchdog, Step, OrFault, Cancel, Ok, Fault, CountersOK, counters, RunnersOK,
           runnerVars, RedisOK, redisVars, Times, RunnerPC, Holding, PendingEntry
  <1>26. CASE RequestDone
    BY <1>26, CountersFrame, DesktopFrame, PeerFrame, RedisFrame, KafkaFrame, ResultsFrame
       DEF RequestDone, Step, RunnersOK, runnerVars, RunnerPC, Holding
  <1>27. CASE Sweep
    BY <1>27, CountersFrame, DesktopFrame, PeerFrame, KafkaFrame, ResultsFrame
       DEF Sweep, RunnersOK, runnerVars, RedisOK, redisVars, RunnerPC, Holding, PendingEntry,
           Times
  <1>28. ASSUME NEW e \in batch, Handle(e) PROVE TypeOK'
    BY <1>28, DesktopFrame, PeerFrame, KafkaFrame, ResultsFrame
       DEF Handle, Step, OrFault, Cancel, Ok, Fault, CountersOK, counters, RunnersOK,
           runnerVars, RedisOK, redisVars, Times, RunnerPC, Holding, PendingEntry
  <1>281. CASE DropEmpty
    BY <1>281, DesktopFrame, PeerFrame, KafkaFrame, ResultsFrame
       DEF DropEmpty, Step, WatchdogIdle, Ok, Fault, CountersOK, counters,
           RunnersOK, runnerVars, RedisOK, redisVars, Times, RunnerPC, Holding, PendingEntry
  <1>29. CASE WatchdogDone
    BY <1>29, DesktopFrame, PeerFrame, KafkaFrame, ResultsFrame
       DEF WatchdogDone, Step, WatchdogIdle, OrFault, Cancel, Ok, Fault, CountersOK, counters,
           RunnersOK, runnerVars, RedisOK, redisVars, Times, RunnerPC, Holding, PendingEntry
  <1>30. CASE WatchdogFailed
    BY <1>30, DesktopFrame, PeerFrame, KafkaFrame
       DEF WatchdogFailed, Step, WatchdogIdle, OrFault, Schedule, Cancel, Cap, Ok, Fault,
           CountersOK, counters, RunnersOK, runnerVars, RedisOK, redisVars, ResultsOK,
           resultVars, Times, RunnerPC, Holding, PendingEntry
  <1>31. CASE Tick
    BY <1>31, DesktopFrame, PeerFrame, RedisFrame, KafkaFrame, RunnersFrame, ResultsFrame
       DEF Tick, CountersOK, counters, Times
  <1>32. CASE Crash
    BY <1>32, RedisFrame, KafkaFrame, ResultsFrame
       DEF Crash, CountersOK, counters, DesktopOK, desktopVars, PeerOK, peerVars, RunnersOK,
           runnerVars, Times, RunnerPC, Holding
  <1>33. CASE UNCHANGED vars
    BY <1>33, CountersFrame, DesktopFrame, PeerFrame, RedisFrame, KafkaFrame, RunnersFrame,
       ResultsFrame
       DEF vars
  <1>34. QED
    BY <1>1, <1>2, <1>3, <1>4, <1>5, <1>6, <1>7, <1>8, <1>9, <1>10, <1>11, <1>12, <1>13, <1>14,
       <1>15, <1>16, <1>17, <1>18, <1>19, <1>20, <1>21, <1>22, <1>23, <1>24, <1>25, <1>26,
       <1>27, <1>28, <1>281, <1>29, <1>30, <1>31, <1>32, <1>33
       DEF Next, DesktopStep, PeerStep, AssembleStep, ConsumerStep, WatchdogStep

-----------------------------------------------------------------------------
(* The steps that neither publish nor assemble: the requests of clients    *)
(* and peers, a sweep and the clock.                                       *)
ClientStep ==
    \/ \E s \in Desktop :
          \/ \E e \in Expiries : CreateSession(s, e) \/ ArmWatchdog(s, e)
          \/ \E q \in Seqs : UploadAdmit(s, q) \/ UploadRegister(s, q)
          \/ MarkComplete(s) \/ CompleteDisarm(s)
    \/ \E s \in WebRTC :
          \/ Connect(s) \/ PeerClose(s)
          \/ \E q \in Seqs : CaptureSegment(s, q) \/ PeerRegister(s, q)
          \/ \E dropped \in BOOLEAN : PeerMarkComplete(s, dropped)
    \/ Sweep \/ Tick

workVars == <<topic, dlq, lost, inFlight, pc, cur, metas, recording, gaveUp, yielded>>

(* Client steps leave queues, runners and recordings alone.                *)
LEMMA ClientFrame == ClientStep \/ UNCHANGED vars => UNCHANGED workVars
  <1> SUFFICES ASSUME ClientStep \/ UNCHANGED vars PROVE UNCHANGED workVars
    OBVIOUS
  <1> USE DEF workVars, counters, kafkaVars, runnerVars, resultVars
  <1>1. ASSUME NEW s \in Desktop, NEW e \in Expiries, CreateSession(s, e) PROVE UNCHANGED workVars
    BY <1>1 DEF CreateSession
  <1>2. ASSUME NEW s \in Desktop, NEW e \in Expiries, ArmWatchdog(s, e) PROVE UNCHANGED workVars
    BY <1>2 DEF ArmWatchdog
  <1>3. ASSUME NEW s \in Desktop, NEW q \in Seqs, UploadAdmit(s, q) PROVE UNCHANGED workVars
    BY <1>3 DEF UploadAdmit
  <1>4. ASSUME NEW s \in Desktop, NEW q \in Seqs, UploadRegister(s, q) PROVE UNCHANGED workVars
    BY <1>4 DEF UploadRegister
  <1>5. ASSUME NEW s \in Desktop, MarkComplete(s) PROVE UNCHANGED workVars
    BY <1>5 DEF MarkComplete
  <1>6. ASSUME NEW s \in Desktop, CompleteDisarm(s) PROVE UNCHANGED workVars
    BY <1>6 DEF CompleteDisarm
  <1>7. ASSUME NEW s \in WebRTC, Connect(s) PROVE UNCHANGED workVars
    BY <1>7 DEF Connect
  <1>8. ASSUME NEW s \in WebRTC, NEW q \in Seqs, CaptureSegment(s, q) PROVE UNCHANGED workVars
    BY <1>8 DEF CaptureSegment
  <1>9. ASSUME NEW s \in WebRTC, PeerClose(s) PROVE UNCHANGED workVars
    BY <1>9 DEF PeerClose
  <1>10. ASSUME NEW s \in WebRTC, NEW q \in Seqs, PeerRegister(s, q) PROVE UNCHANGED workVars
    BY <1>10 DEF PeerRegister
  <1>11. ASSUME NEW s \in WebRTC, NEW dropped \in BOOLEAN, PeerMarkComplete(s, dropped)
         PROVE UNCHANGED workVars
    BY <1>11 DEF PeerMarkComplete
  <1>12. CASE Sweep
    BY <1>12 DEF Sweep
  <1>13. CASE Tick
    BY <1>13 DEF Tick
  <1>14. CASE UNCHANGED vars
    BY <1>14 DEF vars
  <1>15. QED
    BY <1>1, <1>2, <1>3, <1>4, <1>5, <1>6, <1>7, <1>8, <1>9, <1>10, <1>11, <1>12, <1>13, <1>14
       DEF ClientStep

(* A consumer never loses its place in its topic.                          *)
LEMMA ConsumersNext ==
  TypeOK /\ ConsumersOK /\ [Next]_vars => ConsumersOK'
  <1> SUFFICES ASSUME TypeOK, ConsumersOK, [Next]_vars PROVE ConsumersOK'
    OBVIOUS
  <1> USE DEF ConsumersOK, TypeOK, RunnersOK, KafkaOK
  <1>1. CASE ClientStep \/ UNCHANGED vars
    BY <1>1, ClientFrame DEF workVars
  <1>2. ASSUME NEW s \in Desktop, RequestAssembly(s) PROVE ConsumersOK'
    <2> DEFINE q == topic["recordingAssembler"]
    <2>1. CASE UNCHANGED topic
      BY <1>2, <2>1 DEF RequestAssembly, runnerVars
    <2>2. CASE topic' = [topic EXCEPT !["recordingAssembler"] = Append(q, s)]
      <3>1. /\ topic'["recordingAssembler"] = Append(q, s) /\ topic'["assembler"] = topic["assembler"]
            /\ UNCHANGED <<pc, cur>>
        BY <1>2, <2>2 DEF RequestAssembly, runnerVars
      <3>2. /\ Append(q, s) \in Seq(Desktop) /\ Append(q, s) # <<>> /\ Len(q) \in Nat
            /\ q # <<>> => Append(q, s)[1] = q[1]
        <4>1. q \in Seq(Desktop)
          OBVIOUS
        <4> HIDE DEF q, ConsumersOK, TypeOK, RunnersOK, KafkaOK
        <4>2. /\ Append(q, s) \in Seq(Desktop) /\ Len(Append(q, s)) = Len(q) + 1
              /\ \A i \in 1 .. Len(q) : Append(q, s)[i] = q[i]
              /\ Append(q, s)[Len(q) + 1] = s
          BY <4>1, AppendFacts
        <4>3. Len(q) \in Nat /\ (q # <<>> => Len(q) # 0) /\ Append(q, s) # <<>>
          BY <4>1
        <4>4. QED
          BY <4>1, <4>2, <4>3
      <3>3. \A c \in Consumers : pc'[c] # "idle" => topic'[c] # <<>> /\ cur'[c] = topic'[c][1]
        BY <3>1, <3>2
      <3>4. QED
        BY <3>1, <3>2, <3>3
    <2>3. QED
      BY <1>2, <2>1, <2>2 DEF RequestAssembly
  <1>3. ASSUME NEW s \in WebRTC, PeerEnded(s) PROVE ConsumersOK'
    <2> DEFINE q == topic["assembler"]
    <2>1. CASE UNCHANGED topic
      BY <1>3, <2>1 DEF PeerEnded, runnerVars
    <2>2. CASE topic' = [topic EXCEPT !["assembler"] = Append(q, s)]
      <3>1. /\ topic'["assembler"] = Append(q, s) /\ topic'["recordingAssembler"] = topic["recordingAssembler"]
            /\ UNCHANGED <<pc, cur>>
        BY <1>3, <2>2 DEF PeerEnded, runnerVars
      <3>2. /\ Append(q, s) \in Seq(WebRTC) /\ Append(q, s) # <<>> /\ Len(q) \in Nat
            /\ q # <<>> => Append(q, s)[1] = q[1]
        <4>1. q \in Seq(WebRTC)
          OBVIOUS
        <4> HIDE DEF q, ConsumersOK, TypeOK, RunnersOK, KafkaOK
        <4>2. /\ Append(q, s) \in Seq(WebRTC) /\ Len(Append(q, s)) = Len(q) + 1
              /\ \A i \in 1 .. Len(q) : Append(q, s)[i] = q[i]
              /\ Append(q, s)[Len(q) + 1] = s
          BY <4>1, AppendFacts
        <4>3. Len(q) \in Nat /\ (q # <<>> => Len(q) # 0) /\ Append(q, s) # <<>>
          BY <4>1
        <4>4. QED
          BY <4>1, <4>2, <4>3
      <3>3. \A c \in Consumers : pc'[c] # "idle" => topic'[c] # <<>> /\ cur'[c] = topic'[c][1]
        BY <3>1, <3>2
      <3>4. QED
        BY <3>1, <3>2, <3>3
    <2>3. QED
      BY <1>3, <2>1, <2>2 DEF PeerEnded
  <1>4. ASSUME NEW r \in Runners, Claim(r) PROVE ConsumersOK'
    BY <1>4 DEF Claim, Step, kafkaVars, runnerVars
  <1>5. ASSUME NEW r \in Runners, ListSegments(r) PROVE ConsumersOK'
    BY <1>5 DEF ListSegments, Step, Release, Ok, Fault, kafkaVars, runnerVars
  <1>6. ASSUME NEW r \in Runners, AcquireSlot(r) PROVE ConsumersOK'
    BY <1>6 DEF AcquireSlot, Step, kafkaVars, runnerVars
  <1>7. ASSUME NEW r \in Runners, CheckExisting(r) PROVE ConsumersOK'
    BY <1>7 DEF CheckExisting, Step, Release, Ok, Fault, kafkaVars, runnerVars
  <1>8. ASSUME NEW r \in Runners, BuildRecording(r) PROVE ConsumersOK'
    BY <1>8 DEF BuildRecording, Step, Release, Ok, Fault, kafkaVars, runnerVars
  <1>9. ASSUME NEW r \in Runners, PublishReady(r) PROVE ConsumersOK'
    BY <1>9 DEF PublishReady, Step, Release, Ok, Fault, kafkaVars, runnerVars
  <1>10. ASSUME NEW r \in Runners, PublishFailed(r) PROVE ConsumersOK'
    BY <1>10 DEF PublishFailed, Step, Ok, Fault, kafkaVars, runnerVars
  <1>11. ASSUME NEW c \in Consumers, Fetch(c) PROVE ConsumersOK'
    BY <1>11, HeadFacts DEF Fetch, Step, Entry, kafkaVars, runnerVars
  <1>12. ASSUME NEW c \in Consumers, Commit(c) PROVE ConsumersOK'
    BY <1>12, TailFacts DEF Commit, Step, kafkaVars, runnerVars
  <1>13. ASSUME NEW c \in Consumers, HandlerFailed(c) PROVE ConsumersOK'
    BY <1>13 DEF HandlerFailed, Step, Entry, Ok, Fault, kafkaVars, runnerVars
  <1>14. CASE OnStreamEnded
    BY <1>14 DEF OnStreamEnded, Step, Schedule, Cap, Ok, Fault, kafkaVars, runnerVars
  <1>15. CASE DisarmWatchdog
    BY <1>15 DEF DisarmWatchdog, Step, OrFault, Cancel, Ok, Fault, kafkaVars, runnerVars
  <1>16. CASE RequestDone
    BY <1>16 DEF RequestDone, Step, kafkaVars, runnerVars
  <1>17. ASSUME NEW e \in batch, Handle(e) PROVE ConsumersOK'
    BY <1>17 DEF Handle, Step, OrFault, Cancel, Ok, Fault, kafkaVars, runnerVars
  <1>171. CASE DropEmpty
    BY <1>171 DEF DropEmpty, Step, WatchdogIdle, Ok, Fault, kafkaVars, runnerVars
  <1>18. CASE WatchdogDone
    BY <1>18
       DEF WatchdogDone, Step, WatchdogIdle, OrFault, Cancel, Ok, Fault, kafkaVars, runnerVars
  <1>19. CASE WatchdogFailed
    BY <1>19
       DEF WatchdogFailed, Step, WatchdogIdle, OrFault, Schedule, Cancel, Cap, Ok, Fault,
           kafkaVars, runnerVars
  <1>20. CASE Crash
    BY <1>20 DEF Crash, kafkaVars, runnerVars
  <1>21. QED
    BY <1>1, <1>2, <1>3, <1>4, <1>5, <1>6, <1>7, <1>8, <1>9, <1>10, <1>11, <1>12, <1>13, <1>14,
       <1>15, <1>16, <1>17, <1>171, <1>18, <1>19, <1>20
       DEF Next, DesktopStep, PeerStep, AssembleStep, ConsumerStep, WatchdogStep, ClientStep

(* Claims stay exclusive: only LoadOrStore takes one, only its holder      *)
(* releases it.                                                            *)
LEMMA ClaimsNext ==
  TypeOK /\ ClaimsOK /\ [Next]_vars => ClaimsOK'
  <1> SUFFICES ASSUME TypeOK, ClaimsOK, [Next]_vars PROVE ClaimsOK'
    OBVIOUS
  <1> USE DEF ClaimsOK, TypeOK, RunnersOK, Holding
  <1>1. CASE ClientStep \/ UNCHANGED vars
    BY <1>1, ClientFrame DEF workVars
  <1>2. ASSUME NEW s \in Desktop, RequestAssembly(s) PROVE ClaimsOK'
    BY <1>2 DEF RequestAssembly, Ok, Fault, kafkaVars, runnerVars
  <1>3. ASSUME NEW s \in WebRTC, PeerEnded(s) PROVE ClaimsOK'
    BY <1>3 DEF PeerEnded, Ok, Fault, kafkaVars, runnerVars
  <1>4. ASSUME NEW r \in Runners, Claim(r) PROVE ClaimsOK'
    BY <1>4 DEF Claim, Step, kafkaVars, runnerVars
  <1>5. ASSUME NEW r \in Runners, ListSegments(r) PROVE ClaimsOK'
    BY <1>5 DEF ListSegments, Step, Release, Ok, Fault, kafkaVars, runnerVars
  <1>6. ASSUME NEW r \in Runners, AcquireSlot(r) PROVE ClaimsOK'
    BY <1>6 DEF AcquireSlot, Step, kafkaVars, runnerVars
  <1>7. ASSUME NEW r \in Runners, CheckExisting(r) PROVE ClaimsOK'
    BY <1>7 DEF CheckExisting, Step, Release, Ok, Fault, kafkaVars, runnerVars
  <1>8. ASSUME NEW r \in Runners, BuildRecording(r) PROVE ClaimsOK'
    BY <1>8 DEF BuildRecording, Step, Release, Ok, Fault, kafkaVars, runnerVars
  <1>9. ASSUME NEW r \in Runners, PublishReady(r) PROVE ClaimsOK'
    BY <1>9 DEF PublishReady, Step, Release, Ok, Fault, kafkaVars, runnerVars
  <1>10. ASSUME NEW r \in Runners, PublishFailed(r) PROVE ClaimsOK'
    BY <1>10 DEF PublishFailed, Step, Ok, Fault, kafkaVars, runnerVars
  <1>11. ASSUME NEW c \in Consumers, Fetch(c) PROVE ClaimsOK'
    BY <1>11 DEF Fetch, Step, Entry, kafkaVars, runnerVars
  <1>12. ASSUME NEW c \in Consumers, Commit(c) PROVE ClaimsOK'
    BY <1>12 DEF Commit, Step, kafkaVars, runnerVars
  <1>13. ASSUME NEW c \in Consumers, HandlerFailed(c) PROVE ClaimsOK'
    BY <1>13 DEF HandlerFailed, Step, Entry, Ok, Fault, kafkaVars, runnerVars
  <1>14. CASE OnStreamEnded
    BY <1>14 DEF OnStreamEnded, Step, Schedule, Cap, Ok, Fault, kafkaVars, runnerVars
  <1>15. CASE DisarmWatchdog
    BY <1>15 DEF DisarmWatchdog, Step, OrFault, Cancel, Ok, Fault, kafkaVars, runnerVars
  <1>16. CASE RequestDone
    BY <1>16 DEF RequestDone, Step, kafkaVars, runnerVars
  <1>17. ASSUME NEW e \in batch, Handle(e) PROVE ClaimsOK'
    BY <1>17 DEF Handle, Step, OrFault, Cancel, Ok, Fault, kafkaVars, runnerVars
  <1>171. CASE DropEmpty
    BY <1>171 DEF DropEmpty, Step, WatchdogIdle, Ok, Fault, kafkaVars, runnerVars
  <1>18. CASE WatchdogDone
    BY <1>18
       DEF WatchdogDone, Step, WatchdogIdle, OrFault, Cancel, Ok, Fault, kafkaVars, runnerVars
  <1>19. CASE WatchdogFailed
    BY <1>19
       DEF WatchdogFailed, Step, WatchdogIdle, OrFault, Schedule, Cancel, Cap, Ok, Fault,
           kafkaVars, runnerVars
  <1>20. CASE Crash
    BY <1>20 DEF Crash, kafkaVars, runnerVars
  <1>21. QED
    BY <1>1, <1>2, <1>3, <1>4, <1>5, <1>6, <1>7, <1>8, <1>9, <1>10, <1>11, <1>12, <1>13, <1>14,
       <1>15, <1>16, <1>17, <1>171, <1>18, <1>19, <1>20
       DEF Next, DesktopStep, PeerStep, AssembleStep, ConsumerStep, WatchdogStep, ClientStep

(* What a runner knows stays true while others run: nobody else builds its *)
(* stream, and nothing un-settles one.                                     *)
LEMMA WorkNext ==
  TypeOK /\ ClaimsOK /\ WorkOK /\ [Next]_vars => WorkOK'
  <1> SUFFICES ASSUME TypeOK, ClaimsOK, WorkOK, [Next]_vars PROVE WorkOK'
    OBVIOUS
  <1> USE DEF WorkOK, Settled, TypeOK, RunnersOK, ResultsOK
  <1>1. CASE ClientStep \/ UNCHANGED vars
    BY <1>1, ClientFrame DEF workVars
  <1>2. ASSUME NEW s \in Desktop, RequestAssembly(s) PROVE WorkOK'
    BY <1>2 DEF RequestAssembly, Ok, Fault, kafkaVars, runnerVars, resultVars
  <1>3. ASSUME NEW s \in WebRTC, PeerEnded(s) PROVE WorkOK'
    BY <1>3 DEF PeerEnded, Ok, Fault, kafkaVars, runnerVars, resultVars
  <1>4. ASSUME NEW r \in Runners, Claim(r) PROVE WorkOK'
    BY <1>4 DEF Claim, Step, kafkaVars, runnerVars, resultVars
  <1>5. ASSUME NEW r \in Runners, ListSegments(r) PROVE WorkOK'
    BY <1>5 DEF ListSegments, Step, Release, Ok, Fault, kafkaVars, runnerVars, resultVars
  <1>6. ASSUME NEW r \in Runners, AcquireSlot(r) PROVE WorkOK'
    BY <1>6 DEF AcquireSlot, Step, kafkaVars, runnerVars, resultVars
  <1>7. ASSUME NEW r \in Runners, CheckExisting(r) PROVE WorkOK'
    BY <1>7 DEF CheckExisting, Step, Release, Ok, Fault, kafkaVars, runnerVars, resultVars
  <1>8. ASSUME NEW r \in Runners, BuildRecording(r) PROVE WorkOK'
    <2>1. CASE UNCHANGED recording
      BY <1>8, <2>1 DEF BuildRecording, Step, kafkaVars
    <2>2. CASE pc[r] = "build" /\ pc' = [pc EXCEPT ![r] = "publish"] /\ recording' = [recording EXCEPT ![cur[r]] = metas[r]]
      <3>1. \A q \in Runners : q # r /\ pc[q] = "build" => cur[q] # cur[r]
        BY <2>2 DEF ClaimsOK, Holding
      <3>2. cur[r] \in Streams /\ metas[r] # {}
        BY <2>2
      <3>3. QED
        BY <1>8, <2>2, <3>1, <3>2 DEF BuildRecording, kafkaVars
    <2>3. QED
      BY <1>8, <2>1, <2>2 DEF BuildRecording, Step
  <1>9. ASSUME NEW r \in Runners, PublishReady(r) PROVE WorkOK'
    BY <1>9 DEF PublishReady, Step, Release, Ok, Fault, kafkaVars, runnerVars, resultVars
  <1>10. ASSUME NEW r \in Runners, PublishFailed(r) PROVE WorkOK'
    BY <1>10 DEF PublishFailed, Step, Ok, Fault, kafkaVars, runnerVars, resultVars
  <1>11. ASSUME NEW c \in Consumers, Fetch(c) PROVE WorkOK'
    BY <1>11 DEF Fetch, Step, Entry, kafkaVars, runnerVars, resultVars
  <1>12. ASSUME NEW c \in Consumers, Commit(c) PROVE WorkOK'
    BY <1>12 DEF Commit, Step, kafkaVars, runnerVars, resultVars
  <1>13. ASSUME NEW c \in Consumers, HandlerFailed(c) PROVE WorkOK'
    BY <1>13 DEF HandlerFailed, Step, Entry, Ok, Fault, kafkaVars, runnerVars, resultVars
  <1>14. CASE OnStreamEnded
    BY <1>14 DEF OnStreamEnded, Step, Schedule, Cap, Ok, Fault, kafkaVars, runnerVars, resultVars
  <1>15. CASE DisarmWatchdog
    BY <1>15
       DEF DisarmWatchdog, Step, OrFault, Cancel, Ok, Fault, kafkaVars, runnerVars, resultVars
  <1>16. CASE RequestDone
    BY <1>16 DEF RequestDone, Step, kafkaVars, runnerVars, resultVars
  <1>17. ASSUME NEW e \in batch, Handle(e) PROVE WorkOK'
    BY <1>17 DEF Handle, Step, OrFault, Cancel, Ok, Fault, kafkaVars, runnerVars, resultVars
  <1>171. CASE DropEmpty
    BY <1>171 DEF DropEmpty, Step, WatchdogIdle, Ok, Fault, kafkaVars, runnerVars, resultVars
  <1>18. CASE WatchdogDone
    BY <1>18
       DEF WatchdogDone, Step, WatchdogIdle, OrFault, Cancel, Ok, Fault, kafkaVars, runnerVars,
           resultVars
  <1>19. CASE WatchdogFailed
    BY <1>19
       DEF WatchdogFailed, Step, WatchdogIdle, OrFault, Schedule, Cancel, Cap, Ok, Fault,
           kafkaVars, runnerVars, resultVars
  <1>20. CASE Crash
    BY <1>20 DEF Crash, kafkaVars, runnerVars, resultVars
  <1>21. QED
    BY <1>1, <1>2, <1>3, <1>4, <1>5, <1>6, <1>7, <1>8, <1>9, <1>10, <1>11, <1>12, <1>13, <1>14,
       <1>15, <1>16, <1>17, <1>171, <1>18, <1>19, <1>20
       DEF Next, DesktopStep, PeerStep, AssembleStep, ConsumerStep, WatchdogStep, ClientStep

(* A step that arms a stream leaves it to the due-set, and a client step   *)
(* takes a stream from the due-set only when /complete has published it.   *)
DueKept ==
    /\ \A s \in Streams :
          LeftToWatchdog(s) => LeftToWatchdog(s)' \/ (s \in Desktop /\ completing[s] = "queued")
    /\ \A s \in entrusted' : s \in entrusted \/ LeftToWatchdog(s)'
    /\ \A s \in Desktop : completing'[s] = "queued" => completing[s] = "queued"

(* Every client step is such a step.                                       *)
LEMMA ClientDue == TypeOK /\ (ClientStep \/ UNCHANGED vars) => DueKept
  <1> SUFFICES ASSUME TypeOK, ClientStep \/ UNCHANGED vars PROVE DueKept
    OBVIOUS
  <1> USE DEF DueKept, LeftToWatchdog, NotPending, TypeOK, DesktopOK, RedisOK, desktopVars, redisVars
  <1>1. ASSUME NEW s \in Desktop, NEW e \in Expiries, CreateSession(s, e) PROVE DueKept
    BY <1>1 DEF CreateSession
  <1>2. ASSUME NEW s \in Desktop, NEW e \in Expiries, ArmWatchdog(s, e) PROVE DueKept
    BY <1>2 DEF ArmWatchdog, OrFault, Schedule, Cap
  <1>3. ASSUME NEW s \in Desktop, NEW q \in Seqs, UploadAdmit(s, q) PROVE DueKept
    BY <1>3 DEF UploadAdmit
  <1>4. ASSUME NEW s \in Desktop, NEW q \in Seqs, UploadRegister(s, q) PROVE DueKept
    BY <1>4 DEF UploadRegister
  <1>5. ASSUME NEW s \in Desktop, MarkComplete(s) PROVE DueKept
    BY <1>5 DEF MarkComplete
  <1>6. ASSUME NEW s \in Desktop, CompleteDisarm(s) PROVE DueKept
    BY <1>6 DEF CompleteDisarm, OrFault, Cancel
  <1>7. ASSUME NEW s \in WebRTC, Connect(s) PROVE DueKept
    BY <1>7 DEF Connect, OrFault, Schedule, Cap
  <1>8. ASSUME NEW s \in WebRTC, NEW q \in Seqs, CaptureSegment(s, q) PROVE DueKept
    BY <1>8 DEF CaptureSegment
  <1>9. ASSUME NEW s \in WebRTC, PeerClose(s) PROVE DueKept
    BY <1>9 DEF PeerClose
  <1>10. ASSUME NEW s \in WebRTC, NEW q \in Seqs, PeerRegister(s, q) PROVE DueKept
    BY <1>10 DEF PeerRegister
  <1>11. ASSUME NEW s \in WebRTC, NEW dropped \in BOOLEAN, PeerMarkComplete(s, dropped) PROVE DueKept
    BY <1>11 DEF PeerMarkComplete
  <1>12. CASE Sweep
    BY <1>12 DEF Sweep
  <1>13. CASE Tick
    BY <1>13 DEF Tick
  <1>14. CASE UNCHANGED vars
    BY <1>14 DEF vars
  <1>15. QED
    BY <1>1, <1>2, <1>3, <1>4, <1>5, <1>6, <1>7, <1>8, <1>9, <1>10, <1>11, <1>12, <1>13, <1>14
       DEF ClientStep

(* Publishing keeps every queued stream queued and adds the new one.       *)
LEMMA InTopicAppend ==
  ASSUME TypeOK, NEW c \in Consumers, NEW s \in Streams,
         topic' = [topic EXCEPT ![c] = Append(@, s)],
         NEW x \in Streams, InTopic(x) \/ x = s
  PROVE InTopic(x)'
  <1> DEFINE q == topic[c]
  <1>1. /\ q \in Seq(Streams) /\ topic'[c] = Append(q, s)
        /\ \A d \in Consumers : d # c => topic'[d] = topic[d]
    BY DEF TypeOK, KafkaOK
  <1> HIDE DEF q
  <1>2. /\ Len(q) \in Nat /\ Len(Append(q, s)) = Len(q) + 1 /\ Append(q, s)[Len(q) + 1] = s
        /\ \A i \in 1 .. Len(q) : Append(q, s)[i] = q[i]
    BY <1>1, AppendFacts
  <1>3. CASE x = s
    BY <1>1, <1>2, <1>3 DEF InTopic
  <1>4. CASE InTopic(x)
    <2>1. PICK d \in Consumers : \E i \in 1 .. Len(topic[d]) : topic[d][i] = x
      BY <1>4 DEF InTopic
    <2> PICK i \in 1 .. Len(topic[d]) : topic[d][i] = x
      BY <2>1
    <2>2. i \in 1 .. Len(topic'[d]) /\ topic'[d][i] = x
      BY <1>1, <1>2, <2>1 DEF q
    <2>3. QED
      BY <2>2 DEF InTopic
  <1>5. QED
    BY <1>3, <1>4

(* A commit takes only the first message out of the queue.                 *)
LEMMA InTopicTail ==
  ASSUME TypeOK, NEW c \in Consumers, topic[c] # <<>>,
         topic' = [topic EXCEPT ![c] = Tail(@)],
         NEW x \in Streams, InTopic(x)
  PROVE InTopic(x)' \/ x = topic[c][1]
  <1> DEFINE q == topic[c]
  <1>1. /\ q \in Seq(Streams) /\ q # <<>> /\ topic'[c] = Tail(q)
        /\ \A d \in Consumers : d # c => topic'[d] = topic[d]
    BY DEF TypeOK, KafkaOK
  <1> HIDE DEF q
  <1>2. /\ Len(q) \in Nat \ {0} /\ Len(Tail(q)) = Len(q) - 1
        /\ \A i \in 1 .. Len(q) - 1 : Tail(q)[i] = q[i + 1]
    BY <1>1, TailFacts
  <1>3. PICK d \in Consumers : \E i \in 1 .. Len(topic[d]) : topic[d][i] = x
    BY DEF InTopic
  <1> PICK i \in 1 .. Len(topic[d]) : topic[d][i] = x
    BY <1>3
  <1>4. CASE d # c
    BY <1>1, <1>3, <1>4 DEF InTopic
  <1>5. CASE d = c /\ i # 1
    <2>1. i - 1 \in 1 .. Len(topic'[c]) /\ topic'[c][i - 1] = x
      <3>1. i \in 2 .. Len(q) /\ q[i] = x
        BY <1>5 DEF q
      <3>2. i - 1 \in 1 .. Len(q) - 1 /\ Tail(q)[i - 1] = q[i]
        BY <1>2, <3>1
      <3>3. QED
        BY <1>1, <1>2, <3>1, <3>2
    <2>2. QED
      BY <2>1 DEF InTopic
  <1>6. QED
    BY <1>3, <1>4, <1>5

(* HandOverOK survives a step that keeps the queues, takes from the        *)
(* due-set only what is settled or published, and commits nothing in vain. *)
LEMMA HandOverKept ==
  ASSUME TypeOK, HandOverOK, UNCHANGED topic,
         \A s \in Streams : Settled(s) => Settled(s)',
         \A s \in Streams :
             LeftToWatchdog(s) =>
                 LeftToWatchdog(s)' \/ Settled(s)' \/ (s \in Desktop /\ completing[s] = "queued"),
         \A s \in entrusted' : s \in entrusted \/ LeftToWatchdog(s)',
         \A s \in Desktop : completing'[s] = "queued" => completing[s] = "queued",
         \A c \in Consumers : pc'[c] = "commit" =>
             \/ pc[c] = "commit" /\ cur'[c] = cur[c]
             \/ Settled(cur[c])' \/ (cur'[c] \in WebRTC /\ LeftToWatchdog(cur[c])')
  PROVE HandOverOK'
  <1>1. \A s \in Streams : InTopic(s)' <=> InTopic(s)
    BY DEF InTopic
  <1>2. \A s \in Desktop : completing[s] = "queued" => InTopic(s)' \/ Settled(s)'
    BY <1>1 DEF HandOverOK
  <1>3. \A s \in entrusted' : InTopic(s)' \/ Settled(s)' \/ LeftToWatchdog(s)'
    BY <1>1, <1>2 DEF HandOverOK, TypeOK, RedisOK
  <1>4. ASSUME NEW c \in Consumers, pc'[c] = "commit"
        PROVE Settled(cur[c])' \/ (cur'[c] \in WebRTC /\ LeftToWatchdog(cur[c])')
    <2>1. CASE pc[c] = "commit" /\ cur'[c] = cur[c]
      <3>1. Settled(cur[c]) \/ (cur[c] \in WebRTC /\ LeftToWatchdog(cur[c]))
        BY <2>1 DEF HandOverOK
      <3>2. cur[c] \in Streams
        BY <2>1 DEF TypeOK, RunnersOK
      <3>3. QED
        BY <2>1, <3>1, <3>2, ConstantsAssumption DEF Settled, LeftToWatchdog
    <2>2. QED
      BY <1>4, <2>1
  <1>5. QED
    BY <1>2, <1>3, <1>4 DEF HandOverOK

(* No step drops an entrusted stream.                                      *)
LEMMA HandOverNext ==
  TypeOK /\ ConsumersOK /\ WorkOK /\ HandOverOK /\ [Next]_vars => HandOverOK'
  <1> SUFFICES ASSUME TypeOK, ConsumersOK, WorkOK, HandOverOK, [Next]_vars PROVE HandOverOK'
    OBVIOUS
  <1> USE DEF TypeOK, KafkaOK, RunnersOK, HandOverOK, Settled, LeftToWatchdog
  <1>1. CASE ClientStep \/ UNCHANGED vars
    <2>1. UNCHANGED workVars
      BY <1>1, ClientFrame
    <2>2. DueKept
      BY <1>1, ClientDue
    <2>3. QED
      BY <2>1, <2>2, HandOverKept DEF workVars, DueKept
  <1>2. ASSUME NEW s \in Desktop, RequestAssembly(s) PROVE HandOverOK'
    <2>1. UNCHANGED <<pc, cur, pending, forgotten, recording, dlq, lost, gaveUp, yielded>>
      BY <1>2 DEF RequestAssembly, runnerVars, resultVars
    <2>2. CASE UNCHANGED <<topic, entrusted>> /\ completing' = [completing EXCEPT ![s] = "no"]
      <3>1. \A x \in Desktop : completing'[x] = "queued" => completing[x] = "queued"
        BY <2>2 DEF DesktopOK
      <3>2. QED
        BY <2>1, <2>2, <3>1, HandOverKept
    <2>3. CASE topic' = [topic EXCEPT !["recordingAssembler"] = Append(@, s)] /\ entrusted' = entrusted \cup {s}
      <3>1. \A x \in Streams : InTopic(x) \/ x = s => InTopic(x)'
        BY <2>3, InTopicAppend
      <3>2. \A x \in Desktop : completing'[x] = "queued" => completing[x] = "queued" \/ x = s
        BY <1>2 DEF RequestAssembly, desktopVars, DesktopOK
      <3>3. QED
        BY <2>1, <2>3, <3>1, <3>2 DEF RedisOK
    <2>4. QED
      BY <1>2, <2>2, <2>3 DEF RequestAssembly
  <1>3. ASSUME NEW s \in WebRTC, PeerEnded(s) PROVE HandOverOK'
    <2>1. UNCHANGED <<pc, cur, pending, forgotten, recording, dlq, lost, gaveUp, yielded>>
      BY <1>3 DEF PeerEnded, runnerVars, resultVars
    <2>2. CASE UNCHANGED <<topic, entrusted>>
      BY <1>3, <2>1, <2>2 DEF PeerEnded, InTopic, desktopVars, DesktopOK
    <2>3. CASE topic' = [topic EXCEPT !["assembler"] = Append(@, s)] /\ entrusted' = entrusted \cup {s}
      <3>1. \A x \in Streams : InTopic(x) \/ x = s => InTopic(x)'
        BY <2>3, InTopicAppend
      <3>2. \A x \in Desktop : completing'[x] = "queued" => completing[x] = "queued" \/ x = s
        BY <1>3 DEF PeerEnded, desktopVars, DesktopOK
      <3>3. QED
        BY <2>1, <2>3, <3>1, <3>2 DEF RedisOK
    <2>4. QED
      BY <1>3, <2>2, <2>3 DEF PeerEnded
  <1>4. ASSUME NEW r \in Runners, Claim(r) PROVE HandOverOK'
    <2>1. /\ UNCHANGED <<topic, completing>>
          /\ \A s \in entrusted' : s \in entrusted \/ LeftToWatchdog(s)'
      BY <1>4 DEF Claim, Step, kafkaVars, desktopVars, redisVars
    <2>2. \A s \in Streams : Settled(s) => Settled(s)'
      BY <1>4 DEF Claim, Step, kafkaVars, resultVars
    <2>3. \A s \in Streams : LeftToWatchdog(s) => LeftToWatchdog(s)' \/ Settled(s)'
      BY <1>4 DEF Claim, Step, redisVars
    <2>4. \A c \in Consumers : pc'[c] = "commit" =>
            \/ pc[c] = "commit" /\ cur'[c] = cur[c]
            \/ Settled(cur[c])' \/ (cur'[c] \in WebRTC /\ LeftToWatchdog(cur[c])')
      BY <1>4 DEF Claim, Step
    <2>5. QED
      BY <2>1, <2>2, <2>3, <2>4, HandOverKept
  <1>5. ASSUME NEW r \in Runners, ListSegments(r) PROVE HandOverOK'
    <2>1. /\ UNCHANGED <<topic, completing>>
          /\ \A s \in entrusted' : s \in entrusted \/ LeftToWatchdog(s)'
      BY <1>5 DEF ListSegments, Step, kafkaVars, desktopVars, redisVars
    <2>2. \A s \in Streams : Settled(s) => Settled(s)'
      BY <1>5 DEF ListSegments, Step, kafkaVars, resultVars
    <2>3. \A s \in Streams : LeftToWatchdog(s) => LeftToWatchdog(s)' \/ Settled(s)'
      BY <1>5 DEF ListSegments, Step, redisVars
    <2>4. \A c \in Consumers : pc'[c] = "commit" =>
            \/ pc[c] = "commit" /\ cur'[c] = cur[c]
            \/ Settled(cur[c])' \/ (cur'[c] \in WebRTC /\ LeftToWatchdog(cur[c])')
      BY <1>5 DEF ListSegments, Step
    <2>5. QED
      BY <2>1, <2>2, <2>3, <2>4, HandOverKept
  <1>6. ASSUME NEW r \in Runners, AcquireSlot(r) PROVE HandOverOK'
    <2>1. /\ UNCHANGED <<topic, completing>>
          /\ \A s \in entrusted' : s \in entrusted \/ LeftToWatchdog(s)'
      BY <1>6 DEF AcquireSlot, Step, kafkaVars, desktopVars, redisVars
    <2>2. \A s \in Streams : Settled(s) => Settled(s)'
      BY <1>6 DEF AcquireSlot, Step, kafkaVars, resultVars
    <2>3. \A s \in Streams : LeftToWatchdog(s) => LeftToWatchdog(s)' \/ Settled(s)'
      BY <1>6 DEF AcquireSlot, Step, redisVars
    <2>4. \A c \in Consumers : pc'[c] = "commit" =>
            \/ pc[c] = "commit" /\ cur'[c] = cur[c]
            \/ Settled(cur[c])' \/ (cur'[c] \in WebRTC /\ LeftToWatchdog(cur[c])')
      BY <1>6 DEF AcquireSlot, Step
    <2>5. QED
      BY <2>1, <2>2, <2>3, <2>4, HandOverKept
  <1>7. ASSUME NEW r \in Runners, CheckExisting(r) PROVE HandOverOK'
    <2>1. /\ UNCHANGED <<topic, completing>>
          /\ \A s \in entrusted' : s \in entrusted \/ LeftToWatchdog(s)'
      BY <1>7 DEF CheckExisting, Step, kafkaVars, desktopVars, redisVars
    <2>2. \A s \in Streams : Settled(s) => Settled(s)'
      BY <1>7 DEF CheckExisting, Step, kafkaVars, resultVars
    <2>3. \A s \in Streams : LeftToWatchdog(s) => LeftToWatchdog(s)' \/ Settled(s)'
      BY <1>7 DEF CheckExisting, Step, redisVars
    <2>4. \A c \in Consumers : pc'[c] = "commit" =>
            \/ pc[c] = "commit" /\ cur'[c] = cur[c]
            \/ Settled(cur[c])' \/ (cur'[c] \in WebRTC /\ LeftToWatchdog(cur[c])')
      BY <1>7 DEF CheckExisting, Step
    <2>5. QED
      BY <2>1, <2>2, <2>3, <2>4, HandOverKept
  <1>8. ASSUME NEW r \in Runners, BuildRecording(r) PROVE HandOverOK'
    <2>1. /\ UNCHANGED <<topic, completing>>
          /\ \A s \in entrusted' : s \in entrusted \/ LeftToWatchdog(s)'
      BY <1>8 DEF BuildRecording, Step, kafkaVars, desktopVars, redisVars
    <2>2. \A s \in Streams : Settled(s) => Settled(s)'
      BY <1>8 DEF BuildRecording, Step, kafkaVars, resultVars, WorkOK, ResultsOK
    <2>3. \A s \in Streams : LeftToWatchdog(s) => LeftToWatchdog(s)' \/ Settled(s)'
      BY <1>8 DEF BuildRecording, Step, redisVars
    <2>4. \A c \in Consumers : pc'[c] = "commit" =>
            \/ pc[c] = "commit" /\ cur'[c] = cur[c]
            \/ Settled(cur[c])' \/ (cur'[c] \in WebRTC /\ LeftToWatchdog(cur[c])')
      BY <1>8 DEF BuildRecording, Step
    <2>5. QED
      BY <2>1, <2>2, <2>3, <2>4, HandOverKept
  <1>9. ASSUME NEW r \in Runners, PublishReady(r) PROVE HandOverOK'
    <2>1. /\ UNCHANGED <<topic, completing>>
          /\ \A s \in entrusted' : s \in entrusted \/ LeftToWatchdog(s)'
      BY <1>9 DEF PublishReady, Step, kafkaVars, desktopVars, redisVars
    <2>2. \A s \in Streams : Settled(s) => Settled(s)'
      BY <1>9 DEF PublishReady, Step, kafkaVars, resultVars
    <2>3. \A s \in Streams : LeftToWatchdog(s) => LeftToWatchdog(s)' \/ Settled(s)'
      BY <1>9 DEF PublishReady, Step, redisVars
    <2>4. \A c \in Consumers : pc'[c] = "commit" =>
            \/ pc[c] = "commit" /\ cur'[c] = cur[c]
            \/ Settled(cur[c])' \/ (cur'[c] \in WebRTC /\ LeftToWatchdog(cur[c])')
      BY <1>9 DEF PublishReady, Step
    <2>5. QED
      BY <2>1, <2>2, <2>3, <2>4, HandOverKept
  <1>10. ASSUME NEW r \in Runners, PublishFailed(r) PROVE HandOverOK'
    <2>1. /\ UNCHANGED <<topic, completing>>
          /\ \A s \in entrusted' : s \in entrusted \/ LeftToWatchdog(s)'
      BY <1>10 DEF PublishFailed, Step, kafkaVars, desktopVars, redisVars
    <2>2. \A s \in Streams : Settled(s) => Settled(s)'
      BY <1>10 DEF PublishFailed, Step, kafkaVars, resultVars
    <2>3. \A s \in Streams : LeftToWatchdog(s) => LeftToWatchdog(s)' \/ Settled(s)'
      BY <1>10 DEF PublishFailed, Step, redisVars
    <2>4. \A c \in Consumers : pc'[c] = "commit" =>
            \/ pc[c] = "commit" /\ cur'[c] = cur[c]
            \/ Settled(cur[c])' \/ (cur'[c] \in WebRTC /\ LeftToWatchdog(cur[c])')
      BY <1>10 DEF PublishFailed, Step
    <2>5. QED
      BY <2>1, <2>2, <2>3, <2>4, HandOverKept
  <1>11. ASSUME NEW c \in Consumers, Fetch(c) PROVE HandOverOK'
    <2>1. /\ UNCHANGED <<topic, completing>>
          /\ \A s \in entrusted' : s \in entrusted \/ LeftToWatchdog(s)'
      BY <1>11 DEF Fetch, Step, Entry, kafkaVars, desktopVars, redisVars
    <2>2. \A s \in Streams : Settled(s) => Settled(s)'
      BY <1>11 DEF Fetch, Step, Entry, kafkaVars, resultVars
    <2>3. \A s \in Streams : LeftToWatchdog(s) => LeftToWatchdog(s)' \/ Settled(s)'
      BY <1>11 DEF Fetch, Step, Entry, redisVars
    <2>4. \A x \in Consumers : pc'[x] = "commit" =>
            \/ pc[x] = "commit" /\ cur'[x] = cur[x]
            \/ Settled(cur[x])' \/ (cur'[x] \in WebRTC /\ LeftToWatchdog(cur[x])')
      BY <1>11 DEF Fetch, Step, Entry
    <2>5. QED
      BY <2>1, <2>2, <2>3, <2>4, HandOverKept
  <1>12. ASSUME NEW c \in Consumers, Commit(c) PROVE HandOverOK'
    <2>1. /\ UNCHANGED <<pending, forgotten, entrusted, completing>>
          /\ UNCHANGED <<recording, dlq, lost, gaveUp, yielded>>
          /\ pc[c] = "commit" /\ pc' = [pc EXCEPT ![c] = "idle"] /\ cur' = [cur EXCEPT ![c] = NoStream]
          /\ topic' = [topic EXCEPT ![c] = Tail(@)]
      BY <1>12 DEF Commit, Step, desktopVars, redisVars, resultVars
    <2>2. topic[c] # <<>> /\ cur[c] = topic[c][1]
      BY <2>1 DEF ConsumersOK
    <2>3. \A x \in Streams : InTopic(x) => InTopic(x)' \/ x = cur[c]
      BY <2>1, <2>2, InTopicTail
    <2>4. Settled(cur[c]) \/ (cur[c] \in WebRTC /\ LeftToWatchdog(cur[c]))
      BY <2>1
    <2>5. \A x \in entrusted' : InTopic(x)' \/ Settled(x)' \/ LeftToWatchdog(x)'
      BY <2>1, <2>3, <2>4 DEF RedisOK
    <2>6. \A x \in Desktop : completing'[x] = "queued" => InTopic(x)' \/ Settled(x)'
      BY <2>1, <2>3, <2>4, ConstantsAssumption
    <2>7. QED
      BY <2>1, <2>5, <2>6
  <1>13. ASSUME NEW c \in Consumers, HandlerFailed(c) PROVE HandOverOK'
    <2>1. UNCHANGED <<topic, completing, pending, forgotten, entrusted>>
      BY <1>13 DEF HandlerFailed, desktopVars, redisVars
    <2>2. \A s \in Streams : Settled(s) => Settled(s)'
      BY <1>13 DEF HandlerFailed, resultVars
    <2>3. \A x \in Consumers : pc'[x] = "commit" =>
            (pc[x] = "commit" \/ Settled(cur[x])') /\ cur'[x] = cur[x]
      BY <1>13 DEF HandlerFailed, Step, Entry
    <2>4. QED
      BY <2>1, <2>2, <2>3, HandOverKept
  <1>14. CASE OnStreamEnded
    <2>1. /\ UNCHANGED <<topic, completing>>
          /\ \A s \in entrusted' : s \in entrusted \/ LeftToWatchdog(s)'
      BY <1>14
         DEF OnStreamEnded, Step, kafkaVars, desktopVars, redisVars, Schedule, Ok, Fault,
             RedisOK, NotPending
    <2>2. \A s \in Streams : Settled(s) => Settled(s)'
      BY <1>14 DEF OnStreamEnded, Step, kafkaVars, resultVars
    <2>3. \A s \in Streams : LeftToWatchdog(s) => LeftToWatchdog(s)' \/ Settled(s)'
      BY <1>14, <2>2 DEF OnStreamEnded, Step, redisVars, Schedule, Ok, Fault, RedisOK, NotPending
    <2>4. \A c \in Consumers : pc'[c] = "commit" =>
            \/ pc[c] = "commit" /\ cur'[c] = cur[c]
            \/ Settled(cur[c])' \/ (cur'[c] \in WebRTC /\ LeftToWatchdog(cur[c])')
      BY <1>14 DEF OnStreamEnded, Step, Schedule, Ok, Fault, RedisOK, NotPending, ConsumersOK
    <2>5. QED
      BY <2>1, <2>2, <2>3, <2>4, HandOverKept
  <1>15. CASE DisarmWatchdog
    <2>1. /\ UNCHANGED <<topic, completing>>
          /\ \A s \in entrusted' : s \in entrusted \/ LeftToWatchdog(s)'
      BY <1>15
         DEF DisarmWatchdog, Step, kafkaVars, desktopVars, redisVars, OrFault, Cancel, Ok,
             Fault, RedisOK, NotPending, WorkOK, resultVars
    <2>2. \A s \in Streams : Settled(s) => Settled(s)'
      BY <1>15 DEF DisarmWatchdog, Step, kafkaVars, resultVars
    <2>3. \A s \in Streams : LeftToWatchdog(s) => LeftToWatchdog(s)' \/ Settled(s)'
      BY <1>15, <2>2
         DEF DisarmWatchdog, Step, redisVars, OrFault, Cancel, Ok, Fault, RedisOK,
             NotPending, WorkOK, resultVars, kafkaVars
    <2>4. \A c \in Consumers : pc'[c] = "commit" =>
            \/ pc[c] = "commit" /\ cur'[c] = cur[c]
            \/ Settled(cur[c])' \/ (cur'[c] \in WebRTC /\ LeftToWatchdog(cur[c])')
      BY <1>15 DEF DisarmWatchdog, Step, WorkOK, kafkaVars, resultVars
    <2>5. QED
      BY <2>1, <2>2, <2>3, <2>4, HandOverKept
  <1>16. CASE RequestDone
    <2>1. /\ UNCHANGED <<topic, completing>>
          /\ \A s \in entrusted' : s \in entrusted \/ LeftToWatchdog(s)'
      BY <1>16 DEF RequestDone, Step, kafkaVars, desktopVars, redisVars
    <2>2. \A s \in Streams : Settled(s) => Settled(s)'
      BY <1>16 DEF RequestDone, Step, kafkaVars, resultVars
    <2>3. \A s \in Streams : LeftToWatchdog(s) => LeftToWatchdog(s)' \/ Settled(s)'
      BY <1>16 DEF RequestDone, Step, redisVars
    <2>4. \A c \in Consumers : pc'[c] = "commit" =>
            \/ pc[c] = "commit" /\ cur'[c] = cur[c]
            \/ Settled(cur[c])' \/ (cur'[c] \in WebRTC /\ LeftToWatchdog(cur[c])')
      BY <1>16 DEF RequestDone, Step, WorkOK, kafkaVars, resultVars
    <2>5. QED
      BY <2>1, <2>2, <2>3, <2>4, HandOverKept
  <1>17. ASSUME NEW e \in batch, Handle(e) PROVE HandOverOK'
    <2>1. /\ UNCHANGED <<topic, completing>>
          /\ \A s \in entrusted' : s \in entrusted \/ LeftToWatchdog(s)'
      BY <1>17 DEF Handle, Step, kafkaVars, desktopVars, redisVars
    <2>2. \A s \in Streams : Settled(s) => Settled(s)'
      BY <1>17 DEF Handle, Step, kafkaVars, resultVars
    <2>3. \A s \in Streams : LeftToWatchdog(s) => LeftToWatchdog(s)' \/ Settled(s)'
      BY <1>17 DEF Handle, Step, redisVars
    <2>4. \A c \in Consumers : pc'[c] = "commit" =>
            \/ pc[c] = "commit" /\ cur'[c] = cur[c]
            \/ Settled(cur[c])' \/ (cur'[c] \in WebRTC /\ LeftToWatchdog(cur[c])')
      BY <1>17 DEF Handle, Step
    <2>5. QED
      BY <2>1, <2>2, <2>3, <2>4, HandOverKept
  <1>171. CASE DropEmpty
    <2>1. /\ UNCHANGED <<topic, completing>>
          /\ \A s \in entrusted' : s \in entrusted \/ LeftToWatchdog(s)'
      BY <1>171
         DEF DropEmpty, Step, WatchdogIdle, kafkaVars, desktopVars, redisVars, Ok, Fault,
             RedisOK, NotPending
    <2>2. \A s \in Streams : Settled(s) => Settled(s)'
      BY <1>171 DEF DropEmpty, Step, WatchdogIdle, kafkaVars, resultVars
    <2>3. \A s \in Streams : LeftToWatchdog(s) => LeftToWatchdog(s)' \/ Settled(s)'
      BY <1>171, <2>2 DEF DropEmpty, Step, WatchdogIdle, redisVars, Ok, Fault, RedisOK, NotPending
    <2>4. \A c \in Consumers : pc'[c] = "commit" =>
            \/ pc[c] = "commit" /\ cur'[c] = cur[c]
            \/ Settled(cur[c])' \/ (cur'[c] \in WebRTC /\ LeftToWatchdog(cur[c])')
      BY <1>171 DEF DropEmpty, Step, WatchdogIdle
    <2>5. QED
      BY <2>1, <2>2, <2>3, <2>4, HandOverKept
  <1>18. CASE WatchdogDone
    <2>1. /\ UNCHANGED <<topic, completing>>
          /\ \A s \in entrusted' : s \in entrusted \/ LeftToWatchdog(s)'
      BY <1>18
         DEF WatchdogDone, Step, WatchdogIdle, kafkaVars, desktopVars, redisVars, OrFault,
             Cancel, Ok, Fault, RedisOK, NotPending, WorkOK, resultVars
    <2>2. \A s \in Streams : Settled(s) => Settled(s)'
      BY <1>18 DEF WatchdogDone, Step, WatchdogIdle, kafkaVars, resultVars
    <2>3. \A s \in Streams : LeftToWatchdog(s) => LeftToWatchdog(s)' \/ Settled(s)'
      BY <1>18, <2>2
         DEF WatchdogDone, Step, WatchdogIdle, redisVars, OrFault, Cancel, Ok, Fault,
             RedisOK, NotPending, WorkOK, resultVars, kafkaVars
    <2>4. \A c \in Consumers : pc'[c] = "commit" =>
            \/ pc[c] = "commit" /\ cur'[c] = cur[c]
            \/ Settled(cur[c])' \/ (cur'[c] \in WebRTC /\ LeftToWatchdog(cur[c])')
      BY <1>18 DEF WatchdogDone, Step, WatchdogIdle
    <2>5. QED
      BY <2>1, <2>2, <2>3, <2>4, HandOverKept
  <1>19. CASE WatchdogFailed
    <2>1. /\ UNCHANGED <<topic, completing>>
          /\ \A s \in entrusted' : s \in entrusted \/ LeftToWatchdog(s)'
      BY <1>19
         DEF WatchdogFailed, Step, WatchdogIdle, kafkaVars, desktopVars, redisVars, OrFault,
             Schedule, Cancel, Ok, Fault, RedisOK, NotPending
    <2>2. \A s \in Streams : Settled(s) => Settled(s)'
      BY <1>19 DEF WatchdogFailed, Step, WatchdogIdle, kafkaVars, resultVars
    <2>3. \A s \in Streams : LeftToWatchdog(s) => LeftToWatchdog(s)' \/ Settled(s)'
      BY <1>19, <2>2
         DEF WatchdogFailed, Step, WatchdogIdle, redisVars, OrFault, Schedule, Cancel, Ok,
             Fault, RedisOK, NotPending
    <2>4. \A c \in Consumers : pc'[c] = "commit" =>
            \/ pc[c] = "commit" /\ cur'[c] = cur[c]
            \/ Settled(cur[c])' \/ (cur'[c] \in WebRTC /\ LeftToWatchdog(cur[c])')
      BY <1>19 DEF WatchdogFailed, Step, WatchdogIdle
    <2>5. QED
      BY <2>1, <2>2, <2>3, <2>4, HandOverKept
  <1>20. CASE Crash
    <2>1. /\ UNCHANGED <<topic, entrusted>>
          /\ \A s \in Desktop : completing'[s] = "no"
      BY <1>20 DEF Crash, kafkaVars, desktopVars, redisVars
    <2>2. \A s \in Streams : Settled(s) => Settled(s)'
      BY <1>20 DEF Crash, kafkaVars, resultVars
    <2>3. \A s \in Streams : LeftToWatchdog(s) => LeftToWatchdog(s)' \/ Settled(s)'
      BY <1>20 DEF Crash, redisVars
    <2>4. \A c \in Consumers : pc'[c] = "commit" =>
            \/ pc[c] = "commit" /\ cur'[c] = cur[c]
            \/ Settled(cur[c])' \/ (cur'[c] \in WebRTC /\ LeftToWatchdog(cur[c])')
      BY <1>20 DEF Crash
    <2>5. QED
      BY <2>1, <2>2, <2>3, <2>4, HandOverKept
  <1>21. QED
    BY <1>1, <1>2, <1>3, <1>4, <1>5, <1>6, <1>7, <1>8, <1>9, <1>10, <1>11, <1>12, <1>13, <1>14,
       <1>15, <1>16, <1>17, <1>171, <1>18, <1>19, <1>20
       DEF Next, DesktopStep, PeerStep, AssembleStep, ConsumerStep, WatchdogStep, ClientStep

(* The four steps that touch a recording or its published state.           *)
ReportStep ==
    \/ \E s \in Desktop : \E e \in Expiries : ArmWatchdog(s, e)
    \/ \E r \in Runners : BuildRecording(r) \/ PublishReady(r) \/ PublishFailed(r)

(* Every other step leaves both alone.                                     *)
LEMMA QuietStatus == [Next]_vars => ReportStep \/ UNCHANGED <<recording, status>>
  <1> SUFFICES ASSUME [Next]_vars, ~ReportStep PROVE UNCHANGED <<recording, status>>
    OBVIOUS
  <1> USE DEF resultVars
  <1>1. ASSUME NEW s \in Desktop, NEW e \in Expiries, CreateSession(s, e)
        PROVE UNCHANGED <<recording, status>>
    BY <1>1 DEF CreateSession
  <1>2. ASSUME NEW s \in Desktop, NEW q \in Seqs, UploadAdmit(s, q)
        PROVE UNCHANGED <<recording, status>>
    BY <1>2 DEF UploadAdmit
  <1>3. ASSUME NEW s \in Desktop, NEW q \in Seqs, UploadRegister(s, q)
        PROVE UNCHANGED <<recording, status>>
    BY <1>3 DEF UploadRegister
  <1>4. ASSUME NEW s \in Desktop, MarkComplete(s) PROVE UNCHANGED <<recording, status>>
    BY <1>4 DEF MarkComplete
  <1>5. ASSUME NEW s \in Desktop, RequestAssembly(s) PROVE UNCHANGED <<recording, status>>
    BY <1>5 DEF RequestAssembly
  <1>6. ASSUME NEW s \in Desktop, CompleteDisarm(s) PROVE UNCHANGED <<recording, status>>
    BY <1>6 DEF CompleteDisarm
  <1>7. ASSUME NEW s \in WebRTC, Connect(s) PROVE UNCHANGED <<recording, status>>
    BY <1>7 DEF Connect
  <1>8. ASSUME NEW s \in WebRTC, NEW q \in Seqs, CaptureSegment(s, q)
        PROVE UNCHANGED <<recording, status>>
    BY <1>8 DEF CaptureSegment
  <1>9. ASSUME NEW s \in WebRTC, PeerClose(s) PROVE UNCHANGED <<recording, status>>
    BY <1>9 DEF PeerClose
  <1>10. ASSUME NEW s \in WebRTC, NEW q \in Seqs, PeerRegister(s, q)
         PROVE UNCHANGED <<recording, status>>
    BY <1>10 DEF PeerRegister
  <1>11. ASSUME NEW s \in WebRTC, NEW dropped \in BOOLEAN, PeerMarkComplete(s, dropped)
         PROVE UNCHANGED <<recording, status>>
    BY <1>11 DEF PeerMarkComplete
  <1>12. ASSUME NEW s \in WebRTC, PeerEnded(s) PROVE UNCHANGED <<recording, status>>
    BY <1>12 DEF PeerEnded
  <1>13. ASSUME NEW r \in Runners, Claim(r) PROVE UNCHANGED <<recording, status>>
    BY <1>13 DEF Claim
  <1>14. ASSUME NEW r \in Runners, ListSegments(r) PROVE UNCHANGED <<recording, status>>
    BY <1>14 DEF ListSegments
  <1>15. ASSUME NEW r \in Runners, AcquireSlot(r) PROVE UNCHANGED <<recording, status>>
    BY <1>15 DEF AcquireSlot
  <1>16. ASSUME NEW r \in Runners, CheckExisting(r) PROVE UNCHANGED <<recording, status>>
    BY <1>16 DEF CheckExisting
  <1>17. ASSUME NEW c \in Consumers, Fetch(c) PROVE UNCHANGED <<recording, status>>
    BY <1>17 DEF Fetch
  <1>18. ASSUME NEW c \in Consumers, Commit(c) PROVE UNCHANGED <<recording, status>>
    BY <1>18 DEF Commit
  <1>19. ASSUME NEW c \in Consumers, HandlerFailed(c) PROVE UNCHANGED <<recording, status>>
    BY <1>19 DEF HandlerFailed
  <1>20. CASE OnStreamEnded
    BY <1>20 DEF OnStreamEnded
  <1>21. CASE DisarmWatchdog
    BY <1>21 DEF DisarmWatchdog
  <1>22. CASE RequestDone
    BY <1>22 DEF RequestDone
  <1>23. CASE Sweep
    BY <1>23 DEF Sweep
  <1>24. ASSUME NEW e \in batch, Handle(e) PROVE UNCHANGED <<recording, status>>
    BY <1>24 DEF Handle
  <1>241. CASE DropEmpty
    BY <1>241 DEF DropEmpty
  <1>25. CASE WatchdogDone
    BY <1>25 DEF WatchdogDone
  <1>26. CASE WatchdogFailed
    BY <1>26 DEF WatchdogFailed
  <1>27. CASE Tick
    BY <1>27 DEF Tick
  <1>28. CASE Crash
    BY <1>28 DEF Crash
  <1>29. CASE UNCHANGED vars
    BY <1>29 DEF vars
  <1>30. QED
    BY <1>1, <1>2, <1>3, <1>4, <1>5, <1>6, <1>7, <1>8, <1>9, <1>10, <1>11, <1>12, <1>13, <1>14,
       <1>15, <1>16, <1>17, <1>18, <1>19, <1>20, <1>21, <1>22, <1>23, <1>24, <1>241, <1>25, <1>26,
       <1>27, <1>28, <1>29
       DEF Next, DesktopStep, PeerStep, AssembleStep, ConsumerStep, WatchdogStep, ReportStep

(* A stream reported READY or PARTIAL keeps its recording: PublishReady    *)
(* runs after the upload, and no step removes a recording.                 *)
LEMMA ReadyNext ==
  TypeOK /\ WorkOK /\ ReadyHasRecording /\ [Next]_vars => ReadyHasRecording'
  <1> SUFFICES ASSUME TypeOK, WorkOK, ReadyHasRecording, [Next]_vars PROVE ReadyHasRecording'
    OBVIOUS
  <1> USE DEF TypeOK, RunnersOK, ResultsOK, ReadyHasRecording, resultVars
  <1>1. ASSUME NEW s \in Desktop, NEW e \in Expiries, ArmWatchdog(s, e) PROVE ReadyHasRecording'
    BY <1>1 DEF ArmWatchdog
  <1>2. ASSUME NEW r \in Runners, BuildRecording(r) PROVE ReadyHasRecording'
    BY <1>2 DEF BuildRecording, Step, WorkOK
  <1>3. ASSUME NEW r \in Runners, PublishReady(r) PROVE ReadyHasRecording'
    BY <1>3 DEF PublishReady, Step, WorkOK
  <1>4. ASSUME NEW r \in Runners, PublishFailed(r) PROVE ReadyHasRecording'
    BY <1>4 DEF PublishFailed
  <1>5. CASE UNCHANGED <<recording, status>>
    BY <1>5
  <1>6. QED
    BY <1>1, <1>2, <1>3, <1>4, <1>5, QuietStatus DEF ReportStep

-----------------------------------------------------------------------------
(* The inductive invariant holds of every reachable state.                 *)
THEOREM Inductive == Spec => []IInv
  <1>1. Init => IInv
    <2>1. Init => ConsumersOK /\ ClaimsOK /\ WorkOK /\ HandOverOK /\ ReadyHasRecording
      BY DEF Init, ConsumersOK, ClaimsOK, WorkOK, HandOverOK, ReadyHasRecording, Holding
    <2>2. QED
      BY <2>1, TypeInit DEF IInv
  <1>2. IInv /\ [Next]_vars => IInv'
    BY TypeNext, ConsumersNext, ClaimsNext, WorkNext, HandOverNext, ReadyNext DEF IInv
  <1>3. QED
    BY <1>1, <1>2, PTL DEF Spec

(* Type correctness, for any number of streams, faults and crashes: among  *)
(* the rest, no due entry outlives its attempts and no idle consumer is    *)
(* taken for a working one.                                                *)
THEOREM TypeCorrect == Spec => []TypeOK
  <1>1. IInv => TypeOK
    BY DEF IInv
  <1>2. QED
    BY <1>1, Inductive, PTL

(* No stream is orphaned: once it was armed or its assembly message        *)
(* published, a stream with segments is recorded, queued, in the due-set   *)
(* or reported, however requests, peers, runners, faults and crashes       *)
(* interleave -- except through a trigger that took "already in flight"    *)
(* for success, and through the removal of an entry whose stream had no    *)
(* segments when the watchdog looked.                                      *)
THEOREM NeverOrphaned == Spec => []NoOrphan
  <1>1. IInv => NoOrphan
    BY DEF IInv, HandOverOK, NoOrphan, Settled, LeftToWatchdog, Owned, Reported
  <1>2. QED
    BY <1>1, Inductive, PTL

(* READY and PARTIAL are never published before the recording exists, nor  *)
(* outlive it.                                                             *)
THEOREM ReadyIsReal == Spec => []ReadyHasRecording
  <1>1. IInv => ReadyHasRecording
    BY DEF IInv
  <1>2. QED
    BY <1>1, Inductive, PTL

(* A recording is never replaced: the in-flight claim makes the existence  *)
(* check and the upload of one stream atomic within a process.             *)
THEOREM WrittenOnce == Spec => RecordingWrittenOnce
  <1>1. IInv /\ [Next]_vars =>
          [\A s \in Streams : recording[s] # {} => recording'[s] = recording[s]]_vars
    <2> SUFFICES ASSUME IInv, [Next]_vars
                 PROVE \A s \in Streams : recording[s] # {} => recording'[s] = recording[s]
      OBVIOUS
    <2>1. ASSUME NEW r \in Runners, BuildRecording(r)
          PROVE \A s \in Streams : recording[s] # {} => recording'[s] = recording[s]
      BY <2>1 DEF BuildRecording, Step, IInv, TypeOK, RunnersOK, ResultsOK, WorkOK
    <2>2. ASSUME NEW r \in Runners, PublishReady(r) \/ PublishFailed(r)
          PROVE UNCHANGED recording
      BY <2>2 DEF PublishReady, PublishFailed
    <2>3. ASSUME NEW s \in Desktop, NEW e \in Expiries, ArmWatchdog(s, e)
          PROVE UNCHANGED recording
      BY <2>3 DEF ArmWatchdog
    <2>4. QED
      BY <2>1, <2>2, <2>3, QuietStatus DEF ReportStep
  <1>2. QED
    BY <1>1, Inductive, PTL DEF Spec, RecordingWrittenOnce

-----------------------------------------------------------------------------
(***************************************************************************)
(* RecordingAssembly implements RecordingLedger, for any sets of streams   *)
(* and segments and any number of faults, crashes and retries.  The        *)
(* mapping is in RecordingAssembly (Ledger); the proof needs IInv and one  *)
(* more invariant: a runner builds from segments that are in the registry. *)
(***************************************************************************)

(* The segments a step leaves in the registry.                             *)
RegistryStep ==
    \/ \E s \in Desktop : \E q \in Seqs : UploadRegister(s, q)
    \/ \E s \in WebRTC : \E q \in Seqs : PeerRegister(s, q)

(* Only an upload and a closing peer touch the segment registry.           *)
LEMMA QuietRegistry == [Next]_vars => RegistryStep \/ UNCHANGED segments
  <1> SUFFICES ASSUME [Next]_vars, ~RegistryStep PROVE UNCHANGED segments
    OBVIOUS
  <1> USE DEF redisVars
  <1>1. ASSUME NEW s \in Desktop, DesktopStep(s) PROVE UNCHANGED segments
    BY <1>1 DEF DesktopStep, CreateSession, ArmWatchdog, UploadAdmit, MarkComplete,
                RequestAssembly, CompleteDisarm, RegistryStep
  <1>2. ASSUME NEW s \in WebRTC, PeerStep(s) PROVE UNCHANGED segments
    BY <1>2 DEF PeerStep, Connect, PeerClose, PeerEnded, CaptureSegment, PeerMarkComplete,
                RegistryStep
  <1>3. ASSUME NEW r \in Runners, AssembleStep(r) PROVE UNCHANGED segments
    BY <1>3 DEF AssembleStep, Claim, ListSegments, AcquireSlot, CheckExisting, BuildRecording,
                PublishReady, PublishFailed
  <1>4. ASSUME NEW c \in Consumers, ConsumerStep(c) PROVE UNCHANGED segments
    BY <1>4 DEF ConsumerStep, Fetch, Commit, HandlerFailed
  <1>5. CASE OnStreamEnded \/ DisarmWatchdog \/ RequestDone
    BY <1>5 DEF OnStreamEnded, DisarmWatchdog, RequestDone
  <1>6. CASE WatchdogStep
    BY <1>6 DEF WatchdogStep, Sweep, Handle, DropEmpty, WatchdogDone, WatchdogFailed
  <1>7. CASE Tick \/ Crash \/ UNCHANGED vars
    BY <1>7 DEF Tick, Crash, vars
  <1>8. QED
    BY <1>1, <1>2, <1>3, <1>4, <1>5, <1>6, <1>7 DEF Next

(* The registry only grows.                                                *)
LEMMA RegistryGrows ==
  TypeOK /\ [Next]_vars => \A s \in Streams : segments[s] \subseteq segments'[s]
  <1> SUFFICES ASSUME TypeOK, [Next]_vars, NEW s \in Streams
               PROVE segments[s] \subseteq segments'[s]
    OBVIOUS
  <1> USE DEF TypeOK, RedisOK
  <1>1. ASSUME NEW d \in Desktop, NEW q \in Seqs, UploadRegister(d, q)
        PROVE segments[s] \subseteq segments'[s]
    BY <1>1 DEF UploadRegister
  <1>2. ASSUME NEW d \in WebRTC, NEW q \in Seqs, PeerRegister(d, q)
        PROVE segments[s] \subseteq segments'[s]
    BY <1>2 DEF PeerRegister
  <1>3. QED
    BY <1>1, <1>2, QuietRegistry DEF RegistryStep

(* A runner between its reading of the segment list and its upload.        *)
Building == {"sem", "check", "build"}

(* What it is about to concatenate is registered.                          *)
MetasOK == \A r \in Runners : pc[r] \in Building => metas[r] \subseteq segments[cur[r]]

(* A step either leaves a building runner's work alone or has just read    *)
(* the list.                                                               *)
Untouched(r) ==
    pc'[r] \in Building =>
        \/ pc[r] \in Building /\ metas'[r] = metas[r] /\ cur'[r] = cur[r]
        \/ metas'[r] = segments[cur'[r]]

(* Every step is one of the two, for every runner.                         *)
LEMMA MetasStep == TypeOK /\ [Next]_vars => \A r \in Runners : Untouched(r)
  <1> SUFFICES ASSUME TypeOK, [Next]_vars, NEW q \in Runners PROVE Untouched(q)
    OBVIOUS
  <1> USE DEF TypeOK, RunnersOK, Untouched, Building, runnerVars, Step
  <1>1. CASE ClientStep \/ UNCHANGED vars
    BY <1>1, ClientFrame DEF workVars
  <1>2. ASSUME NEW s \in Desktop, RequestAssembly(s) PROVE Untouched(q)
    BY <1>2 DEF RequestAssembly
  <1>3. ASSUME NEW s \in WebRTC, PeerEnded(s) PROVE Untouched(q)
    BY <1>3 DEF PeerEnded
  <1>4. ASSUME NEW r \in Runners, Claim(r) PROVE Untouched(q)
    BY <1>4 DEF Claim
  <1>5. ASSUME NEW r \in Runners, ListSegments(r) PROVE Untouched(q)
    BY <1>5 DEF ListSegments
  <1>6. ASSUME NEW r \in Runners, AcquireSlot(r) PROVE Untouched(q)
    BY <1>6 DEF AcquireSlot
  <1>7. ASSUME NEW r \in Runners, CheckExisting(r) PROVE Untouched(q)
    BY <1>7 DEF CheckExisting
  <1>8. ASSUME NEW r \in Runners, BuildRecording(r) PROVE Untouched(q)
    BY <1>8 DEF BuildRecording
  <1>9. ASSUME NEW r \in Runners, PublishReady(r) \/ PublishFailed(r) PROVE Untouched(q)
    BY <1>9 DEF PublishReady, PublishFailed
  <1>10. ASSUME NEW c \in Consumers, Fetch(c) PROVE Untouched(q)
    BY <1>10 DEF Fetch, Entry
  <1>11. ASSUME NEW c \in Consumers, Commit(c) PROVE Untouched(q)
    BY <1>11 DEF Commit
  <1>12. ASSUME NEW c \in Consumers, HandlerFailed(c) PROVE Untouched(q)
    BY <1>12 DEF HandlerFailed, Entry
  <1>13. CASE OnStreamEnded
    BY <1>13 DEF OnStreamEnded
  <1>14. CASE DisarmWatchdog \/ RequestDone
    BY <1>14 DEF DisarmWatchdog, RequestDone
  <1>15. ASSUME NEW e \in batch, Handle(e) PROVE Untouched(q)
    BY <1>15 DEF Handle
  <1>16. CASE DropEmpty \/ WatchdogDone \/ WatchdogFailed
    BY <1>16 DEF DropEmpty, WatchdogDone, WatchdogFailed, WatchdogIdle
  <1>17. CASE Crash
    BY <1>17 DEF Crash
  <1>18. QED
    BY <1>1, <1>2, <1>3, <1>4, <1>5, <1>6, <1>7, <1>8, <1>9, <1>10, <1>11, <1>12, <1>13, <1>14,
       <1>15, <1>16, <1>17
       DEF Next, DesktopStep, PeerStep, AssembleStep, ConsumerStep, WatchdogStep, ClientStep

(* A runner's segment list stays registered while others run.              *)
LEMMA MetasNext == IInv /\ MetasOK /\ [Next]_vars => MetasOK'
  <1> SUFFICES ASSUME IInv, MetasOK, [Next]_vars,
                      NEW r \in Runners, pc'[r] \in Building
               PROVE metas'[r] \subseteq segments'[cur'[r]]
    BY DEF MetasOK
  <1>1. Untouched(r)
    BY MetasStep DEF IInv
  <1>2. TypeOK'
    BY TypeNext DEF IInv
  <1>3. cur'[r] \in Streams
    BY <1>2 DEF TypeOK, RunnersOK, Building
  <1>4. segments[cur'[r]] \subseteq segments'[cur'[r]]
    BY <1>3, RegistryGrows DEF IInv
  <1>5. CASE metas'[r] = segments[cur'[r]]
    BY <1>4, <1>5
  <1>6. CASE pc[r] \in Building /\ metas'[r] = metas[r] /\ cur'[r] = cur[r]
    BY <1>4, <1>6 DEF MetasOK
  <1>7. QED
    BY <1>1, <1>5, <1>6 DEF Untouched

(* The strengthened invariant holds of every reachable state.              *)
LEMMA MetasInv == Spec => []MetasOK
  <1>1. Init => MetasOK
    BY DEF Init, MetasOK, Building
  <1>2. IInv /\ MetasOK /\ [Next]_vars => MetasOK'
    BY MetasNext
  <1>3. QED
    BY <1>1, <1>2, Inductive, PTL DEF Spec

-----------------------------------------------------------------------------
(* What the ledger sees of the system.                                     *)
ledgerVars == <<segments, recording, status>>

(* A registration is a Register step of the ledger, or a stutter.          *)
LEMMA RegisterStep ==
  ASSUME [Next]_vars, RegistryStep
  PROVE [Ledger!Next]_ledgerVars
  <1> USE DEF Ledger!Next, Ledger!Register, ledgerVars, resultVars
  <1>1. ASSUME NEW s \in Desktop, NEW q \in Seqs, UploadRegister(s, q)
        PROVE [Ledger!Next]_ledgerVars
    <2>1. UNCHANGED <<recording, status>>
      BY <1>1 DEF UploadRegister
    <2>2. CASE UNCHANGED segments
      BY <2>1, <2>2
    <2>3. CASE segments' = [segments EXCEPT ![s] = @ \cup {q}]
      BY <2>1, <2>3
    <2>4. QED
      BY <1>1, <2>2, <2>3 DEF UploadRegister
  <1>2. ASSUME NEW s \in WebRTC, NEW q \in Seqs, PeerRegister(s, q)
        PROVE [Ledger!Next]_ledgerVars
    <2>1. UNCHANGED <<recording, status>>
      BY <1>2 DEF PeerRegister
    <2>2. CASE UNCHANGED segments
      BY <2>1, <2>2
    <2>3. CASE segments' = [segments EXCEPT ![s] = @ \cup {q}]
      BY <2>1, <2>3
    <2>4. QED
      BY <1>2, <2>2, <2>3 DEF PeerRegister
  <1>3. QED
    BY <1>1, <1>2 DEF RegistryStep

(* Building, publishing and arming are Store and Announce steps.           *)
LEMMA RecordStep ==
  ASSUME IInv, MetasOK, [Next]_vars, ReportStep
  PROVE [Ledger!Next]_ledgerVars
  <1> USE DEF Ledger!Next, ledgerVars, redisVars
  <1>1. ASSUME NEW s \in Desktop, NEW e \in Expiries, ArmWatchdog(s, e)
        PROVE [Ledger!Next]_ledgerVars
    <2>1. UNCHANGED <<segments, recording>>
      BY <1>1 DEF ArmWatchdog
    <2>2. status' = status \/ status' = [status EXCEPT ![s] = "UPLOADING"]
      BY <1>1 DEF ArmWatchdog
    <2>3. QED
      BY <2>1, <2>2 DEF Ledger!Announce
  <1>2. ASSUME NEW r \in Runners, BuildRecording(r)
        PROVE [Ledger!Next]_ledgerVars
    <2>1. UNCHANGED <<segments, status>>
      BY <1>2 DEF BuildRecording
    <2>2. CASE UNCHANGED recording
      BY <2>1, <2>2
    <2>3. CASE pc[r] = "build" /\ recording' = [recording EXCEPT ![cur[r]] = metas[r]]
      <3>1. cur[r] \in Streams /\ recording[cur[r]] = {} /\ metas[r] # {}
        BY <2>3 DEF IInv, TypeOK, RunnersOK, WorkOK
      <3>2. metas[r] \in SUBSET segments[cur[r]]
        BY <2>3 DEF MetasOK, Building
      <3>3. Ledger!Store(cur[r])
        BY <2>1, <2>3, <3>1, <3>2 DEF Ledger!Store
      <3>4. QED
        BY <3>1, <3>3
    <2>4. QED
      BY <1>2, <2>2, <2>3 DEF BuildRecording, Step
  <1>3. ASSUME NEW r \in Runners, PublishReady(r)
        PROVE [Ledger!Next]_ledgerVars
    <2>1. UNCHANGED <<segments, recording>>
      BY <1>3 DEF PublishReady
    <2>2. cur[r] \in Streams /\ recording[cur[r]] # {}
      BY <1>3 DEF PublishReady, Step, IInv, TypeOK, RunnersOK, WorkOK
    <2>3. status' = status \/ status' = [status EXCEPT ![cur[r]] = "READY"]
      BY <1>3 DEF PublishReady
    <2>4. QED
      BY <2>1, <2>2, <2>3 DEF Ledger!Announce
  <1>4. ASSUME NEW r \in Runners, PublishFailed(r)
        PROVE [Ledger!Next]_ledgerVars
    <2>1. UNCHANGED <<segments, recording>>
      BY <1>4 DEF PublishFailed
    <2>2. cur[r] \in Streams
      BY <1>4 DEF PublishFailed, Step, IInv, TypeOK, RunnersOK
    <2>3. status' = status \/ status' = [status EXCEPT ![cur[r]] = "FAILED"]
      BY <1>4 DEF PublishFailed
    <2>4. QED
      BY <2>1, <2>2, <2>3 DEF Ledger!Announce
  <1>5. QED
    BY <1>1, <1>2, <1>3, <1>4 DEF ReportStep

(* Recording assembly implements the ledger: whatever the sets of streams  *)
(* and segments and however requests, peers, consumers, sweeps, failing    *)
(* calls and crashes interleave, a downstream service sees segments being  *)
(* added, one recording of registered segments appearing, and READY only   *)
(* for a recording that exists.                                            *)
THEOREM ImplementsLedger == Spec => LedgerKept
  <1>1. Init => Ledger!Init
    BY DEF Init, Ledger!Init
  <1>2. IInv /\ MetasOK /\ [Next]_vars => [Ledger!Next]_ledgerVars
    <2> SUFFICES ASSUME IInv, MetasOK, [Next]_vars PROVE [Ledger!Next]_ledgerVars
      OBVIOUS
    <2>1. CASE RegistryStep
      BY <2>1, RegisterStep
    <2>2. CASE ReportStep
      BY <2>2, RecordStep
    <2>3. CASE UNCHANGED ledgerVars
      BY <2>3
    <2>4. QED
      BY <2>1, <2>2, <2>3, QuietRegistry, QuietStatus DEF ledgerVars
  <1>3. QED
    BY <1>1, <1>2, Inductive, MetasInv, PTL DEF Spec, LedgerKept, Ledger!Spec, ledgerVars
=============================================================================
