------------------------- MODULE MonitorFeedProofs -------------------------
(***************************************************************************)
(* Theorems about MonitorFeed, for any sessions, stream types, successive  *)
(* streams, channel capacities and faults.                                 *)
(***************************************************************************)
EXTENDS MonitorFeed, TLAPS

USE ConstantsAssumption

-----------------------------------------------------------------------------
(***************************************************************************)
(* Type correctness, in the parts the actions touch.                       *)
(***************************************************************************)
Phases == {"none", "connecting", "superseded", "live", "away", "replaced", "closing", "leaving", "over"}

PeerTypes ==
    /\ phase \in [Slots -> [Gens -> Phases]]
    /\ newest \in [Slots -> 0 .. MaxGen] /\ registry \in [Slots -> 0 .. MaxGen]
    /\ started \subseteq Streams /\ ended \subseteq Streams /\ excused \subseteq Slots
ScreenTypes ==
    /\ conn \in {"off", "first", "open", "again", "done"}
    /\ view \subseteq Streams /\ keys \subseteq Slots
ChannelTypes ==
    /\ events \in {"none", "starting", "on", "closed"}
    /\ buf \in Seq(Events) /\ Len(buf) <= EventCap
SourceTypes == source \in [Sessions -> {"none", "starting", "on", "closed"}]
AlertTypes ==
    /\ inbox \in [Sessions -> 0 .. EventCap] /\ holding \in [Sessions -> BOOLEAN]
    /\ merged \in 0 .. AlertCap
FaultTypes == faults \in 0 .. MaxFaults

LEMMA TypeParts ==
  TypeOK <=> PeerTypes /\ ScreenTypes /\ ChannelTypes /\ SourceTypes /\ AlertTypes /\ FaultTypes
  BY DEF TypeOK, PeerTypes, ScreenTypes, ChannelTypes, SourceTypes, AlertTypes, FaultTypes, Phases

LEMMA TypeInit == Init => TypeOK
  BY DEF Init, TypeOK, Gens

(* A stream is a slot and a generation, and its session is one of ours.    *)
LEMMA StreamParts ==
  ASSUME NEW st \in Streams
  PROVE st[1] \in Slots /\ st[2] \in Gens /\ SessionOf(st[1]) \in Sessions
  BY DEF Streams, Slots, SessionOf

LEMMA StreamPair ==
  ASSUME NEW slot \in Slots, NEW g \in Gens
  PROVE <<slot, g>> \in Streams
  BY DEF Streams

(* What a snapshot shows.                                                  *)
LEMMA RegisteredType ==
  ASSUME PeerTypes, NEW K \in SUBSET Slots
  PROVE Registered(K) \subseteq Streams
  <1> SUFFICES ASSUME NEW slot \in K, registry[slot] # 0 PROVE <<slot, registry[slot]>> \in Streams
    BY DEF Registered
  <1>1. slot \in Slots /\ registry[slot] \in Gens
    BY DEF PeerTypes, Gens
  <1>2. QED
    BY <1>1, StreamPair

(* The subscription's channel, whatever is published.                      *)
LEMMA EventType ==
  ASSUME NEW type \in {"joined", "left", "disconnected", "reconnected"}, NEW slot \in Slots, NEW g \in Gens
  PROVE Event(type, slot, g) \in Events
  BY StreamPair DEF Event, Events

LEMMA DeliveredType ==
  ASSUME ChannelTypes, NEW e \in Events
  PROVE Delivered(e) \in Seq(Events) /\ Len(Delivered(e)) <= EventCap
  BY DEF ChannelTypes, Delivered

LEMMA PublishType ==
  ASSUME ChannelTypes, NEW e \in Events, PublishParticipantEvent(e), UNCHANGED events
  PROVE ChannelTypes'
  <1>1. buf' = Delivered(e) \/ buf' = buf
    BY DEF PublishParticipantEvent
  <1>2. QED
    BY <1>1, DeliveredType DEF ChannelTypes

(* What peers and consumers change.                                        *)
LEMMA PeerTypesStep == PeerTypes /\ [Next]_vars => PeerTypes'
  <1> SUFFICES ASSUME PeerTypes, [Next]_vars PROVE PeerTypes'
    OBVIOUS
  <1> USE DEF PeerTypes, streamVars, alertVars, monitorVars, Ok, Fault
  <1>1. ASSUME NEW slot \in Slots, Open(slot) PROVE PeerTypes'
    <2>1. newest' \in [Slots -> 0 .. MaxGen]
      BY <1>1 DEF Open
    <2>2. phase' \in [Slots -> [Gens -> Phases]]
      <3>1. \A ph \in Phases : Replaced(ph) \in Phases
        BY DEF Replaced, Phases
      <3>2. [h \in Gens |-> IF h = newest[slot] + 1 THEN "connecting" ELSE Replaced(phase[slot][h])] \in [Gens -> Phases]
        BY <3>1 DEF Phases
      <3>3. phase' = [phase EXCEPT ![slot] =
                        [h \in Gens |-> IF h = newest[slot] + 1 THEN "connecting" ELSE Replaced(phase[slot][h])]]
        BY <1>1 DEF Open
      <3>4. QED
        BY <3>2, <3>3
    <2>3. QED
      BY <1>1, <2>1, <2>2 DEF Open
  <1>2. ASSUME NEW slot \in Slots, Expire(slot) PROVE PeerTypes'
    BY <1>2 DEF Expire
  <1>3. ASSUME NEW slot \in Slots, NEW g \in Gens, Connected(slot, g) PROVE PeerTypes'
    <2>1. phase' \in [Slots -> [Gens -> Phases]]
      BY <1>3 DEF Connected, AfterConnect, Phases
    <2>2. g \in 0 .. MaxGen /\ <<slot, g>> \in Streams
      BY StreamPair DEF Gens
    <2>3. registry' \in [Slots -> 0 .. MaxGen]
      BY <1>3, <2>2 DEF Connected
    <2>4. started' \subseteq Streams /\ excused' \subseteq Slots
      BY <1>3, <2>2 DEF Connected
    <2>5. QED
      BY <1>3, <2>1, <2>3, <2>4 DEF Connected
  <1>4. ASSUME NEW slot \in Slots, NEW g \in Gens, Disconnected(slot, g) PROVE PeerTypes'
    <2>1. phase' \in [Slots -> [Gens -> Phases]]
      BY <1>4 DEF Disconnected, Phases
    <2>2. QED
      BY <1>4, <2>1 DEF Disconnected
  <1>5. ASSUME NEW slot \in Slots, NEW g \in Gens, Reconnected(slot, g) PROVE PeerTypes'
    <2>1. phase' \in [Slots -> [Gens -> Phases]]
      BY <1>5 DEF Reconnected, Phases
    <2>2. QED
      BY <1>5, <2>1 DEF Reconnected
  <1>6. ASSUME NEW slot \in Slots, NEW g \in Gens, Leave(slot, g) PROVE PeerTypes'
    <2>1. phase' \in [Slots -> [Gens -> Phases]]
      BY <1>6 DEF Leave, Phases
    <2>2. QED
      BY <1>6, <2>1 DEF Leave
  <1>7. ASSUME NEW slot \in Slots, NEW g \in Gens, NotifyStreamEnded(slot, g) PROVE PeerTypes'
    <2>1. phase' \in [Slots -> [Gens -> Phases]]
      BY <1>7 DEF NotifyStreamEnded, Phases
    <2>2. <<slot, g>> \in Streams
      BY StreamPair
    <2>3. registry' \in [Slots -> 0 .. MaxGen] /\ excused' \subseteq Slots
      <3>1. CASE Unregister(slot, g)
        BY <3>1 DEF Unregister
      <3>2. CASE UNCHANGED <<registry, excused>>
        BY <3>2
      <3>3. QED
        BY <1>7, <3>1, <3>2 DEF NotifyStreamEnded
    <2>4. ended' \subseteq Streams
      BY <1>7, <2>2 DEF NotifyStreamEnded
    <2>5. QED
      BY <1>7, <2>1, <2>3, <2>4 DEF NotifyStreamEnded
  <1>8. ASSUME NEW slot \in Slots, NEW g \in Gens, Die(slot, g) PROVE PeerTypes'
    <2>1. phase' \in [Slots -> [Gens -> Phases]]
      BY <1>8 DEF Die, Phases
    <2>2. QED
      BY <1>8, <2>1 DEF Die
  <1>9. ASSUME NEW st \in Streams, HandleStreamStarted(st) PROVE PeerTypes'
    BY <1>9 DEF HandleStreamStarted
  <1>10. ASSUME NEW st \in Streams, HandleStreamEnded(st) PROVE PeerTypes'
    BY <1>10 DEF HandleStreamEnded
  <1>11. CASE UNCHANGED <<streamVars>>
    BY <1>11
  <1>12. QED
    BY <1>1, <1>2, <1>3, <1>4, <1>5, <1>6, <1>7, <1>8, <1>9, <1>10, <1>11
       DEF Next, PeerStep, MonitorStep, vars, PublishAlert, AlertsSubscribed, AlertsClosed,
           FanInTake, FanInPass, EventsSubscribed, EventsClosed, Connect, FirstSnapshot,
           SnapshotTick, Snapshot, RelayEvent, RelayAlert, EventsEnded, Disconnect

(* What ServeMonitor shows.                                                *)
LEMMA ScreenTypesStep == PeerTypes /\ ChannelTypes /\ ScreenTypes /\ [Next]_vars => ScreenTypes'
  <1> SUFFICES ASSUME PeerTypes /\ ChannelTypes /\ ScreenTypes, [Next]_vars PROVE ScreenTypes'
    OBVIOUS
  <1> USE DEF ScreenTypes, streamVars, alertVars, monitorVars, Ok, Fault
  <1>1. CASE Connect
    BY <1>1 DEF Connect, ScanSchedule
  <1>2. CASE FirstSnapshot
    <2>1. Registered(keys) \subseteq Streams
      BY RegisteredType
    <2>2. QED
      BY <1>2, <2>1 DEF FirstSnapshot, HangUp
  <1>3. CASE SnapshotTick
    BY <1>3 DEF SnapshotTick, ScanSchedule
  <1>4. CASE Snapshot
    <2>1. Registered(keys) \subseteq Streams
      BY RegisteredType
    <2>2. QED
      BY <1>4, <2>1 DEF Snapshot, HangUp
  <1>5. CASE RelayEvent
    <2>1. Head(buf) \in Events
      BY <1>5 DEF RelayEvent, ChannelTypes
    <2>2. Head(buf).stream \in Streams
      BY <2>1 DEF Events
    <2>3. Shown(Head(buf)) \subseteq Streams
      BY <2>2 DEF Shown
    <2>4. QED
      BY <1>5, <2>3 DEF RelayEvent, HangUp
  <1>6. CASE EventsEnded
    BY <1>6 DEF EventsEnded, HangUp
  <1>7. CASE Disconnect
    BY <1>7 DEF Disconnect, HangUp
  <1>8. CASE UNCHANGED <<monitorVars>>
    BY <1>8
  <1>9. QED
    BY <1>1, <1>2, <1>3, <1>4, <1>5, <1>6, <1>7, <1>8
       DEF Next, PeerStep, MonitorStep, vars, Open, Expire, Connected, Disconnected, Reconnected,
           Leave, NotifyStreamEnded, Die, HandleStreamStarted, HandleStreamEnded, PublishAlert,
           AlertsSubscribed, AlertsClosed, FanInTake, FanInPass, EventsSubscribed, EventsClosed,
           RelayAlert

(* What is published and relayed.                                          *)
LEMMA ChannelTypesStep == ChannelTypes /\ [Next]_vars => ChannelTypes'
  <1> SUFFICES ASSUME ChannelTypes, [Next]_vars PROVE ChannelTypes'
    OBVIOUS
  <1> USE DEF streamVars, alertVars, monitorVars
  <1>1. ASSUME NEW slot \in Slots, NEW g \in Gens, Disconnected(slot, g) PROVE ChannelTypes'
    BY <1>1, EventType, PublishType DEF Disconnected
  <1>2. ASSUME NEW slot \in Slots, NEW g \in Gens, Reconnected(slot, g) PROVE ChannelTypes'
    BY <1>2, EventType, PublishType DEF Reconnected
  <1>3. ASSUME NEW slot \in Slots, NEW g \in Gens, Leave(slot, g) PROVE ChannelTypes'
    BY <1>3, EventType, PublishType DEF Leave
  <1>4. ASSUME NEW st \in Streams, HandleStreamStarted(st) PROVE ChannelTypes'
    <2>1. Event("joined", st[1], st[2]) \in Events
      BY EventType, StreamParts
    <2>2. UNCHANGED events
      BY <1>4 DEF HandleStreamStarted
    <2>3. CASE PublishParticipantEvent(Event("joined", st[1], st[2]))
      BY <2>1, <2>2, <2>3, PublishType
    <2>4. CASE buf' = Delivered(Event("joined", st[1], st[2]))
      BY <2>1, <2>2, <2>4, DeliveredType DEF ChannelTypes
    <2>5. QED
      BY <1>4, <2>3, <2>4 DEF HandleStreamStarted
  <1>5. ASSUME NEW st \in Streams, HandleStreamEnded(st) PROVE ChannelTypes'
    <2>1. Event("left", st[1], st[2]) \in Events
      BY EventType, StreamParts
    <2>2. UNCHANGED events
      BY <1>5 DEF HandleStreamEnded
    <2>3. CASE PublishParticipantEvent(Event("left", st[1], st[2]))
      BY <2>1, <2>2, <2>3, PublishType
    <2>4. CASE buf' = Delivered(Event("left", st[1], st[2]))
      BY <2>1, <2>2, <2>4, DeliveredType DEF ChannelTypes
    <2>5. QED
      BY <1>5, <2>3, <2>4 DEF HandleStreamEnded
  <1>6. CASE EventsSubscribed
    BY <1>6 DEF EventsSubscribed, ChannelTypes
  <1>7. CASE EventsClosed
    BY <1>7 DEF EventsClosed, ChannelTypes
  <1>8. CASE FirstSnapshot
    BY <1>8 DEF FirstSnapshot, ChannelTypes
  <1>9. CASE RelayEvent
    <2>1. buf \in Seq(Events) /\ buf # <<>> /\ Len(buf) <= EventCap /\ buf' = Tail(buf)
      BY <1>9 DEF RelayEvent, ChannelTypes
    <2>2. buf' \in Seq(Events) /\ Len(buf') = Len(buf) - 1
      BY <2>1
    <2>3. UNCHANGED events
      BY <1>9 DEF RelayEvent
    <2>4. QED
      BY <2>1, <2>2, <2>3 DEF ChannelTypes
  <1>10. CASE UNCHANGED <<events, buf>>
    BY <1>10 DEF ChannelTypes
  <1>11. QED
    BY <1>1, <1>2, <1>3, <1>4, <1>5, <1>6, <1>7, <1>8, <1>9, <1>10
       DEF Next, PeerStep, MonitorStep, vars, Open, Expire, Connected, NotifyStreamEnded, Die,
           PublishAlert, AlertsSubscribed, AlertsClosed, FanInTake, FanInPass, Connect,
           SnapshotTick, Snapshot, RelayAlert, EventsEnded, Disconnect

(* The alert subscriptions.                                                *)
LEMMA SourceTypesStep == SourceTypes /\ [Next]_vars => SourceTypes'
  <1> SUFFICES ASSUME SourceTypes, [Next]_vars PROVE SourceTypes'
    OBVIOUS
  <1> USE DEF SourceTypes, streamVars, alertVars, monitorVars, Ok, Fault
  <1>1. ASSUME NEW s \in Sessions, AlertsSubscribed(s) PROVE SourceTypes'
    BY <1>1 DEF AlertsSubscribed
  <1>2. ASSUME NEW s \in Sessions, AlertsClosed(s) PROVE SourceTypes'
    BY <1>2 DEF AlertsClosed
  <1>3. CASE FirstSnapshot
    BY <1>3 DEF FirstSnapshot, SubscribeSessions
  <1>4. CASE Snapshot
    BY <1>4 DEF Snapshot, SubscribeSessions, HangUp
  <1>5. CASE RelayEvent
    BY <1>5 DEF RelayEvent, SubscribeSessions, HangUp, Shown
  <1>6. CASE UNCHANGED <<source>>
    BY <1>6
  <1>7. QED
    BY <1>1, <1>2, <1>3, <1>4, <1>5, <1>6
       DEF Next, PeerStep, MonitorStep, vars, Open, Expire, Connected, Disconnected, Reconnected,
           Leave, NotifyStreamEnded, Die, HandleStreamStarted, HandleStreamEnded, PublishAlert,
           FanInTake, FanInPass, EventsSubscribed, EventsClosed, Connect, SnapshotTick, RelayAlert,
           EventsEnded, Disconnect

(* The fan-in.                                                             *)
LEMMA AlertTypesStep == AlertTypes /\ [Next]_vars => AlertTypes'
  <1> SUFFICES ASSUME AlertTypes, [Next]_vars PROVE AlertTypes'
    OBVIOUS
  <1> USE DEF AlertTypes, streamVars, alertVars, monitorVars, Ok, Fault
  <1>1. ASSUME NEW s \in Sessions, PublishAlert(s) PROVE AlertTypes'
    BY <1>1 DEF PublishAlert
  <1>2. ASSUME NEW s \in Sessions, FanInTake(s) PROVE AlertTypes'
    BY <1>2 DEF FanInTake
  <1>3. ASSUME NEW s \in Sessions, FanInPass(s) PROVE AlertTypes'
    BY <1>3 DEF FanInPass
  <1>4. CASE RelayAlert
    BY <1>4 DEF RelayAlert
  <1>5. CASE UNCHANGED <<alertVars>>
    BY <1>5
  <1>6. QED
    BY <1>1, <1>2, <1>3, <1>4, <1>5
       DEF Next, PeerStep, MonitorStep, vars, Open, Expire, Connected, Disconnected, Reconnected,
           Leave, NotifyStreamEnded, Die, HandleStreamStarted, HandleStreamEnded, AlertsSubscribed,
           AlertsClosed, EventsSubscribed, EventsClosed, Connect, FirstSnapshot, SnapshotTick,
           Snapshot, RelayEvent, EventsEnded, Disconnect

(* The bound on faults.                                                    *)
LEMMA FaultTypesStep == FaultTypes /\ [Next]_vars => FaultTypes'
  <1> SUFFICES ASSUME FaultTypes, [Next]_vars PROVE FaultTypes'
    OBVIOUS
  <1> USE DEF FaultTypes, streamVars, alertVars, monitorVars, Ok, Fault
  <1>1. ASSUME NEW slot \in Slots, NEW g \in Gens, Connected(slot, g) PROVE FaultTypes'
    BY <1>1 DEF Connected, Calls, AfterConnect
  <1>2. ASSUME NEW slot \in Slots, NEW g \in Gens, Disconnected(slot, g) PROVE FaultTypes'
    BY <1>2 DEF Disconnected, PublishParticipantEvent
  <1>3. ASSUME NEW slot \in Slots, NEW g \in Gens, Reconnected(slot, g) PROVE FaultTypes'
    BY <1>3 DEF Reconnected, PublishParticipantEvent
  <1>4. ASSUME NEW slot \in Slots, NEW g \in Gens, Leave(slot, g) PROVE FaultTypes'
    BY <1>4 DEF Leave, PublishParticipantEvent
  <1>5. ASSUME NEW slot \in Slots, NEW g \in Gens, NotifyStreamEnded(slot, g) PROVE FaultTypes'
    BY <1>5 DEF NotifyStreamEnded, Calls, Unregister
  <1>6. ASSUME NEW slot \in Slots, NEW g \in Gens, Die(slot, g) PROVE FaultTypes'
    BY <1>6 DEF Die
  <1>7. ASSUME NEW st \in Streams, HandleStreamStarted(st) PROVE FaultTypes'
    BY <1>7 DEF HandleStreamStarted, PublishParticipantEvent
  <1>8. ASSUME NEW st \in Streams, HandleStreamEnded(st) PROVE FaultTypes'
    BY <1>8 DEF HandleStreamEnded, PublishParticipantEvent
  <1>9. ASSUME NEW s \in Sessions, AlertsClosed(s) PROVE FaultTypes'
    BY <1>9 DEF AlertsClosed
  <1>10. CASE EventsClosed
    BY <1>10 DEF EventsClosed
  <1>11. CASE Connect
    BY <1>11 DEF Connect, ScanSchedule
  <1>12. CASE SnapshotTick
    BY <1>12 DEF SnapshotTick, ScanSchedule
  <1>13. CASE Snapshot
    BY <1>13 DEF Snapshot, SubscribeSessions, HangUp
  <1>14. CASE RelayEvent
    BY <1>14 DEF RelayEvent, SubscribeSessions, HangUp, Shown
  <1>15. ASSUME NEW slot \in Slots, Expire(slot) PROVE FaultTypes'
    BY <1>15 DEF Expire
  <1>16. CASE UNCHANGED <<faults>>
    BY <1>16
  <1>17. QED
    BY <1>1, <1>2, <1>3, <1>4, <1>5, <1>6, <1>7, <1>8, <1>9, <1>10, <1>11, <1>12, <1>13, <1>14,
       <1>15, <1>16
       DEF Next, PeerStep, MonitorStep, vars, Open, PublishAlert, AlertsSubscribed,
           FanInTake, FanInPass, EventsSubscribed, FirstSnapshot, RelayAlert, EventsEnded,
           Disconnect

LEMMA TypeStep == TypeOK /\ [Next]_vars => TypeOK'
  <1>1. TypeOK' <=> /\ PeerTypes' /\ ScreenTypes' /\ ChannelTypes' /\ SourceTypes' /\ AlertTypes'
                    /\ FaultTypes'
    BY DEF TypeOK, PeerTypes, ScreenTypes, ChannelTypes, SourceTypes, AlertTypes, FaultTypes, Phases
  <1>2. QED
    BY <1>1, TypeParts, PeerTypesStep, ScreenTypesStep, ChannelTypesStep, SourceTypesStep,
       AlertTypesStep,
       FaultTypesStep

-----------------------------------------------------------------------------
(***************************************************************************)
(* Alert routing.  A channel once asked for is never forgotten, and what   *)
(* adds a stream to the screen asks for its session's.                     *)
(***************************************************************************)
Routed(s) == source[s] # "none"

LEMMA SubscribeRoutes ==
  ASSUME SourceTypes, NEW ss, SubscribeSessions(ss), NEW s \in Sessions, Routed(s) \/ s \in ss
  PROVE source'[s] # "none"
  BY DEF SourceTypes, SubscribeSessions, Routed

(* Whatever puts a stream on the screen routes its alerts.                 *)
LEMMA TileStep == TypeOK /\ TileIsRouted /\ [Next]_vars => TileIsRouted'
  <1> SUFFICES ASSUME TypeOK /\ TileIsRouted, [Next]_vars PROVE TileIsRouted'
    OBVIOUS
  <1>t. PeerTypes /\ ScreenTypes /\ ChannelTypes /\ SourceTypes
    BY TypeParts
  <1> USE DEF TileIsRouted, streamVars, alertVars, monitorVars, Ok, Fault
  <1>1. ASSUME NEW s \in Sessions, AlertsSubscribed(s) PROVE TileIsRouted'
    <2>1. \A x \in Sessions : source[x] # "none" => source'[x] # "none"
      BY <1>1, <1>t DEF AlertsSubscribed, SourceTypes
    <2>2. \A st \in view : SessionOf(st[1]) \in Sessions
      BY <1>t, StreamParts DEF ScreenTypes
    <2>3. UNCHANGED <<conn, view>>
      BY <1>1 DEF AlertsSubscribed
    <2>4. QED
      BY <2>1, <2>2, <2>3
  <1>2. ASSUME NEW s \in Sessions, AlertsClosed(s) PROVE TileIsRouted'
    <2>1. \A x \in Sessions : source[x] # "none" => source'[x] # "none"
      BY <1>2, <1>t DEF AlertsClosed, SourceTypes
    <2>2. \A st \in view : SessionOf(st[1]) \in Sessions
      BY <1>t, StreamParts DEF ScreenTypes
    <2>3. UNCHANGED <<conn, view>>
      BY <1>2 DEF AlertsClosed
    <2>4. QED
      BY <2>1, <2>2, <2>3
  <1>3. CASE Connect
    BY <1>3 DEF Connect, ScanSchedule
  <1>4. CASE FirstSnapshot
    <2>1. Registered(keys) \subseteq Streams
      BY <1>t, RegisteredType DEF ScreenTypes
    <2>2. \A st \in Registered(keys) : SessionOf(st[1]) \in Sessions /\ SessionOf(st[1]) \in SessionsOf(Registered(keys))
      BY <2>1, StreamParts DEF SessionsOf
    <2>3. CASE view' = Registered(keys) /\ SubscribeSessions(SessionsOf(Registered(keys)))
      BY <1>t, <2>2, <2>3, SubscribeRoutes
    <2>5. QED
      BY <1>4, <2>3 DEF FirstSnapshot
  <1>5. CASE SnapshotTick
    BY <1>5 DEF SnapshotTick, ScanSchedule
  <1>6. CASE Snapshot
    <2>1. Registered(keys) \subseteq Streams
      BY <1>t, RegisteredType DEF ScreenTypes
    <2>2. \A st \in Registered(keys) : SessionOf(st[1]) \in Sessions /\ SessionOf(st[1]) \in SessionsOf(Registered(keys))
      BY <2>1, StreamParts DEF SessionsOf
    <2>3. CASE view' = Registered(keys) /\ SubscribeSessions(SessionsOf(Registered(keys)))
      BY <1>t, <2>2, <2>3, SubscribeRoutes
    <2>4. CASE HangUp \/ UNCHANGED <<view, source>>
      BY <1>6, <2>4 DEF Snapshot, HangUp
    <2>5. QED
      BY <1>6, <2>3, <2>4 DEF Snapshot, HangUp
  <1>7. CASE RelayEvent
    <2> DEFINE e == Head(buf)
    <2>1. e \in Events
      BY <1>7, <1>t DEF RelayEvent, ChannelTypes
    <2>2. e.stream \in Streams /\ SessionOf(e.stream[1]) \in Sessions
      BY <2>1, StreamParts DEF Events
    <2>3. CASE HangUp
      BY <2>3 DEF HangUp
    <2>4. CASE view' = Shown(e) /\ UNCHANGED conn
      <3>1. conn \in {"open", "again"}
        BY <1>7 DEF RelayEvent
      <3>2. CASE e.type = "joined"
        <4>1. SubscribeSessions({SessionOf(e.stream[1])}) /\ view' = view \cup {e.stream}
          BY <1>7, <2>4, <3>2 DEF RelayEvent, Shown
        <4> HIDE DEF e
        <4>2. ASSUME NEW st \in view' PROVE source'[SessionOf(st[1])] # "none"
          <5>1. SessionOf(st[1]) \in Sessions
            BY <1>t, <2>2, <4>1, StreamParts DEF ScreenTypes
          <5>2. Routed(SessionOf(st[1])) \/ SessionOf(st[1]) \in {SessionOf(e.stream[1])}
            BY <3>1, <4>1 DEF Routed
          <5>3. QED
            BY <1>t, <4>1, <5>1, <5>2, SubscribeRoutes
        <4>3. QED
          BY <4>2
      <3>3. CASE e.type # "joined"
        <4>1. UNCHANGED source /\ view' \subseteq view
          BY <1>7, <2>4, <3>3 DEF RelayEvent, Shown
        <4>2. QED
          BY <3>1, <4>1
      <3>4. QED
        BY <3>2, <3>3
    <2>5. QED
      BY <1>7, <2>3, <2>4 DEF RelayEvent
  <1>8. CASE EventsEnded
    BY <1>8 DEF EventsEnded, HangUp
  <1>9. CASE Disconnect
    BY <1>9 DEF Disconnect, HangUp
  <1>10. CASE UNCHANGED <<conn, view, source>>
    BY <1>10
  <1>11. QED
    BY <1>1, <1>2, <1>3, <1>4, <1>5, <1>6, <1>7, <1>8, <1>9, <1>10
       DEF Next, PeerStep, MonitorStep, vars, Open, Expire, Connected, Disconnected, Reconnected,
           Leave, NotifyStreamEnded, Die, HandleStreamStarted, HandleStreamEnded, PublishAlert,
           FanInTake, FanInPass, EventsSubscribed, EventsClosed, RelayAlert

-----------------------------------------------------------------------------
(***************************************************************************)
(* The registration of the stream that is up.                              *)
(***************************************************************************)
Fine(slot) == OnAir(slot) => registry[slot] = newest[slot]

(* Only its own close, its own failure to register or to refresh, or       *)
(* another peer of the slot takes the registration of a stream that is up; *)
(* all but the first are what excused records.                             *)
LEMMA RegistrationStep == TypeOK /\ RegistrationHolds /\ [Next]_vars => RegistrationHolds'
  <1> SUFFICES ASSUME TypeOK /\ RegistrationHolds, [Next]_vars PROVE RegistrationHolds'
    OBVIOUS
  <1>t. PeerTypes
    BY TypeParts
  <1>f. \A x \in Slots \ excused : Fine(x)
    BY DEF RegistrationHolds, Fine
  <1> USE DEF RegistrationHolds, Fine, OnAir, streamVars, alertVars, monitorVars, Ok, Fault
  <1>1. ASSUME NEW slot \in Slots, Open(slot) PROVE RegistrationHolds'
    <2>1. newest[slot] \in Nat /\ newest'[slot] = newest[slot] + 1 /\ newest'[slot] <= MaxGen
      BY <1>1, <1>t DEF Open, PeerTypes
    <2>2. newest'[slot] \in Gens
      BY <2>1 DEF Gens
    <2>3. phase'[slot][newest'[slot]] = "connecting"
      BY <1>1, <2>1, <2>2, <1>t DEF Open, PeerTypes
    <2>4. \A x \in Slots \ {slot} : newest'[x] = newest[x] /\ phase'[x] = phase[x]
      BY <1>1, <1>t DEF Open, PeerTypes
    <2>5. UNCHANGED <<registry, excused>>
      BY <1>1 DEF Open
    <2>6. QED
      BY <2>3, <2>4, <2>5
  <1>2. ASSUME NEW slot \in Slots, Expire(slot) PROVE RegistrationHolds'
    <2>1. /\ \A x \in Slots \ {slot} : registry'[x] = registry[x] /\ (x \in excused => x \in excused')
          /\ UNCHANGED <<phase, newest>>
      BY <1>2, <1>t DEF Expire, PeerTypes
    <2>2. OnAir(slot) => slot \in excused'
      BY <1>2 DEF Expire
    <2>3. QED
      BY <2>1, <2>2
  <1>3. ASSUME NEW slot \in Slots, NEW g \in Gens, Connected(slot, g) PROVE RegistrationHolds'
    <2>1. \A x \in Slots, h \in Gens :
             phase'[x][h] = IF x = slot /\ h = g THEN AfterConnect[phase[x][h]] ELSE phase[x][h]
      BY <1>3, <1>t DEF Connected, PeerTypes
    <2>2. PICK registers \in BOOLEAN :
             /\ registry' = IF registers THEN [registry EXCEPT ![slot] = g] ELSE registry
             /\ excused' = CASE registers /\ g = newest[slot] -> excused \ {slot}
                             [] registers # (g = newest[slot]) -> excused \cup {slot}
                             [] OTHER -> excused
      BY <1>3 DEF Connected
    <2>3. UNCHANGED newest
      BY <1>3 DEF Connected
    <2>4. ASSUME NEW x \in Slots \ {slot}, x \notin excused' PROVE Fine(x)'
      <3>1. x \notin excused /\ registry'[x] = registry[x]
        BY <2>2, <2>4, <1>t DEF PeerTypes
      <3>2. QED
        BY <2>1, <2>3, <3>1
    <2>5. ASSUME slot \notin excused' PROVE Fine(slot)'
      <3>1. CASE registers /\ g = newest[slot]
        BY <2>2, <2>3, <3>1, <1>t DEF PeerTypes
      <3>2. CASE ~registers /\ g # newest[slot]
        <4>1. slot \notin excused /\ registry' = registry
          BY <2>2, <2>5, <3>2
        <4>2. newest[slot] \in Gens => phase'[slot][newest[slot]] = phase[slot][newest[slot]]
          BY <2>1, <3>2
        <4>3. QED
          BY <2>3, <4>1, <4>2
      <3>3. CASE registers # (g = newest[slot])
        BY <2>2, <2>5, <3>3
      <3>4. QED
        BY <3>1, <3>2, <3>3
    <2>6. QED
      BY <2>4, <2>5
  <1>4. ASSUME NEW slot \in Slots, NEW g \in Gens, Disconnected(slot, g) PROVE RegistrationHolds'
    <2>1. \A x \in Slots, h \in Gens : phase'[x][h] \in {"live", "away"} => phase[x][h] \in {"live", "away"}
      BY <1>4, <1>t DEF Disconnected, PeerTypes, AfterConnect
    <2>2. UNCHANGED <<newest, registry, excused>>
      BY <1>4 DEF Disconnected
    <2>3. QED
      BY <2>1, <2>2
  <1>5. ASSUME NEW slot \in Slots, NEW g \in Gens, Reconnected(slot, g) PROVE RegistrationHolds'
    <2>1. \A x \in Slots, h \in Gens : phase'[x][h] \in {"live", "away"} => phase[x][h] \in {"live", "away"}
      BY <1>5, <1>t DEF Reconnected, PeerTypes, AfterConnect
    <2>2. UNCHANGED <<newest, registry, excused>>
      BY <1>5 DEF Reconnected
    <2>3. QED
      BY <2>1, <2>2
  <1>6. ASSUME NEW slot \in Slots, NEW g \in Gens, Leave(slot, g) PROVE RegistrationHolds'
    <2>1. \A x \in Slots, h \in Gens : phase'[x][h] \in {"live", "away"} => phase[x][h] \in {"live", "away"}
      BY <1>6, <1>t DEF Leave, PeerTypes, AfterConnect
    <2>2. UNCHANGED <<newest, registry, excused>>
      BY <1>6 DEF Leave
    <2>3. QED
      BY <2>1, <2>2
  <1>7. ASSUME NEW slot \in Slots, NEW g \in Gens, NotifyStreamEnded(slot, g) PROVE RegistrationHolds'
    <2>1. \A x \in Slots, h \in Gens : phase'[x][h] = IF x = slot /\ h = g THEN "over" ELSE phase[x][h]
      BY <1>7, <1>t DEF NotifyStreamEnded, PeerTypes
    <2>2. UNCHANGED newest /\ phase[slot][g] \notin {"live", "away"}
      BY <1>7 DEF NotifyStreamEnded
    <2>3. CASE UNCHANGED <<registry, excused>>
      BY <2>1, <2>2, <2>3
    <2>4. CASE Unregister(slot, g)
      <3>1. \A x \in Slots : registry'[x] = IF x = slot THEN 0 ELSE registry[x]
        BY <2>4, <1>t DEF Unregister, PeerTypes
      <3>2. excused' = IF registry[slot] \notin {0, g} THEN excused \cup {slot} ELSE excused
        BY <2>4 DEF Unregister
      <3>3. ASSUME NEW x \in Slots \ {slot}, x \notin excused' PROVE Fine(x)'
        BY <2>1, <2>2, <3>1, <3>2, <3>3
      <3>4. ASSUME slot \notin excused' PROVE ~OnAir(slot)'
        <4>1. slot \notin excused /\ registry[slot] \in {0, g}
          BY <3>2, <3>4
        <4>2. ~OnAir(slot)
          BY <2>2, <4>1 DEF Gens
        <4>3. QED
          BY <2>1, <2>2, <4>2
      <3>5. QED
        BY <3>3, <3>4
    <2>5. QED
      BY <1>7, <2>3, <2>4 DEF NotifyStreamEnded
  <1>8. ASSUME NEW slot \in Slots, NEW g \in Gens, Die(slot, g) PROVE RegistrationHolds'
    <2>1. \A x \in Slots, h \in Gens : phase'[x][h] \in {"live", "away"} => phase[x][h] \in {"live", "away"}
      BY <1>8, <1>t DEF Die, PeerTypes, AfterConnect
    <2>2. UNCHANGED <<newest, registry, excused>>
      BY <1>8 DEF Die
    <2>3. QED
      BY <2>1, <2>2
  <1>9. CASE UNCHANGED <<phase, newest, registry, excused>>
    BY <1>9
  <1>10. QED
    BY <1>1, <1>2, <1>3, <1>4, <1>5, <1>6, <1>7, <1>8, <1>9
       DEF Next, PeerStep, MonitorStep, vars, HandleStreamStarted, HandleStreamEnded, PublishAlert,
           AlertsSubscribed, AlertsClosed, FanInTake, FanInPass, EventsSubscribed, EventsClosed,
           Connect, FirstSnapshot, SnapshotTick, Snapshot, RelayEvent, RelayAlert, EventsEnded,
           Disconnect

-----------------------------------------------------------------------------
(* Every variable keeps its type, and no channel exceeds its capacity.     *)
THEOREM TypeCorrect == Spec => []TypeOK
  BY TypeInit, TypeStep, PTL DEF Spec

(* A student on the proctor's screen is a student whose alerts were asked  *)
(* for, whichever of snapshot, tick and joined event showed it first.      *)
THEOREM TilesAreRouted == Spec => []TileIsRouted
  <1>1. Init => TileIsRouted
    BY DEF Init, TileIsRouted
  <1>2. QED
    BY <1>1, TypeInit, TypeStep, TileStep, PTL DEF Spec

(* A stream that is up stays registered unless its own registration        *)
(* failed, its refreshes failed until the TTL ran out, or an older peer of *)
(* the slot registered or unregistered after it.                           *)
THEOREM RegistrationsHold == Spec => []RegistrationHolds
  <1>1. Init => RegistrationHolds
    BY DEF Init, RegistrationHolds, Gens
  <1>2. QED
    BY <1>1, TypeInit, TypeStep, RegistrationStep, PTL DEF Spec
=============================================================================
