---------------------------- MODULE MonitorFeed ----------------------------
(***************************************************************************)
(* What a proctor's screen is told about who is on air.                    *)
(*                                                                         *)
(* A peer registers its stream in Redis under a key of exam session and    *)
(* stream type (a "slot" here) and announces it through Kafka; consumers   *)
(* relay the announcements as joined and left events over Redis pub/sub,   *)
(* which forgets whatever nobody listens to.  ServeMonitor sends a         *)
(* snapshot of the registry when a monitor connects, then events as they   *)
(* come, and the snapshot again on every tick of a ticker.  Alerts come    *)
(* over one more channel per exam session, opened as sessions are seen.    *)
(*                                                                         *)
(* One schedule and one monitor connection: connections share nothing but  *)
(* the registry and the channels they listen to.                           *)
(***************************************************************************)
EXTENDS Naturals, Sequences

CONSTANTS
    Sessions,     \* exam sessions of the schedule
    Types,        \* stream types
    MaxGen,       \* bound: successive streams of one slot
    MaxAlerts,    \* bound: live alerts of a session on their way to the monitor
    EventCap,     \* capacity of a subscription's channel
    AlertCap,     \* capacity of the fan-in's merged channel
    MaxFaults     \* bound: failing calls, outages, lost connections, redeliveries

ASSUME ConstantsAssumption ==
    /\ MaxGen \in Nat /\ MaxAlerts \in Nat /\ MaxFaults \in Nat
    /\ EventCap \in Nat \ {0} /\ AlertCap \in Nat \ {0}

VARIABLES
    phase,        \* life of each stream's peer
    newest,       \* the stream of a slot the SessionManager points at
    registry,     \* Redis: the stream registered in each slot, 0 when absent
    started,      \* Kafka: stream.started messages not yet consumed
    ended,        \* Kafka: stream.ended messages not yet consumed
    faults,       \* faults so far
    conn,         \* where ServeMonitor is
    keys,         \* the registry keys its current scan returned
    events,       \* the participant-event subscription's goroutine
    buf,          \* its channel
    source,       \* the alert subscription of each session
    inbox,        \* alerts in its channel
    holding,      \* its fan-in goroutine has taken one and not passed it on
    merged,       \* alerts in the fan-in's channel
    view,         \* streams the monitor was told are on air
    excused       \* history: slots whose newest stream never got its
                  \* registration, or lost it to another peer of the slot
                  \* or to refreshes that kept failing

Slots == Sessions \X Types
Gens == 1 .. MaxGen
Streams == Slots \X Gens
SessionOf(slot) == slot[1]

streamVars == <<phase, newest, registry, started, ended, excused>>
alertVars == <<inbox, holding, merged>>
monitorVars == <<conn, keys, view>>
vars == <<streamVars, alertVars, faults, monitorVars, events, buf, source>>

Ok == UNCHANGED faults
Fault == faults < MaxFaults /\ faults' = faults + 1

(* Two calls in a row that fail independently of each other.               *)
Calls(first, second) ==
    /\ faults' = faults + (IF first THEN 0 ELSE 1) + (IF second THEN 0 ELSE 1)
    /\ faults' <= MaxFaults

-----------------------------------------------------------------------------
(***************************************************************************)
(* Redis pub/sub: PublishParticipantEvent.                                 *)
(***************************************************************************)

Event(type, slot, g) == [type |-> type, stream |-> <<slot, g>>]

(* The subscription's goroutine puts a message on its channel, or drops it *)
(* when the channel is full; without a subscription nobody gets it.        *)
Delivered(e) == IF events = "on" /\ Len(buf) < EventCap THEN Append(buf, e) ELSE buf

(* Publishing is fire-and-forget: a failure is logged.                     *)
PublishParticipantEvent(e) == (Ok /\ buf' = Delivered(e)) \/ (Fault /\ UNCHANGED buf)

-----------------------------------------------------------------------------
(***************************************************************************)
(* A peer, as far as the monitor learns of it.                             *)
(***************************************************************************)

(* ServeStream: the new peer takes the slot in the SessionManager and the  *)
(* replaced one is closed in a goroutine of its own.  One that is replaced *)
(* before it has connected may still connect, even while it closes.        *)
Replaced(ph) ==
    CASE ph = "connecting" -> "superseded"
      [] ph \in {"live", "away"} -> "replaced"
      [] OTHER -> ph

Open(slot) ==
    LET g == newest[slot] + 1 IN
    /\ g <= MaxGen
    /\ newest' = [newest EXCEPT ![slot] = g]
    /\ phase' = [phase EXCEPT ![slot] =
                    [h \in Gens |-> IF h = g THEN "connecting" ELSE Replaced(@[h])]]
    /\ UNCHANGED <<registry, started, ended, excused, alertVars, faults, monitorVars, events, buf, source>>

(* The first Connected state: NotifyStreamStarted registers the stream (a  *)
(* failure is logged) and publishes stream.started, and the heartbeat      *)
(* starts, which ends with the close.                                      *)
AfterConnect == [connecting |-> "live", superseded |-> "replaced", closing |-> "leaving"]

Connected(slot, g) ==
    /\ phase[slot][g] \in DOMAIN AfterConnect
    /\ phase' = [phase EXCEPT ![slot][g] = AfterConnect[@]]
    /\ \E registers, publishes \in BOOLEAN :
          /\ Calls(registers, publishes)
          /\ registry' = IF registers THEN [registry EXCEPT ![slot] = g] ELSE registry
          /\ started' = IF publishes THEN started \cup {<<slot, g>>} ELSE started
          /\ excused' = CASE registers /\ g = newest[slot] -> excused \ {slot}
                          [] registers # (g = newest[slot]) -> excused \cup {slot}
                          [] OTHER -> excused
    /\ UNCHANGED <<newest, ended, alertVars, monitorVars, events, buf, source>>

(* The transport drops, or comes back within its grace period; monitors    *)
(* are told directly.                                                      *)
Disconnected(slot, g) ==
    /\ phase[slot][g] = "live"
    /\ phase' = [phase EXCEPT ![slot][g] = "away"]
    /\ PublishParticipantEvent(Event("disconnected", slot, g))
    /\ UNCHANGED <<newest, registry, started, ended, excused, alertVars, monitorVars, events, source>>

Reconnected(slot, g) ==
    /\ phase[slot][g] = "away"
    /\ phase' = [phase EXCEPT ![slot][g] = "live"]
    /\ PublishParticipantEvent(Event("reconnected", slot, g))
    /\ UNCHANGED <<newest, registry, started, ended, excused, alertVars, monitorVars, events, source>>

(* Peer.close tells the monitor first ...                                  *)
Leave(slot, g) ==
    /\ phase[slot][g] \in {"connecting", "superseded", "live", "away", "replaced"}
    /\ phase' = [phase EXCEPT ![slot][g] = IF @ \in DOMAIN AfterConnect THEN "closing" ELSE "leaving"]
    /\ PublishParticipantEvent(Event("left", slot, g))
    /\ UNCHANGED <<newest, registry, started, ended, excused, alertVars, monitorVars, events, source>>

(* ... and, when uploads are drained, NotifyStreamEnded removes the slot's *)
(* registration, whoever's it is, and publishes stream.ended; the peer     *)
(* connection is closed after it.                                          *)
Unregister(slot, g) ==
    /\ registry' = [registry EXCEPT ![slot] = 0]
    /\ excused' = IF registry[slot] \notin {0, g} THEN excused \cup {slot} ELSE excused

NotifyStreamEnded(slot, g) ==
    /\ phase[slot][g] \in {"leaving", "closing"}
    /\ phase' = [phase EXCEPT ![slot][g] = "over"]
    /\ \E unregisters, publishes \in BOOLEAN :
          /\ Calls(unregisters, publishes)
          /\ IF unregisters THEN Unregister(slot, g) ELSE UNCHANGED <<registry, excused>>
          /\ ended' = IF publishes THEN ended \cup {<<slot, g>>} ELSE ended
    /\ UNCHANGED <<newest, started, alertVars, monitorVars, events, buf, source>>

(* The process of a peer with a heartbeat dies without closing it.         *)
Die(slot, g) ==
    /\ phase[slot][g] \in {"live", "away", "replaced"}
    /\ Fault
    /\ phase' = [phase EXCEPT ![slot][g] = "over"]
    /\ UNCHANGED <<newest, registry, started, ended, excused, alertVars, monitorVars, events, buf, source>>

(* Mutant: the heartbeat no longer keeps the registration.                 *)
ExpireUnrefreshed(slot) ==
    /\ registry[slot] # 0
    /\ registry' = [registry EXCEPT ![slot] = 0]
    /\ UNCHANGED <<phase, newest, started, ended, excused, alertVars, faults, monitorVars, events, buf, source>>

(* The slot's newest stream is up: connected and not closing.              *)
OnAir(slot) == newest[slot] \in Gens /\ phase[slot][newest[slot]] \in {"live", "away"}

(* The registration's TTL runs out once no peer's heartbeat refreshes the  *)
(* key, or every refresh fails for as long as the TTL lasts, which is only *)
(* logged: such an outage is one fault.  RefreshStream extends a key that  *)
(* exists and restores none, so the stream stays without.                  *)
Expire(slot) ==
    /\ registry[slot] # 0
    /\ \/ (\A g \in Gens : phase[slot][g] \notin {"live", "away", "replaced"}) /\ Ok /\ UNCHANGED excused
       \/ Fault /\ excused' = IF OnAir(slot) THEN excused \cup {slot} ELSE excused
    /\ registry' = [registry EXCEPT ![slot] = 0]
    /\ UNCHANGED <<phase, newest, started, ended, alertVars, monitorVars, events, buf, source>>

-----------------------------------------------------------------------------
(***************************************************************************)
(* The consumers of stream.started and stream.ended.  Messages of the two  *)
(* topics reach the monitor in any order, and again after a redelivery.    *)
(***************************************************************************)

HandleStreamStarted(st) ==
    /\ st \in started
    /\ \/ started' = started \ {st} /\ PublishParticipantEvent(Event("joined", st[1], st[2]))
       \/ Fault /\ UNCHANGED started /\ buf' = Delivered(Event("joined", st[1], st[2]))
    /\ UNCHANGED <<phase, newest, registry, ended, excused, alertVars, monitorVars, events, source>>

HandleStreamEnded(st) ==
    /\ st \in ended
    /\ \/ ended' = ended \ {st} /\ PublishParticipantEvent(Event("left", st[1], st[2]))
       \/ Fault /\ UNCHANGED ended /\ buf' = Delivered(Event("left", st[1], st[2]))
    /\ UNCHANGED <<phase, newest, registry, started, excused, alertVars, monitorVars, events, source>>

-----------------------------------------------------------------------------
(***************************************************************************)
(* Alerts.                                                                 *)
(***************************************************************************)

(* ScanSession: the live registrations of one exam session.                *)
ScanSession(s) == {slot \in Slots : SessionOf(slot) = s /\ registry[slot] # 0}

(* The slots an alert without a stream may be credited to: the one of its  *)
(* own type, or, when that is not registered, whichever the scan lists     *)
(* first.                                                                  *)
EnrichAlertIdentity(s, type) ==
    IF <<s, type>> \in ScanSession(s) THEN {<<s, type>>} ELSE ScanSession(s)

(* PublishAlert sends the alert to the live channel of its session, and    *)
(* then to the durable topic, which other services read; either may fail.  *)
(* Without a listener, or when the listener's channel is full, the live    *)
(* copy changes nothing.                                                   *)
PublishAlert(s) ==
    /\ inbox[s] + merged + (IF holding[s] THEN 1 ELSE 0) < MaxAlerts
    /\ source[s] = "on" /\ inbox[s] < EventCap
    /\ inbox' = [inbox EXCEPT ![s] = @ + 1]
    /\ UNCHANGED <<streamVars, faults, holding, merged, monitorVars, events, buf, source>>

(* SubscribeAlerts: its SUBSCRIBE takes effect some time after the call,   *)
(* and it ends for good on a receive error or when the monitor is gone.    *)
AlertsSubscribed(s) ==
    /\ source[s] = "starting"
    /\ source' = [source EXCEPT ![s] = "on"]
    /\ UNCHANGED <<streamVars, alertVars, faults, monitorVars, events, buf>>

AlertsClosed(s) ==
    /\ source[s] \in {"starting", "on"}
    /\ source' = [source EXCEPT ![s] = "closed"]
    /\ IF conn = "done" THEN Ok ELSE Fault
    /\ UNCHANGED <<streamVars, alertVars, monitorVars, events, buf>>

(* The fan-in goroutine of a source moves alerts to the merged channel.    *)
FanInTake(s) ==
    /\ source[s] # "none" /\ ~holding[s] /\ inbox[s] > 0
    /\ inbox' = [inbox EXCEPT ![s] = @ - 1]
    /\ holding' = [holding EXCEPT ![s] = TRUE]
    /\ UNCHANGED <<streamVars, merged, faults, monitorVars, events, buf, source>>

(* Mutant: it gives up on a full channel without looking at the context.   *)
FanInPassBlocking(s) ==
    /\ holding[s] /\ merged < AlertCap
    /\ merged' = merged + 1
    /\ holding' = [holding EXCEPT ![s] = FALSE]
    /\ UNCHANGED <<streamVars, inbox, faults, monitorVars, events, buf, source>>

FanInPass(s) ==
    /\ holding[s]
    /\ \/ merged < AlertCap /\ merged' = merged + 1
       \/ conn = "done" /\ UNCHANGED merged
    /\ holding' = [holding EXCEPT ![s] = FALSE]
    /\ UNCHANGED <<streamVars, inbox, faults, monitorVars, events, buf, source>>

-----------------------------------------------------------------------------
(***************************************************************************)
(* ServeMonitor.                                                           *)
(***************************************************************************)

(* subscribeSession opens a session's alert channel once per connection.   *)
SubscribeSessions(ss) ==
    source' = [s \in Sessions |-> IF s \in ss /\ source[s] = "none" THEN "starting" ELSE source[s]]

(* ServeMonitor returns: its context is cancelled and the screen is gone.  *)
HangUp == conn' = "done" /\ view' = {}

Registered(slots) == {<<slot, registry[slot]>> : slot \in {k \in slots : registry[k] # 0}}
SessionsOf(sts) == {SessionOf(st[1]) : st \in sts}

(* ScanSchedule lists the keys, then fetches their values.                 *)
ScanSchedule == keys' = {slot \in Slots : registry[slot] # 0}

(* A monitor connects; a scan that fails yields an empty snapshot.         *)
Connect ==
    /\ conn = "off"
    /\ conn' = "first"
    /\ \/ ScanSchedule /\ Ok
       \/ keys' = {} /\ Fault
    /\ UNCHANGED <<streamVars, alertVars, view, events, buf, source>>

(* The snapshot is written, then the subscriptions are opened, then the    *)
(* alert channels of the streams in it.                                    *)
FirstSnapshot ==
    /\ conn = "first"
    /\ conn' = "open"
    /\ view' = Registered(keys) /\ keys' = {}
    /\ events' = "starting"
    /\ SubscribeSessions(SessionsOf(Registered(keys)))
    /\ UNCHANGED <<streamVars, alertVars, faults, buf>>

EventsSubscribed ==
    /\ events = "starting"
    /\ events' = "on"
    /\ UNCHANGED <<streamVars, alertVars, faults, monitorVars, buf, source>>

(* SubscribeEvents ends on a receive error or with the connection.         *)
EventsClosed ==
    /\ events \in {"starting", "on"}
    /\ events' = "closed"
    /\ IF conn = "done" THEN Ok ELSE Fault
    /\ UNCHANGED <<streamVars, alertVars, monitorVars, buf, source>>

(* The ticker: scan again; an error skips the round.                       *)
SnapshotTick ==
    /\ conn = "open"
    /\ \/ conn' = "again" /\ ScanSchedule /\ Ok
       \/ Fault /\ UNCHANGED <<conn, keys>>
    /\ UNCHANGED <<streamVars, alertVars, view, events, buf, source>>

(* Mutants: the round only repairs one of the two.                         *)
SnapshotRoutesOnly ==
    /\ conn = "again"
    /\ conn' = "open"
    /\ keys' = {}
    /\ SubscribeSessions(SessionsOf(Registered(keys)))
    /\ UNCHANGED <<streamVars, alertVars, faults, events, buf, view>>

SnapshotWritesOnly ==
    /\ conn = "again"
    /\ conn' = "open"
    /\ view' = Registered(keys) /\ keys' = {}
    /\ UNCHANGED <<streamVars, alertVars, faults, events, buf, source>>

(* Open the alert channels of what it found, then write it; a failing      *)
(* write, or a failing MGET, ends the connection or the round.             *)
Snapshot ==
    /\ conn = "again"
    /\ keys' = {}
    /\ \/ /\ conn' = "open" /\ Ok
          /\ view' = Registered(keys)
          /\ SubscribeSessions(SessionsOf(Registered(keys)))
       \/ Fault /\ (HangUp \/ (conn' = "open" /\ UNCHANGED view)) /\ UNCHANGED source
    /\ UNCHANGED <<streamVars, alertVars, events, buf>>

(* What the monitor makes of an event.                                     *)
Shown(e) ==
    CASE e.type = "joined" -> view \cup {e.stream}
      [] e.type = "left" -> view \ {e.stream}
      [] OTHER -> view

(* Mutant: a joined event is relayed without opening its alert channel.    *)
RelayUnrouted ==
    /\ conn = "open" /\ buf # <<>>
    /\ buf' = Tail(buf)
    /\ view' = Shown(Head(buf))
    /\ UNCHANGED <<streamVars, alertVars, faults, conn, keys, events, source>>

(* An event is relayed; a closed subscription or a failing write ends the  *)
(* connection.                                                             *)
RelayEvent ==
    LET e == Head(buf) IN
    /\ conn = "open" /\ buf # <<>>
    /\ buf' = Tail(buf)
    /\ IF e.type = "joined" THEN SubscribeSessions({SessionOf(e.stream[1])}) ELSE UNCHANGED source
    /\ \/ Ok /\ view' = Shown(e) /\ UNCHANGED conn
       \/ Fault /\ HangUp
    /\ UNCHANGED <<streamVars, alertVars, keys, events>>

RelayAlert ==
    /\ conn = "open" /\ merged > 0
    /\ merged' = merged - 1
    /\ UNCHANGED <<streamVars, inbox, holding, faults, monitorVars, events, buf, source>>

EventsEnded ==
    /\ conn = "open" /\ events = "closed" /\ buf = <<>>
    /\ HangUp
    /\ UNCHANGED <<streamVars, alertVars, faults, keys, events, buf, source>>

(* The client goes away or stops answering pings, its token expires, the   *)
(* subscription to the captured frames breaks or an alert cannot be        *)
(* written.  Frames are relayed as they come and leave no trace.           *)
Disconnect ==
    /\ conn = "open"
    /\ HangUp
    /\ UNCHANGED <<streamVars, alertVars, faults, keys, events, buf, source>>

-----------------------------------------------------------------------------
Init ==
    /\ phase = [slot \in Slots |-> [g \in Gens |-> "none"]]
    /\ newest = [slot \in Slots |-> 0]
    /\ registry = [slot \in Slots |-> 0]
    /\ started = {} /\ ended = {} /\ excused = {}
    /\ merged = 0 /\ faults = 0
    /\ inbox = [s \in Sessions |-> 0]
    /\ holding = [s \in Sessions |-> FALSE]
    /\ conn = "off" /\ keys = {} /\ view = {}
    /\ events = "none" /\ buf = <<>>
    /\ source = [s \in Sessions |-> "none"]

PeerStep(slot) ==
    \/ Open(slot) \/ Expire(slot)
    \/ \E g \in Gens :
          \/ Connected(slot, g) \/ Disconnected(slot, g) \/ Reconnected(slot, g)
          \/ Leave(slot, g) \/ NotifyStreamEnded(slot, g) \/ Die(slot, g)

MonitorStep ==
    Connect \/ FirstSnapshot \/ SnapshotTick \/ Snapshot \/ RelayEvent \/ RelayAlert
        \/ EventsEnded \/ Disconnect

Next ==
    \/ \E slot \in Slots : PeerStep(slot)
    \/ \E st \in Streams : HandleStreamStarted(st) \/ HandleStreamEnded(st)
    \/ \E s \in Sessions :
          PublishAlert(s) \/ AlertsSubscribed(s) \/ AlertsClosed(s) \/ FanInTake(s) \/ FanInPass(s)
    \/ EventsSubscribed \/ EventsClosed
    \/ MonitorStep

Spec == Init /\ [][Next]_vars

(* ServeMonitor's loop and the goroutines it started are scheduled by the  *)
(* runtime and its ticker fires; a closed context ends a receive at once.  *)
(* Peers, clients and the Kafka consumers owe nothing.                     *)
Fairness ==
    /\ WF_vars(FirstSnapshot) /\ WF_vars(SnapshotTick) /\ WF_vars(Snapshot)
    /\ WF_vars(EventsSubscribed) /\ WF_vars(conn = "done" /\ EventsClosed)
    /\ \A s \in Sessions :
          /\ WF_vars(AlertsSubscribed(s)) /\ WF_vars(conn = "done" /\ AlertsClosed(s))
          /\ WF_vars(FanInTake(s)) /\ WF_vars(FanInPass(s))

LiveSpec == Spec /\ Fairness

-----------------------------------------------------------------------------
Events == [type : {"joined", "left", "disconnected", "reconnected"}, stream : Streams]

(* Every variable has its type; no channel holds more than its capacity.   *)
TypeOK ==
    /\ phase \in [Slots -> [Gens -> {"none", "connecting", "superseded", "live", "away",
                                     "replaced", "closing", "leaving", "over"}]]
    /\ newest \in [Slots -> 0 .. MaxGen] /\ registry \in [Slots -> 0 .. MaxGen]
    /\ started \subseteq Streams /\ ended \subseteq Streams
    /\ view \subseteq Streams /\ keys \subseteq Slots /\ excused \subseteq Slots
    /\ faults \in 0 .. MaxFaults
    /\ conn \in {"off", "first", "open", "again", "done"}
    /\ events \in {"none", "starting", "on", "closed"}
    /\ buf \in Seq(Events) /\ Len(buf) <= EventCap
    /\ source \in [Sessions -> {"none", "starting", "on", "closed"}]
    /\ inbox \in [Sessions -> 0 .. EventCap] /\ holding \in [Sessions -> BOOLEAN]
    /\ merged \in 0 .. AlertCap

(* "whatever was missed is corrected within one interval": events may be   *)
(* dropped, reordered, repeated or published before the monitor listened,  *)
(* but a monitor that stays connected ends up with exactly the registered  *)
(* streams.                                                                *)
EventuallyExact == <>[](conn = "open" => view = Registered(Slots))

(* The ticks repair alert routing as well: the session of every registered *)
(* stream ends up with an alert channel, except one whose subscription was *)
(* opened and then broke.                                                  *)
EventuallyRouted ==
    <>[](conn = "open" => \A st \in Registered(Slots) : source[SessionOf(st[1])] \in {"on", "closed"})

(* A student on the screen is a student whose alerts were asked for: every *)
(* path that shows a stream opens its session's channel first.             *)
TileIsRouted ==
    conn \in {"open", "again"} => \A st \in view : source[SessionOf(st[1])] # "none"

(* A stream that is up stays in the registry -- its heartbeat outlives     *)
(* every other peer of the slot -- unless its registration failed, its     *)
(* refreshes failed until the TTL ran out, or a peer it replaced, closing  *)
(* slowly, registers or unregisters after it.                              *)
RegistrationHolds ==
    \A slot \in Slots \ excused : OnAir(slot) => registry[slot] = newest[slot]

(* When the connection ends, every goroutine it started ends, also one     *)
(* with an alert in hand and nobody left to read it.                       *)
GoroutinesEnd ==
    conn = "done" ~>
        /\ events = "closed"
        /\ \A s \in Sessions : source[s] \in {"none", "closed"} /\ ~holding[s]

-----------------------------------------------------------------------------
(***************************************************************************)
(* What comments in the code say of it and the model refutes.              *)
(***************************************************************************)

(* "keeping a stream visible to monitors": a stream that is up is in the   *)
(* registry, RegistrationHolds without its exceptions.                     *)
LiveIsVisible == \A slot \in Slots : OnAir(slot) => registry[slot] = newest[slot]

(* "the human is told immediately": a stream whose peer is closing, which  *)
(* monitors were told when the close began, is not shown again.            *)
LeftStaysGone ==
    [][\A st \in view' \ view : phase[st[1]][st[2]] \notin {"leaving", "closing"}]_vars

(* "repairs alert routing": EventuallyRouted without its exception for a   *)
(* subscription that broke.                                                *)
AlertsSurvive ==
    <>[](conn = "open" => \A st \in Registered(Slots) : source[SessionOf(st[1])] = "on")

(* "A wrong id is worse than a missing one": an alert of one stream type   *)
(* is never credited to a stream of another.                               *)
CreditedToItsType ==
    \A s \in Sessions : \A type \in Types : EnrichAlertIdentity(s, type) \subseteq {<<s, type>>}
=============================================================================
