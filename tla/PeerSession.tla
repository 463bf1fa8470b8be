---------------------------- MODULE PeerSession ----------------------------
(***************************************************************************)
(* The life of a WebRTC peer and of the sockets that signal for it, for    *)
(* one session key (schedule, candidate, stream type) of one process.      *)
(*                                                                         *)
(* Every WebSocket runs ServeStream: it adopts the peer it asks to resume, *)
(* or mints a new one that replaces the peer registered under the key.  A  *)
(* peer outlives its socket for a grace period; its ICE callbacks, two     *)
(* timers, a "bye", and its replacement may all close it, at the same      *)
(* time.  A peer is named after the connection that minted it.             *)
(***************************************************************************)
EXTENDS Integers, FiniteSets

CONSTANTS
    Conns,        \* WebSocket connections, and the peers they may mint
    None,         \* no connection, no peer
    MaxIce,       \* bound: ICE state changes
    MaxFaults     \* bound: failing Redis calls

ASSUME ConstantsAssumption ==
    /\ None \notin Conns
    /\ MaxIce \in Nat /\ MaxFaults \in Nat

VARIABLES
    conn,         \* where each ServeStream handler is
    target,       \* the peer a handler works on
    gen,          \* the generation token its BindSignaling returned
    life,         \* Peer.close's progress
    failed,       \* closedByFailure
    signalConn, signalGen, signalTimer,   \* the signaling binding and its grace timer
    fired,        \* generations of expired grace timers still to be re-checked
    iceTimer,     \* disconnectTimer is armed
    ice,          \* the peer connection's state
    callbacks,    \* goroutines not yet run: ICE callbacks, expired timers
    started,      \* startOnce has run, so the heartbeat does
    replaced,     \* "go old.Close()" has still to run
    reaper,       \* the goroutine that waits for peer.done
    current,      \* SessionManager: the peer under the key
    registry,     \* Redis SessionRegistry: the stream under the key
    complete,     \* MarkComplete was called
    dropped,      \* STREAM_DROPPED was published
    ended,        \* the schedule index holds the stream's end
    iceChanges, faults,   \* how much happened so far
    byeFirst,     \* history: peers whose teardown a "bye" started
    corpse,       \* history: peers that were closed when a connection bound them
    trouble       \* history: peers that lost their ICE connection or their socket

connVars == <<conn, target, gen>>
signalVars == <<signalConn, signalGen, signalTimer, fired>>
iceVars == <<ice, iceTimer, callbacks, iceChanges>>
mapVars == <<replaced, reaper, current>>
redisVars == <<registry, ended, faults>>
verdictVars == <<complete, dropped>>
history == <<byeFirst, corpse, trouble>>
vars == <<connVars, life, failed, signalVars, iceVars, started, mapVars, redisVars, verdictVars, history>>

Peers == Conns

Open(p) == life[p] = "open"
(* peer.done is closed.                                                    *)
Done(p) == life[p] \notin {"unborn", "open"}

Set(f, p, v) == [f EXCEPT ![p] = v]
Ok == UNCHANGED faults
Fault == faults < MaxFaults /\ faults' = faults + 1

(* close runs once: its first caller closes done, any other waits.         *)
StartClose(p) == life' = IF Open(p) THEN Set(life, p, "closing") ELSE life

-----------------------------------------------------------------------------
(***************************************************************************)
(* ServeStream.                                                            *)
(***************************************************************************)

(* A connection names the stream it wants to resume.  adoptPeer takes it   *)
(* only if it is the registered peer and alive; otherwise a new stream is  *)
(* minted.                                                                 *)
Dial(c, resume) ==
    /\ conn[c] = "idle"
    /\ IF resume # None /\ current = resume /\ Open(resume)
       THEN conn' = Set(conn, c, "adopt") /\ target' = Set(target, c, resume)
       ELSE conn' = Set(conn, c, "mint") /\ target' = Set(target, c, c)
    /\ UNCHANGED <<gen, life, failed, signalVars, iceVars, started, mapVars, redisVars, verdictVars, history>>

(* NewPeer and Replace: the old peer is closed in the background, and a    *)
(* goroutine waits for the new one to end.                                 *)
Mint(c) ==
    /\ conn[c] = "mint"
    /\ conn' = Set(conn, c, "bind")
    /\ life' = Set(life, c, "open")
    /\ current' = c
    /\ replaced' = IF current = None THEN replaced ELSE Set(replaced, current, TRUE)
    /\ reaper' = Set(reaper, c, TRUE)
    /\ UNCHANGED <<target, gen, failed, signalVars, iceVars, started, redisVars, verdictVars, history>>

(* BindSignaling looks at done first: a closed peer is refused, and an     *)
(* adopter then mints its own.                                             *)
BindCheck(c) ==
    /\ conn[c] \in {"adopt", "bind"}
    /\ \/ ~Done(target[c]) /\ conn' = Set(conn, c, "locked") /\ UNCHANGED target
       \/ /\ Done(target[c])
          /\ conn' = Set(conn, c, IF conn[c] = "adopt" THEN "mint" ELSE "closed")
          /\ target' = Set(target, c, c)
    /\ UNCHANGED <<gen, life, failed, signalVars, iceVars, started, mapVars, redisVars, verdictVars, history>>

(* ... and takes signalMu next.                                            *)
BindSignaling(c) ==
    LET p == target[c] IN
    /\ conn[c] = "locked"
    /\ conn' = Set(conn, c, "signaling")
    /\ signalTimer' = Set(signalTimer, p, 0)
    /\ signalGen' = Set(signalGen, p, signalGen[p] + 1)
    /\ gen' = Set(gen, c, signalGen[p] + 1)
    /\ signalConn' = Set(signalConn, p, c)
    /\ corpse' = IF Done(p) THEN corpse \cup {p} ELSE corpse
    /\ UNCHANGED <<target, life, failed, fired, iceVars, started, mapVars, redisVars, verdictVars, byeFirst, trouble>>

(* A deliberate stop closes the peer inline; the deferred release finds it *)
(* closed and does nothing.                                                *)
Bye(c) ==
    /\ conn[c] = "signaling"
    /\ conn' = Set(conn, c, "closed")
    /\ StartClose(target[c])
    /\ byeFirst' = IF Open(target[c]) THEN byeFirst \cup {target[c]} ELSE byeFirst
    /\ UNCHANGED <<target, gen, failed, signalVars, iceVars, started, mapVars, redisVars, verdictVars, corpse, trouble>>

(* The socket dies or an offer cannot be answered: runSignaling returns,   *)
(* and ReleaseSignaling looks at done ...                                  *)
Hangup(c) ==
    /\ conn[c] = "signaling"
    /\ conn' = Set(conn, c, IF Done(target[c]) THEN "closed" ELSE "release")
    /\ UNCHANGED <<target, gen, life, failed, signalVars, iceVars, started, mapVars, redisVars, verdictVars, history>>

(* Mutants: any generation may release, or no grace timer is armed.        *)
ReleaseAnyGeneration(c) ==
    LET p == target[c] IN
    /\ conn[c] = "release"
    /\ conn' = Set(conn, c, "closed")
    /\ signalConn' = Set(signalConn, p, None)
    /\ signalTimer' = Set(signalTimer, p, signalGen[p])
    /\ trouble' = trouble \cup {p}
    /\ UNCHANGED <<target, gen, life, failed, signalGen, fired, iceVars, started, mapVars, redisVars, verdictVars>>
    /\ UNCHANGED <<byeFirst, corpse>>
ReleaseUnarmed(c) ==
    LET p == target[c] IN
    /\ conn[c] = "release"
    /\ conn' = Set(conn, c, "closed")
    /\ signalConn' = IF signalGen[p] = gen[c] THEN Set(signalConn, p, None) ELSE signalConn
    /\ UNCHANGED <<target, gen, life, failed, signalGen, signalTimer, fired, iceVars, started, mapVars, redisVars>>
    /\ UNCHANGED <<verdictVars, history>>

(* ... before it takes signalMu, detaches the current generation only, and *)
(* arms the grace timer.                                                   *)
ReleaseSignaling(c) ==
    LET p == target[c] IN
    /\ conn[c] = "release"
    /\ conn' = Set(conn, c, "closed")
    /\ \/ /\ signalGen[p] = gen[c]
          /\ signalConn' = Set(signalConn, p, None)
          /\ signalTimer' = Set(signalTimer, p, gen[c])
          /\ trouble' = trouble \cup {p}
       \/ signalGen[p] # gen[c] /\ UNCHANGED <<signalConn, signalTimer, trouble>>
    /\ UNCHANGED <<target, gen, life, failed, signalGen, fired, iceVars, started, mapVars, redisVars, verdictVars>>
    /\ UNCHANGED <<byeFirst, corpse>>

-----------------------------------------------------------------------------
(***************************************************************************)
(* Timers and ICE callbacks.  Both run in goroutines of their own, so      *)
(* stopping a timer that has expired does not stop its function, and two   *)
(* callbacks may run in either order.                                      *)
(***************************************************************************)
SignalTimerFires(p) ==
    /\ signalTimer[p] # 0
    /\ fired' = Set(fired, p, fired[p] \cup {signalTimer[p]})
    /\ signalTimer' = Set(signalTimer, p, 0)
    /\ UNCHANGED <<connVars, life, failed, signalConn, signalGen, iceVars, started, mapVars, redisVars, verdictVars, history>>

(* The timer's function re-checks the generation under signalMu.           *)
SignalTimerCheck(p, g) ==
    /\ g \in fired[p]
    /\ fired' = Set(fired, p, fired[p] \ {g})
    /\ callbacks' = IF signalGen[p] = g THEN Set(callbacks, p, callbacks[p] \cup {"expired"}) ELSE callbacks
    /\ UNCHANGED <<connVars, life, failed, signalConn, signalGen, signalTimer, ice, iceTimer, iceChanges, started>>
    /\ UNCHANGED <<mapVars, redisVars, verdictVars, history>>

IceTimerFires(p) ==
    /\ iceTimer[p]
    /\ iceTimer' = Set(iceTimer, p, FALSE)
    /\ callbacks' = Set(callbacks, p, callbacks[p] \cup {"expired"})
    /\ UNCHANGED <<connVars, life, failed, signalVars, ice, iceChanges, started, mapVars, redisVars, verdictVars, history>>

(* The peer connection changes state until close ends with pc.Close.       *)
IceChanges(p, state) ==
    /\ life[p] \notin {"unborn", "closed"} /\ signalGen[p] > 0
    /\ ice[p] # state /\ ice[p] \notin {"failed", "closed"}
    /\ state = "disconnected" => ice[p] = "connected"
    /\ iceChanges < MaxIce /\ iceChanges' = iceChanges + 1
    /\ ice' = Set(ice, p, state)
    /\ callbacks' = Set(callbacks, p, callbacks[p] \cup {state})
    /\ trouble' = IF state = "connected" THEN trouble ELSE trouble \cup {p}
    /\ UNCHANGED <<connVars, life, failed, signalVars, iceTimer, started, mapVars, redisVars, verdictVars, byeFirst, corpse>>

Ran(p, cb) ==
    /\ cb \in callbacks[p]
    /\ callbacks' = Set(callbacks, p, callbacks[p] \ {cb})

(* Connected cancels the disconnect timer; the first one registers the     *)
(* session (a failure is logged) and starts the heartbeat.                 *)
OnConnected(p) ==
    /\ Ran(p, "connected")
    /\ iceTimer' = Set(iceTimer, p, FALSE)
    /\ started' = started \cup {p}
    /\ \/ p \notin started /\ registry' = p /\ Ok
       \/ p \notin started /\ Fault /\ UNCHANGED registry
       \/ p \in started /\ UNCHANGED <<registry, faults>>
    /\ UNCHANGED <<connVars, life, failed, signalVars, ice, iceChanges, mapVars, ended, verdictVars, history>>

OnDisconnected(p) ==
    /\ Ran(p, "disconnected")
    /\ iceTimer' = Set(iceTimer, p, TRUE)
    /\ UNCHANGED <<connVars, life, failed, signalVars, ice, iceChanges, started, mapVars, redisVars, verdictVars, history>>

(* Failed, and the function of either timer once it has expired.           *)
OnFailed(p) ==
    /\ Ran(p, "failed") \/ Ran(p, "expired")
    /\ failed' = Set(failed, p, TRUE)
    /\ StartClose(p)
    /\ UNCHANGED <<connVars, signalVars, ice, iceTimer, iceChanges, started, mapVars, redisVars, verdictVars, history>>

OnClosed(p) ==
    /\ Ran(p, "closed")
    /\ StartClose(p)
    /\ UNCHANGED <<connVars, failed, signalVars, ice, iceTimer, iceChanges, started, mapVars, redisVars, verdictVars, history>>

-----------------------------------------------------------------------------
(***************************************************************************)
(* Peer.close.                                                             *)
(***************************************************************************)

(* Mutant: a replaced peer counts as dropped.                              *)
CloseReplacedAsFailure(p) ==
    /\ replaced[p]
    /\ replaced' = Set(replaced, p, FALSE)
    /\ failed' = Set(failed, p, TRUE)
    /\ StartClose(p)
    /\ UNCHANGED <<connVars, signalVars, iceVars, started, reaper, current, redisVars, verdictVars, history>>

CloseReplaced(p) ==
    /\ replaced[p]
    /\ replaced' = Set(replaced, p, FALSE)
    /\ StartClose(p)
    /\ UNCHANGED <<connVars, failed, signalVars, iceVars, started, reaper, current, redisVars, verdictVars, history>>

(* close drops the signaling binding and its timer, not the ICE timer.     *)
CloseDetach(p) ==
    /\ life[p] = "closing"
    /\ life' = Set(life, p, "draining")
    /\ signalConn' = Set(signalConn, p, None)
    /\ signalTimer' = Set(signalTimer, p, 0)
    /\ UNCHANGED <<connVars, failed, signalGen, fired, iceVars, started, mapVars, redisVars, verdictVars, history>>

(* After the drain: "whole" is a recording without gaps (RecordingAssembly *)
(* models how it gets its segments).                                       *)
CloseComplete(p, whole) ==
    /\ life[p] = "draining"
    /\ life' = Set(life, p, "judged")
    /\ complete' = IF ~failed[p] /\ whole THEN complete \cup {p} ELSE complete
    /\ UNCHANGED <<connVars, failed, signalVars, iceVars, started, mapVars, redisVars, dropped, history>>

(* The flag is read again for the alert.                                   *)
CloseAlert(p) ==
    /\ life[p] = "judged"
    /\ life' = Set(life, p, "alerted")
    /\ dropped' = IF failed[p] THEN dropped \cup {p} ELSE dropped
    /\ UNCHANGED <<connVars, failed, signalVars, iceVars, started, mapVars, redisVars, complete, history>>

(* NotifyStreamEnded deletes the session by its key, which says nothing of *)
(* the stream, and pc.Close ends the peer.                                 *)
CloseEnd(p) ==
    /\ life[p] = "alerted"
    /\ life' = Set(life, p, "closed")
    /\ \/ registry' = None /\ Ok
       \/ Fault /\ UNCHANGED registry
    /\ UNCHANGED <<connVars, failed, signalVars, iceVars, started, mapVars, ended, verdictVars, history>>

(* The reaper: RemoveIfSame, then MarkEnded.                               *)
Reap(p) ==
    /\ reaper[p] /\ Done(p)
    /\ reaper' = Set(reaper, p, FALSE)
    /\ current' = IF current = p THEN None ELSE current
    /\ \/ ended' = ended \cup {p} /\ Ok
       \/ Fault /\ UNCHANGED ended
    /\ UNCHANGED <<connVars, life, failed, signalVars, iceVars, started, replaced, registry, verdictVars, history>>

(* runSessionHeartbeat refreshes the key, whatever stream it holds, while  *)
(* its peer is not done; otherwise the TTL ends the registration.          *)
Refreshing(p) == p \in started /\ ~Done(p)

Expire ==
    /\ registry # None /\ \A p \in Peers : ~Refreshing(p)
    /\ registry' = None
    /\ UNCHANGED <<connVars, life, failed, signalVars, iceVars, started, mapVars, ended, faults, verdictVars, history>>

-----------------------------------------------------------------------------
Init ==
    /\ conn = [c \in Conns |-> "idle"]
    /\ target = [c \in Conns |-> c]
    /\ gen = [c \in Conns |-> 0]
    /\ life = [p \in Peers |-> "unborn"]
    /\ failed = [p \in Peers |-> FALSE]
    /\ signalConn = [p \in Peers |-> None]
    /\ signalGen = [p \in Peers |-> 0]
    /\ signalTimer = [p \in Peers |-> 0]
    /\ fired = [p \in Peers |-> {}]
    /\ iceTimer = [p \in Peers |-> FALSE]
    /\ ice = [p \in Peers |-> "new"]
    /\ callbacks = [p \in Peers |-> {}]
    /\ replaced = [p \in Peers |-> FALSE]
    /\ reaper = [p \in Peers |-> FALSE]
    /\ started = {} /\ current = None /\ registry = None
    /\ complete = {} /\ dropped = {} /\ ended = {}
    /\ iceChanges = 0 /\ faults = 0
    /\ byeFirst = {} /\ corpse = {} /\ trouble = {}

IceStates == {"connected", "disconnected", "failed", "closed"}

(* What a client or the network does.                                      *)
ClientStep ==
    \/ \E c \in Conns : Bye(c) \/ Hangup(c) \/ \E r \in Peers \cup {None} : Dial(c, r)
    \/ \E p \in Peers, state \in IceStates : IceChanges(p, state)

ConnStep(c) == Mint(c) \/ BindCheck(c) \/ BindSignaling(c) \/ ReleaseSignaling(c)

TimerStep(p) ==
    SignalTimerFires(p) \/ IceTimerFires(p) \/ \E g \in fired[p] : SignalTimerCheck(p, g)

CallbackStep(p) == OnConnected(p) \/ OnDisconnected(p) \/ OnFailed(p) \/ OnClosed(p)

CloseStep(p) ==
    \/ CloseReplaced(p)
    \/ CloseDetach(p) \/ CloseAlert(p) \/ CloseEnd(p)
    \/ \E whole \in BOOLEAN : CloseComplete(p, whole)

Next ==
    \/ ClientStep
    \/ \E c \in Conns : ConnStep(c)
    \/ \E p \in Peers : TimerStep(p) \/ CallbackStep(p) \/ CloseStep(p) \/ Reap(p)
    \/ Expire

Spec == Init /\ [][Next]_vars

(* Handlers and goroutines run, and timers fire; clients and the network   *)
(* owe nothing.                                                            *)
LiveSpec ==
    /\ Spec
    /\ \A c \in Conns : WF_vars(ConnStep(c))
    /\ \A p \in Peers :
          WF_vars(TimerStep(p)) /\ WF_vars(CallbackStep(p)) /\ WF_vars(CloseStep(p)) /\ WF_vars(Reap(p))

-----------------------------------------------------------------------------
(* Every variable has its type; a grace timer that runs belongs to the     *)
(* latest generation.                                                      *)
TypeOK ==
    /\ conn \in [Conns -> {"idle", "mint", "adopt", "bind", "locked", "signaling", "release", "closed"}]
    /\ target \in [Conns -> Peers] /\ gen \in [Conns -> Nat]
    /\ life \in [Peers -> {"unborn", "open", "closing", "draining", "judged", "alerted", "closed"}]
    /\ failed \in [Peers -> BOOLEAN]
    /\ signalConn \in [Peers -> Conns \cup {None}]
    /\ signalGen \in [Peers -> Nat]
    /\ signalTimer \in [Peers -> Nat] /\ fired \in [Peers -> SUBSET (Nat \ {0})]
    /\ \A p \in Peers : signalTimer[p] \in {0, signalGen[p]}
    /\ iceTimer \in [Peers -> BOOLEAN]
    /\ ice \in [Peers -> IceStates \cup {"new"}]
    /\ callbacks \in [Peers -> SUBSET (IceStates \cup {"expired"})]
    /\ replaced \in [Peers -> BOOLEAN] /\ reaper \in [Peers -> BOOLEAN]
    /\ current \in Peers \cup {None} /\ registry \in Peers \cup {None}
    /\ started \subseteq Peers /\ complete \subseteq Peers /\ dropped \subseteq Peers
    /\ ended \subseteq Peers
    /\ iceChanges \in 0 .. MaxIce /\ faults \in 0 .. MaxFaults
    /\ byeFirst \subseteq Peers /\ corpse \subseteq Peers /\ trouble \subseteq Peers

(* The session map holds the one stream of its key that is not ending: an  *)
(* open peer is registered unless a newer one has replaced it, so a dying  *)
(* peer's reaper never evicts its successor.                               *)
CurrentIsLatest == \A p \in Peers : Open(p) /\ ~replaced[p] => current = p

(* The newest connection of an open peer stays its signaling channel, with *)
(* no grace timer running, however many older handlers are still           *)
(* unwinding.                                                              *)
NewestConnHolds ==
    \A c \in Conns :
        LET p == target[c] IN
        (conn[c] = "signaling" /\ Open(p) /\ gen[c] = signalGen[p])
            => signalConn[p] = c /\ signalTimer[p] = 0

(* An open peer is never forgotten: a handler is attached to it or on its  *)
(* way, its grace timer runs or has expired, or its close is due.          *)
Held(p) ==
    \/ \E c \in Conns : target[c] = p /\ conn[c] \in {"bind", "locked", "signaling", "release"}
    \/ signalTimer[p] # 0 \/ signalGen[p] \in fired[p] \/ "expired" \in callbacks[p]
    \/ replaced[p]
NoLeakedPeer == \A p \in Peers : Open(p) => Held(p)

(* STREAM_DROPPED is published only for a stream that lost its ICE         *)
(* connection or its socket, never for one that was merely replaced.       *)
DropIsReal == dropped \subseteq trouble

(* A peer without a signaling channel is adopted or torn down completely.  *)
DetachedEnds ==
    \A p \in Peers : (Open(p) /\ signalConn[p] = None) ~> (signalConn[p] # None \/ life[p] = "closed")

-----------------------------------------------------------------------------
(***************************************************************************)
(* What comments in the code say of it and the model refutes.              *)
(***************************************************************************)

(* "refuses the binding instead of handing the caller a corpse to signal   *)
(* over": no connection is bound to a peer whose teardown has begun.       *)
NoCorpseBound == corpse = {}

(* "Closing inline and WITHOUT closedByFailure": a stream that a "bye"     *)
(* ended is never reported as dropped.                                     *)
ByeIsClean == byeFirst \cap dropped = {}

(* runSessionHeartbeat "keeps this peer's Redis session registration alive *)
(* for as long as the peer itself is alive": the key of the current, open  *)
(* peer does not vanish once it holds its stream.                          *)
RegisteredWhileAlive ==
    [][\A p \in Peers : (registry = p /\ current = p /\ Open(p) /\ Open(p)') => registry' # None]_vars
=============================================================================
