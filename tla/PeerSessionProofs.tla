------------------------- MODULE PeerSessionProofs -------------------------
(***************************************************************************)
(* Theorems about PeerSession, for any set of connections (finite or not)  *)
(* and any number of ICE changes and failing calls.                        *)
(***************************************************************************)
EXTENDS PeerSession, TLAPS

USE ConstantsAssumption
USE DEF Peers, Set, Open, Done

Bound == {"signaling", "release"}

(* A connection that has not minted a peer left none behind, and one that  *)
(* is to bind its own peer works on it; any other works on a peer that     *)
(* exists.                                                                 *)
Minted ==
    \A c \in Conns :
        /\ conn[c] \in {"idle", "mint", "adopt"} => life[c] = "unborn"
        /\ conn[c] \in {"idle", "mint", "bind"} => target[c] = c
        /\ conn[c] \in {"adopt", "bind", "locked"} \cup Bound => life[target[c]] # "unborn"

(* Generations of a peer are handed out in turn, each to one connection.   *)
Generations ==
    /\ \A c \in Conns : conn[c] \in Bound => gen[c] \in 1 .. signalGen[target[c]]
    /\ \A c, d \in Conns :
          conn[c] \in Bound /\ conn[d] \in Bound /\ target[c] = target[d] /\ gen[c] = gen[d] => c = d

(* NoLeakedPeer, where a connection counts only if it holds the latest     *)
(* generation or is about to take one: a stale handler's release does      *)
(* nothing for its peer.                                                   *)
Attached(c, p) ==
    /\ target[c] = p
    /\ \/ conn[c] \in {"bind", "locked"}
       \/ conn[c] \in Bound /\ gen[c] = signalGen[p]
HeldNow(p) ==
    \/ \E c \in Conns : Attached(c, p)
    \/ signalTimer[p] # 0 \/ signalGen[p] \in fired[p] \/ "expired" \in callbacks[p]
    \/ replaced[p]
HeldByNewest == \A p \in Peers : Open(p) => HeldNow(p)

SignalInv == TypeOK /\ Minted /\ Generations /\ NewestConnHolds /\ HeldByNewest

(* Whatever may lead to a failure began with lost ICE or a lost socket.    *)
Alarms == {"disconnected", "failed", "closed", "expired"}
Alarmed(p) ==
    failed[p] \/ signalTimer[p] # 0 \/ fired[p] # {} \/ iceTimer[p] \/ callbacks[p] \cap Alarms # {}
AlarmIsReal == \A p \in Peers : Alarmed(p) => p \in trouble

DropInv == TypeOK /\ AlarmIsReal /\ DropIsReal

-----------------------------------------------------------------------------
(***************************************************************************)
(* Type correctness.                                                       *)
(***************************************************************************)
LEMMA TypeInit == Init => TypeOK
  BY DEF Init, TypeOK

LEMMA TypeStep == TypeOK /\ [Next]_vars => TypeOK'
  <1> SUFFICES ASSUME TypeOK, [Next]_vars PROVE TypeOK'
    OBVIOUS
  <1> USE DEF TypeOK, connVars, signalVars, iceVars, mapVars, redisVars, verdictVars, history
  <1>1. ASSUME NEW c \in Conns, NEW r \in Peers \cup {None}, Dial(c, r) PROVE TypeOK'
    BY <1>1 DEF Dial
  <1>2. ASSUME NEW c \in Conns, Mint(c) PROVE TypeOK'
    BY <1>2 DEF Mint
  <1>3. ASSUME NEW c \in Conns, BindCheck(c) PROVE TypeOK'
    <2>1. conn' \in [Conns -> {"idle", "mint", "adopt", "bind", "locked", "signaling", "release", "closed"}]
      <3>1. \/ conn' = [conn EXCEPT ![c] = "locked"] \/ conn' = [conn EXCEPT ![c] = "mint"]
            \/ conn' = [conn EXCEPT ![c] = "closed"]
        <4> HIDE DEF TypeOK
        <4>1. QED
          BY <1>3 DEF BindCheck
      <3>2. QED
        BY <3>1
    <2>2. target' \in [Conns -> Peers]
      BY <1>3 DEF BindCheck
    <2>3. QED
      BY <1>3, <2>1, <2>2 DEF BindCheck
  <1>4. ASSUME NEW c \in Conns, BindSignaling(c) PROVE TypeOK'
    BY <1>4 DEF BindSignaling
  <1>5. ASSUME NEW c \in Conns, Bye(c) PROVE TypeOK'
    BY <1>5 DEF Bye, StartClose
  <1>6. ASSUME NEW c \in Conns, Hangup(c) PROVE TypeOK'
    BY <1>6 DEF Hangup
  <1>7. ASSUME NEW c \in Conns, ReleaseSignaling(c) PROVE TypeOK'
    <2>1. CASE signalGen[target[c]] = gen[c]
      <3>1. signalTimer' = [signalTimer EXCEPT ![target[c]] = signalGen[target[c]]]
        BY <1>7, <2>1 DEF ReleaseSignaling
      <3>2. \A p \in Peers : signalTimer'[p] \in {0, signalGen[p]}
        BY <3>1
      <3>3. signalTimer' \in [Peers -> Nat] /\ UNCHANGED signalGen
        BY <1>7, <3>1 DEF ReleaseSignaling
      <3>4. QED
        BY <1>7, <2>1, <3>2, <3>3 DEF ReleaseSignaling
    <2>2. CASE signalGen[target[c]] # gen[c]
      BY <1>7, <2>2 DEF ReleaseSignaling
    <2>3. QED
      BY <2>1, <2>2
  <1>8. ASSUME NEW p \in Peers, SignalTimerFires(p) PROVE TypeOK'
    BY <1>8 DEF SignalTimerFires
  <1>9. ASSUME NEW p \in Peers, NEW g \in fired[p], SignalTimerCheck(p, g) PROVE TypeOK'
    BY <1>9 DEF SignalTimerCheck
  <1>10. ASSUME NEW p \in Peers, IceTimerFires(p) PROVE TypeOK'
    BY <1>10 DEF IceTimerFires
  <1>11. ASSUME NEW p \in Peers, NEW state \in IceStates, IceChanges(p, state) PROVE TypeOK'
    BY <1>11 DEF IceChanges, IceStates
  <1>12. ASSUME NEW p \in Peers, OnConnected(p) PROVE TypeOK'
    BY <1>12 DEF OnConnected, Ran, Ok, Fault
  <1>13. ASSUME NEW p \in Peers, OnDisconnected(p) PROVE TypeOK'
    BY <1>13 DEF OnDisconnected, Ran
  <1>14. ASSUME NEW p \in Peers, OnFailed(p) PROVE TypeOK'
    BY <1>14 DEF OnFailed, Ran, StartClose
  <1>15. ASSUME NEW p \in Peers, OnClosed(p) PROVE TypeOK'
    BY <1>15 DEF OnClosed, Ran, StartClose
  <1>16. ASSUME NEW p \in Peers, CloseReplaced(p) PROVE TypeOK'
    BY <1>16 DEF CloseReplaced, StartClose
  <1>17. ASSUME NEW p \in Peers, CloseDetach(p) PROVE TypeOK'
    BY <1>17 DEF CloseDetach
  <1>18. ASSUME NEW p \in Peers, NEW whole \in BOOLEAN, CloseComplete(p, whole) PROVE TypeOK'
    BY <1>18 DEF CloseComplete
  <1>19. ASSUME NEW p \in Peers, CloseAlert(p) PROVE TypeOK'
    BY <1>19 DEF CloseAlert
  <1>20. ASSUME NEW p \in Peers, CloseEnd(p) PROVE TypeOK'
    BY <1>20 DEF CloseEnd, Ok, Fault
  <1>21. ASSUME NEW p \in Peers, Reap(p) PROVE TypeOK'
    BY <1>21 DEF Reap, Ok, Fault
  <1>22. CASE Expire
    BY <1>22 DEF Expire
  <1>23. CASE UNCHANGED vars
    BY <1>23 DEF vars
  <1>24. QED
    BY <1>1, <1>2, <1>3, <1>4, <1>5, <1>6, <1>7, <1>8, <1>9, <1>10, <1>11, <1>12, <1>13, <1>14,
       <1>15, <1>16, <1>17, <1>18, <1>19, <1>20, <1>21, <1>22, <1>23
       DEF Next, ClientStep, ConnStep, TimerStep, CallbackStep, CloseStep

-----------------------------------------------------------------------------
(***************************************************************************)
(* Who works on which peer.                                                *)
(***************************************************************************)
(* A peer comes to life only when its connection mints it.                 *)
LEMMA MintedStep == TypeOK /\ Minted /\ [Next]_vars => Minted'
  <1> SUFFICES ASSUME TypeOK /\ Minted, [Next]_vars PROVE Minted'
    OBVIOUS
  <1> USE DEF TypeOK, Minted, Bound, connVars, signalVars, iceVars, mapVars, redisVars,
              verdictVars, history
  <1>1. CASE UNCHANGED <<conn, life, target>>
    BY <1>1
  <1>2. ASSUME NEW c \in Conns, NEW r \in Peers \cup {None}, Dial(c, r) PROVE Minted'
    BY <1>2 DEF Dial
  <1>3. ASSUME NEW c \in Conns, Mint(c) PROVE Minted'
    BY <1>3 DEF Mint
  <1>4. ASSUME NEW c \in Conns, BindCheck(c) PROVE Minted'
    BY <1>4 DEF BindCheck
  <1>5. ASSUME NEW c \in Conns, BindSignaling(c) PROVE Minted'
    BY <1>5 DEF BindSignaling
  <1>6. ASSUME NEW c \in Conns, Bye(c) PROVE Minted'
    BY <1>6 DEF Bye, StartClose
  <1>7. ASSUME NEW c \in Conns, Hangup(c) PROVE Minted'
    BY <1>7 DEF Hangup
  <1>8. ASSUME NEW c \in Conns, ReleaseSignaling(c) PROVE Minted'
    BY <1>8 DEF ReleaseSignaling
  <1>9. ASSUME NEW p \in Peers, OnFailed(p) PROVE Minted'
    BY <1>9 DEF OnFailed, Ran, StartClose
  <1>10. ASSUME NEW p \in Peers, OnClosed(p) PROVE Minted'
    BY <1>10 DEF OnClosed, Ran, StartClose
  <1>11. ASSUME NEW p \in Peers, CloseReplaced(p) PROVE Minted'
    BY <1>11 DEF CloseReplaced, StartClose
  <1>12. ASSUME NEW p \in Peers, CloseDetach(p) PROVE Minted'
    BY <1>12 DEF CloseDetach
  <1>13. ASSUME NEW p \in Peers, NEW whole \in BOOLEAN, CloseComplete(p, whole) PROVE Minted'
    BY <1>13 DEF CloseComplete
  <1>14. ASSUME NEW p \in Peers, CloseAlert(p) PROVE Minted'
    BY <1>14 DEF CloseAlert
  <1>15. ASSUME NEW p \in Peers, CloseEnd(p) PROVE Minted'
    BY <1>15 DEF CloseEnd
  <1>16. QED
    BY <1>1, <1>2, <1>3, <1>4, <1>5, <1>6, <1>7, <1>8, <1>9, <1>10, <1>11, <1>12, <1>13, <1>14, <1>15
       DEF Next, ClientStep, ConnStep, TimerStep, CallbackStep, CloseStep, Expire, vars,
           SignalTimerFires, SignalTimerCheck, IceTimerFires, IceChanges, OnConnected, Ran,
           OnDisconnected, Reap

(* BindSignaling hands out the next generation under signalMu.             *)
LEMMA GenerationsStep == TypeOK /\ Generations /\ [Next]_vars => Generations'
  <1> SUFFICES ASSUME TypeOK /\ Generations, [Next]_vars PROVE Generations'
    OBVIOUS
  <1> USE DEF TypeOK, Generations, Bound, connVars, signalVars, iceVars, mapVars, redisVars,
              verdictVars, history
  <1>1. CASE UNCHANGED <<conn, target, gen, signalGen>>
    BY <1>1
  <1>2. ASSUME NEW c \in Conns, NEW r \in Peers \cup {None}, Dial(c, r) PROVE Generations'
    BY <1>2 DEF Dial
  <1>3. ASSUME NEW c \in Conns, Mint(c) PROVE Generations'
    BY <1>3 DEF Mint
  <1>4. ASSUME NEW c \in Conns, BindCheck(c) PROVE Generations'
    BY <1>4 DEF BindCheck
  <1>5. ASSUME NEW c \in Conns, BindSignaling(c) PROVE Generations'
    BY <1>5 DEF BindSignaling
  <1>6. ASSUME NEW c \in Conns, Bye(c) PROVE Generations'
    BY <1>6 DEF Bye, StartClose
  <1>7. ASSUME NEW c \in Conns, Hangup(c) PROVE Generations'
    BY <1>7 DEF Hangup
  <1>8. ASSUME NEW c \in Conns, ReleaseSignaling(c) PROVE Generations'
    BY <1>8 DEF ReleaseSignaling
  <1>9. QED
    BY <1>1, <1>2, <1>3, <1>4, <1>5, <1>6, <1>7, <1>8
       DEF Next, ClientStep, ConnStep, TimerStep, CallbackStep, CloseStep, Expire, vars,
           SignalTimerFires, SignalTimerCheck, IceTimerFires, IceChanges, OnConnected, Ran,
           OnDisconnected, OnFailed, StartClose, OnClosed, CloseReplaced, CloseDetach,
           CloseComplete, CloseAlert, CloseEnd, Reap

(* Only the newest connection detaches its peer, and only closing a peer   *)
(* takes its channel away.                                                 *)
LEMMA NewestStep == SignalInv /\ [Next]_vars => NewestConnHolds'
  <1> SUFFICES ASSUME SignalInv, [Next]_vars PROVE NewestConnHolds'
    OBVIOUS
  <1> USE DEF SignalInv, TypeOK, Minted, Generations, NewestConnHolds, Bound, connVars,
              signalVars, iceVars, mapVars, redisVars, verdictVars, history
  <1>1. CASE UNCHANGED <<conn, target, gen, life, signalGen, signalConn, signalTimer>>
    BY <1>1
  <1>2. ASSUME NEW c \in Conns, NEW r \in Peers \cup {None}, Dial(c, r) PROVE NewestConnHolds'
    BY <1>2 DEF Dial
  <1>3. ASSUME NEW c \in Conns, Mint(c) PROVE NewestConnHolds'
    BY <1>3 DEF Mint
  <1>4. ASSUME NEW c \in Conns, BindCheck(c) PROVE NewestConnHolds'
    BY <1>4 DEF BindCheck
  <1>5. ASSUME NEW c \in Conns, BindSignaling(c) PROVE NewestConnHolds'
    BY <1>5 DEF BindSignaling
  <1>6. ASSUME NEW c \in Conns, Bye(c) PROVE NewestConnHolds'
    BY <1>6 DEF Bye, StartClose
  <1>7. ASSUME NEW c \in Conns, Hangup(c) PROVE NewestConnHolds'
    BY <1>7 DEF Hangup
  <1>8. ASSUME NEW c \in Conns, ReleaseSignaling(c) PROVE NewestConnHolds'
    BY <1>8 DEF ReleaseSignaling
  <1>9. ASSUME NEW p \in Peers, SignalTimerFires(p) PROVE NewestConnHolds'
    BY <1>9 DEF SignalTimerFires
  <1>10. ASSUME NEW p \in Peers, OnFailed(p) PROVE NewestConnHolds'
    BY <1>10 DEF OnFailed, Ran, StartClose
  <1>11. ASSUME NEW p \in Peers, OnClosed(p) PROVE NewestConnHolds'
    BY <1>11 DEF OnClosed, Ran, StartClose
  <1>12. ASSUME NEW p \in Peers, CloseReplaced(p) PROVE NewestConnHolds'
    BY <1>12 DEF CloseReplaced, StartClose
  <1>13. ASSUME NEW p \in Peers, CloseDetach(p) PROVE NewestConnHolds'
    BY <1>13 DEF CloseDetach
  <1>14. ASSUME NEW p \in Peers, NEW whole \in BOOLEAN, CloseComplete(p, whole) PROVE NewestConnHolds'
    BY <1>14 DEF CloseComplete
  <1>15. ASSUME NEW p \in Peers, CloseAlert(p) PROVE NewestConnHolds'
    BY <1>15 DEF CloseAlert
  <1>16. ASSUME NEW p \in Peers, CloseEnd(p) PROVE NewestConnHolds'
    BY <1>16 DEF CloseEnd
  <1>17. QED
    BY <1>1, <1>2, <1>3, <1>4, <1>5, <1>6, <1>7, <1>8, <1>9, <1>10, <1>11, <1>12, <1>13, <1>14,
       <1>15, <1>16
       DEF Next, ClientStep, ConnStep, TimerStep, CallbackStep, CloseStep, Expire, vars,
           SignalTimerCheck, IceTimerFires, IceChanges, OnConnected, Ran, OnDisconnected, Reap

(* What holds an open peer is handed over, never just dropped.             *)
LEMMA HeldStep == SignalInv /\ [Next]_vars => HeldByNewest'
  <1> SUFFICES ASSUME SignalInv, [Next]_vars PROVE HeldByNewest'
    OBVIOUS
  <1> USE DEF SignalInv, TypeOK, Minted, Generations, HeldByNewest, HeldNow, Attached, Bound,
              connVars, signalVars, iceVars, mapVars, redisVars, verdictVars, history
  <1>1. CASE UNCHANGED <<conn, target, gen, life, signalGen, signalTimer, fired, callbacks, replaced>>
    BY <1>1
  <1>2. ASSUME NEW c \in Conns, NEW r \in Peers \cup {None}, Dial(c, r) PROVE HeldByNewest'
    BY <1>2 DEF Dial
  <1>3. ASSUME NEW c \in Conns, Mint(c) PROVE HeldByNewest'
    BY <1>3 DEF Mint
  <1>4. ASSUME NEW c \in Conns, BindCheck(c) PROVE HeldByNewest'
    <2>1. CASE ~Done(target[c]) /\ conn' = Set(conn, c, "locked") /\ UNCHANGED target
      BY <1>4, <2>1 DEF BindCheck
    <2>2. CASE /\ Done(target[c]) /\ target' = Set(target, c, c)
               /\ conn' = Set(conn, c, IF conn[c] = "adopt" THEN "mint" ELSE "closed")
      <3>1. \A d \in Conns : d # c => conn'[d] = conn[d] /\ target'[d] = target[d]
        BY <2>2
      <3>2. UNCHANGED <<life, gen, signalGen, signalTimer, fired, callbacks, replaced>>
        BY <1>4 DEF BindCheck
      <3>3. \A p \in Peers : Open(p) => target[c] # p
        BY <2>2
      <3>4. QED
        BY <3>1, <3>2, <3>3
    <2>3. QED
      BY <1>4, <2>1, <2>2 DEF BindCheck
  <1>5. ASSUME NEW c \in Conns, BindSignaling(c) PROVE HeldByNewest'
    BY <1>5 DEF BindSignaling
  <1>6. ASSUME NEW c \in Conns, Bye(c) PROVE HeldByNewest'
    BY <1>6 DEF Bye, StartClose
  <1>7. ASSUME NEW c \in Conns, Hangup(c) PROVE HeldByNewest'
    BY <1>7 DEF Hangup
  <1>8. ASSUME NEW c \in Conns, ReleaseSignaling(c) PROVE HeldByNewest'
    BY <1>8 DEF ReleaseSignaling
  <1>9. ASSUME NEW p \in Peers, SignalTimerFires(p) PROVE HeldByNewest'
    BY <1>9 DEF SignalTimerFires
  <1>10. ASSUME NEW p \in Peers, NEW g \in fired[p], SignalTimerCheck(p, g) PROVE HeldByNewest'
    BY <1>10 DEF SignalTimerCheck
  <1>11. ASSUME NEW p \in Peers, IceTimerFires(p) PROVE HeldByNewest'
    BY <1>11 DEF IceTimerFires
  <1>12. ASSUME NEW p \in Peers, NEW state \in IceStates, IceChanges(p, state) PROVE HeldByNewest'
    BY <1>12 DEF IceChanges, IceStates
  <1>13. ASSUME NEW p \in Peers, OnConnected(p) PROVE HeldByNewest'
    BY <1>13 DEF OnConnected, Ran
  <1>14. ASSUME NEW p \in Peers, OnDisconnected(p) PROVE HeldByNewest'
    BY <1>14 DEF OnDisconnected, Ran
  <1>15. ASSUME NEW p \in Peers, OnFailed(p) PROVE HeldByNewest'
    BY <1>15 DEF OnFailed, Ran, StartClose
  <1>16. ASSUME NEW p \in Peers, OnClosed(p) PROVE HeldByNewest'
    BY <1>16 DEF OnClosed, Ran, StartClose
  <1>17. ASSUME NEW p \in Peers, CloseReplaced(p) PROVE HeldByNewest'
    BY <1>17 DEF CloseReplaced, StartClose
  <1>18. ASSUME NEW p \in Peers, CloseDetach(p) PROVE HeldByNewest'
    BY <1>18 DEF CloseDetach
  <1>19. ASSUME NEW p \in Peers, NEW whole \in BOOLEAN, CloseComplete(p, whole) PROVE HeldByNewest'
    BY <1>19 DEF CloseComplete
  <1>20. ASSUME NEW p \in Peers, CloseAlert(p) PROVE HeldByNewest'
    BY <1>20 DEF CloseAlert
  <1>21. ASSUME NEW p \in Peers, CloseEnd(p) PROVE HeldByNewest'
    BY <1>21 DEF CloseEnd
  <1>22. QED
    BY <1>1, <1>2, <1>3, <1>4, <1>5, <1>6, <1>7, <1>8, <1>9, <1>10, <1>11, <1>12, <1>13, <1>14,
       <1>15, <1>16, <1>17, <1>18, <1>19, <1>20, <1>21
       DEF Next, ClientStep, ConnStep, TimerStep, CallbackStep, CloseStep, Expire, vars,
           Reap

LEMMA SignalInductive == Spec => []SignalInv
  <1>1. Init => SignalInv
    BY TypeInit DEF Init, SignalInv, Minted, Generations, NewestConnHolds, HeldByNewest, Bound
  <1>2. SignalInv /\ [Next]_vars => SignalInv'
    BY TypeStep, MintedStep, GenerationsStep, NewestStep, HeldStep DEF SignalInv
  <1>3. QED
    BY <1>1, <1>2, PTL DEF Spec

-----------------------------------------------------------------------------
(***************************************************************************)
(* Alarms and the session map.                                             *)
(***************************************************************************)
(* A timer is armed, and a callback queued, only by what they report.      *)
LEMMA AlarmStep == TypeOK /\ AlarmIsReal /\ [Next]_vars => AlarmIsReal'
  <1> SUFFICES ASSUME TypeOK /\ AlarmIsReal, [Next]_vars PROVE AlarmIsReal'
    OBVIOUS
  <1> USE DEF TypeOK, AlarmIsReal, Alarmed, Alarms, connVars, signalVars, iceVars, mapVars,
              redisVars, verdictVars, history
  <1>1. CASE UNCHANGED <<failed, signalTimer, fired, iceTimer, callbacks, trouble>>
    BY <1>1
  <1>2. ASSUME NEW c \in Conns, BindSignaling(c) PROVE AlarmIsReal'
    BY <1>2 DEF BindSignaling
  <1>3. ASSUME NEW c \in Conns, ReleaseSignaling(c) PROVE AlarmIsReal'
    BY <1>3 DEF ReleaseSignaling
  <1>4. ASSUME NEW p \in Peers, SignalTimerFires(p) PROVE AlarmIsReal'
    BY <1>4 DEF SignalTimerFires
  <1>5. ASSUME NEW p \in Peers, NEW g \in fired[p], SignalTimerCheck(p, g) PROVE AlarmIsReal'
    BY <1>5 DEF SignalTimerCheck
  <1>6. ASSUME NEW p \in Peers, IceTimerFires(p) PROVE AlarmIsReal'
    BY <1>6 DEF IceTimerFires
  <1>7. ASSUME NEW p \in Peers, NEW state \in IceStates, IceChanges(p, state) PROVE AlarmIsReal'
    BY <1>7 DEF IceChanges, IceStates
  <1>8. ASSUME NEW p \in Peers, OnConnected(p) PROVE AlarmIsReal'
    BY <1>8 DEF OnConnected, Ran
  <1>9. ASSUME NEW p \in Peers, OnDisconnected(p) PROVE AlarmIsReal'
    BY <1>9 DEF OnDisconnected, Ran
  <1>10. ASSUME NEW p \in Peers, OnFailed(p) PROVE AlarmIsReal'
    BY <1>10 DEF OnFailed, Ran, StartClose
  <1>11. ASSUME NEW p \in Peers, OnClosed(p) PROVE AlarmIsReal'
    BY <1>11 DEF OnClosed, Ran, StartClose
  <1>12. ASSUME NEW p \in Peers, CloseDetach(p) PROVE AlarmIsReal'
    BY <1>12 DEF CloseDetach
  <1>13. QED
    BY <1>1, <1>2, <1>3, <1>4, <1>5, <1>6, <1>7, <1>8, <1>9, <1>10, <1>11, <1>12
       DEF Next, ClientStep, ConnStep, TimerStep, CallbackStep, CloseStep, Expire, vars,
           Dial, Mint, BindCheck, Bye, StartClose, Hangup, CloseReplaced, CloseComplete,
           CloseAlert, CloseEnd, Reap

(* CloseAlert reports what the flag says.                                  *)
LEMMA DropStep == TypeOK /\ AlarmIsReal /\ DropIsReal /\ [Next]_vars => DropIsReal'
  <1> SUFFICES ASSUME TypeOK /\ AlarmIsReal /\ DropIsReal, [Next]_vars PROVE DropIsReal'
    OBVIOUS
  <1> USE DEF TypeOK, AlarmIsReal, DropIsReal, Alarmed, Alarms, connVars, signalVars, iceVars,
              mapVars, redisVars, verdictVars, history
  <1>1. CASE UNCHANGED <<dropped, trouble>>
    BY <1>1
  <1>2. ASSUME NEW c \in Conns, ReleaseSignaling(c) PROVE DropIsReal'
    BY <1>2 DEF ReleaseSignaling
  <1>3. ASSUME NEW p \in Peers, NEW state \in IceStates, IceChanges(p, state) PROVE DropIsReal'
    BY <1>3 DEF IceChanges, IceStates
  <1>4. ASSUME NEW p \in Peers, CloseAlert(p) PROVE DropIsReal'
    BY <1>4 DEF CloseAlert
  <1>5. QED
    BY <1>1, <1>2, <1>3, <1>4
       DEF Next, ClientStep, ConnStep, TimerStep, CallbackStep, CloseStep, Expire, vars,
           Dial, Mint, BindCheck, BindSignaling, Bye, StartClose, Hangup, SignalTimerFires,
           SignalTimerCheck, IceTimerFires, OnConnected, Ran, OnDisconnected, OnFailed,
           OnClosed, CloseReplaced, CloseDetach, CloseComplete, CloseEnd, Reap

(* Replace swaps the map's entry and marks the old peer in one step, and a *)
(* reaper removes its own peer only.                                       *)
LEMMA CurrentStep == TypeOK /\ CurrentIsLatest /\ [Next]_vars => CurrentIsLatest'
  <1> SUFFICES ASSUME TypeOK /\ CurrentIsLatest, [Next]_vars PROVE CurrentIsLatest'
    OBVIOUS
  <1> USE DEF TypeOK, CurrentIsLatest, connVars, signalVars, iceVars, mapVars, redisVars,
              verdictVars, history
  <1>1. CASE UNCHANGED <<life, replaced, current>>
    BY <1>1
  <1>2. ASSUME NEW c \in Conns, Mint(c) PROVE CurrentIsLatest'
    BY <1>2 DEF Mint
  <1>3. ASSUME NEW c \in Conns, Bye(c) PROVE CurrentIsLatest'
    BY <1>3 DEF Bye, StartClose
  <1>4. ASSUME NEW p \in Peers, OnFailed(p) PROVE CurrentIsLatest'
    BY <1>4 DEF OnFailed, Ran, StartClose
  <1>5. ASSUME NEW p \in Peers, OnClosed(p) PROVE CurrentIsLatest'
    BY <1>5 DEF OnClosed, Ran, StartClose
  <1>6. ASSUME NEW p \in Peers, CloseReplaced(p) PROVE CurrentIsLatest'
    BY <1>6 DEF CloseReplaced, StartClose
  <1>7. ASSUME NEW p \in Peers, CloseDetach(p) PROVE CurrentIsLatest'
    BY <1>7 DEF CloseDetach
  <1>8. ASSUME NEW p \in Peers, NEW whole \in BOOLEAN, CloseComplete(p, whole) PROVE CurrentIsLatest'
    BY <1>8 DEF CloseComplete
  <1>9. ASSUME NEW p \in Peers, CloseAlert(p) PROVE CurrentIsLatest'
    BY <1>9 DEF CloseAlert
  <1>10. ASSUME NEW p \in Peers, CloseEnd(p) PROVE CurrentIsLatest'
    BY <1>10 DEF CloseEnd
  <1>11. ASSUME NEW p \in Peers, Reap(p) PROVE CurrentIsLatest'
    BY <1>11 DEF Reap
  <1>12. QED
    BY <1>1, <1>2, <1>3, <1>4, <1>5, <1>6, <1>7, <1>8, <1>9, <1>10, <1>11
       DEF Next, ClientStep, ConnStep, TimerStep, CallbackStep, CloseStep, Expire, vars,
           Dial, BindCheck, BindSignaling, Hangup, ReleaseSignaling, SignalTimerFires,
           SignalTimerCheck, IceTimerFires, IceChanges, OnConnected, Ran, OnDisconnected

-----------------------------------------------------------------------------
(* Every variable keeps its type, and a grace timer that runs belongs to   *)
(* the latest generation of its peer.                                      *)
THEOREM TypeCorrect == Spec => []TypeOK
  BY TypeInit, TypeStep, PTL DEF Spec

(* BindSignaling's promise: the newest connection of an open peer keeps    *)
(* its channel, with no grace timer against it, while older handlers of    *)
(* the same peer unwind and their timers fire late.                        *)
THEOREM NewestHolds == Spec => []NewestConnHolds
  <1>1. SignalInv => NewestConnHolds
    BY DEF SignalInv
  <1>2. QED
    BY <1>1, SignalInductive, PTL

(* An open peer always has somebody who will end it or a connection on it: *)
(* no order of binds, releases, timers and replacements forgets one.       *)
THEOREM PeersNeverLeak == Spec => []NoLeakedPeer
  <1>1. SignalInv => NoLeakedPeer
    BY DEF SignalInv, HeldByNewest, HeldNow, Attached, Bound, NoLeakedPeer, Held
  <1>2. QED
    BY <1>1, SignalInductive, PTL

(* STREAM_DROPPED is published only for a stream that lost its ICE         *)
(* connection or its socket.                                               *)
THEOREM DropsAreReal == Spec => []DropIsReal
  <1>1. Init => DropInv
    BY TypeInit DEF Init, DropInv, AlarmIsReal, Alarmed, Alarms, DropIsReal
  <1>2. DropInv /\ [Next]_vars => DropInv'
    BY TypeStep, AlarmStep, DropStep DEF DropInv
  <1>3. DropInv => DropIsReal
    BY DEF DropInv
  <1>4. QED
    BY <1>1, <1>2, <1>3, PTL DEF Spec

(* The session map names the one open peer of its key that nothing has     *)
(* replaced: a dying peer's reaper never evicts its successor.             *)
THEOREM MapNamesLatest == Spec => []CurrentIsLatest
  <1>1. Init => CurrentIsLatest
    BY DEF Init, CurrentIsLatest
  <1>2. QED
    BY <1>1, TypeInit, TypeStep, CurrentStep, PTL DEF Spec
=============================================================================
