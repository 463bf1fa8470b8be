-------------------------- MODULE RecordingLedger --------------------------
(***************************************************************************)
(* What recording assembly promises the services downstream, without the   *)
(* queues, timers, claims and retries that deliver it.  A service sees the *)
(* segment registry, recording.mp4 and the recording.part.changed events;  *)
(* it may rely on this: segments are only ever added, a recording appears  *)
(* at most once and holds registered segments, and READY is announced      *)
(* only for a recording that exists.  FAILED promises nothing: a later     *)
(* attempt may still succeed.                                              *)
(***************************************************************************)
CONSTANTS
    Streams,      \* stream ids
    Parts         \* segment sequence numbers

VARIABLES
    registered,   \* the segments registered for a stream
    recorded,     \* the segments in its recording.mp4, {} when there is none
    announced     \* the last state announced for it

Init ==
    /\ registered = [s \in Streams |-> {}]
    /\ recorded = [s \in Streams |-> {}]
    /\ announced = [s \in Streams |-> "none"]

Register(s, q) ==
    /\ registered' = [registered EXCEPT ![s] = @ \cup {q}]
    /\ UNCHANGED <<recorded, announced>>

(* The recording is made of some segments that were registered.            *)
Store(s) ==
    /\ recorded[s] = {}
    /\ \E parts \in SUBSET registered[s] :
          parts # {} /\ recorded' = [recorded EXCEPT ![s] = parts]
    /\ UNCHANGED <<registered, announced>>

Announce(s, state) ==
    /\ state = "READY" => recorded[s] # {}
    /\ announced' = [announced EXCEPT ![s] = state]
    /\ UNCHANGED <<registered, recorded>>

Next ==
    \E s \in Streams :
        \/ \E q \in Parts : Register(s, q)
        \/ Store(s)
        \/ \E state \in {"UPLOADING", "READY", "FAILED"} : Announce(s, state)

Spec == Init /\ [][Next]_<<registered, recorded, announced>>
=============================================================================
