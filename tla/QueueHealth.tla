---------------------------- MODULE QueueHealth ----------------------------
(***************************************************************************)
(* The two parts of the queue package that keep it healthy: the            *)
(* publisher's topic recovery and the monitor.  Neither reads or writes    *)
(* anything of the other, so every behaviour of the process is one of each *)
(* side by side; HealthInit chooses the one that is observed.                    *)
(***************************************************************************)
EXTENDS TopicRecovery, QueueMonitor

VARIABLE part    \* which of the two is observed

healthVars == <<part, publisherVars, monitorVars>>

HealthInit == part \in {"publisher", "monitor"} /\ RecoveryInit /\ MonitorInit

(* While one part is observed the other stands still.                      *)
PublisherActs == part = "publisher" /\ UNCHANGED <<part, monitorVars>>
MonitorActs == part = "monitor" /\ UNCHANGED <<part, publisherVars>>

Tick ==
    \/ PublisherActs /\ RecoveryTick
    \/ MonitorActs /\ MonitorTick

HealthNext ==
    \/ PublisherActs /\ RecoveryNext
    \/ MonitorActs /\ MonitorNext
    \/ Tick

(* The broker finishes what it accepted, running calls proceed, the        *)
(* monitor's ticker fires, and time passes whatever else happens.          *)
Fairness ==
    /\ \A t \in AllTopics : WF_healthVars(PublisherActs /\ Appear(t))
    /\ \A c \in Calls : WF_healthVars(PublisherActs /\ PublishStep(c))
    /\ WF_healthVars(MonitorActs /\ CheckLag)
    /\ SF_healthVars(Tick)

HealthSpec == HealthInit /\ [][HealthNext]_healthVars /\ Fairness
=============================================================================
