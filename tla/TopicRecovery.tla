--------------------------- MODULE TopicRecovery ---------------------------
(***************************************************************************)
(* How the publisher survives a broker that comes back without its topics. *)
(*                                                                         *)
(* A publish that finds its topic missing runs recoverTopics under a mutex *)
(* and, if that reports success, retries once.  recoverTopics runs         *)
(* EnsureTopics at most once per cooldown; a call that arrives within it   *)
(* takes over the last verdict.  EnsureTopics reads the broker's topics,   *)
(* creates the missing ones in one request and waits until it sees them.   *)
(* Calls come from many goroutines (peers, upload handlers, the assembler).*)
(***************************************************************************)
EXTENDS Integers, FiniteSets

CONSTANTS
    Topics,         \* RequiredTopics
    DLQTopics,      \* the dead-letter topic of each
    Calls,          \* concurrent calls of publish
    Cooldown,       \* topicRecoveryCooldown, in ticks
    MaxLosses,      \* bound: the broker restarts on empty storage
    MaxBrokerFaults       \* bound: other failing calls to the broker

ASSUME RecoveryAssumption ==
    /\ Topics \cap DLQTopics = {} /\ "none" \notin Calls
    /\ Cooldown \in Nat \ {0} /\ MaxLosses \in Nat /\ MaxBrokerFaults \in Nat

VARIABLES
    broker,         \* topics visible in the broker's metadata
    creating,       \* topics created but not yet visible
    call,           \* what each call of publish is doing
    missing,        \* the topics its EnsureTopics pass found absent
    holder,         \* the call that holds recoveryMu, or NoCall
    age,            \* time since lastRecovery, up to Cooldown
    lastRecoveryOK, \* the verdict of the last pass
    owed,           \* history: calls that waited while a pass succeeded
    timely,         \* history: that pass ended a tick or more before the cooldown
    losses, brokerFaults

recoveryVars == <<holder, age, lastRecoveryOK>>
brokerVars == <<broker, creating, losses>>
debtVars == <<owed, timely>>
publisherVars == <<brokerVars, call, missing, recoveryVars, debtVars, brokerFaults>>

AllTopics == Topics \cup DLQTopics
NoCall == "none"
Idle == [at |-> "idle"]

Ok == UNCHANGED brokerFaults
Fault == brokerFaults < MaxBrokerFaults /\ brokerFaults' = brokerFaults + 1

Goto(c, to) == call' = [call EXCEPT ![c].at = to]
Return(c) == call' = [call EXCEPT ![c] = Idle]

-----------------------------------------------------------------------------
(***************************************************************************)
(* The broker.                                                             *)
(***************************************************************************)

(* It restarts on empty storage.                                           *)
LoseTopics ==
    /\ losses < MaxLosses /\ losses' = losses + 1
    /\ broker' = {} /\ creating' = {}
    /\ UNCHANGED <<call, missing, recoveryVars, debtVars, brokerFaults>>

(* Creation is asynchronous: a created topic appears in the metadata later.*)
Appear(t) ==
    /\ t \in creating
    /\ creating' = creating \ {t} /\ broker' = broker \cup {t}
    /\ UNCHANGED <<losses, call, missing, recoveryVars, debtVars, brokerFaults>>

(* Another instance of the service creates the topics it found missing.    *)
CreatedElsewhere(ts) ==
    /\ ts # {} /\ ts \cap (broker \cup creating) = {}
    /\ creating' = creating \cup ts
    /\ UNCHANGED <<broker, losses, call, missing, recoveryVars, debtVars, brokerFaults>>

-----------------------------------------------------------------------------
(***************************************************************************)
(* publish.                                                                *)
(***************************************************************************)

Publish(c, t) ==
    /\ call[c] = Idle
    /\ call' = [call EXCEPT ![c] = [at |-> "write", topic |-> t]]
    /\ UNCHANGED <<brokerVars, missing, recoveryVars, debtVars, brokerFaults>>

(* The first WriteMessages: an unknown topic leads to recoverTopics, every *)
(* other error to the caller.                                              *)
WriteMessages(c) ==
    /\ call[c].at = "write"
    /\ \/ call[c].topic \in broker /\ Return(c) /\ Ok
       \/ call[c].topic \notin broker /\ Goto(c, "lock") /\ Ok
       \/ Return(c) /\ Fault
    /\ UNCHANGED <<brokerVars, missing, recoveryVars, debtVars>>

(* The only retry: its error goes to the caller whatever it is.            *)
RetryWrite(c) ==
    /\ call[c].at = "retry"
    /\ Return(c)
    /\ UNCHANGED <<brokerVars, missing, recoveryVars, debtVars, brokerFaults>>

-----------------------------------------------------------------------------
(***************************************************************************)
(* recoverTopics, from the moment the mutex is taken.                      *)
(***************************************************************************)

(* Mutant: the cooldown denies every retry.                                *)
TakeVerdictDenied(c) ==
    /\ call[c].at = "lock" /\ holder = NoCall
    /\ age < Cooldown
    /\ Return(c)
    /\ owed' = owed \ {c}
    /\ UNCHANGED <<timely, brokerVars, missing, recoveryVars, brokerFaults>>

(* Mutant: a call within the cooldown starts it again.                     *)
TakeVerdictRestarts(c) ==
    /\ call[c].at = "lock" /\ holder = NoCall
    /\ age < Cooldown
    /\ IF lastRecoveryOK THEN Goto(c, "retry") ELSE Return(c)
    /\ age' = 0
    /\ owed' = owed \ {c}
    /\ UNCHANGED <<timely, brokerVars, missing, holder, lastRecoveryOK, brokerFaults>>

(* Within the cooldown the last verdict decides ...                        *)
TakeVerdict(c) ==
    /\ call[c].at = "lock" /\ holder = NoCall
    /\ age < Cooldown
    /\ IF lastRecoveryOK THEN Goto(c, "retry") ELSE Return(c)
    /\ owed' = owed \ {c}
    /\ UNCHANGED <<timely, brokerVars, missing, recoveryVars, brokerFaults>>

(* ... after it, the call runs a pass of its own.                          *)
BeginPass(c) ==
    /\ call[c].at = "lock" /\ holder = NoCall
    /\ age = Cooldown
    /\ holder' = c /\ age' = 0 /\ lastRecoveryOK' = FALSE
    /\ Goto(c, "read")
    /\ UNCHANGED <<brokerVars, missing, debtVars, brokerFaults>>

EndPass(c, success) ==
    /\ holder' = NoCall /\ lastRecoveryOK' = success
    /\ IF success THEN Goto(c, "retry") ELSE Return(c)
    /\ owed' = (owed \ {c}) \cup {d \in Calls : success /\ call[d].at = "lock"}
    /\ timely' = IF success THEN age + 1 < Cooldown ELSE timely
    /\ UNCHANGED age

(* EnsureTopics: connect and read which topics are there.                  *)
ReadTopics(c) ==
    /\ call[c].at = "read"
    /\ LET absent == AllTopics \ broker IN
       \/ absent = {} /\ Ok /\ EndPass(c, TRUE) /\ UNCHANGED missing
       \/ /\ absent # {} /\ Ok
          /\ missing' = [missing EXCEPT ![c] = absent]
          /\ Goto(c, "create") /\ UNCHANGED <<recoveryVars, debtVars>>
       \/ Fault /\ EndPass(c, FALSE) /\ UNCHANGED missing
    /\ UNCHANGED brokerVars

(* CreateTopics takes the missing ones; a topic that exists by now gives   *)
(* the tolerated "already exists".  When the request fails some of it may  *)
(* have been carried out, and as the client reports only one error of the  *)
(* batch, an "already exists" can hide the failure: then the pass goes on. *)
CreateTopics(c) ==
    /\ call[c].at = "create"
    /\ \E made \in SUBSET (missing[c] \ broker) :
          /\ creating' = creating \cup made
          /\ \/ /\ made = missing[c] \ broker /\ Ok
                /\ Goto(c, "verify") /\ UNCHANGED <<recoveryVars, debtVars>>
             \/ Fault /\ EndPass(c, FALSE)
             \/ /\ missing[c] \cap (broker \cup creating) # {} /\ Fault
                /\ Goto(c, "verify") /\ UNCHANGED <<recoveryVars, debtVars>>
    /\ UNCHANGED <<broker, losses, missing>>

(* waitForTopics polls until every name is visible or it times out.        *)
VerifyTopics(c) ==
    /\ call[c].at = "verify"
    /\ \/ missing[c] \subseteq broker /\ Ok /\ EndPass(c, TRUE)
       \/ /\ IF missing[c] \subseteq broker \cup creating THEN Fault ELSE Ok
          /\ EndPass(c, FALSE)
    /\ missing' = [missing EXCEPT ![c] = {}]
    /\ UNCHANGED brokerVars

-----------------------------------------------------------------------------
(* A pass may take any time: its context bounds the two connects and the   *)
(* poll, but reading the controller and the topics and creating them are   *)
(* requests without a deadline.  The mutex is handed to the calls that     *)
(* waited for a pass within a tick.                                        *)
RecoveryTick ==
    /\ holder = NoCall => owed = {}
    /\ age' = IF age < Cooldown THEN age + 1 ELSE age
    /\ UNCHANGED <<brokerVars, call, missing, holder, lastRecoveryOK, debtVars, brokerFaults>>

RecoveryInit ==
    /\ broker = AllTopics /\ creating = {}
    /\ call = [c \in Calls |-> Idle]
    /\ missing = [c \in Calls |-> {}]
    /\ holder = NoCall /\ age = Cooldown /\ lastRecoveryOK = FALSE
    /\ owed = {} /\ timely = FALSE /\ losses = 0 /\ brokerFaults = 0

PublishStep(c) ==
    \/ WriteMessages(c) \/ RetryWrite(c) \/ TakeVerdict(c) \/ BeginPass(c)
    \/ ReadTopics(c) \/ CreateTopics(c) \/ VerifyTopics(c)

RecoveryNext ==
    \/ LoseTopics
    \/ \E t \in AllTopics : Appear(t)
    \/ CreatedElsewhere(AllTopics \ (broker \cup creating))
    \/ \E c \in Calls : PublishStep(c) \/ \E t \in Topics : Publish(c, t)

-----------------------------------------------------------------------------
(* A call that found its topic missing and waited while a pass succeeded   *)
(* retries its message (recoverTopics), if that pass left a tick of the    *)
(* cooldown: no other pass takes its verdict back before it has the mutex. *)
EarnedRetry ==
    [][timely => \A c \in owed : call'[c] # Idle]_publisherVars

(* Refuted: "callers queued behind a successful one are told to go ahead"  *)
(* (recoverTopics), however long that one took.  A pass can outlast the    *)
(* cooldown, which runs from its start; then the caller that waited runs a *)
(* pass of its own, and gives up its message when that one fails.          *)
WaitersGoAhead ==
    [][\A c \in owed : call'[c] # Idle]_publisherVars

(* A topic that is published to again and again is there again and again:  *)
(* the loss of all topics, failing passes and the cooldown only delay it.  *)
TopicsReturn ==
    \A t \in Topics :
        []<>(\E c \in Calls : call[c] = [at |-> "write", topic |-> t]) => []<>(t \in broker)

(* Refuted: the dead-letter topics come back too.  When CreateTopics makes *)
(* the required topics and fails on a dead-letter one, publishes succeed   *)
(* again, no pass is ever run, and dead letters stay without a topic.      *)
DLQTopicsReturn ==
    \A t \in DLQTopics :
        []<>(\E c \in Calls : call[c].at = "write") => []<>(t \in broker)
=============================================================================
