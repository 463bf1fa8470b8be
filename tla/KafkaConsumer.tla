--------------------------- MODULE KafkaConsumer ---------------------------
(***************************************************************************)
(* One consumer group of the service (queue.Consumer): a single goroutine  *)
(* that fetches, handles with retries, dead-letters and commits, over all  *)
(* the partitions of its topic.                                            *)
(*                                                                         *)
(* Kafka keeps the log and the committed offsets; the fetch position and   *)
(* the DLQ failure counter live in the process.                            *)
(***************************************************************************)
EXTENDS Integers, Sequences, FiniteSets

CONSTANTS
    Partitions,          \* partitions assigned to this consumer
    Kinds,               \* what can be in a message, a subset of AllKinds
    MaxTries,            \* maxRetries + 1
    Configs,             \* how main wires the groups, a subset of Config
    MaxLog,              \* bound: messages per partition
    MaxFaults,           \* bound: failing handler calls and commits
    MaxDLQFaults,        \* bound: failing writes to the dead-letter topic
    MaxResets            \* bound: restarts and rebalances

(* "good" can be handled; "bad" parses but always fails; "garbage" is not  *)
(* JSON, so that neither the handler nor the DLQ envelope accepts it.      *)
AllKinds == {"good", "bad", "garbage"}

(* What a group is constructed with: maxDLQFails (0 never forces a commit),*)
(* commitOnDLQFailure, and whether StartOffset is FirstOffset.             *)
Config == [maxDLQFails : Nat, commitOnDLQFailure : BOOLEAN, startAtFirst : BOOLEAN]

ASSUME ConstantsAssumption ==
    /\ Kinds \subseteq AllKinds /\ Configs \subseteq Config
    /\ MaxTries \in Nat \ {0} /\ MaxLog \in Nat
    /\ MaxFaults \in Nat /\ MaxDLQFaults \in Nat /\ MaxResets \in Nat

VARIABLES
    config,       \* the group's Config, which never changes
    log,          \* Kafka: the messages of a partition; the first has offset 0
    committed,    \* Kafka: the group's next offset, per partition, or Nothing
    position,     \* the reader's next offset, per partition
    pc,           \* "fetch", "handle", "dlq" or "commit"
    cur,          \* the message being processed
    tries,        \* attempt of handleWithRetry
    dlqFailCount, lastFailOffset,   \* the poison-pill counter
    faults, dlqFaults, resets,      \* how much went wrong so far
    handled,      \* history: messages some handler call accepted
    dlq,          \* history: messages in the dead-letter topic
    forced,       \* history: messages committed as poison pills
    waived,       \* history: messages committed by commitOnDLQFailure
    skipped,      \* history: messages a start at the last offset jumped over
    sendFails     \* history: failed DLQ writes, per message

kafkaVars == <<log, committed>>
budget == <<faults, dlqFaults, resets>>
history == <<handled, dlq, forced, waived, skipped, sendFails>>
vars == <<config, kafkaVars, position, pc, cur, tries, dlqFailCount, lastFailOffset, budget, history>>

Offsets == 0 .. MaxLog - 1
Messages == Partitions \X Offsets
NoMessage == <<>>
Nothing == -1

KindOf(m) == log[m[1]][m[2] + 1]

-----------------------------------------------------------------------------
Produce(p, k) ==
    /\ Len(log[p]) < MaxLog
    /\ log' = [log EXCEPT ![p] = Append(@, k)]
    /\ UNCHANGED <<committed, position, pc, cur, tries, dlqFailCount, lastFailOffset, budget, history>>

(* Mutant: the offset is committed on delivery.                            *)
FetchAutoCommit(p) ==
    /\ pc = "fetch" /\ position[p] < Len(log[p])
    /\ pc' = "handle"
    /\ cur' = <<p, position[p]>>
    /\ position' = [position EXCEPT ![p] = @ + 1]
    /\ committed' = [committed EXCEPT ![p] = position[p] + 1]
    /\ tries' = 1
    /\ UNCHANGED <<log, dlqFailCount, lastFailOffset, budget, history>>

(* FetchMessage moves the reader past the message, committed or not.  A    *)
(* failing fetch is retried and changes nothing.                           *)
Fetch(p) ==
    /\ pc = "fetch" /\ position[p] < Len(log[p])
    /\ pc' = "handle"
    /\ cur' = <<p, position[p]>>
    /\ position' = [position EXCEPT ![p] = @ + 1]
    /\ tries' = 1
    /\ UNCHANGED <<kafkaVars, dlqFailCount, lastFailOffset, budget, history>>

HandlerOk ==
    /\ pc = "handle" /\ KindOf(cur) = "good"
    /\ pc' = "commit"
    /\ handled' = handled \cup {cur}
    /\ UNCHANGED <<kafkaVars, position, cur, tries, dlqFailCount, lastFailOffset, budget>>
    /\ UNCHANGED <<dlq, forced, waived, skipped, sendFails>>

(* handleWithRetry: every attempt may fail, the last one hands the message *)
(* to the dead-letter queue.                                               *)
HandlerFails ==
    /\ pc = "handle"
    /\ \/ KindOf(cur) # "good" /\ UNCHANGED faults
       \/ KindOf(cur) = "good" /\ faults < MaxFaults /\ faults' = faults + 1
    /\ IF tries < MaxTries
       THEN tries' = tries + 1 /\ UNCHANGED pc
       ELSE pc' = "dlq" /\ UNCHANGED tries
    /\ UNCHANGED <<kafkaVars, position, cur, dlqFailCount, lastFailOffset, dlqFaults, resets, history>>

DLQSend ==
    /\ pc = "dlq" /\ KindOf(cur) # "garbage"
    /\ pc' = "commit"
    /\ dlq' = dlq \cup {cur}
    /\ UNCHANGED <<kafkaVars, position, cur, tries, dlqFailCount, lastFailOffset, budget>>
    /\ UNCHANGED <<handled, forced, waived, skipped, sendFails>>

(* Send fails for good on a payload that is not JSON, and otherwise when   *)
(* the write does; a write that timed out may still have arrived.          *)
SendFailed ==
    \/ KindOf(cur) = "garbage" /\ UNCHANGED <<dlq, dlqFaults>>
    \/ /\ KindOf(cur) # "garbage"
       /\ dlqFaults < MaxDLQFaults /\ dlqFaults' = dlqFaults + 1
       /\ dlq' \in {dlq, dlq \cup {cur}}

(* Mutant: the counter is not reset for a new offset.                      *)
FailCountNoReset == 1 + dlqFailCount

(* Failures on one offset in a row; the counter knows no partition.        *)
FailCount == 1 + IF cur[2] = lastFailOffset THEN dlqFailCount ELSE 0

(* maxDLQFails is reached.                                                 *)
Exhausted == config.maxDLQFails > 0 /\ FailCount >= config.maxDLQFails

(* The message is forced past after maxDLQFails, or waived, or left        *)
(* uncommitted: the loop then fetches the NEXT message.                    *)
DLQFails ==
    /\ pc = "dlq"
    /\ SendFailed
    /\ lastFailOffset' = cur[2]
    /\ sendFails' = [sendFails EXCEPT ![cur] = @ + 1]
    /\ \/ /\ Exhausted
          /\ dlqFailCount' = 0
          /\ forced' = forced \cup {cur}
          /\ pc' = "commit"
          /\ UNCHANGED <<cur, tries, waived>>
       \/ /\ ~Exhausted
          /\ dlqFailCount' = FailCount
          /\ UNCHANGED forced
          /\ IF config.commitOnDLQFailure
             THEN pc' = "commit" /\ waived' = waived \cup {cur} /\ UNCHANGED <<cur, tries>>
             ELSE pc' = "fetch" /\ cur' = NoMessage /\ tries' = 0 /\ UNCHANGED waived
    /\ UNCHANGED <<kafkaVars, position, faults, resets, handled, skipped>>

(* CommitMessages stores the offset after the message; a failure is logged *)
(* and the loop goes on, whether or not the broker applied the commit.     *)
Commit ==
    /\ pc = "commit"
    /\ pc' = "fetch" /\ cur' = NoMessage /\ tries' = 0
    /\ \/ committed' = [committed EXCEPT ![cur[1]] = cur[2] + 1] /\ UNCHANGED faults
       \/ faults < MaxFaults /\ faults' = faults + 1 /\ UNCHANGED committed
    /\ UNCHANGED <<log, position, dlqFailCount, lastFailOffset, dlqFaults, resets, history>>

(* Mutant: every group starts at the last offset.                          *)
StartAtLatest(p) == IF committed[p] # Nothing THEN committed[p] ELSE Len(log[p])

(* Where a reader starts: StartOffset counts only without a committed one. *)
StartPosition(p) ==
    IF committed[p] # Nothing THEN committed[p] ELSE IF config.startAtFirst THEN 0 ELSE Len(log[p])

(* A reader starts over, in a new generation of the group or a new process.*)
Reset ==
    /\ resets < MaxResets /\ resets' = resets + 1
    /\ position' = [p \in Partitions |-> StartPosition(p)]
    /\ skipped' = skipped \cup
          {m \in Messages : ~config.startAtFirst /\ committed[m[1]] = Nothing /\ m[2] < Len(log[m[1]])}
    /\ UNCHANGED <<kafkaVars, faults, dlqFaults, handled, dlq, forced, waived, sendFails>>

(* A new generation of the group: the message in hand is finished all the  *)
(* same, and the counter stays.                                            *)
Rebalance ==
    /\ Reset
    /\ UNCHANGED <<pc, cur, tries, dlqFailCount, lastFailOffset>>

(* The process is replaced.                                                *)
Restart ==
    /\ Reset
    /\ pc' = "fetch" /\ cur' = NoMessage /\ tries' = 0
    /\ dlqFailCount' = 0 /\ lastFailOffset' = 0

Init ==
    /\ config \in Configs
    /\ log = [p \in Partitions |-> <<>>]
    /\ committed = [p \in Partitions |-> Nothing]
    /\ position = [p \in Partitions |-> 0]
    /\ pc = "fetch" /\ cur = NoMessage /\ tries = 0
    /\ dlqFailCount = 0 /\ lastFailOffset = 0
    /\ faults = 0 /\ dlqFaults = 0 /\ resets = 0
    /\ handled = {} /\ dlq = {} /\ forced = {} /\ waived = {} /\ skipped = {}
    /\ sendFails = [m \in Messages |-> 0]

Consume == (\E p \in Partitions : Fetch(p)) \/ HandlerOk \/ HandlerFails \/ DLQSend \/ DLQFails \/ Commit

Next ==
    /\ \/ \E p \in Partitions, k \in Kinds : Produce(p, k)
       \/ Consume
       \/ Rebalance \/ Restart
    /\ UNCHANGED config

Spec == Init /\ [][Next]_vars

(* Run is a goroutine that never stops before its context ends.            *)
LiveSpec == Spec /\ WF_vars(Consume /\ UNCHANGED config)

-----------------------------------------------------------------------------
(* Every variable has its type; the counter stays below its limit.         *)
TypeOK ==
    /\ log \in [Partitions -> Seq(Kinds)] /\ \A p \in Partitions : Len(log[p]) <= MaxLog
    /\ committed \in [Partitions -> 1 .. MaxLog \cup {Nothing}]
    /\ position \in [Partitions -> 0 .. MaxLog]
    /\ pc \in {"fetch", "handle", "dlq", "commit"}
    /\ cur \in Messages \cup {NoMessage} /\ (cur = NoMessage <=> pc = "fetch")
    /\ tries \in 0 .. MaxTries
    /\ config \in Configs /\ dlqFailCount \in Nat
    /\ config.maxDLQFails > 0 => dlqFailCount < config.maxDLQFails
    /\ lastFailOffset \in Offsets \cup {0}
    /\ faults \in 0 .. MaxFaults /\ dlqFaults \in 0 .. MaxDLQFaults /\ resets \in 0 .. MaxResets
    /\ handled \subseteq Messages /\ dlq \subseteq Messages
    /\ forced \subseteq Messages /\ waived \subseteq Messages /\ skipped \subseteq Messages
    /\ sendFails \in [Messages -> Nat]

(* A message needs no further delivery: handled, dead-lettered, or given   *)
(* up in one of the three ways the code announces.                         *)
Settled(m) == m \in handled \cup dlq \cup forced \cup waived \cup skipped

(* At-least-once delivery, across retries, failed commits, restarts and    *)
(* rebalances: the group's offset passes only messages that are settled,   *)
(* or whose dead-letter write failed.                                      *)
CommittedIsTried ==
    \A p \in Partitions : \A o \in 0 .. committed[p] - 1 :
        Settled(<<p, o>>) \/ sendFails[<<p, o>>] > 0

(* The failed dead-letter writes at an offset, each one numbered.          *)
FailedAt(o) == UNION {{p} \X (1 .. sendFails[<<p, o>>]) : p \in Partitions}

(* A poison pill is forced past only after maxDLQFails failed writes at    *)
(* its offset, counted over the partitions as the code does.               *)
ForceIsEarned == \A m \in forced : Cardinality(FailedAt(m[2])) >= config.maxDLQFails

(* Every message is eventually settled, unless a write to the dead-letter  *)
(* topic fails for it.                                                     *)
EventuallySettled ==
    \A m \in Messages : (m[2] < Len(log[m[1]])) ~> (Settled(m) \/ sendFails[m] > 0)

-----------------------------------------------------------------------------
(***************************************************************************)
(* What comments in the code say of it and the model refutes.              *)
(***************************************************************************)

(* "skip the commit so the message gets redelivered": the group's offset   *)
(* never passes a message that is not settled.                             *)
CommittedIsSettled ==
    \A p \in Partitions : \A o \in 0 .. committed[p] - 1 : Settled(<<p, o>>)

(* maxDLQFails consecutive failures on one offset: a poison pill is forced *)
(* past only after that many failed writes of that very message.           *)
ForcedByItself == \A m \in forced : sendFails[m] >= config.maxDLQFails
=============================================================================
