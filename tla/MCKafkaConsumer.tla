-------------------------- MODULE MCKafkaConsumer --------------------------
(* KafkaConsumer for TLC, with the two ways main.go wires a group;         *)
(* maxDLQFails is scaled down to 2.                                        *)
EXTENDS KafkaConsumer

(* The stream-started, stream-ended and the two assembler groups.          *)
RetryingGroup == [maxDLQFails |-> 2, commitOnDLQFailure |-> FALSE, startAtFirst |-> TRUE]

(* The frame-converter group: a late frame is worth nothing.               *)
FrameGroup == [maxDLQFails |-> 0, commitOnDLQFailure |-> TRUE, startAtFirst |-> FALSE]

BothGroups == {RetryingGroup, FrameGroup}
RetryingOnly == {RetryingGroup}
=============================================================================
