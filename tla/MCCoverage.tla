----------------------------- MODULE MCCoverage -----------------------------
(***************************************************************************)
(* Every short recording: the client captures segments of given shapes,    *)
(* pausing between them, each arrives or does not, and at some point the   *)
(* client declares what it has.                                            *)
(***************************************************************************)
EXTENDS Coverage

CONSTANTS
    Studies,        \* kinds of recordings, see below
    MaxSegs         \* bound: segments captured

ASSUME StudiesAssumption ==
    /\ MaxSegs \in Nat
    /\ \A s \in Studies :
          /\ s.lengths \subseteq Nat /\ s.frames \subseteq Nat /\ s.sizes \subseteq Nat
          /\ s.pauses \subseteq Nat /\ s.fates \subseteq BOOLEAN

(* A study varies the lengths and frame counts of segments, whether they   *)
(* are empty, the pauses between them, or whether they arrive.             *)
RateStudy == [lengths |-> {0, 1, 2}, frames |-> {0, 1, 5}, sizes |-> {0, 1}, pauses |-> {0}, fates |-> {TRUE}]
GapStudy == [lengths |-> {2, 3}, frames |-> {1}, sizes |-> {1}, pauses |-> {0, 2, 3}, fates |-> {TRUE, FALSE}]
BothStudies == {RateStudy, GapStudy}
OneGapStudy == {GapStudy}

VARIABLES
    study,          \* the kind of recording
    captured,       \* segments the client captured
    arrived,        \* history: numbers of those that arrived
    received,       \* SegmentRegistry.List: what arrived, by number
    declared        \* how many of them its inventory lists

coverageVars == <<study, captured, arrived, received, declared>>

EndOf(s) == IF s = <<>> THEN 0 ELSE s[Len(s)].end

Segment(length, frames, size, pause) ==
    [seq |-> Len(captured), start |-> EndOf(captured) + pause,
     end |-> EndOf(captured) + pause + length, frames |-> frames, size |-> size]

Capture(m, arrives) ==
    /\ Len(captured) < MaxSegs
    /\ captured' = Append(captured, m)
    /\ arrived' = IF arrives THEN arrived \cup {m.seq} ELSE arrived
    /\ received' = IF arrives THEN Append(received, m) ELSE received
    /\ UNCHANGED <<study, declared>>

Declare ==
    /\ declared' = Len(captured) /\ UNCHANGED <<study, captured, arrived, received>>

CoverageInit == study \in Studies /\ captured = <<>> /\ arrived = {} /\ received = <<>> /\ declared = 0
CoverageNext ==
    \/ Declare
    \/ \E l \in study.lengths, f \in study.frames, z \in study.sizes, p \in study.pauses, a \in study.fates :
          Capture(Segment(l, f, z, p), a)
CoverageSpec == CoverageInit /\ [][CoverageNext]_coverageVars

-----------------------------------------------------------------------------
Inventory == SubSeq(captured, 1, declared)
Rated == {i \in Usable(Inventory) : Inventory[i].size > 0}
RateAt(i) == Rate(Inventory[i])
Flagged == {i \in DOMAIN Inventory : Anomaly(Inventory[i], "low_frame_rate") \in Reconcile(Inventory, received).anomalies}

(* "a handful of frozen segments cannot drag the baseline down to meet     *)
(* themselves": where most segments reach a rate, every segment below half *)
(* of it is reported.                                                      *)
MajorityProtects ==
    \A typical \in Rated :
        2 * Cardinality({i \in Usable(Inventory) : RateAt(i) >= RateAt(typical)}) > Cardinality(Usable(Inventory))
            => \A i \in Rated : 2 * RateAt(i) < RateAt(typical) => i \in Flagged

(* Nor can a burst drag it up: where most segments stay within a rate, no  *)
(* segment that keeps half of it is reported, so ordinary ones are not     *)
(* made anomalies by a few with many frames.                               *)
NoFalseAlarm ==
    \A typical \in Usable(Inventory) :
        2 * Cardinality({i \in Usable(Inventory) : RateAt(i) <= RateAt(typical)}) > Cardinality(Usable(Inventory))
            => \A i \in Flagged : 2 * RateAt(i) < RateAt(typical)

(* Without an inventory, where segments are longer than the tolerance and  *)
(* pauses are not, a recording is PARTIAL exactly when a segment between   *)
(* two others is lost.                                                     *)
InteriorGapSeen ==
    (/\ \A m \in Elements(captured) : Length(m) > GapTolerance
     /\ \A i \in 2 .. Len(captured) : Between(captured, i) <= GapTolerance) =>
        (LoadSummary(Inventory, received, FALSE).status = "PARTIAL"
            <=> \E a, b \in arrived : \E q \in a .. b : q \notin arrived)

-----------------------------------------------------------------------------
(***************************************************************************)
(* What comments in the code say of it and the model refutes.              *)
(***************************************************************************)

(* A "missing" segment is one "declared by the client, never arrived".     *)
MissingNeverArrived == Reconcile(Inventory, received).missing \cap arrived = {}

(* Without an inventory coverage is "strictly weaker": an audit never      *)
(* reports no gaps while it lists one between two segments that arrived.   *)
InventoryIsStronger ==
    Audit(Inventory, received).gaps # {} => Audit(Inventory, received).hasGaps
=============================================================================
