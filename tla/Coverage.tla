------------------------------ MODULE Coverage ------------------------------
(***************************************************************************)
(* What a recording covers: the client's inventory of the segments it      *)
(* captured measured against those that arrived (package stream, and the   *)
(* summary the assembler publishes from it).                               *)
(*                                                                         *)
(* A segment is [seq, start, end, frames, size]; times are seconds.  Frame *)
(* rates are scaled by Scale, a multiple of every segment length, to stay  *)
(* exact (the code divides floats).  An inventory that was never declared  *)
(* is the empty sequence, as Reconcile treats an empty one the same.       *)
(***************************************************************************)
EXTENDS Integers, Sequences, FiniteSets

CONSTANTS
    Scale,          \* frame rates are in frames per Scale seconds
    GapTolerance    \* 2 s: a longer interval between two segments is a gap

ASSUME CoverageAssumption == Scale \in Nat \ {0} /\ GapTolerance \in Nat

Elements(s) == {s[i] : i \in DOMAIN s}
Seqs(s) == {m.seq : m \in Elements(s)}
Length(m) == m.end - m.start

(* AuditGaps: two received neighbours further apart than the tolerance,    *)
(* named by the later of the two.                                          *)
Between(metas, i) == metas[i].start - metas[i - 1].end

(* Mutant: the interval is measured from start to start.                   *)
AuditStarts(metas) ==
    {metas[i].seq : i \in {j \in 2 .. Len(metas) : metas[j].start - metas[j - 1].start > GapTolerance}}

AuditGaps(metas) ==
    {metas[i].seq : i \in {j \in 2 .. Len(metas) : Between(metas, j) > GapTolerance}}

(* The segments a rate can be taken of, by their place in the inventory,   *)
(* and their rates.                                                        *)
Usable(declared) == {i \in DOMAIN declared : Length(declared[i]) > 0 /\ declared[i].frames > 0}
Rate(m) == (Scale * m.frames) \div Length(m)

(* Mutant: the mean of the rates.                                          *)
MeanFrameRate(declared) ==
    LET n == Cardinality(Usable(declared))
        sum[i \in 0 .. Len(declared)] ==
            IF i = 0 THEN 0 ELSE sum[i - 1] + IF i \in Usable(declared) THEN Rate(declared[i]) ELSE 0
    IN  IF n = 0 THEN 0 ELSE (2 * sum[Len(declared)]) \div n

(* The k-th rate in ascending order; equal rates keep their places.        *)
AtMost(declared, i, j) ==
    \/ Rate(declared[i]) < Rate(declared[j])
    \/ Rate(declared[i]) = Rate(declared[j]) /\ i <= j
Place(declared, j) == Cardinality({i \in Usable(declared) : AtMost(declared, i, j)})

(* Mutant: the rates are taken as they were captured.                      *)
UnsortedRate(declared, k) ==
    Rate(declared[CHOOSE j \in Usable(declared) : Cardinality({i \in Usable(declared) : i <= j}) = k])

SortedRate(declared, k) == Rate(declared[CHOOSE j \in Usable(declared) : Place(declared, j) = k])

(* Twice the median rate, to stay within the integers; 0 without rates.    *)
MedianFrameRate(declared) ==
    LET n == Cardinality(Usable(declared))
        middle == n \div 2
    IN  CASE n = 0 -> 0
          [] n > 0 /\ n % 2 = 1 -> 2 * SortedRate(declared, middle + 1)
          [] OTHER -> SortedRate(declared, middle) + SortedRate(declared, middle + 1)

(* Below half the baseline, which MedianFrameRate gives twice.             *)
LowRate(m, baseline) == baseline > 0 /\ 4 * Rate(m) < baseline

Anomaly(m, kind) == [seq |-> m.seq, kind |-> kind]

CaptureAnomalies(declared) ==
    LET baseline == MedianFrameRate(declared)
        timed == {m \in Elements(declared) : m.size > 0 /\ Length(m) > 0}
    IN  {Anomaly(m, "empty") : m \in {d \in Elements(declared) : d.size = 0}}
        \cup {Anomaly(m, "not_captured") : m \in {d \in timed : d.frames = 0}}
        \cup {Anomaly(m, "low_frame_rate") : m \in {d \in timed : d.frames > 0 /\ LowRate(d, baseline)}}

(* With an inventory, what it lists and did not arrive; otherwise the gaps *)
(* the timestamps of what arrived show.  Frames are counted where the      *)
(* segment arrived.                                                        *)
Reconcile(inventory, received) ==
    LET missing == IF inventory = <<>> THEN AuditGaps(received) ELSE Seqs(inventory) \ Seqs(received)
        frames[i \in 0 .. Len(inventory)] ==
            IF i = 0 THEN 0
            ELSE frames[i - 1] + IF inventory[i].seq \in Seqs(received) THEN inventory[i].frames ELSE 0
    IN  [missing |-> missing,
         anomalies |-> {[seq |-> q, kind |-> "missing"] : q \in missing} \cup CaptureAnomalies(inventory),
         frames |-> frames[Len(inventory)]]

HasGaps(coverage) == coverage.missing # {}

Extent(s) == IF s = <<>> THEN 0 ELSE s[Len(s)].end - s[1].start

RecordedDuration(inventory, received) == Extent(IF inventory # <<>> THEN inventory ELSE received)

RecordingStatus(hasGaps) == IF hasGaps THEN "PARTIAL" ELSE "READY"

(* What the assembler publishes; an inventory it cannot read counts as     *)
(* none.                                                                   *)
RecordingSummary(inventory, received) ==
    [duration |-> RecordedDuration(inventory, received),
     status |-> RecordingStatus(HasGaps(Reconcile(inventory, received)))]

LoadSummary(inventory, received, readable) ==
    RecordingSummary(IF readable THEN inventory ELSE <<>>, received)

(* GET .../audit: the same reconciliation, with the intervals between what *)
(* arrived beside it.                                                      *)
Audit(inventory, received) ==
    [segments |-> Len(received), gaps |-> AuditGaps(received),
     hasGaps |-> HasGaps(Reconcile(inventory, received)),
     duration |-> RecordedDuration(inventory, received)]
=============================================================================
