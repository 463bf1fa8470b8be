--------------------------- MODULE FrameExtractor ---------------------------
(***************************************************************************)
(* The RTP path of one video track: the reorder buffer that resequences    *)
(* packets, the gap detector behind it, and the assembly of NAL units into *)
(* pictures, the last IDR picture of which is kept for frame capture.      *)
(*                                                                         *)
(* Packets are numbered 1 .. Len(Layout) as they were sent; the code sees  *)
(* only Seq(n), the number modulo the sequence space.  The network loses,  *)
(* duplicates and reorders them.  Waits are in ticks, capped where the     *)
(* code no longer tells them apart.                                        *)
(***************************************************************************)
EXTENDS Integers, Sequences, FiniteSets

CONSTANTS
    Layout,         \* packets: [pic, part, idr, marker]
    SeqSpace,       \* 2^16 in the code
    FirstSeq,       \* sequence number of packet 0
    MaxWait,        \* reorderMaxWait
    MaxHold,        \* reorderMaxHold
    MinPLI          \* minPLIInterval

Packets == DOMAIN Layout
Parts == {"whole", "start", "middle", "end"}   \* a NAL unit, or a part of one (FU-A)

(* Layout is a stretch of the stream no longer than half the sequence      *)
(* space, so that no two of its packets, and none that is delayed within   *)
(* it, are further apart than the comparison of the code can tell.         *)
ASSUME ExtractorAssumption ==
    /\ Layout \in Seq([pic : Nat, part : Parts, idr : BOOLEAN, marker : BOOLEAN])
    /\ SeqSpace \in Nat /\ 2 * Len(Layout) <= SeqSpace /\ FirstSeq \in 0 .. SeqSpace - 1
    /\ MaxWait \in Nat \ {0} /\ MaxHold \in Nat \ {0} /\ MinPLI \in Nat

(* The sender follows RFC 6184: a picture ends with a marker, never inside *)
(* a NAL unit, and the fragments of one travel in consecutive packets.     *)
ASSUME LayoutAssumption ==
    /\ \A n \in Packets : Layout[n].part \in {"start", "middle"} => ~Layout[n].marker
    /\ \A n \in 2 .. Len(Layout) :
          /\ Layout[n].part \in {"middle", "end"} <=> Layout[n - 1].part \in {"start", "middle"}
          /\ Layout[n].pic = Layout[n - 1].pic \/ Layout[n - 1].marker

VARIABLES
    started, next,  \* reorderBuffer: hasNext, nextSeq
    pending,        \* reorderBuffer: packets held
    waited,         \* time since gapSince
    prev,           \* checkSeqGap: prevSeq, 0 before the first packet
    lost,           \* lostPackets
    picBuf, fua,    \* NAL units of the picture so far; parts of the open one
    corrupted,      \* pictureCorrupted
    idr,            \* idrNALs
    pliWait,        \* time until another PLI may be sent
    delivered,      \* history: packets handed on
    disordered,     \* history: checkSeqGap took its last branch
    missing,        \* history: how long a packet is known to be missing, -1 if not
    early           \* history: a packet was given up before its time

bufferVars == <<started, next, pending, waited>>
pictureVars == <<prev, lost, picBuf, fua, corrupted, idr, pliWait, delivered, disordered>>
extractorVars == <<bufferVars, pictureVars, missing, early>>

NoNAL == <<>>

-----------------------------------------------------------------------------
(***************************************************************************)
(* reorderBuffer.push.  Sequence numbers are compared as the code compares *)
(* them, by the signed difference modulo the sequence space.               *)
(***************************************************************************)
SequenceNumber(n) == (FirstSeq + n) % SeqSpace

(* Mutant: numbers are compared without wrapping.                          *)
PlainDelta(m, n) == SequenceNumber(m) - SequenceNumber(n)

Delta(m, n) ==
    LET d == (SequenceNumber(m) - SequenceNumber(n)) % SeqSpace
    IN  IF 2 * d >= SeqSpace THEN d - SeqSpace ELSE d

(* The run of held packets from n on, and where it ends.                   *)
RunEnd(n, held) == CHOOSE e \in n .. Len(Layout) + 1 : e \notin held /\ n .. e - 1 \subseteq held
Run(n, held) == [i \in 1 .. RunEnd(n, held) - n |-> n + i - 1]

(* What a push does: the packets it returns, and the buffer it leaves.     *)
Outcome(out, nx, held, wait) == [out |-> out, next |-> nx, pending |-> held, waited |-> wait]

Drain(n, held, wait) ==
    LET e == RunEnd(n, held)
        rest == {m \in held : m >= e}
    IN  Outcome(Run(n, held), e, rest, wait)

(* One missing number is given up; the wait starts over if another is.     *)
GiveUpAndDrain(n, held, wait) ==
    LET d == Drain(n + 1, held, wait)
    IN  IF d.pending # {} THEN [d EXCEPT !.waited = 0] ELSE d

Push(n) ==
    LET first == IF started THEN next ELSE n
        held == pending \cup {n}
        wait == IF pending = {} THEN 0 ELSE waited
        full == Cardinality(held) >= MaxHold \/ wait >= MaxWait
        delta == Delta(n, first)
    IN  CASE delta < 0 -> Outcome(<<>>, first, pending, waited)
          [] delta = 0 -> Drain(n, held, waited)
          [] delta > 0 /\ full -> GiveUpAndDrain(first, held, wait)
          [] OTHER -> Outcome(<<>>, first, held, wait)

-----------------------------------------------------------------------------
(***************************************************************************)
(* ingestOrdered, one packet after the other.                              *)
(***************************************************************************)
Picture ==
    [prev |-> prev, lost |-> lost, picBuf |-> picBuf, fua |-> fua, corrupted |-> corrupted,
     idr |-> idr, pliWait |-> pliWait, delivered |-> delivered, disordered |-> disordered]

(* Mutant: the packet that ends the gap is counted as lost too.            *)
CountsOneMore(f, n) ==
    LET d == Delta(n, f.prev) IN
    [f EXCEPT !.delivered = @ \cup {n}, !.prev = IF @ = 0 \/ d >= 1 THEN n ELSE @,
              !.lost = IF f.prev # 0 /\ d > 1 THEN @ + d ELSE @,
              !.disordered = @ \/ (f.prev # 0 /\ d < 1)]

(* A packet that does not follow the last one is a gap, or disorder.       *)
CheckSeqGap(f, n) ==
    LET d == Delta(n, f.prev) IN
    [f EXCEPT !.delivered = @ \cup {n}, !.prev = IF @ = 0 \/ d >= 1 THEN n ELSE @,
              !.lost = IF f.prev # 0 /\ d > 1 THEN @ + d - 1 ELSE @,
              !.disordered = @ \/ (f.prev # 0 /\ d < 1)]

(* Mutant: a gap does not taint the picture it falls in.                   *)
TaintsNothing(f, n) == FALSE

(* A gap inside a picture taints it.                                       *)
Taints(f, n) == f.prev # 0 /\ Delta(n, f.prev) # 1 /\ (f.picBuf # <<>> \/ f.fua # NoNAL)

HasIDR(nals) == \E i \in DOMAIN nals : \E k \in DOMAIN nals[i] : Layout[nals[i][k]].idr

(* A tainted picture is dropped and a keyframe asked for, unless one was   *)
(* asked for just before; an IDR picture is kept.                          *)
CommitPicture(f) ==
    CASE f.picBuf = <<>> -> f
      [] f.picBuf # <<>> /\ f.corrupted ->
            [f EXCEPT !.corrupted = FALSE, !.picBuf = <<>>, !.pliWait = IF @ = 0 THEN MinPLI ELSE @]
      [] OTHER ->
            [f EXCEPT !.idr = IF HasIDR(f.picBuf) THEN f.picBuf ELSE @, !.picBuf = <<>>]

AddNAL(f, nal, marker) ==
    LET g == [f EXCEPT !.picBuf = Append(@, nal)]
    IN  IF marker THEN CommitPicture(g) ELSE g

(* A whole NAL unit (or a STAP-A of several) is added; a fragment is       *)
(* ignored unless its start was seen, and added with its end.              *)
IngestPayload(f, n) ==
    LET p == Layout[n]
        parts == IF p.part = "start" THEN <<n>> ELSE Append(f.fua, n)
    IN  CASE p.part = "whole" -> AddNAL(f, <<n>>, p.marker)
          [] p.part # "whole" /\ p.part # "start" /\ f.fua = NoNAL -> f
          [] p.part = "end" /\ f.fua # NoNAL -> AddNAL([f EXCEPT !.fua = NoNAL], parts, p.marker)
          [] OTHER -> [f EXCEPT !.fua = parts]

IngestOrdered(f, n) ==
    IngestPayload([CheckSeqGap(f, n) EXCEPT !.corrupted = @ \/ Taints(f, n)], n)

Ingested(out) ==
    LET step[i \in 0 .. Len(out)] == IF i = 0 THEN Picture ELSE IngestOrdered(step[i - 1], out[i])
    IN  step[Len(out)]

-----------------------------------------------------------------------------
(* The packets a push has just shown to be missing, or no longer.          *)
Noticed(o) ==
    [m \in Packets |->
        IF m >= o.next /\ m \notin o.pending /\ \E k \in o.pending : k > m
        THEN IF missing[m] < 0 THEN 0 ELSE missing[m] ELSE -1]

(* Whether a push gave up a packet that was due for longer: not for lack   *)
(* of room, and before MaxWait was over since it was found missing.        *)
GaveUpEarly(n, o) ==
    /\ started /\ Delta(n, next) > 0 /\ o.next > next
    /\ Cardinality(pending \cup {n}) < MaxHold /\ missing[next] < MaxWait

(* ReadLoop receives a packet: ingest, start to end.                       *)
Ingest(n) ==
    LET o == Push(n)
        f == Ingested(o.out)
    IN  /\ started' = TRUE
        /\ next' = o.next /\ pending' = o.pending /\ waited' = o.waited
        /\ prev' = f.prev /\ lost' = f.lost /\ picBuf' = f.picBuf /\ fua' = f.fua
        /\ corrupted' = f.corrupted /\ idr' = f.idr /\ pliWait' = f.pliWait
        /\ delivered' = f.delivered /\ disordered' = f.disordered
        /\ missing' = Noticed(o) /\ early' = (early \/ GaveUpEarly(n, o))

Longer(t) == IF t < MaxWait THEN t + 1 ELSE t

Tick ==
    /\ waited' = IF pending = {} THEN waited ELSE Longer(waited)
    /\ missing' = [m \in Packets |-> IF missing[m] < 0 THEN -1 ELSE Longer(missing[m])]
    /\ pliWait' = IF pliWait = 0 THEN 0 ELSE pliWait - 1
    /\ UNCHANGED <<started, next, pending, prev, lost, picBuf, fua, corrupted, idr, delivered, disordered, early>>

ExtractorInit ==
    /\ started = FALSE /\ next = 1 /\ pending = {} /\ waited = 0
    /\ prev = 0 /\ lost = 0 /\ picBuf = <<>> /\ fua = NoNAL
    /\ corrupted = FALSE /\ idr = <<>> /\ pliWait = 0
    /\ delivered = {} /\ disordered = FALSE
    /\ missing = [m \in Packets |-> -1] /\ early = FALSE

ExtractorNext == Tick \/ \E n \in Packets : Ingest(n)

ExtractorSpec == ExtractorInit /\ [][ExtractorNext]_extractorVars

-----------------------------------------------------------------------------
IsNAL(s) == s \in Seq(Packets) /\ s # NoNAL /\ \A i \in 2 .. Len(s) : s[i] > s[i - 1]

(* Every variable has its type; what is held lies ahead of the next number *)
(* and is not that number, so that the buffer never holds what it could    *)
(* hand on.                                                                *)
ExtractorTypeOK ==
    /\ started \in BOOLEAN /\ next \in 1 .. Len(Layout) + 1 /\ pending \subseteq Packets
    /\ \A m \in pending : m > next
    /\ waited \in 0 .. MaxWait /\ prev \in 0 .. Len(Layout) /\ lost \in Nat
    /\ \A i \in DOMAIN picBuf : IsNAL(picBuf[i])
    /\ fua = NoNAL \/ IsNAL(fua)
    /\ \A i \in DOMAIN idr : IsNAL(idr[i])
    /\ corrupted \in BOOLEAN /\ pliWait \in 0 .. MinPLI
    /\ delivered \subseteq Packets /\ disordered \in BOOLEAN /\ early \in BOOLEAN
    /\ missing \in [Packets -> -1 .. MaxWait]

(* "downstream NAL processing always sees a monotonically increasing       *)
(* sequence number", across the wrap and whatever the network does.        *)
InOrder == ~disordered

(* The counter is exact: it counts the packets between the first and the   *)
(* last one handed on that never were.                                     *)
LossExact ==
    delivered # {} =>
        LET first == CHOOSE m \in delivered : \A k \in delivered : m <= k
            last == CHOOSE m \in delivered : \A k \in delivered : m >= k
        IN  lost = Cardinality(first .. last \ delivered)

(* The picture kept for capture is made of one picture's packets, however  *)
(* the packets that end a picture and start the next were lost.            *)
NeverMixed ==
    \A i, j \in DOMAIN idr : Layout[idr[i][1]].pic = Layout[idr[j][1]].pic

(* A NAL unit kept for capture is a whole packet or has all its fragments, *)
(* from the start to the end.                                              *)
IsComplete(nal) ==
    /\ \A k \in 2 .. Len(nal) : nal[k] = nal[k - 1] + 1
    /\ Layout[nal[1]].part \in {"whole", "start"} /\ Layout[nal[Len(nal)]].part \in {"whole", "end"}
FragmentsWhole == \A i \in DOMAIN idr : IsComplete(idr[i])

-----------------------------------------------------------------------------
(***************************************************************************)
(* What comments in the code say of it and the model refutes.              *)
(***************************************************************************)

(* "Genuinely lost packets (no retransmission within reorderMaxWait) still *)
(* surface as a real gap": a packet is given up for lost only once it has  *)
(* been missing for that long.                                             *)
GivenUpLate == ~early

(* "NAL units of the latest complete IDR picture": nothing of it is        *)
(* missing.                                                                *)
IDRComplete ==
    idr # <<>> =>
        {n \in Packets : Layout[n].pic = Layout[idr[1][1]].pic}
            = UNION {{idr[i][k] : k \in DOMAIN idr[i]} : i \in DOMAIN idr}
=============================================================================
