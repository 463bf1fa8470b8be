---------------------------- MODULE MediaProofs ----------------------------
(***************************************************************************)
(* Theorems about the media path: the playlists of LiveRewind, the         *)
(* pictures of FrameExtractor and the studies of MCCoverage, for any       *)
(* durations, windows, packets, sequence spaces, waits and segments.       *)
(***************************************************************************)
EXTENDS LiveRewind, FrameExtractor, MCCoverage, FiniteSetTheorems, WellFoundedInduction, TLAPS

(* What a fold computes is proved by the least number for which it is not  *)
(* so.                                                                     *)
LEMMA LeastNumber ==
    ASSUME NEW S \in SUBSET Nat, S # {}
    PROVE  \E x \in S : \A y \in S : x <= y
<1> DEFINE R == OpToRel(<, Nat)
<1>1. IsWellFoundedOn(R, Nat)
  BY NatLessThanWellFounded
<1>2. R = {p \in Nat \X Nat : p[1] < p[2]}
  BY DEF OpToRel
<1> HIDE DEF R
<1>3. PICK x \in S : \A y \in S : ~(<<y, x>> \in R)
  BY <1>1, WFMin
<1>4. ASSUME NEW y \in S
      PROVE  x <= y
  <2>1. x \in Nat /\ y \in Nat /\ ~(<<y, x>> \in R)
    BY <1>3
  <2>2. QED
    BY <1>2, <2>1
<1>5. QED
  BY <1>4

-----------------------------------------------------------------------------
(***************************************************************************)
(* LiveRewind: what a player derives from successive playlists.            *)
(***************************************************************************)
(* The sums that Span adds up.                                             *)
IsSums(g, s, n) == g = [i \in 0 .. n |-> IF i = 0 THEN 0 ELSE g[i - 1] + s[i].duration]

(* They exist for every list, so Span is what its recursion says.          *)
LEMMA SumsExist ==
    ASSUME NEW s, NEW n \in Nat
    PROVE  \E g : IsSums(g, s, n)
<1> DEFINE Without == {m \in Nat : ~ \E g : IsSums(g, s, m)}
<1>1. SUFFICES ASSUME Without # {}
               PROVE  FALSE
  BY <1>1
<1>2. PICK m \in Without : \A k \in Without : m <= k
  BY <1>1, LeastNumber
<1>3. m \in Nat /\ ~ \E g : IsSums(g, s, m)
  BY <1>2
<1>4. CASE m = 0
  <2>1. IsSums([i \in 0 .. 0 |-> 0], s, 0)
    BY DEF IsSums
  <2>2. QED
    BY <1>3, <1>4, <2>1
<1>5. CASE m > 0
  <2>1. m - 1 \in Nat /\ m - 1 \notin Without
    BY <1>2, <1>3, <1>5
  <2>2. PICK g : IsSums(g, s, m - 1)
    BY <2>1
  <2> DEFINE h == [i \in 0 .. m |-> IF i = m THEN g[m - 1] + s[m].duration ELSE g[i]]
  <2>3. \A i \in 0 .. m - 1 : g[i] = IF i = 0 THEN 0 ELSE g[i - 1] + s[i].duration
    BY <2>2 DEF IsSums
  <2>4. \A i \in 0 .. m : h[i] = IF i = 0 THEN 0 ELSE h[i - 1] + s[i].duration
    <3>1. TAKE i \in 0 .. m
    <3>2. CASE i = m
      <4>1. h[i] = g[m - 1] + s[m].duration /\ h[m - 1] = g[m - 1]
        BY <1>3, <1>5, <3>2
      <4>2. QED
        BY <1>5, <3>2, <4>1
    <3>3. CASE i = 0
      BY <1>3, <1>5, <2>3, <3>3
    <3>4. CASE i \in 1 .. m - 1
      <4>1. h[i] = g[i] /\ h[i - 1] = g[i - 1] /\ i # 0
        BY <1>3, <3>4
      <4>2. g[i] = g[i - 1] + s[i].duration
        BY <1>3, <2>3, <3>4
      <4>3. QED
        BY <4>1, <4>2
    <3>5. QED
      BY <1>3, <3>2, <3>3, <3>4
  <2>5. IsSums(h, s, m)
    BY <2>4 DEF IsSums
  <2>6. QED
    BY <1>3, <2>5
<1>6. QED
  BY <1>3, <1>4, <1>5

(* Span is the last of them, ...                                           *)
LEMMA SpanIsSum ==
    ASSUME NEW s, Len(s) \in Nat
    PROVE  \E g : /\ Span(s) = g[Len(s)]
                  /\ g[0] = 0
                  /\ \A i \in 1 .. Len(s) : g[i] = g[i - 1] + s[i].duration
<1> DEFINE g == CHOOSE f : IsSums(f, s, Len(s))
<1>1. IsSums(g, s, Len(s))
  BY SumsExist
<1>2. Span(s) = g[Len(s)]
  BY DEF Span, IsSums
<1> HIDE DEF g
<1>3. \A i \in 0 .. Len(s) : g[i] = IF i = 0 THEN 0 ELSE g[i - 1] + s[i].duration
  BY <1>1 DEF IsSums
<1>4. QED
  BY <1>2, <1>3

(* ... so where every fragment starts as far on as the last one lasted, it *)
(* is the distance from the first to the last.                             *)
LEMMA SpanTelescopes ==
    ASSUME NEW s, Len(s) \in Nat, NEW x,
           \A i \in 1 .. Len(s) + 1 : x[i] \in Int,
           \A i \in 1 .. Len(s) : s[i].duration \in Nat /\ x[i + 1] = x[i] + s[i].duration
    PROVE  Span(s) = x[Len(s) + 1] - x[1]
<1>1. PICK g : /\ Span(s) = g[Len(s)] /\ g[0] = 0
               /\ \A i \in 1 .. Len(s) : g[i] = g[i - 1] + s[i].duration
  BY SpanIsSum
<1> DEFINE Off == {i \in 0 .. Len(s) : g[i] # x[i + 1] - x[1]}
<1>2. SUFFICES ASSUME Off # {}
               PROVE  FALSE
  <2>1. Len(s) \in 0 .. Len(s) /\ Len(s) \notin Off
    BY <1>2
  <2>2. g[Len(s)] = x[Len(s) + 1] - x[1]
    BY <2>1
  <2>3. QED
    BY <1>1, <2>2
<1>3. PICK i \in Off : \A k \in Off : i <= k
  <2>1. Off \in SUBSET Nat
    OBVIOUS
  <2>2. QED
    BY <1>2, <2>1, LeastNumber
<1>4. CASE i = 0
  BY <1>1, <1>3, <1>4
<1>5. CASE i \in 1 .. Len(s)
  <2>1. g[i - 1] = x[i] - x[1]
    <3>1. i - 1 \notin Off /\ i - 1 \in 0 .. Len(s)
      BY <1>3, <1>5
    <3>2. (i - 1) + 1 = i
      BY <1>5
    <3>3. QED
      BY <3>1, <3>2
  <2>2. g[i] = (x[i] - x[1]) + s[i].duration /\ x[i + 1] = x[i] + s[i].duration
    BY <1>1, <1>5, <2>1
  <2>3. s[i].duration \in Nat /\ x[i] \in Int /\ x[i + 1] \in Int /\ x[1] \in Int
    BY <1>5
  <2>4. QED
    BY <1>3, <2>2, <2>3
<1>6. QED
  BY <1>3, <1>4, <1>5

(* A span is a number.                                                     *)
LEMMA SpanType ==
    ASSUME NEW s \in Seq(Fragment)
    PROVE  Span(s) \in Nat
<1>1. Len(s) \in Nat /\ \A i \in 1 .. Len(s) : s[i].duration \in Nat
  <2>1. Len(s) \in Nat /\ \A i \in 1 .. Len(s) : s[i] \in Fragment
    OBVIOUS
  <2>2. \A f \in Fragment : f.duration \in Nat
    BY RewindAssumption DEF Fragment
  <2>3. QED
    BY <2>1, <2>2
<1>2. PICK g : /\ Span(s) = g[Len(s)] /\ g[0] = 0
               /\ \A i \in 1 .. Len(s) : g[i] = g[i - 1] + s[i].duration
  BY <1>1, SpanIsSum
<1> DEFINE Off == {i \in 0 .. Len(s) : g[i] \notin Nat}
<1>3. SUFFICES ASSUME Off # {}
               PROVE  FALSE
  BY <1>1, <1>2, <1>3
<1>4. PICK i \in Off : \A k \in Off : i <= k
  <2>1. Off \in SUBSET Nat
    OBVIOUS
  <2>2. QED
    BY <1>3, <2>1, LeastNumber
<1>5. i \in 1 .. Len(s) /\ i - 1 \in 0 .. Len(s) /\ i - 1 \notin Off
  BY <1>1, <1>2, <1>4
<1>6. g[i] = g[i - 1] + s[i].duration /\ g[i - 1] \in Nat /\ s[i].duration \in Nat
  BY <1>1, <1>2, <1>5
<1>7. QED
  BY <1>4, <1>6

(* Where the window begins: as late as its fragments reach it, or with the *)
(* list when all of them do not.                                           *)
WindowAt(s, k) ==
    /\ WindowFragments(s) = SubSeq(s, k, Len(s))
    /\ k # 1 => Span(s) >= Window /\ Span(From(s, k)) >= Window /\ Window # 0
    /\ Span(s) >= Window /\ Window # 0 => \A j \in k + 1 .. Len(s) : Span(From(s, j)) < Window

(* The window is a tail of the list, and never empty.                      *)
LEMMA WindowIsTail ==
    ASSUME NEW s \in Seq(Fragment), s # <<>>
    PROVE  \E k \in 1 .. Len(s) : WindowAt(s, k)
<1>1. Len(s) \in Nat \ {0}
  OBVIOUS
<1>2. s = SubSeq(s, 1, Len(s))
  BY <1>1
<1>3. CASE Window = 0 \/ Span(s) < Window
  <2>1. WindowFragments(s) = SubSeq(s, 1, Len(s))
    BY <1>2, <1>3 DEF WindowFragments
  <2>2. ~(Span(s) >= Window /\ Window # 0)
    BY <1>3, SpanType, RewindAssumption
  <2>3. QED
    BY <1>1, <2>1, <2>2 DEF WindowAt
<1>4. CASE ~(Window = 0 \/ Span(s) < Window)
  <2>1. ASSUME NEW i \in 1 .. Len(s)
        PROVE  Span(From(s, i)) \in Nat
    <3>1. From(s, i) \in Seq(Fragment)
      BY <2>1 DEF From
    <3>2. QED
      BY <3>1, SpanType
  <2> DEFINE Reaches(i) == Span(From(s, i)) >= Window
             n == Len(s)
             Back == {d \in 0 .. n - 1 : Reaches(n - d)}
  <2>2. Reaches(1)
    <3>1. From(s, 1) = s
      BY <1>2 DEF From
    <3>2. Span(s) \in Nat /\ Window \in Nat /\ ~(Span(s) < Window)
      BY <1>4, SpanType, RewindAssumption
    <3>3. QED
      BY <3>1, <3>2
  <2>3. \A j \in 1 .. n : ~Reaches(j) => Span(From(s, j)) < Window
    BY <2>1, RewindAssumption
  <2>4. n \in Nat \ {0}
    BY <1>1
  <2> HIDE DEF Reaches, n
  <2>5. n - 1 \in Back /\ Back \in SUBSET Nat
    BY <2>2, <2>4
  <2>6. PICK d \in Back : \A e \in Back : d <= e
    BY <2>5, LeastNumber
  <2> DEFINE i == n - d
  <2>7. i \in 1 .. n /\ Reaches(i) /\ \A j \in i + 1 .. n : n - j \notin Back
    BY <2>4, <2>6
  <2>8. ASSUME NEW j \in i + 1 .. n
        PROVE  Span(From(s, j)) < Window
    <3>1. j \in 1 .. n /\ n - j \in 0 .. n - 1 /\ n - (n - j) = j
      BY <2>4, <2>7
    <3>2. ~Reaches(j)
      BY <2>7, <3>1
    <3>3. QED
      BY <2>3, <3>1, <3>2
  <2> DEFINE k == CHOOSE h \in 1 .. Len(s) : Span(From(s, h)) >= Window
                     /\ \A j \in h + 1 .. Len(s) : Span(From(s, j)) < Window
  <2>9. /\ k \in 1 .. Len(s) /\ Span(From(s, k)) >= Window
        /\ \A j \in k + 1 .. Len(s) : Span(From(s, j)) < Window
    BY <2>7, <2>8 DEF Reaches, n
  <2>10. WindowFragments(s) = From(s, k)
    BY <1>4 DEF WindowFragments
  <2>11. Span(s) >= Window /\ Window # 0
    BY <1>4, SpanType, RewindAssumption
  <2> HIDE DEF k
  <2>12. WindowAt(s, k)
    BY <2>9, <2>10, <2>11 DEF From, WindowAt
  <2>13. QED
    BY <2>9, <2>12
<1>5. QED
  BY <1>3, <1>4

(* The fields of a registered fragment.                                    *)
LEMMA FragmentFields ==
    ASSUME NEW s \in Seq(Fragment)
    PROVE  /\ Len(s) \in Nat /\ DOMAIN s = 1 .. Len(s)
           /\ \A i \in 1 .. Len(s) : s[i].seq \in Nat /\ s[i].start \in Nat /\ s[i].duration \in Nat
<1>1. Len(s) \in Nat /\ DOMAIN s = 1 .. Len(s) /\ \A i \in 1 .. Len(s) : s[i] \in Fragment
  OBVIOUS
<1>2. \A f \in Fragment : f.seq \in Nat /\ f.start \in Nat /\ f.duration \in Nat
  BY RewindAssumption DEF Fragment
<1>3. QED
  BY <1>1, <1>2

(* A fragment at the end adds its duration to every span.                  *)
LEMMA SpanOfAppend ==
    ASSUME NEW s \in Seq(Fragment), NEW f \in Fragment
    PROVE  Span(Append(s, f)) >= Span(s)
<1> DEFINE t == Append(s, f)
<1>1. Len(s) \in Nat /\ Len(t) = Len(s) + 1 /\ Len(t) \in Nat /\ t \in Seq(Fragment)
  OBVIOUS
<1>2. /\ \A i \in 1 .. Len(s) : t[i] = s[i]
      /\ \A i \in 1 .. Len(t) : t[i].duration \in Nat
  <2>1. \A i \in 1 .. Len(s) : t[i] = s[i]
    OBVIOUS
  <2>2. QED
    BY <1>1, <2>1, FragmentFields
<1> HIDE DEF t
<1>3. PICK g : /\ Span(s) = g[Len(s)] /\ g[0] = 0
               /\ \A i \in 1 .. Len(s) : g[i] = g[i - 1] + s[i].duration
  BY <1>1, SpanIsSum
<1>4. PICK h : /\ Span(t) = h[Len(t)] /\ h[0] = 0
               /\ \A i \in 1 .. Len(t) : h[i] = h[i - 1] + t[i].duration
  BY <1>1, SpanIsSum
<1> DEFINE Off == {i \in 0 .. Len(s) : h[i] # g[i]}
<1>5. Off = {}
  <2>1. SUFFICES ASSUME Off # {}
                 PROVE  FALSE
    OBVIOUS
  <2>2. PICK i \in Off : \A k \in Off : i <= k
    <3>1. Off \in SUBSET Nat
      OBVIOUS
    <3>2. QED
      BY <2>1, <3>1, LeastNumber
  <2>3. i \in 1 .. Len(s) /\ i - 1 \in 0 .. Len(s) /\ i - 1 \notin Off /\ i \in 1 .. Len(t)
    BY <1>1, <1>3, <1>4, <2>2
  <2>4. h[i - 1] = g[i - 1] /\ t[i] = s[i]
    BY <1>2, <2>3
  <2>5. QED
    BY <1>3, <1>4, <2>2, <2>3, <2>4
<1>6. h[Len(s)] = g[Len(s)]
  <2>1. Len(s) \in 0 .. Len(s) /\ Len(s) \notin Off
    BY <1>1, <1>5
  <2>2. QED
    BY <2>1
<1>7. Span(s) \in Nat
  BY SpanType
<1>8. Len(t) \in 1 .. Len(t) /\ Len(t) - 1 = Len(s)
  BY <1>1
<1>9. Span(t) = Span(s) + t[Len(t)].duration /\ t[Len(t)].duration \in Nat
  BY <1>2, <1>3, <1>4, <1>6, <1>8
<1>10. QED
  BY <1>7, <1>9 DEF t

(* So the window never begins earlier than it did.                         *)
LEMMA WindowAdvances ==
    ASSUME NEW s \in Seq(Fragment), NEW f \in Fragment,
           NEW k \in 1 .. Len(s), WindowAt(s, k),
           NEW l \in 1 .. Len(Append(s, f)), WindowAt(Append(s, f), l)
    PROVE  k <= l
<1> DEFINE t == Append(s, f)
<1>1. Len(s) \in Nat /\ Len(t) = Len(s) + 1 /\ t \in Seq(Fragment)
  OBVIOUS
<1>2. SUFFICES ASSUME l < k
               PROVE  FALSE
  BY <1>1
<1>3. k # 1 /\ k \in l + 1 .. Len(t)
  BY <1>1, <1>2
<1>4. Span(s) >= Window /\ Span(From(s, k)) >= Window /\ Window # 0
  BY <1>3 DEF WindowAt
<1>5. From(t, k) = Append(From(s, k), f) /\ From(s, k) \in Seq(Fragment)
  BY <1>1 DEF From
<1>6. Span(t) >= Window /\ Span(From(t, k)) >= Window
  <2>1. /\ Span(s) \in Nat /\ Span(t) \in Nat /\ Span(t) >= Span(s)
    BY <1>1, SpanType, SpanOfAppend
  <2>2. /\ Span(From(s, k)) \in Nat /\ Span(From(t, k)) \in Nat
        /\ Span(From(t, k)) >= Span(From(s, k))
    <3>1. From(t, k) \in Seq(Fragment)
      BY <1>5
    <3>2. QED
      BY <1>5, <3>1, SpanType, SpanOfAppend
  <2>3. QED
    BY <1>4, <2>1, <2>2, RewindAssumption
<1>7. Span(From(t, k)) < Window
  BY <1>3, <1>4, <1>6 DEF WindowAt
<1>8. Span(From(t, k)) \in Nat
  <2>1. From(t, k) \in Seq(Fragment)
    BY <1>5
  <2>2. QED
    BY <2>1, SpanType
<1>9. QED
  BY <1>6, <1>7, <1>8, RewindAssumption

-----------------------------------------------------------------------------
(* Numbers run on: one that was used up on a failed upload leaves a hole,  *)
(* so two fragments are at least as far apart as their places.             *)
NumbersRunOn ==
    /\ \A i \in 1 .. Len(frags) : seq - frags[i].seq >= Len(frags) + 1 - i
    /\ \A i, j \in 1 .. Len(frags) : i <= j => frags[j].seq - frags[i].seq >= j - i

(* A fragment of the epoch and with the number after another's starts      *)
(* where that one ends; the uploader's clock is at the end of the fragment *)
(* it numbered last.                                                       *)
ClockRunsOn ==
    /\ \A i \in 1 .. Len(frags) - 1 :
          (frags[i + 1].epoch = frags[i].epoch /\ frags[i + 1].seq = frags[i].seq + 1)
              => frags[i + 1].start = frags[i].start + frags[i].duration
    /\ (frags # <<>> /\ frags[Len(frags)].seq = seq - 1)
           => /\ lastEpoch = frags[Len(frags)].epoch
              /\ cumulative = frags[Len(frags)].start + frags[Len(frags)].duration

(* A playlist is a stretch of the list of fragments, counted from there.   *)
Changes(s, c) == Cardinality({h \in Heads(s) : h <= c})
Stretch(m, s, a, b) ==
    /\ a <= b
    /\ m.list = SubSeq(s, a, b)
    /\ m.mediaSequence = s[a].seq
    /\ m.discontinuitySequence = Changes(s, a)

(* The window does not begin before a place.                               *)
WindowFrom(s, a) == \A k \in 1 .. Len(s) : WindowAt(s, k) => a <= k
ServedOK ==
    served # NoPlaylist => \E a, b \in 1 .. Len(frags) : Stretch(served, frags, a, b) /\ WindowFrom(frags, a)

RewindInv == RewindTypeOK /\ NumbersRunOn /\ ClockRunsOn /\ ServedOK

Progress == <<frags, seq, lastEpoch, cumulative, served>>

(* The stream starts with no fragments and no playlist.                    *)
LEMMA RewindInvInit == RewindInit => RewindInv
<1> SUFFICES ASSUME RewindInit
             PROVE  RewindInv
  OBVIOUS
<1> USE RewindAssumption DEF RewindInit
<1>1. RewindTypeOK
  <2>1. 1 \in 1 .. MaxEpochs /\ 0 \in 0 .. MaxFaults /\ 0 \in 0 .. Len(playlist)
    OBVIOUS
  <2>2. playlist \in Seq(Durations) /\ emitting \in Seq(Event) /\ frags \in Seq(Fragment) /\ DOMAIN frags = {}
    OBVIOUS
  <2>3. QED
    BY <2>1, <2>2 DEF RewindTypeOK
<1>2. NumbersRunOn /\ ClockRunsOn /\ ServedOK
  BY DEF NumbersRunOn, ClockRunsOn, ServedOK
<1>3. QED
  BY <1>1, <1>2 DEF RewindInv

(* What leaves the uploader's progress and the answers alone.              *)
LEMMA Elsewhere ==
    ASSUME RewindInv, RewindTypeOK', UNCHANGED Progress
    PROVE  RewindInv'
<1>1. UNCHANGED <<frags, seq, lastEpoch, cumulative, served>>
  BY DEF Progress
<1>2. NumbersRunOn' /\ ClockRunsOn'
  BY <1>1 DEF RewindInv, NumbersRunOn, ClockRunsOn
<1>3. ServedOK'
  BY <1>1 DEF RewindInv, ServedOK
<1>4. QED
  BY <1>2, <1>3 DEF RewindInv

(* What ffmpeg and its supervisor do leaves the types alone.               *)
LEMMA RecorderTypes ==
    ASSUME RewindTypeOK, RecorderStep
    PROVE  RewindTypeOK'
<1> USE RewindAssumption DEF ffmpegVars, watcherVars, uploaderVars, viewVars
<1>1. CASE WriteInit
  BY <1>1 DEF WriteInit, RewindTypeOK
<1>2. ASSUME NEW d \in Durations, WriteFragment(d)
      PROVE  RewindTypeOK'
  <2>1. playlist' \in Seq(Durations) /\ Len(playlist') = Len(playlist) + 1 /\ Len(playlist) \in Nat
    BY <1>2 DEF WriteFragment, RewindTypeOK
  <2>2. sentFrags' \in 0 .. Len(playlist')
    BY <1>2, <2>1 DEF WriteFragment, RewindTypeOK
  <2>3. QED
    BY <1>2, <2>1, <2>2 DEF WriteFragment, RewindTypeOK
<1>3. ASSUME NEW how \in {"exited", "stopped"}, Exit(how)
      PROVE  RewindTypeOK'
  BY <1>3 DEF Exit, RewindTypeOK
<1>4. CASE Restart
  <2>1. epoch' \in 1 .. MaxEpochs
    BY <1>4 DEF Restart, RewindTypeOK
  <2>2. playlist' \in Seq(Durations) /\ sentFrags' \in 0 .. Len(playlist')
    BY <1>4 DEF Restart
  <2>3. QED
    BY <1>4, <2>1, <2>2 DEF Restart, RewindTypeOK
<1>5. CASE GiveUp
  BY <1>5 DEF GiveUp, RewindTypeOK
<1>6. QED
  BY <1>1, <1>2, <1>3, <1>4, <1>5 DEF RecorderStep

(* A read of the watcher emits events of the playlist.                     *)
LEMMA EmitTypes ==
    ASSUME RewindTypeOK, EmitNewHLSEntries
    PROVE  RewindTypeOK'
<1> USE DEF ffmpegVars, watcherVars, uploaderVars, viewVars
<1>1. /\ playlist \in Seq(Durations) /\ Len(playlist) \in Nat /\ sentFrags \in 0 .. Len(playlist)
      /\ epoch \in 1 .. MaxEpochs /\ emitting \in Seq(Event)
  BY DEF RewindTypeOK
<1>2. InitEvent \in Event
  BY <1>1 DEF InitEvent, Event
<1>3. \A i \in 1 .. Len(playlist) : FragEvent(i) \in Event
  BY <1>1 DEF FragEvent, Event
<1>4. \A i \in 1 .. Len(playlist) - sentFrags : sentFrags + i \in 1 .. Len(playlist)
  BY <1>1
<1>5. NewFragments \in Seq(Event)
  <2>1. Len(playlist) - sentFrags \in Nat
    BY <1>1
  <2>2. NewFragments \in [1 .. Len(playlist) - sentFrags -> Event]
    BY <1>3, <1>4 DEF NewFragments
  <2>3. QED
    BY <2>1, <2>2
<1>6. (IF ~sentInit /\ initFile THEN <<InitEvent>> ELSE <<>>) \in Seq(Event)
  BY <1>2
<1>7. emitting' \in Seq(Event)
  <2>1. \A a, b, c \in Seq(Event) : a \o b \o c \in Seq(Event)
    OBVIOUS
  <2>2. QED
    BY <1>1, <1>5, <1>6, <2>1 DEF EmitNewHLSEntries
<1>8. sentFrags' \in 0 .. Len(playlist')
  BY <1>1 DEF EmitNewHLSEntries
<1>9. QED
  BY <1>7, <1>8 DEF EmitNewHLSEntries, RewindTypeOK

(* The event the uploader takes, and what it leaves.                       *)
LEMMA UploadTypes ==
    ASSUME RewindTypeOK, emitting # <<>>
    PROVE  /\ Tail(emitting) \in Seq(Event) /\ Head(emitting).init \in BOOLEAN
           /\ Head(emitting).epoch \in 1 .. MaxEpochs
           /\ ~Head(emitting).init => Head(emitting).duration \in Durations
<1>1. emitting \in Seq(Event)
  BY DEF RewindTypeOK
<1>2. Tail(emitting) \in Seq(Event) /\ Head(emitting) \in Event
  BY <1>1
<1>3. QED
  BY <1>2 DEF Event

(* An init segment is registered for the epoch of its event.               *)
LEMMA UploadInitTypes ==
    ASSUME RewindTypeOK, UploadInit
    PROVE  RewindTypeOK'
<1>1. Tail(emitting) \in Seq(Event) /\ Head(emitting).epoch \in 1 .. MaxEpochs
  BY UploadTypes DEF UploadInit
<1>2. emitting' \in Seq(Event) /\ inits' \subseteq 1 .. MaxEpochs /\ inits \subseteq inits'
  BY <1>1 DEF UploadInit, RewindTypeOK
<1>3. faults' \in 0 .. MaxFaults
  BY RewindAssumption DEF UploadInit, RewindTypeOK
<1>4. QED
  BY <1>2, <1>3 DEF UploadInit, RewindTypeOK, ffmpegVars, viewVars

(* A request and unregistering keep the types.                             *)
LEMMA ViewTypes ==
    ASSUME RewindTypeOK, ViewStep \/ Unregister
    PROVE  RewindTypeOK'
  BY DEF RewindTypeOK, ViewStep, ReadLive, ReadInits, GetLiveManifest, Unregister,
         ffmpegVars, watcherVars, uploaderVars, viewVars

(* Numbers ascend along the list.                                          *)
LEMMA Ascending ==
    ASSUME RewindTypeOK
    PROVE  \A i, j \in 1 .. Len(frags) : i < j => frags[i].seq < frags[j].seq
<1>1. DOMAIN frags = 1 .. Len(frags) /\ Len(frags) \in Nat
  BY FragmentFields DEF RewindTypeOK
<1>2. \A j \in DOMAIN frags : \A i \in 1 .. j - 1 : frags[i].seq < frags[j].seq
  BY DEF RewindTypeOK
<1>3. QED
  BY <1>1, <1>2

(* What was a stretch of the list stays one.                               *)
LEMMA StretchKept ==
    ASSUME NEW s \in Seq(Fragment), NEW f \in Fragment, NEW m,
           NEW a \in 1 .. Len(s), NEW b \in 1 .. Len(s), Stretch(m, s, a, b)
    PROVE  Stretch(m, Append(s, f), a, b)
<1> DEFINE t == Append(s, f)
<1>1. Len(s) \in Nat /\ Len(t) = Len(s) + 1 /\ \A i \in 1 .. Len(s) : t[i] = s[i]
  OBVIOUS
<1>2. SubSeq(t, a, b) = SubSeq(s, a, b)
  BY <1>1
<1>3. {h \in Heads(t) : h <= a} = {h \in Heads(s) : h <= a}
  <2>1. \A h \in 2 .. a : h \in 2 .. Len(s) /\ h \in 2 .. Len(t) /\ h \in 1 .. Len(s) /\ h - 1 \in 1 .. Len(s)
    BY <1>1
  <2>2. \A h \in 2 .. a : t[h] = s[h] /\ t[h - 1] = s[h - 1]
    BY <1>1, <2>1
  <2>3. \A h : (h \in Heads(t) /\ h <= a) <=> (h \in 2 .. a /\ h \in Heads(t))
    BY <1>1 DEF Heads
  <2>4. \A h : (h \in Heads(s) /\ h <= a) <=> (h \in 2 .. a /\ h \in Heads(s))
    BY <1>1 DEF Heads
  <2>5. \A h \in 2 .. a : h \in Heads(t) <=> h \in Heads(s)
    BY <2>1, <2>2 DEF Heads
  <2>6. QED
    BY <2>3, <2>4, <2>5
<1>4. t[a] = s[a]
  BY <1>1
<1> HIDE DEF t
<1>5. Stretch(m, t, a, b)
  BY <1>2, <1>3, <1>4 DEF Stretch, Changes
<1>6. QED
  BY <1>5 DEF t

(* What was behind the window stays behind it.                             *)
LEMMA WindowKept ==
    ASSUME NEW s \in Seq(Fragment), NEW f \in Fragment, NEW a \in 1 .. Len(s), WindowFrom(s, a)
    PROVE  WindowFrom(Append(s, f), a)
<1>1. Len(s) \in Nat /\ s # <<>> /\ Len(Append(s, f)) = Len(s) + 1
  OBVIOUS
<1>2. PICK k \in 1 .. Len(s) : WindowAt(s, k)
  BY <1>1, WindowIsTail
<1>3. a <= k
  BY <1>2 DEF WindowFrom
<1>4. ASSUME NEW l \in 1 .. Len(Append(s, f)), WindowAt(Append(s, f), l)
      PROVE  a <= l
  <2>1. k <= l
    BY <1>2, <1>4, WindowAdvances
  <2>2. QED
    BY <1>1, <1>3, <2>1
<1>5. QED
  BY <1>4 DEF WindowFrom

(* The uploader registers a fragment, or fails to and leaves a hole.       *)
LEMMA UploadFragmentStep ==
    ASSUME RewindInv, UploadFragment
    PROVE  RewindInv'
<1> DEFINE e == Head(emitting)
           f == [seq |-> seq, epoch |-> e.epoch, start |-> StartOf(e), duration |-> e.duration]
           n == Len(frags)
<1>1. /\ Tail(emitting) \in Seq(Event) /\ e.epoch \in 1 .. MaxEpochs
      /\ e.duration \in Durations /\ e.duration \in Nat
  BY UploadTypes, RewindAssumption DEF UploadFragment, RewindInv
<1>2. /\ seq \in Nat /\ cumulative \in Nat /\ StartOf(e) \in Nat
  BY DEF RewindInv, RewindTypeOK, StartOf
<1>3. /\ emitting' = Tail(emitting) /\ seq' = seq + 1 /\ lastEpoch' = e.epoch
      /\ cumulative' = StartOf(e) + e.duration
      /\ UNCHANGED <<ffmpegVars, sentInit, sentFrags, watching, inits, registered, viewVars>>
  BY DEF UploadFragment
<1>4. \/ frags' = Append(frags, f) /\ faults' = faults
      \/ frags' = frags /\ faults' = faults + 1 /\ faults < MaxFaults
  BY DEF UploadFragment
<1>5. /\ frags \in Seq(Fragment) /\ n \in Nat
      /\ \A i \in 1 .. n : frags[i].seq \in Nat /\ frags[i].start \in Nat /\ frags[i].duration \in Nat
  BY FragmentFields DEF RewindInv, RewindTypeOK
<1>6. \A i \in 1 .. n : frags[i].seq < seq
  BY <1>5, FragmentFields DEF RewindInv, RewindTypeOK
<1>7. f \in Fragment /\ f.seq = seq /\ f.epoch = e.epoch /\ f.start = StartOf(e) /\ f.duration = e.duration
  BY <1>1, <1>2 DEF Fragment
<1> HIDE DEF f, e, n
<1>8. faults' \in 0 .. MaxFaults
  BY <1>4, RewindAssumption DEF RewindInv, RewindTypeOK
<1>9. CASE frags' = frags
  <2>1. RewindTypeOK'
    <3>1. \A i \in DOMAIN frags' : frags'[i].seq < seq' /\ \A j \in 1 .. i - 1 : frags'[j].seq < frags'[i].seq
      <4>1. DOMAIN frags = 1 .. n
        BY <1>5, FragmentFields DEF n
      <4>2. \A i \in DOMAIN frags : \A j \in 1 .. i - 1 : frags[j].seq < frags[i].seq
        BY DEF RewindInv, RewindTypeOK
      <4>3. \A i \in 1 .. n : frags[i].seq < seq + 1
        BY <1>2, <1>5, <1>6
      <4>4. QED
        BY <1>3, <1>9, <4>1, <4>2, <4>3
    <3>2. seq' \in Nat /\ cumulative' \in Nat
      BY <1>1, <1>2, <1>3
    <3>3. QED
      BY <1>1, <1>3, <1>8, <1>9, <3>1, <3>2 DEF RewindInv, RewindTypeOK, ffmpegVars, viewVars
  <2>2. NumbersRunOn'
    <3>1. \A i \in 1 .. n : seq' - frags[i].seq >= n + 1 - i
      BY <1>2, <1>3, <1>5 DEF RewindInv, NumbersRunOn, n
    <3>2. QED
      BY <1>9, <3>1 DEF RewindInv, NumbersRunOn, n
  <2>3. ClockRunsOn'
    <3>1. frags # <<>> => n \in 1 .. n
      BY <1>5 DEF n
    <3>2. frags # <<>> => frags[n].seq # seq' - 1
      BY <1>2, <1>3, <1>5, <1>6, <3>1
    <3>3. QED
      BY <1>9, <3>2 DEF RewindInv, ClockRunsOn, n
  <2>4. ServedOK'
    BY <1>3, <1>9 DEF RewindInv, ServedOK, viewVars
  <2>5. QED
    BY <2>1, <2>2, <2>3, <2>4 DEF RewindInv
<1>10. CASE frags' = Append(frags, f) /\ faults' = faults
  <2>1. /\ Len(frags') = n + 1 /\ frags'[n + 1] = f /\ frags' \in Seq(Fragment)
        /\ \A i \in 1 .. n : frags'[i] = frags[i]
    BY <1>5, <1>7, <1>10 DEF n
  <2>2. RewindTypeOK'
    <3>1. ASSUME NEW i \in 1 .. n + 1
          PROVE  frags'[i].seq < seq' /\ \A j \in 1 .. i - 1 : frags'[j].seq < frags'[i].seq
      <4>1. CASE i = n + 1
        <5>1. frags'[i].seq = seq /\ seq < seq'
          BY <1>2, <1>3, <1>7, <2>1, <4>1
        <5>2. \A j \in 1 .. i - 1 : j \in 1 .. n
          BY <1>5, <4>1
        <5>3. \A j \in 1 .. i - 1 : frags'[j].seq < seq
          BY <1>6, <2>1, <5>2
        <5>4. QED
          BY <5>1, <5>3
      <4>2. CASE i \in 1 .. n
        <5>1. frags[i].seq < seq /\ \A j \in 1 .. i - 1 : frags[j].seq < frags[i].seq
          BY <1>5, <1>6, <4>2, Ascending DEF RewindInv, n
        <5>2. \A j \in 1 .. i - 1 : j \in 1 .. n
          BY <1>5, <4>2
        <5>3. frags'[i].seq = frags[i].seq /\ \A j \in 1 .. i - 1 : frags'[j].seq = frags[j].seq
          BY <2>1, <4>2, <5>2
        <5>4. \A a, b \in Nat : a < b => a < b + 1
          OBVIOUS
        <5>5. frags[i].seq < seq'
          BY <1>2, <1>3, <1>5, <4>2, <5>1, <5>4
        <5>6. QED
          BY <5>1, <5>3, <5>5
      <4>3. QED
        BY <1>5, <4>1, <4>2
    <3>2. DOMAIN frags' = 1 .. n + 1
      BY <1>5, <2>1
    <3>3. seq' \in Nat /\ cumulative' \in Nat
      BY <1>1, <1>2, <1>3
    <3>4. QED
      BY <1>1, <1>3, <1>8, <2>1, <3>1, <3>2, <3>3 DEF RewindInv, RewindTypeOK, ffmpegVars, viewVars
  <2>3. NumbersRunOn'
    <3>1. \A i \in 1 .. n : seq - frags[i].seq >= n + 1 - i
      BY DEF RewindInv, NumbersRunOn, n
    <3>2. ASSUME NEW i \in 1 .. n + 1
          PROVE  seq' - frags'[i].seq >= (n + 1) + 1 - i
      <4>1. \A a, b, c, d \in Nat : a - b >= c + 1 - d => (a + 1) - b >= (c + 1) + 1 - d
        OBVIOUS
      <4>2. CASE i = n + 1
        <5>1. frags'[i].seq = seq
          BY <1>7, <2>1, <4>2
        <5>2. QED
          BY <1>2, <1>3, <1>5, <4>2, <5>1
      <4>3. CASE i \in 1 .. n
        <5>1. frags'[i].seq = frags[i].seq /\ frags[i].seq \in Nat /\ i \in Nat
          BY <1>5, <2>1, <4>3
        <5>2. seq - frags[i].seq >= n + 1 - i
          BY <3>1, <4>3
        <5>3. (seq + 1) - frags[i].seq >= (n + 1) + 1 - i
          BY <1>2, <1>5, <4>1, <5>1, <5>2
        <5>4. QED
          BY <1>3, <5>1, <5>3
      <4>4. QED
        BY <1>5, <4>2, <4>3
    <3>3. ASSUME NEW i \in 1 .. n + 1, NEW j \in 1 .. n + 1, i <= j
          PROVE  frags'[j].seq - frags'[i].seq >= j - i
      <4>1. CASE j = n + 1 /\ i \in 1 .. n
        <5>1. frags'[j].seq = seq /\ frags'[i].seq = frags[i].seq
          BY <1>7, <2>1, <4>1
        <5>2. seq - frags[i].seq >= n + 1 - i
          BY <3>1, <4>1
        <5>3. frags'[j].seq - frags'[i].seq >= n + 1 - i
          BY <5>1, <5>2
        <5>4. n \in Nat /\ j \in Nat /\ i \in Nat
          BY <1>5
        <5>5. j - i = n + 1 - i
          BY <4>1, <5>4
        <5>6. QED
          BY <5>3, <5>5
      <4>0. CASE i = n + 1
        <5>1. j = i
          BY <1>5, <3>3, <4>0
        <5>2. frags'[j].seq = seq
          BY <1>7, <2>1, <4>0, <5>1
        <5>3. QED
          BY <1>2, <5>1, <5>2
      <4>2. CASE j \in 1 .. n
        <5>1. i \in 1 .. n
          BY <1>5, <3>3, <4>2
        <5>2. QED
          BY <2>1, <3>3, <4>2, <5>1 DEF RewindInv, NumbersRunOn, n
      <4>3. QED
        BY <1>5, <4>0, <4>1, <4>2
    <3>4. QED
      BY <2>1, <3>2, <3>3 DEF NumbersRunOn
  <2>4. ClockRunsOn'
    <3>1. ASSUME NEW i \in 1 .. n, frags'[i + 1].epoch = frags'[i].epoch, frags'[i + 1].seq = frags'[i].seq + 1
          PROVE  frags'[i + 1].start = frags'[i].start + frags'[i].duration
      <4>1. CASE i = n
        <5>1. frags # <<>> /\ frags[n].seq = seq - 1
          BY <1>2, <1>5, <1>7, <2>1, <3>1, <4>1 DEF n
        <5>2. lastEpoch = frags[n].epoch /\ cumulative = frags[n].start + frags[n].duration
          BY <5>1 DEF RewindInv, ClockRunsOn, n
        <5>3. StartOf(e) = cumulative
          BY <1>5, <1>7, <2>1, <3>1, <4>1, <5>2 DEF StartOf
        <5>4. QED
          BY <1>5, <1>7, <2>1, <4>1, <5>2, <5>3
      <4>2. CASE i \in 1 .. n - 1
        <5>1. i + 1 \in 1 .. n
          BY <1>5, <4>2
        <5>2. QED
          BY <2>1, <3>1, <4>2, <5>1 DEF RewindInv, ClockRunsOn, n
      <4>3. QED
        BY <1>5, <4>1, <4>2
    <3>2. (n + 1) - 1 = n
      BY <1>5
    <3>3. lastEpoch' = frags'[n + 1].epoch /\ cumulative' = frags'[n + 1].start + frags'[n + 1].duration
      BY <1>3, <1>7, <2>1
    <3>4. QED
      BY <2>1, <3>1, <3>2, <3>3 DEF ClockRunsOn
  <2>5. ServedOK'
    <3>1. SUFFICES ASSUME served # NoPlaylist
                   PROVE  \E a, b \in 1 .. Len(frags') :
                              Stretch(served, frags', a, b) /\ WindowFrom(frags', a)
      BY <1>3 DEF ServedOK, viewVars
    <3>2. PICK a \in 1 .. n, b \in 1 .. n : Stretch(served, frags, a, b) /\ WindowFrom(frags, a)
      BY <3>1 DEF RewindInv, ServedOK, n
    <3>3. Stretch(served, frags', a, b) /\ WindowFrom(frags', a)
      BY <1>5, <1>7, <1>10, <3>2, StretchKept, WindowKept DEF n
    <3>4. a \in 1 .. n + 1 /\ b \in 1 .. n + 1
      BY <1>5
    <3>5. QED
      BY <2>1, <3>3, <3>4
  <2>6. QED
    BY <2>2, <2>3, <2>4, <2>5 DEF RewindInv
<1>11. QED
  BY <1>4, <1>9, <1>10

(* A playlist that is served is a stretch of the list: its window.         *)
LEMMA ManifestStretch ==
    ASSUME RewindInv, frags # <<>>, NEW ended
    PROVE  \E k \in 1 .. Len(frags) :
              WindowAt(frags, k) /\ Stretch(Manifest(frags, ended), frags, k, Len(frags))
<1>1. frags \in Seq(Fragment) /\ Len(frags) \in Nat
  BY DEF RewindInv, RewindTypeOK
<1>2. PICK k \in 1 .. Len(frags) : WindowAt(frags, k)
  BY <1>1, WindowIsTail
<1>3. WindowFragments(frags) = SubSeq(frags, k, Len(frags))
  BY <1>2 DEF WindowAt
<1>4. WindowFragments(frags)[1] = frags[k]
  BY <1>1, <1>3
<1>5. {h \in Heads(frags) : frags[h].seq <= frags[k].seq} = {h \in Heads(frags) : h <= k}
  <2>1. \A h \in Heads(frags) : h \in 1 .. Len(frags)
    BY DEF Heads
  <2>2. \A h \in 1 .. Len(frags) : frags[h].seq <= frags[k].seq <=> h <= k
    <3>1. TAKE h \in 1 .. Len(frags)
    <3>2. frags[h].seq \in Nat /\ frags[k].seq \in Nat /\ h \in Nat /\ k \in Nat
      BY <1>1, FragmentFields
    <3>3. (h < k => frags[h].seq < frags[k].seq) /\ (k < h => frags[k].seq < frags[h].seq)
      BY Ascending DEF RewindInv
    <3>4. h = k \/ h < k \/ k < h
      BY <3>2
    <3>5. QED
      BY <3>2, <3>3, <3>4
  <2>3. QED
    BY <2>1, <2>2
<1> DEFINE m == Manifest(frags, ended)
<1>6. /\ m.list = SubSeq(frags, k, Len(frags)) /\ m.mediaSequence = frags[k].seq
      /\ m.discontinuitySequence = DiscontinuitiesBefore(frags, frags[k].seq)
  BY <1>3, <1>4 DEF Manifest
<1>7. DiscontinuitiesBefore(frags, frags[k].seq) = Cardinality({h \in Heads(frags) : h <= k})
  BY <1>5 DEF DiscontinuitiesBefore
<1>8. k <= Len(frags)
  BY <1>1
<1> HIDE DEF m
<1>9. Stretch(m, frags, k, Len(frags))
  BY <1>6, <1>7, <1>8 DEF Stretch, Changes
<1>10. QED
  BY <1>2, <1>9 DEF m

(* The window begins at one place only.                                    *)
LEMMA OneWindow ==
    ASSUME NEW s \in Seq(Fragment), NEW k \in 1 .. Len(s), WindowAt(s, k)
    PROVE  WindowFrom(s, k)
<1>1. Len(s) \in Nat
  OBVIOUS
<1>2. ASSUME NEW l \in 1 .. Len(s), WindowAt(s, l)
      PROVE  l = k
  <2>1. SubSeq(s, k, Len(s)) = SubSeq(s, l, Len(s))
    BY <1>2 DEF WindowAt
  <2>2. Len(SubSeq(s, k, Len(s))) = Len(s) - k + 1 /\ Len(SubSeq(s, l, Len(s))) = Len(s) - l + 1
    BY <1>1
  <2>3. QED
    BY <1>1, <2>1, <2>2
<1>3. QED
  BY <1>1, <1>2 DEF WindowFrom

LEMMA ManifestStep ==
    ASSUME RewindInv, GetLiveManifest
    PROVE  RewindInv'
<1>1. RewindTypeOK'
  BY ViewTypes DEF RewindInv, ViewStep
<1>2. UNCHANGED <<frags, seq, lastEpoch, cumulative>>
  BY DEF GetLiveManifest, uploaderVars
<1>3. CASE served' = served
  BY <1>1, <1>2, <1>3, Elsewhere DEF Progress
<1>4. CASE Buildable(frags, seenInits) /\ served' = Manifest(frags, seenEnded)
  <2>1. frags \in Seq(Fragment) /\ frags # <<>> /\ Len(frags) \in Nat
    BY <1>4 DEF Buildable, RewindInv, RewindTypeOK
  <2>2. PICK k \in 1 .. Len(frags) :
           WindowAt(frags, k) /\ Stretch(Manifest(frags, seenEnded), frags, k, Len(frags))
    BY <2>1, ManifestStretch
  <2>3. WindowFrom(frags, k)
    BY <2>1, <2>2, OneWindow
  <2>4. ServedOK'
    <3>1. Len(frags) \in 1 .. Len(frags)
      BY <2>1
    <3>2. \E a, b \in 1 .. Len(frags) : Stretch(served', frags, a, b) /\ WindowFrom(frags, a)
      BY <1>4, <2>2, <2>3, <3>1
    <3>3. QED
      BY <1>2, <3>2 DEF ServedOK
  <2>5. NumbersRunOn' /\ ClockRunsOn'
    BY <1>2 DEF RewindInv, NumbersRunOn, ClockRunsOn
  <2>6. QED
    BY <1>1, <2>4, <2>5 DEF RewindInv
<1>5. QED
  BY <1>3, <1>4 DEF GetLiveManifest

(* Every step keeps the invariant.                                         *)
LEMMA RewindInvStep == RewindInv /\ [RewindNext]_rewindVars => RewindInv'
<1> SUFFICES ASSUME RewindInv, [RewindNext]_rewindVars
             PROVE  RewindInv'
  OBVIOUS
<1> USE DEF ffmpegVars, watcherVars, uploaderVars, viewVars, Progress
<1>1. CASE UNCHANGED rewindVars
  <2>1. RewindTypeOK'
    BY <1>1 DEF rewindVars, RewindInv, RewindTypeOK
  <2>2. QED
    BY <1>1, <2>1, Elsewhere DEF rewindVars
<1>2. CASE RecorderStep
  <2>1. UNCHANGED Progress
    BY <1>2 DEF RecorderStep, WriteInit, WriteFragment, Exit, Restart, GiveUp
  <2>2. QED
    BY <1>2, <2>1, RecorderTypes, Elsewhere DEF RewindInv
<1>3. CASE EmitNewHLSEntries
  BY <1>3, EmitTypes, Elsewhere DEF RewindInv, EmitNewHLSEntries
<1>4. CASE UploadInit
  BY <1>4, UploadInitTypes, Elsewhere DEF RewindInv, UploadInit
<1>5. CASE UploadFragment
  BY <1>5, UploadFragmentStep
<1>6. CASE Unregister \/ ReadLive \/ ReadInits
  <2>1. UNCHANGED Progress
    BY <1>6 DEF Unregister, ReadLive, ReadInits
  <2>2. QED
    BY <1>6, <2>1, ViewTypes, Elsewhere DEF RewindInv, ViewStep
<1>7. CASE GetLiveManifest
  BY <1>7, ManifestStep
<1>8. QED
  BY <1>1, <1>2, <1>3, <1>4, <1>5, <1>6, <1>7 DEF RewindNext, ViewStep

(* The inductive invariant: fragments are registered in the order of their *)
(* numbers, each where the epoch's clock stood (runHLSFragmentUploader),   *)
(* and every playlist served is a stretch of their list with its true      *)
(* counters (buildLiveManifest), which the window has not gone back from.  *)
THEOREM RewindInductive == RewindSpec => []RewindInv
  BY RewindInvInit, RewindInvStep, PTL DEF RewindSpec

-----------------------------------------------------------------------------
(* What a player counts in a playlist is what there is in the list.        *)
LEMMA HeadsOfStretch ==
    ASSUME NEW s, Len(s) \in Nat, NEW a \in 1 .. Len(s), NEW c \in a .. Len(s),
           NEW w, w = SubSeq(s, a, c)
    PROVE  \A h : h \in Heads(w) <=> h \in 2 .. c - a + 1 /\ h + (a - 1) \in Heads(s)
<1>1. a \in Nat /\ c \in Nat /\ a <= c /\ Len(w) = c - a + 1
  OBVIOUS
<1>2. ASSUME NEW h \in 2 .. c - a + 1
      PROVE  /\ w[h] = s[h + (a - 1)] /\ w[h - 1] = s[h + (a - 1) - 1]
             /\ h + (a - 1) \in 2 .. Len(s)
  <2>1. \A i \in 1 .. c - a + 1 : w[i] = s[i + (a - 1)]
    <3>1. TAKE i \in 1 .. c - a + 1
    <3>2. i + a - 1 = i + (a - 1)
      BY <1>1
    <3>3. QED
      BY <1>1, <3>2
  <2>2. h \in 1 .. c - a + 1 /\ h - 1 \in 1 .. c - a + 1
    BY <1>1
  <2>3. (h - 1) + (a - 1) = h + (a - 1) - 1
    BY <1>1
  <2>4. h + (a - 1) \in 2 .. Len(s)
    BY <1>1
  <2>5. QED
    BY <2>1, <2>2, <2>3, <2>4
<1>3. \A h : h \in Heads(w) => h \in 2 .. c - a + 1
  BY <1>1 DEF Heads
<1>4. ASSUME NEW h \in 2 .. c - a + 1
      PROVE  h \in Heads(w) <=> h + (a - 1) \in Heads(s)
  <2>1. h \in Heads(w) <=> w[h].epoch # w[h - 1].epoch
    BY <1>1 DEF Heads
  <2>2. h + (a - 1) \in Heads(s) <=> s[h + (a - 1)].epoch # s[h + (a - 1) - 1].epoch
    BY <1>2 DEF Heads
  <2>3. QED
    BY <1>2, <2>1, <2>2
<1>5. QED
  BY <1>3, <1>4

(* The parts of a sequence.                                                *)
LEMMA PartOfSequence ==
    ASSUME NEW S, NEW t \in Seq(S), NEW a \in Nat \ {0}, NEW b \in Nat, a <= b + 1, b <= Len(t)
    PROVE  /\ Len(SubSeq(t, a, b)) = b - a + 1
           /\ \A k \in 1 .. b - a + 1 : SubSeq(t, a, b)[k] = t[a + k - 1]
  OBVIOUS

(* Where a playlist's fragments are in the list of all.                    *)
LEMMA PlaceInList ==
    ASSUME NEW s \in Seq(Fragment), NEW m,
           NEW a \in 1 .. Len(s), NEW b \in 1 .. Len(s), Stretch(m, s, a, b)
    PROVE  /\ a \in Nat /\ b \in Nat /\ a <= b /\ m.list = SubSeq(s, a, b)
           /\ DOMAIN m.list = 1 .. b - a + 1
           /\ \A i \in 1 .. b - a + 1 : a + i - 1 \in 1 .. Len(s) /\ m.list[i] = s[a + i - 1]
<1>1. Len(s) \in Nat /\ a \in Nat /\ b \in Nat /\ a <= b /\ m.list = SubSeq(s, a, b)
  BY DEF Stretch
<1>2. b <= Len(s)
  BY <1>1
<1>3. /\ DOMAIN SubSeq(s, a, b) = 1 .. b - a + 1
      /\ \A i \in 1 .. b - a + 1 : SubSeq(s, a, b)[i] = s[a + i - 1]
  BY <1>1, <1>2
<1>4. \A i \in 1 .. b - a + 1 : a + i - 1 \in 1 .. Len(s)
  BY <1>1, <1>2
<1>5. QED
  BY <1>1, <1>3, <1>4

(* Where a listed fragment is in the list of fragments.                    *)
LEMMA ListedPlace ==
    ASSUME NEW s \in Seq(Fragment), NEW m,
           NEW a \in 1 .. Len(s), NEW b \in 1 .. Len(s), Stretch(m, s, a, b),
           NEW x \in DOMAIN m.list
    PROVE  /\ x \in 1 .. b - a + 1 /\ a + x - 1 \in 1 .. Len(s) /\ m.list[x] = s[a + x - 1]
           /\ a \in Nat /\ b \in Nat
<1>1. DOMAIN m.list = 1 .. b - a + 1 /\ a \in Nat /\ b \in Nat
  BY PlaceInList
<1>2. \A i \in 1 .. b - a + 1 : a + i - 1 \in 1 .. Len(s) /\ m.list[i] = s[a + i - 1]
  BY PlaceInList
<1>3. QED
  BY <1>1, <1>2

(* What a player counts for a fragment of a playlist is how many epoch     *)
(* changes the whole list has up to it.                                    *)
LEMMA DiscontinuityInList ==
    ASSUME NEW s \in Seq(Fragment), NEW m,
           NEW a \in 1 .. Len(s), NEW b \in 1 .. Len(s), Stretch(m, s, a, b),
           NEW i \in DOMAIN m.list
    PROVE  \E p \in 1 .. Len(s) : m.list[i] = s[p] /\ Discontinuity(m, i) = Changes(s, p)
<1>1. Len(s) \in Nat /\ a \in Nat /\ b \in Nat /\ a <= b /\ m.list = SubSeq(s, a, b)
  BY DEF Stretch
<1>2. i \in 1 .. b - a + 1 /\ i \in Nat
  BY <1>1
<1>3. a + i - 1 \in a .. b /\ a + i - 1 \in 1 .. Len(s) /\ m.list[i] = s[a + i - 1]
  <2>1. a + i - 1 \in a .. b /\ b <= Len(s)
    BY <1>1, <1>2
  <2>2. a + i - 1 \in 1 .. Len(s)
    BY <1>1, <1>2, <2>1
  <2>3. SubSeq(s, a, b)[i] = s[a + i - 1]
    <3>1. a \in Nat \ {0} /\ b \in Nat /\ a <= b + 1
      BY <1>1
    <3>2. \A k \in 1 .. b - a + 1 : SubSeq(s, a, b)[k] = s[a + k - 1]
      BY <2>1, <3>1, PartOfSequence, Zenon
    <3>3. QED
      BY <1>2, <3>2, Zenon
  <2>4. QED
    BY <1>1, <2>1, <2>2, <2>3
<1> DEFINE c == a + i - 1
           w == SubSeq(m.list, 1, i)
           In == Heads(w)
           Before == {h \in Heads(s) : h <= a}
           Within == {h \in Heads(s) : a < h /\ h <= c}
<1>4. w = SubSeq(s, a, c)
  <2>1. Len(m.list) = b - a + 1 /\ \A j \in 1 .. b - a + 1 : m.list[j] = s[a + j - 1]
    BY <1>1
  <2>2. Len(w) = i /\ \A j \in 1 .. i : w[j] = m.list[j]
    BY <1>2, <2>1
  <2>3. QED
    BY <1>1, <1>2, <2>1, <2>2
<1>5. c \in a .. Len(s) /\ c - a + 1 = i
  BY <1>1, <1>2, <1>3
<1>6. In = {h \in 2 .. i : h + (a - 1) \in Heads(s)}
  <2>1. \A h : h \in Heads(w) <=> h \in 2 .. c - a + 1 /\ h + (a - 1) \in Heads(s)
    <3> HIDE DEF w, c
    <3>1. QED
      BY <1>1, <1>4, <1>5, HeadsOfStretch
  <2>2. QED
    BY <1>5, <2>1
<1> HIDE DEF In, w, c
<1>7. IsFiniteSet(Heads(s))
  <2>1. IsFiniteSet(2 .. Len(s))
    BY <1>1, FS_Interval
  <2>2. QED
    BY <2>1, FS_Subset DEF Heads
<1>8. \A h \in Heads(s) : h \in Nat
  BY <1>1 DEF Heads
<1>9. Cardinality(In) = Cardinality(Within)
  <2> DEFINE g == [h \in In |-> h + (a - 1)]
  <2>1. ASSUME NEW h \in In
        PROVE  g[h] \in Within
    BY <1>1, <1>2, <1>5, <1>6 DEF c
  <2>2. ASSUME NEW x \in Within
        PROVE  \E h \in In : g[h] = x
    <3>1. x \in Nat /\ x - (a - 1) \in 2 .. i /\ (x - (a - 1)) + (a - 1) = x
      BY <1>1, <1>2, <1>5, <1>8 DEF c
    <3>2. QED
      BY <1>6, <3>1
  <2>3. ASSUME NEW x \in In, NEW y \in In, g[x] = g[y]
        PROVE  x = y
    BY <1>1, <1>6, <2>3
  <2>4. g \in Bijection(In, Within)
    <3> DEFINE B == Within
    <3>1. g \in [In -> B] /\ (\A x, y \in In : g[x] = g[y] => x = y) /\ \A x \in B : \E h \in In : g[h] = x
      BY <2>1, <2>2, <2>3
    <3> HIDE DEF g, B
    <3>2. g \in Bijection(In, B)
      BY <3>1 DEF Bijection, Injection, Surjection, IsInjective
    <3>3. QED
      BY <3>2 DEF B
  <2>5. IsFiniteSet(In)
    <3>1. IsFiniteSet(2 .. i) /\ In \subseteq 2 .. i
      BY <1>2, <1>6, FS_Interval
    <3>2. QED
      BY <3>1, FS_Subset
  <2>6. QED
    BY <2>4, <2>5, FS_Bijection DEF ExistsBijection
<1>10. {h \in Heads(s) : h <= c} = Before \cup Within /\ Before \cap Within = {}
  BY <1>1, <1>5, <1>8
<1>11. IsFiniteSet(Before) /\ IsFiniteSet(Within)
  BY <1>7, FS_Subset
<1>12. Cardinality(Before \cup Within) = Cardinality(Before) + Cardinality(Within)
  <2>1. Cardinality(Before \cup Within) = Cardinality(Before) + Cardinality(Within) - Cardinality(Before \cap Within)
    BY <1>11, FS_Union
  <2>2. Cardinality(Before \cap Within) = 0
    BY <1>10, FS_EmptySet
  <2>3. Cardinality(Before) \in Nat /\ Cardinality(Within) \in Nat
    BY <1>11, FS_CardinalityType
  <2>4. QED
    BY <2>1, <2>2, <2>3
<1>13. Discontinuity(m, i) = Cardinality(Before) + Cardinality(In)
  BY DEF Discontinuity, EpochChanges, Stretch, Changes, In, w
<1>14. Discontinuity(m, i) = Cardinality({h \in Heads(s) : h <= c})
  BY <1>9, <1>10, <1>12, <1>13
<1>15. QED
  BY <1>2, <1>3, <1>14 DEF c, Changes

(* The list of fragments only grows, and at its end.                       *)
LEMMA FragmentsGrow ==
    ASSUME RewindInv, [RewindNext]_rewindVars
    PROVE  frags' = frags \/ \E f \in Fragment : frags' = Append(frags, f)
<1> USE DEF ffmpegVars, watcherVars, uploaderVars, viewVars
<1>1. CASE UploadFragment
  <2> DEFINE e == Head(emitting)
             f == [seq |-> seq, epoch |-> e.epoch, start |-> StartOf(e), duration |-> e.duration]
  <2>1. e.epoch \in 1 .. MaxEpochs /\ e.duration \in Durations
    BY <1>1, UploadTypes DEF UploadFragment, RewindInv
  <2>2. seq \in Nat /\ StartOf(e) \in Nat
    BY DEF RewindInv, RewindTypeOK, StartOf
  <2>3. f \in Fragment
    BY <2>1, <2>2 DEF Fragment
  <2>4. frags' = Append(frags, f) \/ frags' = frags
    BY <1>1 DEF UploadFragment
  <2>5. QED
    BY <2>3, <2>4
<1>2. CASE RecorderStep
  BY <1>2 DEF RecorderStep, WriteInit, WriteFragment, Exit, Restart, GiveUp
<1>3. CASE EmitNewHLSEntries \/ UploadInit \/ Unregister \/ ReadLive \/ ReadInits \/ GetLiveManifest
  BY <1>3 DEF EmitNewHLSEntries, UploadInit, Unregister, ReadLive, ReadInits, GetLiveManifest
<1>4. CASE UNCHANGED rewindVars
  BY <1>4 DEF rewindVars
<1>5. QED
  BY <1>1, <1>2, <1>3, <1>4 DEF RewindNext, ViewStep

(* Two successive playlists are stretches of one list, and the later one   *)
(* does not begin before the earlier one.                                  *)
LEMMA BothStretches ==
    ASSUME RewindInv, [RewindNext]_rewindVars,
           served # NoPlaylist, served' # NoPlaylist
    PROVE  \E a, b, k, l \in 1 .. Len(frags') :
              Stretch(served, frags', a, b) /\ Stretch(served', frags', k, l) /\ a <= k
<1>1. PICK a \in 1 .. Len(frags), b \in 1 .. Len(frags) : Stretch(served, frags, a, b) /\ WindowFrom(frags, a)
  BY DEF RewindInv, ServedOK
<1>2. frags \in Seq(Fragment) /\ Len(frags) \in Nat /\ frags # <<>> /\ a \in Nat
  BY <1>1 DEF RewindInv, RewindTypeOK
<1>3. CASE served' = served
  <2>1. Stretch(served, frags', a, b) /\ a \in 1 .. Len(frags') /\ b \in 1 .. Len(frags')
    <3>1. CASE frags' = frags
      BY <1>1, <3>1
    <3>2. ASSUME NEW f \in Fragment, frags' = Append(frags, f)
          PROVE  Stretch(served, frags', a, b) /\ a \in 1 .. Len(frags') /\ b \in 1 .. Len(frags')
      <4>1. Stretch(served, frags', a, b)
        BY <1>1, <1>2, <3>2, StretchKept
      <4>2. Len(frags') = Len(frags) + 1
        BY <1>2, <3>2
      <4>3. QED
        BY <1>2, <4>1, <4>2
    <3>3. QED
      BY <3>1, <3>2, FragmentsGrow
  <2>2. a <= a
    BY <1>2
  <2>3. QED
    BY <1>3, <2>1, <2>2
<1>4. CASE served' # served
  <2>1. GetLiveManifest
    BY <1>4 DEF RewindNext, rewindVars, viewVars, ViewStep, RecorderStep, WriteInit, WriteFragment, Exit,
                Restart, GiveUp, EmitNewHLSEntries, UploadInit, UploadFragment, Unregister, ReadLive,
                ReadInits
  <2>2. frags' = frags /\ served' = Manifest(frags, seenEnded)
    BY <1>4, <2>1 DEF GetLiveManifest, uploaderVars
  <2>3. PICK k \in 1 .. Len(frags) :
           WindowAt(frags, k) /\ Stretch(Manifest(frags, seenEnded), frags, k, Len(frags))
    BY <1>2, ManifestStretch
  <2>4. a <= k
    BY <1>1, <2>3 DEF WindowFrom
  <2>5. Len(frags) \in 1 .. Len(frags)
    BY <1>2
  <2>6. QED
    BY <1>1, <2>2, <2>3, <2>4, <2>5
<1>5. QED
  BY <1>3, <1>4

(* Numbers ascend, so a fragment's number tells its place in the list.     *)
LEMMA OnePlace ==
    ASSUME NEW s \in Seq(Fragment),
           \A j \in DOMAIN s : \A i \in 1 .. j - 1 : s[i].seq < s[j].seq,
           NEW p \in 1 .. Len(s), NEW q \in 1 .. Len(s), s[p].seq = s[q].seq
    PROVE  p = q
<1>1. s[p].seq \in Nat /\ Len(s) \in Nat /\ DOMAIN s = 1 .. Len(s) /\ p \in Nat /\ q \in Nat
  BY FragmentFields
<1>2. (p < q => p \in 1 .. q - 1) /\ (q < p => q \in 1 .. p - 1)
  BY <1>1
<1>3. ~(p < q) /\ ~(q < p)
  BY <1>1, <1>2
<1>4. QED
  BY <1>1, <1>3

(* A fragment keeps its discontinuity number from one playlist to the      *)
(* next, however many restarts the window has scrolled past:               *)
(* discontinuitiesBefore counts the change at the window's edge.           *)
THEOREM DiscontinuityIsKept == RewindSpec => StableDiscontinuity
<1>1. ASSUME RewindInv, [RewindNext]_rewindVars
      PROVE  Refresh(LAMBDA i, j : Discontinuity(served, i) = Discontinuity(served', j))
  <2>1. SUFFICES ASSUME served # NoPlaylist, served' # NoPlaylist,
                        NEW i \in DOMAIN served.list, NEW j \in DOMAIN served'.list,
                        served.list[i].seq = served'.list[j].seq
                 PROVE  Discontinuity(served, i) = Discontinuity(served', j)
    BY DEF Refresh
  <2>2. PICK a \in 1 .. Len(frags'), b \in 1 .. Len(frags'), k \in 1 .. Len(frags'), l \in 1 .. Len(frags') :
           Stretch(served, frags', a, b) /\ Stretch(served', frags', k, l)
    BY <1>1, <2>1, BothStretches
  <2>3. RewindTypeOK' /\ frags' \in Seq(Fragment)
    BY <1>1, RewindInvStep DEF RewindInv, RewindTypeOK
  <2>4. PICK p \in 1 .. Len(frags') : served.list[i] = frags'[p] /\ Discontinuity(served, i) = Changes(frags', p)
    BY <2>2, <2>3, DiscontinuityInList
  <2>5. PICK q \in 1 .. Len(frags') : served'.list[j] = frags'[q] /\ Discontinuity(served', j) = Changes(frags', q)
    BY <2>2, <2>3, DiscontinuityInList
  <2>6. p = q
    <3>1. \A y \in DOMAIN frags' : \A z \in 1 .. y - 1 : frags'[z].seq < frags'[y].seq
      BY <2>3 DEF RewindTypeOK
    <3>2. QED
      BY <2>1, <2>3, <2>4, <2>5, <3>1, OnePlace
  <2>7. QED
    BY <2>4, <2>5, <2>6
<1>2. QED
  BY <1>1, RewindInductive, PTL DEF RewindSpec, StableDiscontinuity

(* Holes left by failed uploads change what a player counts for a fragment *)
(* from one playlist to the next, but never down, so it skips none:        *)
(* buildLiveManifest starts from the first listed fragment's own number,   *)
(* and the window of windowFragments never begins earlier than it did.     *)
THEOREM NothingIsSkipped == RewindSpec => NothingSkipped
<1>1. ASSUME RewindInv, [RewindNext]_rewindVars
      PROVE  Refresh(LAMBDA i, j : Number(served, i) <= Number(served', j))
  <2>1. SUFFICES ASSUME served # NoPlaylist, served' # NoPlaylist,
                        NEW i \in DOMAIN served.list, NEW j \in DOMAIN served'.list,
                        served.list[i].seq = served'.list[j].seq
                 PROVE  Number(served, i) <= Number(served', j)
    BY DEF Refresh
  <2>2. PICK a \in 1 .. Len(frags'), b \in 1 .. Len(frags'), k \in 1 .. Len(frags'), l \in 1 .. Len(frags') :
           Stretch(served, frags', a, b) /\ Stretch(served', frags', k, l) /\ a <= k
    BY <1>1, <2>1, BothStretches
  <2>3. RewindInv' /\ RewindTypeOK' /\ frags' \in Seq(Fragment)
    BY <1>1, RewindInvStep DEF RewindInv, RewindTypeOK
  <2>4. /\ i \in 1 .. b - a + 1 /\ a + i - 1 \in 1 .. Len(frags') /\ served.list[i] = frags'[a + i - 1]
        /\ j \in 1 .. l - k + 1 /\ k + j - 1 \in 1 .. Len(frags') /\ served'.list[j] = frags'[k + j - 1]
        /\ a \in Nat /\ k \in Nat /\ b \in Nat /\ l \in Nat
    <3>1. /\ i \in 1 .. b - a + 1 /\ a + i - 1 \in 1 .. Len(frags') /\ served.list[i] = frags'[a + i - 1]
          /\ a \in Nat /\ b \in Nat
      BY <2>1, <2>2, <2>3, ListedPlace
    <3>2. /\ j \in 1 .. l - k + 1 /\ k + j - 1 \in 1 .. Len(frags') /\ served'.list[j] = frags'[k + j - 1]
          /\ k \in Nat /\ l \in Nat
      BY <2>1, <2>2, <2>3, ListedPlace
    <3>3. QED
      BY <3>1, <3>2
  <2>5. a + i - 1 = k + j - 1
    <3>1. \A y \in DOMAIN frags' : \A z \in 1 .. y - 1 : frags'[z].seq < frags'[y].seq
      BY <2>3 DEF RewindTypeOK
    <3>2. QED
      BY <2>1, <2>3, <2>4, <3>1, OnePlace
  <2>6. frags'[k].seq - frags'[a].seq >= k - a /\ frags'[k].seq \in Nat /\ frags'[a].seq \in Nat
    <3>1. frags'[k].seq - frags'[a].seq >= k - a
      BY <2>2, <2>3 DEF RewindInv, NumbersRunOn
    <3>2. QED
      BY <2>3, <3>1, FragmentFields
  <2>7. Number(served, i) = frags'[a].seq + i - 1 /\ Number(served', j) = frags'[k].seq + j - 1
    BY <2>2 DEF Number, Stretch
  <2>8. i \in Nat /\ j \in Nat
    BY <2>4
  <2>9. \A x, y, n, o, c, d \in Nat : c + n - 1 = d + o - 1 /\ y - x >= d - c => x + n - 1 <= y + o - 1
    OBVIOUS
  <2>10. frags'[a].seq + i - 1 <= frags'[k].seq + j - 1
    BY <2>4, <2>5, <2>6, <2>8, <2>9
  <2>11. QED
    BY <2>7, <2>10
<1>2. QED
  BY <1>1, RewindInductive, PTL DEF RewindSpec, NothingSkipped

(* An epoch's first listed fragment exists.                                *)
LEMMA EpochHeadExists ==
    ASSUME NEW m, NEW i \in Nat \ {0}
    PROVE  /\ EpochHead(m, i) \in 1 .. i
           /\ \A j \in EpochHead(m, i) .. i : m.list[j].epoch = m.list[i].epoch
<1> DEFINE Alike(h) == \A j \in h .. i : m.list[j].epoch = m.list[i].epoch
           SameEpoch == {h \in 1 .. i : Alike(h)}
<1>1. i \in SameEpoch /\ SameEpoch \in SUBSET Nat
  OBVIOUS
<1>2. PICK h \in SameEpoch : \A k \in SameEpoch : h <= k
  BY <1>1, LeastNumber
<1>3. h \in 1 .. i /\ Alike(h)
  BY <1>2
<1>4. h = 1 \/ m.list[h - 1].epoch # m.list[i].epoch
  <2>1. SUFFICES ASSUME h # 1, m.list[h - 1].epoch = m.list[i].epoch
                 PROVE  FALSE
    OBVIOUS
  <2>2. h - 1 \in 1 .. i /\ ~(h <= h - 1) /\ \A j \in h - 1 .. i : j = h - 1 \/ j \in h .. i
    BY <1>3, <2>1
  <2>3. Alike(h - 1)
    BY <1>3, <2>1, <2>2
  <2>4. QED
    BY <1>2, <2>2, <2>3
<1> DEFINE First(k) == /\ \A j \in k .. i : m.list[j].epoch = m.list[i].epoch
                       /\ k = 1 \/ m.list[k - 1].epoch # m.list[i].epoch
<1>5. \E k \in 1 .. i : First(k)
  BY <1>3, <1>4
<1>6. EpochHead(m, i) = CHOOSE k \in 1 .. i : First(k)
  BY DEF EpochHead
<1>7. EpochHead(m, i) \in 1 .. i /\ First(EpochHead(m, i))
  <2> HIDE DEF First
  <2>1. QED
    BY <1>5, <1>6
<1>8. QED
  BY <1>7

(* Numbers that are as far apart as their places are consecutive.          *)
LEMMA NoHoleBetween ==
    ASSUME RewindTypeOK, NumbersRunOn,
           NEW p \in 1 .. Len(frags), NEW q \in p .. Len(frags),
           frags[q].seq - frags[p].seq = q - p, NEW k \in p .. q - 1
    PROVE  k + 1 \in 1 .. Len(frags) /\ frags[k + 1].seq = frags[k].seq + 1
<1>1. /\ Len(frags) \in Nat /\ p \in Nat /\ q \in Nat /\ k \in Nat
      /\ k \in 1 .. Len(frags) /\ k + 1 \in 1 .. Len(frags) /\ q \in 1 .. Len(frags)
      /\ p <= k /\ k <= k + 1 /\ k + 1 <= q
  <2>1. frags \in Seq(Fragment)
    BY DEF RewindTypeOK
  <2>2. Len(frags) \in Nat
    BY <2>1
  <2>3. p \in Nat /\ q \in Nat /\ k \in Nat
    BY <2>2
  <2>4. QED
    BY <2>2, <2>3
<1>2. /\ frags[p].seq \in Nat /\ frags[q].seq \in Nat
      /\ frags[k].seq \in Nat /\ frags[k + 1].seq \in Nat
  BY <1>1, FragmentFields DEF RewindTypeOK
<1>3. /\ frags[k].seq - frags[p].seq >= k - p
      /\ frags[k + 1].seq - frags[k].seq >= (k + 1) - k
      /\ frags[q].seq - frags[k + 1].seq >= q - (k + 1)
  <2>1. \A i, j \in 1 .. Len(frags) : i <= j => frags[j].seq - frags[i].seq >= j - i
    BY DEF NumbersRunOn
  <2>2. QED
    BY <1>1, <2>1
<1>4. \A P, Q, K, L \in Nat : (Q - P = q - p /\ K - P >= k - p /\ L - K >= (k + 1) - k /\ Q - L >= q - (k + 1)) => L = K + 1
  BY <1>1
<1>5. QED
  BY <1>1, <1>2, <1>3, <1>4

(* The date a player accumulates within an epoch is the fragment's own,    *)
(* unless an upload failed on the way to it.                               *)
LEMMA DatesFollow == RewindInv => DatesExact
<1> SUFFICES ASSUME RewindInv, served # NoPlaylist, NEW i \in DOMAIN served.list,
                    Contiguous(served, EpochHead(served, i), i)
             PROVE  Date(served, i) = served.list[i].start
  BY DEF DatesExact
<1> DEFINE h == EpochHead(served, i)
           d == SubSeq(served.list, h, i - 1)
<1>1. frags \in Seq(Fragment) /\ Len(frags) \in Nat
  BY DEF RewindInv, RewindTypeOK
<1>2. PICK a \in 1 .. Len(frags), b \in 1 .. Len(frags) : Stretch(served, frags, a, b)
  BY DEF RewindInv, ServedOK
<1>3. /\ i \in 1 .. b - a + 1 /\ a \in Nat /\ b \in Nat /\ a <= b
      /\ served.list = SubSeq(frags, a, b)
      /\ \A j \in DOMAIN served.list : a + j - 1 \in 1 .. Len(frags) /\ served.list[j] = frags[a + j - 1]
  <2>1. /\ DOMAIN served.list = 1 .. b - a + 1 /\ a \in Nat /\ b \in Nat /\ a <= b
        /\ served.list = SubSeq(frags, a, b)
        /\ \A j \in 1 .. b - a + 1 : a + j - 1 \in 1 .. Len(frags) /\ served.list[j] = frags[a + j - 1]
    BY <1>1, <1>2, PlaceInList, ZenonT(60)
  <2>2. QED
    BY <2>1
<1>4. h \in 1 .. i /\ \A j \in h .. i : served.list[j].epoch = served.list[i].epoch
  <2>1. i \in Nat \ {0}
    BY <1>3
  <2>2. QED
    BY <2>1, EpochHeadExists
<1> HIDE DEF h
<1>5. h \in Nat /\ i \in Nat /\ \A j \in h .. i : j \in DOMAIN served.list
  BY <1>1, <1>3, <1>4
<1>6. Len(d) = i - h /\ \A k \in 1 .. i - h : d[k] = served.list[h + k - 1]
  <2>1. served.list \in Seq(Fragment) /\ Len(served.list) = b - a + 1
    BY <1>1, <1>3
  <2>2. h \in Nat \ {0} /\ i - 1 \in Nat /\ h <= (i - 1) + 1 /\ i - 1 <= Len(served.list)
    BY <1>3, <1>4, <2>1
  <2>3. /\ Len(SubSeq(served.list, h, i - 1)) = (i - 1) - h + 1
        /\ \A k \in 1 .. (i - 1) - h + 1 : SubSeq(served.list, h, i - 1)[k] = served.list[h + k - 1]
    BY <2>1, <2>2, PartOfSequence
  <2>4. (i - 1) - h + 1 = i - h
    BY <1>5
  <2>5. QED
    BY <2>3, <2>4
<1> HIDE DEF d
<1> DEFINE x == [k \in 1 .. i - h + 1 |-> served.list[h + k - 1].start]
<1>7. ASSUME NEW j \in h .. i - 1
      PROVE  served.list[j + 1].start = served.list[j].start + served.list[j].duration
  <2>1. j \in h .. i /\ j + 1 \in h .. i /\ j \in Nat
    BY <1>5
  <2> DEFINE p == a + h - 1
             q == a + i - 1
             k == a + j - 1
  <2>2. /\ h \in DOMAIN served.list /\ i \in DOMAIN served.list
        /\ j \in DOMAIN served.list /\ j + 1 \in DOMAIN served.list
    BY <1>4, <1>5, <2>1
  <2>3. /\ p \in 1 .. Len(frags) /\ q \in 1 .. Len(frags)
        /\ served.list[h] = frags[p] /\ served.list[i] = frags[q] /\ served.list[j] = frags[k]
        /\ served.list[j + 1] = frags[a + (j + 1) - 1]
    BY <1>3, <2>2
  <2>4. q \in p .. Len(frags) /\ k \in p .. q - 1 /\ q - p = i - h /\ a + (j + 1) - 1 = k + 1
    <3>1. h <= j /\ j <= i - 1 /\ h <= i
      BY <1>4, <1>5
    <3>2. q <= Len(frags) /\ p \in Nat /\ q \in Nat /\ k \in Nat
      BY <1>1, <1>3, <1>5, <2>1, <2>3
    <3>3. p <= q /\ p <= k /\ k <= q - 1
      <4>1. a \in Nat /\ h \in Nat /\ i \in Nat /\ j \in Nat
        BY <1>3, <1>5, <2>1
      <4>2. QED
        BY <1>1, <3>1, <3>2, <4>1, SMTT(30)
    <3>4. q - p = i - h /\ a + (j + 1) - 1 = k + 1
      BY <1>3, <1>5, <2>1
    <3> HIDE DEF p, q, k
    <3>5. QED
      BY <1>1, <3>2, <3>3, <3>4
  <2>5. frags[q].seq - frags[p].seq = q - p
    BY <2>3, <2>4 DEF Contiguous, h
  <2> HIDE DEF p, q, k
  <2>6. k + 1 \in 1 .. Len(frags) /\ frags[k + 1].seq = frags[k].seq + 1
    BY <2>3, <2>4, <2>5, NoHoleBetween DEF RewindInv
  <2>7. frags[k + 1].epoch = frags[k].epoch
    BY <1>4, <2>1, <2>3, <2>4
  <2>8. k \in 1 .. Len(frags) - 1
    BY <1>1, <2>3, <2>4, <2>6
  <2>9. frags[k + 1].start = frags[k].start + frags[k].duration
    BY <2>6, <2>7, <2>8 DEF RewindInv, ClockRunsOn
  <2>10. QED
    BY <2>3, <2>4, <2>9
<1>8. \A j \in h .. i : served.list[j].start \in Nat /\ served.list[j].duration \in Nat
  BY <1>1, <1>3, <1>5, FragmentFields
<1>9. Span(d) = x[Len(d) + 1] - x[1]
  <2>1. Len(d) \in Nat
    BY <1>4, <1>5, <1>6
  <2>2. ASSUME NEW k \in 1 .. Len(d) + 1
        PROVE  x[k] \in Int
    BY <1>4, <1>5, <1>6, <1>8
  <2>3. ASSUME NEW k \in 1 .. Len(d)
        PROVE  d[k].duration \in Nat /\ x[k + 1] = x[k] + d[k].duration
    <3>0. k \in 1 .. i - h /\ k \in Nat
      BY <1>4, <1>5, <1>6
    <3>1. /\ h + k - 1 \in h .. i - 1 /\ h + k - 1 \in h .. i /\ h + (k + 1) - 1 = (h + k - 1) + 1
          /\ k \in 1 .. i - h + 1 /\ k + 1 \in 1 .. i - h + 1 /\ k \in 1 .. i - h
      BY <1>4, <1>5, <3>0
    <3>2. d[k] = served.list[h + k - 1]
      BY <1>6, <3>1
    <3>3. x[k] = served.list[h + k - 1].start /\ x[k + 1] = served.list[(h + k - 1) + 1].start
      BY <3>1
    <3>4. QED
      BY <1>7, <1>8, <3>1, <3>2, <3>3
  <2> HIDE DEF x
  <2>4. QED
    BY <2>1, <2>2, <2>3, SpanTelescopes
<1>10. x[Len(d) + 1] = served.list[i].start /\ x[1] = served.list[h].start
  <2>1. Len(d) + 1 \in 1 .. i - h + 1 /\ 1 \in 1 .. i - h + 1 /\ h + (Len(d) + 1) - 1 = i /\ h + 1 - 1 = h
    BY <1>4, <1>5, <1>6
  <2>2. QED
    BY <2>1
<1> HIDE DEF x
<1>11. Date(served, i) = served.list[h].start + Span(d)
  BY DEF Date, h, d
<1>12. served.list[h].start \in Nat /\ served.list[i].start \in Nat
  BY <1>4, <1>5, <1>8
<1>13. QED
  BY <1>9, <1>10, <1>11, <1>12

(* The date a player accumulates from an epoch's first listed fragment is  *)
(* the one the fragment was registered with, unless an upload failed on    *)
(* the way to it.                                                          *)
THEOREM DatesAreExact == RewindSpec => []DatesExact
  BY RewindInductive, DatesFollow, PTL

(* Every variable of LiveRewind keeps its type, and no number is           *)
(* registered twice or out of order.                                       *)
THEOREM RewindTypeCorrect == RewindSpec => []RewindTypeOK
<1>1. RewindInv => RewindTypeOK
  BY DEF RewindInv
<1>2. QED
  BY <1>1, RewindInductive, PTL

-----------------------------------------------------------------------------
(***************************************************************************)
(* FrameExtractor: what the reorder buffer hands on, and what is made of   *)
(* it.                                                                     *)
(***************************************************************************)
(* Packets are numbered from 1.                                            *)
LEMMA PacketNumbers == Len(Layout) \in Nat /\ Packets = 1 .. Len(Layout)
  BY ExtractorAssumption DEF Packets

(* A remainder is what it is a remainder of.                               *)
LEMMA Remainder ==
    ASSUME NEW q \in Int, NEW r \in Int, NEW S \in Nat \ {0}, 0 <= r, r < S
    PROVE  (S * q + r) % S = r
  OBVIOUS

(* What quotient and remainder are.                                        *)
LEMMA Quotient ==
    ASSUME NEW x \in Int, NEW S \in Nat \ {0}
    PROVE  /\ x \div S \in Int /\ x % S \in Int /\ 0 <= x % S /\ x % S < S
           /\ x = S * (x \div S) + (x % S)
  OBVIOUS

(* The code's signed difference of two sequence numbers is how far their   *)
(* packets are apart, across the wrap.                                     *)
LEMMA DeltaIsDistance ==
    ASSUME NEW m \in Nat, NEW n \in Nat, m - n < Len(Layout), n - m <= Len(Layout)
    PROVE  Delta(m, n) = m - n
<1> DEFINE S == SeqSpace
           x == FirstSeq + m
           y == FirstSeq + n
           d == ((x % S) - (y % S)) % S
<1>1. /\ S \in Nat \ {0} /\ x \in Int /\ y \in Int /\ x - y = m - n
      /\ 2 * (x - y) < S /\ 2 * (y - x) <= S
  <2>1. SeqSpace \in Nat /\ 2 * Len(Layout) <= SeqSpace /\ FirstSeq \in 0 .. SeqSpace - 1 /\ Len(Layout) \in Nat
    BY ExtractorAssumption, PacketNumbers
  <2>2. QED
    BY <2>1
<1> HIDE DEF x, y, S
<1>2. d \in Int
  <2>1. x % S \in Int /\ y % S \in Int
    BY <1>1, Quotient
  <2>2. (x % S) - (y % S) \in Int
    BY <2>1
  <2>3. QED
    BY <1>1, <2>2, Quotient
<1>3. Delta(m, n) = IF 2 * d >= S THEN d - S ELSE d
  BY DEF Delta, SequenceNumber, x, y, S
<1> HIDE DEF d
<1>4. x - y = IF 2 * d >= S THEN d - S ELSE d
  <2>0. d = ((x % S) - (y % S)) % S
    BY DEF d
  <2> DEFINE u == x % S
             v == y % S
             p == x \div S
             q == y \div S
             r == (u - v) \div S
             k == (p - q) + r
  <2>1. u \in Int /\ p \in Int /\ x = S * p + u
    BY <1>1, Quotient
  <2>2. v \in Int /\ q \in Int /\ y = S * q + v
    BY <1>1, Quotient
  <2>3. u - v \in Int
    BY <1>1, <2>1, <2>2
  <2> HIDE DEF u, v, p, q
  <2>4. r \in Int /\ u - v = S * r + d /\ 0 <= d /\ d < S
    <3>1. d = (u - v) % S
      BY <2>0 DEF u, v
    <3> DEFINE w == u - v
    <3>2. w \in Int
      BY <1>1, <2>3
    <3> HIDE DEF w
    <3>3. w \div S \in Int /\ w = S * (w \div S) + (w % S) /\ 0 <= w % S /\ w % S < S
      BY <1>1, <3>2, Quotient
    <3>4. QED
      BY <1>1, <3>1, <3>3 DEF w
  <2> HIDE DEF r
  <2>5. k \in Int /\ S * k = S * p - S * q + S * r
    BY <1>1, <2>1, <2>2, <2>4
  <2>6. S * p \in Int /\ S * q \in Int /\ S * r \in Int
    BY <1>1, <2>1, <2>2, <2>4
  <2> DEFINE a == S * p
             b == S * q
             c == S * r
  <2>7. a \in Int /\ b \in Int /\ c \in Int /\ S * k = a - b + c /\ x = a + u /\ y = b + v /\ u - v = c + d
    BY <1>1, <2>1, <2>2, <2>4, <2>5, <2>6
  <2> HIDE DEF a, b, c, k
  <2>8. x - y = S * k + d
    BY <1>1, <1>2, <2>1, <2>2, <2>7
  <2>9. k = 0 \/ k = -1
    <3>1. (k >= 1 => S * k >= S) /\ (k <= -2 => S * k <= -2 * S)
      BY <1>1, <2>5
    <3>2. S * k \in Int
      BY <1>1, <2>5
    <3> DEFINE sk == S * k
    <3>3. sk \in Int /\ x - y = sk + d /\ (k >= 1 => sk >= S) /\ (k <= -2 => sk <= -2 * S)
      BY <1>1, <2>8, <3>1, <3>2
    <3> HIDE DEF sk
    <3>4. ~(k >= 1) /\ ~(k <= -2)
      BY <1>1, <1>2, <2>4, <3>3
    <3>5. QED
      BY <1>1, <2>5, <3>4
  <2>10. CASE k = 0
    <3>1. S * k = 0
      BY <1>1, <2>10
    <3>2. x - y = d
      BY <1>1, <1>2, <2>8, <3>1
    <3>3. QED
      BY <1>1, <1>2, <3>2
  <2>11. CASE k = -1
    <3>1. S * k = -S
      BY <1>1, <2>11
    <3>2. x - y = d - S
      BY <1>1, <1>2, <2>8, <3>1
    <3>3. QED
      BY <1>1, <1>2, <2>4, <3>2
  <2>12. QED
    BY <1>1, <2>9, <2>10, <2>11
<1>5. QED
  BY <1>1, <1>3, <1>4

(* The run of held packets that starts at n ends where one is not held.    *)
LEMMA RunEnds ==
    ASSUME NEW n \in 1 .. Len(Layout) + 1, NEW held \in SUBSET Packets
    PROVE  /\ RunEnd(n, held) \in n .. Len(Layout) + 1
           /\ RunEnd(n, held) \notin held /\ n .. RunEnd(n, held) - 1 \subseteq held
<1> DEFINE Free == {e \in n .. Len(Layout) + 1 : e \notin held}
<1>1. Len(Layout) + 1 \in Free /\ Free \in SUBSET Nat
  BY PacketNumbers
<1>2. PICK e \in Free : \A k \in Free : e <= k
  BY <1>1, LeastNumber
<1>3. e \in n .. Len(Layout) + 1 /\ e \notin held /\ n .. e - 1 \subseteq held
  BY <1>2, PacketNumbers
<1> DEFINE Ends(x) == x \notin held /\ n .. x - 1 \subseteq held
<1>4. \E x \in n .. Len(Layout) + 1 : Ends(x)
  BY <1>3
<1>5. RunEnd(n, held) = CHOOSE x \in n .. Len(Layout) + 1 : Ends(x)
  BY DEF RunEnd
<1> HIDE DEF Ends
<1>6. RunEnd(n, held) \in n .. Len(Layout) + 1 /\ Ends(RunEnd(n, held))
  BY <1>4, <1>5
<1>7. QED
  BY <1>6 DEF Ends

-----------------------------------------------------------------------------
(* What the buffer holds is ahead of the next number, and the last one     *)
(* handed on before it.                                                    *)
BufferOK ==
    /\ started \in BOOLEAN /\ next \in 1 .. Len(Layout) + 1 /\ pending \in SUBSET Packets
    /\ \A m \in pending : m > next
    /\ waited \in 0 .. MaxWait
    /\ ~started => pending = {} /\ prev = 0
    /\ prev \in 0 .. Len(Layout) /\ prev < next

(* A push hands on consecutive packets, from one not before the next       *)
(* number, and leaves a buffer that holds what comes after them.           *)
Handed(o, a) ==
    /\ a \in 1 .. o.next /\ o.next \in 1 .. Len(Layout) + 1
    /\ o.out = [i \in 1 .. o.next - a |-> a + i - 1]
    /\ o.pending \in SUBSET Packets /\ \A m \in o.pending : m > o.next
    /\ o.waited \in 0 .. MaxWait

(* Draining hands on the run that starts at n.                             *)
LEMMA DrainStretch ==
    ASSUME NEW n \in 1 .. Len(Layout) + 1, NEW held \in SUBSET Packets, NEW wait \in 0 .. MaxWait
    PROVE  Handed(Drain(n, held, wait), n) /\ Drain(n, held, wait).next >= n
<1> DEFINE e == RunEnd(n, held)
           d == Drain(n, held, wait)
<1>1. e \in n .. Len(Layout) + 1 /\ e \notin held
  BY RunEnds
<1>2. d.out = Run(n, held) /\ d.next = e /\ d.pending = {m \in held : m >= e} /\ d.waited = wait
  BY DEF Drain, Outcome
<1>3. d.out = [i \in 1 .. e - n |-> n + i - 1]
  BY <1>2 DEF Run
<1> HIDE DEF d, e
<1>4. n \in 1 .. e /\ e \in 1 .. Len(Layout) + 1 /\ e >= n /\ e \in Nat
  BY <1>1, PacketNumbers
<1>5. ASSUME NEW m \in d.pending
      PROVE  m > e
  <2>0. m \in {k \in held : k >= e}
    BY <1>2
  <2>1. m \in held /\ m >= e /\ m \in Nat
    BY <2>0, PacketNumbers
  <2>2. m # e
    BY <1>1, <2>1
  <2>3. QED
    BY <1>4, <2>1, <2>2
<1>6. d.pending \in SUBSET Packets
  BY <1>2
<1>7. QED
  BY <1>2, <1>3, <1>4, <1>5, <1>6 DEF Handed, d

(* So does giving one number up and draining after it.                     *)
LEMMA GiveUpStretch ==
    ASSUME NEW n \in Packets, NEW held \in SUBSET Packets, NEW wait \in 0 .. MaxWait
    PROVE  Handed(GiveUpAndDrain(n, held, wait), n + 1) /\ GiveUpAndDrain(n, held, wait).next >= n + 1
<1> DEFINE d == Drain(n + 1, held, wait)
           o == GiveUpAndDrain(n, held, wait)
<1>1. n + 1 \in 1 .. Len(Layout) + 1
  BY PacketNumbers
<1>2. Handed(d, n + 1) /\ d.next >= n + 1
  BY <1>1, DrainStretch
<1>3. o.out = d.out /\ o.next = d.next /\ o.pending = d.pending /\ (o.waited = 0 \/ o.waited = d.waited)
  BY DEF GiveUpAndDrain, Drain, Outcome
<1>4. 0 \in 0 .. MaxWait
  BY ExtractorAssumption
<1> HIDE DEF d, o
<1>5. QED
  BY <1>2, <1>3, <1>4 DEF Handed, o

(* Every case of push does, or hands on nothing.                           *)
LEMMA PushStretch ==
    ASSUME BufferOK, NEW n \in Packets
    PROVE  \E a \in Nat : /\ Handed(Push(n), a) /\ a > prev
                          /\ started => Push(n).next >= next
<1> DEFINE first == IF started THEN next ELSE n
           held == pending \cup {n}
           wait == IF pending = {} THEN 0 ELSE waited
           full == Cardinality(held) >= MaxHold \/ wait >= MaxWait
           delta == Delta(n, first)
<1>1. /\ n \in 1 .. Len(Layout) /\ Len(Layout) \in Nat /\ next \in 1 .. Len(Layout) + 1
      /\ first \in 1 .. Len(Layout) + 1 /\ held \in SUBSET Packets /\ wait \in 0 .. MaxWait
      /\ waited \in 0 .. MaxWait /\ pending \in SUBSET Packets
  BY PacketNumbers, ExtractorAssumption DEF BufferOK
<1>2. first > prev /\ (started => first = next) /\ (~started => n = first)
  <2>1. ~started => prev = 0
    BY DEF BufferOK
  <2>2. QED
    BY <1>1, <2>1 DEF BufferOK
<1>3. \A m \in pending : m > first
  BY DEF BufferOK
<1>4. delta = n - first
  BY <1>1, DeltaIsDistance
<1>5. Push(n) = CASE delta < 0 -> Outcome(<<>>, first, pending, waited)
                  [] delta = 0 -> Drain(n, held, waited)
                  [] delta > 0 /\ full -> GiveUpAndDrain(first, held, wait)
                  [] OTHER -> Outcome(<<>>, first, held, wait)
  BY DEF Push
<1>6. prev \in Nat /\ first \in Nat /\ n \in Nat
  BY <1>1 DEF BufferOK
<1> HIDE DEF first, held, wait, full, delta
<1>7. ASSUME NEW h \in SUBSET Packets, NEW w \in 0 .. MaxWait, \A m \in h : m > first,
             Push(n) = Outcome(<<>>, first, h, w)
      PROVE  Handed(Push(n), first) /\ Push(n).next >= first
  <2>1. /\ Push(n).out = <<>> /\ Push(n).next = first /\ Push(n).pending = h /\ Push(n).waited = w
    BY <1>7 DEF Outcome
  <2>2. <<>> = [i \in 1 .. first - first |-> first + i - 1]
    <3>1. 1 .. first - first = {}
      BY <1>6
    <3>2. QED
      BY <3>1
  <2>3. first \in 1 .. first /\ first >= first
    BY <1>1, <1>6
  <2>4. QED
    BY <1>1, <1>7, <2>1, <2>2, <2>3 DEF Handed
<1>8. CASE delta < 0
  <2>1. Push(n) = Outcome(<<>>, first, pending, waited)
    BY <1>4, <1>5, <1>6, <1>8
  <2>2. Handed(Push(n), first) /\ Push(n).next >= first
    BY <1>1, <1>3, <1>7, <2>1
  <2>3. QED
    BY <1>2, <1>6, <2>2
<1>9. CASE delta = 0
  <2>1. Push(n) = Drain(n, held, waited) /\ n = first
    BY <1>4, <1>5, <1>6, <1>9
  <2>2. Handed(Push(n), first) /\ Push(n).next >= first
    BY <1>1, <2>1, DrainStretch
  <2>3. QED
    BY <1>2, <1>6, <2>2
<1>10. CASE delta > 0 /\ full
  <2>1. Push(n) = GiveUpAndDrain(first, held, wait) /\ n > first
    BY <1>4, <1>5, <1>6, <1>10
  <2>2. first \in Packets
    BY <1>1, <1>6, <2>1, PacketNumbers
  <2>3. Handed(Push(n), first + 1) /\ Push(n).next >= first + 1
    BY <1>1, <2>1, <2>2, GiveUpStretch
  <2>4. first + 1 \in Nat /\ first + 1 > prev /\ Push(n).next \in Nat
    BY <1>1, <1>2, <1>6, <2>3 DEF Handed
  <2>5. Push(n).next >= first
    BY <1>6, <2>3, <2>4
  <2>6. QED
    BY <1>2, <2>3, <2>4, <2>5
<1>11. CASE delta > 0 /\ ~full
  <2>1. Push(n) = Outcome(<<>>, first, held, wait) /\ n > first
    BY <1>4, <1>5, <1>6, <1>11
  <2>2. \A m \in held : m > first
    BY <1>3, <2>1 DEF held
  <2>3. Handed(Push(n), first) /\ Push(n).next >= first
    BY <1>1, <1>7, <2>1, <2>2
  <2>4. QED
    BY <1>2, <1>6, <2>3
<1>12. delta < 0 \/ delta = 0 \/ delta > 0
  BY <1>4, <1>6
<1>13. QED
  BY <1>8, <1>9, <1>10, <1>11, <1>12

-----------------------------------------------------------------------------
(* The assembly's state as a record.                                       *)
PictureRecord ==
    [prev : 0 .. Len(Layout), lost : Nat, picBuf : Seq(Seq(Packets)), fua : Seq(Packets),
     corrupted : BOOLEAN, idr : Seq(Seq(Packets)), pliWait : 0 .. MinPLI,
     delivered : SUBSET Packets, disordered : BOOLEAN]

(* The last packet handed on, and the count of those that were not before. *)
CountOK(f) ==
    /\ ~f.disordered
    /\ f.prev = 0 => f.delivered = {} /\ f.lost = 0
    /\ f.prev # 0 =>
          /\ f.prev \in f.delivered
          /\ \E first \in f.delivered : /\ f.delivered \subseteq first .. f.prev
                                        /\ f.lost = Cardinality((first .. f.prev) \ f.delivered)

(* A NAL unit of packets up to p.                                          *)
NALTo(s, p) == IsNAL(s) /\ \A i \in DOMAIN s : s[i] <= p

NALsOK(f) ==
    /\ f.fua # NoNAL => NALTo(f.fua, f.prev) /\ Layout[f.fua[1]].part = "start"
    /\ \A i \in DOMAIN f.picBuf : NALTo(f.picBuf[i], f.prev)
    /\ \A i \in DOMAIN f.idr : NALTo(f.idr[i], f.prev)

(* Inside a fragmented NAL unit the open one is it, without a gap, ...     *)
Fragmented(n) == Layout[n].part \in {"start", "middle"}
Unbroken(s) == \A k \in 2 .. Len(s) : s[k] = s[k - 1] + 1
OpenUnit(f) ==
    (f.fua # NoNAL /\ Fragmented(f.prev)) =>
        /\ Unbroken(f.fua) /\ f.fua[Len(f.fua)] = f.prev
        /\ Layout[f.fua[1]].pic = Layout[f.prev].pic

(* ... and the units of a picture not yet ended are complete, and of the   *)
(* picture of the last packet.                                             *)
UnitsOf(nals, n) == \A i \in DOMAIN nals : IsComplete(nals[i]) /\ Layout[nals[i][1]].pic = Layout[n].pic
OpenPicture(f) ==
    f.picBuf # <<>> =>
        /\ ~Layout[f.prev].marker /\ (Fragmented(f.prev) => f.fua # NoNAL)
        /\ UnitsOf(f.picBuf, f.prev)

KeptOK(f) ==
    /\ \A i \in DOMAIN f.idr : IsComplete(f.idr[i])
    /\ \A i, j \in DOMAIN f.idr : Layout[f.idr[i][1]].pic = Layout[f.idr[j][1]].pic

Untainted(f) == ~f.corrupted => OpenUnit(f) /\ OpenPicture(f)

PictureOK(f) ==
    f \in PictureRecord /\ CountOK(f) /\ NALsOK(f) /\ KeptOK(f) /\ Untainted(f)

-----------------------------------------------------------------------------
(* The state after the gap check, the first half of ingestOrdered.         *)
Checked(f, n) == [CheckSeqGap(f, n) EXCEPT !.corrupted = @ \/ Taints(f, n)]

(* The fields of a packet.                                                 *)
LEMMA LayoutFields ==
    ASSUME NEW n \in Packets
    PROVE  Layout[n].pic \in Nat /\ Layout[n].part \in Parts /\ Layout[n].marker \in BOOLEAN
<1> DEFINE T == [pic : Nat, part : Parts, idr : BOOLEAN, marker : BOOLEAN]
<1>1. Layout \in Seq(T) /\ n \in 1 .. Len(Layout)
  BY ExtractorAssumption, PacketNumbers
<1> HIDE DEF T
<1>2. Layout[n] \in T
  BY <1>1
<1>3. QED
  BY <1>2 DEF T

(* The fields of the state.                                                *)
LEMMA RecordFields ==
    ASSUME NEW f \in PictureRecord
    PROVE  /\ f.prev \in 0 .. Len(Layout) /\ f.lost \in Nat /\ f.picBuf \in Seq(Seq(Packets))
           /\ f.fua \in Seq(Packets) /\ f.corrupted \in BOOLEAN /\ f.idr \in Seq(Seq(Packets))
           /\ f.pliWait \in 0 .. MinPLI /\ f.delivered \in SUBSET Packets /\ f.disordered \in BOOLEAN
  BY DEF PictureRecord

(* What the gap check does to it where packets come in order.              *)
LEMMA CheckedFields ==
    ASSUME NEW f \in PictureRecord, CountOK(f), NEW n \in Packets, n > f.prev
    PROVE  LET g == Checked(f, n) IN
           /\ g \in PictureRecord
           /\ g.prev = n /\ g.delivered = f.delivered \cup {n} /\ ~g.disordered
           /\ g.lost = IF f.prev # 0 /\ n - f.prev > 1 THEN f.lost + (n - f.prev) - 1 ELSE f.lost
           /\ g.picBuf = f.picBuf /\ g.fua = f.fua /\ g.idr = f.idr
           /\ g.corrupted = (f.corrupted \/ (f.prev # 0 /\ n - f.prev # 1 /\ (f.picBuf # <<>> \/ f.fua # NoNAL)))
<1> DEFINE g == Checked(f, n)
           d == Delta(n, f.prev)
           c == CheckSeqGap(f, n)
<1>1. /\ f.prev \in 0 .. Len(Layout) /\ f.lost \in Nat /\ f.delivered \in SUBSET Packets
      /\ f.corrupted \in BOOLEAN /\ f.disordered = FALSE
  BY RecordFields DEF CountOK
<1>2. f.prev \in Nat /\ n \in Nat /\ n <= Len(Layout) /\ Len(Layout) \in Nat
  BY <1>1, PacketNumbers
<1>3. f.prev # 0 => d = n - f.prev
  <2>1. f.prev # 0 => n - f.prev < Len(Layout) /\ f.prev - n <= Len(Layout)
    BY <1>2
  <2>2. QED
    BY <1>2, <2>1, DeltaIsDistance
<1>4. c = [f EXCEPT !.delivered = @ \cup {n}, !.prev = IF @ = 0 \/ d >= 1 THEN n ELSE @,
                    !.lost = IF f.prev # 0 /\ d > 1 THEN @ + d - 1 ELSE @,
                    !.disordered = @ \/ (f.prev # 0 /\ d < 1)]
  BY DEF CheckSeqGap
<1> HIDE DEF c, d
<1>5. /\ (f.prev = 0 \/ d >= 1) /\ ~(f.prev # 0 /\ d < 1)
      /\ (f.prev # 0 /\ d > 1) <=> (f.prev # 0 /\ n - f.prev > 1)
  BY <1>2, <1>3
<1> DEFINE l == IF f.prev # 0 /\ n - f.prev > 1 THEN f.lost + (n - f.prev) - 1 ELSE f.lost
<1>6. l \in Nat
  BY <1>1, <1>2
<1>7. c = [f EXCEPT !.delivered = f.delivered \cup {n}, !.prev = n, !.lost = l, !.disordered = FALSE]
  <2>1. (IF f.prev = 0 \/ d >= 1 THEN n ELSE f.prev) = n
    BY <1>5
  <2>2. (IF f.prev # 0 /\ d > 1 THEN f.lost + d - 1 ELSE f.lost) = l
    BY <1>3, <1>5
  <2>3. (f.disordered \/ (f.prev # 0 /\ d < 1)) = FALSE
    BY <1>1, <1>5
  <2> HIDE DEF l
  <2>4. QED
    BY <1>4, <2>1, <2>2, <2>3 DEF PictureRecord
<1> DEFINE t == Taints(f, n)
<1>8. t = (f.prev # 0 /\ n - f.prev # 1 /\ (f.picBuf # <<>> \/ f.fua # NoNAL))
  BY <1>3 DEF Taints, d
<1>9. g = [c EXCEPT !.corrupted = @ \/ t]
  BY DEF Checked, c
<1>10. t \in BOOLEAN /\ (f.corrupted \/ t) \in BOOLEAN
  BY <1>8
<1> HIDE DEF t, l, g
<1>11. n \in 0 .. Len(Layout) /\ f.delivered \cup {n} \in SUBSET Packets
  BY <1>1, <1>2
<1>12. c \in PictureRecord /\ c.corrupted = f.corrupted
  BY <1>6, <1>7, <1>11 DEF PictureRecord
<1>13. g \in PictureRecord
  BY <1>9, <1>10, <1>12 DEF PictureRecord
<1>14. /\ c.prev = n /\ c.delivered = f.delivered \cup {n} /\ c.disordered = FALSE /\ c.lost = l
       /\ c.picBuf = f.picBuf /\ c.fua = f.fua /\ c.idr = f.idr
  BY <1>7 DEF PictureRecord
<1>15. /\ g.prev = n /\ g.delivered = f.delivered \cup {n} /\ ~g.disordered /\ g.lost = l
       /\ g.picBuf = f.picBuf /\ g.fua = f.fua /\ g.idr = f.idr /\ g.corrupted = (f.corrupted \/ t)
  BY <1>9, <1>12, <1>14 DEF PictureRecord
<1>16. QED
  BY <1>8, <1>13, <1>15 DEF l, g

(* Exactly the packets in the gap are counted.                             *)
LEMMA CountStep ==
    ASSUME NEW f \in PictureRecord, CountOK(f), NEW n \in Packets, n > f.prev
    PROVE  CountOK(Checked(f, n))
<1> DEFINE g == Checked(f, n)
<1>1. /\ g.prev = n /\ g.delivered = f.delivered \cup {n} /\ ~g.disordered
      /\ g.lost = IF f.prev # 0 /\ n - f.prev > 1 THEN f.lost + (n - f.prev) - 1 ELSE f.lost
  BY CheckedFields
<1>2. f.prev \in Nat /\ n \in Nat \ {0} /\ f.lost \in Nat /\ f.delivered \in SUBSET Packets
  BY RecordFields, PacketNumbers
<1> SUFFICES CountOK(g)
  OBVIOUS
<1> HIDE DEF g
<1>3. CASE f.prev = 0
  <2>1. g.delivered = {n} /\ g.lost = 0
    BY <1>1, <1>3 DEF CountOK
  <2>2. n .. n = {n} /\ (n .. n) \ {n} = {}
    BY <1>2
  <2>3. Cardinality((n .. n) \ {n}) = 0
    BY <2>2, FS_EmptySet
  <2>4. QED
    BY <1>1, <1>2, <2>1, <2>2, <2>3 DEF CountOK
<1>4. CASE f.prev # 0
  <2>1. PICK first \in f.delivered : /\ f.delivered \subseteq first .. f.prev /\ f.prev \in f.delivered
                                     /\ f.lost = Cardinality((first .. f.prev) \ f.delivered)
    BY <1>4 DEF CountOK
  <2>2. first \in Nat /\ first <= f.prev
    BY <1>2, <2>1, PacketNumbers
  <2> DEFINE A == (first .. f.prev) \ f.delivered
             B == f.prev + 1 .. n - 1
  <2>3. (first .. n) \ g.delivered = A \cup B /\ A \cap B = {}
    <3>1. \A x : x \in first .. n <=> (x \in first .. f.prev \/ x \in B \/ x = n)
      BY <1>2, <2>2
    <3>2. \A x \in B : x \notin first .. f.prev /\ x # n
      BY <1>2, <2>2
    <3>3. n \notin first .. f.prev
      BY <1>2, <2>2
    <3>4. QED
      BY <1>1, <2>1, <3>1, <3>2, <3>3
  <2>4. IsFiniteSet(A) /\ IsFiniteSet(B)
    <3>0. first \in Int /\ f.prev \in Int /\ f.prev + 1 \in Int /\ n - 1 \in Int
      BY <1>2, <2>2
    <3>1. IsFiniteSet(first .. f.prev) /\ IsFiniteSet(B)
      BY <3>0, FS_Interval
    <3>2. QED
      BY <3>1, FS_Subset
  <2>5. Cardinality(B) = n - 1 - f.prev
    <3>1. f.prev + 1 \in Int /\ n - 1 \in Int
      BY <1>2
    <3>2. Cardinality(B) = IF f.prev + 1 > n - 1 THEN 0 ELSE (n - 1) - (f.prev + 1) + 1
      BY <3>1, FS_Interval
    <3>3. QED
      BY <1>2, <3>2
  <2>6. Cardinality(A \cup B) = Cardinality(A) + Cardinality(B)
    <3>1. Cardinality(A \cup B) = Cardinality(A) + Cardinality(B) - Cardinality(A \cap B)
      BY <2>4, FS_Union
    <3>2. Cardinality(A \cap B) = 0
      BY <2>3, FS_EmptySet
    <3>3. Cardinality(A) \in Nat /\ Cardinality(B) \in Nat
      BY <2>4, FS_CardinalityType
    <3>4. QED
      BY <3>1, <3>2, <3>3
  <2>7. g.lost = f.lost + (n - 1 - f.prev)
    BY <1>1, <1>2, <1>4
  <2>8. g.lost = Cardinality((first .. n) \ g.delivered)
    BY <1>2, <2>1, <2>3, <2>5, <2>6, <2>7
  <2>9. g.delivered \subseteq first .. n /\ first \in g.delivered /\ n \in g.delivered
    BY <1>1, <1>2, <2>1, <2>2, PacketNumbers
  <2>10. QED
    BY <1>1, <1>2, <2>8, <2>9 DEF CountOK
<1>5. QED
  BY <1>3, <1>4

-----------------------------------------------------------------------------
(* What the open units are worth to the packet that comes next.            *)
Ready(g, n) ==
    ~g.corrupted =>
        /\ UnitsOf(g.picBuf, n)
        /\ (Layout[n].part \in {"middle", "end"} /\ g.picBuf # <<>>) => g.fua # NoNAL
        /\ (Layout[n].part \in {"middle", "end"} /\ g.fua # NoNAL) =>
              Unbroken(g.fua) /\ g.fua[Len(g.fua)] = n - 1 /\ Layout[g.fua[1]].pic = Layout[n].pic

(* The open units lie before the packet.                                   *)
Behind(g, n) ==
    /\ g.fua # NoNAL => NALTo(g.fua, n - 1) /\ Layout[g.fua[1]].part = "start"
    /\ \A i \in DOMAIN g.picBuf : NALTo(g.picBuf[i], n)
    /\ \A i \in DOMAIN g.idr : NALTo(g.idr[i], n)

(* A NAL unit of packets up to p is a sequence of packets.                 *)
LEMMA NALFields ==
    ASSUME NEW s, NEW p \in Nat, NALTo(s, p)
    PROVE  /\ s \in Seq(Packets) /\ s # <<>> /\ Len(s) \in Nat \ {0} /\ DOMAIN s = 1 .. Len(s)
           /\ \A i \in 1 .. Len(s) : s[i] \in Packets /\ s[i] \in Nat /\ s[i] >= 1 /\ s[i] <= p
<1>1. s \in Seq(Packets) /\ s # <<>> /\ \A i \in DOMAIN s : s[i] <= p
  BY DEF NALTo, IsNAL, NoNAL
<1>2. Len(s) \in Nat \ {0} /\ DOMAIN s = 1 .. Len(s) /\ \A i \in 1 .. Len(s) : s[i] \in Packets
  BY <1>1
<1>3. QED
  BY <1>1, <1>2, PacketNumbers

(* Packets up to p are packets up to any later one.                        *)
LEMMA NALWeaker ==
    ASSUME NEW s, NEW p \in Nat, NEW q \in Nat, p <= q, NALTo(s, p)
    PROVE  NALTo(s, q)
<1>1. \A i \in DOMAIN s : s[i] \in Nat /\ s[i] <= p
  BY NALFields
<1>2. QED
  BY <1>1 DEF NALTo

(* After the gap check they are so, or the picture is tainted.             *)
LEMMA CheckedReady ==
    ASSUME NEW f, PictureOK(f), NEW n \in Packets, n > f.prev
    PROVE  LET g == Checked(f, n) IN
           /\ g \in PictureRecord /\ g.prev = n /\ CountOK(g) /\ KeptOK(g) /\ Behind(g, n) /\ Ready(g, n)
<1> DEFINE g == Checked(f, n)
<1>0. f \in PictureRecord /\ CountOK(f) /\ NALsOK(f) /\ KeptOK(f) /\ Untainted(f)
  BY DEF PictureOK
<1>1. /\ g \in PictureRecord /\ g.prev = n /\ g.picBuf = f.picBuf /\ g.fua = f.fua /\ g.idr = f.idr
      /\ g.corrupted = (f.corrupted \/ (f.prev # 0 /\ n - f.prev # 1 /\ (f.picBuf # <<>> \/ f.fua # NoNAL)))
  BY <1>0, CheckedFields
<1>2. CountOK(g)
  BY <1>0, CountStep
<1>3. /\ f.prev \in Nat /\ n \in 1 .. Len(Layout) /\ n \in Nat /\ Len(Layout) \in Nat /\ n - 1 \in Nat
      /\ f.prev <= n /\ f.prev <= n - 1
      /\ f.picBuf \in Seq(Seq(Packets)) /\ f.corrupted \in BOOLEAN
  BY <1>0, RecordFields, PacketNumbers
<1> HIDE DEF g
<1>4. KeptOK(g)
  BY <1>0, <1>1 DEF KeptOK
<1>5. Behind(g, n)
  <2>1. g.fua # NoNAL => NALTo(g.fua, n - 1) /\ Layout[g.fua[1]].part = "start"
    BY <1>0, <1>1, <1>3, NALWeaker DEF NALsOK
  <2>2. \A i \in DOMAIN g.picBuf : NALTo(g.picBuf[i], n)
    BY <1>0, <1>1, <1>3, NALWeaker DEF NALsOK
  <2>3. \A i \in DOMAIN g.idr : NALTo(g.idr[i], n)
    BY <1>0, <1>1, <1>3, NALWeaker DEF NALsOK
  <2>4. QED
    BY <2>1, <2>2, <2>3 DEF Behind
<1>6. Ready(g, n)
  <2>1. CASE g.corrupted \/ (g.picBuf = <<>> /\ g.fua = NoNAL)
    BY <1>1, <2>1 DEF Ready, UnitsOf
  <2>2. CASE ~g.corrupted /\ ~(g.picBuf = <<>> /\ g.fua = NoNAL)
    <3>1. f.prev # 0
      <4>1. CASE f.fua # NoNAL
        <5>1. NALTo(f.fua, f.prev)
          BY <1>0, <4>1 DEF NALsOK
        <5>2. 1 \in 1 .. Len(f.fua) /\ f.fua[1] \in Nat /\ f.fua[1] >= 1 /\ f.fua[1] <= f.prev
          BY <1>3, <5>1, NALFields
        <5>3. QED
          BY <1>3, <5>2
      <4>2. CASE f.picBuf # <<>>
        <5>1. 1 \in DOMAIN f.picBuf
          BY <1>3, <4>2
        <5>2. NALTo(f.picBuf[1], f.prev)
          BY <1>0, <5>1 DEF NALsOK
        <5>3. 1 \in 1 .. Len(f.picBuf[1]) /\ f.picBuf[1][1] \in Nat /\ f.picBuf[1][1] >= 1 /\ f.picBuf[1][1] <= f.prev
          BY <1>3, <5>2, NALFields
        <5>4. QED
          BY <1>3, <5>3
      <4>3. QED
        BY <1>1, <2>2, <4>1, <4>2
    <3>2. ~f.corrupted /\ n - f.prev = 1
      BY <1>1, <1>3, <2>2, <3>1
    <3>3. n - 1 = f.prev /\ n \in 2 .. Len(Layout) /\ f.prev \in Packets
      BY <1>3, <3>1, <3>2, PacketNumbers
    <3>4. OpenUnit(f) /\ OpenPicture(f)
      BY <1>0, <3>2 DEF Untainted
    <3>5. /\ Layout[n].part \in {"middle", "end"} <=> Fragmented(f.prev)
          /\ Layout[n].pic = Layout[f.prev].pic \/ Layout[f.prev].marker
          /\ Fragmented(f.prev) => ~Layout[f.prev].marker
      BY <3>3, LayoutAssumption DEF Fragmented
    <3>6. UnitsOf(g.picBuf, n)
      <4>1. CASE g.picBuf = <<>>
        BY <4>1 DEF UnitsOf
      <4>2. CASE g.picBuf # <<>>
        <5>1. Layout[n].pic = Layout[f.prev].pic /\ UnitsOf(f.picBuf, f.prev)
          BY <1>1, <3>4, <3>5, <4>2 DEF OpenPicture
        <5>2. QED
          BY <1>1, <5>1 DEF UnitsOf
      <4>3. QED
        BY <4>1, <4>2
    <3>7. (Layout[n].part \in {"middle", "end"} /\ g.picBuf # <<>>) => g.fua # NoNAL
      BY <1>1, <3>4, <3>5 DEF OpenPicture
    <3>8. (Layout[n].part \in {"middle", "end"} /\ g.fua # NoNAL) =>
              Unbroken(g.fua) /\ g.fua[Len(g.fua)] = n - 1 /\ Layout[g.fua[1]].pic = Layout[n].pic
      <4>1. SUFFICES ASSUME Layout[n].part \in {"middle", "end"}, g.fua # NoNAL
                     PROVE  Unbroken(g.fua) /\ g.fua[Len(g.fua)] = n - 1 /\ Layout[g.fua[1]].pic = Layout[n].pic
        OBVIOUS
      <4>2. Fragmented(f.prev) /\ Layout[n].pic = Layout[f.prev].pic
        BY <3>5, <4>1
      <4>3. Unbroken(f.fua) /\ f.fua[Len(f.fua)] = f.prev /\ Layout[f.fua[1]].pic = Layout[f.prev].pic
        BY <1>1, <3>4, <4>1, <4>2 DEF OpenUnit
      <4>4. QED
        BY <1>1, <3>3, <4>2, <4>3
    <3>9. QED
      BY <3>6, <3>7, <3>8 DEF Ready
  <2>3. QED
    BY <2>1, <2>2
<1>7. QED
  BY <1>1, <1>2, <1>4, <1>5, <1>6 DEF g

-----------------------------------------------------------------------------
(* What a commit changes and keeps.                                        *)
LEMMA CommitFields ==
    ASSUME NEW c \in PictureRecord, c.picBuf # <<>>
    PROVE  LET r == CommitPicture(c) IN
           /\ r \in PictureRecord /\ r.prev = c.prev /\ r.lost = c.lost /\ r.delivered = c.delivered
           /\ r.disordered = c.disordered /\ r.fua = c.fua /\ r.picBuf = <<>> /\ ~r.corrupted
           /\ r.idr = c.idr \/ (~c.corrupted /\ r.idr = c.picBuf)
<1> DEFINE r == CommitPicture(c)
<1>1. <<>> \in Seq(Seq(Packets)) /\ c.picBuf \in Seq(Seq(Packets)) /\ c.idr \in Seq(Seq(Packets)) /\ c.corrupted \in BOOLEAN
  BY RecordFields
<1>2. CASE c.corrupted
  <2> DEFINE w == IF c.pliWait = 0 THEN MinPLI ELSE c.pliWait
  <2>1. w \in 0 .. MinPLI
    <3>1. c.pliWait \in 0 .. MinPLI /\ MinPLI \in Nat
      BY RecordFields, ExtractorAssumption
    <3>2. QED
      BY <3>1
  <2>2. r = [c EXCEPT !.corrupted = FALSE, !.picBuf = <<>>, !.pliWait = w]
    BY <1>2 DEF CommitPicture
  <2> HIDE DEF w, r
  <2>3. r \in PictureRecord
    BY <1>1, <2>1, <2>2 DEF PictureRecord
  <2>4. /\ r.prev = c.prev /\ r.lost = c.lost /\ r.delivered = c.delivered /\ r.idr = c.idr
        /\ r.disordered = c.disordered /\ r.fua = c.fua /\ r.picBuf = <<>> /\ r.corrupted = FALSE
    BY <2>2 DEF PictureRecord
  <2>5. QED
    BY <2>3, <2>4 DEF r
<1>3. CASE ~c.corrupted
  <2> DEFINE k == IF HasIDR(c.picBuf) THEN c.picBuf ELSE c.idr
  <2>1. k \in Seq(Seq(Packets)) /\ (k = c.idr \/ k = c.picBuf)
    BY <1>1
  <2>2. r = [c EXCEPT !.idr = k, !.picBuf = <<>>]
    BY <1>3 DEF CommitPicture
  <2> HIDE DEF k, r
  <2>3. r \in PictureRecord
    BY <1>1, <2>1, <2>2 DEF PictureRecord
  <2>4. /\ r.prev = c.prev /\ r.lost = c.lost /\ r.delivered = c.delivered /\ r.idr = k
        /\ r.disordered = c.disordered /\ r.fua = c.fua /\ r.picBuf = <<>> /\ r.corrupted = c.corrupted
    BY <2>2 DEF PictureRecord
  <2>5. QED
    BY <1>3, <2>1, <2>3, <2>4 DEF r
<1>4. QED
  BY <1>1, <1>2, <1>3

(* What adding a NAL unit changes and keeps.                               *)
LEMMA AddFields ==
    ASSUME NEW c \in PictureRecord, NEW nal \in Seq(Packets), NEW marker \in BOOLEAN
    PROVE  LET r == AddNAL(c, nal, marker)
               buf == Append(c.picBuf, nal)
           IN  /\ r \in PictureRecord /\ r.prev = c.prev /\ r.lost = c.lost /\ r.delivered = c.delivered
               /\ r.disordered = c.disordered /\ r.fua = c.fua
               /\ \/ /\ marker /\ r.picBuf = <<>> /\ ~r.corrupted
                     /\ r.idr = c.idr \/ (~c.corrupted /\ r.idr = buf)
                  \/ ~marker /\ r.picBuf = buf /\ r.corrupted = c.corrupted /\ r.idr = c.idr
<1> DEFINE buf == Append(c.picBuf, nal)
           g == [c EXCEPT !.picBuf = buf]
           r == AddNAL(c, nal, marker)
<1>1. buf \in Seq(Seq(Packets)) /\ buf # <<>>
  <2>1. c.picBuf \in Seq(Seq(Packets))
    BY RecordFields
  <2> DEFINE S == Seq(Packets)
  <2>2. c.picBuf \in Seq(S) /\ nal \in S
    BY <2>1
  <2> HIDE DEF S
  <2>3. Append(c.picBuf, nal) \in Seq(S) /\ Len(Append(c.picBuf, nal)) = Len(c.picBuf) + 1 /\ Len(c.picBuf) \in Nat
    BY <2>2
  <2>4. Append(c.picBuf, nal) # <<>>
    BY <2>3
  <2>5. QED
    BY <2>3, <2>4 DEF S
<1>2. r = IF marker THEN CommitPicture(g) ELSE g
  BY DEF AddNAL
<1> HIDE DEF buf, g, r
<1>3. /\ g \in PictureRecord /\ g.picBuf = buf /\ g.prev = c.prev /\ g.lost = c.lost /\ g.delivered = c.delivered
      /\ g.disordered = c.disordered /\ g.fua = c.fua /\ g.corrupted = c.corrupted /\ g.idr = c.idr
  BY <1>1 DEF PictureRecord, g
<1>4. CASE marker
  <2> DEFINE t == CommitPicture(g)
  <2>1. /\ t \in PictureRecord /\ t.prev = g.prev /\ t.lost = g.lost /\ t.delivered = g.delivered
        /\ t.disordered = g.disordered /\ t.fua = g.fua /\ t.picBuf = <<>> /\ ~t.corrupted
        /\ t.idr = g.idr \/ (~g.corrupted /\ t.idr = g.picBuf)
    BY <1>1, <1>3, CommitFields
  <2>2. r = t
    BY <1>2, <1>4
  <2> HIDE DEF t
  <2>3. QED
    BY <1>3, <1>4, <2>1, <2>2 DEF r, buf
<1>5. CASE ~marker
  <2>1. r = g
    BY <1>2, <1>5
  <2>2. QED
    BY <1>3, <1>5, <2>1 DEF r, buf
<1>6. QED
  BY <1>4, <1>5

-----------------------------------------------------------------------------
(* The count depends on what was handed on alone.                          *)
LEMMA SameCount ==
    ASSUME NEW g, NEW h, CountOK(g), h.prev = g.prev, h.lost = g.lost,
           h.delivered = g.delivered, h.disordered = g.disordered
    PROVE  CountOK(h)
  BY DEF CountOK

(* A unit that ends with the packet n joins the picture of that packet.    *)
LEMMA UnitAdded ==
    ASSUME NEW c \in PictureRecord, NEW n \in Packets, c.prev = n, ~Fragmented(n),
           CountOK(c), KeptOK(c), ~c.corrupted => UnitsOf(c.picBuf, n),
           c.fua # NoNAL => NALTo(c.fua, n) /\ Layout[c.fua[1]].part = "start",
           \A i \in DOMAIN c.picBuf : NALTo(c.picBuf[i], n),
           \A i \in DOMAIN c.idr : NALTo(c.idr[i], n),
           NEW nal, NALTo(nal, n),
           ~c.corrupted => IsComplete(nal) /\ Layout[nal[1]].pic = Layout[n].pic
    PROVE  PictureOK(AddNAL(c, nal, Layout[n].marker)) /\ AddNAL(c, nal, Layout[n].marker).prev = n
<1> DEFINE buf == Append(c.picBuf, nal)
           r == AddNAL(c, nal, Layout[n].marker)
<1>1. nal \in Seq(Packets) /\ Layout[n].marker \in BOOLEAN /\ n \in Nat
  BY LayoutFields, PacketNumbers DEF NALTo, IsNAL
<1>2. /\ r \in PictureRecord /\ r.prev = n /\ r.lost = c.lost /\ r.delivered = c.delivered
      /\ r.disordered = c.disordered /\ r.fua = c.fua
      /\ \/ /\ Layout[n].marker /\ r.picBuf = <<>> /\ ~r.corrupted
            /\ r.idr = c.idr \/ (~c.corrupted /\ r.idr = buf)
         \/ ~Layout[n].marker /\ r.picBuf = buf /\ r.corrupted = c.corrupted /\ r.idr = c.idr
  BY <1>1, AddFields
<1> HIDE DEF r
<1>3. /\ DOMAIN buf = 1 .. Len(c.picBuf) + 1 /\ Len(c.picBuf) \in Nat
      /\ \A i \in DOMAIN buf : (i \in DOMAIN c.picBuf /\ buf[i] = c.picBuf[i]) \/ buf[i] = nal
  <2>1. c.picBuf \in Seq(Seq(Packets))
    BY RecordFields
  <2> DEFINE S == Seq(Packets)
  <2>2. c.picBuf \in Seq(S) /\ nal \in S
    BY <1>1, <2>1
  <2> HIDE DEF S
  <2>3. /\ Len(c.picBuf) \in Nat /\ DOMAIN buf = 1 .. Len(c.picBuf) + 1 /\ DOMAIN c.picBuf = 1 .. Len(c.picBuf)
        /\ buf[Len(c.picBuf) + 1] = nal /\ \A i \in 1 .. Len(c.picBuf) : buf[i] = c.picBuf[i]
    BY <2>2
  <2> HIDE DEF buf
  <2>4. QED
    BY <2>3
<1> HIDE DEF buf
<1>4. \A i \in DOMAIN buf : NALTo(buf[i], n)
  BY <1>3
<1>5. ~c.corrupted => UnitsOf(buf, n)
  BY <1>3 DEF UnitsOf
<1>6. CountOK(r)
  BY <1>2, SameCount
<1>7. NALsOK(r)
  <2>1. \A i \in DOMAIN r.picBuf : NALTo(r.picBuf[i], n)
    BY <1>2, <1>4
  <2>2. \A i \in DOMAIN r.idr : NALTo(r.idr[i], n)
    BY <1>2, <1>4
  <2>3. QED
    BY <1>2, <2>1, <2>2 DEF NALsOK
<1>8. KeptOK(r)
  <2>1. CASE r.idr = c.idr
    BY <2>1 DEF KeptOK
  <2>2. CASE ~c.corrupted /\ r.idr = buf
    BY <1>5, <2>2 DEF KeptOK, UnitsOf
  <2>3. QED
    BY <1>2, <2>1, <2>2
<1>9. Untainted(r)
  <2>1. OpenUnit(r)
    BY <1>2 DEF OpenUnit
  <2>2. ~r.corrupted => OpenPicture(r)
    BY <1>2, <1>5 DEF OpenPicture
  <2>3. QED
    BY <2>1, <2>2 DEF Untainted
<1>10. PictureOK(r)
  BY <1>2, <1>6, <1>7, <1>8, <1>9 DEF PictureOK
<1>11. QED
  BY <1>2, <1>10 DEF r

(* A fragment after those before it.                                       *)
LEMMA PartsGrow ==
    ASSUME NEW s, NEW n \in Packets, NALTo(s, n - 1)
    PROVE  /\ NALTo(Append(s, n), n) /\ Append(s, n)[1] = s[1] /\ Append(s, n) # <<>>
           /\ Append(s, n)[Len(Append(s, n))] = n
           /\ (Unbroken(s) /\ s[Len(s)] = n - 1) => Unbroken(Append(s, n))
<1> DEFINE t == Append(s, n)
<1>1. n \in Nat /\ n - 1 \in Nat
  BY PacketNumbers
<1>2. /\ s \in Seq(Packets) /\ s # <<>> /\ Len(s) \in Nat \ {0} /\ DOMAIN s = 1 .. Len(s)
      /\ \A i \in 1 .. Len(s) : s[i] \in Nat /\ s[i] <= n - 1
  BY <1>1, NALFields
<1>3. /\ t \in Seq(Packets) /\ Len(t) = Len(s) + 1 /\ DOMAIN t = 1 .. Len(s) + 1
      /\ t[Len(s) + 1] = n /\ \A i \in 1 .. Len(s) : t[i] = s[i]
  BY <1>2
<1>4. \A i \in 2 .. Len(s) : s[i] > s[i - 1]
  BY DEF NALTo, IsNAL
<1> HIDE DEF t
<1>5. \A i \in 1 .. Len(s) + 1 : t[i] <= n
  <2>1. TAKE i \in 1 .. Len(s) + 1
  <2>2. CASE i = Len(s) + 1
    BY <1>1, <1>3, <2>2
  <2>3. CASE i \in 1 .. Len(s)
    <3>1. t[i] = s[i] /\ s[i] \in Nat /\ s[i] <= n - 1
      BY <1>2, <1>3, <2>3
    <3>2. QED
      BY <1>1, <3>1
  <2>4. QED
    BY <1>2, <2>2, <2>3
<1>6. ASSUME NEW i \in 2 .. Len(s) + 1
      PROVE  t[i] > t[i - 1] /\ ((Unbroken(s) /\ s[Len(s)] = n - 1) => t[i] = t[i - 1] + 1)
  <2>1. CASE i = Len(s) + 1
    <3>1. t[i] = n /\ i - 1 = Len(s) /\ Len(s) \in 1 .. Len(s)
      BY <1>2, <1>3, <2>1
    <3>2. t[i - 1] = s[Len(s)] /\ s[Len(s)] \in Nat /\ s[Len(s)] <= n - 1
      BY <1>2, <1>3, <3>1
    <3>3. QED
      BY <1>1, <3>1, <3>2
  <2>2. CASE i \in 2 .. Len(s)
    <3>1. i \in 1 .. Len(s) /\ i - 1 \in 1 .. Len(s)
      BY <1>2, <2>2
    <3>2. t[i] = s[i] /\ t[i - 1] = s[i - 1]
      BY <1>3, <3>1
    <3>3. QED
      BY <1>4, <2>2, <3>2 DEF Unbroken
  <2>3. QED
    BY <1>2, <2>1, <2>2
<1>7. NALTo(t, n)
  <2>1. t # NoNAL
    BY <1>2, <1>3 DEF NoNAL
  <2>2. QED
    BY <1>3, <1>5, <1>6, <2>1 DEF NALTo, IsNAL
<1>8. (Unbroken(s) /\ s[Len(s)] = n - 1) => Unbroken(t)
  BY <1>3, <1>6 DEF Unbroken
<1>9. t[1] = s[1] /\ t # <<>> /\ t[Len(t)] = n
  <2>1. 1 \in 1 .. Len(s)
    BY <1>2
  <2>2. QED
    BY <1>2, <1>3, <2>1
<1>10. QED
  BY <1>7, <1>8, <1>9 DEF t

(* A packet alone is a NAL unit.                                           *)
LEMMA OnePacketUnit ==
    ASSUME NEW n \in Packets
    PROVE  NALTo(<<n>>, n) /\ <<n>> # NoNAL /\ Unbroken(<<n>>) /\ <<n>>[1] = n /\ <<n>>[Len(<<n>>)] = n
<1>1. n \in Nat
  BY PacketNumbers
<1>2. <<n>> \in Seq(Packets) /\ Len(<<n>>) = 1 /\ DOMAIN <<n>> = 1 .. 1 /\ <<n>>[1] = n /\ 2 .. 1 = {}
  OBVIOUS
<1>3. QED
  BY <1>1, <1>2 DEF NALTo, IsNAL, Unbroken, NoNAL

-----------------------------------------------------------------------------
(* Every kind of packet keeps the invariant of the assembly.               *)
LEMMA PayloadStep ==
    ASSUME NEW g \in PictureRecord, NEW n \in Packets, g.prev = n,
           CountOK(g), KeptOK(g), Behind(g, n), Ready(g, n)
    PROVE  PictureOK(IngestPayload(g, n)) /\ IngestPayload(g, n).prev = n
<1> DEFINE part == Layout[n].part
           grown == Append(g.fua, n)
           r == IngestPayload(g, n)
<1>1. part \in {"whole", "start", "middle", "end"} /\ n \in Nat /\ n - 1 \in Nat /\ n - 1 <= n
  BY LayoutFields, PacketNumbers DEF Parts
<1>2. /\ g.fua \in Seq(Packets) /\ g.picBuf \in Seq(Seq(Packets))
  BY RecordFields
<1>3. /\ g.fua # NoNAL => NALTo(g.fua, n) /\ NALTo(g.fua, n - 1) /\ Layout[g.fua[1]].part = "start"
      /\ \A i \in DOMAIN g.picBuf : NALTo(g.picBuf[i], n)
      /\ \A i \in DOMAIN g.idr : NALTo(g.idr[i], n)
  BY <1>1, NALWeaker DEF Behind
<1>4. /\ NALTo(<<n>>, n) /\ <<n>> # NoNAL /\ Unbroken(<<n>>) /\ <<n>>[1] = n /\ <<n>>[Len(<<n>>)] = n
      /\ <<n>> \in Seq(Packets)
  BY OnePacketUnit
<1> DEFINE parts == IF part = "start" THEN <<n>> ELSE grown
           whole == AddNAL(g, <<n>>, Layout[n].marker)
           closed == [g EXCEPT !.fua = NoNAL]
           ended == AddNAL(closed, parts, Layout[n].marker)
           opened == [g EXCEPT !.fua = parts]
<1>5. r = CASE part = "whole" -> whole
            [] part # "whole" /\ part # "start" /\ g.fua = NoNAL -> g
            [] part = "end" /\ g.fua # NoNAL -> ended
            [] OTHER -> opened
  BY DEF IngestPayload
<1> SUFFICES PictureOK(r) /\ r.prev = n
  OBVIOUS
<1> HIDE DEF r, whole, ended, opened, closed, parts, grown
<1>6. CASE part = "whole"
  <2>1. r = whole
    BY <1>5, <1>6
  <2>2. ~Fragmented(n) /\ IsComplete(<<n>>)
    BY <1>4, <1>6 DEF Fragmented, IsComplete, Unbroken
  <2>3. PictureOK(whole) /\ whole.prev = n
    <3>1. ~g.corrupted => UnitsOf(g.picBuf, n)
      BY DEF Ready
    <3>2. QED
      BY <1>3, <1>4, <2>2, <3>1, UnitAdded DEF whole
  <2>4. QED
    BY <2>1, <2>3
<1>7. CASE part \in {"middle", "end"} /\ g.fua = NoNAL
  <2>1. r = g
    BY <1>5, <1>7
  <2>2. ~g.corrupted => g.picBuf = <<>>
    BY <1>7 DEF Ready
  <2>3. Untainted(g)
    BY <1>7, <2>2 DEF Untainted, OpenUnit, OpenPicture
  <2>4. NALsOK(g)
    BY <1>3 DEF NALsOK
  <2>5. QED
    BY <2>1, <2>3, <2>4 DEF PictureOK
<1>8. CASE part = "end" /\ g.fua # NoNAL
  <2>1. r = ended /\ parts = grown
    BY <1>5, <1>8 DEF parts
  <2>2. /\ NALTo(grown, n) /\ grown[1] = g.fua[1] /\ grown # <<>> /\ grown[Len(grown)] = n
        /\ (Unbroken(g.fua) /\ g.fua[Len(g.fua)] = n - 1) => Unbroken(grown)
    BY <1>3, <1>8, PartsGrow DEF grown
  <2>3. /\ closed \in PictureRecord /\ closed.fua = NoNAL /\ closed.prev = n
        /\ closed.lost = g.lost /\ closed.delivered = g.delivered /\ closed.disordered = g.disordered
        /\ closed.picBuf = g.picBuf /\ closed.idr = g.idr /\ closed.corrupted = g.corrupted
    <3>1. NoNAL \in Seq(Packets)
      BY DEF NoNAL
    <3>2. QED
      BY <3>1 DEF PictureRecord, closed
  <2>4. CountOK(closed) /\ KeptOK(closed)
    BY <2>3, SameCount DEF KeptOK
  <2>5. ~g.corrupted => IsComplete(grown) /\ Layout[grown[1]].pic = Layout[n].pic
    BY <1>3, <1>8, <2>2 DEF Ready, IsComplete, Unbroken
  <2>6. ~closed.corrupted => UnitsOf(closed.picBuf, n)
    BY <2>3 DEF Ready
  <2>7. ~Fragmented(n)
    BY <1>8 DEF Fragmented
  <2>8. PictureOK(ended) /\ ended.prev = n
    BY <1>3, <2>1, <2>2, <2>3, <2>4, <2>5, <2>6, <2>7, UnitAdded DEF ended
  <2>9. QED
    BY <2>1, <2>8
<1>9. CASE part = "start" \/ (part = "middle" /\ g.fua # NoNAL)
  <2>1. r = opened
    BY <1>5, <1>9
  <2>2. /\ NALTo(parts, n) /\ Layout[parts[1]].part = "start" /\ parts[Len(parts)] = n /\ parts # NoNAL
        /\ ~g.corrupted => Unbroken(parts) /\ Layout[parts[1]].pic = Layout[n].pic
    <3>1. CASE part = "start"
      <4>1. parts = <<n>>
        BY <3>1 DEF parts
      <4>2. QED
        BY <1>4, <3>1, <4>1
    <3>2. CASE part = "middle" /\ g.fua # NoNAL
      <4>1. parts = grown
        BY <3>2 DEF parts
      <4>2. /\ NALTo(grown, n) /\ grown[1] = g.fua[1] /\ grown # <<>> /\ grown[Len(grown)] = n
            /\ (Unbroken(g.fua) /\ g.fua[Len(g.fua)] = n - 1) => Unbroken(grown)
        BY <1>3, <3>2, PartsGrow DEF grown
      <4>3. ~g.corrupted => Unbroken(g.fua) /\ g.fua[Len(g.fua)] = n - 1 /\ Layout[g.fua[1]].pic = Layout[n].pic
        BY <3>2 DEF Ready
      <4>4. QED
        BY <1>3, <3>2, <4>1, <4>2, <4>3 DEF NoNAL
    <3>3. QED
      BY <1>9, <3>1, <3>2
  <2>3. /\ opened \in PictureRecord /\ opened.fua = parts /\ opened.prev = n
        /\ opened.lost = g.lost /\ opened.delivered = g.delivered /\ opened.disordered = g.disordered
        /\ opened.picBuf = g.picBuf /\ opened.idr = g.idr /\ opened.corrupted = g.corrupted
    <3>1. parts \in Seq(Packets)
      BY <2>2 DEF NALTo, IsNAL
    <3>2. QED
      BY <3>1 DEF PictureRecord, opened
  <2>4. CountOK(opened) /\ KeptOK(opened)
    BY <2>3, SameCount DEF KeptOK
  <2>5. NALsOK(opened)
    BY <1>3, <2>2, <2>3 DEF NALsOK
  <2>6. ~Layout[n].marker
    BY <1>9, LayoutAssumption
  <2>7. Untainted(opened)
    <3>1. ~g.corrupted => UnitsOf(g.picBuf, n)
      BY DEF Ready
    <3>2. QED
      BY <2>2, <2>3, <2>6, <3>1 DEF Untainted, OpenUnit, OpenPicture
  <2>8. QED
    BY <2>1, <2>3, <2>4, <2>5, <2>7 DEF PictureOK
<1>10. QED
  BY <1>1, <1>6, <1>7, <1>8, <1>9

(* So does a packet after its gap check.                                   *)
LEMMA IngestStep ==
    ASSUME NEW f, PictureOK(f), NEW n \in Packets, n > f.prev
    PROVE  PictureOK(IngestOrdered(f, n)) /\ IngestOrdered(f, n).prev = n
<1> DEFINE g == Checked(f, n)
<1>1. g \in PictureRecord /\ g.prev = n /\ CountOK(g) /\ KeptOK(g) /\ Behind(g, n) /\ Ready(g, n)
  BY CheckedReady
<1>2. IngestOrdered(f, n) = IngestPayload(g, n)
  BY DEF IngestOrdered, Checked
<1> HIDE DEF g
<1>3. QED
  BY <1>1, <1>2, PayloadStep

-----------------------------------------------------------------------------
(* The packets of a push, one after the other.                             *)
IsIngest(g, f, out, k) == g = [i \in 0 .. k |-> IF i = 0 THEN f ELSE IngestOrdered(g[i - 1], out[i])]

(* The folded states exist, so Ingested is what its recursion says.        *)
LEMMA IngestExists ==
    ASSUME NEW f, NEW out, NEW n \in Nat
    PROVE  \E g : IsIngest(g, f, out, n)
<1> DEFINE Without == {m \in Nat : ~ \E g : IsIngest(g, f, out, m)}
<1>1. SUFFICES ASSUME Without # {}
               PROVE  FALSE
  BY <1>1
<1>2. PICK m \in Without : \A k \in Without : m <= k
  BY <1>1, LeastNumber
<1>3. m \in Nat /\ ~ \E g : IsIngest(g, f, out, m)
  BY <1>2
<1>4. CASE m = 0
  <2>1. IsIngest([i \in 0 .. 0 |-> f], f, out, 0)
    BY DEF IsIngest
  <2>2. QED
    BY <1>3, <1>4, <2>1
<1>5. CASE m > 0
  <2>1. m - 1 \in Nat /\ m - 1 \notin Without
    BY <1>2, <1>3, <1>5
  <2>2. PICK g : IsIngest(g, f, out, m - 1)
    BY <2>1
  <2> DEFINE h == [i \in 0 .. m |-> IF i = m THEN IngestOrdered(g[m - 1], out[m]) ELSE g[i]]
  <2>3. \A i \in 0 .. m - 1 : g[i] = IF i = 0 THEN f ELSE IngestOrdered(g[i - 1], out[i])
    BY <2>2 DEF IsIngest
  <2>4. \A i \in 0 .. m : h[i] = IF i = 0 THEN f ELSE IngestOrdered(h[i - 1], out[i])
    <3>1. TAKE i \in 0 .. m
    <3>2. CASE i = m
      <4>1. h[i] = IngestOrdered(g[m - 1], out[m]) /\ h[m - 1] = g[m - 1]
        BY <1>3, <1>5, <3>2
      <4>2. QED
        BY <1>5, <3>2, <4>1
    <3>3. CASE i = 0
      BY <1>3, <1>5, <2>3, <3>3
    <3>4. CASE i \in 1 .. m - 1
      <4>1. h[i] = g[i] /\ h[i - 1] = g[i - 1] /\ i # 0
        BY <1>3, <3>4
      <4>2. g[i] = IngestOrdered(g[i - 1], out[i])
        BY <1>3, <2>3, <3>4
      <4>3. QED
        BY <4>1, <4>2
    <3>5. QED
      BY <1>3, <3>2, <3>3, <3>4
  <2>5. IsIngest(h, f, out, m)
    BY <2>4 DEF IsIngest
  <2>6. QED
    BY <1>3, <2>5
<1>6. QED
  BY <1>3, <1>4, <1>5

(* A whole stretch of packets keeps the invariant.                         *)
LEMMA IngestedOK ==
    ASSUME PictureOK(Picture), NEW a \in Nat, NEW e \in Nat, a <= e, a > prev, e <= Len(Layout) + 1,
           NEW out, out = [i \in 1 .. e - a |-> a + i - 1]
    PROVE  PictureOK(Ingested(out)) /\ (Ingested(out).prev = prev \/ Ingested(out).prev < e)
<1> DEFINE g == CHOOSE h : IsIngest(h, Picture, out, Len(out))
           k == Len(out)
<1>0. prev \in Nat /\ Picture.prev = prev /\ Len(Layout) \in Nat
  <2>1. Picture.prev = prev
    BY DEF Picture
  <2>2. QED
    BY <2>1, RecordFields, PacketNumbers DEF PictureOK
<1>1. k = e - a /\ k \in Nat
  BY <1>0
<1>2. IsIngest(g, Picture, out, k)
  BY <1>1, IngestExists
<1>3. Ingested(out) = g[k]
  BY DEF Ingested, IsIngest
<1> HIDE DEF g
<1>4. \A i \in 0 .. k : g[i] = IF i = 0 THEN Picture ELSE IngestOrdered(g[i - 1], out[i])
  BY <1>2 DEF IsIngest
<1> HIDE DEF k
<1> DEFINE Good(i) == PictureOK(g[i]) /\ g[i].prev = IF i = 0 THEN prev ELSE a + i - 1
           Bad == {i \in 0 .. k : ~Good(i)}
<1>5. Bad = {}
  <2>1. SUFFICES ASSUME Bad # {}
                 PROVE  FALSE
    OBVIOUS
  <2>2. Bad \in SUBSET Nat
    OBVIOUS
  <2>3. PICK i \in Bad : \A j \in Bad : i <= j
    BY <2>1, <2>2, LeastNumber
  <2>4. CASE i = 0
    <3>0. 0 \in 0 .. k
      BY <1>1
    <3>1. g[0] = Picture
      BY <1>4, <3>0
    <3>2. Good(0)
      BY <1>0, <3>1
    <3>3. QED
      BY <2>3, <2>4, <3>2
  <2>5. CASE i \in 1 .. k
    <3>1. i - 1 \in 0 .. k /\ ~(i <= i - 1) /\ i \in Nat /\ i # 0
      BY <1>1, <2>5
    <3>2. Good(i - 1)
      BY <2>3, <3>1
    <3>3. g[i] = IngestOrdered(g[i - 1], a + i - 1)
      BY <1>1, <1>4, <2>5, <3>1
    <3>4. a + i - 1 \in Packets /\ a + i - 1 > g[i - 1].prev
      BY <1>0, <1>1, <2>5, <3>2, PacketNumbers
    <3>5. PictureOK(g[i]) /\ g[i].prev = a + i - 1
      BY <3>2, <3>3, <3>4, IngestStep
    <3>6. QED
      BY <2>3, <3>1, <3>5
  <2>6. QED
    BY <1>1, <2>3, <2>4, <2>5
<1>6. Good(k)
  BY <1>1, <1>5
<1>7. k = 0 \/ a + k - 1 < e
  BY <1>1
<1>8. QED
  BY <1>3, <1>6, <1>7

-----------------------------------------------------------------------------
(* The history of what is known to be missing.                             *)
ClocksOK == missing \in [Packets -> -1 .. MaxWait] /\ early \in BOOLEAN
ExtractorInv == BufferOK /\ PictureOK(Picture) /\ ClocksOK

(* Nothing has arrived at first.                                           *)
LEMMA ExtractorInvInit == ExtractorInit => ExtractorInv
<1> SUFFICES ASSUME ExtractorInit
             PROVE  ExtractorInv
  OBVIOUS
<1> USE DEF ExtractorInit
<1>1. Len(Layout) \in Nat /\ MaxWait \in Nat /\ MinPLI \in Nat
  BY PacketNumbers, ExtractorAssumption
<1>0. /\ 0 \in 0 .. Len(Layout) /\ 1 \in 1 .. Len(Layout) + 1 /\ 0 \in 0 .. MaxWait /\ 0 \in 0 .. MinPLI
       /\ -1 \in -1 .. MaxWait
  BY <1>1
<1>2. BufferOK
  <2>1. pending \in SUBSET Packets /\ \A m \in pending : m > next
    OBVIOUS
  <2>2. prev < next
    OBVIOUS
  <2>3. QED
    BY <1>0, <2>1, <2>2 DEF BufferOK
<1>3. /\ Picture.prev = 0 /\ Picture.lost = 0 /\ Picture.picBuf = <<>> /\ Picture.fua = NoNAL
      /\ Picture.corrupted = FALSE /\ Picture.idr = <<>> /\ Picture.pliWait = 0
      /\ Picture.delivered = {} /\ Picture.disordered = FALSE
  BY DEF Picture
<1>4. Picture \in PictureRecord
  <2>1. <<>> \in Seq(Seq(Packets)) /\ <<>> \in Seq(Packets) /\ {} \in SUBSET Packets
    OBVIOUS
  <2>2. QED
    BY <1>0, <2>1 DEF Picture, PictureRecord, NoNAL
<1>5. CountOK(Picture) /\ NALsOK(Picture) /\ KeptOK(Picture) /\ Untainted(Picture)
  BY <1>3 DEF CountOK, NALsOK, KeptOK, Untainted, OpenUnit, OpenPicture
<1>6. ClocksOK
  BY <1>0 DEF ClocksOK
<1>7. QED
  BY <1>2, <1>4, <1>5, <1>6 DEF ExtractorInv, PictureOK

(* A packet that arrives keeps the invariant ...                           *)
LEMMA IngestKeeps ==
    ASSUME ExtractorInv, NEW n \in Packets, Ingest(n)
    PROVE  ExtractorInv'
<1> DEFINE o == Push(n)
           f == Ingested(o.out)
<1>1. PICK a \in Nat : Handed(o, a) /\ a > prev /\ (started => o.next >= next)
  BY PushStretch DEF ExtractorInv
<1>2. /\ started' = TRUE /\ next' = o.next /\ pending' = o.pending /\ waited' = o.waited
      /\ prev' = f.prev /\ lost' = f.lost /\ picBuf' = f.picBuf /\ fua' = f.fua
      /\ corrupted' = f.corrupted /\ idr' = f.idr /\ pliWait' = f.pliWait
      /\ delivered' = f.delivered /\ disordered' = f.disordered
      /\ missing' = Noticed(o) /\ early' = (early \/ GaveUpEarly(n, o))
  BY DEF Ingest
<1> HIDE DEF o
<1>3. /\ a \in 1 .. o.next /\ o.next \in 1 .. Len(Layout) + 1 /\ Len(Layout) \in Nat
      /\ o.out = [i \in 1 .. o.next - a |-> a + i - 1]
      /\ o.pending \in SUBSET Packets /\ (\A m \in o.pending : m > o.next) /\ o.waited \in 0 .. MaxWait
  BY <1>1, PacketNumbers DEF Handed
<1>4. o.next \in Nat /\ a <= o.next /\ o.next <= Len(Layout) + 1
  BY <1>3
<1>5. PictureOK(f) /\ (f.prev = prev \/ f.prev < o.next)
  BY <1>1, <1>3, <1>4, IngestedOK DEF ExtractorInv
<1> HIDE DEF f
<1>6. f \in PictureRecord /\ f.prev \in 0 .. Len(Layout)
  BY <1>5, RecordFields DEF PictureOK
<1>7. Picture' = f
  <2>1. Picture' = [prev |-> f.prev, lost |-> f.lost, picBuf |-> f.picBuf, fua |-> f.fua,
                    corrupted |-> f.corrupted, idr |-> f.idr, pliWait |-> f.pliWait,
                    delivered |-> f.delivered, disordered |-> f.disordered]
    BY <1>2 DEF Picture
  <2>2. QED
    BY <1>6, <2>1 DEF PictureRecord
<1>8. f.prev < o.next
  <2>1. prev < a /\ prev \in Nat
    BY <1>1 DEF ExtractorInv, BufferOK
  <2>2. QED
    BY <1>4, <1>5, <2>1
<1>9. BufferOK'
  BY <1>2, <1>3, <1>6, <1>8 DEF BufferOK
<1>10. ClocksOK'
  <2>1. missing \in [Packets -> -1 .. MaxWait] /\ MaxWait \in Nat /\ early \in BOOLEAN
    BY ExtractorAssumption DEF ExtractorInv, ClocksOK
  <2>2. \A m \in Packets : Noticed(o)[m] \in -1 .. MaxWait
    <3>1. TAKE m \in Packets
    <3>2. Noticed(o)[m] = 0 \/ Noticed(o)[m] = missing[m] \/ Noticed(o)[m] = -1
      BY DEF Noticed
    <3>3. missing[m] \in -1 .. MaxWait /\ 0 \in -1 .. MaxWait /\ -1 \in -1 .. MaxWait
      BY <2>1
    <3>4. QED
      BY <3>2, <3>3
  <2>3. Noticed(o) = [m \in Packets |-> Noticed(o)[m]]
    BY DEF Noticed
  <2>4. missing' \in [Packets -> -1 .. MaxWait]
    BY <1>2, <2>2, <2>3
  <2>5. early' \in BOOLEAN
    BY <1>2
  <2>6. QED
    BY <2>4, <2>5 DEF ClocksOK
<1>11. PictureOK(Picture)'
  BY <1>5, <1>7
<1>12. QED
  BY <1>9, <1>10, <1>11 DEF ExtractorInv

(* ... and so does time that passes.                                       *)
LEMMA TickKeeps ==
    ASSUME ExtractorInv, Tick
    PROVE  ExtractorInv'
<1>1. MaxWait \in Nat /\ MinPLI \in Nat
  BY ExtractorAssumption
<1>2. \A t \in 0 .. MaxWait : Longer(t) \in 0 .. MaxWait
  BY <1>1 DEF Longer
<1>3. UNCHANGED <<started, next, pending, prev, lost, picBuf, fua, corrupted, idr, delivered, disordered, early>>
  BY DEF Tick
<1>4. BufferOK'
  <2>1. waited' \in 0 .. MaxWait
    BY <1>2 DEF Tick, ExtractorInv, BufferOK
  <2>2. QED
    BY <1>3, <2>1 DEF ExtractorInv, BufferOK
<1>5. ClocksOK'
  <2>1. missing \in [Packets -> -1 .. MaxWait]
    BY DEF ExtractorInv, ClocksOK
  <2>2. \A m \in Packets : (IF missing[m] < 0 THEN -1 ELSE Longer(missing[m])) \in -1 .. MaxWait
    <3>1. TAKE m \in Packets
    <3>2. missing[m] \in -1 .. MaxWait
      BY <2>1
    <3>3. ~(missing[m] < 0) => missing[m] \in 0 .. MaxWait
      BY <1>1, <3>2
    <3>4. \A t \in 0 .. MaxWait : t \in -1 .. MaxWait
      BY <1>1
    <3>5. -1 \in -1 .. MaxWait
      BY <1>1
    <3>6. QED
      BY <1>2, <3>3, <3>4, <3>5
  <2>3. missing' \in [Packets -> -1 .. MaxWait]
    BY <2>2 DEF Tick
  <2>4. QED
    BY <1>3, <2>3 DEF ExtractorInv, ClocksOK
<1>6. PictureOK(Picture)'
  <2> DEFINE p == Picture
             q == Picture'
  <2>1. p \in PictureRecord /\ CountOK(p) /\ NALsOK(p) /\ KeptOK(p) /\ Untainted(p)
    BY DEF ExtractorInv, PictureOK
  <2>2. /\ q.prev = p.prev /\ q.lost = p.lost /\ q.picBuf = p.picBuf /\ q.fua = p.fua
        /\ q.corrupted = p.corrupted /\ q.idr = p.idr /\ q.delivered = p.delivered
        /\ q.disordered = p.disordered
    BY <1>3 DEF Picture
  <2>3. pliWait' \in 0 .. MinPLI
    <3>1. pliWait \in 0 .. MinPLI
      <4>1. p.pliWait = pliWait
        BY DEF Picture
      <4>2. QED
        BY <2>1, <4>1, RecordFields
    <3>2. QED
      BY <1>1, <3>1 DEF Tick
  <2>4. q \in PictureRecord
    <3>1. /\ prev \in 0 .. Len(Layout) /\ lost \in Nat /\ picBuf \in Seq(Seq(Packets))
          /\ fua \in Seq(Packets) /\ corrupted \in BOOLEAN /\ idr \in Seq(Seq(Packets))
          /\ delivered \in SUBSET Packets /\ disordered \in BOOLEAN
      <4>1. /\ p.prev = prev /\ p.lost = lost /\ p.picBuf = picBuf /\ p.fua = fua /\ p.corrupted = corrupted
            /\ p.idr = idr /\ p.delivered = delivered /\ p.disordered = disordered
        BY DEF Picture
      <4>2. QED
        BY <2>1, <4>1, RecordFields
    <3>2. QED
      BY <1>3, <2>3, <3>1 DEF Picture, PictureRecord
  <2> HIDE DEF p, q
  <2>5. CountOK(q) /\ NALsOK(q) /\ KeptOK(q) /\ Untainted(q)
    <3>1. CountOK(q)
      BY <2>1, <2>2, SameCount
    <3>2. NALsOK(q)
      BY <2>1, <2>2 DEF NALsOK
    <3>3. KeptOK(q)
      BY <2>1, <2>2 DEF KeptOK
    <3>4. Untainted(q)
      BY <2>1, <2>2 DEF Untainted, OpenUnit, OpenPicture
    <3>5. QED
      BY <3>1, <3>2, <3>3, <3>4
  <2>6. PictureOK(q)
    BY <2>4, <2>5 DEF PictureOK
  <2>7. QED
    BY <2>6 DEF q
<1>7. QED
  BY <1>4, <1>5, <1>6 DEF ExtractorInv

(* The inductive invariant: the buffer holds only what lies ahead of the   *)
(* next number (reorderBuffer.push), the loss counter is exact at every    *)
(* packet (checkSeqGap), and a picture that is not tainted is without a    *)
(* gap up to its last packet (ingestOrdered).                              *)
THEOREM ExtractorInductive == ExtractorSpec => []ExtractorInv
<1>1. ExtractorInv /\ [ExtractorNext]_extractorVars => ExtractorInv'
  <2> SUFFICES ASSUME ExtractorInv, [ExtractorNext]_extractorVars
               PROVE  ExtractorInv'
    OBVIOUS
  <2>1. CASE Tick
    BY <2>1, TickKeeps
  <2>2. ASSUME NEW n \in Packets, Ingest(n)
        PROVE  ExtractorInv'
    BY <2>2, IngestKeeps
  <2>3. CASE UNCHANGED extractorVars
    BY <2>3 DEF extractorVars, bufferVars, pictureVars, ExtractorInv, BufferOK, ClocksOK, Picture
  <2>4. QED
    BY <2>1, <2>2, <2>3 DEF ExtractorNext
<1>2. QED
  BY <1>1, ExtractorInvInit, PTL DEF ExtractorSpec

(* Downstream of reorderBuffer.push sequence numbers only rise, across the *)
(* wrap and whatever is lost, duplicated or reordered: checkSeqGap never   *)
(* takes its last branch.                                                  *)
THEOREM PacketsInOrder == ExtractorSpec => []InOrder
<1>1. ExtractorInv => InOrder
  BY DEF ExtractorInv, PictureOK, CountOK, Picture, InOrder
<1>2. QED
  BY <1>1, ExtractorInductive, PTL

(* The picture that commitPicture keeps for capture has NAL units of one   *)
(* picture only, however the packets between two were lost.                *)
THEOREM PicturesNeverMixed == ExtractorSpec => []NeverMixed
<1>1. ExtractorInv => NeverMixed
  BY DEF ExtractorInv, PictureOK, KeptOK, Picture, NeverMixed
<1>2. QED
  BY <1>1, ExtractorInductive, PTL

(* A NAL unit kept for capture is a whole packet or has all its fragments, *)
(* without a gap: ingestFUA drops the rest, or a gap taints its picture.   *)
THEOREM UnitsWhole == ExtractorSpec => []FragmentsWhole
<1>1. ExtractorInv => FragmentsWhole
  BY DEF ExtractorInv, PictureOK, KeptOK, Picture, FragmentsWhole
<1>2. QED
  BY <1>1, ExtractorInductive, PTL

(* lostPackets counts exactly the packets between the first and the last   *)
(* one handed on that never were.                                          *)
THEOREM LossIsExact == ExtractorSpec => []LossExact
<1>1. ExtractorInv => LossExact
  <2> SUFFICES ASSUME ExtractorInv, delivered # {}
               PROVE  LossExact
    BY DEF LossExact
  <2> DEFINE first == CHOOSE m \in delivered : \A k \in delivered : m <= k
             last == CHOOSE m \in delivered : \A k \in delivered : m >= k
  <2>1. /\ prev = 0 => delivered = {}
        /\ prev # 0 => /\ prev \in delivered
                       /\ \E m \in delivered : /\ delivered \subseteq m .. prev
                                               /\ lost = Cardinality((m .. prev) \ delivered)
    BY DEF ExtractorInv, PictureOK, CountOK, Picture
  <2>2. \A m \in delivered : m \in Nat
    <3>1. Picture.delivered \in SUBSET Packets /\ Picture.delivered = delivered
      BY RecordFields DEF ExtractorInv, PictureOK, Picture
    <3>2. QED
      BY <3>1, PacketNumbers
  <2>3. PICK m \in delivered : /\ prev \in delivered /\ delivered \subseteq m .. prev
                               /\ lost = Cardinality((m .. prev) \ delivered)
    BY <2>1
  <2>4. \A k \in delivered : k \in Nat /\ m <= k /\ k <= prev
    BY <2>2, <2>3
  <2>5. first \in delivered /\ \A k \in delivered : first <= k
    BY <2>3, <2>4
  <2>6. last \in delivered /\ \A k \in delivered : last >= k
    BY <2>3, <2>4
  <2> HIDE DEF first, last
  <2>9. first = m /\ last = prev
    <3>1. first \in Nat /\ m \in Nat /\ first <= m /\ m <= first
      BY <2>3, <2>4, <2>5
    <3>2. last \in Nat /\ prev \in Nat /\ last <= prev /\ last >= prev
      BY <2>3, <2>4, <2>6
    <3>3. QED
      BY <3>1, <3>2
  <2>10. lost = Cardinality((first .. last) \ delivered)
    BY <2>3, <2>9
  <2>11. QED
    BY <2>10 DEF LossExact, first, last
<1>2. QED
  BY <1>1, ExtractorInductive, PTL

(* Every variable of FrameExtractor keeps its type, and the buffer never   *)
(* holds a packet it could hand on.                                        *)
THEOREM ExtractorTypeCorrect == ExtractorSpec => []ExtractorTypeOK
<1>1. ExtractorInv => ExtractorTypeOK
  <2> SUFFICES ASSUME ExtractorInv
               PROVE  ExtractorTypeOK
    OBVIOUS
  <2>1. /\ prev \in 0 .. Len(Layout) /\ lost \in Nat /\ corrupted \in BOOLEAN /\ pliWait \in 0 .. MinPLI
        /\ delivered \in SUBSET Packets /\ disordered \in BOOLEAN
    BY RecordFields DEF ExtractorInv, PictureOK, Picture
  <2>2. /\ \A i \in DOMAIN picBuf : IsNAL(picBuf[i])
        /\ fua = NoNAL \/ IsNAL(fua)
        /\ \A i \in DOMAIN idr : IsNAL(idr[i])
    BY DEF ExtractorInv, PictureOK, NALsOK, NALTo, Picture
  <2>3. QED
    BY <2>1, <2>2 DEF ExtractorInv, BufferOK, ClocksOK, ExtractorTypeOK
<1>2. QED
  BY <1>1, ExtractorInductive, PTL

-----------------------------------------------------------------------------
(***************************************************************************)
(* Coverage: what a recording lacks, by inventory or by timestamps, and    *)
(* the frame rates its segments are measured against.                      *)
(***************************************************************************)
(* Any segment.                                                            *)
SegmentType == [seq : Nat, start : Nat, end : Nat, frames : Nat, size : Nat]

(* What the client captured, what arrived and what it declared are so      *)
(* typed; it declares no more than it has.                                 *)
RecordingTypes ==
    /\ study \in Studies /\ declared \in Nat /\ declared <= Len(captured)
    /\ captured \in Seq(SegmentType) /\ received \in Seq(SegmentType)

(* Segments are numbered as they are captured ...                          *)
Numbered == \A i \in 1 .. Len(captured) : captured[i].seq = i - 1 /\ captured[i].start <= captured[i].end

(* ... and follow one another in time.                                     *)
InTime == \A i, j \in 1 .. Len(captured) : i < j => captured[i].end <= captured[j].start

(* What arrived is a part of what was captured, in the same order.         *)
ReceivedOK ==
    /\ arrived = Seqs(received)
    /\ \A i \in 1 .. Len(received) :
          received[i].seq \in 0 .. Len(captured) - 1 /\ received[i] = captured[received[i].seq + 1]
    /\ \A i, j \in 1 .. Len(received) : i < j => received[i].seq < received[j].seq

CoverageInv == RecordingTypes /\ Numbered /\ InTime /\ ReceivedOK

(* Nothing is captured at first.                                           *)
LEMMA CoverageInvInit == CoverageInit => CoverageInv
  BY DEF CoverageInit, CoverageInv, RecordingTypes, Numbered, InTime, ReceivedOK, Seqs, Elements

(* The fields of a segment.                                                *)
LEMMA Fields ==
    ASSUME NEW s \in Seq(SegmentType)
    PROVE  /\ Len(s) \in Nat /\ DOMAIN s = 1 .. Len(s)
           /\ \A i \in 1 .. Len(s) :
                 /\ s[i].seq \in Nat /\ s[i].start \in Nat /\ s[i].end \in Nat
                 /\ s[i].frames \in Nat /\ s[i].size \in Nat
<1>1. Len(s) \in Nat /\ DOMAIN s = 1 .. Len(s) /\ \A i \in 1 .. Len(s) : s[i] \in SegmentType
  OBVIOUS
<1>2. \A m \in SegmentType : /\ m.seq \in Nat /\ m.start \in Nat /\ m.end \in Nat
                             /\ m.frames \in Nat /\ m.size \in Nat
  BY DEF SegmentType
<1>3. QED
  BY <1>1, <1>2

(* What arrived has its place in what was received.                        *)
LEMMA ArrivedAt ==
    ASSUME CoverageInv
    PROVE  arrived = {received[k].seq : k \in 1 .. Len(received)}
<1>1. received \in Seq(SegmentType) /\ DOMAIN received = 1 .. Len(received)
  BY Fields DEF CoverageInv, RecordingTypes
<1>2. QED
  BY <1>1 DEF CoverageInv, ReceivedOK, Seqs, Elements

(* A captured segment is the last one, whether it arrives or not.          *)
LEMMA CaptureStep ==
    ASSUME CoverageInv, NEW m \in SegmentType, NEW arrives \in BOOLEAN,
           m.seq = Len(captured), m.start >= EndOf(captured), m.start <= m.end,
           Capture(m, arrives)
    PROVE  CoverageInv'
<1> DEFINE n == Len(captured)
<1>1. /\ captured \in Seq(SegmentType) /\ n \in Nat /\ captured' = Append(captured, m)
      /\ Len(captured') = n + 1 /\ captured' \in Seq(SegmentType)
      /\ captured'[n + 1] = m /\ \A i \in 1 .. n : captured'[i] = captured[i]
  BY DEF CoverageInv, RecordingTypes, Capture
<1>2. RecordingTypes'
  BY <1>1 DEF CoverageInv, RecordingTypes, Capture
<1>3. Numbered'
  BY <1>1 DEF CoverageInv, Numbered
<1>4. ASSUME NEW i \in 1 .. n
      PROVE  captured[i].end <= m.start
  <2>1. n > 0 /\ n \in 1 .. n
    BY <1>1
  <2>2. EndOf(captured) = captured[n].end
    BY <1>1, <2>1 DEF EndOf
  <2>3. captured[i].end \in Nat /\ captured[n].start \in Nat /\ captured[n].end \in Nat /\ m.start \in Nat
    BY <1>1, <2>1, Fields DEF SegmentType
  <2>4. captured[n].start <= captured[n].end
    BY <2>1 DEF CoverageInv, Numbered
  <2>5. CASE i = n
    BY <2>2, <2>5
  <2>6. CASE i < n
    <3>1. captured[i].end <= captured[n].start
      BY <2>1, <2>6 DEF CoverageInv, InTime
    <3>2. QED
      BY <2>2, <2>3, <2>4, <3>1
  <2>7. QED
    BY <1>1, <2>5, <2>6
<1>5. InTime'
  BY <1>1, <1>4 DEF CoverageInv, InTime
<1>6. ReceivedOK'
  <2>1. received \in Seq(SegmentType) /\ Len(received) \in Nat
    BY DEF CoverageInv, RecordingTypes
  <2>2. CASE arrives
    <3>1. /\ received' = Append(received, m) /\ arrived' = arrived \cup {m.seq}
          /\ Len(received') = Len(received) + 1 /\ received'[Len(received) + 1] = m
          /\ \A i \in 1 .. Len(received) : received'[i] = received[i]
      BY <2>1, <2>2 DEF Capture
    <3>2. Seqs(received') = Seqs(received) \cup {m.seq}
      BY <2>1, <3>1 DEF Seqs, Elements
    <3>3. ASSUME NEW i \in 1 .. Len(received')
          PROVE  received'[i].seq \in 0 .. n /\ received'[i] = captured'[received'[i].seq + 1]
      <4>1. CASE i = Len(received) + 1
        BY <1>1, <3>1, <4>1
      <4>2. CASE i \in 1 .. Len(received)
        <5>1. received[i].seq \in 0 .. n - 1 /\ received[i] = captured[received[i].seq + 1]
          BY <4>2 DEF CoverageInv, ReceivedOK
        <5>2. received[i].seq + 1 \in 1 .. n
          BY <1>1, <5>1
        <5>3. QED
          BY <1>1, <3>1, <4>2, <5>1, <5>2
      <4>3. QED
        BY <2>1, <3>1, <4>1, <4>2
    <3>4. ASSUME NEW i \in 1 .. Len(received'), NEW j \in 1 .. Len(received'), i < j
          PROVE  received'[i].seq < received'[j].seq
      <4>1. i \in 1 .. Len(received) /\ received'[i] = received[i] /\ received[i].seq \in 0 .. n - 1
        BY <2>1, <3>1, <3>4 DEF CoverageInv, ReceivedOK
      <4>2. CASE j = Len(received) + 1
        BY <1>1, <3>1, <4>1, <4>2
      <4>3. CASE j \in 1 .. Len(received)
        BY <3>1, <3>4, <4>1, <4>3, SMTT(30) DEF CoverageInv, ReceivedOK
      <4>4. QED
        BY <2>1, <3>1, <4>2, <4>3
    <3>5. QED
      BY <1>1, <3>1, <3>2, <3>3, <3>4 DEF CoverageInv, ReceivedOK
  <2>3. CASE ~arrives
    <3>1. received' = received /\ arrived' = arrived
      BY <2>3 DEF Capture
    <3>2. QED
      BY <1>1, <3>1 DEF CoverageInv, ReceivedOK
  <2>4. QED
    BY <2>2, <2>3
<1>7. QED
  BY <1>2, <1>3, <1>5, <1>6 DEF CoverageInv

(* Every step keeps the invariant.                                         *)
LEMMA CoverageInvStep == CoverageInv /\ [CoverageNext]_coverageVars => CoverageInv'
<1> SUFFICES ASSUME CoverageInv, [CoverageNext]_coverageVars
             PROVE  CoverageInv'
  OBVIOUS
<1>1. CASE UNCHANGED coverageVars
  BY <1>1 DEF coverageVars, CoverageInv, RecordingTypes, Numbered, InTime, ReceivedOK
<1>2. CASE Declare
  BY <1>2 DEF Declare, CoverageInv, RecordingTypes, Numbered, InTime, ReceivedOK
<1>3. ASSUME NEW l \in study.lengths, NEW f \in study.frames, NEW z \in study.sizes,
             NEW p \in study.pauses, NEW a \in study.fates, Capture(Segment(l, f, z, p), a)
      PROVE  CoverageInv'
  <2>1. l \in Nat /\ f \in Nat /\ z \in Nat /\ p \in Nat /\ a \in BOOLEAN
    BY StudiesAssumption DEF CoverageInv, RecordingTypes
  <2>2. Len(captured) \in Nat /\ EndOf(captured) \in Nat
    <3>1. captured \in Seq(SegmentType) /\ Len(captured) \in Nat
      BY DEF CoverageInv, RecordingTypes
    <3>2. captured # <<>> => captured[Len(captured)] \in SegmentType
      BY <3>1
    <3>3. QED
      BY <3>1, <3>2 DEF EndOf, SegmentType
  <2> DEFINE m == Segment(l, f, z, p)
  <2>3. /\ m \in SegmentType /\ m.seq = Len(captured)
        /\ m.start >= EndOf(captured) /\ m.start <= m.end
    BY <2>1, <2>2 DEF Segment, SegmentType
  <2> HIDE DEF m
  <2>4. QED
    BY <1>3, <2>1, <2>3, CaptureStep DEF m
<1>4. QED
  BY <1>1, <1>2, <1>3 DEF CoverageNext

(* The inductive invariant: the registry lists what arrived, in the order  *)
(* it was captured (SegmentRegistry.List).                                 *)
THEOREM CoverageInductive == CoverageSpec => []CoverageInv
  BY CoverageInvInit, CoverageInvStep, PTL DEF CoverageSpec

(* An interval beyond the tolerance means that a segment is lost in it ... *)
LEMMA GapMeansLoss ==
    ASSUME CoverageInv, \A i \in 2 .. Len(captured) : Between(captured, i) <= GapTolerance,
           AuditGaps(received) # {}
    PROVE  \E a, b \in arrived : \E q \in a .. b : q \notin arrived
<1>1. PICK j \in 2 .. Len(received) : Between(received, j) > GapTolerance
  BY DEF AuditGaps
<1> DEFINE a == received[j - 1].seq
           b == received[j].seq
<1>2. received \in Seq(SegmentType) /\ Len(received) \in Nat /\ captured \in Seq(SegmentType) /\ Len(captured) \in Nat
  BY DEF CoverageInv, RecordingTypes
<1>3. j \in 1 .. Len(received) /\ j - 1 \in 1 .. Len(received) /\ j - 1 < j
  BY <1>2
<1>4. /\ a \in 0 .. Len(captured) - 1 /\ b \in 0 .. Len(captured) - 1 /\ a < b
      /\ received[j - 1] = captured[a + 1] /\ received[j] = captured[b + 1]
  BY <1>3 DEF CoverageInv, ReceivedOK
<1>5. a \in arrived /\ b \in arrived
  BY <1>2, <1>3 DEF CoverageInv, ReceivedOK, Seqs, Elements
<1>6. b # a + 1
  <2>1. SUFFICES ASSUME b = a + 1
                 PROVE  FALSE
    OBVIOUS
  <2>2. b + 1 \in 2 .. Len(captured) /\ a + 1 = (b + 1) - 1
    BY <1>2, <1>4, <2>1
  <2>3. Between(captured, b + 1) = Between(received, j)
    BY <1>4, <2>2 DEF Between
  <2>4. Between(received, j) \in Int /\ GapTolerance \in Nat
    <3>1. received[j].start \in Nat /\ received[j - 1].end \in Nat
      BY <1>2, <1>3, Fields
    <3>2. QED
      BY <3>1, CoverageAssumption DEF Between
  <2>5. QED
    BY <1>1, <2>2, <2>3, <2>4
<1>7. a + 1 \notin arrived
  <2>1. SUFFICES ASSUME a + 1 \in arrived
                 PROVE  FALSE
    OBVIOUS
  <2>2. PICK k \in 1 .. Len(received) : received[k].seq = a + 1
    BY <2>1, ArrivedAt
  <2>3. k <= j - 1 \/ j <= k
    BY <1>2, <1>3
  <2>4. (k < j - 1 => received[k].seq < a) /\ (j < k => b < received[k].seq)
    BY <1>3 DEF CoverageInv, ReceivedOK
  <2>5. QED
    BY <1>2, <1>3, <1>4, <1>6, <2>2, <2>3, <2>4, SMTT(30)
<1>8. a + 1 \in a .. b
  BY <1>4
<1>9. QED
  BY <1>5, <1>7, <1>8

(* ... and a lost segment longer than the tolerance leaves one.            *)
LEMMA LossMeansGap ==
    ASSUME CoverageInv, \A m \in Elements(captured) : Length(m) > GapTolerance,
           NEW a \in arrived, NEW b \in arrived, NEW q \in a .. b, q \notin arrived
    PROVE  AuditGaps(received) # {}
<1>1. received \in Seq(SegmentType) /\ Len(received) \in Nat /\ captured \in Seq(SegmentType) /\ Len(captured) \in Nat
  BY DEF CoverageInv, RecordingTypes
<1>2. PICK ia \in 1 .. Len(received), ib \in 1 .. Len(received) : received[ia].seq = a /\ received[ib].seq = b
  BY ArrivedAt
<1>3. \A k \in 1 .. Len(received) : received[k].seq \in Nat /\ received[k].seq < Len(captured) /\ received[k].seq # q
  BY <1>1 DEF CoverageInv, ReceivedOK, Seqs, Elements
<1>4. q \in Nat /\ a < q /\ q < b
  BY <1>2, <1>3
<1> DEFINE Later == {k \in 1 .. Len(received) : received[k].seq > q}
<1>5. PICK j \in Later : \A k \in Later : j <= k
  <2>1. ib \in Later /\ Later \in SUBSET Nat
    BY <1>1, <1>2, <1>4
  <2>2. QED
    BY <2>1, LeastNumber
<1>6. j \in 1 .. Len(received) /\ received[j].seq > q
  BY <1>5
<1>7. j # 1
  <2>1. SUFFICES ASSUME j = 1
                 PROVE  FALSE
    OBVIOUS
  <2>2. ia = 1 \/ 1 < ia
    BY <1>1
  <2>3. received[1].seq <= received[ia].seq
    BY <1>1, <1>2, <1>3, <1>6, <2>1, <2>2 DEF CoverageInv, ReceivedOK
  <2>4. QED
    BY <1>2, <1>3, <1>4, <1>6, <2>1, <2>3
<1>8. j - 1 \in 1 .. Len(received) /\ j \in 2 .. Len(received)
  BY <1>1, <1>6, <1>7
<1>9. received[j - 1].seq < q
  <2>1. j - 1 \notin Later
    BY <1>1, <1>5, <1>6
  <2>2. QED
    BY <1>3, <1>4, <1>8, <2>1
<1> DEFINE x == received[j - 1].seq + 1
           y == received[j].seq + 1
<1>10. /\ x \in 1 .. Len(captured) /\ y \in 1 .. Len(captured) /\ q + 1 \in 1 .. Len(captured)
       /\ x < q + 1 /\ q + 1 < y
       /\ received[j - 1] = captured[x] /\ received[j] = captured[y]
  <2>1. /\ received[j - 1].seq \in 0 .. Len(captured) - 1 /\ received[j - 1] = captured[x]
        /\ received[j].seq \in 0 .. Len(captured) - 1 /\ received[j] = captured[y]
    BY <1>8, <1>6 DEF CoverageInv, ReceivedOK
  <2>2. x \in Nat /\ y \in Nat /\ 1 <= x /\ x <= Len(captured) /\ 1 <= y /\ y <= Len(captured)
    <3>1. \A n \in Nat : \A k \in 0 .. n - 1 : k + 1 \in Nat /\ 1 <= k + 1 /\ k + 1 <= n
      OBVIOUS
    <3>2. QED
      BY <1>1, <2>1, <3>1
  <2>3. x < q + 1 /\ q + 1 < y
    BY <1>4, <1>6, <1>9, <2>1, SMTT(30)
  <2>4. QED
    BY <1>1, <1>4, <2>1, <2>2, <2>3, SMTT(30)
<1>11. /\ captured[x].end <= captured[q + 1].start
       /\ captured[q + 1].end <= captured[y].start
  BY <1>10 DEF CoverageInv, InTime
<1>12. captured[q + 1].end - captured[q + 1].start > GapTolerance
  BY <1>1, <1>10 DEF Elements, Length
<1>13. /\ captured[x].end \in Nat /\ captured[q + 1].start \in Nat /\ captured[q + 1].end \in Nat
       /\ captured[y].start \in Nat /\ GapTolerance \in Nat
  BY <1>1, <1>10, Fields, CoverageAssumption
<1> HIDE DEF x, y
<1>14. captured[y].start - captured[x].end > GapTolerance
  <2>1. \A e, s, f, u, g \in Nat : e <= s /\ f <= u /\ f - s > g => u - e > g
    OBVIOUS
  <2>2. QED
    BY <1>11, <1>12, <1>13, <2>1
<1>15. Between(received, j) > GapTolerance
  BY <1>10, <1>14 DEF Between
<1>16. QED
  BY <1>8, <1>15 DEF AuditGaps

(* Without an inventory AuditGaps makes a recording PARTIAL exactly when a *)
(* segment between two others is lost, where segments are longer than the  *)
(* tolerance and pauses are not.                                           *)
THEOREM InteriorGapsAreSeen == CoverageSpec => []InteriorGapSeen
<1>1. CoverageInv => InteriorGapSeen
  <2> SUFFICES ASSUME CoverageInv, \A m \in Elements(captured) : Length(m) > GapTolerance,
                      \A i \in 2 .. Len(captured) : Between(captured, i) <= GapTolerance
               PROVE  LoadSummary(Inventory, received, FALSE).status = "PARTIAL"
                        <=> \E a, b \in arrived : \E q \in a .. b : q \notin arrived
    BY DEF InteriorGapSeen
  <2>1. Reconcile(<<>>, received).missing = AuditGaps(received)
    BY DEF Reconcile
  <2>2. LoadSummary(Inventory, received, FALSE).status = "PARTIAL" <=> AuditGaps(received) # {}
    BY <2>1 DEF LoadSummary, RecordingSummary, RecordingStatus, HasGaps
  <2>3. QED
    BY <2>2, GapMeansLoss, LossMeansGap
<1>2. QED
  BY <1>1, CoverageInductive, PTL

-----------------------------------------------------------------------------
(* A rate that can be taken is a number.                                   *)
LEMMA RateIsNatural ==
    ASSUME NEW s \in Seq(SegmentType), NEW i \in Usable(s)
    PROVE  Rate(s[i]) \in Nat
<1>1. i \in 1 .. Len(s) /\ Length(s[i]) > 0
  BY Fields DEF Usable
<1>2. s[i].frames \in Nat /\ s[i].start \in Nat /\ s[i].end \in Nat
  BY <1>1, Fields
<1>3. Length(s[i]) \in Nat \ {0}
  BY <1>1, <1>2 DEF Length
<1>4. Scale * s[i].frames \in Nat
  BY <1>2, CoverageAssumption
<1>5. \A a \in Nat, b \in Nat \ {0} : a \div b \in Nat
  OBVIOUS
<1>6. QED
  BY <1>3, <1>4, <1>5 DEF Rate

(* Rates are taken of finitely many segments.                              *)
LEMMA UsableFinite ==
    ASSUME NEW s \in Seq(SegmentType)
    PROVE  Usable(s) \in SUBSET (1 .. Len(s)) /\ IsFiniteSet(Usable(s)) /\ Cardinality(Usable(s)) \in Nat
<1>1. Len(s) \in Nat /\ Usable(s) \in SUBSET (1 .. Len(s))
  BY Fields DEF Usable
<1>2. IsFiniteSet(1 .. Len(s))
  BY <1>1, FS_Interval
<1>3. QED
  BY <1>1, <1>2, FS_Subset, FS_CardinalityType

(* Places are a numbering of the usable segments: every place is taken by  *)
(* one.                                                                    *)
LEMMA PlacesFill ==
    ASSUME NEW s \in Seq(SegmentType), NEW k \in 1 .. Cardinality(Usable(s))
    PROVE  \E j \in Usable(s) : Place(s, j) = k
<1> DEFINE U == Usable(s)
           n == Cardinality(U)
           Below(j) == {i \in U : AtMost(s, i, j)}
           place == [j \in U |-> Cardinality(Below(j))]
<1>1. U \in SUBSET Nat /\ IsFiniteSet(U) /\ n \in Nat
  BY UsableFinite, Fields
<1>2. \A i \in U : Rate(s[i]) \in Nat
  BY RateIsNatural
<1>3. \A i, j \in U : AtMost(s, i, j) \/ AtMost(s, j, i)
  BY <1>1, <1>2 DEF AtMost
<1>4. \A i, j \in U : AtMost(s, i, j) /\ AtMost(s, j, i) => i = j
  BY <1>1, <1>2 DEF AtMost
<1>5. \A h, i, j \in U : AtMost(s, h, i) /\ AtMost(s, i, j) => AtMost(s, h, j)
  BY <1>1, <1>2 DEF AtMost
<1>6. \A j \in U : AtMost(s, j, j)
  BY <1>3
<1> HIDE DEF U, n
<1>7. ASSUME NEW j \in U
      PROVE  IsFiniteSet(Below(j)) /\ Cardinality(Below(j)) \in Nat /\ Cardinality(Below(j)) \in 1 .. n
  <2>1. Below(j) \in SUBSET U /\ j \in Below(j)
    BY <1>6
  <2>2. IsFiniteSet(Below(j)) /\ Cardinality(Below(j)) \in Nat /\ Cardinality(Below(j)) <= n
    BY <1>1, <2>1, FS_Subset, FS_CardinalityType DEF n
  <2>3. Cardinality(Below(j)) # 0
    BY <2>1, <2>2, FS_EmptySet
  <2>4. QED
    BY <1>1, <2>2, <2>3
<1>8. ASSUME NEW i \in U, NEW j \in U, i # j, AtMost(s, i, j)
      PROVE  Cardinality(Below(i)) < Cardinality(Below(j))
  <2>1. Below(i) \in SUBSET Below(j) /\ j \in Below(j) /\ j \notin Below(i)
    BY <1>4, <1>5, <1>6, <1>8
  <2>2. /\ Cardinality(Below(i)) <= Cardinality(Below(j))
        /\ Cardinality(Below(j)) = Cardinality(Below(i)) => Below(j) = Below(i)
    BY <1>7, <2>1, FS_Subset
  <2>3. Cardinality(Below(i)) \in Nat /\ Cardinality(Below(j)) \in Nat
    BY <1>7
  <2>4. QED
    BY <2>1, <2>2, <2>3
<1>9. place \in Injection(U, 1 .. n)
  <2>1. place \in [U -> 1 .. n]
    BY <1>7
  <2>2. ASSUME NEW i \in U, NEW j \in U, i # j
        PROVE  place[i] # place[j]
    <3>1. Cardinality(Below(i)) \in Nat /\ Cardinality(Below(j)) \in Nat
      BY <1>7
    <3>2. \A a, b \in Nat : a < b \/ b < a => a # b
      OBVIOUS
    <3>3. Cardinality(Below(i)) < Cardinality(Below(j)) \/ Cardinality(Below(j)) < Cardinality(Below(i))
      BY <1>3, <1>8, <2>2
    <3>4. Cardinality(Below(i)) # Cardinality(Below(j))
      BY <3>1, <3>2, <3>3
    <3>5. QED
      BY <3>4
  <2>3. QED
    BY <2>1, <2>2 DEF Injection, IsInjective
<1>10. IsFiniteSet(1 .. n) /\ Cardinality(1 .. n) = n
  BY <1>1, FS_Interval
<1>11. place \in Surjection(U, 1 .. n)
  BY <1>9, <1>10, FS_Injection DEF n
<1>12. PICK j \in U : place[j] = k
  BY <1>11 DEF Surjection, n, U
<1>13. Place(s, j) = k
  BY <1>12 DEF Place, U
<1>14. QED
  BY <1>13 DEF U

(* Where all but fewer than k of the rates reach r, the k-th in order      *)
(* does.                                                                   *)
LEMMA HighSide ==
    ASSUME NEW s \in Seq(SegmentType), NEW r \in Nat, NEW k \in 1 .. Cardinality(Usable(s)),
           Cardinality({i \in Usable(s) : Rate(s[i]) >= r}) > Cardinality(Usable(s)) - k
    PROVE  SortedRate(s, k) \in Nat /\ SortedRate(s, k) >= r
<1> DEFINE U == Usable(s)
           n == Cardinality(U)
           High == {i \in U : Rate(s[i]) >= r}
           j == CHOOSE i \in U : Place(s, i) = k
           Below == {i \in U : AtMost(s, i, j)}
<1>1. j \in U /\ Place(s, j) = k
  BY PlacesFill
<1>2. SortedRate(s, k) = Rate(s[j])
  BY DEF SortedRate
<1>3. U \in SUBSET Nat /\ IsFiniteSet(U) /\ n \in Nat /\ k \in Nat
  BY UsableFinite, Fields
<1>4. \A i \in U : Rate(s[i]) \in Nat
  BY RateIsNatural
<1>5. Cardinality(Below) = k
  BY <1>1 DEF Place
<1>6. Cardinality(High) > n - k
  OBVIOUS
<1> HIDE DEF U, n, j
<1>7. SUFFICES ASSUME Rate(s[j]) < r
               PROVE  FALSE
  BY <1>1, <1>2, <1>4
<1>8. Below \cap High = {}
  BY <1>1, <1>4, <1>7 DEF AtMost
<1>9. /\ IsFiniteSet(Below) /\ IsFiniteSet(High)
      /\ Cardinality(High) \in Nat /\ Cardinality(Below) \in Nat
  BY <1>3, FS_Subset, FS_CardinalityType
<1>10. Cardinality(Below \cup High) = Cardinality(Below) + Cardinality(High)
  <2>1. Cardinality(Below \cup High) = Cardinality(Below) + Cardinality(High) - Cardinality(Below \cap High)
    BY <1>9, FS_Union
  <2>2. Cardinality(Below \cap High) = 0
    BY <1>8, FS_EmptySet
  <2>3. QED
    BY <1>9, <2>1, <2>2
<1>11. Cardinality(Below \cup High) <= n
  <2>1. Below \cup High \in SUBSET U
    OBVIOUS
  <2>2. QED
    BY <1>3, <2>1, FS_Subset DEF n
<1>12. QED
  BY <1>3, <1>5, <1>6, <1>9, <1>10, <1>11

(* A rate that more than half of the segments reach is at most the median. *)
LEMMA MedianIsHigh ==
    ASSUME NEW s \in Seq(SegmentType), NEW r \in Nat,
           2 * Cardinality({i \in Usable(s) : Rate(s[i]) >= r}) > Cardinality(Usable(s))
    PROVE  MedianFrameRate(s) \in Nat /\ MedianFrameRate(s) >= 2 * r
<1> DEFINE U == Usable(s)
           n == Cardinality(U)
           h == Cardinality({i \in U : Rate(s[i]) >= r})
           middle == n \div 2
<1>1. IsFiniteSet(U) /\ n \in Nat
  BY UsableFinite
<1>2. h \in Nat /\ h <= n
  BY <1>1, FS_Subset, FS_CardinalityType
<1>3. 2 * h > n
  OBVIOUS
<1>4. \A k \in 1 .. n : h > n - k => SortedRate(s, k) \in Nat /\ SortedRate(s, k) >= r
  BY HighSide
<1>5. MedianFrameRate(s) = CASE n = 0 -> 0
          [] n > 0 /\ n % 2 = 1 -> 2 * SortedRate(s, middle + 1)
          [] OTHER -> SortedRate(s, middle) + SortedRate(s, middle + 1)
  BY DEF MedianFrameRate
<1> HIDE DEF U, n, h
<1>6. n > 0 /\ middle \in Nat
  BY <1>1, <1>2, <1>3
<1>7. CASE n % 2 = 1
  <2>1. middle + 1 \in 1 .. n /\ h > n - (middle + 1)
    BY <1>1, <1>2, <1>3, <1>7
  <2>2. MedianFrameRate(s) = 2 * SortedRate(s, middle + 1)
    BY <1>5, <1>6, <1>7
  <2>3. QED
    BY <1>4, <2>1, <2>2
<1>8. CASE n % 2 # 1
  <2>1. n = 2 * middle
    BY <1>1, <1>8
  <2>2. /\ middle \in 1 .. n /\ h > n - middle
        /\ middle + 1 \in 1 .. n /\ h > n - (middle + 1)
    BY <1>1, <1>2, <1>3, <1>6, <2>1
  <2>3. MedianFrameRate(s) = SortedRate(s, middle) + SortedRate(s, middle + 1)
    BY <1>5, <1>6, <1>8
  <2>4. QED
    BY <1>4, <2>2, <2>3
<1>9. QED
  BY <1>7, <1>8

(* medianFrameRate: where most segments reach a rate, captureAnomalies     *)
(* reports every segment below half of it, so frozen segments cannot drag  *)
(* the baseline down to themselves.                                        *)
THEOREM MajorityIsProtected == CoverageSpec => []MajorityProtects
<1>1. CoverageInv => MajorityProtects
  <2> SUFFICES ASSUME CoverageInv, NEW typical \in Rated,
                      2 * Cardinality({i \in Usable(Inventory) : RateAt(i) >= RateAt(typical)}) > Cardinality(Usable(Inventory)),
                      NEW i \in Rated, 2 * RateAt(i) < RateAt(typical)
               PROVE  i \in Flagged
    BY DEF MajorityProtects
  <2> DEFINE s == Inventory
  <2>1. s \in Seq(SegmentType)
    BY DEF CoverageInv, RecordingTypes, Inventory
  <2>2. typical \in Usable(s) /\ i \in Usable(s) /\ i \in DOMAIN s /\ s[i].size > 0
    BY DEF Rated, Usable
  <2>3. RateAt(i) \in Nat /\ RateAt(typical) \in Nat
    BY <2>1, <2>2, RateIsNatural DEF RateAt
  <2>4. MedianFrameRate(s) \in Nat /\ MedianFrameRate(s) >= 2 * RateAt(typical)
    BY <2>1, <2>3, MedianIsHigh DEF RateAt
  <2>5. LowRate(s[i], MedianFrameRate(s))
    BY <2>3, <2>4 DEF LowRate, RateAt
  <2>6. s[i] \in Elements(s) /\ Length(s[i]) > 0 /\ s[i].frames > 0
    BY <2>2 DEF Elements, Usable
  <2>7. Anomaly(s[i], "low_frame_rate") \in CaptureAnomalies(s)
    BY <2>2, <2>5, <2>6 DEF CaptureAnomalies
  <2>8. CaptureAnomalies(s) \subseteq Reconcile(s, received).anomalies
    BY DEF Reconcile
  <2>9. QED
    BY <2>2, <2>7, <2>8 DEF Flagged
<1>2. QED
  BY <1>1, CoverageInductive, PTL

(* Where at least k of the rates stay within r, the k-th in order does.    *)
LEMMA LowSide ==
    ASSUME NEW s \in Seq(SegmentType), NEW r \in Nat, NEW k \in 1 .. Cardinality(Usable(s)),
           Cardinality({i \in Usable(s) : Rate(s[i]) <= r}) >= k
    PROVE  SortedRate(s, k) \in Nat /\ SortedRate(s, k) <= r
<1> DEFINE U == Usable(s)
           n == Cardinality(U)
           Low == {i \in U : Rate(s[i]) <= r}
           j == CHOOSE i \in U : Place(s, i) = k
           Below == {i \in U : AtMost(s, i, j)}
<1>1. j \in U /\ Place(s, j) = k
  BY PlacesFill
<1>2. SortedRate(s, k) = Rate(s[j])
  BY DEF SortedRate
<1>3. U \in SUBSET Nat /\ IsFiniteSet(U) /\ n \in Nat /\ k \in Nat
  BY UsableFinite, Fields
<1>4. \A i \in U : Rate(s[i]) \in Nat
  BY RateIsNatural
<1>5. Cardinality(Below) = k
  BY <1>1 DEF Place
<1>6. Cardinality(Low) >= k
  OBVIOUS
<1> HIDE DEF U, n, j
<1>7. SUFFICES ASSUME Rate(s[j]) > r
               PROVE  FALSE
  BY <1>1, <1>2, <1>4
<1>8. Low \in SUBSET Below /\ j \in Below /\ j \notin Low
  <2>1. Rate(s[j]) \in Nat /\ j \in Nat
    BY <1>1, <1>3, <1>4
  <2>2. \A i \in U : Rate(s[i]) <= r => Rate(s[i]) < Rate(s[j])
    BY <1>4, <1>7, <2>1
  <2>3. AtMost(s, j, j)
    BY <2>1 DEF AtMost
  <2>4. \A i \in U : Rate(s[i]) <= r => AtMost(s, i, j)
    BY <2>2 DEF AtMost
  <2>5. ~(Rate(s[j]) <= r)
    BY <1>7, <2>1
  <2>6. QED
    BY <1>1, <2>3, <2>4, <2>5
<1>9. IsFiniteSet(Below)
  BY <1>3, FS_Subset
<1>10. /\ Cardinality(Low) \in Nat /\ Cardinality(Low) <= Cardinality(Below)
       /\ Cardinality(Low) = Cardinality(Below) => Low = Below
  BY <1>8, <1>9, FS_Subset, FS_CardinalityType
<1>11. QED
  BY <1>3, <1>5, <1>6, <1>8, <1>10

(* A rate that more than half of the segments stay within is at least the  *)
(* median.                                                                 *)
LEMMA MedianIsLow ==
    ASSUME NEW s \in Seq(SegmentType), NEW r \in Nat,
           2 * Cardinality({i \in Usable(s) : Rate(s[i]) <= r}) > Cardinality(Usable(s))
    PROVE  MedianFrameRate(s) \in Nat /\ MedianFrameRate(s) <= 2 * r
<1> DEFINE U == Usable(s)
           n == Cardinality(U)
           h == Cardinality({i \in U : Rate(s[i]) <= r})
           middle == n \div 2
<1>1. IsFiniteSet(U) /\ n \in Nat
  BY UsableFinite
<1>2. h \in Nat /\ h <= n
  BY <1>1, FS_Subset, FS_CardinalityType
<1>3. 2 * h > n
  OBVIOUS
<1>4. \A k \in 1 .. n : h >= k => SortedRate(s, k) \in Nat /\ SortedRate(s, k) <= r
  BY LowSide
<1>5. MedianFrameRate(s) = CASE n = 0 -> 0
          [] n > 0 /\ n % 2 = 1 -> 2 * SortedRate(s, middle + 1)
          [] OTHER -> SortedRate(s, middle) + SortedRate(s, middle + 1)
  BY DEF MedianFrameRate
<1> HIDE DEF U, n, h
<1>6. n > 0 /\ middle \in Nat
  BY <1>1, <1>2, <1>3
<1>7. CASE n % 2 = 1
  <2>1. middle + 1 \in 1 .. n /\ h >= middle + 1
    BY <1>1, <1>2, <1>3, <1>7
  <2>2. MedianFrameRate(s) = 2 * SortedRate(s, middle + 1)
    BY <1>5, <1>6, <1>7
  <2>3. QED
    BY <1>4, <2>1, <2>2
<1>8. CASE n % 2 # 1
  <2>1. n = 2 * middle
    BY <1>1, <1>8
  <2>2. /\ middle \in 1 .. n /\ h >= middle
        /\ middle + 1 \in 1 .. n /\ h >= middle + 1
    BY <1>1, <1>2, <1>3, <1>6, <2>1
  <2>3. MedianFrameRate(s) = SortedRate(s, middle) + SortedRate(s, middle + 1)
    BY <1>5, <1>6, <1>8
  <2>4. QED
    BY <1>4, <2>2, <2>3
<1>9. QED
  BY <1>7, <1>8

(* medianFrameRate: where most segments stay within a rate,                *)
(* captureAnomalies reports none that keeps half of it, so a few segments  *)
(* with many frames cannot make anomalies of ordinary ones.                *)
THEOREM NoFalseAlarms == CoverageSpec => []NoFalseAlarm
<1>1. CoverageInv => NoFalseAlarm
  <2> SUFFICES ASSUME CoverageInv, NEW typical \in Usable(Inventory),
                      2 * Cardinality({i \in Usable(Inventory) : RateAt(i) <= RateAt(typical)}) > Cardinality(Usable(Inventory)),
                      NEW i \in Flagged
               PROVE  2 * RateAt(i) < RateAt(typical)
    BY DEF NoFalseAlarm
  <2> DEFINE s == Inventory
  <2>1. s \in Seq(SegmentType)
    BY DEF CoverageInv, RecordingTypes, Inventory
  <2>2. Anomaly(s[i], "low_frame_rate") \in CaptureAnomalies(s) /\ i \in DOMAIN s
    BY DEF Flagged, Reconcile, Anomaly
  <2>3. PICK m \in Elements(s) : /\ m.seq = s[i].seq /\ Length(m) > 0 /\ m.frames > 0
                                 /\ LowRate(m, MedianFrameRate(s))
    BY <2>2 DEF CaptureAnomalies, Anomaly
  <2>4. m = s[i]
    <3>1. PICK p \in DOMAIN s : m = s[p]
      BY <2>3 DEF Elements
    <3>2. p = i
      BY <2>1, <2>2, <2>3, <3>1 DEF CoverageInv, Numbered, RecordingTypes, Inventory
    <3>3. QED
      BY <3>1, <3>2
  <2>5. i \in Usable(s)
    BY <2>2, <2>3, <2>4 DEF Usable
  <2>6. RateAt(i) \in Nat /\ RateAt(typical) \in Nat
    BY <2>1, <2>5, RateIsNatural DEF RateAt
  <2>7. MedianFrameRate(s) \in Nat /\ MedianFrameRate(s) <= 2 * RateAt(typical)
    BY <2>1, <2>6, MedianIsLow DEF RateAt
  <2>8. 4 * RateAt(i) < MedianFrameRate(s)
    BY <2>3, <2>4 DEF LowRate, RateAt
  <2>9. QED
    BY <2>6, <2>7, <2>8
<1>2. QED
  BY <1>1, CoverageInductive, PTL
=============================================================================
