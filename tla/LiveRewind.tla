----------------------------- MODULE LiveRewind -----------------------------
(***************************************************************************)
(* Live rewind of one stream: ffmpeg's local HLS playlist, the watcher     *)
(* that tails it, the uploader that registers the assets in Redis, and the *)
(* media playlist GetLiveManifest builds from them for a monitor.          *)
(*                                                                         *)
(* An epoch is one ffmpeg attempt; every epoch has its own init segment,   *)
(* and fragment numbers run on across epochs.  Times are media time since  *)
(* the epoch's base (its first fragment's start), the only time a playlist *)
(* compares.                                                               *)
(***************************************************************************)
EXTENDS Integers, Sequences, FiniteSets

CONSTANTS
    Durations,      \* fragment durations ffmpeg reports
    Window,         \* liveRewindWindow; 0 serves the whole stream
    MaxEpochs,      \* bound: ffmpeg attempts
    MaxFrags,       \* bound: fragments of one attempt
    MaxFaults       \* bound: failing uploads or registrations

ASSUME RewindAssumption ==
    /\ Durations \subseteq Nat /\ Window \in Nat
    /\ MaxEpochs \in Nat \ {0} /\ MaxFrags \in Nat /\ MaxFaults \in Nat

VARIABLES
    ffmpeg,         \* "running", "exited", or "stopped" for good
    epoch,          \* the attempt that writes the playlist
    playlist,       \* live.m3u8: durations of the finished fragments
    initFile,       \* init.mp4 is closed on disk (its reference comes first)
    sentInit, sentFrags,   \* the watcher's progress
    emitting,       \* events the watcher has read and the uploader not finished
    watching,       \* the watcher has not done its last read
    seq, lastEpoch, cumulative,   \* the uploader's progress
    inits, frags,   \* Redis: epochs with an init segment, fragments by seq
    registered,     \* Redis: the stream's session, which makes it live
    get,            \* a GetLiveManifest request's progress
    seenEnded, seenInits,   \* what it has read
    served,         \* the last playlist it answered with
    faults          \* failing calls so far

ffmpegVars == <<ffmpeg, epoch, playlist, initFile>>
watcherVars == <<sentInit, sentFrags, emitting, watching>>
uploaderVars == <<seq, lastEpoch, cumulative, inits, frags, faults>>
viewVars == <<get, seenEnded, seenInits, served>>
rewindVars == <<ffmpegVars, watcherVars, uploaderVars, registered, viewVars>>

NoPlaylist == <<>>

-----------------------------------------------------------------------------
(***************************************************************************)
(* ffmpeg and its supervisor.                                              *)
(***************************************************************************)

(* The playlist names init.mp4 before that file is closed.                 *)
WriteInit ==
    /\ ffmpeg = "running" /\ ~initFile
    /\ initFile' = TRUE
    /\ UNCHANGED <<ffmpeg, epoch, playlist, watcherVars, uploaderVars, registered, viewVars>>

WriteFragment(d) ==
    /\ ffmpeg = "running" /\ Len(playlist) < MaxFrags
    /\ playlist' = Append(playlist, d)
    /\ UNCHANGED <<ffmpeg, epoch, initFile, watcherVars, uploaderVars, registered, viewVars>>

(* The process dies, or StopProcess ends it; ffmpeg closes what it wrote   *)
(* first.                                                                  *)
Exit(how) ==
    /\ ffmpeg = "running"
    /\ ffmpeg' = how
    /\ initFile' = (initFile \/ playlist # <<>>)
    /\ UNCHANGED <<epoch, playlist, watcherVars, uploaderVars, registered, viewVars>>

(* The supervisor starts the next attempt, with a watcher of its own, once *)
(* forwardHLSFragments has drained the last: the uploader has taken all.   *)
Restart ==
    /\ ffmpeg = "exited" /\ ~watching /\ Len(emitting) <= 1 /\ epoch < MaxEpochs
    /\ ffmpeg' = "running" /\ epoch' = epoch + 1
    /\ playlist' = <<>> /\ initFile' = FALSE
    /\ sentInit' = FALSE /\ sentFrags' = 0 /\ watching' = TRUE
    /\ UNCHANGED <<emitting, uploaderVars, registered, viewVars>>

(* The supervisor gives up, or close stops it between two attempts.        *)
GiveUp ==
    /\ ffmpeg = "exited" /\ ~watching /\ Len(emitting) <= 1
    /\ ffmpeg' = "stopped"
    /\ UNCHANGED <<epoch, playlist, initFile, watcherVars, uploaderVars, registered, viewVars>>

-----------------------------------------------------------------------------
(***************************************************************************)
(* WatchHLSFragments and forwardHLSFragments: the watcher blocks until the *)
(* forwarder has taken every event of its read, over an unbuffered         *)
(* channel, and the forwarder until the uploader has.  So at most two      *)
(* events are under way when the watcher reads again, and one, the         *)
(* uploader's, when the attempt is over.                                   *)
(***************************************************************************)
InitEvent == [init |-> TRUE, epoch |-> epoch, duration |-> 0]
FragEvent(i) == [init |-> FALSE, epoch |-> epoch, duration |-> playlist[i]]
NewFragments == [i \in 1 .. Len(playlist) - sentFrags |-> FragEvent(sentFrags + i)]

(* Mutant: a reference to the init segment counts as the segment.          *)
EmitUnchecked ==
    /\ watching /\ Len(emitting) <= 2
    /\ emitting' = emitting \o (IF ~sentInit /\ initFile THEN <<InitEvent>> ELSE <<>>) \o NewFragments
    /\ sentInit' = TRUE
    /\ sentFrags' = Len(playlist)
    /\ watching' = (ffmpeg = "running")
    /\ UNCHANGED <<ffmpegVars, uploaderVars, registered, viewVars>>

(* A tick, or the last read once the attempt is over.  The init segment is *)
(* sent when its file exists, otherwise left to the next read.             *)
EmitNewHLSEntries ==
    /\ watching /\ Len(emitting) <= 2
    /\ emitting' = emitting \o (IF ~sentInit /\ initFile THEN <<InitEvent>> ELSE <<>>) \o NewFragments
    /\ sentInit' = (sentInit \/ initFile)
    /\ sentFrags' = Len(playlist)
    /\ watching' = (ffmpeg = "running")
    /\ UNCHANGED <<ffmpegVars, uploaderVars, registered, viewVars>>

-----------------------------------------------------------------------------
(***************************************************************************)
(* runHLSFragmentUploader.  A failing upload or registration is logged and *)
(* the asset skipped; a fragment's number is used up either way.           *)
(***************************************************************************)
UploadInit ==
    /\ emitting # <<>> /\ Head(emitting).init
    /\ emitting' = Tail(emitting)
    /\ \/ inits' = inits \cup {Head(emitting).epoch} /\ UNCHANGED faults
       \/ faults < MaxFaults /\ faults' = faults + 1 /\ UNCHANGED inits
    /\ UNCHANGED <<ffmpegVars, sentInit, sentFrags, watching, seq, lastEpoch, cumulative, frags, registered, viewVars>>

(* Where a fragment starts: epochs start over.                             *)
StartOf(e) == IF e.epoch # lastEpoch THEN 0 ELSE cumulative

(* Mutant: the epoch's clock never advances.                               *)
UploadNotAccumulated ==
    LET e == Head(emitting) IN
    /\ emitting # <<>> /\ ~e.init
    /\ emitting' = Tail(emitting)
    /\ seq' = seq + 1 /\ lastEpoch' = e.epoch
    /\ cumulative' = StartOf(e)
    /\ frags' = Append(frags, [seq |-> seq, epoch |-> e.epoch, start |-> StartOf(e), duration |-> e.duration])
    /\ UNCHANGED <<ffmpegVars, sentInit, sentFrags, watching, inits, faults, registered, viewVars>>

UploadFragment ==
    LET e == Head(emitting) IN
    /\ emitting # <<>> /\ ~e.init
    /\ emitting' = Tail(emitting)
    /\ seq' = seq + 1 /\ lastEpoch' = e.epoch
    /\ cumulative' = StartOf(e) + e.duration
    /\ \/ /\ frags' = Append(frags, [seq |-> seq, epoch |-> e.epoch,
                                     start |-> StartOf(e), duration |-> e.duration])
          /\ UNCHANGED faults
       \/ faults < MaxFaults /\ faults' = faults + 1 /\ UNCHANGED frags
    /\ UNCHANGED <<ffmpegVars, sentInit, sentFrags, watching, inits, registered, viewVars>>

(* close unregisters the session once the archival upload is done or has   *)
(* timed out; the HLS upload goes on in the background.                    *)
Unregister ==
    /\ ffmpeg = "stopped" /\ registered
    /\ registered' = FALSE
    /\ UNCHANGED <<ffmpegVars, watcherVars, uploaderVars, viewVars>>

-----------------------------------------------------------------------------
(***************************************************************************)
(* buildLiveManifest.                                                      *)
(***************************************************************************)
Span(s) ==
    LET sum[i \in 0 .. Len(s)] == IF i = 0 THEN 0 ELSE sum[i - 1] + s[i].duration
    IN  sum[Len(s)]

From(s, i) == SubSeq(s, i, Len(s))

(* The trailing fragments, counted back from the newest until their span   *)
(* reaches the window.                                                     *)
WindowFragments(s) ==
    IF Window = 0 \/ Span(s) < Window THEN s
    ELSE From(s, CHOOSE i \in 1 .. Len(s) : Span(From(s, i)) >= Window
                     /\ \A j \in i + 1 .. Len(s) : Span(From(s, j)) < Window)

(* Where an epoch begins, but for the first.                               *)
Heads(s) == {i \in 2 .. Len(s) : s[i].epoch # s[i - 1].epoch}
EpochChanges(s) == Cardinality(Heads(s))

(* Mutant: the change at the window's edge is forgotten.                   *)
DiscontinuitiesInside(s, first) == Cardinality({i \in Heads(s) : s[i].seq < first})

(* Epoch changes up to the first windowed fragment, its own included.      *)
DiscontinuitiesBefore(s, first) == Cardinality({i \in Heads(s) : s[i].seq <= first})

(* Mutant: every playlist counts from zero.                                *)
ManifestFromZero(s, ended) ==
    [list |-> WindowFragments(s), mediaSequence |-> 0, ended |-> ended,
     discontinuitySequence |-> DiscontinuitiesBefore(s, WindowFragments(s)[1].seq)]

(* The playlist: its list, and the two counters it starts from.            *)
Manifest(s, ended) ==
    LET w == WindowFragments(s) IN
    [list |-> w, mediaSequence |-> w[1].seq, ended |-> ended,
     discontinuitySequence |-> DiscontinuitiesBefore(s, w[1].seq)]

(* It is refused when an epoch it lists has no init segment.               *)
Buildable(s, known) ==
    s # <<>> /\ \A i \in DOMAIN WindowFragments(s) : WindowFragments(s)[i].epoch \in known

(* GetLiveManifest reads the session, the init segments and the fragments  *)
(* one after the other.                                                    *)
ReadLive ==
    /\ get = "idle"
    /\ get' = "live" /\ seenEnded' = ~registered
    /\ UNCHANGED <<ffmpegVars, watcherVars, uploaderVars, registered, seenInits, served>>

ReadInits ==
    /\ get = "live"
    /\ get' = "inits" /\ seenInits' = inits
    /\ UNCHANGED <<ffmpegVars, watcherVars, uploaderVars, registered, seenEnded, served>>

GetLiveManifest ==
    /\ get = "inits"
    /\ get' = "idle" /\ seenInits' = {} /\ seenEnded' = FALSE
    /\ \/ Buildable(frags, seenInits) /\ served' = Manifest(frags, seenEnded)
       \/ ~Buildable(frags, seenInits) /\ UNCHANGED served
    /\ UNCHANGED <<ffmpegVars, watcherVars, uploaderVars, registered>>

-----------------------------------------------------------------------------
RewindInit ==
    /\ ffmpeg = "running" /\ epoch = 1 /\ playlist = <<>> /\ initFile = FALSE
    /\ sentInit = FALSE /\ sentFrags = 0 /\ emitting = <<>> /\ watching = TRUE
    /\ seq = 0 /\ lastEpoch = -1 /\ cumulative = 0
    /\ inits = {} /\ frags = <<>> /\ registered = TRUE
    /\ get = "idle" /\ seenEnded = FALSE /\ seenInits = {}
    /\ served = NoPlaylist /\ faults = 0

RecorderStep ==
    WriteInit \/ Exit("exited") \/ Exit("stopped") \/ Restart \/ GiveUp \/ \E d \in Durations : WriteFragment(d)
ViewStep == ReadLive \/ ReadInits \/ GetLiveManifest

RewindNext ==
    RecorderStep \/ EmitNewHLSEntries \/ UploadInit \/ UploadFragment \/ Unregister \/ ViewStep

RewindSpec == RewindInit /\ [][RewindNext]_rewindVars

(* The watcher's ticker, the uploader and the request handler run, ffmpeg  *)
(* closes the init file it has named, and players poll.                    *)
LiveSpec ==
    RewindSpec /\ WF_rewindVars(WriteInit) /\ WF_rewindVars(EmitNewHLSEntries) /\ WF_rewindVars(UploadInit \/ UploadFragment) /\ WF_rewindVars(ViewStep)

-----------------------------------------------------------------------------
Event ==
    [init : {TRUE}, epoch : 1 .. MaxEpochs, duration : {0}]
        \cup [init : {FALSE}, epoch : 1 .. MaxEpochs, duration : Durations]
Fragment == [seq : Nat, epoch : 1 .. MaxEpochs, start : Nat, duration : Durations]

(* Every variable has its type, and fragments are registered in the order  *)
(* of their numbers, no number twice.                                      *)
RewindTypeOK ==
    /\ ffmpeg \in {"running", "exited", "stopped"} /\ epoch \in 1 .. MaxEpochs
    /\ playlist \in Seq(Durations) /\ initFile \in BOOLEAN
    /\ sentInit \in BOOLEAN /\ sentFrags \in 0 .. Len(playlist) /\ watching \in BOOLEAN
    /\ emitting \in Seq(Event)
    /\ seq \in Nat /\ lastEpoch \in {-1} \cup 1 .. MaxEpochs /\ cumulative \in Nat
    /\ inits \subseteq 1 .. MaxEpochs /\ frags \in Seq(Fragment)
    /\ \A i \in DOMAIN frags : frags[i].seq < seq /\ \A j \in 1 .. i - 1 : frags[j].seq < frags[i].seq
    /\ registered \in BOOLEAN /\ get \in {"idle", "live", "inits"}
    /\ seenEnded \in BOOLEAN /\ seenInits \subseteq inits
    /\ faults \in 0 .. MaxFaults

(* What a player derives from a playlist for the i-th fragment it lists:   *)
(* its discontinuity number, its media sequence number and its date.       *)
Discontinuity(m, i) == m.discontinuitySequence + EpochChanges(SubSeq(m.list, 1, i))
Number(m, i) == m.mediaSequence + i - 1
EpochHead(m, i) ==
    CHOOSE h \in 1 .. i : /\ \A j \in h .. i : m.list[j].epoch = m.list[i].epoch
                          /\ h = 1 \/ m.list[h - 1].epoch # m.list[i].epoch
Date(m, i) == m.list[EpochHead(m, i)].start + Span(SubSeq(m.list, EpochHead(m, i), i - 1))

(* Two successive playlists, and the places of a fragment in both.         *)
Refresh(P(_, _)) ==
    (served # NoPlaylist /\ served' # NoPlaylist) =>
        \A i \in DOMAIN served.list, j \in DOMAIN served'.list :
            served.list[i].seq = served'.list[j].seq => P(i, j)

(* A fragment keeps its discontinuity number for as long as it is listed,  *)
(* however many restarts the window has scrolled past.                     *)
StableDiscontinuity ==
    [][Refresh(LAMBDA i, j : Discontinuity(served, i) = Discontinuity(served', j))]_rewindVars

(* No number is missing between two places of a playlist.                  *)
Contiguous(m, i, j) == m.list[j].seq - m.list[i].seq = j - i

(* Players count fragments from the media sequence number, and holes left  *)
(* by failed uploads change a fragment's count from one playlist to the    *)
(* next, but never down: a player that goes on at the next number of a     *)
(* refreshed playlist may see media twice and skips none that was stored.  *)
NothingSkipped == [][Refresh(LAMBDA i, j : Number(served, i) <= Number(served', j))]_rewindVars

(* The date a player accumulates within an epoch is the fragment's own,    *)
(* unless an upload failed on the way to it.                               *)
DatesExact ==
    served # NoPlaylist =>
        \A i \in DOMAIN served.list :
            Contiguous(served, EpochHead(served, i), i) => Date(served, i) = served.list[i].start

(* A stream with fragments is eventually served, although a reference to   *)
(* the init segment may precede its file, unless an upload failed.         *)
EventuallyServed == frags # <<>> ~> (served # NoPlaylist \/ faults > 0)

-----------------------------------------------------------------------------
(***************************************************************************)
(* What comments in the code say of it and the model refutes.              *)
(***************************************************************************)

(* "within an epoch the client derives each fragment's date by             *)
(* accumulating #EXTINF from here, which matches StartedAt exactly".       *)
DatesMatch ==
    served # NoPlaylist => \A i \in DOMAIN served.list : Date(served, i) = served.list[i].start

(* "getting either wrong is a classic way to make hls.js think fragments   *)
(* were skipped": a fragment keeps its media sequence number.              *)
NumbersKept == [][Refresh(LAMBDA i, j : Number(served, i) = Number(served', j))]_rewindVars

(* "fragments that will never come": a playlist closed with #EXT-X-ENDLIST *)
(* lists the last fragment the stream will ever have.                      *)
EndlistIsFinal ==
    [][(served # NoPlaylist /\ served.ended) => frags' = frags]_rewindVars
=============================================================================
