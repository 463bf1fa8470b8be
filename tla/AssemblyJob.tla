---------------------------- MODULE AssemblyJob ----------------------------
(***************************************************************************)
(* Inside one assembly: the job directory, the recording it uploads and    *)
(* the quality report stored beside it.                                    *)
(*                                                                         *)
(* RecordingAssembly treats the building of a recording as one step.  Here *)
(* it is taken apart for one stream.  Every process has a job directory of *)
(* its own for the stream and up to two callers (a consumer and the        *)
(* watchdog), which only its in-memory inFlight map keeps apart; nothing   *)
(* keeps two processes apart.  A crash leaves the directory as it was, and *)
(* a segment can be registered at any moment.  The semaphore over streams  *)
(* is left to RecordingAssembly.                                           *)
(***************************************************************************)
EXTENDS Integers, FiniteSets

CONSTANTS
    Processes,      \* replicas of the server, each with its own work dir
    Consuming,      \* those that are given the stream's Kafka messages
    Segments,       \* sequence numbers the stream can have
    Base,           \* of the numbers in file names: ten
    NameCapacity,   \* how many numbers "%04d" pads to one length: Base^4
    MaxFaults,      \* bound: failing calls to Redis, Kafka, disk, storage or ffmpeg
    MaxCrashes      \* bound: processes that crash

ASSUME JobAssumption ==
    /\ Consuming \subseteq Processes
    /\ Segments \subseteq Nat /\ IsFiniteSet(Segments)
    /\ {Base, NameCapacity} \subseteq Nat \ {0}
    /\ Cardinality(Segments) <= Base * NameCapacity     \* bound: one digit more
    /\ {MaxFaults, MaxCrashes} \subseteq Nat

VARIABLES
    registered,     \* Redis: the registered segments
    dir,            \* the job dir of a process: its .mp4 files, or NoDir
    inFlight,       \* processes whose inFlight map holds the stream
    pc,             \* where a caller is in assemble
    metas,          \* the segment list it read
    got,            \* indices it has downloaded
    inputs,         \* the files its concat list names, which is in order of name
    cutLists,       \* runs whose concat list lost a line to a failed write
    recording,      \* object store: recording.mp4, or NoObject
    report,         \* object store: the list quality.json describes, or NoObject
    status,         \* last recording.part.changed status published
    faults,
    crashed         \* processes that crashed and were restarted

storeVars == <<recording, report, status>>
runVars == <<metas, got, inputs, cutLists>>
counters == <<faults, crashed>>
vars == <<registered, dir, inFlight, pc, runVars, storeVars, counters>>

(* Every process has a watchdog, some a consumer that gets the stream.     *)
Runs == (Processes \X {"watchdog"}) \cup (Consuming \X {"consumer"})
Proc(r) == r[1]
RunsOf(p) == {r \in Runs : Proc(r) = p}

(* A set of numbers in ascending order: x is at its rank in S.             *)
Sorted(S) ==
    [i \in 1 .. Cardinality(S) |->
        CHOOSE x \in S : Cardinality({y \in S : y <= x}) = i]

(* The file name of index i is i-1, written with at least four digits.     *)
(* sort.Strings compares them as text: a name of five digits comes after   *)
(* those of four that are at most its first four ("1000.mp4" is before     *)
(* "10000.mp4").                                                           *)
LongName(i) == i > NameCapacity
SortsBefore(i, j) ==
    IF LongName(i) <=> LongName(j) THEN i < j
    ELSE IF LongName(j) THEN i - 1 <= (j - 1) \div Base
    ELSE (i - 1) \div Base < j - 1

SortedByName(S) ==
    [k \in 1 .. Cardinality(S) |->
        CHOOSE i \in S : Cardinality({j \in S : j = i \/ SortsBefore(j, i)}) = k]

(* A job dir maps file names to contents: NNNN.mp4 is its index, and       *)
(* recording.mp4, which sorts after all of them, is Output.  A content is  *)
(* the sequence of segments it plays, one unless it is Output's; a file    *)
(* cut short plays Torn.                                                   *)
Output == Cardinality(Segments) + 1
Torn == <<-1>>
NoDir == [exists |-> FALSE, files |-> <<>>]
NoObject == [exists |-> FALSE]
Dir(files) == [exists |-> TRUE, files |-> files]

Indices(r) == DOMAIN metas[r]

WriteFile(p, name, content) ==
    dir' = [dir EXCEPT ![p].files =
               [f \in DOMAIN @ \cup {name} |-> IF f = name THEN content ELSE @[f]]]

Ok == UNCHANGED faults
Fault == faults < MaxFaults /\ faults' = faults + 1

Goto(r, to) == pc' = [pc EXCEPT ![r] = to]

-----------------------------------------------------------------------------
(***************************************************************************)
(* How assemble returns: its deferred calls delete the inFlight entry and, *)
(* once the directory was made, remove it.  Its local variables go.        *)
(***************************************************************************)
Forget(rs) ==
    /\ metas' = [r \in Runs |-> IF r \in rs THEN <<>> ELSE metas[r]]
    /\ got' = [r \in Runs |-> IF r \in rs THEN {} ELSE got[r]]
    /\ inputs' = [r \in Runs |-> IF r \in rs THEN {} ELSE inputs[r]]
    /\ cutLists' = cutLists \ rs

Release(r) == inFlight' = inFlight \ {Proc(r)} /\ Forget({r})
RemoveAll(r) == dir' = [dir EXCEPT ![Proc(r)] = NoDir]

FailEarly(r) == Goto(r, "failed") /\ Release(r) /\ UNCHANGED dir

(* Mutant: the directory is kept when a job fails.                         *)
FailJobKeepsDir(r) == Goto(r, "failed") /\ Release(r) /\ UNCHANGED dir

FailJob(r) == Goto(r, "failed") /\ Release(r) /\ RemoveAll(r)

-----------------------------------------------------------------------------
(***************************************************************************)
(* assemble, one action per call that others can interleave with.          *)
(***************************************************************************)

Register(s) ==
    /\ s \notin registered
    /\ registered' = registered \cup {s}
    /\ UNCHANGED <<dir, inFlight, pc, runVars, storeVars, counters>>

(* Mutant: two callers of a process share the job dir.                     *)
ClaimUnguarded(r) ==
    /\ pc[r] = "idle"
    /\ inFlight' = inFlight \cup {Proc(r)}
    /\ Goto(r, "list")
    /\ UNCHANGED <<registered, dir, runVars, storeVars, counters>>

(* inFlight.LoadOrStore.  A stream that is in flight makes assemble return *)
(* nil, which the caller takes for success: nothing in this module makes   *)
(* it ask again.                                                           *)
Claim(r) ==
    /\ pc[r] = "idle"
    /\ \/ Proc(r) \in inFlight /\ UNCHANGED <<inFlight, pc>>
       \/ /\ Proc(r) \notin inFlight
          /\ inFlight' = inFlight \cup {Proc(r)}
          /\ Goto(r, "list")
    /\ UNCHANGED <<registered, dir, runVars, storeVars, counters>>

(* SegmentRegistry.List sorts by sequence number.  An empty list is an     *)
(* error of its own.                                                       *)
ListSegments(r) ==
    /\ pc[r] = "list"
    /\ \/ /\ registered # {} /\ Ok
          /\ metas' = [metas EXCEPT ![r] = Sorted(registered)]
          /\ Goto(r, "check") /\ UNCHANGED <<dir, inFlight, got, inputs, cutLists>>
       \/ /\ IF registered = {} THEN Ok ELSE Fault
          /\ FailEarly(r)
    /\ UNCHANGED <<registered, storeVars, crashed>>

(* A recording that is already there is announced again, and nothing is    *)
(* built; this branch comes before the job dir and does not remove it.     *)
RecordingExists(r) ==
    /\ pc[r] = "check"
    /\ \/ /\ Ok /\ Goto(r, IF recording.exists THEN "republish" ELSE "mkdir")
          /\ UNCHANGED <<dir, inFlight, runVars>>
       \/ Fault /\ FailEarly(r)
    /\ UNCHANGED <<registered, storeVars, crashed>>

(* MkdirAll accepts a directory that a crash left; then the disk check.    *)
MakeJobDir(r) ==
    /\ pc[r] = "mkdir"
    /\ \/ /\ Ok /\ Goto(r, "download") /\ UNCHANGED <<inFlight, runVars>>
          /\ dir' = [dir EXCEPT ![Proc(r)] = IF @.exists THEN @ ELSE Dir(<<>>)]
       \/ Fault /\ FailJob(r)
    /\ UNCHANGED <<registered, storeVars, crashed>>

(* Mutant: a file that is already there is not downloaded again.           *)
DownloadOnlyMissing(r, i) ==
    /\ pc[r] = "download" /\ i \notin got[r]
    /\ dir[Proc(r)].exists /\ Ok
    /\ IF i \in DOMAIN dir[Proc(r)].files
          THEN UNCHANGED dir
          ELSE WriteFile(Proc(r), i, <<metas[r][i]>>)
    /\ got' = [got EXCEPT ![r] = @ \cup {i}]
    /\ UNCHANGED <<pc, inFlight, registered, metas, inputs, cutLists, storeVars, crashed>>

(* downloadSegments runs in parallel, so in any order; os.Create replaces  *)
(* what is there.  The first error fails the job.                          *)
DownloadSegment(r, i) ==
    /\ pc[r] = "download" /\ i \notin got[r]
    /\ \/ /\ dir[Proc(r)].exists /\ Ok
          /\ WriteFile(Proc(r), i, <<metas[r][i]>>)
          /\ got' = [got EXCEPT ![r] = @ \cup {i}]
          /\ UNCHANGED <<pc, inFlight, metas, inputs, cutLists>>
       \/ /\ IF dir[Proc(r)].exists THEN Fault ELSE Ok
          /\ FailJob(r)
    /\ UNCHANGED <<registered, storeVars, crashed>>

(* filepath.Glob, sort and writeConcatList: every .mp4 in the directory,   *)
(* whoever put it there.  The list file may not be created; a line that    *)
(* cannot be written is missing, for Fprintf's error is ignored (ffmpeg    *)
(* refuses a list without a segment or with half a line).                  *)
WriteConcatList(r) ==
    /\ pc[r] = "download" /\ got[r] = Indices(r)
    /\ LET files == IF dir[Proc(r)].exists THEN DOMAIN dir[Proc(r)].files ELSE {}
       IN \/ /\ \/ inputs' = [inputs EXCEPT ![r] = files] /\ Ok /\ UNCHANGED cutLists
                \/ \E lines \in SUBSET files \ {files} :
                      /\ lines \ {Output} # {} /\ Fault
                      /\ inputs' = [inputs EXCEPT ![r] = lines]
                      /\ cutLists' = cutLists \cup {r}
             /\ files # {}
             /\ Goto(r, "concat") /\ UNCHANGED <<dir, inFlight, metas, got>>
          \/ /\ IF files = {} THEN Ok ELSE Fault
             /\ FailJob(r)
    /\ UNCHANGED <<registered, storeVars, crashed>>

(* ffmpeg truncates its output before it reads.  When an earlier output is *)
(* among its inputs it therefore reads an empty file, which it may skip or *)
(* refuse; a missing input it refuses.                                     *)
Concat(r) ==
    /\ pc[r] = "concat"
    /\ LET d == dir[Proc(r)]
           files == SortedByName(inputs[r] \ {Output})
           readable == d.exists /\ inputs[r] \ {Output} \subseteq DOMAIN d.files
       IN \/ /\ readable /\ Ok
             /\ WriteFile(Proc(r), Output, [i \in DOMAIN files |-> d.files[files[i]][1]])
             /\ Goto(r, "upload") /\ UNCHANGED <<inFlight, runVars>>
          \/ /\ IF readable /\ Output \notin inputs[r] THEN Fault ELSE Ok
             /\ FailJob(r)
    /\ UNCHANGED <<registered, storeVars, crashed>>

(* LookupUpload and inspectRecording only read and log; the output is      *)
(* opened and put under the recording's key, replacing what is there.      *)
UploadFinalRecording(r) ==
    /\ pc[r] = "upload"
    /\ \/ /\ dir[Proc(r)].exists /\ Output \in DOMAIN dir[Proc(r)].files /\ Ok
          /\ recording' = [exists |-> TRUE, listed |-> metas[r], whole |-> r \notin cutLists,
                           plays |-> dir[Proc(r)].files[Output]]
          /\ Goto(r, "report") /\ UNCHANGED <<dir, inFlight, runVars>>
       \/ /\ IF dir[Proc(r)].exists THEN Fault ELSE Ok
          /\ FailJob(r) /\ UNCHANGED recording
    /\ UNCHANGED <<registered, report, status, crashed>>

(* storeQualityReport never fails the job.                                 *)
StoreQualityReport(r) ==
    /\ pc[r] = "report"
    /\ \/ report' = [exists |-> TRUE, listed |-> metas[r]] /\ Ok
       \/ Fault /\ UNCHANGED report
    /\ Goto(r, "publish")
    /\ UNCHANGED <<registered, dir, inFlight, runVars, recording, status, crashed>>

(* publishRecordingState at the end of assemble.  Its error is not         *)
(* followed by a FAILED state.                                             *)
PublishReady(r) ==
    /\ pc[r] \in {"publish", "republish"}
    /\ (status' = "READY" /\ Ok) \/ (Fault /\ UNCHANGED status)
    /\ IF pc[r] = "publish" THEN RemoveAll(r) ELSE UNCHANGED dir
    /\ Release(r) /\ Goto(r, "idle")
    /\ UNCHANGED <<registered, recording, report, crashed>>

(* AssembleRequested publishes FAILED after assemble has returned.         *)
PublishFailed(r) ==
    /\ pc[r] = "failed"
    /\ (status' = "FAILED" /\ Ok) \/ (Fault /\ UNCHANGED status)
    /\ Goto(r, "idle")
    /\ UNCHANGED <<registered, dir, inFlight, runVars, recording, report, crashed>>

(* The process dies: its goroutines and its inFlight map are gone, its     *)
(* directory stays, with the files being written cut short.                *)
Writing(r) ==
    CASE pc[r] = "download" -> Indices(r) \ got[r]
      [] pc[r] = "concat" -> {Output}
      [] OTHER -> {}

Crash(p) ==
    /\ p \notin crashed /\ Cardinality(crashed) < MaxCrashes
    /\ crashed' = crashed \cup {p}
    /\ \E torn \in SUBSET UNION {Writing(r) : r \in RunsOf(p)} :
          IF dir[p].exists
             THEN dir' = [dir EXCEPT ![p].files =
                        [f \in DOMAIN @ \cup torn |-> IF f \in torn THEN Torn ELSE @[f]]]
             ELSE torn = {} /\ UNCHANGED dir
    /\ inFlight' = inFlight \ {p}
    /\ pc' = [r \in Runs |-> IF Proc(r) = p THEN "idle" ELSE pc[r]]
    /\ Forget(RunsOf(p))
    /\ UNCHANGED <<registered, storeVars, faults>>

-----------------------------------------------------------------------------
Init ==
    /\ registered = {} /\ inFlight = {}
    /\ dir = [p \in Processes |-> NoDir]
    /\ pc = [r \in Runs |-> "idle"]
    /\ metas = [r \in Runs |-> <<>>]
    /\ got = [r \in Runs |-> {}]
    /\ inputs = [r \in Runs |-> {}] /\ cutLists = {}
    /\ recording = NoObject /\ report = NoObject /\ status = "none"
    /\ faults = 0 /\ crashed = {}

Assemble(r) ==
    \/ ListSegments(r) \/ RecordingExists(r) \/ MakeJobDir(r)
    \/ \E i \in Indices(r) : DownloadSegment(r, i)
    \/ WriteConcatList(r) \/ Concat(r) \/ UploadFinalRecording(r)
    \/ StoreQualityReport(r) \/ PublishReady(r) \/ PublishFailed(r)

Next ==
    \/ \E s \in Segments : Register(s)
    \/ \E r \in Runs : Claim(r) \/ Assemble(r)
    \/ \E p \in Processes : Crash(p)

Spec == Init /\ [][Next]_vars

(* A goroutine that is running makes progress.  Nobody has to ask.         *)
Fairness == \A r \in Runs : WF_vars(Assemble(r))

LiveSpec == Spec /\ Fairness

-----------------------------------------------------------------------------
TypeOK ==
    /\ registered \subseteq Segments /\ inFlight \subseteq Processes
    /\ DOMAIN dir = Processes
    /\ \A p \in Processes :
          /\ DOMAIN dir[p] = {"exists", "files"} /\ dir[p].exists \in BOOLEAN
          /\ DOMAIN dir[p].files \subseteq 1 .. Output
    /\ pc \in [Runs -> {"idle", "list", "check", "mkdir", "download", "concat", "upload",
                        "report", "publish", "republish", "failed"}]
    /\ DOMAIN metas = Runs /\ \A r \in Runs : metas[r] \in [Indices(r) -> Segments]
    /\ DOMAIN got = Runs /\ \A r \in Runs : got[r] \subseteq Indices(r)
    /\ inputs \in [Runs -> SUBSET (1 .. Output)] /\ cutLists \subseteq Runs
    /\ recording.exists \in BOOLEAN /\ report.exists \in BOOLEAN
    /\ status \in {"none", "READY", "FAILED"}
    /\ faults \in 0..MaxFaults /\ crashed \subseteq Processes

(* A stored recording plays exactly the segments that were listed for it,  *)
(* each once and in order: neither another caller of the process, nor a    *)
(* segment registered meanwhile, nor the files a crash left in the job dir *)
(* put a segment in twice, in the wrong place, cut short or not at all.    *)
(* This takes a list that was written whole, and no more segments than     *)
(* there are file names of one length.                                     *)
NamesSort == Cardinality(DOMAIN recording.listed) <= NameCapacity

RecordingIsListed ==
    recording.exists /\ recording.whole /\ NamesSort => recording.plays = recording.listed

InJob(r) == pc[r] \in {"download", "concat", "upload", "report", "publish"}

(* A job dir exists only while its job runs or after a crash: "cleanup for *)
(* both fail and success" removes it on every path out of assemble.        *)
DirIsOwned ==
    \A p \in Processes :
        dir[p].exists => p \in crashed \/ \E r \in RunsOf(p) : InJob(r)

(* What a crash leaves behind, an earlier recording.mp4 included, never    *)
(* stops a stream from being recorded: the attempt that trips over it      *)
(* removes it.  So a stream for which assemble runs again and again is     *)
(* recorded.  Who has it run again is RecordingAssembly's question.        *)
EventuallyRecorded ==
    []<>(\E r \in Runs : pc[r] = "list") => (registered # {} ~> recording.exists)

-----------------------------------------------------------------------------
(* Refuted: an assembly is "effectively one-shot"                          *)
(* (segment/handler.go:203).  Two processes pass the existence check       *)
(* together and the second upload replaces the first.                      *)
OneShot == [][recording.exists => recording' = recording]_vars

(* Refuted: however many segments there are, they are played in order.     *)
NamesAlwaysSort ==
    recording.exists /\ recording.whole => recording.plays = recording.listed

(* Refuted: a recording that is stored names every listed segment.  A line *)
(* that could not be written is missing, and READY is published.           *)
ListIsWhole == recording.exists => recording.whole

(* Refuted: the last state published for a recorded stream is not FAILED.  *)
(* FAILED is published after the inFlight entry was deleted, so the state  *)
(* of one attempt can follow the recording of another.                     *)
FailedIsTrue ==
    status = "FAILED" /\ (\A r \in Runs : pc[r] = "idle") => ~recording.exists

(* Refuted: a job dir is eventually removed.  After a crash that follows   *)
(* the upload, every later attempt returns before it reaches the dir.      *)
EventuallyClean == \A p \in Processes : dir[p].exists ~> ~dir[p].exists
=============================================================================
