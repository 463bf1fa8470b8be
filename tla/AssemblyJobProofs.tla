------------------------- MODULE AssemblyJobProofs -------------------------
(***************************************************************************)
(* Theorems about AssemblyJob: for any number of processes, segments,      *)
(* failing calls and crashes, a stored recording whose concat list was     *)
(* written whole plays exactly what was listed for it, and any plays it in *)
(* order, both for as many segments as there are file names of one length; *)
(* and a job directory is removed on every path out of its job.            *)
(*                                                                         *)
(* The argument.  The inFlight map lets one caller of a process past the   *)
(* claim, so a job dir has one writer.  Segments are never unregistered    *)
(* and file names are indices, so whatever an earlier job left has a name  *)
(* that the new, longer list also has: it is overwritten before the        *)
(* directory is globbed.  Output sorts after every index and ffmpeg        *)
(* truncates it first, so an old one adds nothing.                         *)
(***************************************************************************)
EXTENDS AssemblyJob, FiniteSetTheorems, TLAPS

Busy(r) == pc[r] \notin {"idle", "failed"}

(* Only the holder of the process's inFlight entry is in assemble.         *)
Exclusive ==
    /\ \A r \in Runs : Busy(r) => Proc(r) \in inFlight
    /\ \A r, q \in Runs : Busy(r) /\ Busy(q) /\ Proc(r) = Proc(q) => r = q

Top == Cardinality(registered)

(* The listed segments are numbered from one, ascend, and are no more than *)
(* are registered by now.                                                  *)
ListOK(r) ==
    /\ Indices(r) = 1 .. Cardinality(Indices(r))
    /\ Cardinality(Indices(r)) \in 0 .. Top
    /\ \A i, j \in Indices(r) : i < j => metas[r][i] < metas[r][j]

Files(r) == dir[Proc(r)].files

(* No file has an index that the list does not have.                       *)
Covered(r) == Busy(r) /\ pc[r] # "list" => DOMAIN Files(r) \subseteq Indices(r) \cup {Output}

(* The file names of the list sort like their numbers.                     *)
Fits(r) == Cardinality(Indices(r)) <= NameCapacity

Ascending(seq) == \A i, j \in DOMAIN seq : i < j => seq[i] < seq[j]

(* What was downloaded is there; at concat that is everything, and the     *)
(* concat list names it, unless it lost a line; the output plays what it   *)
(* names, in order.                                                        *)
Progress(r) ==
    /\ pc[r] \in {"idle", "failed", "list", "check", "mkdir", "republish"} => got[r] = {}
    /\ pc[r] \in {"download", "concat"} =>
          \A i \in got[r] : i \in DOMAIN Files(r) /\ Files(r)[i] = <<metas[r][i]>>
    /\ pc[r] = "concat" =>
          /\ got[r] = Indices(r) /\ inputs[r] \ {Output} \subseteq Indices(r)
          /\ r \notin cutLists => inputs[r] \ {Output} = Indices(r)
    /\ pc[r] = "upload" => Output \in DOMAIN Files(r)
    /\ pc[r] = "upload" /\ Fits(r) =>
          /\ Ascending(Files(r)[Output])
          /\ r \notin cutLists => Files(r)[Output] = metas[r]

RunOK(r) == ListOK(r) /\ Covered(r) /\ Progress(r)

(* What a job dir holds was listed, so it is numbered within the registry. *)
DirsOK == \A p \in Processes : DOMAIN dir[p].files \subseteq 1 .. Top \cup {Output}

(* A stored recording never goes back, even when its list lost a line: a   *)
(* segment it plays comes before every segment of a higher sequence        *)
(* number, and none is played twice (SegmentRegistry.List sorts what       *)
(* HGETALL returns in any order).                                          *)
PlaysInOrder == recording.exists /\ NamesSort => Ascending(recording.plays)

PCs == {"idle", "list", "check", "mkdir", "download", "concat", "upload", "report",
        "publish", "republish", "failed"}

RunTypes ==
    /\ pc \in [Runs -> PCs]
    /\ DOMAIN metas = Runs /\ \A r \in Runs : metas[r] \in [Indices(r) -> Segments]
    /\ DOMAIN got = Runs /\ \A r \in Runs : got[r] \subseteq Indices(r)
    /\ inputs \in [Runs -> SUBSET (1 .. Output)] /\ cutLists \subseteq Runs

DirTypes ==
    /\ DOMAIN dir = Processes
    /\ \A p \in Processes :
          /\ DOMAIN dir[p] = {"exists", "files"} /\ dir[p].exists \in BOOLEAN
          /\ DOMAIN dir[p].files \subseteq 1 .. Output

StoreTypes ==
    /\ recording.exists \in BOOLEAN /\ report.exists \in BOOLEAN
    /\ status \in {"none", "READY", "FAILED"}
    /\ faults \in 0 .. MaxFaults /\ crashed \subseteq Processes

(* What the callers and the directories are in, apart from the stores.     *)
Core ==
    /\ registered \subseteq Segments /\ inFlight \subseteq Processes
    /\ RunTypes /\ DirTypes
    /\ Exclusive /\ DirsOK
    /\ \A r \in Runs : RunOK(r)

Stores == StoreTypes /\ RecordingIsListed /\ PlaysInOrder

JobInv == Core /\ Stores

-----------------------------------------------------------------------------
(***************************************************************************)
(* Sorted: by the pigeonhole principle every rank of a finite set is       *)
(* taken, so Sorted lists the whole set, and nothing else, ascending.      *)
(***************************************************************************)

(* The rank of an element is one of the positions, and a smaller element   *)
(* has a smaller rank.                                                     *)
LEMMA RankGrows ==
    ASSUME NEW S \in SUBSET Nat, IsFiniteSet(S), NEW x \in S
    PROVE  /\ Cardinality({y \in S : y <= x}) \in 1 .. Cardinality(S)
           /\ \A z \in S : x < z => Cardinality({y \in S : y <= x}) < Cardinality({y \in S : y <= z})
<1> DEFINE Upto(z) == {y \in S : y <= z}
<1>1. \A z \in S : IsFiniteSet(Upto(z)) /\ Cardinality(Upto(z)) \in Nat
                   /\ Cardinality(Upto(z)) <= Cardinality(S)
  <2> SUFFICES ASSUME NEW z \in S
               PROVE  IsFiniteSet(Upto(z)) /\ Cardinality(Upto(z)) \in Nat
                      /\ Cardinality(Upto(z)) <= Cardinality(S)
    OBVIOUS
  <2>1. Upto(z) \in SUBSET S
    OBVIOUS
  <2> HIDE DEF Upto
  <2>2. QED
    BY <2>1, FS_Subset, FS_CardinalityType
<1>2. Cardinality(Upto(x)) # 0
  <2>1. x \in Upto(x)
    OBVIOUS
  <2> HIDE DEF Upto
  <2>2. QED
    BY <1>1, <2>1, FS_EmptySet
<1>3. ASSUME NEW z \in S, x < z
      PROVE  Cardinality(Upto(x)) < Cardinality(Upto(z))
  <2>1. Upto(x) \in SUBSET Upto(z) /\ Upto(x) # Upto(z)
    <3>1. z \in Upto(z) /\ z \notin Upto(x)
      BY <1>3
    <3>2. ASSUME NEW y \in S, y <= x
          PROVE  y <= z
      <4>1. x \in Nat /\ y \in Nat /\ z \in Nat
        OBVIOUS
      <4>2. QED
        BY <4>1, <1>3, <3>2
    <3>3. QED
      BY <3>1, <3>2
  <2> HIDE DEF Upto
  <2>2. Cardinality(Upto(x)) <= Cardinality(Upto(z)) /\ Cardinality(Upto(x)) # Cardinality(Upto(z))
    BY <1>1, <2>1, FS_Subset
  <2>3. QED
    BY <1>1, <2>2
<1>4. Cardinality(S) \in Nat
  BY FS_CardinalityType
<1>5. Cardinality(Upto(x)) \in 1 .. Cardinality(S)
  <2> HIDE DEF Upto
  <2> QED
    BY <1>1, <1>2, <1>4
<1>6. QED
  BY <1>3, <1>5

LEMMA SortedEnumerates ==
    ASSUME NEW S \in SUBSET Nat, IsFiniteSet(S)
    PROVE  /\ Cardinality(S) \in Nat
           /\ Sorted(S) \in [1 .. Cardinality(S) -> S]
           /\ \A i \in 1 .. Cardinality(S) : Cardinality({y \in S : y <= Sorted(S)[i]}) = i
           /\ \A i, j \in 1 .. Cardinality(S) : i < j => Sorted(S)[i] < Sorted(S)[j]
<1> DEFINE n == Cardinality(S)
           Rank(x) == Cardinality({y \in S : y <= x})
           rank == [x \in S |-> Rank(x)]
<1>1. n \in Nat
  BY FS_CardinalityType
<1>2. \A x \in S : Rank(x) \in 1 .. n
  BY RankGrows
<1>3. \A x, z \in S : x < z => Rank(x) < Rank(z)
  BY RankGrows
<1> DEFINE L == Sorted(S)
<1>4. L = [i \in 1 .. n |-> CHOOSE x \in S : Rank(x) = i]
  BY DEF Sorted
<1> HIDE DEF Rank, n, L
<1>5. rank \in Injection(S, 1 .. n)
  <2>1. rank \in [S -> 1 .. n]
    BY <1>2
  <2>2. ASSUME NEW x \in S, NEW z \in S, x # z
        PROVE  rank[x] # rank[z]
    <3>1. x \in Nat /\ z \in Nat
      OBVIOUS
    <3>2. x < z \/ z < x
      BY <3>1, <2>2
    <3>3. Rank(x) \in Nat /\ Rank(z) \in Nat
      BY <1>1, <1>2
    <3>4. Rank(x) # Rank(z)
      BY <1>3, <3>2, <3>3
    <3>5. QED
      BY <3>4
  <2>3. QED
    BY <2>1, <2>2 DEF Injection, IsInjective
<1>6. IsFiniteSet(1 .. n) /\ Cardinality(1 .. n) = n
  BY <1>1, FS_Interval
<1>7. rank \in Surjection(S, 1 .. n)
  <2> HIDE DEF rank
  <2> QED
    BY <1>5, <1>6, FS_Injection DEF n
<1>8. \A i \in 1 .. n : \E x \in S : Rank(x) = i
  <2> SUFFICES ASSUME NEW i \in 1 .. n
               PROVE  \E x \in S : rank[x] = i
    OBVIOUS
  <2> HIDE DEF rank
  <2>1. QED
    BY <1>7 DEF Surjection
<1>9. ASSUME NEW i \in 1 .. n
      PROVE  L[i] \in S /\ Rank(L[i]) = i
  <2>1. L[i] = CHOOSE x \in S : Rank(x) = i
    BY <1>4
  <2>2. QED
    BY <2>1, <1>8
<1>10. L \in [1 .. n -> S]
  <2>1. DOMAIN L = 1 .. n /\ L = [i \in 1 .. n |-> L[i]]
    BY <1>4
  <2>2. QED
    BY <2>1, <1>9
<1>11. ASSUME NEW i \in 1 .. n, NEW j \in 1 .. n, i < j
       PROVE  L[i] < L[j]
  <2>1. L[i] \in S /\ L[j] \in S /\ Rank(L[i]) = i /\ Rank(L[j]) = j
    BY <1>9
  <2>2. L[i] \in Nat /\ L[j] \in Nat
    BY <2>1
  <2>3. L[i] # L[j]
    BY <2>1, <1>11, <1>1
  <2>4. ~ (L[j] < L[i])
    <3>1. ~ (j < i)
      BY <1>11, <1>1
    <3>2. L[j] < L[i] => Rank(L[j]) < Rank(L[i])
      BY <2>1, <1>3
    <3>3. QED
      BY <2>1, <3>1, <3>2
  <2>5. QED
    BY <2>2, <2>3, <2>4
<1>12. QED
  BY <1>1, <1>9, <1>10, <1>11 DEF n, L, Rank

(* The indices of a list are already sorted.                               *)
LEMMA SortedInterval ==
    ASSUME NEW n \in Nat
    PROVE  Sorted(1 .. n) = [i \in 1 .. n |-> i]
<1>1. 1 .. n \in SUBSET Nat /\ IsFiniteSet(1 .. n) /\ Cardinality(1 .. n) = n
  BY FS_Interval
<1> DEFINE L == Sorted(1 .. n)
<1>2. L \in [1 .. n -> 1 .. n]
  BY <1>1, SortedEnumerates
<1>3. \A i \in 1 .. n : Cardinality({y \in 1 .. n : y <= L[i]}) = i
  BY <1>1, SortedEnumerates
<1> HIDE DEF L
<1>4. ASSUME NEW i \in 1 .. n
      PROVE  L[i] = i
  <2>1. L[i] \in 1 .. n
    BY <1>2
  <2>2. {y \in 1 .. n : y <= L[i]} = 1 .. L[i]
    BY <2>1
  <2>3. Cardinality(1 .. L[i]) = L[i]
    BY <2>1, FS_Interval
  <2>4. QED
    BY <1>3, <2>2, <2>3
<1>5. L = [i \in 1 .. n |-> i]
  BY <1>2, <1>4
<1>6. QED
  BY <1>5 DEF L

(* Names of one length sort like their numbers.                            *)
LEMMA ShortNamesSort ==
    ASSUME NEW S \in SUBSET Nat, IsFiniteSet(S), \A x \in S : x <= NameCapacity
    PROVE  SortedByName(S) = Sorted(S)
<1> USE JobAssumption
<1> DEFINE n == Cardinality(S)
           Upto(x) == {y \in S : y <= x}
           NotAfter(x) == {y \in S : y = x \/ SortsBefore(y, x)}
           L == Sorted(S)
           N == SortedByName(S)
<1>1. ASSUME NEW x \in S
      PROVE  NotAfter(x) = Upto(x)
  <2>1. ASSUME NEW y \in S
        PROVE  SortsBefore(y, x) <=> y < x
    <3>1. ~ LongName(x) /\ ~ LongName(y)
      BY DEF LongName
    <3>2. QED
      BY <3>1 DEF SortsBefore
  <2>2. \A y \in S : (y = x \/ SortsBefore(y, x)) <=> y <= x
    BY <2>1
  <2>3. QED
    BY <2>2
<1>2. /\ n \in Nat /\ L \in [1 .. n -> S]
      /\ \A k \in 1 .. n : Cardinality(Upto(L[k])) = k
  BY SortedEnumerates
<1>3. \A x \in S, z \in S : x < z => Cardinality(Upto(x)) < Cardinality(Upto(z))
  BY RankGrows
<1>4. ASSUME NEW x \in S, NEW z \in S, Cardinality(Upto(x)) = Cardinality(Upto(z))
      PROVE  x = z
  <2>1. Cardinality(Upto(x)) \in 1 .. n
    BY RankGrows
  <2> HIDE DEF Upto, n
  <2>2. Cardinality(Upto(x)) \in Nat
    BY <2>1, <1>2
  <2>3. ~ (x < z) /\ ~ (z < x)
    BY <1>3, <1>4, <2>2
  <2>4. x \in Nat /\ z \in Nat
    OBVIOUS
  <2>5. QED
    BY <2>3, <2>4
<1>5. N = [k \in 1 .. n |-> CHOOSE x \in S : Cardinality(NotAfter(x)) = k]
  BY DEF SortedByName
<1> HIDE DEF Upto, NotAfter, n, L, N
<1>6. ASSUME NEW k \in 1 .. n
      PROVE  N[k] = L[k]
  <2>1. L[k] \in S /\ Cardinality(NotAfter(L[k])) = k
    BY <1>1, <1>2
  <2>2. N[k] = CHOOSE x \in S : Cardinality(NotAfter(x)) = k
    BY <1>5
  <2>3. N[k] \in S /\ Cardinality(NotAfter(N[k])) = k
    BY <2>1, <2>2
  <2>4. Cardinality(Upto(N[k])) = Cardinality(Upto(L[k]))
    BY <1>1, <2>1, <2>3
  <2>5. QED
    BY <1>4, <2>1, <2>3, <2>4
<1>7. N = L
  BY <1>2, <1>5, <1>6
<1>8. QED
  BY <1>7 DEF N, L

-----------------------------------------------------------------------------
(***************************************************************************)
(* The callers and the directories.                                        *)
(***************************************************************************)

LEMMA Numbers ==
    ASSUME Core
    PROVE  /\ IsFiniteSet(registered) /\ registered \in SUBSET Nat
           /\ Top \in Nat /\ Output \in Nat /\ Top < Output
           /\ \A r \in Runs : Indices(r) \subseteq 1 .. Top /\ Output \notin Indices(r)
<1>1. registered \in SUBSET Segments /\ IsFiniteSet(Segments) /\ Segments \subseteq Nat
  BY JobAssumption DEF Core
<1>2. IsFiniteSet(registered) /\ registered \in SUBSET Nat
  BY <1>1, FS_Subset
<1>3. Top \in Nat /\ Cardinality(Segments) \in Nat /\ Top <= Cardinality(Segments)
  BY <1>1, <1>2, FS_Subset, FS_CardinalityType DEF Top
<1>4. Output \in Nat /\ Top < Output
  BY <1>3 DEF Output
<1>5. ASSUME NEW r \in Runs
      PROVE  Indices(r) \subseteq 1 .. Top /\ Output \notin Indices(r)
  <2>1. Indices(r) = 1 .. Cardinality(Indices(r)) /\ Cardinality(Indices(r)) \in 0 .. Top
    BY DEF Core, RunOK, ListOK
  <2> DEFINE k == Cardinality(Indices(r))
  <2>2. k \in 0 .. Top /\ Indices(r) = 1 .. k
    BY <2>1
  <2> HIDE DEF k
  <2>3. QED
    BY <2>2, <1>3, <1>4
<1>6. QED
  BY <1>2, <1>3, <1>4, <1>5

(* A run is a caller of a process.                                         *)
LEMMA ProcTyped ==
    ASSUME NEW r \in Runs
    PROVE  Proc(r) \in Processes
  BY JobAssumption DEF Runs, Proc

(* An empty list is in order.                                              *)
LEMMA Emptied ==
    ASSUME Core, NEW r \in Runs, metas'[r] = <<>>, UNCHANGED registered
    PROVE  ListOK(r)' /\ Indices(r)' = {}
<1>1. Indices(r)' = {}
  BY DEF Indices
<1>2. Cardinality({}) = 0 /\ 1 .. 0 = {}
  BY FS_EmptySet
<1>3. Top' \in Nat
  BY Numbers DEF Top
<1>4. Indices(r)' = 1 .. Cardinality(Indices(r)') /\ Cardinality(Indices(r)') \in 0 .. Top'
  BY <1>1, <1>2, <1>3
<1>5. QED
  BY <1>1, <1>4 DEF ListOK

(* A step of one run leaves the others alone: those of other processes     *)
(* have another directory, those of its process are not in assemble.       *)
LEMMA Others ==
    ASSUME Core, NEW q \in Runs, UNCHANGED registered,
           pc'[q] = pc[q], metas'[q] = metas[q], got'[q] = got[q], inputs'[q] = inputs[q],
           q \in cutLists' <=> q \in cutLists,
           dir'[Proc(q)] = dir[Proc(q)] \/ ~Busy(q)
    PROVE  RunOK(q)'
<1>1. RunOK(q)
  BY DEF Core
<1>2. Indices(q)' = Indices(q) /\ Top' = Top /\ (Busy(q)' <=> Busy(q)) /\ Output' = Output
      /\ (Fits(q)' <=> Fits(q))
  BY DEF Indices, Top, Busy, Output, Fits
<1>3. ListOK(q)'
  BY <1>1, <1>2 DEF RunOK, ListOK
<1>4. CASE dir'[Proc(q)] = dir[Proc(q)]
  <2>1. Files(q)' = Files(q)
    BY <1>4 DEF Files, Proc
  <2>2. Covered(q)'
    BY <1>1, <1>2, <2>1 DEF RunOK, Covered
  <2>3. Progress(q)'
    BY <1>1, <1>2, <2>1 DEF RunOK, Progress
  <2>4. QED
    BY <1>3, <2>2, <2>3 DEF RunOK
<1>5. CASE ~Busy(q)
  <2>1. pc'[q] \in {"idle", "failed"}
    BY <1>5 DEF Busy
  <2>2. Covered(q)'
    BY <2>1 DEF Covered, Busy
  <2>3. Progress(q)'
    BY <1>1, <2>1 DEF RunOK, Progress
  <2>4. QED
    BY <1>3, <2>2, <2>3 DEF RunOK
<1>6. QED
  BY <1>4, <1>5

(* The others of its process are not in assemble.                          *)
LEMMA Alone ==
    ASSUME Core, NEW r \in Runs, Busy(r), NEW q \in Runs, q # r, Proc(q) = Proc(r)
    PROVE  ~Busy(q)
  BY DEF Core, Exclusive

(* Every way out of assemble, with or without the removal of the dir.      *)
LEMMA Leave ==
    ASSUME Core, NEW r \in Runs, Busy(r), UNCHANGED registered,
           NEW to \in {"idle", "failed"}, Goto(r, to), Release(r),
           UNCHANGED dir \/ RemoveAll(r)
    PROVE  Core'
<1>1. /\ \A q \in Runs : pc'[q] = IF q = r THEN to ELSE pc[q]
      /\ pc' \in [Runs -> PCs]
  BY DEF Goto, Core, RunTypes, PCs
<1>2. /\ inFlight' = inFlight \ {Proc(r)}
      /\ metas' = [q \in Runs |-> IF q = r THEN <<>> ELSE metas[q]]
      /\ got' = [q \in Runs |-> IF q = r THEN {} ELSE got[q]]
      /\ inputs' = [q \in Runs |-> IF q = r THEN {} ELSE inputs[q]]
      /\ cutLists' = cutLists \ {r}
  BY DEF Release, Forget
<1>3. /\ dir' = [p \in Processes |-> dir'[p]] \/ dir' = dir
      /\ \A p \in Processes : dir'[p] = dir[p] \/ (p = Proc(r) /\ dir'[p] = NoDir)
      /\ DOMAIN dir' = Processes
  BY DEF Core, DirTypes, RemoveAll
<1>4. DirTypes' /\ DirsOK'
  <2>1. ASSUME NEW p \in Processes
        PROVE  /\ DOMAIN dir'[p] = {"exists", "files"} /\ dir'[p].exists \in BOOLEAN
               /\ DOMAIN dir'[p].files \subseteq 1 .. Output
               /\ DOMAIN dir'[p].files \subseteq 1 .. Top \cup {Output}
    <3>1. CASE dir'[p] = dir[p]
      BY <3>1 DEF Core, DirTypes, DirsOK
    <3>2. CASE dir'[p] = NoDir
      <4>1. DOMAIN NoDir = {"exists", "files"} /\ NoDir.exists = FALSE /\ DOMAIN NoDir.files = {}
        BY DEF NoDir
      <4>2. QED
        BY <3>2, <4>1
    <3>3. QED
      BY <1>3, <3>1, <3>2
  <2>2. Top' = Top /\ Output' = Output
    BY DEF Top, Output
  <2>3. QED
    BY <2>1, <2>2, <1>3 DEF DirTypes, DirsOK
<1>5. ListOK(r)' /\ Indices(r)' = {}
  BY <1>2, Emptied
<1>6. \A q \in Runs \ {r} : RunOK(q)'
  <2> SUFFICES ASSUME NEW q \in Runs, q # r
               PROVE  RunOK(q)'
    OBVIOUS
  <2>1. dir'[Proc(q)] = dir[Proc(q)] \/ ~Busy(q)
    BY <1>3, Alone, ProcTyped
  <2>2. pc'[q] = pc[q] /\ metas'[q] = metas[q] /\ got'[q] = got[q] /\ inputs'[q] = inputs[q]
        /\ (q \in cutLists' <=> q \in cutLists)
    BY <1>1, <1>2
  <2>3. QED
    BY <2>1, <2>2, Others
<1>7. RunOK(r)'
  <2>1. pc'[r] \in {"idle", "failed"} /\ got'[r] = {}
    BY <1>1, <1>2
  <2>2. Covered(r)' /\ Progress(r)'
    BY <2>1 DEF Covered, Progress, Busy
  <2>3. QED
    BY <1>5, <2>2 DEF RunOK
<1>8. RunTypes'
  <2>1. DOMAIN metas' = Runs /\ DOMAIN got' = Runs /\ inputs' \in [Runs -> SUBSET (1 .. Output)]
        /\ cutLists' \subseteq Runs
    BY <1>2 DEF Core, RunTypes
  <2>2. ASSUME NEW q \in Runs
        PROVE  metas'[q] \in [Indices(q)' -> Segments] /\ got'[q] \subseteq Indices(q)'
    <3>1. CASE q = r
      <4>1. metas'[q] = <<>> /\ Indices(q)' = {} /\ got'[q] = {}
        BY <3>1, <1>2, <1>5
      <4>2. <<>> \in [{} -> Segments]
        OBVIOUS
      <4>3. QED
        BY <4>1, <4>2
    <3>2. CASE q # r
      <4>1. metas'[q] = metas[q] /\ got'[q] = got[q] /\ Indices(q)' = Indices(q)
        BY <3>2, <1>2 DEF Indices
      <4>2. QED
        BY <4>1 DEF Core, RunTypes
    <3>3. QED
      BY <3>1, <3>2
  <2>3. Output' = Output
    BY DEF Output
  <2>4. QED
    BY <1>1, <2>1, <2>2, <2>3 DEF RunTypes
<1>9. Exclusive'
  <2>1. \A q \in Runs : Busy(q)' => Busy(q) /\ q # r
    BY <1>1 DEF Busy
  <2>2. \A q \in Runs : Busy(q)' => Proc(q) # Proc(r)
    BY <2>1, Alone
  <2>3. QED
    BY <2>1, <2>2, <1>2 DEF Core, Exclusive
<1>10. registered' \subseteq Segments /\ inFlight' \subseteq Processes
  BY <1>2 DEF Core
<1>11. QED
  BY <1>4, <1>6, <1>7, <1>8, <1>9, <1>10 DEF Core

(* A step of a run inside assemble: what it has to leave right is its own  *)
(* list, progress and directory.                                           *)
LEMMA Advance ==
    ASSUME Core, NEW r \in Runs, Busy(r), UNCHANGED <<registered, inFlight>>,
           NEW to \in PCs \ {"idle", "failed"}, Goto(r, to),
           DOMAIN metas' = Runs, DOMAIN got' = Runs, DOMAIN inputs' = Runs,
           \A q \in Runs \ {r} :
               metas'[q] = metas[q] /\ got'[q] = got[q] /\ inputs'[q] = inputs[q],
           cutLists' \in {cutLists, cutLists \cup {r}},
           inputs' \in [Runs -> SUBSET (1 .. Output)],
           metas'[r] \in [Indices(r)' -> Segments], got'[r] \subseteq Indices(r)',
           \A p \in Processes \ {Proc(r)} : dir'[p] = dir[p],
           DirTypes', DirsOK', RunOK(r)'
    PROVE  Core'
<1>1. /\ \A q \in Runs : pc'[q] = IF q = r THEN to ELSE pc[q]
      /\ pc' \in [Runs -> PCs]
  BY DEF Goto, Core, RunTypes
<1>2. \A q \in Runs \ {r} : RunOK(q)'
  <2> SUFFICES ASSUME NEW q \in Runs, q # r
               PROVE  RunOK(q)'
    OBVIOUS
  <2>1. dir'[Proc(q)] = dir[Proc(q)] \/ ~Busy(q)
    BY Alone, ProcTyped
  <2>2. pc'[q] = pc[q] /\ metas'[q] = metas[q] /\ got'[q] = got[q] /\ inputs'[q] = inputs[q]
        /\ (q \in cutLists' <=> q \in cutLists)
    BY <1>1
  <2>3. QED
    BY <2>1, <2>2, Others
<1>3. RunTypes'
  <2>1. ASSUME NEW q \in Runs
        PROVE  metas'[q] \in [Indices(q)' -> Segments] /\ got'[q] \subseteq Indices(q)'
    <3>1. CASE q = r
      BY <3>1
    <3>2. CASE q # r
      <4>1. metas'[q] = metas[q] /\ got'[q] = got[q] /\ Indices(q)' = Indices(q)
        BY <3>2 DEF Indices
      <4>2. QED
        BY <4>1 DEF Core, RunTypes
    <3>3. QED
      BY <3>1, <3>2
  <2>2. Output' = Output
    BY DEF Output
  <2>3. cutLists' \subseteq Runs
    BY DEF Core, RunTypes
  <2>4. QED
    BY <1>1, <2>1, <2>2, <2>3 DEF RunTypes
<1>4. Exclusive'
  <2>1. \A q \in Runs : Busy(q)' => Busy(q)
    BY <1>1 DEF Busy
  <2>2. QED
    BY <2>1 DEF Core, Exclusive
<1>5. registered' \subseteq Segments /\ inFlight' \subseteq Processes
  BY DEF Core
<1>6. QED
  BY <1>2, <1>3, <1>4, <1>5 DEF Core

(* The same for a step that only moves on, when that keeps its progress.   *)
LEMMA MoveOn ==
    ASSUME Core, NEW r \in Runs, Busy(r), UNCHANGED <<registered, inFlight, runVars, dir>>,
           NEW to \in PCs \ {"idle", "failed"}, Goto(r, to), Covered(r)', Progress(r)'
    PROVE  Core'
<1>1. /\ metas' = metas /\ got' = got /\ inputs' = inputs /\ cutLists' = cutLists
      /\ DOMAIN metas' = Runs /\ DOMAIN got' = Runs /\ DOMAIN inputs' = Runs
      /\ inputs' \in [Runs -> SUBSET (1 .. Output)]
      /\ Indices(r)' = Indices(r) /\ Top' = Top /\ Output' = Output
  BY DEF Core, RunTypes, runVars, Indices, Top, Output
<1>2. metas'[r] \in [Indices(r)' -> Segments] /\ got'[r] \subseteq Indices(r)'
  BY <1>1 DEF Core, RunTypes
<1>3. DirTypes' /\ DirsOK'
  BY <1>1 DEF Core, DirTypes, DirsOK
<1>4. RunOK(r)'
  <2>1. ListOK(r)
    BY DEF Core, RunOK
  <2>2. ListOK(r)'
    BY <2>1, <1>1 DEF ListOK
  <2>3. QED
    BY <2>2 DEF RunOK
<1>5. QED
  BY <1>1, <1>2, <1>3, <1>4, Advance

(* WriteFile, pointwise.                                                   *)
LEMMA Written ==
    ASSUME Core, NEW p \in Processes, NEW name, NEW content, WriteFile(p, name, content)
    PROVE  /\ DOMAIN dir' = Processes
           /\ \A q \in Processes \ {p} : dir'[q] = dir[q]
           /\ DOMAIN dir'[p] = {"exists", "files"} /\ dir'[p].exists = dir[p].exists
           /\ DOMAIN dir'[p].files = DOMAIN dir[p].files \cup {name}
           /\ dir'[p].files[name] = content
           /\ \A f \in DOMAIN dir[p].files : f # name => dir'[p].files[f] = dir[p].files[f]
<1>1. DOMAIN dir = Processes /\ DOMAIN dir[p] = {"exists", "files"}
  BY DEF Core, DirTypes
<1> DEFINE old == dir[p].files
           new == [f \in DOMAIN old \cup {name} |-> IF f = name THEN content ELSE old[f]]
<1>2. dir' = [dir EXCEPT ![p].files = new]
  BY DEF WriteFile
<1> HIDE DEF new
<1>3. /\ DOMAIN dir' = Processes
      /\ \A q \in Processes \ {p} : dir'[q] = dir[q]
      /\ dir'[p] = [dir[p] EXCEPT !.files = new]
  BY <1>1, <1>2
<1>4. DOMAIN dir'[p] = {"exists", "files"} /\ dir'[p].exists = dir[p].exists /\ dir'[p].files = new
  BY <1>1, <1>3
<1>5. /\ DOMAIN new = DOMAIN old \cup {name}
      /\ new[name] = content
      /\ \A f \in DOMAIN old : f # name => new[f] = old[f]
  BY DEF new
<1>6. QED
  BY <1>3, <1>4, <1>5

(* A file with an index or Output for its name keeps the directory typed.  *)
LEMMA WrittenTyped ==
    ASSUME Core, NEW p \in Processes, NEW name \in 1 .. Top \cup {Output}, NEW content,
           WriteFile(p, name, content), UNCHANGED registered
    PROVE  DirTypes' /\ DirsOK'
<1>1. /\ DOMAIN dir' = Processes
      /\ \A q \in Processes \ {p} : dir'[q] = dir[q]
      /\ DOMAIN dir'[p] = {"exists", "files"} /\ dir'[p].exists = dir[p].exists
      /\ DOMAIN dir'[p].files = DOMAIN dir[p].files \cup {name}
  BY Written
<1>2. name \in 1 .. Output
  BY Numbers
<1>3. Top' = Top /\ Output' = Output
  BY DEF Top, Output
<1>4. ASSUME NEW q \in Processes
      PROVE  /\ DOMAIN dir'[q] = {"exists", "files"} /\ dir'[q].exists \in BOOLEAN
             /\ DOMAIN dir'[q].files \subseteq 1 .. Output
             /\ DOMAIN dir'[q].files \subseteq 1 .. Top \cup {Output}
  BY <1>1, <1>2 DEF Core, DirTypes, DirsOK
<1>5. QED
  BY <1>1, <1>3, <1>4 DEF DirTypes, DirsOK

-----------------------------------------------------------------------------
(***************************************************************************)
(* The actions.                                                            *)
(***************************************************************************)

LEMMA RegisterCore ==
    ASSUME Core, NEW s \in Segments, Register(s)
    PROVE  Core'
<1>1. /\ registered' = registered \cup {s} /\ s \notin registered
      /\ UNCHANGED <<dir, inFlight, pc, metas, got, inputs, cutLists>>
  BY DEF Register, runVars
<1>2. Top' = Top + 1 /\ Top \in Nat /\ Output' = Output
  BY <1>1, Numbers, FS_AddElement DEF Top, Output
<1>3. registered' \subseteq Segments /\ inFlight' \subseteq Processes /\ RunTypes' /\ DirTypes'
      /\ Exclusive'
  BY <1>1, <1>2 DEF Core, RunTypes, DirTypes, Exclusive, Busy, Indices
<1>4. DirsOK'
  BY <1>1, <1>2 DEF Core, DirsOK
<1>5. ASSUME NEW r \in Runs
      PROVE  RunOK(r)'
  <2>1. RunOK(r) /\ Indices(r)' = Indices(r) /\ Files(r)' = Files(r)
    BY <1>1 DEF Core, Indices, Files, Proc
  <2>2. Covered(r)' /\ Progress(r)'
    BY <1>1, <1>2, <2>1 DEF RunOK, Covered, Progress, Busy, Fits
  <2>3. Cardinality(Indices(r)) \in 0 .. Top'
    BY <1>2, <2>1 DEF RunOK, ListOK
  <2>4. ListOK(r)'
    BY <1>1, <2>1, <2>3 DEF RunOK, ListOK
  <2>5. QED
    BY <2>2, <2>4 DEF RunOK
<1>6. QED
  BY <1>3, <1>4, <1>5 DEF Core

(* What does not touch the callers and the directories.                    *)
LEMMA Unchanged ==
    ASSUME Core, UNCHANGED <<registered, dir, inFlight, pc, runVars>>
    PROVE  Core'
  BY DEF runVars, Core, RunTypes, DirTypes, Exclusive, Busy, DirsOK, Top, RunOK,
     ListOK, Covered, Progress, Indices, Files, Fits

LEMMA ClaimCore ==
    ASSUME Core, NEW r \in Runs, Claim(r)
    PROVE  Core'
<1> SUFFICES ASSUME Proc(r) \notin inFlight
             PROVE  Core'
  <2>1. CASE Proc(r) \in inFlight
    BY <2>1, Unchanged DEF Claim, vars, runVars, counters
  <2>2. QED
    BY <2>1
<1>1. /\ pc[r] = "idle" /\ inFlight' = inFlight \cup {Proc(r)}
      /\ UNCHANGED <<registered, dir, metas, got, inputs, cutLists>>
  BY DEF Claim, runVars
<1>2. /\ \A q \in Runs : pc'[q] = IF q = r THEN "list" ELSE pc[q]
      /\ pc' \in [Runs -> PCs]
  BY DEF Claim, Goto, Core, RunTypes, PCs
<1>3. Top' = Top /\ Output' = Output
  BY <1>1 DEF Top, Output
<1>4. RunTypes' /\ DirTypes' /\ DirsOK' /\ registered' \subseteq Segments
  BY <1>1, <1>2, <1>3 DEF Core, RunTypes, DirTypes, DirsOK, Indices
<1>5. inFlight' \subseteq Processes
  BY <1>1, ProcTyped DEF Core
<1>6. Exclusive'
  <2>1. \A q \in Runs : Busy(q)' => q = r \/ (Busy(q) /\ Proc(q) # Proc(r))
    BY <1>1, <1>2 DEF Core, Exclusive, Busy
  <2>2. QED
    BY <1>1, <2>1 DEF Core, Exclusive
<1>7. ASSUME NEW q \in Runs, q # r
      PROVE  RunOK(q)'
  BY <1>1, <1>2, <1>7, Others
<1>8. RunOK(r)'
  <2>1. RunOK(r) /\ Indices(r)' = Indices(r) /\ pc'[r] = "list"
    BY <1>1, <1>2 DEF Core, Indices
  <2>2. Covered(r)'
    BY <2>1 DEF Covered
  <2>3. Progress(r)'
    BY <1>1, <2>1 DEF Progress, RunOK
  <2>4. ListOK(r)'
    BY <1>1, <1>3, <2>1 DEF RunOK, ListOK
  <2>5. QED
    BY <2>2, <2>3, <2>4 DEF RunOK
<1>9. QED
  BY <1>4, <1>5, <1>6, <1>7, <1>8 DEF Core

LEMMA FailEarlyCore ==
    ASSUME Core, NEW r \in Runs, Busy(r), UNCHANGED registered, FailEarly(r)
    PROVE  Core'
  BY Leave DEF FailEarly

LEMMA FailJobCore ==
    ASSUME Core, NEW r \in Runs, Busy(r), UNCHANGED registered, FailJob(r)
    PROVE  Core'
  BY Leave DEF FailJob

(* The list is as long as the registry, so it covers the directory.        *)
LEMMA ListSegmentsCore ==
    ASSUME Core, NEW r \in Runs, ListSegments(r)
    PROVE  Core'
<1>1. pc[r] = "list" /\ Busy(r) /\ UNCHANGED registered
  BY DEF ListSegments, Busy
<1>2. CASE FailEarly(r)
  BY <1>1, <1>2, FailEarlyCore
<1>3. CASE /\ metas' = [metas EXCEPT ![r] = Sorted(registered)]
           /\ Goto(r, "check") /\ UNCHANGED <<dir, inFlight, got, inputs, cutLists>>
  <2>1. /\ DOMAIN metas' = Runs /\ metas'[r] = Sorted(registered)
        /\ \A q \in Runs \ {r} : metas'[q] = metas[q]
    BY <1>3 DEF Core, RunTypes
  <2>2. IsFiniteSet(registered) /\ registered \in SUBSET Nat /\ Top \in Nat
    BY Numbers
  <2>3. /\ Sorted(registered) \in [1 .. Top -> registered]
        /\ \A i, j \in 1 .. Top : i < j => Sorted(registered)[i] < Sorted(registered)[j]
    BY <2>2, SortedEnumerates DEF Top
  <2>4. Indices(r)' = 1 .. Top /\ Top' = Top /\ Output' = Output
    BY <1>1, <2>1, <2>3 DEF Indices, Top, Output
  <2>5. Cardinality(1 .. Top) = Top
    BY <2>2, FS_Interval
  <2>6. ListOK(r)'
    <3>1. Indices(r)' = 1 .. Cardinality(Indices(r)') /\ Cardinality(Indices(r)') \in 0 .. Top'
      BY <2>2, <2>4, <2>5
    <3>2. \A i, j \in Indices(r)' : i < j => metas'[r][i] < metas'[r][j]
      BY <2>1, <2>3, <2>4
    <3>3. QED
      BY <3>1, <3>2 DEF ListOK
  <2>7. metas'[r] \in [Indices(r)' -> Segments]
    BY <2>1, <2>3, <2>4 DEF Core
  <2>8. pc'[r] = "check" /\ got'[r] = {}
    BY <1>1, <1>3 DEF Goto, Core, RunTypes, RunOK, Progress
  <2>9. Progress(r)'
    BY <2>8 DEF Progress
  <2>10. Covered(r)'
    <3>1. DOMAIN Files(r)' \subseteq 1 .. Top \cup {Output}
      BY <1>3, ProcTyped DEF Core, DirsOK, Files, Proc
    <3>2. QED
      BY <3>1, <2>4 DEF Covered
  <2>11. DirTypes' /\ DirsOK'
    BY <1>3, <2>4 DEF Core, DirTypes, DirsOK
  <2>12. RunOK(r)'
    BY <2>6, <2>9, <2>10 DEF RunOK
  <2>13. "check" \in PCs \ {"idle", "failed"}
    BY DEF PCs
  <2>14. /\ DOMAIN got' = Runs /\ DOMAIN inputs' = Runs
         /\ inputs' \in [Runs -> SUBSET (1 .. Output)]
         /\ \A q \in Runs \ {r} :
               metas'[q] = metas[q] /\ got'[q] = got[q] /\ inputs'[q] = inputs[q]
         /\ \A p \in Processes \ {Proc(r)} : dir'[p] = dir[p]
         /\ got'[r] \subseteq Indices(r)' /\ cutLists' = cutLists
    BY <1>3, <2>1, <2>8 DEF Core, RunTypes
  <2>15. QED
    BY <1>1, <1>3, <2>1, <2>7, <2>11, <2>12, <2>13, <2>14, Advance
<1>4. QED
  BY <1>2, <1>3 DEF ListSegments

LEMMA RecordingExistsCore ==
    ASSUME Core, NEW r \in Runs, RecordingExists(r)
    PROVE  Core'
<1>1. pc[r] = "check" /\ Busy(r) /\ UNCHANGED registered
  BY DEF RecordingExists, Busy
<1>2. CASE FailEarly(r)
  BY <1>1, <1>2, FailEarlyCore
<1>3. CASE /\ Goto(r, IF recording.exists THEN "republish" ELSE "mkdir")
           /\ UNCHANGED <<dir, inFlight, runVars>>
  <2>1. PICK to \in {"republish", "mkdir"} : Goto(r, to)
    BY <1>3
  <2>2. pc'[r] = to /\ to \in PCs \ {"idle", "failed"}
    BY <2>1 DEF Goto, PCs, Core, RunTypes
  <2>3. Covered(r) /\ Progress(r) /\ Files(r)' = Files(r) /\ Indices(r)' = Indices(r)
        /\ got' = got /\ Output' = Output
    BY <1>3 DEF Core, RunOK, Files, Proc, Indices, runVars, Output
  <2>4. Covered(r)'
    BY <1>1, <2>3 DEF Covered
  <2>5. Progress(r)'
    BY <1>1, <2>2, <2>3 DEF Progress
  <2>6. QED
    BY <1>1, <1>3, <2>1, <2>2, <2>4, <2>5, MoveOn DEF runVars
<1>4. QED
  BY <1>2, <1>3 DEF RecordingExists

(* MkdirAll keeps what a crash left, which the list covers.                *)
LEMMA MakeJobDirCore ==
    ASSUME Core, NEW r \in Runs, MakeJobDir(r)
    PROVE  Core'
<1>1. pc[r] = "mkdir" /\ Busy(r) /\ UNCHANGED registered
  BY DEF MakeJobDir, Busy
<1>2. CASE FailJob(r)
  BY <1>1, <1>2, FailJobCore
<1>3. CASE /\ Goto(r, "download") /\ UNCHANGED <<inFlight, runVars>>
           /\ dir' = [dir EXCEPT ![Proc(r)] = IF @.exists THEN @ ELSE Dir(<<>>)]
  <2> DEFINE p == Proc(r)
  <2>1. p \in Processes /\ DOMAIN dir = Processes
    BY ProcTyped DEF Core, DirTypes
  <2>2. /\ DOMAIN dir' = Processes
        /\ \A q \in Processes \ {p} : dir'[q] = dir[q]
        /\ dir'[p] = dir[p] \/ dir'[p] = Dir(<<>>)
    BY <1>3, <2>1
  <2>3. DOMAIN Dir(<<>>) = {"exists", "files"} /\ Dir(<<>>).exists = TRUE
        /\ DOMAIN Dir(<<>>).files = {}
    BY DEF Dir
  <2>4. /\ DOMAIN dir'[p] = {"exists", "files"} /\ dir'[p].exists \in BOOLEAN
        /\ DOMAIN dir'[p].files \subseteq DOMAIN dir[p].files
    BY <2>1, <2>2, <2>3 DEF Core, DirTypes
  <2>5. Top' = Top /\ Output' = Output
    BY <1>1 DEF Top, Output
  <2>6. ASSUME NEW q \in Processes
        PROVE  /\ DOMAIN dir'[q] = {"exists", "files"} /\ dir'[q].exists \in BOOLEAN
               /\ DOMAIN dir'[q].files \subseteq 1 .. Output
               /\ DOMAIN dir'[q].files \subseteq 1 .. Top \cup {Output}
    BY <2>2, <2>4 DEF Core, DirTypes, DirsOK
  <2>7. DirTypes' /\ DirsOK'
    BY <2>2, <2>5, <2>6 DEF DirTypes, DirsOK
  <2>8. /\ metas' = metas /\ got' = got /\ inputs' = inputs /\ cutLists' = cutLists
        /\ Indices(r)' = Indices(r)
        /\ pc'[r] = "download" /\ got[r] = {}
    BY <1>1, <1>3 DEF runVars, Indices, Goto, Core, RunTypes, RunOK, Progress
  <2>9. ListOK(r)'
    BY <2>5, <2>8 DEF Core, RunOK, ListOK
  <2>10. Progress(r)'
    BY <2>8 DEF Progress
  <2>11. Covered(r)'
    <3>1. DOMAIN dir[p].files \subseteq Indices(r) \cup {Output}
      BY <1>1 DEF Core, RunOK, Covered, Files, Busy
    <3>2. QED
      BY <3>1, <2>4, <2>5, <2>8 DEF Covered, Files, Proc
  <2>12. RunOK(r)'
    BY <2>9, <2>10, <2>11 DEF RunOK
  <2>13. "download" \in PCs \ {"idle", "failed"}
    BY DEF PCs
  <2>14. /\ DOMAIN metas' = Runs /\ DOMAIN got' = Runs /\ DOMAIN inputs' = Runs
         /\ inputs' \in [Runs -> SUBSET (1 .. Output)]
         /\ metas'[r] \in [Indices(r)' -> Segments] /\ got'[r] \subseteq Indices(r)'
         /\ \A q \in Runs \ {r} :
               metas'[q] = metas[q] /\ got'[q] = got[q] /\ inputs'[q] = inputs[q]
         /\ cutLists' = cutLists
    BY <2>8 DEF Core, RunTypes
  <2>15. QED
    BY <1>1, <1>3, <2>2, <2>7, <2>12, <2>13, <2>14, Advance
<1>4. QED
  BY <1>2, <1>3 DEF MakeJobDir

LEMMA DownloadSegmentCore ==
    ASSUME Core, NEW r \in Runs, NEW i \in Indices(r), DownloadSegment(r, i)
    PROVE  Core'
<1>1. pc[r] = "download" /\ Busy(r) /\ UNCHANGED registered
  BY DEF DownloadSegment, Busy
<1>2. CASE FailJob(r)
  BY <1>1, <1>2, FailJobCore
<1>3. CASE /\ WriteFile(Proc(r), i, <<metas[r][i]>>)
           /\ got' = [got EXCEPT ![r] = @ \cup {i}]
           /\ UNCHANGED <<pc, inFlight, metas, inputs, cutLists>>
  <2> DEFINE p == Proc(r)
  <2>1. p \in Processes /\ i \in 1 .. Top /\ i # Output
    BY ProcTyped, Numbers
  <2>2. /\ \A q \in Processes \ {p} : dir'[q] = dir[q]
        /\ DOMAIN dir'[p].files = DOMAIN dir[p].files \cup {i}
        /\ dir'[p].files[i] = <<metas[r][i]>>
        /\ \A f \in DOMAIN dir[p].files : f # i => dir'[p].files[f] = dir[p].files[f]
    BY <1>3, <2>1, Written
  <2>3. DirTypes' /\ DirsOK'
    BY <1>1, <1>3, <2>1, WrittenTyped
  <2>4. Top' = Top /\ Output' = Output /\ Indices(r)' = Indices(r)
    BY <1>1, <1>3 DEF Top, Output, Indices
  <2>5. /\ DOMAIN got' = Runs /\ got'[r] = got[r] \cup {i}
        /\ \A q \in Runs \ {r} : got'[q] = got[q]
    BY <1>3 DEF Core, RunTypes
  <2>6. ListOK(r)'
    BY <1>3, <2>4 DEF Core, RunOK, ListOK
  <2>7. Covered(r)'
    <3>1. DOMAIN dir[p].files \subseteq Indices(r) \cup {Output}
      BY <1>1 DEF Core, RunOK, Covered, Files, Busy
    <3>2. QED
      BY <3>1, <2>2, <2>4 DEF Covered, Files, Proc
  <2>8. Progress(r)'
    <3>1. \A f \in got[r] : f \in DOMAIN dir[p].files /\ dir[p].files[f] = <<metas[r][f]>>
      BY <1>1 DEF Core, RunOK, Progress, Files
    <3>2. \A f \in got'[r] : f \in DOMAIN dir'[p].files /\ dir'[p].files[f] = <<metas[r][f]>>
      BY <3>1, <2>2, <2>5
    <3>3. QED
      BY <1>1, <1>3, <3>2 DEF Progress, Files, Proc
  <2>9. RunOK(r)'
    BY <2>6, <2>7, <2>8 DEF RunOK
  <2>10. "download" \in PCs \ {"idle", "failed"} /\ Goto(r, "download")
    BY <1>1, <1>3 DEF PCs, Goto, Core, RunTypes
  <2>11. /\ DOMAIN metas' = Runs /\ DOMAIN inputs' = Runs
         /\ inputs' \in [Runs -> SUBSET (1 .. Output)]
         /\ metas'[r] \in [Indices(r)' -> Segments] /\ got'[r] \subseteq Indices(r)'
         /\ \A q \in Runs \ {r} :
               metas'[q] = metas[q] /\ got'[q] = got[q] /\ inputs'[q] = inputs[q]
    BY <1>3, <2>4, <2>5 DEF Core, RunTypes
  <2>12. QED
    BY <1>1, <1>3, <2>2, <2>3, <2>5, <2>9, <2>10, <2>11, Advance
<1>4. QED
  BY <1>2, <1>3 DEF DownloadSegment

(* The glob finds the downloaded files and, but for an old output, nothing *)
(* else.                                                                   *)
LEMMA WriteConcatListCore ==
    ASSUME Core, NEW r \in Runs, WriteConcatList(r)
    PROVE  Core'
<1>1. pc[r] = "download" /\ Busy(r) /\ got[r] = Indices(r) /\ UNCHANGED registered
  BY DEF WriteConcatList, Busy
<1>2. CASE FailJob(r)
  BY <1>1, <1>2, FailJobCore
<1>3. ASSUME NEW lines \in SUBSET DOMAIN Files(r),
             inputs' = [inputs EXCEPT ![r] = lines],
             \/ lines = DOMAIN Files(r) /\ UNCHANGED cutLists
             \/ cutLists' = cutLists \cup {r},
             Goto(r, "concat"), UNCHANGED <<dir, inFlight, metas, got>>
      PROVE  Core'
  <2> DEFINE p == Proc(r)
  <2>1. p \in Processes /\ Output \notin Indices(r)
    BY ProcTyped, Numbers
  <2>2. Top' = Top /\ Output' = Output /\ Indices(r)' = Indices(r) /\ Files(r)' = Files(r)
    BY <1>1, <1>3 DEF Top, Output, Indices, Files, Proc
  <2>3. /\ inputs'[r] = lines /\ pc'[r] = "concat"
        /\ \A q \in Runs \ {r} : inputs'[q] = inputs[q]
        /\ DOMAIN inputs' = Runs
    BY <1>3 DEF Core, RunTypes, Goto
  <2>4. DOMAIN Files(r) \subseteq 1 .. Output
    BY <2>1 DEF Core, DirTypes, Files
  <2>5. inputs' \in [Runs -> SUBSET (1 .. Output)]
    BY <1>3, <2>4 DEF Core, RunTypes
  <2>6. DOMAIN Files(r) \subseteq Indices(r) \cup {Output}
    BY <1>1 DEF Core, RunOK, Covered
  <2>7. \A i \in Indices(r) : i \in DOMAIN Files(r) /\ Files(r)[i] = <<metas[r][i]>>
    BY <1>1 DEF Core, RunOK, Progress
  <2>8. /\ lines \ {Output} \subseteq Indices(r)
        /\ r \notin cutLists' => lines \ {Output} = Indices(r)
    BY <1>3, <2>1, <2>6, <2>7
  <2>9. ListOK(r)'
    BY <1>3, <2>2 DEF Core, RunOK, ListOK
  <2>10. Covered(r)'
    BY <2>2, <2>6 DEF Covered
  <2>11. Progress(r)'
    BY <1>1, <1>3, <2>2, <2>3, <2>7, <2>8 DEF Progress
  <2>12. RunOK(r)'
    BY <2>9, <2>10, <2>11 DEF RunOK
  <2>13. DirTypes' /\ DirsOK'
    BY <1>3, <2>2 DEF Core, DirTypes, DirsOK
  <2>14. /\ DOMAIN metas' = Runs /\ DOMAIN got' = Runs
         /\ metas'[r] \in [Indices(r)' -> Segments] /\ got'[r] \subseteq Indices(r)'
         /\ \A q \in Runs \ {r} :
               metas'[q] = metas[q] /\ got'[q] = got[q] /\ inputs'[q] = inputs[q]
         /\ \A q \in Processes \ {p} : dir'[q] = dir[q]
    BY <1>3, <2>2, <2>3 DEF Core, RunTypes
  <2>15. "concat" \in PCs \ {"idle", "failed"}
    BY DEF PCs
  <2>16. QED
    BY <1>1, <1>3, <2>3, <2>5, <2>12, <2>13, <2>14, <2>15, Advance
<1>4. QED
  <2> DEFINE files == IF dir[Proc(r)].exists THEN DOMAIN dir[Proc(r)].files ELSE {}
  <2>1. \/ FailJob(r)
        \/ /\ \/ inputs' = [inputs EXCEPT ![r] = files] /\ UNCHANGED cutLists
              \/ \E lines \in SUBSET files :
                    inputs' = [inputs EXCEPT ![r] = lines] /\ cutLists' = cutLists \cup {r}
           /\ files # {}
           /\ Goto(r, "concat") /\ UNCHANGED <<dir, inFlight, metas, got>>
    BY DEF WriteConcatList
  <2>2. files # {} => files = DOMAIN Files(r)
    BY DEF Files
  <2>3. QED
    BY <1>2, <1>3, <2>1, <2>2

(* Where names sort like numbers the concat list is in the order of the    *)
(* list, and so is what the output plays.                                  *)
LEMMA ConcatCore ==
    ASSUME Core, NEW r \in Runs, Concat(r)
    PROVE  Core'
<1>1. pc[r] = "concat" /\ Busy(r) /\ UNCHANGED registered
  BY DEF Concat, Busy
<1>2. CASE FailJob(r)
  BY <1>1, <1>2, FailJobCore
<1> DEFINE p == Proc(r)
           named == inputs[r] \ {Output}
           files == SortedByName(named)
           out == [i \in DOMAIN files |-> dir[p].files[files[i]][1]]
<1>3. CASE /\ WriteFile(p, Output, out)
           /\ Goto(r, "upload") /\ UNCHANGED <<inFlight, runVars>>
  <2>1. p \in Processes /\ Output \in 1 .. Top \cup {Output} /\ Output \notin Indices(r)
    BY ProcTyped, Numbers
  <2>2. /\ named \subseteq Indices(r) /\ (r \notin cutLists => named = Indices(r))
        /\ \A i \in Indices(r) : i \in DOMAIN dir[p].files /\ dir[p].files[i] = <<metas[r][i]>>
    BY <1>1 DEF Core, RunOK, Progress, Files
  <2>3. /\ Indices(r) = 1 .. Cardinality(Indices(r)) /\ Cardinality(Indices(r)) \in Nat
        /\ IsFiniteSet(named) /\ named \in SUBSET Nat
    <3> DEFINE k == Cardinality(Indices(r))
    <3>1. Indices(r) = 1 .. k /\ k \in 0 .. Top
      BY DEF Core, RunOK, ListOK
    <3> HIDE DEF k, named
    <3>2. k \in Nat /\ IsFiniteSet(1 .. k)
      BY <3>1, Numbers, FS_Interval
    <3>3. QED
      BY <2>2, <3>1, <3>2, FS_Subset DEF k
  <2>4. ASSUME Fits(r)
        PROVE  Ascending(out) /\ (r \notin cutLists => out = metas[r])
    <3> HIDE DEF named
    <3>1. files = Sorted(named)
      <4>1. \A x \in named : x <= NameCapacity
        <5> DEFINE k == Cardinality(Indices(r))
        <5>1. k \in Nat /\ k <= NameCapacity /\ named \subseteq 1 .. k
          BY <2>2, <2>3, <2>4 DEF Fits
        <5> HIDE DEF k
        <5>2. QED
          BY <5>1, JobAssumption
      <4>2. QED
        BY <4>1, <2>3, ShortNamesSort
    <3>2. /\ Cardinality(named) \in Nat /\ Sorted(named) \in [1 .. Cardinality(named) -> named]
          /\ \A i, j \in 1 .. Cardinality(named) : i < j => Sorted(named)[i] < Sorted(named)[j]
      BY <2>3, SortedEnumerates
    <3> DEFINE n == Cardinality(named)
    <3>3. /\ DOMAIN files = 1 .. n
          /\ \A i \in 1 .. n : files[i] \in Indices(r)
          /\ \A i, j \in 1 .. n : i < j => files[i] < files[j]
      BY <2>2, <3>1, <3>2
    <3>4. r \notin cutLists => files = [i \in Indices(r) |-> i]
      BY <2>2, <2>3, <3>1, SortedInterval
    <3> HIDE DEF files, n
    <3>5. /\ DOMAIN out = 1 .. n
          /\ \A i \in 1 .. n : out[i] = metas[r][files[i]]
      BY <2>2, <3>3
    <3>6. \A i, j \in Indices(r) : i < j => metas[r][i] < metas[r][j]
      BY DEF Core, RunOK, ListOK
    <3>7. Ascending(out)
      BY <3>3, <3>5, <3>6 DEF Ascending
    <3>8. ASSUME r \notin cutLists
          PROVE  out = metas[r]
      <4>1. out = [i \in Indices(r) |-> <<metas[r][i]>>[1]]
        BY <2>2, <3>4, <3>8
      <4>2. metas[r] \in [Indices(r) -> Segments]
        BY DEF Core, RunTypes
      <4>3. QED
        BY <4>1, <4>2
    <3>9. QED
      BY <3>7, <3>8
  <2> HIDE DEF out
  <2>5. /\ \A q \in Processes \ {p} : dir'[q] = dir[q]
        /\ DOMAIN dir'[p].files = DOMAIN dir[p].files \cup {Output}
        /\ dir'[p].files[Output] = out
    BY <1>3, <2>1, Written
  <2>6. DirTypes' /\ DirsOK'
    BY <1>1, <1>3, <2>1, WrittenTyped
  <2>7. /\ Top' = Top /\ Output' = Output /\ Indices(r)' = Indices(r)
        /\ metas' = metas /\ got' = got /\ inputs' = inputs /\ cutLists' = cutLists
        /\ pc'[r] = "upload" /\ (Fits(r)' <=> Fits(r))
    BY <1>1, <1>3 DEF Top, Output, Indices, runVars, Goto, Core, RunTypes, Fits
  <2>8. ListOK(r)'
    BY <2>7 DEF Core, RunOK, ListOK
  <2>9. Covered(r)'
    <3>1. DOMAIN dir[p].files \subseteq Indices(r) \cup {Output}
      BY <1>1 DEF Core, RunOK, Covered, Files, Busy
    <3>2. QED
      BY <3>1, <2>5, <2>7 DEF Covered, Files, Proc
  <2>10. Progress(r)'
    BY <2>4, <2>5, <2>7 DEF Progress, Files, Proc
  <2>11. RunOK(r)'
    BY <2>8, <2>9, <2>10 DEF RunOK
  <2>12. /\ DOMAIN metas' = Runs /\ DOMAIN got' = Runs /\ DOMAIN inputs' = Runs
         /\ inputs' \in [Runs -> SUBSET (1 .. Output)]
         /\ metas'[r] \in [Indices(r)' -> Segments] /\ got'[r] \subseteq Indices(r)'
         /\ \A q \in Runs \ {r} :
               metas'[q] = metas[q] /\ got'[q] = got[q] /\ inputs'[q] = inputs[q]
         /\ cutLists' = cutLists
    BY <2>7 DEF Core, RunTypes
  <2>13. "upload" \in PCs \ {"idle", "failed"}
    BY DEF PCs
  <2>14. QED
    BY <1>1, <1>3, <2>5, <2>6, <2>11, <2>12, <2>13, Advance
<1>4. QED
  BY <1>2, <1>3 DEF Concat

LEMMA UploadFinalRecordingCore ==
    ASSUME Core, NEW r \in Runs, UploadFinalRecording(r)
    PROVE  Core'
<1>1. pc[r] = "upload" /\ Busy(r) /\ UNCHANGED registered
  BY DEF UploadFinalRecording, Busy
<1>2. CASE FailJob(r)
  BY <1>1, <1>2, FailJobCore
<1>3. CASE Goto(r, "report") /\ UNCHANGED <<dir, inFlight, runVars>>
  <2>1. pc'[r] = "report" /\ "report" \in PCs \ {"idle", "failed"}
    BY <1>3 DEF Goto, PCs, Core, RunTypes
  <2>2. Covered(r) /\ Files(r)' = Files(r) /\ Indices(r)' = Indices(r) /\ Output' = Output
    BY <1>3 DEF Core, RunOK, Files, Proc, Indices, runVars, Output
  <2>3. Covered(r)'
    BY <1>1, <2>2 DEF Covered
  <2>4. Progress(r)'
    BY <2>1 DEF Progress
  <2>5. QED
    BY <1>1, <1>3, <2>1, <2>3, <2>4, MoveOn DEF runVars
<1>4. QED
  BY <1>2, <1>3 DEF UploadFinalRecording

LEMMA StoreQualityReportCore ==
    ASSUME Core, NEW r \in Runs, StoreQualityReport(r)
    PROVE  Core'
<1>1. /\ pc[r] = "report" /\ Busy(r) /\ Goto(r, "publish")
      /\ UNCHANGED <<registered, dir, inFlight, runVars>>
  BY DEF StoreQualityReport, Busy
<1>2. pc'[r] = "publish" /\ "publish" \in PCs \ {"idle", "failed"}
  BY <1>1 DEF Goto, PCs, Core, RunTypes
<1>3. Covered(r) /\ Files(r)' = Files(r) /\ Indices(r)' = Indices(r) /\ Output' = Output
  BY <1>1 DEF Core, RunOK, Files, Proc, Indices, runVars, Output
<1>4. Covered(r)'
  BY <1>1, <1>3 DEF Covered
<1>5. Progress(r)'
  BY <1>2 DEF Progress
<1>6. QED
  BY <1>1, <1>2, <1>4, <1>5, MoveOn DEF runVars

LEMMA PublishReadyCore ==
    ASSUME Core, NEW r \in Runs, PublishReady(r)
    PROVE  Core'
<1>1. /\ Busy(r) /\ UNCHANGED registered /\ Goto(r, "idle") /\ Release(r)
      /\ UNCHANGED dir \/ RemoveAll(r)
  BY DEF PublishReady, Busy
<1>2. QED
  BY <1>1, Leave

LEMMA PublishFailedCore ==
    ASSUME Core, NEW r \in Runs, PublishFailed(r)
    PROVE  Core'
<1>1. pc[r] = "failed" /\ Goto(r, "idle")
      /\ UNCHANGED <<registered, dir, inFlight, metas, got, inputs, cutLists>>
  BY DEF PublishFailed, runVars
<1>2. /\ \A q \in Runs : pc'[q] = IF q = r THEN "idle" ELSE pc[q]
      /\ pc' \in [Runs -> PCs]
  BY <1>1 DEF Goto, Core, RunTypes, PCs
<1>3. Top' = Top /\ Output' = Output
  BY <1>1 DEF Top, Output
<1>4. RunTypes' /\ DirTypes' /\ DirsOK' /\ registered' \subseteq Segments
      /\ inFlight' \subseteq Processes
  BY <1>1, <1>2, <1>3 DEF Core, RunTypes, DirTypes, DirsOK, Indices
<1>5. Exclusive'
  <2>1. \A q \in Runs : Busy(q)' => Busy(q)
    BY <1>1, <1>2 DEF Busy
  <2>2. QED
    BY <1>1, <2>1 DEF Core, Exclusive
<1>6. ASSUME NEW q \in Runs, q # r
      PROVE  RunOK(q)'
  BY <1>1, <1>2, <1>6, Others
<1>7. RunOK(r)'
  <2>1. RunOK(r) /\ Indices(r)' = Indices(r) /\ pc'[r] = "idle"
    BY <1>1, <1>2 DEF Core, Indices
  <2>2. Covered(r)'
    BY <2>1 DEF Covered, Busy
  <2>3. Progress(r)'
    BY <1>1, <2>1 DEF Progress, RunOK
  <2>4. ListOK(r)'
    BY <1>1, <1>3, <2>1 DEF RunOK, ListOK
  <2>5. QED
    BY <2>2, <2>3, <2>4 DEF RunOK
<1>8. QED
  BY <1>4, <1>5, <1>6, <1>7 DEF Core

(* A crash tears files that the list names, so their names stay within the *)
(* registry.                                                               *)
LEMMA CrashCore ==
    ASSUME Core, NEW p \in Processes, Crash(p)
    PROVE  Core'
<1>1. /\ UNCHANGED registered /\ inFlight' = inFlight \ {p}
      /\ pc' = [r \in Runs |-> IF Proc(r) = p THEN "idle" ELSE pc[r]]
  BY DEF Crash
<1>2. /\ metas' = [r \in Runs |-> IF r \in RunsOf(p) THEN <<>> ELSE metas[r]]
      /\ got' = [r \in Runs |-> IF r \in RunsOf(p) THEN {} ELSE got[r]]
      /\ inputs' = [r \in Runs |-> IF r \in RunsOf(p) THEN {} ELSE inputs[r]]
      /\ cutLists' = cutLists \ RunsOf(p)
      /\ \A r \in Runs : r \in RunsOf(p) <=> Proc(r) = p
  BY DEF Crash, Forget, RunsOf
<1>3. Top' = Top /\ Output' = Output
  BY <1>1 DEF Top, Output
<1>4. \A r \in Runs : Writing(r) \subseteq 1 .. Top \cup {Output}
  <2> SUFFICES ASSUME NEW r \in Runs
               PROVE  Writing(r) \subseteq 1 .. Top \cup {Output}
    OBVIOUS
  <2>1. Indices(r) \subseteq 1 .. Top
    BY Numbers
  <2>2. Writing(r) \subseteq Indices(r) \cup {Output}
    BY DEF Writing
  <2>3. QED
    BY <2>1, <2>2
<1>5. PICK torn \in SUBSET UNION {Writing(r) : r \in RunsOf(p)} :
          IF dir[p].exists
             THEN dir' = [dir EXCEPT ![p].files =
                     [f \in DOMAIN @ \cup torn |-> IF f \in torn THEN Torn ELSE @[f]]]
             ELSE torn = {} /\ UNCHANGED dir
  BY DEF Crash
<1>6. torn \subseteq 1 .. Top \cup {Output} /\ torn \subseteq 1 .. Output
  <2>1. torn \subseteq 1 .. Top \cup {Output}
    BY <1>4 DEF RunsOf
  <2>2. QED
    BY <2>1, Numbers
<1>7. /\ DOMAIN dir' = Processes /\ \A q \in Processes \ {p} : dir'[q] = dir[q]
      /\ DOMAIN dir'[p] = {"exists", "files"} /\ dir'[p].exists = dir[p].exists
      /\ DOMAIN dir'[p].files \subseteq DOMAIN dir[p].files \cup torn
  <2>1. CASE UNCHANGED dir
    BY <2>1 DEF Core, DirTypes
  <2>2. CASE dir' = [dir EXCEPT ![p].files =
                     [f \in DOMAIN @ \cup torn |-> IF f \in torn THEN Torn ELSE @[f]]]
    <3> DEFINE old == dir[p].files
               new == [f \in DOMAIN old \cup torn |-> IF f \in torn THEN Torn ELSE old[f]]
    <3>1. dir' = [dir EXCEPT ![p].files = new]
      BY <2>2
    <3>2. DOMAIN new = DOMAIN old \cup torn
      OBVIOUS
    <3> HIDE DEF new
    <3>3. QED
      BY <3>1, <3>2 DEF Core, DirTypes
  <2>3. QED
    BY <1>5, <2>1, <2>2
<1>8. DirTypes' /\ DirsOK'
  <2>1. ASSUME NEW q \in Processes
        PROVE  /\ DOMAIN dir'[q] = {"exists", "files"} /\ dir'[q].exists \in BOOLEAN
               /\ DOMAIN dir'[q].files \subseteq 1 .. Output
               /\ DOMAIN dir'[q].files \subseteq 1 .. Top \cup {Output}
    BY <1>6, <1>7 DEF Core, DirTypes, DirsOK
  <2>2. QED
    BY <1>3, <1>7, <2>1 DEF DirTypes, DirsOK
<1>9. ASSUME NEW q \in Runs, Proc(q) = p
      PROVE  RunOK(q)' /\ metas'[q] \in [Indices(q)' -> Segments] /\ got'[q] \subseteq Indices(q)'
  <2>1. pc'[q] = "idle" /\ metas'[q] = <<>> /\ got'[q] = {}
    BY <1>1, <1>2, <1>9
  <2>2. ListOK(q)' /\ Indices(q)' = {}
    BY <1>1, <2>1, Emptied
  <2>3. Covered(q)' /\ Progress(q)'
    BY <2>1 DEF Covered, Progress, Busy
  <2>4. <<>> \in [{} -> Segments]
    OBVIOUS
  <2>5. QED
    BY <2>1, <2>2, <2>3, <2>4 DEF RunOK
<1>10. ASSUME NEW q \in Runs, Proc(q) # p
       PROVE  RunOK(q)' /\ metas'[q] \in [Indices(q)' -> Segments] /\ got'[q] \subseteq Indices(q)'
  <2>1. pc'[q] = pc[q] /\ metas'[q] = metas[q] /\ got'[q] = got[q] /\ inputs'[q] = inputs[q]
        /\ (q \in cutLists' <=> q \in cutLists)
    BY <1>1, <1>2, <1>10
  <2>2. dir'[Proc(q)] = dir[Proc(q)]
    BY <1>7, <1>10, ProcTyped
  <2>3. Indices(q)' = Indices(q)
    BY <2>1 DEF Indices
  <2>4. RunOK(q)'
    BY <1>1, <2>1, <2>2, Others
  <2>5. QED
    BY <2>1, <2>3, <2>4 DEF Core, RunTypes
<1>11. RunTypes'
  <2>1. pc' \in [Runs -> PCs] /\ DOMAIN metas' = Runs /\ DOMAIN got' = Runs
        /\ inputs' \in [Runs -> SUBSET (1 .. Output)] /\ cutLists' \subseteq Runs
    BY <1>1, <1>2 DEF Core, RunTypes, PCs
  <2>2. QED
    BY <1>3, <1>9, <1>10, <2>1 DEF RunTypes
<1>12. Exclusive'
  <2>1. \A q \in Runs : Busy(q)' => Busy(q) /\ Proc(q) # p
    BY <1>1 DEF Busy
  <2>2. QED
    BY <1>1, <2>1 DEF Core, Exclusive
<1>13. registered' \subseteq Segments /\ inFlight' \subseteq Processes
  BY <1>1 DEF Core
<1>14. QED
  BY <1>8, <1>9, <1>10, <1>11, <1>12, <1>13 DEF Core

LEMMA CoreStep ==
    ASSUME Core, [Next]_vars
    PROVE  Core'
<1>1. ASSUME NEW s \in Segments, Register(s) PROVE Core'
  BY <1>1, RegisterCore
<1>2. ASSUME NEW r \in Runs, Claim(r) \/ Assemble(r) PROVE Core'
  BY <1>2, ClaimCore, ListSegmentsCore, RecordingExistsCore, MakeJobDirCore,
     DownloadSegmentCore, WriteConcatListCore, ConcatCore, UploadFinalRecordingCore,
     StoreQualityReportCore, PublishReadyCore, PublishFailedCore DEF Assemble
<1>3. ASSUME NEW p \in Processes, Crash(p) PROVE Core'
  BY <1>3, CrashCore
<1>4. CASE UNCHANGED vars
  BY <1>4, Unchanged DEF vars
<1>5. QED
  BY <1>1, <1>2, <1>3, <1>4 DEF Next

-----------------------------------------------------------------------------
(***************************************************************************)
(* The stores: only an upload changes the recording, and what it uploads   *)
(* plays the list.                                                         *)
(***************************************************************************)
LEMMA Counted ==
    ASSUME StoreTypes, Ok \/ Fault
    PROVE  faults' \in 0 .. MaxFaults
  BY JobAssumption DEF StoreTypes, Ok, Fault

LEMMA StoresStep ==
    ASSUME Core, Stores, [Next]_vars
    PROVE  Stores'
<1>1. CASE recording' = recording
  <2>1. RecordingIsListed' /\ PlaysInOrder' /\ recording'.exists \in BOOLEAN
    BY <1>1 DEF Stores, StoreTypes, RecordingIsListed, PlaysInOrder, NamesSort
  <2>2. /\ report'.exists \in BOOLEAN /\ status' \in {"none", "READY", "FAILED"}
        /\ faults' \in 0 .. MaxFaults /\ crashed' \subseteq Processes
    <3>1. ASSUME NEW s \in Segments, Register(s)
          PROVE  UNCHANGED <<report, status, faults, crashed>>
      BY <3>1 DEF Register, storeVars, counters
    <3>2. ASSUME NEW r \in Runs, Claim(r)
          PROVE  UNCHANGED <<report, status, faults, crashed>>
      BY <3>2 DEF Claim, storeVars, counters
    <3>3. ASSUME NEW r \in Runs, Assemble(r)
          PROVE  /\ Ok \/ Fault
                 /\ report' = report \/ report'.exists = TRUE
                 /\ status' \in {status, "READY", "FAILED"} /\ crashed' = crashed
      <4>1. CASE ListSegments(r) \/ RecordingExists(r) \/ MakeJobDir(r)
        BY <4>1 DEF ListSegments, RecordingExists, MakeJobDir, storeVars
      <4>2. CASE \E i \in Indices(r) : DownloadSegment(r, i)
        BY <4>2 DEF DownloadSegment, storeVars
      <4>3. CASE WriteConcatList(r)
        BY <4>3 DEF WriteConcatList, storeVars
      <4>4. CASE Concat(r) \/ UploadFinalRecording(r)
        BY <4>4 DEF Concat, UploadFinalRecording, storeVars
      <4>5. CASE StoreQualityReport(r)
        BY <4>5 DEF StoreQualityReport
      <4>6. CASE PublishReady(r) \/ PublishFailed(r)
        BY <4>6 DEF PublishReady, PublishFailed
      <4>7. QED
        BY <3>3, <4>1, <4>2, <4>3, <4>4, <4>5, <4>6 DEF Assemble
    <3>4. ASSUME NEW p \in Processes, Crash(p)
          PROVE  UNCHANGED <<report, status, faults>> /\ crashed' = crashed \cup {p}
      BY <3>4 DEF Crash, storeVars
    <3>5. CASE UNCHANGED vars
      BY <3>5 DEF vars, storeVars, counters, Stores, StoreTypes
    <3>6. CASE \E s \in Segments : Register(s)
      BY <3>1, <3>6 DEF Stores, StoreTypes
    <3>7. CASE \E r \in Runs : Claim(r)
      BY <3>2, <3>7 DEF Stores, StoreTypes
    <3>8. CASE \E r \in Runs : Assemble(r)
      BY <3>3, <3>8, Counted DEF Stores, StoreTypes
    <3>9. CASE \E p \in Processes : Crash(p)
      BY <3>4, <3>9 DEF Stores, StoreTypes
    <3>10. QED
      BY <3>5, <3>6, <3>7, <3>8, <3>9 DEF Next
  <2>3. QED
    BY <2>1, <2>2 DEF Stores, StoreTypes
<1>2. CASE recording' # recording
  <2>1. PICK r \in Runs : UploadFinalRecording(r)
    BY <1>2 DEF Next, vars, storeVars, Register, Claim, Assemble, ListSegments, RecordingExists,
       MakeJobDir, DownloadSegment, WriteConcatList, Concat, StoreQualityReport, PublishReady,
       PublishFailed, Crash
  <2>2. /\ recording' = [exists |-> TRUE, listed |-> metas[r], whole |-> r \notin cutLists,
                         plays |-> Files(r)[Output]]
        /\ pc[r] = "upload" /\ Ok /\ UNCHANGED <<report, status, crashed>>
    BY <1>2, <2>1 DEF UploadFinalRecording, Files
  <2>3. NamesSort' <=> Fits(r)
    BY <2>2 DEF NamesSort, Fits, Indices
  <2>4. Fits(r) => Ascending(Files(r)[Output]) /\ (r \notin cutLists => Files(r)[Output] = metas[r])
    BY <2>2 DEF Core, RunOK, Progress
  <2>5. RecordingIsListed' /\ PlaysInOrder'
    BY <2>2, <2>3, <2>4 DEF RecordingIsListed, PlaysInOrder
  <2>6. StoreTypes'
    BY <2>2, Counted DEF Stores, StoreTypes
  <2>7. QED
    BY <2>5, <2>6 DEF Stores
<1>3. QED
  BY <1>1, <1>2

LEMMA InitInv == Init => JobInv
<1> SUFFICES ASSUME Init
             PROVE  JobInv
  OBVIOUS
<1>1. /\ registered = {} /\ inFlight = {} /\ Top = 0 /\ Cardinality({}) = 0 /\ 1 .. 0 = {}
      /\ \A r \in Runs : pc[r] = "idle" /\ metas[r] = <<>> /\ got[r] = {} /\ Indices(r) = {}
      /\ DOMAIN metas = Runs /\ DOMAIN got = Runs /\ pc \in [Runs -> PCs]
      /\ inputs \in [Runs -> SUBSET (1 .. Output)] /\ cutLists = {}
  BY FS_EmptySet DEF Init, Top, Indices, PCs
<1>2. /\ DOMAIN dir = Processes
      /\ \A p \in Processes : /\ DOMAIN dir[p] = {"exists", "files"} /\ dir[p].exists = FALSE
                              /\ DOMAIN dir[p].files = {}
  BY DEF Init, NoDir
<1>3. RunTypes
  <2>1. <<>> \in [{} -> Segments]
    OBVIOUS
  <2>2. QED
    BY <1>1, <2>1 DEF RunTypes
<1>4. DirTypes /\ DirsOK /\ Exclusive
  BY <1>1, <1>2 DEF DirTypes, DirsOK, Exclusive, Busy
<1>5. \A r \in Runs : RunOK(r)
  <2> SUFFICES ASSUME NEW r \in Runs
               PROVE  RunOK(r)
    OBVIOUS
  <2>1. Indices(r) = {} /\ pc[r] = "idle" /\ got[r] = {}
    BY <1>1
  <2>2. Indices(r) = 1 .. Cardinality(Indices(r)) /\ Cardinality(Indices(r)) \in 0 .. Top
    BY <1>1, <2>1
  <2>3. ListOK(r)
    BY <2>1, <2>2 DEF ListOK
  <2>4. Covered(r) /\ Progress(r)
    BY <2>1 DEF Covered, Progress, Busy
  <2>5. QED
    BY <2>3, <2>4 DEF RunOK
<1>6. Core
  BY <1>1, <1>3, <1>4, <1>5 DEF Core
<1>7. Stores
  BY JobAssumption DEF Init, Stores, StoreTypes, RecordingIsListed, PlaysInOrder, NoObject
<1>8. QED
  BY <1>6, <1>7 DEF JobInv

LEMMA JobInvHolds == Spec => []JobInv
<1>1. JobInv /\ [Next]_vars => JobInv'
  BY CoreStep, StoresStep DEF JobInv
<1>2. QED
  BY <1>1, InitInv, PTL DEF Spec

(* Every variable keeps its type: in particular a list read from Redis     *)
(* holds registered segments only and a file of a job dir is an index or   *)
(* recording.mp4.                                                          *)
THEOREM TypeCorrect == Spec => []TypeOK
<1>1. JobInv => TypeOK
  BY DEF JobInv, Core, Stores, RunTypes, DirTypes, StoreTypes, TypeOK, PCs
<1>2. QED
  BY <1>1, JobInvHolds, PTL

(* assemble: for any processes, segments, faults and crashes, a stored     *)
(* recording plays exactly the segments that were listed for it, if no     *)
(* line of the concat list was lost and they are no more than there are    *)
(* file names of one length.                                               *)
THEOREM StoredIsListed == Spec => []RecordingIsListed
<1>1. JobInv => RecordingIsListed
  BY DEF JobInv, Stores
<1>2. QED
  BY <1>1, JobInvHolds, PTL

(* And what it plays ascends in sequence numbers, a line lost or not:      *)
(* SegmentRegistry.List sorts the hash it read, and the zero-padded file   *)
(* names keep that order as long as they have one length.                  *)
THEOREM StoredInOrder == Spec => []PlaysInOrder
<1>1. JobInv => PlaysInOrder
  BY DEF JobInv, Stores
<1>2. QED
  BY <1>1, JobInvHolds, PTL

-----------------------------------------------------------------------------
(***************************************************************************)
(* The job directory is removed on every path out of its job.              *)
(***************************************************************************)
Jobs == {"download", "concat", "upload", "report", "publish"}

(* What a step of run r does to the directories and the program counters.  *)
Tidy(r) ==
    /\ \A q \in Runs \ {r} : pc'[q] = pc[q]
    /\ \A p \in Processes \ {Proc(r)} : dir'[p].exists => dir[p].exists
    /\ dir'[Proc(r)].exists => pc'[r] \in Jobs \/ (pc[r] \notin Jobs /\ dir[Proc(r)].exists)

LEMMA FailJobTidy ==
    ASSUME Core, NEW r \in Runs, FailJob(r)
    PROVE  Tidy(r)
<1>1. /\ pc' = [pc EXCEPT ![r] = "failed"]
      /\ dir' = [dir EXCEPT ![Proc(r)] = NoDir]
  BY DEF FailJob, Goto, RemoveAll
<1>2. Proc(r) \in Processes /\ DOMAIN dir = Processes /\ DOMAIN pc = Runs /\ NoDir.exists = FALSE
  BY ProcTyped DEF Core, DirTypes, RunTypes, NoDir
<1>3. QED
  BY <1>1, <1>2 DEF Tidy

LEMMA WrittenTidy ==
    ASSUME Core, NEW r \in Runs, NEW name, NEW content, WriteFile(Proc(r), name, content),
           NEW to \in Jobs, Goto(r, to)
    PROVE  Tidy(r)
<1>1. /\ \A q \in Runs \ {r} : pc'[q] = pc[q]
      /\ pc'[r] = to
  BY DEF Goto, Core, RunTypes
<1>2. \A p \in Processes : dir'[p].exists = dir[p].exists
  BY Written, ProcTyped
<1>3. QED
  BY <1>1, <1>2 DEF Tidy

(* A step that leaves the directories alone and does not leave the job.    *)
LEMMA StayTidy ==
    ASSUME Core, NEW r \in Runs, UNCHANGED dir, NEW to \in PCs, Goto(r, to),
           to \in Jobs \/ pc[r] \notin Jobs
    PROVE  Tidy(r)
<1>1. /\ \A q \in Runs \ {r} : pc'[q] = pc[q]
      /\ pc'[r] = to
  BY DEF Goto, Core, RunTypes
<1>2. QED
  BY <1>1 DEF Tidy

LEMMA AssembleTidy ==
    ASSUME Core, NEW r \in Runs, Assemble(r)
    PROVE  Tidy(r)
<1> USE DEF Jobs, PCs
<1>1. CASE FailJob(r)
  BY <1>1, FailJobTidy
<1>2. CASE FailEarly(r) /\ pc[r] \in {"list", "check"}
  BY <1>2, StayTidy DEF FailEarly
<1>3. CASE ListSegments(r)
  BY <1>2, <1>3, StayTidy DEF ListSegments
<1>4. CASE RecordingExists(r)
  BY <1>2, <1>4, StayTidy DEF RecordingExists
<1>5. CASE MakeJobDir(r)
  <2>1. CASE /\ pc' = [pc EXCEPT ![r] = "download"]
             /\ dir' = [dir EXCEPT ![Proc(r)] = IF @.exists THEN @ ELSE Dir(<<>>)]
    <3>1. /\ \A q \in Runs \ {r} : pc'[q] = pc[q]
          /\ pc'[r] = "download"
      BY <2>1 DEF Core, RunTypes
    <3>2. \A p \in Processes \ {Proc(r)} : dir'[p] = dir[p]
      BY <2>1 DEF Core, DirTypes
    <3>3. QED
      BY <3>1, <3>2 DEF Tidy
  <2>2. QED
    BY <1>1, <1>5, <2>1 DEF MakeJobDir, Goto
<1>6. CASE \E i \in Indices(r) : DownloadSegment(r, i)
  <2>1. ASSUME NEW i \in Indices(r), pc[r] = "download", UNCHANGED pc,
               WriteFile(Proc(r), i, <<metas[r][i]>>)
        PROVE  Tidy(r)
    <3>1. Goto(r, "download")
      BY <2>1 DEF Goto, Core, RunTypes
    <3>2. QED
      BY <2>1, <3>1, WrittenTidy
  <2>2. QED
    BY <1>1, <1>6, <2>1 DEF DownloadSegment
<1>7. CASE WriteConcatList(r)
  <2>1. FailJob(r) \/ (Goto(r, "concat") /\ UNCHANGED dir)
    BY <1>7 DEF WriteConcatList
  <2>2. QED
    BY <1>1, <2>1, StayTidy
<1>8. CASE Concat(r)
  <2>1. FailJob(r) \/ (Goto(r, "upload") /\ \E out : WriteFile(Proc(r), Output, out))
    BY <1>8 DEF Concat
  <2>2. QED
    BY <1>1, <2>1, WrittenTidy
<1>9. CASE UploadFinalRecording(r)
  <2>1. FailJob(r) \/ (Goto(r, "report") /\ UNCHANGED dir)
    BY <1>9 DEF UploadFinalRecording
  <2>2. QED
    BY <1>1, <2>1, StayTidy
<1>10. CASE StoreQualityReport(r)
  BY <1>10, StayTidy DEF StoreQualityReport
<1>11. CASE PublishReady(r)
  <2>1. CASE pc[r] = "republish"
    BY <1>11, <2>1, StayTidy DEF PublishReady
  <2>2. CASE pc[r] = "publish"
    <3>1. pc' = [pc EXCEPT ![r] = "idle"] /\ dir' = [dir EXCEPT ![Proc(r)] = NoDir]
      BY <1>11, <2>2 DEF PublishReady, Goto, RemoveAll
    <3>2. Proc(r) \in Processes /\ DOMAIN dir = Processes /\ DOMAIN pc = Runs
          /\ NoDir.exists = FALSE
      BY ProcTyped DEF Core, DirTypes, RunTypes, NoDir
    <3>3. QED
      BY <3>1, <3>2 DEF Tidy
  <2>3. QED
    BY <1>11, <2>1, <2>2 DEF PublishReady
<1>12. CASE PublishFailed(r)
  BY <1>12, StayTidy DEF PublishFailed
<1>13. QED
  BY <1>3, <1>4, <1>5, <1>6, <1>7, <1>8, <1>9, <1>10, <1>11, <1>12 DEF Assemble

LEMMA OwnedStep ==
    ASSUME Core, DirIsOwned, [Next]_vars
    PROVE  DirIsOwned'
<1> SUFFICES ASSUME NEW p \in Processes, dir'[p].exists
             PROVE  p \in crashed' \/ \E r \in RunsOf(p) : pc'[r] \in Jobs
  BY DEF DirIsOwned, InJob, RunsOf, Proc, Jobs
<1>1. dir[p].exists => p \in crashed \/ \E r \in RunsOf(p) : pc[r] \in Jobs
  BY DEF DirIsOwned, InJob, Jobs
<1>2. CASE UNCHANGED <<dir, pc, crashed>>
  BY <1>1, <1>2
<1>3. ASSUME NEW r \in Runs, Tidy(r), UNCHANGED crashed
      PROVE  p \in crashed' \/ \E q \in RunsOf(p) : pc'[q] \in Jobs
  <2>1. CASE p # Proc(r)
    <3>1. r \notin RunsOf(p)
      BY <2>1 DEF RunsOf
    <3>2. QED
      BY <1>1, <1>3, <2>1, <3>1 DEF Tidy, RunsOf
  <2>2. CASE p = Proc(r) /\ pc'[r] \in Jobs
    BY <2>2 DEF RunsOf
  <2>3. CASE p = Proc(r) /\ pc'[r] \notin Jobs
    <3>1. pc[r] \notin Jobs /\ dir[p].exists
      BY <1>3, <2>3 DEF Tidy
    <3>2. QED
      BY <1>1, <1>3, <3>1 DEF Tidy, RunsOf
  <2>4. QED
    BY <2>1, <2>2, <2>3
<1>4. ASSUME NEW s \in Segments, Register(s)
      PROVE  UNCHANGED <<dir, pc, crashed>>
  BY <1>4 DEF Register, counters
<1>5. ASSUME NEW r \in Runs, Claim(r)
      PROVE  Tidy(r) /\ UNCHANGED crashed
  <2>1. CASE UNCHANGED <<dir, pc>>
    BY <1>5, <2>1 DEF Claim, counters, Tidy, Core, DirTypes, Jobs
  <2>2. CASE Goto(r, "list")
    BY <1>5, <2>2, StayTidy DEF Claim, counters, PCs, Jobs
  <2>3. QED
    BY <1>5, <2>1, <2>2 DEF Claim
<1>6. ASSUME NEW r \in Runs, Assemble(r)
      PROVE  Tidy(r) /\ UNCHANGED crashed
  <2>1. UNCHANGED crashed
    BY <1>6 DEF Assemble, ListSegments, RecordingExists, MakeJobDir, DownloadSegment,
       WriteConcatList, Concat, UploadFinalRecording, StoreQualityReport, PublishReady,
       PublishFailed, counters
  <2>2. QED
    BY <1>6, <2>1, AssembleTidy
<1>7. ASSUME NEW c \in Processes, Crash(c)
      PROVE  p \in crashed' \/ \E q \in RunsOf(p) : pc'[q] \in Jobs
  <2>1. CASE p = c
    BY <1>7, <2>1 DEF Crash
  <2>2. CASE p # c
    <3>1. dir'[p] = dir[p]
      BY <1>7, <2>2 DEF Crash, Core, DirTypes
    <3>2. \A q \in RunsOf(p) : pc'[q] = pc[q]
      BY <1>7, <2>2 DEF Crash, RunsOf
    <3>3. crashed \subseteq crashed'
      BY <1>7 DEF Crash
    <3>4. QED
      BY <1>1, <3>1, <3>2, <3>3
  <2>3. QED
    BY <2>1, <2>2
<1>8. CASE UNCHANGED vars
  BY <1>2, <1>8 DEF vars, counters
<1>9. QED
  BY <1>2, <1>3, <1>4, <1>5, <1>6, <1>7, <1>8 DEF Next

(* "cleanup for both fail and success" (assembler_usecase.go:213): unless  *)
(* its process crashed, a job dir exists only while its job runs.          *)
THEOREM DirsAreOwned == Spec => []DirIsOwned
<1>1. Init => DirIsOwned
  BY DEF Init, DirIsOwned, NoDir
<1>2. JobInv /\ DirIsOwned /\ [Next]_vars => DirIsOwned'
  BY OwnedStep DEF JobInv
<1>3. QED
  BY <1>1, <1>2, JobInvHolds, PTL DEF Spec
=============================================================================
