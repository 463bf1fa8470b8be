---------------------------- MODULE UploadSession ----------------------------
(***************************************************************************)
(* The desktop upload API: upload sessions in Redis, the segments uploaded *)
(* under them and the client's inventory of what it captured, for one      *)
(* candidate, exam session and stream type (one index key).                *)
(*                                                                         *)
(* Requests run concurrently, each in a slot of its own, and interleave    *)
(* between their Redis and storage calls.  A Lua script is one step.       *)
(* Assembly, which follows /complete, is RecordingAssembly's.              *)
(***************************************************************************)
EXTENDS Integers, FiniteSets

CONSTANTS
    Req,            \* slots of requests in flight
    Contents,       \* contents a segment may be uploaded with
    Reasons,        \* stop reasons a client may report
    None,           \* an absent value; as a reason, the empty string
    MaxStreams,     \* bound: streams created
    MaxCreates,     \* bound: POST /stream/sessions requests
    MaxSegs,        \* bound: segments captured in one stream
    MaxDeclares,    \* bound: inventories the client sends
    MaxTime         \* bound: clock

ASSUME ConstantsAssumption ==
    /\ None \notin Contents \cup Reasons \cup Nat
    /\ {MaxStreams, MaxCreates, MaxSegs, MaxDeclares, MaxTime} \subseteq Nat

VARIABLES
    now,
    session,        \* upload-session:<stream>: None, or the stored session
    index,          \* upload-session-index:...: None, or the stream it names
    streams, creates, declares,   \* streams, tokens and declarations so far
    held,           \* the upload token the client holds for a stream
    captured,       \* segments 1 .. n the client has captured
    stopped,        \* the client has sent its final declaration
    object,         \* storage: content of a segment's object
    segments,       \* registry: SHA-256 of a segment, its content here
    complete,       \* registry: the stream's complete key
    inventory,      \* None, or the last inventory stored
    req             \* the requests in flight

sessionVars == <<session, index, streams, creates, held>>
clientVars == <<captured, stopped, declares>>
uploadVars == <<object, segments, complete, inventory>>
vars == <<now, sessionVars, clientVars, uploadVars, req>>

Streams == 1 .. MaxStreams
Segs == 1 .. MaxSegs
Idle == [kind |-> "idle"]

Exists(s) == session[s] # None
Unfinished(s) == Exists(s) /\ ~session[s].completed
Owned(s) == Exists(s) /\ session[s].token = held[s]

Put(r, m) == req' = [req EXCEPT ![r] = m]
Free(r) == Put(r, Idle)

-----------------------------------------------------------------------------
(***************************************************************************)
(* The desktop client.                                                     *)
(***************************************************************************)
Capture(s) ==
    /\ s <= streams /\ ~stopped[s] /\ captured[s] < MaxSegs
    /\ captured' = [captured EXCEPT ![s] = @ + 1]
    /\ UNCHANGED <<now, sessionVars, stopped, declares, uploadVars, req>>

(* A declaration lists what the client has captured when it is sent; with  *)
(* the final one, sent before /complete, it has stopped capturing.         *)
SendInventory(r, s, final) ==
    /\ req[r] = Idle /\ s <= streams /\ declares < MaxDeclares
    /\ declares' = declares + 1
    /\ stopped' = [stopped EXCEPT ![s] = @ \/ final]
    /\ Put(r, [kind |-> "declare", stage |-> "sent", stream |-> s, at |-> declares',
               segs |-> captured[s], complete |-> stopped'[s]])
    /\ UNCHANGED <<now, sessionVars, captured, uploadVars>>

-----------------------------------------------------------------------------
(***************************************************************************)
(* POST /stream/sessions.  The script runs in one step; the watchdog it    *)
(* then arms is RecordingAssembly's ArmWatchdog.                           *)
(***************************************************************************)
Fresh(e, t) == [token |-> t, expiresAt |-> e, completed |-> FALSE, reason |-> None]

(* Mutant: whether the session found is finished is not looked at.         *)
ResumeAny == index # None /\ Exists(index)

(* The index names a session that is still there and unfinished.           *)
Resumable == index # None /\ Unfinished(index)

(* Mutant: every request creates a stream.                                 *)
RegisterAlwaysCreates(e, t) ==
    /\ streams < MaxStreams
    /\ streams' = streams + 1 /\ index' = streams'
    /\ session' = [session EXCEPT ![streams'] = Fresh(e, t)]

RegisterOrGetUpload(e, t) ==
    \/ /\ Resumable
       /\ session' = [session EXCEPT ![index].token = t, ![index].expiresAt = e]
       /\ UNCHANGED <<index, streams>>
    \/ /\ ~Resumable /\ streams < MaxStreams
       /\ streams' = streams + 1 /\ index' = streams'
       /\ session' = [session EXCEPT ![streams'] = Fresh(e, t)]

(* The answer carries the new token, and may be lost.                      *)
CreateSession(e, delivered) ==
    /\ creates < MaxCreates /\ e > now
    /\ creates' = creates + 1
    /\ RegisterOrGetUpload(e, creates')
    /\ held' = IF delivered THEN [held EXCEPT ![index'] = creates'] ELSE held
    /\ UNCHANGED <<now, clientVars, uploadVars, req>>

-----------------------------------------------------------------------------
(***************************************************************************)
(* LookupUpload, shared by the other requests: a session read past its     *)
(* expiry is deleted by a second call, without looking again.  A request   *)
(* that is refused changes nothing and is no step here.                    *)
(***************************************************************************)
Current(s) == Owned(s) /\ now < session[s].expiresAt

LookupExpired(r, s) ==
    /\ req[r] = Idle /\ Exists(s) /\ now >= session[s].expiresAt
    /\ Put(r, [kind |-> "expired", stream |-> s])
    /\ UNCHANGED <<now, sessionVars, clientVars, uploadVars>>

DeleteExpired(r) ==
    /\ req[r].kind = "expired"
    /\ session' = [session EXCEPT ![req[r].stream] = None]
    /\ Free(r)
    /\ UNCHANGED <<now, index, streams, creates, held, clientVars, uploadVars>>

(* PUT .../segments/{seq}: lookup, ownership, completed, and a number not  *)
(* taken yet (the same content again is accepted without a step).          *)
Upload(r, s, q, c) ==
    /\ req[r] = Idle /\ Current(s) /\ ~session[s].completed
    /\ q <= captured[s] /\ segments[s][q] = None
    /\ Put(r, [kind |-> "upload", stage |-> "store", stream |-> s, seq |-> q, content |-> c])
    /\ UNCHANGED <<now, sessionVars, clientVars, uploadVars>>

UploadSegment(r) ==
    LET m == req[r] IN
    /\ m.kind = "upload" /\ m.stage = "store"
    /\ object' = [object EXCEPT ![m.stream][m.seq] = m.content]
    /\ Put(r, [m EXCEPT !.stage = "add"])
    /\ UNCHANGED <<now, sessionVars, clientVars, segments, complete, inventory>>

Add(r) ==
    LET m == req[r] IN
    /\ m.kind = "upload" /\ m.stage = "add"
    /\ segments' = [segments EXCEPT ![m.stream][m.seq] = m.content]
    /\ Free(r)
    /\ UNCHANGED <<now, sessionVars, clientVars, object, complete, inventory>>

Overtaken(m) == inventory[m.stream] # None /\ inventory[m.stream].at > m.at

(* PUT .../inventory: lookup and ownership, then Put reads the stored one  *)
(* and stops unless its declaration is no later.                           *)
DeclareInventory(r) ==
    LET m == req[r] IN
    /\ m.kind = "declare" /\ m.stage = "sent" /\ Current(m.stream)
    /\ \/ Overtaken(m) /\ Free(r)
       \/ ~Overtaken(m) /\ Put(r, [m EXCEPT !.stage = "set"])
    /\ UNCHANGED <<now, sessionVars, clientVars, uploadVars>>

Declaration(m) == [at |-> m.at, segs |-> m.segs, complete |-> m.complete]

(* Mutant: a stream once declared complete stays so.                       *)
SetStickyComplete(r) ==
    LET m == req[r]
        old == inventory[m.stream] IN
    /\ m.kind = "declare" /\ m.stage = "set"
    /\ inventory' = [inventory EXCEPT ![m.stream] =
           [Declaration(m) EXCEPT !.complete = @ \/ (old # None /\ old.complete)]]
    /\ Free(r)
    /\ UNCHANGED <<now, sessionVars, clientVars, object, segments, complete>>

SetInventory(r) ==
    LET m == req[r] IN
    /\ m.kind = "declare" /\ m.stage = "set"
    /\ inventory' = [inventory EXCEPT ![m.stream] = Declaration(m)]
    /\ Free(r)
    /\ UNCHANGED <<now, sessionVars, clientVars, object, segments, complete>>

(* The body of a /complete is optional, and no body makes it fail: without *)
(* a reason the server knows, none is reported.                            *)
Bodies == Reasons \cup {None, "unrecognised"}
ReadStopReason(body) == IF body \in Reasons THEN body ELSE None

(* POST .../complete: the session read here is the copy the answer is made *)
(* from.                                                                   *)
Complete(r, s, body) ==
    /\ req[r] = Idle /\ Current(s)
    /\ Put(r, [kind |-> "complete", stage |-> "mark", stream |-> s,
               reason |-> ReadStopReason(body), seen |-> session[s].reason])
    /\ UNCHANGED <<now, sessionVars, clientVars, uploadVars>>

(* First writer wins; an absent reason is still filled in.                 *)
FirstReason(stored, reported) == IF stored # None THEN stored ELSE reported

(* The answer is made from the copy read before the script ran.            *)
Answering(m) == [m EXCEPT !.stage = "flag", !.reason = FirstReason(m.seen, m.reason), !.seen = None]

(* The script fails when the session is gone.                              *)
MarkUploadComplete(r) ==
    LET m == req[r]
        s == m.stream IN
    /\ m.kind = "complete" /\ m.stage = "mark"
    /\ \/ ~Exists(s) /\ Free(r) /\ UNCHANGED session
       \/ /\ Exists(s)
          /\ session' = [session EXCEPT ![s].completed = TRUE,
                                        ![s].reason = FirstReason(@, m.reason)]
          /\ Put(r, Answering(m))
    /\ UNCHANGED <<now, index, streams, creates, held, clientVars, uploadVars>>

(* The rest of MarkComplete: the complete key.                             *)
MarkComplete(r) ==
    LET m == req[r] IN
    /\ m.kind = "complete" /\ m.stage = "flag"
    /\ complete' = complete \cup {m.stream}
    /\ Free(r)
    /\ UNCHANGED <<now, sessionVars, clientVars, object, segments, inventory>>

(* A call of the request fails, or its client goes away and its context    *)
(* with it.                                                                *)
Abort(r) ==
    /\ req[r] # Idle
    /\ Free(r)
    /\ UNCHANGED <<now, sessionVars, clientVars, uploadVars>>

-----------------------------------------------------------------------------
(***************************************************************************)
(* Redis drops the session and its index entry when their common TTL ends. *)
(* The TTL is taken before the call that sets it, so that it ends a little *)
(* after ExpiresAt: within the tick.                                       *)
(***************************************************************************)
RedisExpires(s) ==
    /\ Exists(s) /\ now >= session[s].expiresAt
    /\ session' = [session EXCEPT ![s] = None]
    /\ index' = IF index = s THEN None ELSE index
    /\ UNCHANGED <<now, streams, creates, held, clientVars, uploadVars, req>>

Tick ==
    /\ now < MaxTime
    /\ \A s \in Streams : Exists(s) => now < session[s].expiresAt
    /\ now' = now + 1
    /\ UNCHANGED <<sessionVars, clientVars, uploadVars, req>>

-----------------------------------------------------------------------------
Init ==
    /\ now = 0
    /\ session = [s \in Streams |-> None] /\ index = None
    /\ streams = 0 /\ creates = 0 /\ declares = 0
    /\ held = [s \in Streams |-> 0]
    /\ captured = [s \in Streams |-> 0] /\ stopped = [s \in Streams |-> FALSE]
    /\ object = [s \in Streams |-> [q \in Segs |-> None]]
    /\ segments = object
    /\ complete = {} /\ inventory = [s \in Streams |-> None]
    /\ req = [r \in Req |-> Idle]

ClientStep ==
    \E s \in Streams : Capture(s) \/ \E r \in Req, final \in BOOLEAN : SendInventory(r, s, final)

Begin(r) ==
    \E s \in Streams :
        \/ LookupExpired(r, s)
        \/ \E q \in Segs, c \in Contents : Upload(r, s, q, c)
        \/ \E body \in Bodies : Complete(r, s, body)

Proceed(r) ==
    \/ DeleteExpired(r)
    \/ UploadSegment(r) \/ Add(r)
    \/ DeclareInventory(r) \/ SetInventory(r)
    \/ MarkUploadComplete(r) \/ MarkComplete(r)
    \/ Abort(r)

Next ==
    \/ ClientStep \/ Tick
    \/ \E e \in 1 .. MaxTime, delivered \in BOOLEAN : CreateSession(e, delivered)
    \/ \E s \in Streams : RedisExpires(s)
    \/ \E r \in Req : Begin(r) \/ Proceed(r)

Spec == Init /\ [][Next]_vars

-----------------------------------------------------------------------------
Reason == Reasons \cup {None}
Session == [token : Nat, expiresAt : Nat, completed : BOOLEAN, reason : Reason]
Inventory == [at : 1 .. MaxDeclares, segs : 0 .. MaxSegs, complete : BOOLEAN]
Request ==
    [kind : {"idle"}] \cup [kind : {"expired"}, stream : Streams]
    \cup [kind : {"upload"}, stage : {"store", "add"}, stream : Streams, seq : Segs, content : Contents]
    \cup [kind : {"declare"}, stage : {"sent", "set"}, stream : Streams, at : 1 .. MaxDeclares,
          segs : 0 .. MaxSegs, complete : BOOLEAN]
    \cup [kind : {"complete"}, stage : {"mark", "flag"}, stream : Streams, reason : Reason, seen : Reason]

(* Every variable has its type; a session that exists was issued a token,  *)
(* and no declaration lists a segment that was not captured.               *)
TypeOK ==
    /\ now \in 0 .. MaxTime /\ streams \in 0 .. MaxStreams
    /\ session \in [Streams -> Session \cup {None}] /\ index \in Streams \cup {None}
    /\ creates \in 0 .. MaxCreates /\ declares \in 0 .. MaxDeclares
    /\ held \in [Streams -> 0 .. creates]
    /\ captured \in [Streams -> 0 .. MaxSegs] /\ stopped \in [Streams -> BOOLEAN]
    /\ object \in [Streams -> [Segs -> Contents \cup {None}]]
    /\ segments \in [Streams -> [Segs -> Contents \cup {None}]]
    /\ complete \subseteq 1 .. streams /\ inventory \in [Streams -> Inventory \cup {None}]
    /\ req \in [Req -> Request]
    /\ \A s \in Streams : Exists(s) => s <= streams /\ session[s].token \in 1 .. creates
    /\ \A s \in Streams : inventory[s] # None => inventory[s].segs <= captured[s]

(* "RegisterOrGetUpload guarantees one active upload stream per candidate, *)
(* exam session and stream type": an unfinished session is the one the     *)
(* index names, through resumes, completions and expiries.                 *)
OneActiveStream == \A s \in Streams : Unfinished(s) => index = s

(* "without reopening the finalized stream": once finished, a session is   *)
(* given neither a new token nor a new expiry, and stays finished.         *)
NeverReopened ==
    [][\A s \in Streams : (Exists(s) /\ session[s].completed /\ session'[s] # None) =>
           /\ session'[s].completed
           /\ session'[s].token = session[s].token /\ session'[s].expiresAt = session[s].expiresAt]_vars

(* Reconcile's missing segments.                                           *)
Missing(s) == {q \in 1 .. inventory[s].segs : segments[s][q] = None}

(* A recording reported whole under a complete inventory is whole: every   *)
(* segment the client captured was received, whatever declarations raced.  *)
CompleteIsWhole ==
    \A s \in Streams : (inventory[s] # None /\ inventory[s].complete /\ Missing(s) = {}) =>
        \A q \in 1 .. captured[s] : object[s][q] # None

-----------------------------------------------------------------------------
(***************************************************************************)
(* What comments in the code say of it and the model refutes.              *)
(***************************************************************************)

(* Two uploads racing "must not let the older, shorter list win".          *)
InventoryOnlyGrows ==
    [][\A s \in Streams : inventory[s] # None => inventory'[s].segs >= inventory[s].segs]_vars

(* "Repeating POST /stream/sessions resumes an unfinished stream": until   *)
(* it expires, an unfinished session is there to be resumed.               *)
UnfinishedSurvives ==
    [][\A s \in Streams : (Unfinished(s) /\ now < session[s].expiresAt) => session'[s] # None]_vars

(* A number that "already contains different content" is a conflict: what  *)
(* is stored has the checksum that is registered.                          *)
StoredMatchesRegistered ==
    \A s \in Streams, q \in Segs : segments[s][q] # None => object[s][q] = segments[s][q]
=============================================================================
