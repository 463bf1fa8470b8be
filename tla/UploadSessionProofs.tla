------------------------ MODULE UploadSessionProofs ------------------------
(***************************************************************************)
(* Theorems about UploadSession, for any number of requests in flight,     *)
(* streams, segments, contents and declarations.                           *)
(***************************************************************************)
EXTENDS UploadSession, TLAPS

USE ConstantsAssumption
USE DEF Streams, Segs, Exists, Unfinished

(* A declaration under way lists what was captured, and all of it if it is *)
(* a final one: the client has then stopped.                               *)
DeclaredOK ==
    /\ \A r \in Req : req[r].kind = "declare" =>
          /\ req[r].segs <= captured[req[r].stream]
          /\ req[r].complete => stopped[req[r].stream] /\ req[r].segs = captured[req[r].stream]
    /\ \A s \in Streams : inventory[s] # None /\ inventory[s].complete =>
          stopped[s] /\ inventory[s].segs = captured[s]

(* A segment is stored before it is registered.                            *)
StoredFirst ==
    /\ \A s \in Streams, q \in Segs : segments[s][q] # None => object[s][q] # None
    /\ \A r \in Req : req[r].kind = "upload" /\ req[r].stage = "add" =>
          object[req[r].stream][req[r].seq] # None

(* A request is about a stream that was created.                           *)
KnownStreams == \A r \in Req : req[r].kind # "idle" => req[r].stream <= streams

IInv == TypeOK /\ KnownStreams /\ OneActiveStream /\ DeclaredOK /\ StoredFirst

-----------------------------------------------------------------------------
(***************************************************************************)
(* Type correctness.                                                       *)
(***************************************************************************)
UploadRequest ==
    [kind : {"upload"}, stage : {"store", "add"}, stream : Streams, seq : Segs, content : Contents]
DeclareRequest ==
    [kind : {"declare"}, stage : {"sent", "set"}, stream : Streams, at : 1 .. MaxDeclares,
     segs : 0 .. MaxSegs, complete : BOOLEAN]
CompleteRequest ==
    [kind : {"complete"}, stage : {"mark", "flag"}, stream : Streams, reason : Reason, seen : Reason]

(* A request is of the kind it says.                                       *)
LEMMA RequestKinds ==
  ASSUME NEW m \in Request
  PROVE /\ m.kind \in {"idle", "expired", "upload", "declare", "complete"}
        /\ m.kind = "idle" => m = Idle
        /\ m.kind # "idle" => m.stream \in Streams
        /\ m.kind = "upload" => m \in UploadRequest
        /\ m.kind = "declare" => m \in DeclareRequest
        /\ m.kind = "complete" => m \in CompleteRequest
  BY DEF Request, Idle, UploadRequest, DeclareRequest, CompleteRequest

LEMMA RequestSets ==
  /\ Idle \in Request /\ UploadRequest \subseteq Request /\ DeclareRequest \subseteq Request
  /\ CompleteRequest \subseteq Request /\ [kind : {"expired"}, stream : Streams] \subseteq Request
  BY DEF Request, Idle, UploadRequest, DeclareRequest, CompleteRequest

LEMMA TypeInit == Init => TypeOK /\ KnownStreams
  BY RequestSets DEF Init, TypeOK, KnownStreams, Idle

(* Finishing or advancing a request keeps the requests in their type.      *)
LEMMA PutType ==
  ASSUME TypeOK, KnownStreams, NEW r \in Req, NEW m \in Request, Put(r, m),
         m.kind # "idle" => m.stream <= streams, streams' \in Nat, streams' >= streams
  PROVE req' \in [Req -> Request] /\ KnownStreams'
  <1>1. req \in [Req -> Request] /\ streams \in Nat /\ req' = [req EXCEPT ![r] = m]
    BY DEF TypeOK, Put
  <1>2. \A x \in Req : req[x].kind # "idle" => req[x].stream \in Streams /\ req[x].stream <= streams
    BY <1>1, RequestKinds DEF KnownStreams
  <1>3. m.kind # "idle" => m.stream \in Streams
    BY RequestKinds
  <1>4. ASSUME NEW x \in Req, req'[x].kind # "idle" PROVE req'[x].stream <= streams'
    <2>1. CASE x = r
      BY <1>1, <1>3, <1>4, <2>1
    <2>2. CASE x # r
      BY <1>1, <1>2, <1>4, <2>2
    <2>3. QED
      BY <2>1, <2>2
  <1>5. QED
    BY <1>1, <1>4 DEF KnownStreams

(* The requests, when a step does not touch them.                          *)
LEMMA KeptType ==
  ASSUME TypeOK, KnownStreams, UNCHANGED req, streams' \in Nat, streams' >= streams
  PROVE req' \in [Req -> Request] /\ KnownStreams'
  <1>1. \A x \in Req : req[x].kind # "idle" => req[x].stream \in Streams /\ req[x].stream <= streams
    BY RequestKinds DEF KnownStreams, TypeOK
  <1>2. QED
    BY <1>1 DEF TypeOK, KnownStreams

(* Everything in TypeOK but the requests.                                  *)
StoreOK ==
    /\ now \in 0 .. MaxTime /\ streams \in 0 .. MaxStreams
    /\ session \in [Streams -> Session \cup {None}] /\ index \in Streams \cup {None}
    /\ creates \in 0 .. MaxCreates /\ declares \in 0 .. MaxDeclares
    /\ held \in [Streams -> 0 .. creates]
    /\ captured \in [Streams -> 0 .. MaxSegs] /\ stopped \in [Streams -> BOOLEAN]
    /\ object \in [Streams -> [Segs -> Contents \cup {None}]]
    /\ segments \in [Streams -> [Segs -> Contents \cup {None}]]
    /\ complete \subseteq 1 .. streams /\ inventory \in [Streams -> Inventory \cup {None}]
    /\ \A s \in Streams : Exists(s) => s <= streams /\ session[s].token \in 1 .. creates
    /\ \A s \in Streams : inventory[s] # None => inventory[s].segs <= captured[s]

LEMMA TypeParts == TypeOK <=> StoreOK /\ req \in [Req -> Request]
  BY DEF TypeOK, StoreOK

LEMMA StoreFrame ==
  StoreOK /\ UNCHANGED <<now, sessionVars, clientVars, uploadVars>> => StoreOK'
  BY DEF StoreOK, sessionVars, clientVars, uploadVars

(* Streams are only ever added.                                            *)
LEMMA StreamsGrow == TypeOK /\ [Next]_vars => streams \in Nat /\ streams' \in Nat /\ streams' >= streams
  <1> SUFFICES ASSUME TypeOK, [Next]_vars PROVE streams \in Nat /\ streams' \in Nat /\ streams' >= streams
    OBVIOUS
  <1>t. streams \in Nat
    BY DEF TypeOK
  <1>1. CASE UNCHANGED streams
    BY <1>1, <1>t
  <1>2. ASSUME NEW e \in 1 .. MaxTime, NEW delivered \in BOOLEAN, CreateSession(e, delivered)
        PROVE streams' = streams \/ streams' = streams + 1
    BY <1>2 DEF CreateSession, RegisterOrGetUpload
  <1>3. ASSUME NEW s \in Streams, Capture(s) \/ RedisExpires(s) PROVE UNCHANGED streams
    BY <1>3 DEF Capture, RedisExpires, sessionVars
  <1>4. ASSUME NEW r \in Req, NEW s \in Streams, NEW final \in BOOLEAN, SendInventory(r, s, final)
        PROVE UNCHANGED streams
    BY <1>4 DEF SendInventory, sessionVars
  <1>5. ASSUME NEW r \in Req, Begin(r) PROVE UNCHANGED streams
    BY <1>5 DEF Begin, LookupExpired, Upload, Complete, sessionVars
  <1>6. ASSUME NEW r \in Req, Proceed(r) PROVE UNCHANGED streams
    BY <1>6 DEF Proceed, DeleteExpired, UploadSegment, Add, DeclareInventory, SetInventory,
                MarkUploadComplete, MarkComplete, Abort, sessionVars
  <1>7. Tick \/ UNCHANGED vars => UNCHANGED streams
    BY DEF Tick, vars, sessionVars
  <1>8. QED
    BY <1>1, <1>2, <1>3, <1>4, <1>5, <1>6, <1>7, <1>t DEF Next, ClientStep

(* Every step keeps the requests in flight in their type.                  *)
LEMMA RequestStep == IInv /\ [Next]_vars => req' \in [Req -> Request] /\ KnownStreams'
  <1> SUFFICES ASSUME IInv, [Next]_vars PROVE req' \in [Req -> Request] /\ KnownStreams'
    OBVIOUS
  <1>t. TypeOK /\ KnownStreams
    BY DEF IInv
  <1>s. streams \in Nat /\ streams' \in Nat /\ streams' >= streams
    BY <1>t, StreamsGrow
  <1> DEFINE Good(m) == m \in Request /\ (m.kind # "idle" => m.stream <= streams)
  <1>p. ASSUME NEW r \in Req, NEW m, Good(m), Put(r, m) PROVE req' \in [Req -> Request] /\ KnownStreams'
    BY <1>p, <1>s, <1>t, PutType
  <1>i. Good(Idle)
    BY RequestSets DEF Idle
  <1>r. \A r \in Req : Good(req[r])
    BY <1>t DEF TypeOK, KnownStreams
  <1>k. \A r \in Req : /\ req[r].kind = "upload" => req[r] \in UploadRequest
                       /\ req[r].kind = "declare" => req[r] \in DeclareRequest
                       /\ req[r].kind = "complete" => req[r] \in CompleteRequest
    BY <1>t, RequestKinds DEF TypeOK
  <1>x. \A s \in Streams : Exists(s) => s <= streams /\ session[s] \in Session
    BY <1>t DEF TypeOK
  <1> HIDE DEF Good
  <1>1. CASE UNCHANGED req
    BY <1>1, <1>s, <1>t, KeptType
  <1>2. ASSUME NEW r \in Req, NEW s \in Streams, NEW final \in BOOLEAN, SendInventory(r, s, final)
        PROVE req' \in [Req -> Request] /\ KnownStreams'
    <2> DEFINE m == [kind |-> "declare", stage |-> "sent", stream |-> s, at |-> declares',
                     segs |-> captured[s], complete |-> stopped'[s]]
    <2>1. Put(r, m) /\ s <= streams /\ declares' \in 1 .. MaxDeclares
      BY <1>2, <1>t DEF SendInventory, TypeOK
    <2>2. captured[s] \in 0 .. MaxSegs /\ stopped'[s] \in BOOLEAN
      BY <1>2, <1>t DEF SendInventory, TypeOK
    <2>3. m \in DeclareRequest
      BY <2>1, <2>2 DEF DeclareRequest
    <2>4. Good(m)
      BY <2>1, <2>3, RequestSets DEF Good
    <2>5. QED
      BY <1>p, <2>1, <2>4
  <1>3. ASSUME NEW r \in Req, NEW s \in Streams, LookupExpired(r, s)
        PROVE req' \in [Req -> Request] /\ KnownStreams'
    <2>1. Good([kind |-> "expired", stream |-> s])
      BY <1>3, <1>x, RequestSets DEF LookupExpired, Good
    <2>2. QED
      BY <1>3, <1>p, <2>1 DEF LookupExpired
  <1>4. ASSUME NEW r \in Req, NEW s \in Streams, NEW q \in Segs, NEW c \in Contents, Upload(r, s, q, c)
        PROVE req' \in [Req -> Request] /\ KnownStreams'
    <2> DEFINE m == [kind |-> "upload", stage |-> "store", stream |-> s, seq |-> q, content |-> c]
    <2>1. Put(r, m) /\ s <= streams
      BY <1>4, <1>x DEF Upload, Current, Owned
    <2>2. m \in UploadRequest
      BY DEF UploadRequest
    <2>3. Good(m)
      BY <2>1, <2>2, RequestSets DEF Good
    <2>4. QED
      BY <1>p, <2>1, <2>3
  <1>5. ASSUME NEW r \in Req, NEW s \in Streams, NEW body \in Bodies, Complete(r, s, body)
        PROVE req' \in [Req -> Request] /\ KnownStreams'
    <2> DEFINE m == [kind |-> "complete", stage |-> "mark", stream |-> s,
                     reason |-> ReadStopReason(body), seen |-> session[s].reason]
    <2>1. Put(r, m) /\ s <= streams /\ session[s] \in Session
      BY <1>5, <1>x DEF Complete, Current, Owned
    <2>2. m \in CompleteRequest
      BY <2>1 DEF CompleteRequest, ReadStopReason, Reason, Session
    <2>3. Good(m)
      BY <2>1, <2>2, RequestSets DEF Good
    <2>4. QED
      BY <1>p, <2>1, <2>3
  <1>6. ASSUME NEW r \in Req, UploadSegment(r) PROVE req' \in [Req -> Request] /\ KnownStreams'
    <2>1. Put(r, [req[r] EXCEPT !.stage = "add"]) /\ req[r] \in UploadRequest
      BY <1>6, <1>k DEF UploadSegment
    <2>2. [req[r] EXCEPT !.stage = "add"] \in UploadRequest /\ [req[r] EXCEPT !.stage = "add"].stream = req[r].stream
      BY <2>1 DEF UploadRequest
    <2>3. Good([req[r] EXCEPT !.stage = "add"])
      BY <1>r, <2>1, <2>2, RequestSets DEF Good, UploadRequest
    <2>4. QED
      BY <1>p, <2>1, <2>3
  <1>7. ASSUME NEW r \in Req, DeclareInventory(r) PROVE req' \in [Req -> Request] /\ KnownStreams'
    <2>1. req[r] \in DeclareRequest /\ (Put(r, Idle) \/ Put(r, [req[r] EXCEPT !.stage = "set"]))
      BY <1>7, <1>k DEF DeclareInventory, Free
    <2>2. /\ [req[r] EXCEPT !.stage = "set"] \in DeclareRequest
          /\ [req[r] EXCEPT !.stage = "set"].stream = req[r].stream
      BY <2>1 DEF DeclareRequest
    <2>3. Good([req[r] EXCEPT !.stage = "set"])
      BY <1>r, <2>1, <2>2, RequestSets DEF Good, DeclareRequest
    <2>4. QED
      BY <1>i, <1>p, <2>1, <2>3
  <1>8. ASSUME NEW r \in Req, MarkUploadComplete(r) PROVE req' \in [Req -> Request] /\ KnownStreams'
    <2>1. req[r] \in CompleteRequest /\ (Put(r, Idle) \/ Put(r, Answering(req[r])))
      BY <1>8, <1>k DEF MarkUploadComplete, Free
    <2>2. Answering(req[r]) \in CompleteRequest /\ Answering(req[r]).stream = req[r].stream
      BY <2>1 DEF CompleteRequest, Answering, FirstReason, Reason
    <2>3. Good(Answering(req[r]))
      BY <1>r, <2>1, <2>2, RequestSets DEF Good, CompleteRequest
    <2>4. QED
      BY <1>i, <1>p, <2>1, <2>3
  <1>9. ASSUME NEW r \in Req, DeleteExpired(r) \/ Add(r) \/ SetInventory(r) \/ MarkComplete(r) \/ Abort(r)
        PROVE req' \in [Req -> Request] /\ KnownStreams'
    <2>1. Put(r, Idle)
      BY <1>9 DEF DeleteExpired, Add, SetInventory, MarkComplete, Abort, Free
    <2>2. QED
      BY <1>i, <1>p, <2>1
  <1>10. QED
    BY <1>1, <1>2, <1>3, <1>4, <1>5, <1>6, <1>7, <1>8, <1>9
       DEF Next, ClientStep, Begin, Proceed, Capture, Tick, CreateSession, RedisExpires, vars

(* Every step keeps the rest of the state in its type.                     *)
LEMMA StoreStep == IInv /\ [Next]_vars => StoreOK'
  <1> SUFFICES ASSUME IInv, [Next]_vars PROVE StoreOK'
    OBVIOUS
  <1>t. StoreOK /\ req \in [Req -> Request]
    BY TypeParts DEF IInv
  <1>k. \A r \in Req : /\ req[r].kind # "idle" => req[r].stream \in Streams /\ req[r].stream <= streams
                       /\ req[r].kind = "upload" => req[r] \in UploadRequest
                       /\ req[r].kind = "declare" => req[r] \in DeclareRequest
                       /\ req[r].kind = "complete" => req[r] \in CompleteRequest
    BY <1>t, RequestKinds DEF IInv, KnownStreams
  <1>d. \A r \in Req : req[r].kind = "declare" => req[r].segs <= captured[req[r].stream]
    BY DEF IInv, DeclaredOK
  <1>1. CASE UNCHANGED <<now, sessionVars, clientVars, uploadVars>>
    BY <1>1, <1>t, StoreFrame
  <1>2. ASSUME NEW s \in Streams, Capture(s) PROVE StoreOK'
    <2>c. captured \in [Streams -> 0 .. MaxSegs] /\ MaxSegs \in Nat
      BY <1>t DEF StoreOK
    <2>e. captured' = [captured EXCEPT ![s] = captured[s] + 1] /\ captured[s] < MaxSegs
      BY <1>2 DEF Capture
    <2>1. captured' \in [Streams -> 0 .. MaxSegs]
      BY <2>c, <2>e
    <2>2. \A x \in Streams : captured[x] \in Nat /\ captured'[x] \in Nat /\ captured'[x] >= captured[x]
      <3>1. \A x \in Streams : captured'[x] = IF x = s THEN captured[x] + 1 ELSE captured[x]
        BY <2>c, <2>e
      <3>2. \A x \in Streams : captured[x] \in Nat
        BY <2>c
      <3>3. QED
        BY <3>1, <3>2
    <2>3. \A x \in Streams : inventory[x] # None => inventory[x].segs \in Nat
      BY <1>t DEF StoreOK, Inventory
    <2>4. \A x \in Streams : inventory[x] # None => inventory[x].segs <= captured'[x]
      <3>1. \A x \in Streams : inventory[x] # None => inventory[x].segs <= captured[x]
        BY <1>t DEF StoreOK
      <3>2. QED
        BY <2>2, <2>3, <3>1
    <2>5. UNCHANGED <<now, sessionVars, stopped, declares, uploadVars>>
      BY <1>2 DEF Capture
    <2>6. QED
      BY <1>t, <2>1, <2>4, <2>5 DEF StoreOK, sessionVars, uploadVars
  <1>3. ASSUME NEW r \in Req, NEW s \in Streams, NEW final \in BOOLEAN, SendInventory(r, s, final)
        PROVE StoreOK'
    BY <1>3, <1>t DEF SendInventory, StoreOK, sessionVars, uploadVars
  <1>4. ASSUME NEW e \in 1 .. MaxTime, NEW delivered \in BOOLEAN, CreateSession(e, delivered)
        PROVE StoreOK'
    <2> DEFINE c == creates + 1
    <2>c. creates \in Nat /\ c = creates + 1 /\ creates' = c /\ c \in 1 .. MaxCreates /\ RegisterOrGetUpload(e, c)
      BY <1>4, <1>t DEF CreateSession, StoreOK
    <2> HIDE DEF c
    <2>1. /\ streams' \in 0 .. MaxStreams /\ index' \in Streams
          /\ session' \in [Streams -> Session \cup {None}]
          /\ streams' >= streams
          /\ \A x \in Streams : session'[x] # None => x <= streams' /\ session'[x].token \in 1 .. c
      <3>1. CASE Resumable /\ session' = [session EXCEPT ![index].token = c, ![index].expiresAt = e]
                 /\ UNCHANGED <<index, streams>>
        <4>1. index \in Streams /\ session[index] \in Session /\ index <= streams
          BY <1>t, <3>1 DEF Resumable, StoreOK
        <4>2. session' = [session EXCEPT ![index] = [session[index] EXCEPT !.token = c, !.expiresAt = e]]
          BY <1>t, <3>1, <4>1 DEF StoreOK
        <4>3. [session[index] EXCEPT !.token = c, !.expiresAt = e] \in Session
          <5>1. e \in Nat /\ c \in Nat
            BY <2>c
          <5>2. QED
            BY <4>1, <5>1 DEF Session
        <4>4. [session[index] EXCEPT !.token = c, !.expiresAt = e].token = c
          BY <4>1 DEF Session
        <4>5. session' \in [Streams -> Session \cup {None}]
          BY <1>t, <4>2, <4>3 DEF StoreOK
        <4>6. \A x \in Streams : session[x] # None => x <= streams /\ session[x].token \in 1 .. c
          <5>1. \A x \in Streams : session[x] # None => x <= streams /\ session[x].token \in 1 .. creates
            BY <1>t DEF StoreOK
          <5>2. QED
            BY <2>c, <5>1
        <4>7. \A x \in Streams : x # index => session'[x] = session[x]
          BY <1>t, <4>2 DEF StoreOK
        <4>8. session'[index].token = c
          BY <1>t, <4>1, <4>2, <4>4 DEF StoreOK
        <4>9. \A x \in Streams : session'[x] # None => x <= streams' /\ session'[x].token \in 1 .. c
          <5>1. streams' = streams /\ c \in 1 .. c
            BY <2>c, <3>1
          <5>2. QED
            BY <4>1, <4>6, <4>7, <4>8, <5>1
        <4>10. streams \in 0 .. MaxStreams /\ streams' >= streams
          BY <1>t, <3>1 DEF StoreOK
        <4>11. QED
          BY <3>1, <4>1, <4>5, <4>9, <4>10
      <3>2. CASE /\ ~Resumable /\ streams < MaxStreams
                 /\ streams' = streams + 1 /\ index' = streams'
                 /\ session' = [session EXCEPT ![streams'] = Fresh(e, c)]
        <4>1. Fresh(e, c) \in Session /\ Fresh(e, c).token = c
          BY <2>c DEF Fresh, Session, Reason
        <4>2. streams' \in Streams /\ streams \in Nat
          BY <1>t, <3>2 DEF StoreOK
        <4>3. \A x \in Streams : session'[x] = IF x = streams' THEN Fresh(e, c) ELSE session[x]
          BY <1>t, <3>2, <4>2 DEF StoreOK
        <4>4. session' \in [Streams -> Session \cup {None}]
          BY <1>t, <3>2, <4>1, <4>2 DEF StoreOK
        <4>5. \A x \in Streams : session[x] # None => x <= streams' /\ session[x].token \in 1 .. c
          <5>1. \A x \in Streams : session[x] # None => x <= streams /\ session[x].token \in 1 .. creates
            BY <1>t DEF StoreOK
          <5>2. QED
            BY <2>c, <3>2, <4>2, <5>1
        <4>6. \A x \in Streams : session'[x] # None => x <= streams' /\ session'[x].token \in 1 .. c
          <5>1. c \in 1 .. c /\ streams' <= streams'
            BY <2>c, <4>2
          <5>2. QED
            BY <4>1, <4>3, <4>5, <5>1
        <4>7. streams' \in 0 .. MaxStreams /\ streams' >= streams
          BY <3>2, <4>2
        <4>8. QED
          BY <3>2, <4>2, <4>4, <4>6, <4>7
      <3>3. QED
        BY <2>c, <3>1, <3>2 DEF RegisterOrGetUpload
    <2>2. held' \in [Streams -> 0 .. c]
      <3>0. held \in [Streams -> 0 .. creates]
        BY <1>t DEF StoreOK
      <3>1. held \in [Streams -> 0 .. c]
        BY <2>c, <3>0
      <3>2. QED
        BY <1>4, <2>1, <2>c, <3>1 DEF CreateSession
    <2>3. complete \subseteq 1 .. streams'
      BY <1>t, <2>1 DEF StoreOK
    <2>4. creates' \in 0 .. MaxCreates
      BY <2>c
    <2>5. UNCHANGED <<now, captured, stopped, declares, object, segments, complete, inventory>>
      BY <1>4 DEF CreateSession, clientVars, uploadVars
    <2>6. QED
      BY <1>t, <2>1, <2>2, <2>3, <2>4, <2>5, <2>c DEF StoreOK
  <1>5. ASSUME NEW r \in Req, DeleteExpired(r) PROVE StoreOK'
    BY <1>5, <1>t DEF DeleteExpired, StoreOK, clientVars, uploadVars
  <1>6. ASSUME NEW s \in Streams, RedisExpires(s) PROVE StoreOK'
    BY <1>6, <1>t DEF RedisExpires, StoreOK, clientVars, uploadVars
  <1>7. ASSUME NEW r \in Req, UploadSegment(r) PROVE StoreOK'
    <2>1. req[r] \in UploadRequest
      BY <1>7, <1>k DEF UploadSegment
    <2>2. object' \in [Streams -> [Segs -> Contents \cup {None}]]
      BY <1>7, <1>t, <2>1 DEF UploadSegment, UploadRequest, StoreOK
    <2>3. QED
      BY <1>7, <1>t, <2>2 DEF UploadSegment, StoreOK, sessionVars, clientVars
  <1>8. ASSUME NEW r \in Req, Add(r) PROVE StoreOK'
    <2>1. req[r] \in UploadRequest
      BY <1>8, <1>k DEF Add
    <2>2. segments' \in [Streams -> [Segs -> Contents \cup {None}]]
      BY <1>8, <1>t, <2>1 DEF Add, UploadRequest, StoreOK
    <2>3. QED
      BY <1>8, <1>t, <2>2 DEF Add, StoreOK, sessionVars, clientVars
  <1>9. ASSUME NEW r \in Req, SetInventory(r) PROVE StoreOK'
    <2>1. req[r] \in DeclareRequest /\ req[r].segs <= captured[req[r].stream]
      BY <1>9, <1>d, <1>k DEF SetInventory
    <2>2. Declaration(req[r]) \in Inventory /\ Declaration(req[r]).segs = req[r].segs
      BY <2>1 DEF DeclareRequest, Declaration, Inventory
    <2>3. inventory' = [inventory EXCEPT ![req[r].stream] = Declaration(req[r])]
      BY <1>9 DEF SetInventory
    <2>4. req[r].stream \in Streams
      BY <2>1 DEF DeclareRequest
    <2>5. \A x \in Streams : inventory'[x] = IF x = req[r].stream THEN Declaration(req[r]) ELSE inventory[x]
      BY <1>t, <2>3, <2>4 DEF StoreOK
    <2>6. \A x \in Streams : inventory'[x] # None => inventory'[x].segs <= captured[x]
      BY <1>t, <2>1, <2>2, <2>5 DEF StoreOK
    <2>7. inventory' \in [Streams -> Inventory \cup {None}]
      BY <1>t, <2>2, <2>3 DEF StoreOK
    <2>8. QED
      BY <1>9, <1>t, <2>6, <2>7 DEF SetInventory, StoreOK, sessionVars, clientVars
  <1>10. ASSUME NEW r \in Req, MarkUploadComplete(r) PROVE StoreOK'
    <2>1. req[r] \in CompleteRequest
      BY <1>10, <1>k DEF MarkUploadComplete
    <2> DEFINE s == req[r].stream
               done == [session[s] EXCEPT !.completed = TRUE, !.reason = FirstReason(@, req[r].reason)]
    <2>2. s \in Streams /\ req[r].reason \in Reason
      BY <2>1 DEF CompleteRequest
    <2>3. CASE UNCHANGED session
      BY <1>10, <1>t, <2>3 DEF MarkUploadComplete, StoreOK, clientVars, uploadVars
    <2>4. CASE /\ Exists(s)
               /\ session' = [session EXCEPT ![s].completed = TRUE, ![s].reason = FirstReason(@, req[r].reason)]
      <3>1. session[s] \in Session
        BY <1>t, <2>2, <2>4 DEF StoreOK
      <3>2. session' = [session EXCEPT ![s] = done]
        BY <1>t, <2>2, <2>4, <3>1 DEF StoreOK, Session
      <3>3. done \in Session /\ done.token = session[s].token
        BY <2>2, <3>1 DEF Session, FirstReason
      <3> HIDE DEF done
      <3>4. \A x \in Streams : session'[x] = IF x = s THEN done ELSE session[x]
        BY <1>t, <2>2, <3>2 DEF StoreOK
      <3>5. session' \in [Streams -> Session \cup {None}]
        BY <1>t, <3>2, <3>3 DEF StoreOK
      <3>6. \A x \in Streams : session'[x] # None => x <= streams /\ session'[x].token \in 1 .. creates
        BY <1>t, <2>4, <3>3, <3>4 DEF StoreOK
      <3>7. QED
        BY <1>10, <1>t, <3>5, <3>6 DEF MarkUploadComplete, StoreOK, clientVars, uploadVars
    <2>5. QED
      BY <1>10, <2>3, <2>4 DEF MarkUploadComplete
  <1>11. ASSUME NEW r \in Req, MarkComplete(r) PROVE StoreOK'
    <2>1. req[r].stream \in Streams /\ req[r].stream <= streams
      BY <1>11, <1>k DEF MarkComplete
    <2>2. complete' \subseteq 1 .. streams
      <3>1. complete \subseteq 1 .. streams /\ streams \in Nat
        BY <1>t DEF StoreOK
      <3>2. complete' = complete \cup {req[r].stream}
        BY <1>11 DEF MarkComplete
      <3>3. req[r].stream \in 1 .. streams
        BY <2>1, <3>1
      <3>4. QED
        BY <3>1, <3>2, <3>3
    <2>3. QED
      BY <1>11, <1>t, <2>2 DEF MarkComplete, StoreOK, sessionVars, clientVars
  <1>12. CASE Tick
    BY <1>12, <1>t DEF Tick, StoreOK, sessionVars, clientVars, uploadVars
  <1>13. QED
    BY <1>1, <1>2, <1>3, <1>4, <1>5, <1>6, <1>7, <1>8, <1>9, <1>10, <1>11, <1>12
       DEF Next, ClientStep, Begin, Proceed, LookupExpired, Upload, Complete, DeclareInventory, Abort, vars

-----------------------------------------------------------------------------
(***************************************************************************)
(* At most one unfinished stream.  Only the script creates a session, and  *)
(* only when the index names no unfinished one; the index moves with it.   *)
(***************************************************************************)
LEMMA ActiveStep == IInv /\ [Next]_vars => OneActiveStream'
  <1> SUFFICES ASSUME IInv, [Next]_vars PROVE OneActiveStream'
    OBVIOUS
  <1>t. /\ session \in [Streams -> Session \cup {None}] /\ index \in Streams \cup {None}
        /\ streams \in Nat /\ streams <= MaxStreams
        /\ \A s \in Streams : Exists(s) => s <= streams
    BY DEF IInv, TypeOK
  <1>k. \A r \in Req : req[r].kind # "idle" => req[r].stream \in Streams
    BY RequestKinds DEF IInv, TypeOK
  <1>a. \A s \in Streams : Unfinished(s) => index = s
    BY DEF IInv, OneActiveStream
  <1>n. \A s \in Streams : s # None
    OBVIOUS
  <1>1. CASE UNCHANGED <<session, index>>
    BY <1>1, <1>a DEF OneActiveStream
  <1>2. ASSUME NEW e \in 1 .. MaxTime, NEW delivered \in BOOLEAN, CreateSession(e, delivered)
        PROVE OneActiveStream'
    <2>1. CASE /\ Resumable /\ UNCHANGED index
               /\ session' = [session EXCEPT ![index].token = creates', ![index].expiresAt = e]
      <3>1. \A x \in Streams : x # index => session'[x] = session[x]
        BY <1>t, <2>1
      <3>2. QED
        BY <1>a, <2>1, <3>1 DEF OneActiveStream
    <2>2. CASE /\ ~Resumable /\ streams < MaxStreams /\ streams' = streams + 1 /\ index' = streams'
               /\ session' = [session EXCEPT ![streams'] = Fresh(e, creates')]
      <3>1. streams' \in Streams
        BY <1>t, <2>2
      <3>2. \A x \in Streams : x # streams' => session'[x] = session[x]
        BY <1>t, <2>2, <3>1
      <3>3. \A x \in Streams : ~Unfinished(x)
        BY <1>a, <1>n, <2>2 DEF Resumable
      <3>4. QED
        BY <2>2, <3>2, <3>3 DEF OneActiveStream
    <2>3. QED
      BY <1>2, <2>1, <2>2 DEF CreateSession, RegisterOrGetUpload
  <1>3. ASSUME NEW r \in Req, DeleteExpired(r) PROVE OneActiveStream'
    <2>1. req[r].stream \in Streams /\ UNCHANGED index
      BY <1>3, <1>k DEF DeleteExpired
    <2>2. \A x \in Streams : session'[x] = session[x] \/ session'[x] = None
      BY <1>3, <1>t, <2>1 DEF DeleteExpired
    <2>3. QED
      BY <1>a, <2>1, <2>2 DEF OneActiveStream
  <1>4. ASSUME NEW s \in Streams, RedisExpires(s) PROVE OneActiveStream'
    <2>1. \A x \in Streams : IF x = s THEN session'[x] = None ELSE session'[x] = session[x]
      BY <1>4, <1>t DEF RedisExpires
    <2>2. QED
      BY <1>4, <1>a, <2>1 DEF RedisExpires, OneActiveStream
  <1>5. ASSUME NEW r \in Req, MarkUploadComplete(r) PROVE OneActiveStream'
    <2> DEFINE s == req[r].stream
    <2>1. s \in Streams /\ UNCHANGED index
      BY <1>5, <1>k DEF MarkUploadComplete
    <2>2. CASE UNCHANGED session
      BY <1>a, <2>1, <2>2 DEF OneActiveStream
    <2>3. CASE /\ Exists(s)
               /\ session' = [session EXCEPT ![s].completed = TRUE, ![s].reason = FirstReason(@, req[r].reason)]
      <3>1. session[s] \in Session
        BY <1>t, <2>1, <2>3
      <3>2. session'[s].completed
        BY <1>t, <2>1, <2>3, <3>1 DEF Session
      <3>3. \A x \in Streams : x # s => session'[x] = session[x]
        BY <1>t, <2>3
      <3>4. QED
        BY <1>a, <2>1, <3>2, <3>3 DEF OneActiveStream
    <2>4. QED
      BY <1>5, <2>2, <2>3 DEF MarkUploadComplete
  <1>6. QED
    BY <1>1, <1>2, <1>3, <1>4, <1>5
       DEF Next, ClientStep, Begin, Proceed, Capture, SendInventory, LookupExpired, Upload, Complete,
           UploadSegment, Add, DeclareInventory, SetInventory, MarkComplete, Abort, Tick, vars, sessionVars

-----------------------------------------------------------------------------
(***************************************************************************)
(* A registered segment is stored.  Put only ever stores, so that what is  *)
(* stored stays stored.                                                    *)
(***************************************************************************)
LEMMA StoredStep == IInv /\ [Next]_vars => StoredFirst'
  <1> SUFFICES ASSUME IInv, [Next]_vars PROVE StoredFirst'
    OBVIOUS
  <1>t. /\ req \in [Req -> Request]
        /\ object \in [Streams -> [Segs -> Contents \cup {None}]]
        /\ segments \in [Streams -> [Segs -> Contents \cup {None}]]
    BY DEF IInv, TypeOK
  <1>k. \A r \in Req : req[r].kind = "upload" => req[r] \in UploadRequest
    BY <1>t, RequestKinds
  <1>s. \A s \in Streams, q \in Segs : segments[s][q] # None => object[s][q] # None
    BY DEF IInv, StoredFirst
  <1>r. \A r \in Req : req[r].kind = "upload" /\ req[r].stage = "add" =>
          object[req[r].stream][req[r].seq] # None
    BY DEF IInv, StoredFirst
  <1>p. ASSUME NEW r \in Req, NEW m, Put(r, m), m.kind = "upload" => m.stage = "store",
               UNCHANGED <<object, segments>>
        PROVE StoredFirst'
    <2>1. \A x \in Req : req'[x] = IF x = r THEN m ELSE req[x]
      BY <1>p, <1>t DEF Put
    <2>2. QED
      BY <1>p, <1>r, <1>s, <2>1 DEF StoredFirst
  <1>1. CASE UNCHANGED <<object, segments, req>>
    BY <1>1, <1>r, <1>s DEF StoredFirst
  <1>2. ASSUME NEW r \in Req, UploadSegment(r) PROVE StoredFirst'
    <2> DEFINE m == req[r]
    <2>1. m \in UploadRequest /\ m.kind = "upload"
      BY <1>2, <1>k DEF UploadSegment
    <2>2. m.stream \in Streams /\ m.seq \in Segs /\ m.content # None
      BY <2>1 DEF UploadRequest
    <2>3. object' = [object EXCEPT ![m.stream][m.seq] = m.content]
      BY <1>2 DEF UploadSegment
    <2>4. \A s \in Streams, q \in Segs :
             object'[s][q] = IF s = m.stream /\ q = m.seq THEN m.content ELSE object[s][q]
      BY <1>t, <2>2, <2>3
    <2>5. \A x \in Req : req'[x] = IF x = r THEN [m EXCEPT !.stage = "add"] ELSE req[x]
      BY <1>2, <1>t DEF UploadSegment, Put
    <2>6. [m EXCEPT !.stage = "add"].stream = m.stream /\ [m EXCEPT !.stage = "add"].seq = m.seq
      BY <2>1 DEF UploadRequest
    <2>7. \A x \in Req : req[x].kind = "upload" => req[x].stream \in Streams /\ req[x].seq \in Segs
      BY <1>k DEF UploadRequest
    <2> HIDE DEF m
    <2>8. \A x \in Req : req'[x].kind = "upload" /\ req'[x].stage = "add" =>
             object'[req'[x].stream][req'[x].seq] # None
      <3> SUFFICES ASSUME NEW x \in Req, req'[x].kind = "upload", req'[x].stage = "add"
                   PROVE object'[req'[x].stream][req'[x].seq] # None
        OBVIOUS
      <3>1. CASE x = r
        <4>1. req'[x].stream = m.stream /\ req'[x].seq = m.seq
          BY <2>5, <2>6, <3>1
        <4>2. QED
          BY <2>2, <2>4, <4>1
      <3>2. CASE x # r
        <4>1. req'[x] = req[x]
          BY <2>5, <3>2
        <4>2. req[x].stream \in Streams /\ req[x].seq \in Segs /\ object[req[x].stream][req[x].seq] # None
          BY <1>r, <2>7, <4>1
        <4>3. object'[req[x].stream][req[x].seq] # None
          BY <2>2, <2>4, <4>2
        <4>4. QED
          BY <4>1, <4>3
      <3>3. QED
        BY <3>1, <3>2
    <2>9. UNCHANGED segments
      BY <1>2 DEF UploadSegment
    <2>10. QED
      BY <1>s, <2>2, <2>4, <2>8, <2>9 DEF StoredFirst
  <1>3. ASSUME NEW r \in Req, Add(r) PROVE StoredFirst'
    <2> DEFINE m == req[r]
    <2>1. m \in UploadRequest /\ object[m.stream][m.seq] # None
      BY <1>3, <1>k, <1>r DEF Add
    <2>2. m.stream \in Streams /\ m.seq \in Segs
      BY <2>1 DEF UploadRequest
    <2>3. segments' = [segments EXCEPT ![m.stream][m.seq] = m.content]
      BY <1>3 DEF Add
    <2>4. \A s \in Streams, q \in Segs :
             segments'[s][q] = IF s = m.stream /\ q = m.seq THEN m.content ELSE segments[s][q]
      BY <1>t, <2>2, <2>3
    <2>5. \A x \in Req : req'[x] = IF x = r THEN Idle ELSE req[x]
      BY <1>3, <1>t DEF Add, Free, Put
    <2> HIDE DEF m
    <2>6. UNCHANGED object
      BY <1>3 DEF Add
    <2>7. QED
      BY <1>r, <1>s, <2>1, <2>4, <2>5, <2>6 DEF StoredFirst, Idle
  <1>4. ASSUME NEW r \in Req, NEW s \in Streams, NEW final \in BOOLEAN, SendInventory(r, s, final)
        PROVE StoredFirst'
    <2>1. Put(r, [kind |-> "declare", stage |-> "sent", stream |-> s, at |-> declares',
                  segs |-> captured[s], complete |-> stopped'[s]])
      BY <1>4 DEF SendInventory
    <2>2. UNCHANGED <<object, segments>>
      BY <1>4 DEF SendInventory, uploadVars
    <2>3. QED
      BY <1>p, <2>1, <2>2
  <1>5. ASSUME NEW r \in Req, Begin(r) PROVE StoredFirst'
    <2>1. UNCHANGED <<object, segments>>
      BY <1>5 DEF Begin, LookupExpired, Upload, Complete, uploadVars
    <2>2. ASSUME NEW s \in Streams, LookupExpired(r, s) PROVE StoredFirst'
      BY <1>p, <2>1, <2>2 DEF LookupExpired
    <2>3. ASSUME NEW s \in Streams, NEW q \in Segs, NEW c \in Contents, Upload(r, s, q, c) PROVE StoredFirst'
      <3>1. Put(r, [kind |-> "upload", stage |-> "store", stream |-> s, seq |-> q, content |-> c])
        BY <2>3 DEF Upload
      <3>2. QED
        BY <1>p, <2>1, <3>1
    <2>4. ASSUME NEW s \in Streams, NEW body \in Bodies, Complete(r, s, body) PROVE StoredFirst'
      <3>1. Put(r, [kind |-> "complete", stage |-> "mark", stream |-> s,
                    reason |-> ReadStopReason(body), seen |-> session[s].reason])
        BY <2>4 DEF Complete
      <3>2. QED
        BY <1>p, <2>1, <3>1
    <2>5. QED
      BY <1>5, <2>2, <2>3, <2>4 DEF Begin
  <1>6. ASSUME NEW r \in Req, NEW m, Put(r, m), UNCHANGED <<object, segments>>,
               \/ m = Idle
               \/ m = [req[r] EXCEPT !.stage = "set"] /\ req[r].kind = "declare"
               \/ m = Answering(req[r]) /\ req[r].kind = "complete"
        PROVE StoredFirst'
    <2>1. req[r] \in Request
      BY <1>t
    <2>2. m.kind # "upload"
      <3>1. CASE m = Idle
        BY <3>1 DEF Idle
      <3>2. CASE m = [req[r] EXCEPT !.stage = "set"] /\ req[r].kind = "declare"
        <4>1. req[r] \in DeclareRequest
          BY <2>1, <3>2, RequestKinds
        <4>2. QED
          BY <3>2, <4>1 DEF DeclareRequest
      <3>3. CASE m = Answering(req[r]) /\ req[r].kind = "complete"
        <4>1. req[r] \in CompleteRequest
          BY <2>1, <3>3, RequestKinds
        <4>2. QED
          BY <3>3, <4>1 DEF CompleteRequest, Answering
      <3>4. QED
        BY <1>6, <3>1, <3>2, <3>3
    <2>3. QED
      BY <1>6, <1>p, <2>2
  <1>7. ASSUME NEW r \in Req,
               \/ DeleteExpired(r) \/ DeclareInventory(r) \/ SetInventory(r)
               \/ MarkUploadComplete(r) \/ MarkComplete(r) \/ Abort(r)
        PROVE StoredFirst'
    <2>1. UNCHANGED <<object, segments>>
      BY <1>7
         DEF DeleteExpired, DeclareInventory, SetInventory, MarkUploadComplete, MarkComplete,
             Abort, uploadVars
    <2>2. \/ Put(r, Idle)
          \/ Put(r, [req[r] EXCEPT !.stage = "set"]) /\ req[r].kind = "declare"
          \/ Put(r, Answering(req[r])) /\ req[r].kind = "complete"
      BY <1>7
         DEF DeleteExpired, DeclareInventory, SetInventory, MarkUploadComplete, MarkComplete,
             Abort, Free
    <2>3. CASE Put(r, Idle)
      BY <1>6, <2>1, <2>3
    <2>4. CASE Put(r, [req[r] EXCEPT !.stage = "set"]) /\ req[r].kind = "declare"
      BY <1>6, <2>1, <2>4
    <2>5. CASE Put(r, Answering(req[r])) /\ req[r].kind = "complete"
      BY <1>6, <2>1, <2>5
    <2>6. QED
      BY <2>2, <2>3, <2>4, <2>5
  <1>8. QED
    BY <1>1, <1>2, <1>3, <1>4, <1>5, <1>7
       DEF Next, ClientStep, Proceed, Capture, CreateSession, RedisExpires, Tick, vars, uploadVars

-----------------------------------------------------------------------------
(***************************************************************************)
(* Declarations.  Once a client has stopped, nothing more is captured, so  *)
(* that a final declaration stays exact however late it is applied.        *)
(***************************************************************************)
LEMMA DeclaredStep == IInv /\ [Next]_vars => DeclaredOK'
  <1> SUFFICES ASSUME IInv, [Next]_vars PROVE DeclaredOK'
    OBVIOUS
  <1>t. /\ req \in [Req -> Request] /\ captured \in [Streams -> Nat] /\ stopped \in [Streams -> BOOLEAN]
        /\ inventory \in [Streams -> Inventory \cup {None}]
    BY DEF IInv, TypeOK
  <1>k. \A r \in Req : req[r].kind = "declare" => req[r].stream \in Streams /\ req[r].segs \in Nat
    <2>1. \A r \in Req : req[r].kind = "declare" => req[r] \in DeclareRequest
      BY <1>t, RequestKinds
    <2>2. QED
      BY <2>1 DEF DeclareRequest
  <1> DEFINE Says(m) == /\ m.segs <= captured[m.stream]
                        /\ m.complete => stopped[m.stream] /\ m.segs = captured[m.stream]
             Kept(s) == /\ captured'[s] \in Nat /\ captured'[s] >= captured[s]
                        /\ stopped[s] => stopped'[s] /\ captured'[s] = captured[s]
  <1>r. \A r \in Req : req[r].kind = "declare" => Says(req[r])
    BY DEF IInv, DeclaredOK
  <1>i. \A s \in Streams : inventory[s] # None /\ inventory[s].complete =>
           stopped[s] /\ inventory[s].segs = captured[s]
    BY DEF IInv, DeclaredOK
  <1>p. ASSUME NEW r \in Req, NEW m, Put(r, m), UNCHANGED <<captured, stopped, inventory>>,
               m.kind = "declare" => Says(m)
        PROVE DeclaredOK'
    <2>1. \A x \in Req : req'[x] = IF x = r THEN m ELSE req[x]
      BY <1>p, <1>t DEF Put
    <2>2. ASSUME NEW x \in Req, req'[x].kind = "declare" PROVE Says(req'[x])
      <3>1. CASE x = r
        BY <1>p, <2>1, <2>2, <3>1
      <3>2. CASE x # r
        BY <1>r, <2>1, <2>2, <3>2
      <3>3. QED
        BY <3>1, <3>2
    <2>3. QED
      BY <1>i, <1>p, <2>2 DEF DeclaredOK
  <1>1. CASE UNCHANGED <<captured, stopped, inventory, req>>
    BY <1>1, <1>i, <1>r DEF DeclaredOK
  <1>2. ASSUME NEW s \in Streams, Capture(s) PROVE DeclaredOK'
    <2>1. \A x \in Streams : captured'[x] = IF x = s THEN captured[x] + 1 ELSE captured[x]
      BY <1>2, <1>t DEF Capture
    <2>2. \A x \in Streams : captured[x] \in Nat
      BY <1>t
    <2>3. ~stopped[s] /\ UNCHANGED <<stopped, inventory, req>>
      BY <1>2 DEF Capture, uploadVars
    <2>4. \A x \in Streams : Kept(x)
      BY <2>1, <2>2, <2>3
    <2>5. ASSUME NEW x \in Req, req[x].kind = "declare"
          PROVE /\ req[x].segs <= captured'[req[x].stream]
                /\ req[x].complete => stopped'[req[x].stream] /\ req[x].segs = captured'[req[x].stream]
      BY <1>k, <1>r, <2>2, <2>4, <2>5
    <2>6. QED
      BY <1>i, <2>3, <2>4, <2>5 DEF DeclaredOK
  <1>3. ASSUME NEW r \in Req, NEW s \in Streams, NEW final \in BOOLEAN, SendInventory(r, s, final)
        PROVE DeclaredOK'
    <2> DEFINE m == [kind |-> "declare", stage |-> "sent", stream |-> s, at |-> declares',
                     segs |-> captured[s], complete |-> stopped'[s]]
    <2>1. \A x \in Req : req'[x] = IF x = r THEN m ELSE req[x]
      BY <1>3, <1>t DEF SendInventory, Put
    <2>2. UNCHANGED <<captured, inventory>>
      BY <1>3 DEF SendInventory, uploadVars
    <2>3. \A x \in Streams : stopped[x] => stopped'[x]
      BY <1>3, <1>t DEF SendInventory
    <2>4. captured[s] \in Nat
      BY <1>t
    <2>5. ASSUME NEW x \in Req, req'[x].kind = "declare"
          PROVE /\ req'[x].segs <= captured'[req'[x].stream]
                /\ req'[x].complete => stopped'[req'[x].stream] /\ req'[x].segs = captured'[req'[x].stream]
      <3>1. CASE x = r
        BY <2>1, <2>2, <2>4, <3>1
      <3>2. CASE x # r
        BY <1>k, <1>r, <2>1, <2>2, <2>3, <2>5, <3>2
      <3>3. QED
        BY <3>1, <3>2
    <2>6. QED
      BY <1>i, <2>2, <2>3, <2>5 DEF DeclaredOK
  <1>4. ASSUME NEW r \in Req, Begin(r) PROVE DeclaredOK'
    <2>1. UNCHANGED <<captured, stopped, inventory>>
      BY <1>4 DEF Begin, LookupExpired, Upload, Complete, clientVars, uploadVars
    <2>2. ASSUME NEW s \in Streams, LookupExpired(r, s) PROVE DeclaredOK'
      <3>1. Put(r, [kind |-> "expired", stream |-> s])
        BY <2>2 DEF LookupExpired
      <3>2. QED
        BY <1>p, <2>1, <3>1
    <2>3. ASSUME NEW s \in Streams, NEW q \in Segs, NEW c \in Contents, Upload(r, s, q, c) PROVE DeclaredOK'
      <3>1. Put(r, [kind |-> "upload", stage |-> "store", stream |-> s, seq |-> q, content |-> c])
        BY <2>3 DEF Upload
      <3>2. QED
        BY <1>p, <2>1, <3>1
    <2>4. ASSUME NEW s \in Streams, NEW body \in Bodies, Complete(r, s, body) PROVE DeclaredOK'
      <3>1. Put(r, [kind |-> "complete", stage |-> "mark", stream |-> s,
                    reason |-> ReadStopReason(body), seen |-> session[s].reason])
        BY <2>4 DEF Complete
      <3>2. QED
        BY <1>p, <2>1, <3>1
    <2>5. QED
      BY <1>4, <2>2, <2>3, <2>4 DEF Begin
  <1>5. ASSUME NEW r \in Req, SetInventory(r) PROVE DeclaredOK'
    <2>1. req[r].kind = "declare" /\ Says(req[r]) /\ req[r].stream \in Streams
      BY <1>5, <1>k, <1>r DEF SetInventory
    <2>2. \A x \in Req : req'[x] = IF x = r THEN Idle ELSE req[x]
      BY <1>5, <1>t DEF SetInventory, Free, Put
    <2>3. \A x \in Streams : inventory'[x] = IF x = req[r].stream THEN Declaration(req[r]) ELSE inventory[x]
      BY <1>5, <1>t DEF SetInventory
    <2>4. UNCHANGED <<captured, stopped>>
      BY <1>5 DEF SetInventory, clientVars
    <2>5. \A x \in Streams : inventory'[x] # None /\ inventory'[x].complete =>
             stopped[x] /\ inventory'[x].segs = captured[x]
      BY <1>i, <2>1, <2>3 DEF Declaration
    <2>6. \A x \in Req : req'[x].kind = "declare" => Says(req'[x])
      BY <1>r, <2>2 DEF Idle
    <2>7. QED
      BY <2>4, <2>5, <2>6 DEF DeclaredOK
  <1>6. ASSUME NEW r \in Req, UploadSegment(r) \/ MarkUploadComplete(r) PROVE DeclaredOK'
    <2>1. UNCHANGED <<captured, stopped, inventory>>
      BY <1>6 DEF UploadSegment, MarkUploadComplete, clientVars, uploadVars
    <2>2. req[r] \in UploadRequest \/ req[r] \in CompleteRequest
      BY <1>6, <1>t, RequestKinds DEF UploadSegment, MarkUploadComplete
    <2>3. \/ Put(r, [req[r] EXCEPT !.stage = "add"]) \/ Put(r, Idle) \/ Put(r, Answering(req[r]))
      BY <1>6 DEF UploadSegment, MarkUploadComplete, Free
    <2>4. /\ [req[r] EXCEPT !.stage = "add"].kind # "declare" /\ Idle.kind # "declare"
          /\ Answering(req[r]).kind # "declare"
      BY <2>2 DEF UploadRequest, CompleteRequest, Idle, Answering
    <2>5. QED
      BY <1>p, <2>1, <2>3, <2>4
  <1>7. ASSUME NEW r \in Req, DeclareInventory(r) PROVE DeclaredOK'
    <2>1. UNCHANGED <<captured, stopped, inventory>>
      BY <1>7 DEF DeclareInventory, clientVars, uploadVars
    <2>2. Put(r, Idle) \/ Put(r, [req[r] EXCEPT !.stage = "set"])
      BY <1>7 DEF DeclareInventory, Free
    <2>3. req[r].kind = "declare" /\ req[r] \in DeclareRequest
      BY <1>7, <1>t, RequestKinds DEF DeclareInventory
    <2>4. Says([req[r] EXCEPT !.stage = "set"])
      BY <1>r, <2>3 DEF DeclareRequest
    <2>5. Idle.kind # "declare"
      BY DEF Idle
    <2>6. QED
      BY <1>p, <2>1, <2>2, <2>4, <2>5
  <1>8. ASSUME NEW r \in Req, DeleteExpired(r) \/ Add(r) \/ MarkComplete(r) \/ Abort(r) PROVE DeclaredOK'
    <2>1. UNCHANGED <<captured, stopped, inventory>> /\ Put(r, Idle)
      BY <1>8 DEF DeleteExpired, Add, MarkComplete, Abort, Free, clientVars, uploadVars
    <2>2. Idle.kind # "declare"
      BY DEF Idle
    <2>3. QED
      BY <1>p, <2>1, <2>2
  <1>9. QED
    BY <1>1, <1>2, <1>3, <1>4, <1>5, <1>6, <1>7, <1>8
       DEF Next, ClientStep, Proceed, CreateSession, RedisExpires, Tick, vars, clientVars, uploadVars

-----------------------------------------------------------------------------
LEMMA InvInit == Init => IInv
  BY TypeInit DEF Init, IInv, OneActiveStream, DeclaredOK, StoredFirst, Idle

LEMMA InvStep == IInv /\ [Next]_vars => IInv'
  <1>1. TypeOK' <=> StoreOK' /\ (req \in [Req -> Request])'
    BY TypeParts, PTL
  <1>2. QED
    BY <1>1, StoreStep, RequestStep, ActiveStep, StoredStep, DeclaredStep DEF IInv

LEMMA Inductive == Spec => []IInv
  BY InvInit, InvStep, PTL DEF Spec

(* Every variable keeps its type, a session that exists was issued a token *)
(* and belongs to a stream that was created, and no stored inventory lists *)
(* a segment that was not captured.                                        *)
THEOREM TypeCorrect == Spec => []TypeOK
  <1>1. IInv => TypeOK
    BY DEF IInv
  <1>2. QED
    BY <1>1, Inductive, PTL

(* RegisterOrGetUpload's promise: however creations, completions, expiries *)
(* and lookups interleave, the one unfinished session is the one the index *)
(* names, so a candidate never has two.                                    *)
THEOREM OneStreamActive == Spec => []OneActiveStream
  <1>1. IInv => OneActiveStream
    BY DEF IInv
  <1>2. QED
    BY <1>1, Inductive, PTL

(* A stream whose complete inventory has nothing missing is whole in the   *)
(* object store, whatever declarations and uploads raced.                  *)
THEOREM WholeIfComplete == Spec => []CompleteIsWhole
  <1>1. IInv => CompleteIsWhole
    <2> SUFFICES ASSUME IInv, NEW s \in Streams, inventory[s] # None, inventory[s].complete, Missing(s) = {},
                        NEW q \in 1 .. captured[s]
                 PROVE object[s][q] # None
      BY DEF CompleteIsWhole
    <2>1. inventory[s].segs = captured[s] /\ captured[s] \in 0 .. MaxSegs
      BY DEF IInv, TypeOK, DeclaredOK
    <2>2. q \in Segs /\ segments[s][q] # None
      BY <2>1 DEF Missing
    <2>3. QED
      BY <2>2 DEF IInv, StoredFirst
  <1>2. QED
    BY <1>1, Inductive, PTL

(* A finished session is never handed out again: no step gives it a new    *)
(* token or expiry or makes it unfinished.  The script resumes only an     *)
(* unfinished session and creates only under a stream number never used.   *)
THEOREM FinishedStaysFinished == Spec => NeverReopened
  <1> DEFINE Kept(s) == (Exists(s) /\ session[s].completed /\ session'[s] # None) =>
                /\ session'[s].completed
                /\ session'[s].token = session[s].token /\ session'[s].expiresAt = session[s].expiresAt
  <1>1. IInv /\ [Next]_vars => \A s \in Streams : Kept(s)
    <2> SUFFICES ASSUME IInv, [Next]_vars, NEW s \in Streams PROVE Kept(s)
      OBVIOUS
    <2>t. /\ session \in [Streams -> Session \cup {None}] /\ index \in Streams \cup {None}
          /\ streams \in Nat /\ (Exists(s) => s <= streams)
      BY DEF IInv, TypeOK
    <2>1. CASE session'[s] = session[s] \/ session'[s] = None
      BY <2>1
    <2>2. ASSUME NEW e \in 1 .. MaxTime, NEW delivered \in BOOLEAN, CreateSession(e, delivered)
          PROVE Kept(s)
      <3>1. CASE /\ Resumable
                 /\ session' = [session EXCEPT ![index].token = creates', ![index].expiresAt = e]
        BY <2>1, <2>t, <3>1 DEF Resumable
      <3>2. CASE streams' = streams + 1 /\ session' = [session EXCEPT ![streams'] = Fresh(e, creates')]
        BY <2>1, <2>t, <3>2
      <3>3. QED
        BY <2>2, <3>1, <3>2 DEF CreateSession, RegisterOrGetUpload
    <2>3. ASSUME NEW r \in Req, DeleteExpired(r) PROVE Kept(s)
      BY <2>1, <2>3, <2>t DEF DeleteExpired
    <2>4. ASSUME NEW x \in Streams, RedisExpires(x) PROVE Kept(s)
      BY <2>1, <2>4, <2>t DEF RedisExpires
    <2>5. ASSUME NEW r \in Req, MarkUploadComplete(r) PROVE Kept(s)
      <3> DEFINE x == req[r].stream
      <3>1. CASE s # x
        BY <2>1, <2>5, <2>t, <3>1 DEF MarkUploadComplete
      <3>2. CASE s = x /\ Exists(s)
        <4>1. session[s] \in Session
          BY <2>t, <3>2
        <4>2. session' = [session EXCEPT ![s].completed = TRUE, ![s].reason = FirstReason(@, req[r].reason)]
          BY <2>5, <3>2 DEF MarkUploadComplete
        <4>3. session'[s].completed /\ session'[s].token = session[s].token /\ session'[s].expiresAt = session[s].expiresAt
          BY <2>t, <4>1, <4>2 DEF Session
        <4>4. QED
          BY <4>3
      <3>3. QED
        BY <3>1, <3>2
    <2>6. CASE UNCHANGED session
      BY <2>1, <2>6
    <2>7. QED
      BY <2>2, <2>3, <2>4, <2>5, <2>6
         DEF Next, ClientStep, Begin, Proceed, Capture, SendInventory, LookupExpired, Upload, Complete,
             UploadSegment, Add, DeclareInventory, SetInventory, MarkComplete, Abort, Tick, vars, sessionVars
  <1>2. IInv /\ [Next]_vars => [\A s \in Streams : Kept(s)]_vars
    BY <1>1
  <1>3. QED
    BY <1>2, Inductive, PTL DEF Spec, NeverReopened
=============================================================================
