------------------------------ MODULE Uploads ------------------------------
(***************************************************************************)
(* The life of one upload session: it is opened, its bytes arrive whole or *)
(* in parts, a completion takes the finalization lease and commits them as *)
(* a version, or the session is aborted, expires, goes stale or fails.     *)
(*                                                                         *)
(* Each request is a process whose every D1 call (a statement or a batch)  *)
(* and every R2 call is a step.  The session row is in D1; its bytes are   *)
(* in D1 (mode "d1"), in an R2 object ("r2") or in a multipart upload.     *)
(* Requests die, caught calls fail before or after they took effect,       *)
(* leases lapse, and others write to the path meanwhile.  A call whose     *)
(* failure the code does not catch ends the request as a crash does.       *)
(*                                                                         *)
(* Time is told by what it makes true: the session is past its expiry      *)
(* (`overdue'), the finalization lease or the publication lease has lapsed *)
(* (`lapsed', `unclaimed').  A comparison with a `now' read earlier is one *)
(* with what was true then (`late').  What a request mints (an owner, an   *)
(* object key, an upload id, an etag) is named by the request; an owner    *)
(* whose request has ended is shown as Gone, since no one has its uuid.    *)
(***************************************************************************)
EXTENDS Naturals, FiniteSets

CONSTANTS
  Requests, NoRequest, Gone,
  Scenarios,   \* what the requests ask for, and the session they make
  Parts,       \* the parts of the declared file
  Bytes,       \* what a body, or a part of it, may hold
  Declared,    \* the bytes that agree with the declaration
  NoBytes,
  Keys, AdHoc, \* Idempotency-Keys, and the fingerprint made up without one
  MaxTroubles  \* bound: the troubles of any scenario

Call == [call : {"create", "content", "part", "resume", "complete", "abort",
                 "sweep"},
         key : Keys \cup {AdHoc}, part : Parts, bytes : Bytes]

(* `skip': the session asks to be skipped if unchanged, and the head holds *)
(* the declared bytes.  `troubles', a bound: calls that fail, requests     *)
(* that die, leases and claims that lapse under the living, and steps of   *)
(* others, all together.  `opener' has created the session before, if it   *)
(* is a request.                                                           *)
Scenario ==
  [mode : {"d1", "r2", "multipart"}, skip : BOOLEAN, ask : [Requests -> Call],
   troubles : 0..MaxTroubles, opener : Requests \cup {NoRequest}]

ASSUME UploadsAssumption ==
  /\ NoRequest \notin Requests /\ Gone \notin Requests /\ Gone # NoRequest
  /\ Scenarios \subseteq Scenario
  /\ Declared \in Bytes /\ NoBytes \notin Bytes
  /\ AdHoc \notin Keys
  /\ Parts # {}   \* an empty file must use single upload mode
  /\ MaxTroubles \in Nat

VARIABLES
  session,   \* the row of upload_sessions
  parts,     \* upload_parts: the request whose etag is recorded
  claims,    \* upload_part_writes: the writer of each part
  blob,      \* the byte_blobs row of the declared hash: whose bytes it names
  head,      \* the path and its stash
  delivered, \* the event of the version reached the subscribers
  objects,   \* R2: what each object holds
  uploads,   \* R2: the state of each multipart upload
  pieces,    \* R2: the last upload of each part of the session's upload
  overdue, lapsed, unclaimed,
  pc, request, answer,
  manifest,  \* the parts a completion read
  late,      \* requests that saw the lease lapsed
  troubles

rows == <<session, parts, claims, blob, head, delivered>>
bucket == <<objects, uploads, pieces>>
clocks == <<overdue, lapsed, unclaimed>>
locals == <<pc, answer, manifest, late>>
vars == <<rows, bucket, clocks, locals, request, troubles>>

Someone == Requests \cup {NoRequest, Gone}

Ended == {"committed", "aborted", "expired", "stale", "failed"}
States == {"none", "open", "uploaded", "finalizing"} \cup Ended

(* A fingerprint hashes the operation with the key.                        *)
Fingerprint(op, key) == [op |-> op, key |-> key]
Fingerprints == [op : {"none", "upload", "complete", "abort"},
                 key : Keys \cup {AdHoc}]
NoFingerprint == Fingerprint("none", AdHoc)

Results == {"none", "committed", "unchanged", "stale", "aborted"}

Session ==
  [state : States, mode : {"d1", "r2", "multipart"}, skip : BOOLEAN,
   staging : Requests \cup {NoRequest}, tracked : BOOLEAN,
   hash : Bytes \cup {NoBytes}, completed : BOOLEAN,
   uploadKey : Fingerprints, completeKey : Fingerprints, owner : Someone,
   result : Results, published : BOOLEAN, publisher : Someone]

Unopened(mode, skip) ==
  [state |-> "none", mode |-> mode, skip |-> skip, staging |-> NoRequest,
   tracked |-> FALSE, hash |-> NoBytes, completed |-> FALSE,
   uploadKey |-> NoFingerprint, completeKey |-> NoFingerprint,
   owner |-> NoRequest, result |-> "none", published |-> FALSE,
   publisher |-> NoRequest]

Opened(s) ==
  [s EXCEPT !.state = "open"]

Bound(s, r) ==
  IF s.mode = "multipart" THEN [s EXCEPT !.staging = r, !.tracked = TRUE] ELSE s

Places == {"idle", "check", "insert", "raced", "mint", "bind", "unbind",
           "stage", "record", "discard", "discardLost", "failOpen", "expire",
           "claim", "insertClaim", "uploadPart", "recordPart", "releasePart",
           "list", "seal", "acquire", "reread", "assemble", "assembled",
           "missing", "markCompleted", "verify", "verified", "mismatched",
           "markVerified", "stat", "available", "unavailable", "unchanged",
           "commit", "outcome", "fail", "decline", "stale", "publish", "deliver",
           "mark", "unclaim", "releaseStale", "abort", "unaborted",
           "cleanup", "untrack", "dead", "done"}

Answers == Results \cup {"open", "accepted", "expired", "refused"}

Init ==
  /\ \E s \in Scenarios :
       /\ session = IF s.opener = NoRequest THEN Unopened(s.mode, s.skip)
                    ELSE Bound(Opened(Unopened(s.mode, s.skip)), s.opener)
       /\ uploads = [r \in Requests |->
                       IF session.staging = r THEN "live" ELSE "none"]
       /\ request = s.ask
       /\ pc = [r \in Requests |-> IF r = s.opener THEN "done" ELSE "idle"]
       /\ answer = [r \in Requests |-> IF r = s.opener THEN "open" ELSE "none"]
       /\ troubles = s.troubles
  /\ parts = [p \in Parts |-> NoRequest]
  /\ claims = [p \in Parts |-> NoRequest]
  /\ blob = NoRequest
  /\ head = [fresh |-> TRUE, live |-> TRUE, written |-> FALSE]
  /\ delivered = FALSE
  /\ objects = [r \in Requests |-> NoBytes]
  /\ pieces = [p \in Parts |-> NoRequest]
  /\ overdue = FALSE /\ lapsed = FALSE /\ unclaimed = FALSE
  /\ manifest = [r \in Requests |-> [p \in Parts |-> NoRequest]]
  /\ late = {}

-----------------------------------------------------------------------------
(* Helpers of the handlers.                                                *)

Key(r) == request[r].key
Part(r) == request[r].part
Asks(r, calls) == request[r].call \in calls
Completing(r) == Asks(r, {"complete", "resume"})
NoClaims == \A p \in Parts : claims[p] = NoRequest

Trouble == troubles > 0 /\ troubles' = troubles - 1

(* Two fingerprints agree only if a key made them.                         *)
Agrees(f, g) == f = g /\ g.key # AdHoc

Goto(r, place) ==
  /\ pc' = [pc EXCEPT ![r] = place]
  /\ UNCHANGED <<answer, manifest, late>>

(* The row s, in which the owner of an attempt that is over is Gone.       *)
Forget(r, s) ==
  [s EXCEPT !.owner = IF @ = r THEN Gone ELSE @,
            !.publisher = IF @ = r THEN Gone ELSE @]
ForgetClaims(r, c) == [p \in Parts |-> IF c[p] = r THEN Gone ELSE c[p]]

Leave(r, place, told, s, c) ==
  /\ pc' = [pc EXCEPT ![r] = place]
  /\ answer' = [answer EXCEPT ![r] = told]
  /\ manifest' = [manifest EXCEPT ![r] = [p \in Parts |-> NoRequest]]
  /\ late' = late \ {r}
  /\ session' = Forget(r, s)
  /\ claims' = ForgetClaims(r, c)

(* An answer after a step that changed nothing else.                       *)
Reply(r, told) ==
  /\ Leave(r, "done", told, session, claims)
  /\ UNCHANGED <<parts, blob, head, delivered, bucket, clocks, request, troubles>>

Proceed(r, place) ==
  Goto(r, place) /\ UNCHANGED <<rows, bucket, clocks, request, troubles>>

(* The row becomes s and the request goes on.                              *)
Update(r, s, place) ==
  /\ session' = s
  /\ Goto(r, place)
  /\ UNCHANGED <<parts, claims, blob, head, delivered, bucket, clocks,
                 request, troubles>>

(* Mutant: the finishing statement leaves the lease in the row.            *)
FinishedHolding(s, state, result) ==
  [s EXCEPT !.state = state, !.result = result]

(* A finishing statement: the state is terminal, the lease is given back.  *)
Finished(s, state, result) ==
  [s EXCEPT !.state = state, !.result = result, !.owner = NoRequest]

-----------------------------------------------------------------------------
(* createSession and ensureMultipart.                                      *)

(* The multipart upload is created only while the session is open.         *)
Ensure(r, onward) ==
  IF session.mode # "multipart" \/ session.staging # NoRequest THEN onward
  ELSE IF session.state # "open" THEN Reply(r, "refused")
       ELSE Proceed(r, "mint")

Create(r) ==
  /\ pc[r] = "idle" /\ Asks(r, {"create"})
  /\ IF session.state # "none" THEN Ensure(r, Reply(r, "open"))
     ELSE Proceed(r, "check")

CheckHead(r) ==
  /\ pc[r] = "check"
  /\ IF head.fresh THEN Proceed(r, "insert") ELSE Reply(r, "refused")

(* The capacity may be taken by other sessions of the stash; a twin that   *)
(* got in first makes the statement fail on its unique fingerprint.        *)
Insert(r) ==
  /\ pc[r] = "insert"
  /\ \/ /\ session.state = "none" /\ head.live
        /\ session' = Opened(session)
        /\ Goto(r, "raced")
        /\ UNCHANGED <<parts, claims, blob, head, delivered, bucket, clocks,
                       request, troubles>>
     \/ session.state # "none" /\ Reply(r, "refused")
     \/ Proceed(r, "raced")

ReadCreated(r) ==
  /\ pc[r] = "raced"
  /\ IF session.state = "none" THEN Reply(r, "refused")
     ELSE Ensure(r, Reply(r, "open"))

Mint(r) ==
  /\ pc[r] = "mint"
  /\ uploads' = [uploads EXCEPT ![r] = "live"]
  /\ Goto(r, "bind")
  /\ UNCHANGED <<rows, objects, pieces, clocks, request, troubles>>

Bindable == session.state = "open" /\ session.staging = NoRequest

Bind(r) ==
  /\ pc[r] = "bind"
  /\ IF Bindable
     THEN Update(r, Bound(session, r), "unbind")
     ELSE Proceed(r, "unbind")

(* The loser aborts the upload it created; either reads the row again.     *)
Unbind(r) ==
  /\ pc[r] = "unbind"
  /\ uploads' = [uploads EXCEPT ![r] = IF session.staging = r THEN @
                                       ELSE "aborted"]
  /\ IF session.staging = NoRequest
     THEN Leave(r, "done", "refused", session, claims)
     ELSE IF Asks(r, {"part"})
          THEN Goto(r, "claim") /\ UNCHANGED <<session, claims>>
          ELSE Leave(r, "done", "open", session, claims)
  /\ UNCHANGED <<parts, blob, head, delivered, objects, pieces, clocks,
                 request, troubles>>

-----------------------------------------------------------------------------
(* PUT content: the bytes are staged first, then the row is told.          *)

(* Mutant: a session that is being finalized expires too.                  *)
ExpirableInLease == session.state \in {"open", "uploaded", "finalizing"}

Expirable == session.state \in {"open", "uploaded"}

Content(r) ==
  /\ pc[r] = "idle" /\ Asks(r, {"content"}) /\ session.state # "none"
  /\ IF /\ session.state = "uploaded"
        /\ Agrees(session.uploadKey, Fingerprint("upload", Key(r)))
     THEN Reply(r, "accepted")
     ELSE IF overdue THEN Proceed(r, "expire")
     ELSE IF session.state # "open" \/ session.mode = "multipart"
          THEN Reply(r, "refused")
     ELSE Proceed(r, "stage")

(* The object has a key of its own; a body other than the declared one is  *)
(* found out when it has been read.                                        *)
Stage(r) ==
  /\ pc[r] = "stage"
  /\ objects' = IF session.mode = "r2"
                THEN [objects EXCEPT ![r] = request[r].bytes] ELSE objects
  /\ Goto(r, IF request[r].bytes = Declared THEN "record" ELSE "discard")
  /\ UNCHANGED <<rows, uploads, pieces, clocks, request, troubles>>

Recorded(r) ==
  [session EXCEPT !.state = "uploaded", !.staging = r, !.hash = Declared,
                  !.tracked = session.mode = "r2",
                  !.completed = session.mode = "r2",
                  !.uploadKey = Fingerprint("upload", Key(r))]

Record(r) ==
  /\ pc[r] = "record"
  /\ IF session.state = "open"
     THEN /\ Leave(r, "done", "accepted", Recorded(r), claims)
          /\ UNCHANGED <<parts, blob, head, delivered, bucket, clocks,
                         request, troubles>>
     ELSE Proceed(r, "discard")

(* The call fails: what was staged is discarded, recorded or not.          *)
RecordFails(r) ==
  /\ pc[r] = "record" /\ Trouble
  /\ session' \in {session} \cup
       {s \in {Recorded(r)} : session.state = "open"}
  /\ Goto(r, "discardLost")
  /\ UNCHANGED <<parts, claims, blob, head, delivered, bucket, clocks,
                 request>>

Discard(r) ==
  /\ pc[r] \in {"discard", "discardLost"}
  /\ objects' = [objects EXCEPT ![r] = NoBytes]
  /\ IF pc[r] = "discard"
     THEN Goto(r, "failOpen") /\ UNCHANGED <<session, claims>>
     ELSE Leave(r, "done", "refused", session, claims)
  /\ UNCHANGED <<parts, blob, head, delivered, uploads, pieces, clocks,
                 request, troubles>>

FailOpen(r) ==
  /\ pc[r] = "failOpen"
  /\ Leave(r, "done", "refused",
           IF session.state = "open" THEN Finished(session, "failed", "none")
           ELSE session, claims)
  /\ UNCHANGED <<parts, blob, head, delivered, bucket, clocks, request, troubles>>

(* The row expires, unless a part is being written; what a multipart       *)
(* session holds in R2 is then cleaned up by whoever made it expire.       *)
Expire(r) ==
  /\ pc[r] = "expire"
  /\ IF Expirable /\ NoClaims
     THEN Update(r, Finished(session, "expired", "none"),
                 IF session.mode = "multipart" /\ ~Asks(r, {"content"})
                 THEN "cleanup" ELSE "expire")
     ELSE Reply(r, "expired")

-----------------------------------------------------------------------------
(* PUT parts/:partNumber.                                                  *)

PartWrite(r) ==
  /\ pc[r] = "idle" /\ Asks(r, {"part"}) /\ session.state # "none"
  /\ IF overdue THEN Proceed(r, "expire")
     ELSE IF session.state # "open" \/ session.mode # "multipart"
          THEN Reply(r, "refused")
     ELSE Ensure(r, Proceed(r, "claim"))

(* A claim older than the lease is dropped: its writer is dead or slow.    *)
DropClaim(r) ==
  /\ pc[r] = "claim"
  /\ \/ /\ claims[Part(r)] = Gone
        /\ UNCHANGED troubles
     \/ claims[Part(r)] \in Requests /\ Trouble
  /\ claims' = [claims EXCEPT ![Part(r)] = NoRequest]
  /\ Goto(r, "insertClaim")
  /\ UNCHANGED <<session, parts, blob, head, delivered, bucket, clocks,
                 request>>

KeepClaim(r) == pc[r] = "claim" /\ Proceed(r, "insertClaim")

InsertClaim(r) ==
  /\ pc[r] = "insertClaim"
  /\ IF /\ session.state = "open" /\ session.staging # NoRequest
        /\ claims[Part(r)] = NoRequest
     THEN /\ claims' = [claims EXCEPT ![Part(r)] = r]
          /\ Goto(r, "uploadPart")
          /\ UNCHANGED <<session, parts, blob, head, delivered, bucket,
                         clocks, request, troubles>>
     ELSE Reply(r, "refused")

UploadPart(r) ==
  /\ pc[r] = "uploadPart"
  /\ IF uploads[session.staging] = "live"
     THEN /\ pieces' = [pieces EXCEPT ![Part(r)] = r]
          /\ Goto(r, "recordPart")
     ELSE UNCHANGED pieces /\ Goto(r, "releasePart")
  /\ UNCHANGED <<rows, objects, uploads, clocks, request, troubles>>

PartRecordable(r) == claims[Part(r)] = r /\ session.state = "open"

Unclaimed(r) ==
  [claims EXCEPT ![Part(r)] = IF @ = r THEN NoRequest ELSE @]

RecordPart(r) ==
  /\ pc[r] = "recordPart"
  /\ parts' = IF PartRecordable(r) THEN [parts EXCEPT ![Part(r)] = r] ELSE parts
  /\ Leave(r, "done", IF PartRecordable(r) THEN "accepted" ELSE "refused",
           session, Unclaimed(r))
  /\ UNCHANGED <<blob, head, delivered, bucket, clocks, request, troubles>>

(* The stream or the batch fails, the batch before it took effect; one     *)
(* that fails afterwards is a crash that comes after it.                   *)
PartFails(r) ==
  /\ pc[r] \in {"uploadPart", "recordPart"} /\ Trouble
  /\ Goto(r, "releasePart")
  /\ UNCHANGED <<rows, bucket, clocks, request>>

ReleasePart(r) ==
  /\ pc[r] = "releasePart"
  /\ Leave(r, "done", "refused", session, Unclaimed(r))
  /\ UNCHANGED <<parts, blob, head, delivered, bucket, clocks, request, troubles>>

-----------------------------------------------------------------------------
(* POST complete, and POST resume, which completes what is not open.       *)

(* A decided session is answered from its row, to the same fingerprint.    *)
Replay(r, op, onward) ==
  IF Agrees(session.completeKey, Fingerprint(op, Key(r))) THEN onward
  ELSE Reply(r, "refused")

Complete(r) ==
  /\ pc[r] = "idle" /\ Completing(r) /\ session.state # "none"
  /\ IF Asks(r, {"resume"}) /\ session.state = "open"
     THEN Ensure(r, Reply(r, "open"))
     ELSE IF session.result # "none"
     THEN Replay(r, "complete", Proceed(r, "publish"))
     ELSE IF overdue /\ session.state # "finalizing" THEN Proceed(r, "expire")
     ELSE IF session.mode # "multipart" /\ session.hash = NoBytes
     THEN Reply(r, "refused")
     ELSE /\ pc' = [pc EXCEPT ![r] = IF session.mode = "multipart" THEN "list"
                                     ELSE "acquire"]
          /\ late' = IF lapsed THEN late \cup {r} ELSE late
          /\ UNCHANGED <<answer, manifest, rows, bucket, clocks, request,
                         troubles>>

(* The manifest is read before the session is sealed: a part may still be  *)
(* written in between.                                                     *)
List(r) ==
  /\ pc[r] = "list"
  /\ IF \E p \in Parts : parts[p] = NoRequest THEN Reply(r, "refused")
     ELSE /\ manifest' = [manifest EXCEPT ![r] = parts]
          /\ pc' = [pc EXCEPT ![r] = IF session.state = "open" THEN "seal"
                                     ELSE "acquire"]
          /\ UNCHANGED <<answer, late, rows, bucket, clocks, request, troubles>>

Sealable ==
  session.state = "open" /\ session.staging # NoRequest /\ NoClaims

Seal(r) ==
  /\ pc[r] = "seal"
  /\ IF Sealable
     THEN Update(r, [session EXCEPT !.state = "uploaded"], "acquire")
     ELSE Reply(r, "refused")

(* Mutant: the lease of a completion that is over is never taken over.     *)
LeaseTakenOnce(r) == session.state = "uploaded"

LeaseTakeable(r) ==
  /\ session.state = "uploaded" \/ (session.state = "finalizing" /\ r \in late)
  /\ session.completeKey = NoFingerprint
     \/ Agrees(session.completeKey, Fingerprint("complete", Key(r)))

FirstWork ==
  CASE session.mode = "multipart" -> "assemble"
    [] session.mode = "r2" -> "stat"
    [] session.mode = "d1" -> "available"

(* The first completion that gets the lease names the session's outcome.   *)
Acquire(r) ==
  /\ pc[r] = "acquire"
  /\ IF LeaseTakeable(r)
     THEN /\ session' = [session EXCEPT
               !.state = "finalizing", !.owner = r,
               !.completeKey = IF @ = NoFingerprint
                               THEN Fingerprint("complete", Key(r)) ELSE @]
          /\ lapsed' = FALSE /\ late' = {}
          /\ pc' = [pc EXCEPT ![r] = FirstWork]
          /\ UNCHANGED <<answer, manifest, parts, claims, blob, head,
                         delivered, bucket, overdue, unclaimed, request,
                         troubles>>
     ELSE Proceed(r, "reread")

Reread(r) ==
  /\ pc[r] = "reread"
  /\ IF session.result = "none" THEN Reply(r, "refused")
     ELSE Replay(r, "complete", Proceed(r, "publish"))

(* A renewal asks who the owner is, not what time it is: a lease that      *)
(* lapsed and that nobody took is the owner's again.                       *)
Renewed(r) ==
  /\ session.owner = r
  /\ lapsed' = FALSE /\ late' = {}
  /\ UNCHANGED <<rows, bucket, overdue, unclaimed, request, troubles>>

(* The heartbeat during a call to R2.                                      *)
Heartbeat(r) ==
  /\ pc[r] \in {"assemble", "verify", "stat"} /\ lapsed
  /\ Renewed(r)
  /\ UNCHANGED <<pc, answer, manifest>>

(* The renewal with which the heartbeat ends, before the outcome of the    *)
(* call is looked at.                                                      *)
Renew(r, from, to) ==
  /\ pc[r] = from
  /\ \/ /\ Renewed(r)
        /\ pc' = [pc EXCEPT ![r] = to]
        /\ UNCHANGED <<answer, manifest>>
     \/ session.owner # r /\ Reply(r, "refused")

(* R2 completes an upload once, from the last upload of every part.        *)
Assembled(r) ==
  [objects EXCEPT ![session.staging] =
     LET held == {request[manifest[r][p]].bytes : p \in Parts} IN
     IF held = {Declared} THEN Declared ELSE CHOOSE b \in held : b # Declared]

Assemble(r) ==
  /\ pc[r] = "assemble"
  /\ IF objects[session.staging] # NoBytes
     THEN Proceed(r, "assembled")
     ELSE IF uploads[session.staging] = "live" /\ pieces = manifest[r]
     THEN /\ objects' = Assembled(r)
          /\ uploads' = [uploads EXCEPT ![session.staging] = "done"]
          /\ Goto(r, "assembled")
          /\ UNCHANGED <<rows, pieces, clocks, request, troubles>>
     ELSE Proceed(r, "missing")

AssembleFails(r) ==
  /\ pc[r] = "assemble" /\ Trouble
  /\ objects[session.staging] = NoBytes
  /\ Goto(r, "missing")
  /\ UNCHANGED <<rows, bucket, clocks, request>>

Assembling(r) ==
  \/ Assemble(r)
  \/ AssembleFails(r)
  \/ Renew(r, "assembled", IF session.completed THEN "verify"
                           ELSE "markCompleted")
  \/ Renew(r, "missing", "fail")

(* The fence of a statement: the state, the owner and the until it wrote.  *)
Fenced(r) == session.state = "finalizing" /\ session.owner = r

(* The marks ask besides that the lease has not lapsed.                    *)
Holds(r) == Fenced(r) /\ ~lapsed

MarkCompleted(r) ==
  /\ pc[r] = "markCompleted"
  /\ IF Holds(r)
     THEN Update(r, [session EXCEPT !.completed = TRUE], "verify")
     ELSE Reply(r, "refused")

(* Mutant: bytes that were not read are taken for the declared ones.       *)
VerifyNothing(r) ==
  /\ pc[r] = "verify"
  /\ Proceed(r, "verified")

Verify(r) ==
  /\ pc[r] = "verify"
  /\ Proceed(r, CASE objects[session.staging] = NoBytes -> "missing"
                  [] objects[session.staging] = Declared -> "verified"
                  [] OTHER -> "mismatched")

Verifying(r) ==
  \/ Verify(r)
  \/ Renew(r, "verified", "markVerified")
  \/ Renew(r, "mismatched", "fail")

MarkVerified(r) ==
  /\ pc[r] = "markVerified"
  /\ IF Holds(r)
     THEN Update(r, [session EXCEPT !.hash = Declared], "stat")
     ELSE Reply(r, "refused")

(* The object is looked for once more, and the lease renewed, before the   *)
(* commit.                                                                 *)
Stat(r) ==
  /\ pc[r] = "stat"
  /\ Proceed(r, IF objects[session.staging] = NoBytes THEN "unavailable"
                ELSE "available")

Checking(r) ==
  \/ Stat(r)
  \/ Renew(r, "unavailable", "decline")
  \/ Renew(r, "available", "unchanged")

-----------------------------------------------------------------------------
(* The commit of a completion, and what it answers when there is none.     *)

(* skipIfUnchanged, when the head holds these bytes already.               *)
FinalizeUnchanged(r) ==
  /\ pc[r] = "unchanged"
  /\ IF session.skip /\ Fenced(r) /\ head.fresh
     THEN /\ Leave(r, "done", "unchanged",
                   [Finished(session, "committed", "unchanged")
                      EXCEPT !.tracked = FALSE], claims)
          /\ UNCHANGED <<parts, blob, head, delivered, bucket, clocks,
                         request, troubles>>
     ELSE Proceed(r, "commit")

(* Mutant: the batch writes the version without asking for the lease.      *)
CommittableUnfenced(r) == head.fresh /\ head.live

Committable(r) == Fenced(r) /\ head.fresh /\ head.live

(* The batch: the stored bytes, unless the hash is stored already, the     *)
(* version that names them, and the row.                                   *)
Committed ==
  /\ session' = [Finished(session, "committed", "committed")
                   EXCEPT !.tracked = @ /\ blob # NoRequest]
  /\ blob' = IF blob = NoRequest THEN session.staging ELSE blob
  /\ head' = [head EXCEPT !.fresh = FALSE, !.written = TRUE]
  /\ UNCHANGED <<parts, claims, delivered, bucket, clocks, request>>

Commit(r) ==
  /\ pc[r] = "commit"
  /\ IF Committable(r)
     THEN Committed /\ Goto(r, "publish") /\ UNCHANGED troubles
     ELSE Proceed(r, "outcome")

(* The call fails; the catch takes it for a batch that did nothing.        *)
CommitFails(r) ==
  /\ pc[r] = "commit" /\ Trouble
  /\ Goto(r, "outcome")
  /\ \/ Committable(r) /\ Committed
     \/ UNCHANGED <<rows, bucket, clocks, request>>

(* The head tells why: deleted stash, a stale CAS, or neither.             *)
Outcome(r) ==
  /\ pc[r] = "outcome"
  /\ Proceed(r, IF head.live /\ ~head.fresh THEN "stale" ELSE "decline")

Stale(r) ==
  /\ pc[r] = "stale"
  /\ IF Fenced(r)
     THEN /\ Leave(r, "done", "stale", Finished(session, "stale", "stale"),
                   claims)
          /\ UNCHANGED <<parts, blob, head, delivered, bucket, clocks,
                         request, troubles>>
     ELSE Reply(r, "refused")

(* The clock is read for the statement, or was when the lease was renewed. *)
Fail(r) ==
  /\ pc[r] \in {"fail", "decline"}
  /\ Leave(r, "done", "refused",
           IF Fenced(r) /\ (pc[r] = "decline" \/ ~lapsed) THEN Finished(session, "failed", "none")
           ELSE session, claims)
  /\ UNCHANGED <<parts, blob, head, delivered, bucket, clocks, request, troubles>>

(* publishCommitted, after a commit and before a replay.                   *)
Publish(r) ==
  /\ pc[r] = "publish"
  /\ IF /\ session.result = "committed" /\ ~session.published
        /\ session.publisher = NoRequest \/ unclaimed
     THEN /\ session' = [session EXCEPT !.publisher = r]
          /\ unclaimed' = FALSE
          /\ Goto(r, "deliver")
          /\ UNCHANGED <<parts, claims, blob, head, delivered, bucket,
                         overdue, lapsed, request, troubles>>
     ELSE Reply(r, session.result)

Deliver(r) ==
  /\ pc[r] = "deliver"
  /\ delivered' = TRUE
  /\ Goto(r, "mark")
  /\ UNCHANGED <<session, parts, claims, blob, head, bucket, clocks, request,
                 troubles>>

Mark(r) ==
  /\ pc[r] = "mark"
  /\ IF session.publisher = r /\ ~session.published
     THEN /\ Leave(r, "done", session.result,
                   [session EXCEPT !.published = TRUE,
                                   !.publisher = NoRequest], claims)
          /\ UNCHANGED <<parts, blob, head, delivered, bucket, clocks,
                         request, troubles>>
     ELSE Proceed(r, "unclaim")

PublishFails(r) ==
  /\ pc[r] \in {"deliver", "mark"} /\ Trouble
  /\ Goto(r, "unclaim")
  /\ UNCHANGED <<rows, bucket, clocks, request>>

Unclaim(r) ==
  /\ pc[r] = "unclaim"
  /\ Leave(r, "done", "refused",
           [session EXCEPT !.publisher =
              IF @ = r /\ ~session.published THEN NoRequest ELSE @], claims)
  /\ UNCHANGED <<parts, blob, head, delivered, bucket, clocks, request, troubles>>

-----------------------------------------------------------------------------
(* DELETE: the abort, the cleanup of what is left in R2, and the sweep of  *)
(* the ledger collection, which cleans up after the sessions that ended.   *)

Abort(r) ==
  /\ pc[r] = "idle" /\ Asks(r, {"abort"}) /\ session.state # "none"
  /\ IF session.result # "none" THEN Replay(r, "abort", Proceed(r, "cleanup"))
     ELSE /\ pc' = [pc EXCEPT ![r] = "releaseStale"]
          /\ late' = IF lapsed THEN late \cup {r} ELSE late
          /\ UNCHANGED <<answer, manifest, rows, bucket, clocks, request,
                         troubles>>

ReleaseStale(r) ==
  /\ pc[r] = "releaseStale"
  /\ \E living \in SUBSET {p \in Parts : claims[p] \in Requests} :
       /\ IF living = {} THEN UNCHANGED troubles ELSE Trouble
       /\ \E gone \in SUBSET {p \in Parts : claims[p] = Gone} :
            claims' = [p \in Parts |-> IF p \in living \cup gone
                                       THEN NoRequest ELSE claims[p]]
  /\ Goto(r, "abort")
  /\ UNCHANGED <<session, parts, blob, head, delivered, bucket, clocks,
                 request>>

Abortable(r) ==
  /\ \/ session.state \in {"open", "uploaded"}
     \/ session.state = "finalizing" /\ r \in late
  /\ session.completeKey = NoFingerprint
     \/ Agrees(session.completeKey, Fingerprint("abort", Key(r)))
  /\ NoClaims

TryAbort(r) ==
  /\ pc[r] = "abort"
  /\ IF Abortable(r)
     THEN Update(r, [Finished(session, "aborted", "aborted")
                       EXCEPT !.completeKey = Fingerprint("abort", Key(r))],
                 "cleanup")
     ELSE Proceed(r, "unaborted")

Unaborted(r) ==
  /\ pc[r] = "unaborted"
  /\ IF session.result = "none" THEN Reply(r, "refused")
     ELSE Replay(r, "abort", Reply(r, session.result))

(* What a cleanup is followed by.                                          *)
AfterCleanup(r) ==
  CASE Asks(r, {"abort"}) -> "aborted" [] Asks(r, {"sweep"}) -> "none"
    [] OTHER -> "expired"

Cleanable ==
  /\ session.mode = "multipart" /\ session.staging # NoRequest
  /\ session.state # "committed"

(* The request's own cleanup asks for the tracking row, the sweep's not.   *)
Cleanup(r) ==
  /\ pc[r] = "cleanup"
  /\ IF ~Cleanable \/ (~session.tracked /\ ~Asks(r, {"sweep"}))
     THEN Reply(r, AfterCleanup(r))
     ELSE /\ objects' = [objects EXCEPT ![session.staging] = NoBytes]
          /\ uploads' = [uploads EXCEPT ![session.staging] =
                           IF @ = "live" THEN "aborted" ELSE @]
          /\ Goto(r, "untrack")
          /\ UNCHANGED <<rows, pieces, clocks, request, troubles>>

Untrack(r) ==
  /\ pc[r] = "untrack"
  /\ Leave(r, "done", AfterCleanup(r),
           [session EXCEPT !.tracked =
              @ /\ session.state \in {"open", "uploaded", "finalizing",
                                      "committed"}], claims)
  /\ UNCHANGED <<parts, blob, head, delivered, bucket, clocks, request, troubles>>

(* One batch expires the session and drops the rows, old enough, of one    *)
(* that ended; a multipart session that ended without a version is cleaned *)
(* up.                                                                     *)
Swept(s) ==
  IF Expirable /\ NoClaims /\ overdue THEN Finished(s, "expired", "none") ELSE s

Sweep(r) ==
  /\ pc[r] = "idle" /\ Asks(r, {"sweep"})
  /\ LET s == Swept(session) IN
     /\ session' = s
     /\ \/ UNCHANGED parts
        \/ s.state \in Ended /\ parts' = [p \in Parts |-> NoRequest]
     /\ Goto(r, IF /\ s.mode = "multipart" /\ s.staging # NoRequest
                   /\ s.state \in {"aborted", "expired", "stale", "failed"}
                   /\ NoClaims
                THEN "cleanup" ELSE "done")
  /\ UNCHANGED <<claims, blob, head, delivered, bucket, clocks, request, troubles>>

-----------------------------------------------------------------------------
(* What happens to requests, time and the path.                            *)

Busy(r) == pc[r] \notin {"idle", "dead", "done"}

Crash(r) ==
  /\ Busy(r) /\ Trouble
  /\ Leave(r, "dead", "none", session, claims)
  /\ UNCHANGED <<parts, blob, head, delivered, bucket, clocks, request>>

(* A client repeats a completion or an abort that got no decision.         *)
Retry(r) ==
  /\ Completing(r) \/ Asks(r, {"abort"})
  /\ pc[r] = "dead" \/ (pc[r] = "done" /\ answer[r] \in {"refused", "open"})
  /\ pc' = [pc EXCEPT ![r] = "idle"]
  /\ answer' = [answer EXCEPT ![r] = "none"]
  /\ UNCHANGED <<manifest, late, rows, bucket, clocks, request, troubles>>

Passes ==
  \/ /\ session.state # "none" /\ ~overdue /\ overdue' = TRUE
     /\ UNCHANGED <<lapsed, unclaimed, troubles>>
  \/ /\ session.publisher = Gone /\ ~unclaimed /\ unclaimed' = TRUE
     /\ UNCHANGED <<overdue, lapsed, troubles>>
  \/ /\ session.publisher \in Requests /\ ~unclaimed /\ unclaimed' = TRUE
     /\ Trouble /\ UNCHANGED <<overdue, lapsed>>
  \/ /\ session.state = "finalizing" /\ session.owner \in Requests /\ ~lapsed
     /\ lapsed' = TRUE /\ Trouble /\ UNCHANGED <<overdue, unclaimed>>

Time == Passes /\ UNCHANGED <<rows, bucket, locals, request>>

(* No one renews the lease of a completion that is over.                   *)
LeaseRunsOut ==
  /\ session.state = "finalizing" /\ session.owner = Gone /\ ~lapsed
  /\ lapsed' = TRUE
  /\ UNCHANGED <<rows, bucket, overdue, unclaimed, locals, request, troubles>>

(* Another write to the path, the deletion of the stash, or a write of the *)
(* same bytes elsewhere in it.                                             *)
Others ==
  /\ \/ head.fresh /\ head' = [head EXCEPT !.fresh = FALSE] /\ UNCHANGED blob
     \/ head.live /\ head' = [head EXCEPT !.live = FALSE] /\ UNCHANGED blob
     \/ blob = NoRequest /\ blob' = Gone /\ UNCHANGED head
  /\ Trouble
  /\ UNCHANGED <<session, parts, claims, delivered, bucket, clocks, locals,
                 request>>

-----------------------------------------------------------------------------
CreateStep(r) ==
  \/ Create(r) \/ CheckHead(r) \/ Insert(r) \/ ReadCreated(r) \/ Mint(r)
  \/ Bind(r) \/ Unbind(r)

ContentStep(r) ==
  Content(r) \/ Stage(r) \/ Record(r) \/ Discard(r) \/ FailOpen(r) \/ Expire(r)

PartStep(r) ==
  \/ PartWrite(r) \/ DropClaim(r) \/ KeepClaim(r) \/ InsertClaim(r)
  \/ UploadPart(r) \/ RecordPart(r) \/ ReleasePart(r)

WorkStep(r) ==
  \/ Complete(r) \/ List(r) \/ Seal(r) \/ Acquire(r) \/ Reread(r)
  \/ Assembling(r) \/ MarkCompleted(r) \/ Verifying(r) \/ MarkVerified(r)
  \/ Checking(r)

FinalStep(r) ==
  \/ FinalizeUnchanged(r) \/ Commit(r) \/ Outcome(r) \/ Stale(r) \/ Fail(r)
  \/ Publish(r) \/ Deliver(r) \/ Mark(r) \/ Unclaim(r)

AbortStep(r) ==
  \/ Abort(r) \/ ReleaseStale(r) \/ TryAbort(r) \/ Unaborted(r)
  \/ Cleanup(r) \/ Untrack(r) \/ Sweep(r)

Step(r) ==
  \/ CreateStep(r) \/ ContentStep(r) \/ PartStep(r) \/ WorkStep(r)
  \/ FinalStep(r) \/ AbortStep(r)

Failure(r) ==
  \/ RecordFails(r) \/ PartFails(r) \/ AssembleFails(r) \/ CommitFails(r)
  \/ PublishFails(r) \/ Crash(r)

Next ==
  \/ \E r \in Requests : Step(r) \/ Failure(r) \/ Heartbeat(r) \/ Retry(r)
  \/ Time \/ LeaseRunsOut \/ Others

Spec == Init /\ [][Next]_vars

(* A request that runs goes on until it answers or dies, a lease that no   *)
(* one renews runs out, and a client that has a key repeats its completion *)
(* until it is answered.  Nothing else is promised: not that time passes   *)
(* the expiry, nor any request, crash or step of others.                   *)
Persistent(r) ==
  Completing(r) /\ Key(r) \in Keys /\ (Complete(r) \/ Retry(r))

Fairness ==
  /\ \A r \in Requests :
       WF_vars(Busy(r) /\ Step(r)) /\ WF_vars(Persistent(r))
  /\ WF_vars(LeaseRunsOut)

FairSpec == Spec /\ Fairness

-----------------------------------------------------------------------------
(* Properties.                                                             *)

(* The types, and the CHECK constraints of the upload tables: no statement *)
(* that finishes a session leaves the lease in the row, nor takes it away  *)
(* from one that goes on.                                                  *)
UploadsTypeOK ==
  /\ session \in Session
  /\ session.state = "finalizing" <=> session.owner # NoRequest
  /\ parts \in [Parts -> Requests \cup {NoRequest}]
  /\ claims \in [Parts -> Someone]
  /\ blob \in Someone
  /\ head \in [fresh : BOOLEAN, live : BOOLEAN, written : BOOLEAN]
  /\ delivered \in BOOLEAN
  /\ objects \in [Requests -> Bytes \cup {NoBytes}]
  /\ uploads \in [Requests -> {"none", "live", "done", "aborted"}]
  /\ pieces \in [Parts -> Requests \cup {NoRequest}]
  /\ overdue \in BOOLEAN /\ lapsed \in BOOLEAN /\ unclaimed \in BOOLEAN
  /\ pc \in [Requests -> Places]
  /\ request \in [Requests -> Call]
  /\ answer \in [Requests -> Answers]
  /\ manifest \in [Requests -> [Parts -> Requests \cup {NoRequest}]]
  /\ late \subseteq Requests
  /\ troubles \in Nat

(* The transition table of the core library.                               *)
AllowedTransitions ==
  [s \in States |->
     CASE s = "none" -> {"open"}
       [] s = "open" -> {"uploaded", "aborted", "expired", "failed"}
       [] s = "uploaded" -> {"finalizing", "aborted", "expired", "failed"}
       [] s = "finalizing" -> {"committed", "aborted", "stale", "failed"}
       [] OTHER -> {}]

(* No handler checks the table of core/upload.ts when it writes the state: *)
(* the WHERE clauses of the statements keep to it, whoever comes late, and *)
(* what a session ended with is never written over.                        *)
TransitionsAreLegal ==
  [][/\ session'.state # session.state =>
           session'.state \in AllowedTransitions[session.state]
     /\ session.result # "none" =>
           /\ session'.result = session.result
           /\ session'.completeKey = session.completeKey]_vars

Told(r, what) == pc[r] = "done" /\ answer[r] = what

(* Every request that was told an outcome was told the session's, and the  *)
(* version exists if and only if the session says so: complete answers     *)
(* from what it did, from the row, or after losing the lease.  An event is *)
(* delivered only for the version, and marked published only afterwards.   *)
ToldIsTrue ==
  /\ \A r \in Requests :
       /\ Completing(r) =>
            \A what \in Results \ {"none"} :
              Told(r, what) => session.result = what
       /\ Asks(r, {"abort"}) /\ Told(r, "aborted") => session.state = "aborted"
  /\ head.written <=> session.result = "committed"
  /\ session.result = "committed" => session.state = "committed"
  /\ delivered => head.written
  /\ session.published => delivered

(* The bytes of a committed version are where its byte_blobs row says and  *)
(* they are the declared ones, although completions overtake each other,   *)
(* parts are written again and what ended is cleaned up.  The exception is *)
(* a PUT whose batch was applied while its call failed: it discards the    *)
(* object and answers an error, and a completion that had looked for the   *)
(* object before commits the version all the same.                         *)
CommittedBytesAvailable ==
  head.written =>
    /\ blob # NoRequest /\ session.hash = Declared
    /\ blob \in Requests /\ session.mode # "d1" =>
         \/ objects[blob] = Declared
         \/ Asks(blob, {"content"}) /\ Told(blob, "refused")

(* A session that a completion with a key is finalizing ends, though that  *)
(* completion dies or its lease lapses: the client's repetition takes the  *)
(* lapsed lease over.  (Without a key no repetition agrees with the first  *)
(* fingerprint, and nothing ends the session.)                             *)
Settles ==
  (session.state = "finalizing" /\ session.completeKey.key # AdHoc)
    ~> session.state \in Ended
=============================================================================
