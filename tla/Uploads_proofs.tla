--------------------------- MODULE Uploads_proofs ---------------------------
(***************************************************************************)
(* For any number of requests, parts, keys and troubles: the transitions   *)
(* of an upload session are those of the table, what requests were told is *)
(* true, and the bytes of a committed version are the declared ones.       *)
(***************************************************************************)
EXTENDS Uploads, TLAPS

At(r, places) == pc[r] \in places
Multipart == session.mode = "multipart"

(* The parts of the type invariant.                                        *)
RowTypeOK(s) == s \in Session /\ (s.state = "finalizing" <=> s.owner # NoRequest)

TablesTypeOK ==
  /\ RowTypeOK(session)
  /\ parts \in [Parts -> Requests \cup {NoRequest}]
  /\ claims \in [Parts -> Someone]
  /\ blob \in Someone
  /\ head \in [fresh : BOOLEAN, live : BOOLEAN, written : BOOLEAN]
  /\ delivered \in BOOLEAN

BucketTypeOK ==
  /\ objects \in [Requests -> Bytes \cup {NoBytes}]
  /\ uploads \in [Requests -> {"none", "live", "done", "aborted"}]
  /\ pieces \in [Parts -> Requests \cup {NoRequest}]

LocalsTypeOK ==
  /\ pc \in [Requests -> Places]
  /\ answer \in [Requests -> Answers]
  /\ manifest \in [Requests -> [Parts -> Requests \cup {NoRequest}]]
  /\ late \subseteq Requests

RestTypeOK ==
  /\ overdue \in BOOLEAN /\ lapsed \in BOOLEAN /\ unclaimed \in BOOLEAN
  /\ request \in [Requests -> Call]
  /\ troubles \in Nat

LEMMA TypeParts ==
  UploadsTypeOK <=> TablesTypeOK /\ BucketTypeOK /\ LocalsTypeOK /\ RestTypeOK
BY DEF UploadsTypeOK, TablesTypeOK, BucketTypeOK, LocalsTypeOK, RestTypeOK,
       RowTypeOK

LEMMA PrimedParts ==
  (TablesTypeOK /\ BucketTypeOK /\ LocalsTypeOK /\ RestTypeOK)' => UploadsTypeOK'
BY DEF UploadsTypeOK, TablesTypeOK, BucketTypeOK, LocalsTypeOK, RestTypeOK,
       RowTypeOK

(* A completion that goes to assemble the parts has found every one.       *)
Listed(r) ==
  At(r, {"seal", "assemble"}) \/ (At(r, {"acquire"}) /\ Multipart)
    => manifest[r] \in [Parts -> Requests]

TypesInv == UploadsTypeOK /\ \A r \in Requests : Listed(r)

-----------------------------------------------------------------------------
(* What becomes of a row.                                                  *)

LEMMA FinishedType ==
  ASSUME RowTypeOK(session), NEW state \in States \ {"finalizing"},
         NEW result \in Results
  PROVE  /\ RowTypeOK(Finished(session, state, result))
         /\ Finished(session, state, result).state = state
         /\ Finished(session, state, result).result = result
         /\ Finished(session, state, result).owner = NoRequest
BY UploadsAssumption DEF RowTypeOK, Session, Finished, Someone

LEMMA ForgetType ==
  ASSUME NEW s, RowTypeOK(s), NEW r \in Requests
  PROVE  /\ RowTypeOK(Forget(r, s))
         /\ Forget(r, s).state = s.state /\ Forget(r, s).mode = s.mode
         /\ Forget(r, s).staging = s.staging /\ Forget(r, s).hash = s.hash
         /\ Forget(r, s).result = s.result
         /\ Forget(r, s).completeKey = s.completeKey
         /\ Forget(r, s).published = s.published
<1>1. /\ s \in Session
      /\ (IF s.owner = r THEN Gone ELSE s.owner) \in Someone
      /\ (IF s.publisher = r THEN Gone ELSE s.publisher) \in Someone
  BY DEF RowTypeOK, Session, Someone
<1>2. /\ Forget(r, s) \in Session
      /\ Forget(r, s).owner = IF s.owner = r THEN Gone ELSE s.owner
      /\ Forget(r, s).state = s.state
  BY <1>1 DEF Session, Forget
<1>3. RowTypeOK(Forget(r, s))
  BY <1>2, UploadsAssumption DEF RowTypeOK
<1> QED BY <1>1, <1>3 DEF Session, Forget

LEMMA ForgetClaimsType ==
  ASSUME NEW c \in [Parts -> Someone], NEW r \in Requests
  PROVE  ForgetClaims(r, c) \in [Parts -> Someone]
BY DEF ForgetClaims, Someone

LEMMA FingerprintType ==
  ASSUME NEW op \in {"none", "upload", "complete", "abort"},
         NEW key \in Keys \cup {AdHoc}
  PROVE  Fingerprint(op, key) \in Fingerprints /\ NoFingerprint \in Fingerprints
BY DEF Fingerprint, Fingerprints, NoFingerprint

LEMMA CallType ==
  ASSUME UploadsTypeOK, NEW r \in Requests
  PROVE  /\ request[r] \in Call /\ Key(r) \in Keys \cup {AdHoc}
         /\ Part(r) \in Parts /\ request[r].bytes \in Bytes
BY DEF UploadsTypeOK, Call, Key, Part

LEMMA TroubleType ==
  ASSUME UploadsTypeOK, Trouble
  PROVE  troubles' \in Nat
BY DEF UploadsTypeOK, Trouble

-----------------------------------------------------------------------------
(* The ways in which a request goes on, and the types.                     *)

LEMMA LeaveType ==
  ASSUME TypesInv, NEW r \in Requests, NEW place \in {"done", "dead"},
         NEW told \in Answers, NEW s, RowTypeOK(s),
         NEW c \in [Parts -> Someone], Leave(r, place, told, s, c)
  PROVE  /\ LocalsTypeOK' /\ RowTypeOK(session') /\ claims' \in [Parts -> Someone]
         /\ s.mode = session.mode => \A q \in Requests : Listed(q)'
<1>1. LocalsTypeOK'
  BY DEF Leave, TypesInv, UploadsTypeOK, LocalsTypeOK, Places
<1>2. RowTypeOK(session') /\ session'.mode = s.mode
        /\ claims' \in [Parts -> Someone]
  BY ForgetType, ForgetClaimsType DEF Leave
<1>3. ASSUME s.mode = session.mode, NEW q \in Requests
      PROVE  Listed(q)'
  BY <1>2, <1>3 DEF Leave, Listed, At, Multipart, TypesInv, UploadsTypeOK
<1> QED BY <1>1, <1>2, <1>3

LEMMA ReplyType ==
  ASSUME TypesInv, NEW r \in Requests, NEW told \in Answers, Reply(r, told)
  PROVE  TypesInv'
<1>1. RowTypeOK(session) /\ claims \in [Parts -> Someone]
  BY TypeParts DEF TypesInv, TablesTypeOK
<1>2. /\ LocalsTypeOK' /\ RowTypeOK(session') /\ claims' \in [Parts -> Someone]
      /\ \A q \in Requests : Listed(q)'
  BY <1>1, LeaveType DEF Reply
<1>3. TablesTypeOK' /\ BucketTypeOK' /\ RestTypeOK'
  BY <1>2, TypeParts
     DEF Reply, TypesInv, TablesTypeOK, BucketTypeOK, RestTypeOK, bucket, clocks
<1> QED BY <1>2, <1>3, PrimedParts DEF TypesInv

LEMMA GotoType ==
  ASSUME TypesInv, NEW r \in Requests, NEW place \in Places, Goto(r, place),
         session'.mode = session.mode,
         place \in {"seal", "assemble"} \/ (place = "acquire" /\ Multipart)
           => manifest[r] \in [Parts -> Requests]
  PROVE  LocalsTypeOK' /\ \A q \in Requests : Listed(q)'
<1>1. LocalsTypeOK'
  BY DEF Goto, TypesInv, UploadsTypeOK, LocalsTypeOK
<1>2. ASSUME NEW q \in Requests
      PROVE  Listed(q)'
  BY DEF Goto, Listed, At, Multipart, TypesInv, UploadsTypeOK
<1> QED BY <1>1, <1>2

LEMMA ProceedType ==
  ASSUME TypesInv, NEW r \in Requests, NEW place \in Places, Proceed(r, place),
         place \in {"seal", "assemble"} \/ (place = "acquire" /\ Multipart)
           => manifest[r] \in [Parts -> Requests]
  PROVE  TypesInv'
<1>1. LocalsTypeOK' /\ \A q \in Requests : Listed(q)'
  BY GotoType DEF Proceed, rows
<1>2. TablesTypeOK' /\ BucketTypeOK' /\ RestTypeOK'
  BY TypeParts
     DEF Proceed, TypesInv, TablesTypeOK, BucketTypeOK, RestTypeOK, rows,
         bucket, clocks
<1> QED BY <1>1, <1>2, PrimedParts DEF TypesInv

LEMMA UpdateType ==
  ASSUME TypesInv, NEW r \in Requests, NEW place \in Places, NEW s,
         RowTypeOK(s), s.mode = session.mode, Update(r, s, place),
         place \in {"seal", "assemble"} \/ (place = "acquire" /\ Multipart)
           => manifest[r] \in [Parts -> Requests]
  PROVE  TypesInv'
<1>1. LocalsTypeOK' /\ \A q \in Requests : Listed(q)'
  BY GotoType DEF Update
<1>2. TablesTypeOK' /\ BucketTypeOK' /\ RestTypeOK'
  BY TypeParts
     DEF Update, TypesInv, TablesTypeOK, BucketTypeOK, RestTypeOK, bucket, clocks
<1> QED BY <1>1, <1>2, PrimedParts DEF TypesInv

(* An answer with which the row becomes s.                                 *)
LEMMA EndType ==
  ASSUME TypesInv, NEW r \in Requests, NEW told \in Answers, NEW s,
         RowTypeOK(s), s.mode = session.mode, NEW c \in [Parts -> Someone],
         Leave(r, "done", told, s, c),
         parts' \in [Parts -> Requests \cup {NoRequest}],
         UNCHANGED <<blob, head, delivered, bucket, clocks, request, troubles>>
  PROVE  TypesInv'
<1>1. /\ LocalsTypeOK' /\ RowTypeOK(session') /\ claims' \in [Parts -> Someone]
      /\ \A q \in Requests : Listed(q)'
  BY LeaveType
<1>2. TablesTypeOK' /\ BucketTypeOK' /\ RestTypeOK'
  BY <1>1, TypeParts
     DEF TypesInv, TablesTypeOK, BucketTypeOK, RestTypeOK, bucket, clocks
<1> QED BY <1>1, <1>2, PrimedParts DEF TypesInv

-----------------------------------------------------------------------------
(* Types, action by action.                                                *)

LEMMA EnsureType ==
  ASSUME TypesInv, NEW r \in Requests, NEW onward, Ensure(r, onward),
         onward => TypesInv'
  PROVE  TypesInv'
BY ReplyType, ProceedType DEF Ensure, Answers, Places

LEMMA TypedRow ==
  ASSUME TypesInv
  PROVE  /\ RowTypeOK(session) /\ session \in Session
         /\ session.result \in Answers /\ claims \in [Parts -> Someone]
         /\ parts \in [Parts -> Requests \cup {NoRequest}]
BY TypeParts DEF TypesInv, TablesTypeOK, RowTypeOK, Session, Answers

LEMMA BoundType ==
  ASSUME TypesInv, NEW r \in Requests
  PROVE  RowTypeOK(Bound(session, r)) /\ Bound(session, r).mode = session.mode
BY TypedRow DEF RowTypeOK, Session, Bound

LEMMA OpenedType ==
  ASSUME TypesInv, session.state = "none"
  PROVE  RowTypeOK(Opened(session)) /\ Opened(session).mode = session.mode
BY TypedRow DEF RowTypeOK, Session, Opened, States

LEMMA CreateTypes ==
  ASSUME TypesInv, NEW r \in Requests, CreateStep(r)
  PROVE  TypesInv'
<1>1. CASE Create(r)
  BY <1>1, EnsureType, ReplyType, ProceedType DEF Create, Answers, Places
<1>2. CASE CheckHead(r)
  BY <1>2, ReplyType, ProceedType DEF CheckHead, Answers, Places
<1>3. CASE Insert(r)
  <2>1. CASE session.state = "none" /\ ~ Proceed(r, "raced")
    <3>1. Update(r, Opened(session), "raced")
      BY <1>3, <2>1 DEF Insert, Update
    <3> QED BY <2>1, <3>1, OpenedType, UpdateType DEF Places
  <2>2. CASE session.state # "none" \/ Proceed(r, "raced")
    BY <1>3, <2>2, ReplyType, ProceedType DEF Insert, Answers, Places
  <2> QED BY <2>1, <2>2
<1>4. CASE ReadCreated(r)
  BY <1>4, EnsureType, ReplyType DEF ReadCreated, Answers
<1>5. CASE Mint(r)
  <2>1. LocalsTypeOK' /\ \A q \in Requests : Listed(q)'
    BY <1>5, GotoType DEF Mint, rows, Places
  <2>2. TablesTypeOK' /\ BucketTypeOK' /\ RestTypeOK'
    BY <1>5, TypeParts
       DEF Mint, TypesInv, TablesTypeOK, BucketTypeOK, RestTypeOK, rows, clocks
  <2> QED BY <2>1, <2>2, PrimedParts DEF TypesInv
<1>6. CASE Bind(r)
  BY <1>6, BoundType, UpdateType, ProceedType DEF Bind, Places
<1>7. CASE Unbind(r)
  <2>1. /\ LocalsTypeOK' /\ RowTypeOK(session') /\ claims' \in [Parts -> Someone]
        /\ \A q \in Requests : Listed(q)'
    BY <1>7, TypedRow, LeaveType, GotoType DEF Unbind, Answers, Places
  <2>2. TablesTypeOK' /\ BucketTypeOK' /\ RestTypeOK'
    BY <1>7, <2>1, TypeParts
       DEF Unbind, TypesInv, TablesTypeOK, BucketTypeOK, RestTypeOK, clocks
  <2> QED BY <2>1, <2>2, PrimedParts DEF TypesInv
<1> QED BY <1>1, <1>2, <1>3, <1>4, <1>5, <1>6, <1>7 DEF CreateStep

LEMMA RecordedType ==
  ASSUME TypesInv, NEW r \in Requests, session.state = "open"
  PROVE  RowTypeOK(Recorded(r)) /\ Recorded(r).mode = session.mode
<1>1. Fingerprint("upload", Key(r)) \in Fingerprints
  BY CallType, FingerprintType DEF TypesInv
<1> QED
  BY <1>1, TypedRow, UploadsAssumption DEF RowTypeOK, Session, Recorded, States

LEMMA EndedType ==
  ASSUME TypesInv, NEW state \in Ended, NEW result \in Results
  PROVE  /\ RowTypeOK(Finished(session, state, result))
         /\ Finished(session, state, result).mode = session.mode
<1>1. state \in States \ {"finalizing"}
  BY DEF Ended, States
<1> QED BY <1>1, TypedRow, FinishedType DEF Finished, RowTypeOK, Session

LEMMA EndsSame ==
  ASSUME TypesInv, NEW r \in Requests, NEW told \in Answers, NEW s,
         RowTypeOK(s), s.mode = session.mode, Leave(r, "done", told, s, claims),
         UNCHANGED <<parts, blob, head, delivered, bucket, clocks, request,
                     troubles>>
  PROVE  TypesInv'
BY TypedRow, EndType

LEMMA ContentTypes ==
  ASSUME TypesInv, NEW r \in Requests, ContentStep(r)
  PROVE  TypesInv'
<1>1. CASE Content(r)
  BY <1>1, ReplyType, ProceedType DEF Content, Answers, Places
<1>2. CASE Stage(r)
  <2>1. LocalsTypeOK' /\ \A q \in Requests : Listed(q)'
    BY <1>2, GotoType DEF Stage, rows, Places
  <2>2. TablesTypeOK' /\ BucketTypeOK' /\ RestTypeOK'
    BY <1>2, TypeParts, CallType
       DEF Stage, TypesInv, TablesTypeOK, BucketTypeOK, RestTypeOK, rows, clocks
  <2> QED BY <2>1, <2>2, PrimedParts DEF TypesInv
<1>3. CASE Record(r)
  <2>1. CASE session.state = "open"
    BY <1>3, <2>1, RecordedType, EndsSame DEF Record, Answers
  <2>2. CASE session.state # "open"
    BY <1>3, <2>2, ProceedType DEF Record, Places
  <2> QED BY <2>1, <2>2
<1>4. CASE Discard(r)
  <2>1. /\ LocalsTypeOK' /\ RowTypeOK(session') /\ claims' \in [Parts -> Someone]
        /\ \A q \in Requests : Listed(q)'
    BY <1>4, TypedRow, LeaveType, GotoType DEF Discard, Answers, Places
  <2>2. TablesTypeOK' /\ BucketTypeOK' /\ RestTypeOK'
    BY <1>4, <2>1, TypeParts
       DEF Discard, TypesInv, TablesTypeOK, BucketTypeOK, RestTypeOK, clocks
  <2> QED BY <2>1, <2>2, PrimedParts DEF TypesInv
<1>5. CASE FailOpen(r)
  BY <1>5, EndedType, TypedRow, EndsSame
     DEF FailOpen, Answers, Ended, Results
<1>6. CASE Expire(r)
  BY <1>6, EndedType, UpdateType, ReplyType
     DEF Expire, Answers, Places, Ended, Results
<1> QED BY <1>1, <1>2, <1>3, <1>4, <1>5, <1>6 DEF ContentStep

LEMMA UnclaimedType ==
  ASSUME TypesInv, NEW r \in Requests
  PROVE  Unclaimed(r) \in [Parts -> Someone]
BY TypedRow DEF Unclaimed, Someone

LEMMA PartTypes ==
  ASSUME TypesInv, NEW r \in Requests, PartStep(r)
  PROVE  TypesInv'
<1>1. CASE PartWrite(r)
  BY <1>1, EnsureType, ReplyType, ProceedType DEF PartWrite, Answers, Places
<1>2. CASE DropClaim(r)
  <2>1. LocalsTypeOK' /\ \A q \in Requests : Listed(q)'
    BY <1>2, GotoType DEF DropClaim, Places
  <2>2. troubles' \in Nat /\ claims' \in [Parts -> Someone]
    BY <1>2, TypedRow, TroubleType DEF DropClaim, TypesInv, UploadsTypeOK, Someone
  <2>3. TablesTypeOK' /\ BucketTypeOK' /\ RestTypeOK'
    BY <1>2, <2>2, TypeParts
       DEF DropClaim, TypesInv, TablesTypeOK, BucketTypeOK, RestTypeOK, bucket,
           clocks
  <2> QED BY <2>1, <2>3, PrimedParts DEF TypesInv
<1>3. CASE KeepClaim(r)
  BY <1>3, ProceedType DEF KeepClaim, Places
<1>4. CASE InsertClaim(r)
  <2>1. CASE Reply(r, "refused")
    BY <2>1, ReplyType DEF Answers
  <2>2. CASE ~Reply(r, "refused")
    <3>1. LocalsTypeOK' /\ \A q \in Requests : Listed(q)'
      BY <1>4, <2>2, GotoType DEF InsertClaim, Places
    <3>2. TablesTypeOK' /\ BucketTypeOK' /\ RestTypeOK'
      BY <1>4, <2>2, TypeParts
         DEF InsertClaim, TypesInv, TablesTypeOK, BucketTypeOK, RestTypeOK,
             bucket, clocks, Someone
    <3> QED BY <3>1, <3>2, PrimedParts DEF TypesInv
  <2> QED BY <2>1, <2>2
<1>5. CASE UploadPart(r)
  <2>1. LocalsTypeOK' /\ \A q \in Requests : Listed(q)'
    BY <1>5, GotoType DEF UploadPart, rows, Places
  <2>2. TablesTypeOK' /\ BucketTypeOK' /\ RestTypeOK'
    BY <1>5, TypeParts
       DEF UploadPart, TypesInv, TablesTypeOK, BucketTypeOK, RestTypeOK, rows,
           clocks
  <2> QED BY <2>1, <2>2, PrimedParts DEF TypesInv
<1>6. CASE RecordPart(r)
  <2>1. parts' \in [Parts -> Requests \cup {NoRequest}]
    BY <1>6, TypedRow DEF RecordPart
  <2> QED BY <1>6, <2>1, TypedRow, UnclaimedType, EndType DEF RecordPart, Answers
<1>7. CASE ReleasePart(r)
  BY <1>7, TypedRow, UnclaimedType, EndType DEF ReleasePart, Answers
<1> QED BY <1>1, <1>2, <1>3, <1>4, <1>5, <1>6, <1>7 DEF PartStep

LEMMA ReplayType ==
  ASSUME TypesInv, NEW r \in Requests, NEW op, NEW onward,
         Replay(r, op, onward), onward => TypesInv'
  PROVE  TypesInv'
BY ReplyType DEF Replay, Answers

(* A renewal: the row and what was read stay.                              *)
LEMMA RenewedType ==
  ASSUME TypesInv, NEW r \in Requests, NEW place \in Places, Renewed(r),
         pc' = [pc EXCEPT ![r] = place] \/ pc' = pc,
         place \notin {"seal", "assemble", "acquire"},
         UNCHANGED <<answer, manifest>>
  PROVE  TypesInv'
<1>1. LocalsTypeOK'
  BY DEF Renewed, TypesInv, UploadsTypeOK, LocalsTypeOK
<1>2. ASSUME NEW q \in Requests
      PROVE  Listed(q)'
  BY DEF Renewed, Listed, At, Multipart, TypesInv, UploadsTypeOK, rows
<1>3. TablesTypeOK' /\ BucketTypeOK' /\ RestTypeOK'
  BY TypeParts
     DEF Renewed, TypesInv, TablesTypeOK, BucketTypeOK, RestTypeOK, rows, bucket
<1> QED BY <1>1, <1>2, <1>3, PrimedParts DEF TypesInv

LEMMA RenewType ==
  ASSUME TypesInv, NEW r \in Requests, NEW from, NEW place \in Places,
         Renew(r, from, place), place \notin {"seal", "assemble", "acquire"}
  PROVE  TypesInv'
BY RenewedType, ReplyType DEF Renew, Answers

(* What R2 makes of the last uploads of the parts.                         *)
LEMMA AssembledType ==
  ASSUME TypesInv, NEW r \in Requests, manifest[r] \in [Parts -> Requests]
  PROVE  Assembled(r) \in [Requests -> Bytes \cup {NoBytes}]
<1> DEFINE held == {request[manifest[r][p]].bytes : p \in Parts}
           content == IF held = {Declared} THEN Declared
                      ELSE CHOOSE b \in held : b # Declared
<1>1. held \subseteq Bytes /\ held # {}
  BY CallType, UploadsAssumption DEF TypesInv
<1>2. content \in Bytes
  <2>1. CASE held = {Declared}
    BY <2>1, UploadsAssumption
  <2>2. CASE held # {Declared}
    <3>1. \E b \in held : b # Declared
      BY <1>1, <2>2
    <3> QED BY <1>1, <2>2, <3>1
  <2> QED BY <2>1, <2>2
<1> QED BY <1>2 DEF Assembled, TypesInv, UploadsTypeOK

LEMMA AssembleTypes ==
  ASSUME TypesInv, NEW r \in Requests, Assemble(r) \/ AssembleFails(r)
  PROVE  TypesInv'
<1>1. CASE Assemble(r)
  <2>1. CASE Proceed(r, "assembled") \/ Proceed(r, "missing")
    BY <2>1, ProceedType DEF Places
  <2>2. CASE ~(Proceed(r, "assembled") \/ Proceed(r, "missing"))
    <3>1. LocalsTypeOK' /\ \A q \in Requests : Listed(q)'
      BY <1>1, <2>2, GotoType DEF Assemble, rows, Places
    <3>2. manifest[r] \in [Parts -> Requests]
      BY <1>1 DEF Assemble, TypesInv, Listed, At
    <3>3. objects' \in [Requests -> Bytes \cup {NoBytes}]
      BY <1>1, <2>2, <3>2, AssembledType DEF Assemble
    <3>4. TablesTypeOK' /\ BucketTypeOK' /\ RestTypeOK'
      BY <1>1, <2>2, <3>3, TypeParts
         DEF Assemble, TypesInv, TablesTypeOK, BucketTypeOK, RestTypeOK, rows,
             clocks
    <3> QED BY <3>1, <3>4, PrimedParts DEF TypesInv
  <2> QED BY <2>1, <2>2
<1>2. CASE AssembleFails(r)
  <2>1. LocalsTypeOK' /\ \A q \in Requests : Listed(q)'
    BY <1>2, GotoType DEF AssembleFails, rows, Places
  <2>2. TablesTypeOK' /\ BucketTypeOK' /\ RestTypeOK'
    BY <1>2, TypeParts, TroubleType
       DEF AssembleFails, TypesInv, TablesTypeOK, BucketTypeOK, RestTypeOK,
           rows, bucket, clocks
  <2> QED BY <2>1, <2>2, PrimedParts DEF TypesInv
<1> QED BY <1>1, <1>2

LEMMA WorkTypes ==
  ASSUME TypesInv, NEW r \in Requests, WorkStep(r)
  PROVE  TypesInv'
<1>1. CASE Complete(r)
  <2>1. CASE \/ Ensure(r, Reply(r, "open"))
             \/ Replay(r, "complete", Proceed(r, "publish"))
             \/ Proceed(r, "expire") \/ Reply(r, "refused")
    BY <2>1, EnsureType, ReplayType, ReplyType, ProceedType DEF Answers, Places
  <2>2. CASE /\ pc' = [pc EXCEPT ![r] = IF Multipart THEN "list" ELSE "acquire"]
             /\ late' = IF lapsed THEN late \cup {r} ELSE late
             /\ UNCHANGED <<answer, manifest, rows, bucket, clocks, request,
                            troubles>>
    <3>1. LocalsTypeOK'
      BY <2>2 DEF TypesInv, UploadsTypeOK, LocalsTypeOK, Places
    <3>2. ASSUME NEW q \in Requests
          PROVE  Listed(q)'
      BY <2>2 DEF Listed, At, Multipart, TypesInv, UploadsTypeOK, rows
    <3>3. TablesTypeOK' /\ BucketTypeOK' /\ RestTypeOK'
      BY <2>2, TypeParts
         DEF TypesInv, TablesTypeOK, BucketTypeOK, RestTypeOK, rows, bucket,
             clocks
    <3> QED BY <3>1, <3>2, <3>3, PrimedParts DEF TypesInv
  <2> QED BY <1>1, <2>1, <2>2 DEF Complete, Multipart
<1>2. CASE List(r)
  <2>1. CASE Reply(r, "refused")
    BY <2>1, ReplyType DEF Answers
  <2>2. CASE /\ \A p \in Parts : parts[p] # NoRequest
             /\ manifest' = [manifest EXCEPT ![r] = parts]
             /\ pc' = [pc EXCEPT ![r] = IF session.state = "open" THEN "seal"
                                        ELSE "acquire"]
             /\ UNCHANGED <<answer, late, rows, bucket, clocks, request, troubles>>
    <3>1. parts \in [Parts -> Requests]
      BY <2>2, TypedRow
    <3>2. LocalsTypeOK'
      BY <2>2, TypedRow DEF TypesInv, UploadsTypeOK, LocalsTypeOK, Places
    <3>3. ASSUME NEW q \in Requests
          PROVE  Listed(q)'
      BY <2>2, <3>1 DEF Listed, At, Multipart, TypesInv, UploadsTypeOK, rows
    <3>4. TablesTypeOK' /\ BucketTypeOK' /\ RestTypeOK'
      BY <2>2, TypeParts
         DEF TypesInv, TablesTypeOK, BucketTypeOK, RestTypeOK, rows, bucket,
             clocks
    <3> QED BY <3>2, <3>3, <3>4, PrimedParts DEF TypesInv
  <2> QED BY <1>2, <2>1, <2>2 DEF List
<1>3. CASE Seal(r)
  <2>1. CASE Sealable
    <3>1. RowTypeOK([session EXCEPT !.state = "uploaded"])
      BY <2>1, TypedRow DEF RowTypeOK, Session, Sealable, States
    <3>2. [session EXCEPT !.state = "uploaded"].mode = session.mode
      BY TypedRow DEF Session
    <3>3. manifest[r] \in [Parts -> Requests]
      BY <1>3 DEF Seal, TypesInv, Listed, At
    <3> QED BY <1>3, <2>1, <3>1, <3>2, <3>3, UpdateType DEF Seal, Places
  <2>2. CASE ~Sealable
    BY <1>3, <2>2, ReplyType DEF Seal, Answers
  <2> QED BY <2>1, <2>2
<1>4. CASE Acquire(r)
  <2>1. CASE Proceed(r, "reread")
    BY <2>1, ProceedType DEF Places
  <2>2. CASE ~Proceed(r, "reread")
    <3>1. Fingerprint("complete", Key(r)) \in Fingerprints
      BY CallType, FingerprintType DEF TypesInv
    <3>2. RowTypeOK(session') /\ session'.mode = session.mode
      <4> DEFINE key == IF session.completeKey = NoFingerprint
                        THEN Fingerprint("complete", Key(r))
                        ELSE session.completeKey
      <4>1. session' = [session EXCEPT !.state = "finalizing", !.owner = r,
                                       !.completeKey = key]
        BY <1>4, <2>2, TypedRow DEF Acquire, Session
      <4>2. key \in Fingerprints /\ session \in Session
        BY <3>1, TypedRow DEF Session
      <4>3. r \in Someone /\ r # NoRequest /\ "finalizing" \in States
        BY UploadsAssumption DEF Someone, States
      <4> HIDE DEF key
      <4> QED BY <4>1, <4>2, <4>3 DEF RowTypeOK, Session
    <3>3. FirstWork \in Places /\ FirstWork \notin {"seal", "acquire"}
            /\ (FirstWork = "assemble" => Multipart)
      BY TypedRow DEF FirstWork, Session, Places, Multipart
    <3>4. LocalsTypeOK'
      BY <1>4, <2>2, <3>3 DEF Acquire, TypesInv, UploadsTypeOK, LocalsTypeOK
    <3>5. ASSUME NEW q \in Requests
          PROVE  Listed(q)'
      BY <1>4, <2>2, <3>2, <3>3
         DEF Acquire, Listed, At, Multipart, TypesInv, UploadsTypeOK
    <3>6. TablesTypeOK' /\ BucketTypeOK' /\ RestTypeOK'
      BY <1>4, <2>2, <3>2, TypeParts
         DEF Acquire, TypesInv, TablesTypeOK, BucketTypeOK, RestTypeOK, bucket
    <3> QED BY <3>4, <3>5, <3>6, PrimedParts DEF TypesInv
  <2> QED BY <2>1, <2>2
<1>5. CASE Reread(r)
  BY <1>5, ReplayType, ReplyType, ProceedType DEF Reread, Answers, Places
<1>6. CASE Assembling(r)
  <2>1. CASE Assemble(r) \/ AssembleFails(r)
    BY <2>1, AssembleTypes
  <2>2. CASE ~(Assemble(r) \/ AssembleFails(r))
    BY <1>6, <2>2, RenewType DEF Assembling, Places
  <2> QED BY <2>1, <2>2
<1>7. CASE MarkCompleted(r)
  <2>1. RowTypeOK([session EXCEPT !.completed = TRUE])
          /\ [session EXCEPT !.completed = TRUE].mode = session.mode
    BY TypedRow DEF RowTypeOK, Session
  <2> QED BY <1>7, <2>1, UpdateType, ReplyType DEF MarkCompleted, Answers, Places
<1>8. CASE Verifying(r)
  BY <1>8, RenewType, ProceedType DEF Verifying, Verify, Places
<1>9. CASE MarkVerified(r)
  <2>1. RowTypeOK([session EXCEPT !.hash = Declared])
          /\ [session EXCEPT !.hash = Declared].mode = session.mode
    BY TypedRow, UploadsAssumption DEF RowTypeOK, Session
  <2> QED BY <1>9, <2>1, UpdateType, ReplyType DEF MarkVerified, Answers, Places
<1>10. CASE Checking(r)
  BY <1>10, RenewType, ProceedType DEF Checking, Stat, Places
<1> QED
  BY <1>1, <1>2, <1>3, <1>4, <1>5, <1>6, <1>7, <1>8, <1>9, <1>10 DEF WorkStep

LEMMA CommittedType ==
  ASSUME TypesInv, NEW r \in Requests, NEW place \in Places, Committed,
         Goto(r, place), place \notin {"seal", "assemble", "acquire"},
         troubles' \in Nat
  PROVE  TypesInv'
<1> DEFINE s == Finished(session, "committed", "committed")
<1>1. RowTypeOK(s) /\ s.mode = session.mode
  BY EndedType DEF Ended, Results
<1>2. session' = [s EXCEPT !.tracked = @ /\ blob # NoRequest]
  BY DEF Committed
<1>3. RowTypeOK(session') /\ session'.mode = session.mode
  BY <1>1, <1>2 DEF RowTypeOK, Session
<1>4. LocalsTypeOK' /\ \A q \in Requests : Listed(q)'
  BY <1>3, GotoType
<1>5. blob' \in Someone
  BY TypedRow DEF Committed, TypesInv, UploadsTypeOK, Session, Someone
<1>6. TablesTypeOK' /\ BucketTypeOK' /\ RestTypeOK'
  BY <1>3, <1>5, TypeParts
     DEF Committed, TypesInv, TablesTypeOK, BucketTypeOK, RestTypeOK, bucket,
         clocks
<1> QED BY <1>4, <1>6, PrimedParts DEF TypesInv

(* A row of which only the publication changed.                            *)
LEMMA PublicationType ==
  ASSUME TypesInv, NEW by \in Someone, NEW flag \in BOOLEAN
  PROVE  /\ RowTypeOK([session EXCEPT !.published = flag, !.publisher = by])
         /\ [session EXCEPT !.published = flag, !.publisher = by].mode
              = session.mode
BY TypedRow DEF RowTypeOK, Session

LEMMA PublisherType ==
  ASSUME TypesInv, NEW by \in Someone
  PROVE  /\ RowTypeOK([session EXCEPT !.publisher = by])
         /\ [session EXCEPT !.publisher = by].mode = session.mode
BY TypedRow DEF RowTypeOK, Session

LEMMA FinalTypes ==
  ASSUME TypesInv, NEW r \in Requests, FinalStep(r)
  PROVE  TypesInv'
<1>1. CASE FinalizeUnchanged(r)
  <2>1. CASE Proceed(r, "commit")
    BY <2>1, ProceedType DEF Places
  <2>2. CASE ~Proceed(r, "commit")
    <3> DEFINE s == Finished(session, "committed", "unchanged")
    <3>1. RowTypeOK(s) /\ s.mode = session.mode
      BY EndedType DEF Ended, Results
    <3> HIDE DEF s
    <3>2. /\ RowTypeOK([s EXCEPT !.tracked = FALSE])
          /\ [s EXCEPT !.tracked = FALSE].mode = session.mode
      BY <3>1 DEF RowTypeOK, Session
    <3> QED
      BY <1>1, <2>2, <3>2, EndsSame DEF FinalizeUnchanged, Answers, Results, s
  <2> QED BY <2>1, <2>2
<1>2. CASE Commit(r)
  BY <1>2, CommittedType, ProceedType DEF Commit, Places, TypesInv, UploadsTypeOK
<1>3. CASE Outcome(r)
  BY <1>3, ProceedType DEF Outcome, Places
<1>4. CASE Stale(r)
  BY <1>4, EndedType, EndsSame, ReplyType DEF Stale, Answers, Results, Ended
<1>5. CASE Fail(r)
  BY <1>5, EndedType, TypedRow, EndsSame DEF Fail, Answers, Results, Ended
<1>6. CASE Publish(r)
  <2>1. CASE Reply(r, session.result)
    BY <2>1, TypedRow, ReplyType
  <2>2. CASE ~Reply(r, session.result)
    <3>1. LocalsTypeOK' /\ \A q \in Requests : Listed(q)'
      BY <1>6, <2>2, PublisherType, GotoType DEF Publish, Places, Someone
    <3>2. RowTypeOK(session')
      BY <1>6, <2>2, PublisherType DEF Publish, Someone
    <3>3. TablesTypeOK' /\ BucketTypeOK' /\ RestTypeOK'
      BY <1>6, <2>2, <3>2, TypeParts
         DEF Publish, TypesInv, TablesTypeOK, BucketTypeOK, RestTypeOK, bucket
    <3> QED BY <3>1, <3>3, PrimedParts DEF TypesInv
  <2> QED BY <2>1, <2>2
<1>7. CASE Deliver(r)
  <2>1. LocalsTypeOK' /\ \A q \in Requests : Listed(q)'
    BY <1>7, GotoType DEF Deliver, Places
  <2>2. TablesTypeOK' /\ BucketTypeOK' /\ RestTypeOK'
    BY <1>7, TypeParts
       DEF Deliver, TypesInv, TablesTypeOK, BucketTypeOK, RestTypeOK, bucket,
           clocks
  <2> QED BY <2>1, <2>2, PrimedParts DEF TypesInv
<1>8. CASE Mark(r)
  BY <1>8, PublicationType, TypedRow, EndsSame, ProceedType
     DEF Mark, Places, Someone
<1>9. CASE Unclaim(r)
  <2> DEFINE by == IF session.publisher = r /\ ~session.published THEN NoRequest
                   ELSE session.publisher
  <2>1. by \in Someone
    BY TypedRow DEF Session, Someone
  <2>2. Leave(r, "done", "refused", [session EXCEPT !.publisher = by], claims)
    BY <1>9 DEF Unclaim
  <2> HIDE DEF by
  <2> QED BY <1>9, <2>1, <2>2, PublisherType, EndsSame DEF Unclaim, Answers
<1> QED
  BY <1>1, <1>2, <1>3, <1>4, <1>5, <1>6, <1>7, <1>8, <1>9 DEF FinalStep

LEMMA AfterCleanupType ==
  ASSUME NEW r \in Requests
  PROVE  AfterCleanup(r) \in Answers
BY DEF AfterCleanup, Answers, Results

LEMMA SweptType ==
  ASSUME TypesInv
  PROVE  RowTypeOK(Swept(session)) /\ Swept(session).mode = session.mode
BY TypedRow, EndedType DEF Swept, Ended, Results

LEMMA AbortTypes ==
  ASSUME TypesInv, NEW r \in Requests, AbortStep(r)
  PROVE  TypesInv'
<1>1. CASE Abort(r)
  <2>1. CASE Replay(r, "abort", Proceed(r, "cleanup"))
    BY <2>1, ReplayType, ProceedType DEF Places
  <2>2. CASE /\ pc' = [pc EXCEPT ![r] = "releaseStale"]
             /\ late' = IF lapsed THEN late \cup {r} ELSE late
             /\ UNCHANGED <<answer, manifest, rows, bucket, clocks, request,
                            troubles>>
    <3>1. LocalsTypeOK'
      BY <2>2 DEF TypesInv, UploadsTypeOK, LocalsTypeOK, Places
    <3>2. ASSUME NEW q \in Requests
          PROVE  Listed(q)'
      BY <2>2 DEF Listed, At, Multipart, TypesInv, UploadsTypeOK, rows
    <3>3. TablesTypeOK' /\ BucketTypeOK' /\ RestTypeOK'
      BY <2>2, TypeParts
         DEF TypesInv, TablesTypeOK, BucketTypeOK, RestTypeOK, rows, bucket,
             clocks
    <3> QED BY <3>1, <3>2, <3>3, PrimedParts DEF TypesInv
  <2> QED BY <1>1, <2>1, <2>2 DEF Abort
<1>2. CASE ReleaseStale(r)
  <2>1. LocalsTypeOK' /\ \A q \in Requests : Listed(q)'
    BY <1>2, GotoType DEF ReleaseStale, Places
  <2>2. claims' \in [Parts -> Someone]
    BY <1>2, TypedRow DEF ReleaseStale, Someone
  <2>3. troubles' \in Nat
    BY <1>2, TroubleType DEF ReleaseStale, TypesInv, UploadsTypeOK
  <2>4. TablesTypeOK' /\ BucketTypeOK' /\ RestTypeOK'
    BY <1>2, <2>2, <2>3, TypeParts
       DEF ReleaseStale, TypesInv, TablesTypeOK, BucketTypeOK, RestTypeOK,
           bucket, clocks
  <2> QED BY <2>1, <2>4, PrimedParts DEF TypesInv
<1>3. CASE TryAbort(r)
  <2> DEFINE s == Finished(session, "aborted", "aborted")
             f == Fingerprint("abort", Key(r))
  <2>1. RowTypeOK(s) /\ s.mode = session.mode
    BY EndedType DEF Ended, Results
  <2>2. f \in Fingerprints
    BY CallType, FingerprintType DEF TypesInv
  <2> HIDE DEF s, f
  <2>3. /\ RowTypeOK([s EXCEPT !.completeKey = f])
        /\ [s EXCEPT !.completeKey = f].mode = session.mode
    BY <2>1, <2>2 DEF RowTypeOK, Session
  <2> QED
    BY <1>3, <2>3, UpdateType, ProceedType DEF TryAbort, Places, s, f
<1>4. CASE Unaborted(r)
  BY <1>4, TypedRow, ReplayType, ReplyType DEF Unaborted, Answers
<1>5. CASE Cleanup(r)
  <2>1. CASE Reply(r, AfterCleanup(r))
    BY <2>1, AfterCleanupType, ReplyType
  <2>2. CASE ~Reply(r, AfterCleanup(r))
    <3>1. LocalsTypeOK' /\ \A q \in Requests : Listed(q)'
      BY <1>5, <2>2, GotoType DEF Cleanup, rows, Places
    <3>2. TablesTypeOK' /\ BucketTypeOK' /\ RestTypeOK'
      BY <1>5, <2>2, TypeParts
         DEF Cleanup, TypesInv, TablesTypeOK, BucketTypeOK, RestTypeOK, rows,
             clocks
    <3> QED BY <3>1, <3>2, PrimedParts DEF TypesInv
  <2> QED BY <2>1, <2>2
<1>6. CASE Untrack(r)
  <2> DEFINE flag == /\ session.tracked
                     /\ session.state \in {"open", "uploaded", "finalizing",
                                           "committed"}
  <2>1. flag \in BOOLEAN
    OBVIOUS
  <2>2. Leave(r, "done", AfterCleanup(r), [session EXCEPT !.tracked = flag], claims)
    BY <1>6 DEF Untrack
  <2> HIDE DEF flag
  <2>3. /\ RowTypeOK([session EXCEPT !.tracked = flag])
        /\ [session EXCEPT !.tracked = flag].mode = session.mode
    BY <2>1, TypedRow DEF RowTypeOK, Session
  <2> QED BY <1>6, <2>2, <2>3, AfterCleanupType, EndsSame DEF Untrack
<1>7. CASE Sweep(r)
  <2>1. PICK place \in Places : Goto(r, place)
                                /\ place \notin {"seal", "assemble", "acquire"}
    BY <1>7 DEF Sweep, Places
  <2>2. session' = Swept(session)
    BY <1>7 DEF Sweep
  <2>3. LocalsTypeOK' /\ \A q \in Requests : Listed(q)'
    BY <2>1, <2>2, SweptType, GotoType
  <2>4. parts' \in [Parts -> Requests \cup {NoRequest}]
    BY <1>7, TypedRow DEF Sweep
  <2>5. TablesTypeOK' /\ BucketTypeOK' /\ RestTypeOK'
    BY <1>7, <2>2, <2>4, SweptType, TypeParts
       DEF Sweep, TypesInv, TablesTypeOK, BucketTypeOK, RestTypeOK, bucket,
           clocks
  <2> QED BY <2>3, <2>5, PrimedParts DEF TypesInv
<1> QED
  BY <1>1, <1>2, <1>3, <1>4, <1>5, <1>6, <1>7 DEF AbortStep

(* A call that fails before it took effect, or with the row it left.       *)
LEMMA LostType ==
  ASSUME TypesInv, NEW r \in Requests, NEW place \in Places, Goto(r, place),
         place \notin {"seal", "assemble", "acquire"}, Trouble,
         RowTypeOK(session'), session'.mode = session.mode,
         UNCHANGED <<parts, claims, blob, head, delivered, bucket, clocks, request>>
  PROVE  TypesInv'
<1>1. LocalsTypeOK' /\ \A q \in Requests : Listed(q)'
  BY GotoType
<1>2. TablesTypeOK' /\ BucketTypeOK' /\ RestTypeOK'
  BY TypeParts, TroubleType
     DEF TypesInv, TablesTypeOK, BucketTypeOK, RestTypeOK, bucket, clocks
<1> QED BY <1>1, <1>2, PrimedParts DEF TypesInv

LEMMA FailureTypes ==
  ASSUME TypesInv, NEW r \in Requests, Failure(r)
  PROVE  TypesInv'
<1>1. CASE RecordFails(r)
  <2>1. RowTypeOK(session') /\ session'.mode = session.mode
    BY <1>1, TypedRow, RecordedType DEF RecordFails
  <2> QED BY <1>1, <2>1, LostType DEF RecordFails, Places
<1>2. CASE PartFails(r) \/ PublishFails(r)
  BY <1>2, TypedRow, LostType DEF PartFails, PublishFails, Places, rows
<1>3. CASE AssembleFails(r)
  BY <1>3, AssembleTypes
<1>4. CASE CommitFails(r)
  <2>1. CASE Committed
    BY <1>4, <2>1, CommittedType, TroubleType DEF CommitFails, Places, TypesInv
  <2>2. CASE ~Committed
    BY <1>4, <2>2, TypedRow, LostType DEF CommitFails, Places, rows
  <2> QED BY <2>1, <2>2
<1>5. CASE Crash(r)
  <2>1. /\ LocalsTypeOK' /\ RowTypeOK(session') /\ claims' \in [Parts -> Someone]
        /\ \A q \in Requests : Listed(q)'
    BY <1>5, TypedRow, LeaveType DEF Crash, Answers, Results
  <2>2. TablesTypeOK' /\ BucketTypeOK' /\ RestTypeOK'
    BY <1>5, <2>1, TypeParts, TroubleType
       DEF Crash, TypesInv, TablesTypeOK, BucketTypeOK, RestTypeOK, bucket,
           clocks
  <2> QED BY <2>1, <2>2, PrimedParts DEF TypesInv
<1> QED BY <1>1, <1>2, <1>3, <1>4, <1>5 DEF Failure

(* Time, the leases, and what others do to the path.                       *)
LEMMA OutsideTypes ==
  ASSUME TypesInv, Time \/ LeaseRunsOut \/ Others
  PROVE  TypesInv'
<1>1. UNCHANGED <<session, parts, claims, delivered, bucket, locals, request>>
  BY DEF Time, LeaseRunsOut, Others, rows
<1>2. LocalsTypeOK' /\ \A q \in Requests : Listed(q)'
  BY <1>1
     DEF TypesInv, UploadsTypeOK, LocalsTypeOK, Listed, At, Multipart, locals
<1>3. troubles' \in Nat /\ overdue' \in BOOLEAN /\ lapsed' \in BOOLEAN
        /\ unclaimed' \in BOOLEAN
  BY TroubleType
     DEF Time, Passes, LeaseRunsOut, Others, clocks, TypesInv, UploadsTypeOK
<1>4. blob' \in Someone
        /\ head' \in [fresh : BOOLEAN, live : BOOLEAN, written : BOOLEAN]
  BY DEF Time, LeaseRunsOut, Others, rows, TypesInv, UploadsTypeOK, Someone
<1>5. TablesTypeOK' /\ BucketTypeOK' /\ RestTypeOK'
  BY <1>1, <1>3, <1>4, TypeParts
     DEF TypesInv, TablesTypeOK, BucketTypeOK, RestTypeOK, bucket
<1> QED BY <1>2, <1>5, PrimedParts DEF TypesInv

LEMMA TypesInductive ==
  ASSUME TypesInv, [Next]_vars
  PROVE  TypesInv'
<1>1. ASSUME NEW r \in Requests, Step(r)
      PROVE  TypesInv'
  BY <1>1, CreateTypes, ContentTypes, PartTypes, WorkTypes, FinalTypes,
     AbortTypes DEF Step
<1>2. ASSUME NEW r \in Requests, Heartbeat(r)
      PROVE  TypesInv'
  BY <1>2, RenewedType DEF Heartbeat, Places
<1>3. ASSUME NEW r \in Requests, Retry(r)
      PROVE  TypesInv'
  <2>1. LocalsTypeOK'
    BY <1>3 DEF Retry, TypesInv, UploadsTypeOK, LocalsTypeOK, Places, Answers,
                Results
  <2>2. ASSUME NEW q \in Requests
        PROVE  Listed(q)'
    BY <1>3 DEF Retry, Listed, At, Multipart, TypesInv, UploadsTypeOK, rows
  <2>3. TablesTypeOK' /\ BucketTypeOK' /\ RestTypeOK'
    BY <1>3, TypeParts
       DEF Retry, TypesInv, TablesTypeOK, BucketTypeOK, RestTypeOK, rows,
           bucket, clocks
  <2> QED BY <2>1, <2>2, <2>3, PrimedParts DEF TypesInv
<1>4. CASE UNCHANGED vars
  BY <1>4, TypeParts, PrimedParts
     DEF vars, rows, bucket, clocks, locals, TypesInv, TablesTypeOK,
         BucketTypeOK, LocalsTypeOK, RestTypeOK, Listed, At, Multipart
<1> QED BY <1>1, <1>2, <1>3, <1>4, FailureTypes, OutsideTypes DEF Next

LEMMA InitTypes ==
  ASSUME Init
  PROVE  TypesInv
<1>1. PICK s \in Scenarios :
        /\ session = IF s.opener = NoRequest THEN Unopened(s.mode, s.skip)
                     ELSE Bound(Opened(Unopened(s.mode, s.skip)), s.opener)
        /\ uploads = [r \in Requests |->
                        IF session.staging = r THEN "live" ELSE "none"]
        /\ request = s.ask
        /\ pc = [r \in Requests |-> IF r = s.opener THEN "done" ELSE "idle"]
        /\ answer = [r \in Requests |-> IF r = s.opener THEN "open" ELSE "none"]
        /\ troubles = s.troubles
  BY DEF Init
<1>2. s \in Scenario
  BY UploadsAssumption
<1>3. NoFingerprint \in Fingerprints
  BY DEF NoFingerprint, Fingerprint, Fingerprints
<1>4. RowTypeOK(Unopened(s.mode, s.skip))
        /\ Unopened(s.mode, s.skip).state = "none"
  BY <1>2, <1>3
     DEF Scenario, Unopened, RowTypeOK, Session, States, Results, Someone
<1>5. RowTypeOK(session)
  <2>1. CASE s.opener = NoRequest
    BY <1>1, <1>4, <2>1
  <2>2. CASE s.opener \in Requests
    <3> DEFINE o == Opened(Unopened(s.mode, s.skip))
    <3>1. RowTypeOK(o)
      BY <1>4 DEF Opened, RowTypeOK, Session, States
    <3> HIDE DEF o
    <3>2. RowTypeOK(Bound(o, s.opener))
      BY <2>2, <3>1 DEF Bound, RowTypeOK, Session
    <3>3. s.opener # NoRequest
      BY <2>2, UploadsAssumption
    <3> QED BY <1>1, <3>2, <3>3 DEF o
  <2> QED BY <1>2, <2>1, <2>2 DEF Scenario
<1>6. TablesTypeOK
  BY <1>5 DEF Init, TablesTypeOK, Someone
<1>7. BucketTypeOK
  BY <1>1 DEF Init, BucketTypeOK
<1>8. LocalsTypeOK
  BY <1>1 DEF Init, LocalsTypeOK, Places, Answers, Results
<1>9. RestTypeOK
  <2>1. s.ask \in [Requests -> Call] /\ s.troubles \in 0..MaxTroubles
    BY <1>2 DEF Scenario
  <2>2. s.troubles \in Nat
    BY <2>1, UploadsAssumption
  <2> QED BY <1>1, <2>1, <2>2 DEF Init, RestTypeOK
<1>10. \A r \in Requests : Listed(r)
  BY <1>1 DEF Listed, At
<1> QED BY <1>6, <1>7, <1>8, <1>9, <1>10, TypeParts DEF TypesInv

(* The types, the CHECK constraints of the tables among them: the lease    *)
(* has an owner exactly while the session is being finalized.              *)
THEOREM UploadsTypes == Spec => []UploadsTypeOK
<1>1. Init => TypesInv
  BY InitTypes
<1>2. TypesInv /\ [Next]_vars => TypesInv'
  BY TypesInductive
<1>3. TypesInv => UploadsTypeOK
  BY DEF TypesInv
<1> QED BY <1>1, <1>2, <1>3, PTL DEF Spec

-----------------------------------------------------------------------------
(* The invariant: what the place of a request says of the session.         *)

Staging == {"stage", "record", "discard", "discardLost", "failOpen"}
InParts == {"mint", "bind", "unbind", "list", "seal", "assemble", "assembled",
            "markCompleted", "verify", "verified", "mismatched",
            "markVerified"}
Known == {"stat", "available", "unavailable", "unchanged", "commit"}
Checked == {"verified", "markVerified", "stat", "available", "unchanged",
            "commit"}
Working == Known \cup Checked \cup
           {"assemble", "assembled", "missing", "markCompleted", "verify",
            "mismatched", "outcome", "stale", "decline", "fail", "publish",
            "deliver", "mark", "unclaim", "cleanup", "untrack"}

(* From the lease on the session is finalizing or over; what is known to   *)
(* have the declared hash has it in the row; what was checked while it     *)
(* was assembled holds the declared bytes as long as it is not over.       *)
Fits(r, place) ==
  /\ place \in Staging => Asks(r, {"content"}) /\ ~Multipart
  /\ place \in InParts => Multipart
  /\ place = "record" /\ session.mode = "r2" => objects[r] = Declared
  /\ place = "expire" => ~Asks(r, {"abort"})
  /\ place \in Working => session.state \in {"finalizing"} \cup Ended
  /\ place \in {"cleanup", "untrack"} =>
       /\ session.state \in Ended
       /\ Asks(r, {"abort"}) => session.state = "aborted"
  /\ place = "deliver" => session.result = "committed"
  /\ place = "mark" => delivered
  /\ place \in Known => session.hash = Declared
  /\ place \in Checked /\ Multipart /\ session.state = "finalizing" =>
       objects[session.staging] = Declared

PlacesInv == \A r \in Requests : Fits(r, pc[r])

(* The row: what is staged and how it ended.                               *)
RowInv ==
  /\ session.state \in {"uploaded", "finalizing", "committed", "stale"} =>
       /\ session.staging \in Requests
       /\ ~Multipart => session.hash = Declared
  /\ session.hash \in {NoBytes, Declared}
  /\ session.result # "none" =>
       session.state = IF session.result = "unchanged" THEN "committed"
                       ELSE session.result
  /\ session.completeKey.op = "abort" => session.state = "aborted"

(* The object that the row names was put there by a request that is over.  *)
Staged(w) ==
  /\ Asks(w, {"content"})
  /\ \/ objects[w] = Declared /\ At(w, {"done", "dead", "discardLost"})
     \/ Told(w, "refused")

StagedInv ==
  session.mode = "r2" /\ session.staging \in Requests => Staged(session.staging)

(* The stored bytes are those of the session, once it is committed.        *)
BlobInv ==
  /\ blob \in Requests =>
       /\ head.written /\ blob = session.staging
       /\ Multipart => objects[blob] = Declared
  /\ head.written => blob # NoRequest /\ session.hash = Declared

AnswerFits(r, told) ==
  /\ Completing(r) /\ told \in Results \ {"none"} => session.result = told
  /\ Asks(r, {"abort"}) /\ told = "aborted" => session.state = "aborted"

VersionInv ==
  /\ head.written <=> session.result = "committed"
  /\ delivered => head.written
  /\ session.published => delivered

UploadsInv ==
  /\ TypesInv /\ PlacesInv /\ RowInv /\ StagedInv /\ BlobInv /\ VersionInv
  /\ \A r \in Requests : pc[r] = "done" => AnswerFits(r, answer[r])

LEMMA InvImpliesTold == UploadsInv => ToldIsTrue
BY DEF UploadsInv, VersionInv, RowInv, AnswerFits, ToldIsTrue, Told

LEMMA InvImpliesAvailable == UploadsInv => CommittedBytesAvailable
<1> SUFFICES ASSUME UploadsInv, head.written
             PROVE  /\ blob # NoRequest /\ session.hash = Declared
                    /\ blob \in Requests /\ session.mode # "d1" =>
                         \/ objects[blob] = Declared
                         \/ Asks(blob, {"content"}) /\ Told(blob, "refused")
  BY DEF CommittedBytesAvailable
<1>1. session.mode \in {"d1", "r2", "multipart"}
  BY TypedRow DEF UploadsInv, Session
<1> QED
  BY <1>1 DEF UploadsInv, BlobInv, StagedInv, Staged, Multipart

-----------------------------------------------------------------------------
(* A step of one request that touches neither the objects nor the version. *)

Legal ==
  /\ session'.state # session.state =>
       session'.state \in AllowedTransitions[session.state]
  /\ session.result # "none" =>
       /\ session'.result = session.result
       /\ session'.completeKey = session.completeKey

LEMMA LegalStates ==
  ASSUME TypesInv, TypesInv', Legal
  PROVE  /\ session.state \in Ended => session'.state = session.state
         /\ session.state = "finalizing" =>
              session'.state \in {"finalizing"} \cup Ended
         /\ session'.state = "finalizing" =>
              session.state \in {"uploaded", "finalizing"}
<1>1. session.state \in States /\ session'.state \in States
  BY TypedRow DEF TypesInv, UploadsTypeOK, Session
<1> QED BY <1>1 DEF Legal, AllowedTransitions, States, Ended

(* Only r moves.                                                           *)
Alone(r) ==
  /\ \A q \in Requests \ {r} : pc'[q] = pc[q] /\ answer'[q] = answer[q]
  /\ request' = request

Moves(r) ==
  /\ Alone(r) /\ Legal /\ RowInv'
  /\ UNCHANGED <<blob, head, objects, delivered>>
  /\ session'.mode = session.mode
  /\ session'.hash \in {session.hash, Declared}
  /\ session'.staging = session.staging \/ session.state = "open"
  /\ session'.result = "committed" <=> session.result = "committed"
  /\ session'.published = session.published \/ delivered
  /\ Fits(r, pc[r])'
  /\ pc'[r] = "done" => AnswerFits(r, answer[r])'
  /\ StagedInv'

LEMMA MovesKeep ==
  ASSUME UploadsInv, TypesInv', NEW r \in Requests, Moves(r)
  PROVE  UploadsInv'
<1>1. TypesInv /\ Legal /\ session'.mode = session.mode
  BY DEF UploadsInv, Moves
<1>2. ASSUME NEW q \in Requests
      PROVE  Fits(q, pc[q])'
  <2>1. CASE q = r
    BY <2>1 DEF Moves
  <2>2. CASE q # r
    <3>1. Fits(q, pc[q]) /\ pc'[q] = pc[q]
      BY <2>2 DEF UploadsInv, PlacesInv, Moves, Alone
    <3>2. pc[q] \in Working => session.state \in {"finalizing"} \cup Ended
      BY <3>1 DEF Fits
    <3>3. pc[q] \in Working => session'.state \in {"finalizing"} \cup Ended
      BY <1>1, <3>2, LegalStates DEF UploadsInv
    <3>4. pc[q] \in {"cleanup", "untrack"} => session'.state = session.state
      BY <1>1, <3>1, LegalStates DEF UploadsInv, Fits
    <3>5. pc[q] \in Checked /\ session'.state = "finalizing"
            => session.state = "finalizing" /\ session'.staging = session.staging
      BY <1>1, <3>2, LegalStates DEF Moves, Working, Ended
    <3> QED
      BY <3>1, <3>3, <3>4, <3>5
         DEF Fits, Moves, Alone, Legal, Multipart, Asks
  <2> QED BY <2>1, <2>2
<1>3. \A q \in Requests : (pc[q] = "done" => AnswerFits(q, answer[q]))'
  <2> SUFFICES ASSUME NEW q \in Requests, pc'[q] = "done", q # r
               PROVE  AnswerFits(q, answer[q])'
    BY DEF Moves
  <2>1. AnswerFits(q, answer[q]) /\ answer'[q] = answer[q] /\ request' = request
    BY DEF Moves, Alone, UploadsInv
  <2>2. session.state = "aborted" => session'.state = "aborted"
    BY <1>1, LegalStates DEF Ended
  <2> QED BY <2>1, <2>2 DEF Moves, Legal, AnswerFits, Completing, Asks
<1>4. BlobInv'
  <2>1. blob \in Requests => session.state = "committed"
    BY DEF UploadsInv, BlobInv, VersionInv, RowInv
  <2> QED BY <2>1 DEF Moves, UploadsInv, BlobInv, Multipart
<1>5. VersionInv'
  BY DEF Moves, UploadsInv, VersionInv
<1> QED BY <1>2, <1>3, <1>4, <1>5 DEF Moves, UploadsInv, PlacesInv

(* The row is alike for everything that the invariant asks of it.          *)
Alike ==
  /\ session'.state = session.state /\ session'.mode = session.mode
  /\ session'.staging = session.staging /\ session'.hash = session.hash
  /\ session'.result = session.result
  /\ session'.completeKey = session.completeKey

(* A request that is not over, or has nothing staged.                      *)
Free(r) == ~At(r, {"done", "dead", "discardLost"}) \/ ~Asks(r, {"content"})

LEMMA StagedStays ==
  ASSUME UploadsInv, NEW r \in Requests, Free(r), Alone(r), objects' = objects,
         session'.mode = session.mode, session'.staging = session.staging
  PROVE  StagedInv'
<1> SUFFICES ASSUME session.mode = "r2", session.staging \in Requests
             PROVE  Staged(session.staging)'
  BY DEF StagedInv
<1>1. Staged(session.staging) /\ session.staging # r
  BY DEF UploadsInv, StagedInv, Staged, Free, At, Told
<1> QED BY <1>1 DEF Staged, Alone, Told, At, Asks

LEMMA AlikeMoves ==
  ASSUME UploadsInv, NEW r \in Requests, Alone(r), Alike, Free(r),
         UNCHANGED <<blob, head, objects, delivered>>,
         session'.published = session.published \/ delivered,
         Fits(r, pc[r])', pc'[r] = "done" => AnswerFits(r, answer[r])'
  PROVE  Moves(r)
<1>1. Legal /\ RowInv'
  BY DEF Alike, Legal, UploadsInv, RowInv, Multipart
<1>2. StagedInv'
  BY StagedStays DEF Alike
<1> QED BY <1>1, <1>2 DEF Moves, Alike

LEMMA FitsDone ==
  ASSUME NEW r, NEW place \in {"done", "dead", "idle"}
  PROVE  Fits(r, place) /\ Fits(r, place)'
BY DEF Fits, Staging, InParts, Working, Known, Checked

LEMMA LeaveAlone ==
  ASSUME TypesInv, NEW r \in Requests, NEW place \in {"done", "dead"}, NEW told,
         NEW s, NEW c, Leave(r, place, told, s, c), UNCHANGED request
  PROVE  Alone(r) /\ pc'[r] = place /\ answer'[r] = told
BY DEF Leave, Alone, TypesInv, UploadsTypeOK

LEMMA GotoAlone ==
  ASSUME TypesInv, NEW r \in Requests, NEW place, Goto(r, place),
         UNCHANGED request
  PROVE  Alone(r) /\ pc'[r] = place /\ answer'[r] = answer[r]
BY DEF Goto, Alone, TypesInv, UploadsTypeOK

LEMMA ForgetAlike ==
  ASSUME TypesInv, NEW r \in Requests, session' = Forget(r, session)
  PROVE  Alike /\ session'.published = session.published
BY TypedRow, ForgetType DEF Alike

LEMMA ReplyMoves ==
  ASSUME UploadsInv, NEW r \in Requests, NEW told, Reply(r, told), Free(r),
         AnswerFits(r, told)
  PROVE  Moves(r)
<1>1. Alone(r) /\ pc'[r] = "done" /\ answer'[r] = told
  BY LeaveAlone DEF Reply, UploadsInv
<1>2. Alike /\ session'.published = session.published
  BY ForgetAlike DEF Reply, Leave, UploadsInv
<1>3. AnswerFits(r, answer[r])' /\ Fits(r, pc[r])'
  BY <1>1, <1>2, FitsDone DEF AnswerFits, Alone, Alike, Completing, Asks
<1> QED BY <1>1, <1>2, <1>3, AlikeMoves DEF Reply, bucket

(* Any answer but an outcome, or the outcome in the row, is true.          *)
LEMMA PlainAnswer ==
  ASSUME UploadsInv, NEW r \in Requests,
         NEW told \in {"open", "accepted", "expired", "refused", "none",
                       session.result}
  PROVE  AnswerFits(r, told)
BY DEF UploadsInv, RowInv, AnswerFits, Results

LEMMA SameRow ==
  session' = session => Alike /\ session'.published = session.published
BY DEF Alike

LEMMA ProceedMoves ==
  ASSUME UploadsInv, NEW r \in Requests, NEW place, Proceed(r, place), Free(r),
         place # "done", Fits(r, place)
  PROVE  Moves(r)
<1>1. Alone(r) /\ pc'[r] = place
  BY GotoAlone DEF Proceed, UploadsInv
<1>2. Alike /\ session'.published = session.published
  BY SameRow DEF Proceed, rows
<1>3. Fits(r, pc[r])'
  BY <1>1 DEF Proceed, rows, bucket, Fits, Alone, Asks, Multipart
<1> QED BY <1>1, <1>2, <1>3, AlikeMoves DEF Proceed, rows, bucket

LEMMA FitsPlain ==
  ASSUME NEW r, NEW place \in {"check", "insert", "raced", "claim",
                               "insertClaim", "uploadPart", "recordPart",
                               "releasePart", "acquire", "reread",
                               "releaseStale", "abort", "unaborted"}
  PROVE  Fits(r, place) /\ Fits(r, place)'
BY DEF Fits, Staging, InParts, Working, Known, Checked

LEMMA FitsAt ==
  ASSUME UploadsInv, NEW r \in Requests
  PROVE  Fits(r, pc[r])
BY DEF UploadsInv, PlacesInv

(* A row that is not over has no outcome.                                  *)
LEMMA Undecided ==
  ASSUME UploadsInv, session.state \notin {"committed", "aborted", "stale"}
  PROVE  session.result = "none" /\ session.completeKey.op # "abort"
BY TypedRow DEF UploadsInv, RowInv, Session, Results

LEMMA EnsureMoves ==
  ASSUME UploadsInv, NEW r \in Requests, NEW onward, Ensure(r, onward),
         Free(r), onward => Moves(r)
  PROVE  Moves(r)
<1>1. Multipart => Fits(r, "mint")
  BY DEF Fits, Staging, InParts, Working, Known, Checked
<1>2. AnswerFits(r, "refused")
  BY PlainAnswer
<1> QED BY <1>1, <1>2, ReplyMoves, ProceedMoves DEF Ensure, Multipart

LEMMA FreePlaces ==
  ASSUME NEW r, pc[r] \notin {"done", "dead", "discardLost"}
  PROVE  Free(r)
BY DEF Free, At

LEMMA CreateMoves ==
  ASSUME UploadsInv, NEW r \in Requests, CreateStep(r)
  PROVE  Moves(r)
<1> USE FreePlaces
<1>1. AnswerFits(r, "open") /\ AnswerFits(r, "refused")
  BY PlainAnswer
<1>2. CASE Create(r)
  BY <1>1, <1>2, EnsureMoves, ReplyMoves, ProceedMoves, FitsPlain DEF Create
<1>3. CASE CheckHead(r)
  BY <1>1, <1>3, ReplyMoves, ProceedMoves, FitsPlain DEF CheckHead
<1>4. CASE Insert(r)
  <2>1. CASE Proceed(r, "raced") \/ Reply(r, "refused")
    BY <1>1, <1>4, <2>1, ReplyMoves, ProceedMoves, FitsPlain DEF Insert
  <2>2. CASE ~(Proceed(r, "raced") \/ Reply(r, "refused"))
    <3>1. /\ session.state = "none" /\ session' = Opened(session)
          /\ Goto(r, "raced") /\ Free(r)
          /\ UNCHANGED <<blob, head, delivered, objects, request>>
      BY <1>4, <2>2 DEF Insert, bucket
    <3>2. Alone(r) /\ pc'[r] = "raced"
      BY <3>1, GotoAlone DEF UploadsInv
    <3>3. /\ session'.state = "open" /\ session'.mode = session.mode
          /\ session'.staging = session.staging /\ session'.hash = session.hash
          /\ session'.result = session.result
          /\ session'.completeKey = session.completeKey
          /\ session'.published = session.published
      BY <3>1, TypedRow DEF Opened, Session, UploadsInv
    <3>4. Legal
      BY <3>1, <3>3 DEF Legal, AllowedTransitions, States
    <3>5. RowInv'
      BY <3>1, <3>3, Undecided DEF RowInv, UploadsInv, Multipart
    <3>6. StagedInv'
      BY <3>1, <3>2, <3>3, StagedStays
    <3>7. Fits(r, pc[r])'
      BY <3>2, FitsPlain
    <3> QED
      BY <3>1, <3>2, <3>3, <3>4, <3>5, <3>6, <3>7 DEF Moves
  <2> QED BY <2>1, <2>2
<1>5. CASE ReadCreated(r)
  BY <1>1, <1>5, EnsureMoves, ReplyMoves DEF ReadCreated
<1>6. CASE Mint(r)
  <2>1. Alone(r) /\ pc'[r] = "bind" /\ Free(r)
    BY <1>6, GotoAlone DEF Mint, UploadsInv
  <2>2. Alike /\ session'.published = session.published
    BY <1>6, SameRow DEF Mint, rows
  <2>3. Multipart
    BY <1>6, FitsAt DEF Mint, Fits, InParts
  <2>4. Fits(r, pc[r])'
    BY <2>1, <2>2, <2>3
       DEF Fits, Staging, InParts, Working, Known, Checked, Alike, Multipart
  <2> QED BY <1>6, <2>1, <2>2, <2>4, AlikeMoves DEF Mint, rows
<1>7. CASE Bind(r)
  <2>1. Multipart /\ Free(r)
    BY <1>7, FitsAt DEF Bind, Fits, InParts
  <2>2. CASE Bindable
    <3>1. Alone(r) /\ pc'[r] = "unbind"
      BY <1>7, <2>2, GotoAlone DEF Bind, Update, UploadsInv
    <3>2. /\ session'.state = "open" /\ session'.mode = session.mode
          /\ session'.hash = session.hash /\ session'.result = session.result
          /\ session'.completeKey = session.completeKey
          /\ session'.published = session.published
      BY <1>7, <2>2, TypedRow
         DEF Bind, Update, Bindable, Bound, Session, UploadsInv
    <3>3. Legal /\ RowInv' /\ StagedInv'
      BY <2>1, <2>2, <3>2
         DEF Legal, RowInv, StagedInv, UploadsInv, Multipart, Bindable
    <3>4. Fits(r, pc[r])'
      BY <2>1, <3>1, <3>2
         DEF Fits, Staging, InParts, Working, Known, Checked, Multipart
    <3> QED
      BY <1>7, <2>2, <3>1, <3>2, <3>3, <3>4
         DEF Moves, Bind, Update, Bindable, bucket
  <2>3. CASE ~Bindable
    <3>1. Fits(r, "unbind")
      BY <2>1 DEF Fits, Staging, InParts, Working, Known, Checked
    <3> QED BY <1>7, <2>1, <2>3, <3>1, ProceedMoves DEF Bind
  <2> QED BY <2>2, <2>3
<1>8. CASE Unbind(r)
  <2>1. Free(r) /\ UNCHANGED <<blob, head, objects, delivered, request>>
    BY <1>8 DEF Unbind
  <2>2. CASE Goto(r, "claim") /\ session' = session
    <3>1. Alone(r) /\ pc'[r] = "claim"
      BY <2>1, <2>2, GotoAlone DEF UploadsInv
    <3> QED BY <2>1, <2>2, <3>1, SameRow, FitsPlain, AlikeMoves
  <2>3. ASSUME NEW told \in {"refused", "open"},
               Leave(r, "done", told, session, claims)
        PROVE  Moves(r)
    <3>1. Alone(r) /\ pc'[r] = "done" /\ answer'[r] = told
      BY <2>1, <2>3, LeaveAlone DEF UploadsInv
    <3>2. Alike /\ session'.published = session.published
      BY <2>3, ForgetAlike DEF Leave, UploadsInv
    <3>3. AnswerFits(r, answer[r])'
      BY <3>1 DEF AnswerFits, Results
    <3> QED BY <2>1, <3>1, <3>2, <3>3, FitsDone, AlikeMoves
  <2> QED BY <1>8, <2>2, <2>3 DEF Unbind
<1> QED BY <1>2, <1>3, <1>4, <1>5, <1>6, <1>7, <1>8 DEF CreateStep

-----------------------------------------------------------------------------
(* Steps that write to R2.                                                 *)

LEMMA ObjectsKeep ==
  ASSUME UploadsInv, TypesInv', NEW r \in Requests, Alone(r), Alike,
         UNCHANGED <<blob, head, delivered>>,
         session'.published = session.published,
         ~Multipart => \A q \in Requests \ {r} : objects'[q] = objects[q],
         Multipart /\ session.state \in {"finalizing", "committed"}
           /\ objects[session.staging] = Declared
           => objects'[session.staging] = Declared,
         StagedInv', Fits(r, pc[r])', pc'[r] = "done" => AnswerFits(r, answer[r])'
  PROVE  UploadsInv' /\ Legal
<1>1. Legal /\ RowInv' /\ VersionInv'
  BY DEF Alike, Legal, UploadsInv, RowInv, VersionInv, Multipart
<1>2. ASSUME NEW q \in Requests
      PROVE  Fits(q, pc[q])'
  <2>1. CASE q = r
    BY <2>1
  <2>2. CASE q # r
    <3>1. Fits(q, pc[q]) /\ pc'[q] = pc[q] /\ request' = request
      BY <2>2 DEF UploadsInv, PlacesInv, Alone
    <3>2. ~Multipart => objects'[q] = objects[q]
      BY <2>2
    <3> QED BY <3>1, <3>2 DEF Fits, Alike, Multipart, Asks
  <2> QED BY <2>1, <2>2
<1>3. \A q \in Requests : (pc[q] = "done" => AnswerFits(q, answer[q]))'
  BY DEF UploadsInv, AnswerFits, Alike, Alone, Completing, Asks
<1>4. BlobInv'
  <2>1. blob \in Requests => session.state = "committed"
    BY DEF UploadsInv, BlobInv, VersionInv, RowInv
  <2> QED BY <2>1 DEF UploadsInv, BlobInv, Alike, Multipart
<1> QED BY <1>1, <1>2, <1>3, <1>4 DEF UploadsInv, PlacesInv

LEMMA StageKeeps ==
  ASSUME UploadsInv, TypesInv', NEW r \in Requests, Stage(r)
  PROVE  UploadsInv' /\ Legal
<1> DEFINE place == IF request[r].bytes = Declared THEN "record" ELSE "discard"
<1>1. Alone(r) /\ pc'[r] = place /\ Free(r)
  BY GotoAlone, FreePlaces DEF Stage, UploadsInv
<1>2. Alike /\ session'.published = session.published
        /\ UNCHANGED <<blob, head, delivered>>
  BY SameRow DEF Stage, rows
<1>3. \A q \in Requests \ {r} : objects'[q] = objects[q]
  BY DEF Stage, UploadsInv, TypesInv, UploadsTypeOK
<1>4. Asks(r, {"content"}) /\ ~Multipart
  BY FitsAt DEF Stage, Fits, Staging
<1>5. session.mode = "r2" /\ session.staging \in Requests
        => session.staging # r
  BY DEF Stage, UploadsInv, StagedInv, Staged, At, Told
<1>6. StagedInv'
  BY <1>1, <1>2, <1>3, <1>5
     DEF UploadsInv, StagedInv, Staged, Alone, Alike, Asks, At, Told
<1>7. session.mode = "r2" => objects'[r] = request[r].bytes
  BY DEF Stage, UploadsInv, TypesInv, UploadsTypeOK
<1>8. Fits(r, pc[r])'
  BY <1>1, <1>2, <1>4, <1>7
     DEF Fits, Staging, InParts, Working, Known, Checked, Alike, Multipart,
         Alone, Asks
<1> QED BY <1>1, <1>2, <1>3, <1>4, <1>6, <1>8, ObjectsKeep

LEMMA DiscardKeeps ==
  ASSUME UploadsInv, TypesInv', NEW r \in Requests, Discard(r)
  PROVE  UploadsInv' /\ Legal
<1>1. /\ Alone(r) /\ Alike /\ session'.published = session.published
      /\ pc[r] = "discard" => pc'[r] = "failOpen"
      /\ pc[r] = "discardLost" => pc'[r] = "done" /\ answer'[r] = "refused"
  BY GotoAlone, LeaveAlone, SameRow, ForgetAlike DEF Discard, Leave, UploadsInv
<1>2. UNCHANGED <<blob, head, delivered, request>>
  BY DEF Discard
<1>3. \A q \in Requests \ {r} : objects'[q] = objects[q]
  BY DEF Discard, UploadsInv, TypesInv, UploadsTypeOK
<1>4. Asks(r, {"content"}) /\ ~Multipart
  BY FitsAt DEF Discard, Fits, Staging
<1>5. StagedInv'
  <2> SUFFICES ASSUME session.mode = "r2", session.staging \in Requests
               PROVE  Staged(session.staging)'
    BY <1>1 DEF StagedInv, Alike
  <2>1. Staged(session.staging) /\ session'.staging = session.staging
    BY <1>1 DEF UploadsInv, StagedInv, Alike
  <2>2. CASE session.staging = r
    BY <1>1, <1>4, <2>1, <2>2 DEF Staged, Discard, At, Told, Asks
  <2>3. CASE session.staging # r
    BY <1>1, <1>3, <2>1, <2>3 DEF Staged, Alone, At, Told, Asks
  <2> QED BY <2>2, <2>3
<1>6. Fits(r, pc[r])'
  BY <1>1, <1>2, <1>4
     DEF Discard, Fits, Staging, InParts, Working, Known, Checked, Alike,
         Multipart, Asks
<1>7. pc'[r] = "done" => AnswerFits(r, answer[r])'
  BY <1>1 DEF Discard, AnswerFits, Results
<1> QED BY <1>1, <1>2, <1>3, <1>4, <1>5, <1>6, <1>7, ObjectsKeep

(* R2 completes the upload only once, and only what holds the declared     *)
(* bytes is taken for them.                                                *)
LEMMA AssembleKeeps ==
  ASSUME UploadsInv, TypesInv', NEW r \in Requests, Assemble(r)
  PROVE  (UploadsInv' /\ Legal) \/ Moves(r)
<1>1. Multipart /\ Free(r) /\ session.state \in {"finalizing"} \cup Ended
  BY FitsAt, FreePlaces DEF Assemble, Fits, InParts, Working
<1>2. Fits(r, "assembled") /\ Fits(r, "missing")
  BY <1>1 DEF Fits, Staging, InParts, Working, Known, Checked
<1>3. CASE Proceed(r, "assembled") \/ Proceed(r, "missing")
  BY <1>1, <1>2, <1>3, ProceedMoves
<1>4. CASE ~(Proceed(r, "assembled") \/ Proceed(r, "missing"))
  <2>1. /\ objects[session.staging] = NoBytes
        /\ Goto(r, "assembled")
        /\ UNCHANGED <<rows, request>>
    BY <1>4 DEF Assemble
  <2>2. Alone(r) /\ pc'[r] = "assembled"
    BY <2>1, GotoAlone DEF UploadsInv
  <2>3. Alike /\ session'.published = session.published
    BY <2>1, SameRow DEF rows
  <2>4. objects[session.staging] # Declared
    BY <2>1, UploadsAssumption
  <2>5. StagedInv'
    BY <1>1, <2>3 DEF StagedInv, Alike, Multipart
  <2>6. Fits(r, pc[r])'
    BY <1>1, <2>2, <2>3
       DEF Fits, Staging, InParts, Working, Known, Checked, Alike, Multipart
  <2> QED
    BY <1>1, <2>1, <2>2, <2>3, <2>4, <2>5, <2>6, ObjectsKeep DEF rows
<1> QED BY <1>3, <1>4

(* What is cleaned up is over, and not committed.                          *)
LEMMA CleanupKeeps ==
  ASSUME UploadsInv, TypesInv', NEW r \in Requests, Cleanup(r)
  PROVE  (UploadsInv' /\ Legal) \/ Moves(r)
<1>1. /\ Free(r) /\ session.state \in Ended
      /\ Asks(r, {"abort"}) => session.state = "aborted"
  BY FitsAt, FreePlaces DEF Cleanup, Fits
<1>2. CASE Reply(r, AfterCleanup(r))
  <2>1. AnswerFits(r, AfterCleanup(r))
    BY <1>1 DEF AnswerFits, AfterCleanup, Completing, Asks, Results
  <2> QED BY <1>1, <1>2, <2>1, ReplyMoves
<1>3. CASE ~Reply(r, AfterCleanup(r))
  <2>1. /\ Cleanable /\ Goto(r, "untrack")
        /\ UNCHANGED <<rows, request>>
    BY <1>3 DEF Cleanup
  <2>2. Alone(r) /\ pc'[r] = "untrack"
    BY <2>1, GotoAlone DEF UploadsInv
  <2>3. Alike /\ session'.published = session.published
    BY <2>1, SameRow DEF rows
  <2>4. Multipart /\ session.state \notin {"finalizing", "committed"}
    BY <1>1, <2>1 DEF Cleanable, Multipart, Ended
  <2>5. StagedInv'
    BY <2>3, <2>4 DEF StagedInv, Alike, Multipart
  <2>6. Fits(r, pc[r])'
    BY <1>1, <2>1, <2>2, <2>3
       DEF Fits, Staging, InParts, Working, Known, Checked, Alike, Asks
  <2> QED
    BY <2>1, <2>2, <2>3, <2>4, <2>5, <2>6, ObjectsKeep DEF rows
<1> QED BY <1>2, <1>3

-----------------------------------------------------------------------------
(* Steps that move the row.                                                *)

(* The session ends, other than with a version.                            *)
LEMMA EndingMoves ==
  ASSUME UploadsInv, NEW r \in Requests, Alone(r), Free(r),
         UNCHANGED <<blob, head, objects, delivered>>,
         session'.state \in Ended,
         session'.state \in AllowedTransitions[session.state],
         session'.mode = session.mode, session'.staging = session.staging,
         session'.hash = session.hash, session'.published = session.published,
         session'.result # "committed",
         session'.result = "none" \/
           session'.state = IF session'.result = "unchanged" THEN "committed"
                            ELSE session'.result,
         \/ session'.completeKey = session.completeKey
         \/ session'.state = "aborted",
         Fits(r, pc[r])', pc'[r] = "done" => AnswerFits(r, answer[r])'
  PROVE  Moves(r)
<1>1. session.state \in {"open", "uploaded", "finalizing"}
  BY TypedRow DEF UploadsInv, Session, States, Ended, AllowedTransitions
<1>2. session.result = "none" /\ session.completeKey.op # "abort"
  BY <1>1, Undecided
<1>3. session'.state \in {"committed", "stale"} => session.state = "finalizing"
  BY <1>1 DEF AllowedTransitions, States
<1>4. Legal
  BY <1>2 DEF Legal
<1>5. RowInv'
  BY <1>1, <1>2, <1>3 DEF UploadsInv, RowInv, Multipart, Ended
<1>6. StagedInv'
  BY StagedStays
<1> QED BY <1>2, <1>4, <1>5, <1>6 DEF Moves

(* The row s is the session's, ended so.                                   *)
Ends(s, state, result) ==
  /\ RowTypeOK(s)
  /\ s.state = state /\ s.result = result /\ s.mode = session.mode
  /\ s.staging = session.staging /\ s.hash = session.hash
  /\ s.completeKey = session.completeKey /\ s.published = session.published

LEMMA FinishedRow ==
  ASSUME UploadsInv, NEW state \in Ended, NEW result \in Results
  PROVE  Ends(Finished(session, state, result), state, result)
BY TypedRow, EndedType DEF UploadsInv, Session, Finished, Ends

(* A row that ended, as its owner leaves it.                               *)
LEMMA FinishMoves ==
  ASSUME UploadsInv, NEW r \in Requests, Free(r), NEW told, NEW s,
         NEW state \in Ended, NEW result \in Results, Ends(s, state, result),
         state \in AllowedTransitions[session.state],
         Leave(r, "done", told, s, claims),
         UNCHANGED <<blob, head, objects, delivered, request>>,
         result # "committed",
         result = "none" \/
           state = IF result = "unchanged" THEN "committed" ELSE result,
         told = result \/ told = "refused"
  PROVE  Moves(r)
<1>1. Alone(r) /\ pc'[r] = "done" /\ answer'[r] = told
  BY LeaveAlone DEF UploadsInv
<1>2. session' = Forget(r, s)
  BY DEF Leave
<1>3. /\ session'.state = state /\ session'.result = result
      /\ session'.mode = session.mode /\ session'.staging = session.staging
      /\ session'.hash = session.hash
      /\ session'.completeKey = session.completeKey
      /\ session'.published = session.published
  BY <1>2, ForgetType DEF Ends
<1>4. Fits(r, pc[r])' /\ AnswerFits(r, answer[r])'
  BY <1>1, <1>3, FitsDone DEF AnswerFits, Results, Ended
<1> QED BY <1>1, <1>3, <1>4, EndingMoves

(* The row learns of the bytes that r has staged.                          *)
LEMMA RecordedMoves ==
  ASSUME UploadsInv, NEW r \in Requests, pc[r] = "record", Alone(r),
         session.state = "open",
         session' = Recorded(r) \/ session' = Forget(r, Recorded(r)),
         UNCHANGED <<blob, head, objects, delivered>>,
         pc'[r] = "discardLost" \/ (pc'[r] = "done" /\ answer'[r] = "accepted")
  PROVE  Moves(r)
<1>1. RowTypeOK(Recorded(r))
  BY RecordedType DEF UploadsInv
<1>2. LET s == Recorded(r) IN
      /\ s.state = "uploaded" /\ s.mode = session.mode /\ s.staging = r
      /\ s.hash = Declared /\ s.result = session.result
      /\ s.completeKey = session.completeKey /\ s.published = session.published
  BY TypedRow DEF UploadsInv, Session, Recorded
<1>3. /\ session'.state = "uploaded" /\ session'.mode = session.mode
      /\ session'.staging = r /\ session'.hash = Declared
      /\ session'.result = session.result
      /\ session'.completeKey = session.completeKey
      /\ session'.published = session.published
  BY <1>1, <1>2, ForgetType
<1>4. /\ Asks(r, {"content"}) /\ ~Multipart
      /\ session.mode = "r2" => objects[r] = Declared
  BY FitsAt DEF Fits, Staging
<1>5. session.result = "none" /\ session.completeKey.op # "abort"
  BY Undecided
<1>6. Legal /\ RowInv'
  BY <1>3, <1>5 DEF Legal, AllowedTransitions, States, RowInv
<1>7. StagedInv'
  BY <1>3, <1>4 DEF StagedInv, Staged, Alone, Asks, At
<1>8. Fits(r, pc[r])'
  BY <1>3, <1>4
     DEF Fits, Staging, InParts, Working, Known, Checked, Alone, Multipart, Asks
<1>9. pc'[r] = "done" => AnswerFits(r, answer[r])'
  BY DEF AnswerFits, Results
<1> QED BY <1>3, <1>6, <1>7, <1>8, <1>9 DEF Moves

LEMMA ContentMoves ==
  ASSUME UploadsInv, TypesInv', NEW r \in Requests, ContentStep(r)
  PROVE  Moves(r) \/ (UploadsInv' /\ Legal)
<1>1. AnswerFits(r, "accepted") /\ AnswerFits(r, "refused")
        /\ AnswerFits(r, "expired")
  BY PlainAnswer
<1>2. CASE Content(r)
  <2>1. Free(r) /\ Fits(r, "expire")
    BY <1>2, FreePlaces
       DEF Content, Fits, Staging, InParts, Working, Known, Checked, Asks
  <2>2. ~Multipart => Fits(r, "stage")
    BY <1>2 DEF Content, Fits, Staging, InParts, Working, Known, Checked
  <2> QED
    BY <1>1, <1>2, <2>1, <2>2, ReplyMoves, ProceedMoves
       DEF Content, Multipart
<1>3. CASE Stage(r) \/ Discard(r)
  BY <1>3, StageKeeps, DiscardKeeps
<1>4. CASE Record(r)
  <2>1. CASE session.state = "open"
    <3>1. Alone(r) /\ pc'[r] = "done" /\ answer'[r] = "accepted"
      BY <1>4, <2>1, LeaveAlone DEF Record, UploadsInv
    <3> QED
      BY <1>4, <2>1, <3>1, RecordedMoves DEF Record, Leave, bucket
  <2>2. CASE session.state # "open"
    <3>1. Free(r) /\ Fits(r, "discard")
      BY <1>4, FreePlaces, FitsAt
         DEF Record, Fits, Staging, InParts, Working, Known, Checked
    <3> QED BY <1>4, <2>2, <3>1, ProceedMoves DEF Record
  <2> QED BY <2>1, <2>2
<1>5. CASE FailOpen(r)
  <2>1. Free(r)
    BY <1>5, FreePlaces DEF FailOpen
  <2>2. CASE session.state = "open"
    <3>1. "failed" \in AllowedTransitions[session.state]
      BY <2>2 DEF AllowedTransitions, States
    <3>2. Ends(Finished(session, "failed", "none"), "failed", "none")
            /\ "failed" \in Ended /\ "none" \in Results
      BY FinishedRow DEF Ended, Results
    <3> QED
      BY <1>5, <2>1, <2>2, <3>1, <3>2, FinishMoves DEF FailOpen, bucket
  <2>3. CASE session.state # "open"
    BY <1>1, <1>5, <2>1, <2>3, ReplyMoves DEF FailOpen, Reply
  <2> QED BY <2>2, <2>3
<1>6. CASE Expire(r)
  <2>1. Free(r) /\ ~Asks(r, {"abort"})
    BY <1>6, FreePlaces, FitsAt DEF Expire, Fits
  <2>2. CASE Expirable /\ NoClaims
    <3> DEFINE place == IF session.mode = "multipart" /\ ~Asks(r, {"content"})
                        THEN "cleanup" ELSE "expire"
    <3>1. Alone(r) /\ pc'[r] = place
      BY <1>6, <2>2, GotoAlone DEF Expire, Update, UploadsInv
    <3>2. /\ session'.state = "expired" /\ session'.result = "none"
          /\ session'.mode = session.mode /\ session'.staging = session.staging
          /\ session'.hash = session.hash
          /\ session'.completeKey = session.completeKey
          /\ session'.published = session.published
      BY <1>6, <2>2, FinishedRow DEF Expire, Update, Ends, Ended, Results
    <3>3. session'.state \in Ended
            /\ session'.state \in AllowedTransitions[session.state]
      BY <2>2, <3>2 DEF Expirable, AllowedTransitions, States, Ended
    <3>4. Fits(r, pc[r])'
      BY <2>1, <3>1, <3>2
         DEF Fits, Staging, InParts, Working, Known, Checked, Alone, Asks, Ended
    <3> QED
      BY <1>6, <2>1, <2>2, <3>1, <3>2, <3>3, <3>4, EndingMoves
         DEF Expire, Update, bucket
  <2>3. CASE ~(Expirable /\ NoClaims)
    BY <1>1, <1>6, <2>1, <2>3, ReplyMoves DEF Expire
  <2> QED BY <2>2, <2>3
<1> QED BY <1>2, <1>3, <1>4, <1>5, <1>6 DEF ContentStep

(* The row is the same; parts, claims and pieces are free to change.       *)
LEMMA SameRowMoves ==
  ASSUME UploadsInv, NEW r \in Requests, NEW place, Goto(r, place),
         place # "done", Fits(r, place), Free(r),
         UNCHANGED <<session, blob, head, objects, delivered, request>>
  PROVE  Moves(r)
<1>1. Alone(r) /\ pc'[r] = place
  BY GotoAlone DEF UploadsInv
<1>2. Alike /\ session'.published = session.published
  BY SameRow
<1>3. Fits(r, pc[r])'
  BY <1>1 DEF Fits, Alone, Asks, Multipart
<1> QED BY <1>1, <1>2, <1>3, AlikeMoves

LEMMA SameRowEnds ==
  ASSUME UploadsInv, NEW r \in Requests, NEW told, NEW c,
         NEW place \in {"done", "dead"},
         Leave(r, place, told, session, c), AnswerFits(r, told), Free(r),
         UNCHANGED <<blob, head, objects, delivered, request>>
  PROVE  Moves(r)
<1>1. Alone(r) /\ pc'[r] = place /\ answer'[r] = told
  BY LeaveAlone DEF UploadsInv
<1>2. Alike /\ session'.published = session.published
  BY ForgetAlike DEF Leave, UploadsInv
<1>3. AnswerFits(r, answer[r])'
  BY <1>1, <1>2 DEF AnswerFits, Alone, Alike, Completing, Asks
<1> QED BY <1>1, <1>2, <1>3, FitsDone, AlikeMoves

LEMMA PartMoves ==
  ASSUME UploadsInv, NEW r \in Requests, PartStep(r)
  PROVE  Moves(r)
<1>1. AnswerFits(r, "accepted") /\ AnswerFits(r, "refused")
  BY PlainAnswer
<1>2. Free(r)
  BY FreePlaces
     DEF PartStep, PartWrite, DropClaim, KeepClaim, InsertClaim, UploadPart,
         RecordPart, ReleasePart
<1>3. CASE PartWrite(r)
  <2>1. Fits(r, "expire")
    BY <1>3 DEF PartWrite, Fits, Staging, InParts, Working, Known, Checked, Asks
  <2> QED
    BY <1>1, <1>2, <1>3, <2>1, EnsureMoves, ReplyMoves, ProceedMoves, FitsPlain
       DEF PartWrite
<1>4. CASE DropClaim(r)
  BY <1>2, <1>4, SameRowMoves, FitsPlain DEF DropClaim, bucket
<1>5. CASE KeepClaim(r)
  BY <1>2, <1>5, ProceedMoves, FitsPlain DEF KeepClaim
<1>6. CASE InsertClaim(r)
  <2>1. CASE Reply(r, "refused")
    BY <1>1, <1>2, <2>1, ReplyMoves
  <2>2. CASE ~Reply(r, "refused")
    BY <1>2, <1>6, <2>2, SameRowMoves, FitsPlain DEF InsertClaim, bucket
  <2> QED BY <2>1, <2>2
<1>7. CASE UploadPart(r)
  BY <1>2, <1>7, SameRowMoves, FitsPlain DEF UploadPart, rows
<1>8. CASE RecordPart(r)
  BY <1>1, <1>2, <1>8, SameRowEnds DEF RecordPart, bucket
<1>9. CASE ReleasePart(r)
  BY <1>1, <1>2, <1>9, SameRowEnds DEF ReleasePart, bucket
<1> QED
  BY <1>3, <1>4, <1>5, <1>6, <1>7, <1>8, <1>9 DEF PartStep

-----------------------------------------------------------------------------
(* A completion.                                                           *)

LEMMA ReplayMoves ==
  ASSUME UploadsInv, NEW r \in Requests, NEW op, NEW onward, Free(r),
         Replay(r, op, onward),
         Agrees(session.completeKey, Fingerprint(op, Key(r))) /\ onward
           => Moves(r)
  PROVE  Moves(r)
BY PlainAnswer, ReplyMoves DEF Replay

LEMMA DecidedFits ==
  ASSUME UploadsInv, NEW r, session.result # "none"
  PROVE  Fits(r, "publish")
BY TypedRow
   DEF UploadsInv, RowInv, Fits, Staging, InParts, Working, Known, Checked,
       Session, Results, Ended

(* A step that leaves the row, the objects and the version, but may read.  *)
LEMMA ReadMoves ==
  ASSUME UploadsInv, NEW r \in Requests, NEW place,
         pc' = [pc EXCEPT ![r] = place], UNCHANGED answer,
         place # "done", Fits(r, place), Free(r),
         UNCHANGED <<session, blob, head, objects, delivered, request>>
  PROVE  Moves(r)
<1>1. Alone(r) /\ pc'[r] = place
  BY DEF Alone, UploadsInv, TypesInv, UploadsTypeOK
<1>2. Alike /\ session'.published = session.published
  BY SameRow
<1>3. Fits(r, pc[r])'
  BY <1>1 DEF Fits, Alone, Asks, Multipart
<1> QED BY <1>1, <1>2, <1>3, AlikeMoves

LEMMA RenewMoves ==
  ASSUME UploadsInv, NEW r \in Requests, NEW from, NEW place,
         Renew(r, from, place), place # "done", Fits(r, place), Free(r)
  PROVE  Moves(r)
<1>1. AnswerFits(r, "refused")
  BY PlainAnswer
<1> QED
  BY <1>1, ReadMoves, ReplyMoves DEF Renew, Renewed, rows, bucket

LEMMA WorkMoves ==
  ASSUME UploadsInv, TypesInv', NEW r \in Requests, WorkStep(r)
  PROVE  Moves(r) \/ (UploadsInv' /\ Legal)
<1> USE DEF Staging, InParts, Working, Known, Checked
<1>1. AnswerFits(r, "open") /\ AnswerFits(r, "refused")
  BY PlainAnswer
<1>2. CASE Complete(r)
  <2>1. Free(r) /\ Fits(r, "expire")
    BY <1>2, FreePlaces DEF Complete, Fits, Completing, Asks
  <2>2. CASE Ensure(r, Reply(r, "open"))
    BY <1>1, <2>1, <2>2, EnsureMoves, ReplyMoves
  <2>3. CASE session.result # "none"
             /\ Replay(r, "complete", Proceed(r, "publish"))
    BY <2>1, <2>3, DecidedFits, ReplayMoves, ProceedMoves
  <2>4. CASE Proceed(r, "expire") \/ Reply(r, "refused")
    BY <1>1, <2>1, <2>4, ProceedMoves, ReplyMoves
  <2>5. CASE /\ pc' = [pc EXCEPT ![r] = IF Multipart THEN "list" ELSE "acquire"]
             /\ UNCHANGED <<answer, manifest, rows, bucket, clocks, request>>
    <3>1. Fits(r, IF Multipart THEN "list" ELSE "acquire")
      BY DEF Fits
    <3> QED BY <2>1, <2>5, <3>1, ReadMoves DEF rows, bucket
  <2> QED
    BY <1>2, <2>2, <2>3, <2>4, <2>5 DEF Complete, Multipart
<1>3. CASE List(r)
  <2>1. Free(r) /\ Multipart
    BY <1>3, FreePlaces, FitsAt DEF List, Fits
  <2>2. Fits(r, "seal") /\ Fits(r, "acquire")
    BY <2>1 DEF Fits
  <2> QED
    BY <1>1, <1>3, <2>1, <2>2, ReplyMoves, ReadMoves DEF List, rows, bucket
<1>4. CASE Seal(r)
  <2>1. Free(r) /\ Multipart
    BY <1>4, FreePlaces, FitsAt DEF Seal, Fits
  <2>2. CASE Sealable
    <3>1. Alone(r) /\ pc'[r] = "acquire"
      BY <1>4, <2>2, GotoAlone DEF Seal, Update, UploadsInv
    <3>2. /\ session'.state = "uploaded" /\ session'.mode = session.mode
          /\ session'.staging = session.staging /\ session'.hash = session.hash
          /\ session'.result = session.result
          /\ session'.completeKey = session.completeKey
          /\ session'.published = session.published
      BY <1>4, <2>2, TypedRow DEF Seal, Update, Session, UploadsInv
    <3>3. session.result = "none" /\ session.completeKey.op # "abort"
      BY <2>2, Undecided DEF Sealable
    <3>4. session.staging \in Requests
      BY <2>2, TypedRow DEF Sealable, Session, UploadsInv
    <3>5. Legal /\ RowInv'
      BY <2>1, <2>2, <3>2, <3>3, <3>4
         DEF Legal, AllowedTransitions, States, RowInv, Sealable, Multipart,
             UploadsInv
    <3>6. StagedInv'
      BY <2>1, <3>2 DEF StagedInv, Multipart
    <3>7. Fits(r, pc[r])'
      BY <3>1, FitsPlain
    <3> QED
      BY <1>4, <2>2, <3>1, <3>2, <3>5, <3>6, <3>7
         DEF Moves, Seal, Update, bucket
  <2>3. CASE ~Sealable
    BY <1>1, <1>4, <2>1, <2>3, ReplyMoves DEF Seal
  <2> QED BY <2>2, <2>3
<1>5. CASE Acquire(r)
  <2>1. Free(r)
    BY <1>5, FreePlaces DEF Acquire
  <2>2. CASE Proceed(r, "reread")
    BY <2>1, <2>2, FitsPlain, ProceedMoves
  <2>3. CASE ~Proceed(r, "reread")
    <3>1. LeaseTakeable(r) /\ session.state \in {"uploaded", "finalizing"}
      BY <1>5, <2>3 DEF Acquire, LeaseTakeable
    <3>2. Alone(r) /\ pc'[r] = FirstWork
      BY <1>5, <2>3
         DEF Acquire, Alone, UploadsInv, TypesInv, UploadsTypeOK
    <3>3. /\ session'.state = "finalizing" /\ session'.mode = session.mode
          /\ session'.staging = session.staging /\ session'.hash = session.hash
          /\ session'.result = session.result
          /\ session'.published = session.published
          /\ session'.completeKey \in {session.completeKey,
                                       Fingerprint("complete", Key(r))}
      BY <1>5, <2>3, TypedRow DEF Acquire, Session, UploadsInv
    <3>4. session.result = "none" /\ session.completeKey.op # "abort"
      BY <3>1, Undecided
    <3>5. session'.completeKey.op # "abort"
      BY <3>3, <3>4 DEF Fingerprint
    <3>6. Legal /\ RowInv'
      BY <3>1, <3>3, <3>4, <3>5
         DEF Legal, AllowedTransitions, States, RowInv, Multipart, UploadsInv
    <3>7. StagedInv'
      BY <1>5, <2>1, <2>3, <3>2, <3>3, StagedStays DEF Acquire, bucket
    <3>8. ~Multipart => session.hash = Declared
      BY <3>1 DEF UploadsInv, RowInv
    <3>9. Fits(r, pc[r])'
      BY <3>2, <3>3, <3>8, TypedRow
         DEF Fits, FirstWork, Multipart, Session, UploadsInv
    <3>10. FirstWork # "done"
      BY TypedRow DEF FirstWork, Session, UploadsInv
    <3> QED
      BY <1>5, <2>3, <3>2, <3>3, <3>4, <3>6, <3>7, <3>9, <3>10
         DEF Moves, Acquire, bucket
  <2> QED BY <2>2, <2>3
<1>6. CASE Reread(r)
  BY <1>1, <1>6, FreePlaces, DecidedFits, ReplyMoves, ReplayMoves, ProceedMoves
     DEF Reread
<1>7. CASE Assembling(r)
  <2>1. CASE Assemble(r)
    BY <2>1, AssembleKeeps
  <2>2. CASE AssembleFails(r)
    <3>1. Free(r) /\ Fits(r, "missing")
      BY <2>2, FreePlaces, FitsAt DEF AssembleFails, Fits
    <3> QED BY <2>2, <3>1, SameRowMoves DEF AssembleFails, rows, bucket
  <2>3. CASE Renew(r, "assembled", IF session.completed THEN "verify"
                                   ELSE "markCompleted")
    <3>1. Free(r) /\ Fits(r, "verify") /\ Fits(r, "markCompleted")
      BY <2>3, FreePlaces, FitsAt DEF Renew, Fits
    <3> QED BY <2>3, <3>1, RenewMoves
  <2>4. CASE Renew(r, "missing", "fail")
    <3>1. Free(r) /\ Fits(r, "fail")
      BY <2>4, FreePlaces, FitsAt DEF Renew, Fits
    <3> QED BY <2>4, <3>1, RenewMoves
  <2> QED BY <1>7, <2>1, <2>2, <2>3, <2>4 DEF Assembling
<1>8. CASE MarkCompleted(r)
  <2>1. Free(r) /\ Fits(r, "verify")
    BY <1>8, FreePlaces, FitsAt DEF MarkCompleted, Fits
  <2>2. CASE Holds(r)
    <3>1. Alone(r) /\ pc'[r] = "verify"
      BY <1>8, <2>2, GotoAlone DEF MarkCompleted, Update, UploadsInv
    <3>2. Alike /\ session'.published = session.published
      BY <1>8, <2>2, TypedRow
         DEF MarkCompleted, Update, Alike, Session, UploadsInv
    <3>3. Fits(r, pc[r])'
      BY <2>1, <3>1, <3>2 DEF Fits, Alike, Multipart
    <3> QED
      BY <1>8, <2>1, <2>2, <3>1, <3>2, <3>3, AlikeMoves
         DEF MarkCompleted, Update, bucket
  <2>3. CASE ~Holds(r)
    BY <1>1, <1>8, <2>1, <2>3, ReplyMoves DEF MarkCompleted
  <2> QED BY <2>2, <2>3
<1>9. CASE Verifying(r)
  <2>1. CASE Verify(r)
    <3>1. Free(r) /\ Fits(r, "missing") /\ Fits(r, "mismatched")
      BY <2>1, FreePlaces, FitsAt DEF Verify, Fits
    <3>2. objects[session.staging] = Declared => Fits(r, "verified")
      BY <2>1, FitsAt DEF Verify, Fits
    <3> QED BY <2>1, <3>1, <3>2, ProceedMoves DEF Verify
  <2>2. CASE Renew(r, "verified", "markVerified")
    <3>1. Free(r) /\ Fits(r, "markVerified")
      BY <2>2, FreePlaces, FitsAt DEF Renew, Fits
    <3> QED BY <2>2, <3>1, RenewMoves
  <2>3. CASE Renew(r, "mismatched", "fail")
    <3>1. Free(r) /\ Fits(r, "fail")
      BY <2>3, FreePlaces, FitsAt DEF Renew, Fits
    <3> QED BY <2>3, <3>1, RenewMoves
  <2> QED BY <1>9, <2>1, <2>2, <2>3 DEF Verifying
<1>10. CASE MarkVerified(r)
  <2>1. Free(r)
    BY <1>10, FreePlaces DEF MarkVerified
  <2>2. CASE Holds(r)
    <3>1. Alone(r) /\ pc'[r] = "stat"
      BY <1>10, <2>2, GotoAlone DEF MarkVerified, Update, UploadsInv
    <3>2. /\ session'.state = session.state /\ session'.mode = session.mode
          /\ session'.staging = session.staging /\ session'.hash = Declared
          /\ session'.result = session.result
          /\ session'.completeKey = session.completeKey
          /\ session'.published = session.published
      BY <1>10, <2>2, TypedRow DEF MarkVerified, Update, Session, UploadsInv
    <3>3. Legal /\ RowInv'
      BY <3>2 DEF Legal, RowInv, UploadsInv, Multipart
    <3>4. StagedInv'
      BY <1>10, <2>1, <2>2, <3>1, <3>2, StagedStays
         DEF MarkVerified, Update, bucket
    <3>5. Fits(r, pc[r])'
      BY <1>10, <2>2, <3>1, <3>2, FitsAt
         DEF MarkVerified, Update, Fits, Multipart, bucket
    <3> QED
      BY <1>10, <2>2, <3>1, <3>2, <3>3, <3>4, <3>5
         DEF Moves, MarkVerified, Update, bucket
  <2>3. CASE ~Holds(r)
    BY <1>1, <1>10, <2>1, <2>3, ReplyMoves DEF MarkVerified
  <2> QED BY <2>2, <2>3
<1>11. CASE Checking(r)
  <2>1. CASE Stat(r)
    <3>1. Free(r) /\ Fits(r, "unavailable") /\ Fits(r, "available")
      BY <2>1, FreePlaces, FitsAt DEF Stat, Fits
    <3> QED BY <2>1, <3>1, ProceedMoves DEF Stat
  <2>2. CASE Renew(r, "unavailable", "decline")
    <3>1. Free(r) /\ Fits(r, "decline")
      BY <2>2, FreePlaces, FitsAt DEF Renew, Fits
    <3> QED BY <2>2, <3>1, RenewMoves
  <2>3. CASE Renew(r, "available", "unchanged")
    <3>1. Free(r) /\ Fits(r, "unchanged")
      BY <2>3, FreePlaces, FitsAt DEF Renew, Fits
    <3> QED BY <2>3, <3>1, RenewMoves
  <2> QED BY <1>11, <2>1, <2>2, <2>3 DEF Checking
<1> QED
  BY <1>2, <1>3, <1>4, <1>5, <1>6, <1>7, <1>8, <1>9, <1>10, <1>11 DEF WorkStep

-----------------------------------------------------------------------------
(* The end of a completion.                                                *)

LEMMA CommittedKeeps ==
  ASSUME UploadsInv, TypesInv', NEW r \in Requests, pc[r] = "commit",
         Committable(r), Committed, NEW place \in {"publish", "outcome"},
         Goto(r, place)
  PROVE  UploadsInv' /\ Legal
<1>1. Alone(r) /\ pc'[r] = place /\ UNCHANGED <<request, objects, delivered>>
  BY GotoAlone DEF Committed, UploadsInv, bucket
<1>2. /\ session'.state = "committed" /\ session'.result = "committed"
      /\ session'.mode = session.mode /\ session'.staging = session.staging
      /\ session'.hash = session.hash
      /\ session'.completeKey = session.completeKey
      /\ session'.published = session.published
  <2> DEFINE s == Finished(session, "committed", "committed")
  <2>1. Ends(s, "committed", "committed")
    BY FinishedRow DEF Ended, Results
  <2>2. session' = [s EXCEPT !.tracked = @ /\ blob # NoRequest]
    BY DEF Committed
  <2> HIDE DEF s
  <2> QED BY <2>1, <2>2 DEF Ends, RowTypeOK, Session
<1>3. session.state = "finalizing" /\ session.result = "none"
        /\ session.completeKey.op # "abort"
  BY Undecided DEF Committable, Fenced
<1>4. session.hash = Declared /\ session.staging \in Requests
        /\ (Multipart => objects[session.staging] = Declared)
  BY <1>3, FitsAt DEF Fits, Known, Checked, UploadsInv, RowInv
<1>5. Legal /\ RowInv' /\ StagedInv'
  <2>1. Legal /\ RowInv'
    BY <1>2, <1>3, <1>4 DEF Legal, AllowedTransitions, States, RowInv
  <2>2. Free(r)
    BY FreePlaces
  <2> QED BY <1>1, <1>2, <2>1, <2>2, StagedStays
<1>6. ASSUME NEW q \in Requests
      PROVE  Fits(q, pc[q])'
  <2>1. CASE q = r
    BY <1>1, <1>2, <2>1
       DEF Fits, Staging, InParts, Working, Known, Checked, Ended
  <2>2. CASE q # r
    <3>1. Fits(q, pc[q]) /\ pc'[q] = pc[q]
      BY <1>1, <2>2, FitsAt DEF Alone
    <3> QED BY <1>1, <1>2, <1>3, <3>1 DEF Fits, Multipart, Asks, Ended
  <2> QED BY <2>1, <2>2
<1>7. BlobInv'
  <2>1. blob \notin Requests
    BY <1>3 DEF UploadsInv, BlobInv, VersionInv
  <2>2. blob' = IF blob = NoRequest THEN session.staging ELSE blob
    BY DEF Committed
  <2>3. head'.written
    BY DEF Committed, UploadsInv, TypesInv, UploadsTypeOK
  <2> QED
    BY <1>1, <1>2, <1>4, <2>1, <2>2, <2>3, UploadsAssumption
       DEF BlobInv, Multipart
<1>8. VersionInv'
  <2>1. head'.written
    BY DEF Committed, UploadsInv, TypesInv, UploadsTypeOK
  <2> QED BY <1>1, <1>2, <2>1 DEF UploadsInv, VersionInv
<1>9. \A q \in Requests : (pc[q] = "done" => AnswerFits(q, answer[q]))'
  <2> SUFFICES ASSUME NEW q \in Requests, pc'[q] = "done"
               PROVE  AnswerFits(q, answer[q])'
    OBVIOUS
  <2>1. q # r /\ AnswerFits(q, answer[q]) /\ answer'[q] = answer[q]
    BY <1>1 DEF Alone, UploadsInv
  <2> QED
    BY <1>1, <1>2, <1>3, <2>1 DEF AnswerFits, Completing, Asks, Results
<1> QED BY <1>5, <1>6, <1>7, <1>8, <1>9 DEF UploadsInv, PlacesInv

LEMMA DeliverKeeps ==
  ASSUME UploadsInv, TypesInv', NEW r \in Requests, Deliver(r)
  PROVE  UploadsInv' /\ Legal
<1>1. Alone(r) /\ pc'[r] = "mark" /\ Free(r)
  BY GotoAlone, FreePlaces DEF Deliver, UploadsInv
<1>2. UNCHANGED <<session, blob, head, objects, request>> /\ delivered'
  BY DEF Deliver, bucket
<1>3. session.result = "committed" /\ session.state \in {"finalizing"} \cup Ended
  BY FitsAt DEF Deliver, Fits, Working
<1>4. ASSUME NEW q \in Requests
      PROVE  Fits(q, pc[q])'
  <2>1. CASE q = r
    BY <1>1, <1>2, <1>3, <2>1
       DEF Fits, Staging, InParts, Working, Known, Checked
  <2>2. CASE q # r
    BY <1>1, <1>2, <2>2, FitsAt DEF Fits, Alone, Multipart, Asks
  <2> QED BY <2>1, <2>2
<1>5. StagedInv'
  BY <1>1, <1>2, StagedStays
<1> QED
  BY <1>1, <1>2, <1>3, <1>4, <1>5
     DEF UploadsInv, PlacesInv, RowInv, BlobInv, VersionInv, AnswerFits, Alone,
         Completing, Asks, Multipart, Legal

(* An answer with which only the publication of the row changes.           *)
LEMMA PublicationEnds ==
  ASSUME UploadsInv, NEW r \in Requests, NEW told, NEW s, RowTypeOK(s),
         s.state = session.state, s.mode = session.mode,
         s.staging = session.staging, s.hash = session.hash,
         s.result = session.result, s.completeKey = session.completeKey,
         s.published = session.published \/ delivered,
         Leave(r, "done", told, s, claims), AnswerFits(r, told), Free(r),
         UNCHANGED <<blob, head, objects, delivered, request>>
  PROVE  Moves(r)
<1>1. Alone(r) /\ pc'[r] = "done" /\ answer'[r] = told
  BY LeaveAlone DEF UploadsInv
<1>2. Alike /\ session'.published = s.published
  BY ForgetType DEF Leave, Alike
<1>3. AnswerFits(r, answer[r])'
  BY <1>1, <1>2 DEF AnswerFits, Alone, Alike, Completing, Asks
<1> QED BY <1>1, <1>2, <1>3, FitsDone, AlikeMoves

LEMMA FinalMoves ==
  ASSUME UploadsInv, TypesInv', NEW r \in Requests, FinalStep(r)
  PROVE  Moves(r) \/ (UploadsInv' /\ Legal)
<1> USE DEF Staging, InParts, Working, Known, Checked
<1>1. AnswerFits(r, "refused") /\ AnswerFits(r, session.result)
  BY PlainAnswer
<1>2. Free(r)
  BY FreePlaces
     DEF FinalStep, FinalizeUnchanged, Commit, Outcome, Stale, Fail, Publish,
         Deliver, Mark, Unclaim
<1>3. CASE FinalizeUnchanged(r)
  <2>1. CASE Proceed(r, "commit")
    <3>1. Fits(r, "commit")
      BY <1>3, FitsAt DEF FinalizeUnchanged, Fits
    <3> QED BY <1>2, <2>1, <3>1, ProceedMoves
  <2>2. CASE ~Proceed(r, "commit")
    <3> DEFINE f == Finished(session, "committed", "unchanged")
               s == [f EXCEPT !.tracked = FALSE]
    <3>1. Ends(f, "committed", "unchanged")
      BY FinishedRow DEF Ended, Results
    <3> HIDE DEF f
    <3>2. Ends(s, "committed", "unchanged")
      BY <3>1 DEF Ends, RowTypeOK, Session
    <3>3. "committed" \in AllowedTransitions[session.state]
      BY <1>3, <2>2
         DEF FinalizeUnchanged, Fenced, AllowedTransitions, States
    <3>4. Leave(r, "done", "unchanged", s, claims)
      BY <1>3, <2>2 DEF FinalizeUnchanged, f
    <3>5. "committed" \in Ended /\ "unchanged" \in Results
      BY DEF Ended, Results
    <3> HIDE DEF s
    <3> QED
      BY <1>2, <1>3, <2>2, <3>2, <3>3, <3>4, <3>5, FinishMoves
         DEF FinalizeUnchanged, bucket
  <2> QED BY <2>1, <2>2
<1>4. CASE Commit(r)
  <2>1. CASE Committable(r)
    BY <1>4, <2>1, CommittedKeeps DEF Commit
  <2>2. CASE ~Committable(r)
    <3>1. Fits(r, "outcome")
      BY <1>4, FitsAt DEF Commit, Fits
    <3> QED BY <1>2, <1>4, <2>2, <3>1, ProceedMoves DEF Commit
  <2> QED BY <2>1, <2>2
<1>5. CASE Outcome(r)
  <2>1. Fits(r, "stale") /\ Fits(r, "decline")
    BY <1>5, FitsAt DEF Outcome, Fits
  <2> QED BY <1>2, <1>5, <2>1, ProceedMoves DEF Outcome
<1>6. CASE Stale(r)
  <2>1. CASE Fenced(r)
    <3>1. "stale" \in AllowedTransitions[session.state]
      BY <2>1 DEF Fenced, AllowedTransitions, States
    <3>2. Ends(Finished(session, "stale", "stale"), "stale", "stale")
            /\ "stale" \in Ended /\ "stale" \in Results
      BY FinishedRow DEF Ended, Results
    <3> QED
      BY <1>2, <1>6, <2>1, <3>1, <3>2, FinishMoves DEF Stale, bucket
  <2>2. CASE ~Fenced(r)
    BY <1>1, <1>2, <1>6, <2>2, ReplyMoves DEF Stale
  <2> QED BY <2>1, <2>2
<1>7. CASE Fail(r)
  <2>1. CASE Fenced(r) /\ (pc[r] = "decline" \/ ~lapsed)
    <3>1. "failed" \in AllowedTransitions[session.state]
      BY <2>1 DEF Fenced, AllowedTransitions, States
    <3>2. Ends(Finished(session, "failed", "none"), "failed", "none")
            /\ "failed" \in Ended /\ "none" \in Results
      BY FinishedRow DEF Ended, Results
    <3> QED
      BY <1>2, <1>7, <2>1, <3>1, <3>2, FinishMoves DEF Fail, bucket
  <2>2. CASE ~(Fenced(r) /\ (pc[r] = "decline" \/ ~lapsed))
    BY <1>1, <1>2, <1>7, <2>2, SameRowEnds DEF Fail, bucket
  <2> QED BY <2>1, <2>2
<1>8. CASE Publish(r)
  <2>1. CASE Reply(r, session.result)
    BY <1>1, <1>2, <2>1, ReplyMoves
  <2>2. CASE ~Reply(r, session.result)
    <3>1. Alone(r) /\ pc'[r] = "deliver"
      BY <1>8, <2>2, GotoAlone DEF Publish, UploadsInv
    <3>2. Alike /\ session'.published = session.published
      BY <1>8, <2>2, TypedRow DEF Publish, Alike, Session, UploadsInv
    <3>3. session.result = "committed"
            /\ session.state \in {"finalizing"} \cup Ended
      BY <1>8, <2>2, FitsAt DEF Publish, Fits
    <3>4. Fits(r, pc[r])'
      BY <3>1, <3>2, <3>3 DEF Fits, Alike
    <3> QED
      BY <1>2, <1>8, <2>2, <3>1, <3>2, <3>4, AlikeMoves DEF Publish, bucket
  <2> QED BY <2>1, <2>2
<1>9. CASE Deliver(r)
  BY <1>9, DeliverKeeps
<1>10. CASE Mark(r)
  <2>1. CASE Proceed(r, "unclaim")
    <3>1. Fits(r, "unclaim")
      BY <1>10, FitsAt DEF Mark, Fits
    <3> QED BY <1>2, <2>1, <3>1, ProceedMoves
  <2>2. CASE ~Proceed(r, "unclaim")
    <3> DEFINE s == [session EXCEPT !.published = TRUE, !.publisher = NoRequest]
    <3>1. RowTypeOK(s)
      BY PublicationType DEF Someone, UploadsInv
    <3>2. /\ s.state = session.state /\ s.mode = session.mode
          /\ s.staging = session.staging /\ s.hash = session.hash
          /\ s.result = session.result /\ s.completeKey = session.completeKey
      BY TypedRow DEF Session, UploadsInv
    <3>3. delivered
      BY <1>10, FitsAt DEF Mark, Fits
    <3>4. Leave(r, "done", session.result, s, claims)
      BY <1>10, <2>2 DEF Mark
    <3> HIDE DEF s
    <3> QED
      BY <1>1, <1>2, <1>10, <2>2, <3>1, <3>2, <3>3, <3>4, PublicationEnds
         DEF Mark, bucket
  <2> QED BY <2>1, <2>2
<1>11. CASE Unclaim(r)
  <2> DEFINE by == IF session.publisher = r /\ ~session.published THEN NoRequest
                   ELSE session.publisher
             s == [session EXCEPT !.publisher = by]
  <2>1. by \in Someone
    BY TypedRow DEF Session, Someone, UploadsInv
  <2>2. Leave(r, "done", "refused", s, claims)
    BY <1>11 DEF Unclaim
  <2> HIDE DEF by
  <2>3. RowTypeOK(s)
    BY <2>1, PublisherType DEF UploadsInv
  <2>4. /\ s.state = session.state /\ s.mode = session.mode
        /\ s.staging = session.staging /\ s.hash = session.hash
        /\ s.result = session.result /\ s.completeKey = session.completeKey
        /\ s.published = session.published
    BY TypedRow DEF Session, UploadsInv
  <2> HIDE DEF s
  <2> QED
    BY <1>1, <1>2, <1>11, <2>2, <2>3, <2>4, PublicationEnds DEF Unclaim, bucket
<1> QED
  BY <1>3, <1>4, <1>5, <1>6, <1>7, <1>8, <1>9, <1>10, <1>11 DEF FinalStep

-----------------------------------------------------------------------------
(* An abort, the sweep, and what happens to requests.                      *)

LEMMA SweepMoves ==
  ASSUME UploadsInv, NEW r \in Requests, Sweep(r)
  PROVE  Moves(r)
<1>1. Free(r) /\ Asks(r, {"sweep"})
  BY FreePlaces DEF Sweep
<1>2. PICK place \in {"cleanup", "done"} :
        /\ Goto(r, place)
        /\ place = "cleanup" =>
             session'.state \in {"aborted", "expired", "stale", "failed"}
  BY DEF Sweep
<1>3. Alone(r) /\ pc'[r] = place /\ session' = Swept(session)
        /\ UNCHANGED <<blob, head, objects, delivered>>
  BY <1>2, GotoAlone DEF Sweep, UploadsInv, bucket
<1>4. Fits(r, pc[r])'
  BY <1>1, <1>2, <1>3
     DEF Fits, Staging, InParts, Working, Known, Checked, Ended, Asks, Alone
<1>5. AnswerFits(r, answer[r])'
  BY <1>1, <1>3 DEF AnswerFits, Completing, Asks, Alone
<1>6. CASE Expirable /\ NoClaims /\ overdue
  <2>1. Ends(session', "expired", "none")
    BY <1>3, <1>6, FinishedRow DEF Swept, Ended, Results
  <2>2. "expired" \in Ended /\ "expired" \in AllowedTransitions[session.state]
    BY <1>6 DEF Expirable, AllowedTransitions, States, Ended
  <2> QED BY <1>1, <1>3, <1>4, <1>5, <2>1, <2>2, EndingMoves DEF Ends
<1>7. CASE ~(Expirable /\ NoClaims /\ overdue)
  <2>1. Alike /\ session'.published = session.published
    BY <1>3, <1>7, SameRow DEF Swept
  <2> QED BY <1>1, <1>3, <1>4, <1>5, <2>1, AlikeMoves
<1> QED BY <1>6, <1>7

LEMMA AbortMoves ==
  ASSUME UploadsInv, TypesInv', NEW r \in Requests, AbortStep(r)
  PROVE  Moves(r) \/ (UploadsInv' /\ Legal)
<1> USE DEF Staging, InParts, Working, Known, Checked
<1>1. AnswerFits(r, "refused") /\ AnswerFits(r, session.result)
  BY PlainAnswer
<1>2. Free(r)
  BY FreePlaces
     DEF AbortStep, Abort, ReleaseStale, TryAbort, Unaborted, Cleanup, Untrack,
         Sweep
<1>3. CASE Abort(r)
  <2>1. CASE Replay(r, "abort", Proceed(r, "cleanup"))
    <3>1. ASSUME Agrees(session.completeKey, Fingerprint("abort", Key(r)))
          PROVE  Fits(r, "cleanup")
      <4>1. session.state = "aborted"
        BY <3>1 DEF Agrees, Fingerprint, UploadsInv, RowInv
      <4> QED BY <4>1 DEF Fits, Ended
    <3> QED BY <1>2, <2>1, <3>1, ReplayMoves, ProceedMoves
  <2>2. CASE /\ pc' = [pc EXCEPT ![r] = "releaseStale"]
             /\ UNCHANGED <<answer, rows, bucket, request>>
    BY <1>2, <2>2, FitsPlain, ReadMoves DEF rows, bucket
  <2> QED BY <1>3, <2>1, <2>2 DEF Abort
<1>4. CASE ReleaseStale(r)
  BY <1>2, <1>4, FitsPlain, SameRowMoves DEF ReleaseStale, bucket
<1>5. CASE TryAbort(r)
  <2>1. CASE Proceed(r, "unaborted")
    BY <1>2, <2>1, FitsPlain, ProceedMoves
  <2>2. CASE ~Proceed(r, "unaborted")
    <3> DEFINE s == Finished(session, "aborted", "aborted")
    <3>1. Ends(s, "aborted", "aborted")
      BY FinishedRow DEF Ended, Results
    <3>2. session' = [s EXCEPT !.completeKey = Fingerprint("abort", Key(r))]
            /\ Alone(r) /\ pc'[r] = "cleanup"
            /\ UNCHANGED <<blob, head, objects, delivered>>
      BY <1>5, <2>2, GotoAlone DEF TryAbort, Update, UploadsInv, bucket
    <3> HIDE DEF s
    <3>3. /\ session'.state = "aborted" /\ session'.result = "aborted"
          /\ session'.mode = session.mode /\ session'.staging = session.staging
          /\ session'.hash = session.hash
          /\ session'.published = session.published
      BY <3>1, <3>2 DEF Ends, RowTypeOK, Session
    <3>4. "aborted" \in Ended /\ "aborted" \in AllowedTransitions[session.state]
      BY <1>5, <2>2
         DEF TryAbort, Abortable, AllowedTransitions, States, Ended
    <3>5. Fits(r, pc[r])'
      BY <3>2, <3>3, <3>4 DEF Fits
    <3> QED BY <1>2, <3>2, <3>3, <3>4, <3>5, EndingMoves
  <2> QED BY <2>1, <2>2
<1>6. CASE Unaborted(r)
  BY <1>1, <1>2, <1>6, ReplyMoves, ReplayMoves DEF Unaborted
<1>7. CASE Cleanup(r)
  BY <1>7, CleanupKeeps
<1>8. CASE Untrack(r)
  <2> DEFINE flag == /\ session.tracked
                     /\ session.state \in {"open", "uploaded", "finalizing",
                                           "committed"}
             s == [session EXCEPT !.tracked = flag]
  <2>1. flag \in BOOLEAN
    OBVIOUS
  <2>2. Leave(r, "done", AfterCleanup(r), s, claims)
    BY <1>8 DEF Untrack
  <2> HIDE DEF flag
  <2>3. RowTypeOK(s)
    BY <2>1, TypedRow DEF RowTypeOK, Session, UploadsInv
  <2>4. /\ s.state = session.state /\ s.mode = session.mode
        /\ s.staging = session.staging /\ s.hash = session.hash
        /\ s.result = session.result /\ s.completeKey = session.completeKey
        /\ s.published = session.published
    BY TypedRow DEF Session, UploadsInv
  <2>5. AnswerFits(r, AfterCleanup(r))
    BY <1>8, FitsAt
       DEF Untrack, Fits, AnswerFits, AfterCleanup, Completing, Asks, Results
  <2> HIDE DEF s
  <2> QED
    BY <1>2, <1>8, <2>2, <2>3, <2>4, <2>5, PublicationEnds DEF Untrack, bucket
<1>9. CASE Sweep(r)
  BY <1>9, SweepMoves
<1> QED
  BY <1>3, <1>4, <1>5, <1>6, <1>7, <1>8, <1>9 DEF AbortStep

LEMMA FailureMoves ==
  ASSUME UploadsInv, TypesInv', NEW r \in Requests, Failure(r)
  PROVE  Moves(r) \/ (UploadsInv' /\ Legal)
<1> USE DEF Staging, InParts, Working, Known, Checked
<1>1. CASE RecordFails(r)
  <2>1. Alone(r) /\ pc'[r] = "discardLost"
    BY <1>1, GotoAlone DEF RecordFails, UploadsInv
  <2>2. CASE session' = session
    <3>1. Free(r) /\ Fits(r, "discardLost")
      BY <1>1, FreePlaces, FitsAt DEF RecordFails, Fits
    <3> QED BY <1>1, <2>2, <3>1, SameRowMoves DEF RecordFails, bucket
  <2>3. CASE session' # session
    BY <1>1, <2>1, <2>3, RecordedMoves DEF RecordFails, bucket
  <2> QED BY <2>2, <2>3
<1>2. CASE PartFails(r)
  BY <1>2, FreePlaces, FitsPlain, SameRowMoves DEF PartFails, rows, bucket
<1>3. CASE AssembleFails(r)
  <2>1. Free(r) /\ Fits(r, "missing")
    BY <1>3, FreePlaces, FitsAt DEF AssembleFails, Fits
  <2> QED BY <1>3, <2>1, SameRowMoves DEF AssembleFails, rows, bucket
<1>4. CASE CommitFails(r)
  <2>1. CASE Committable(r) /\ Committed
    BY <1>4, <2>1, CommittedKeeps DEF CommitFails
  <2>2. CASE ~(Committable(r) /\ Committed)
    <3>1. Free(r) /\ Fits(r, "outcome")
      BY <1>4, FreePlaces, FitsAt DEF CommitFails, Fits
    <3> QED
      BY <1>4, <2>2, <3>1, SameRowMoves DEF CommitFails, rows, bucket
  <2> QED BY <2>1, <2>2
<1>5. CASE PublishFails(r)
  <2>1. Free(r) /\ Fits(r, "unclaim")
    BY <1>5, FreePlaces, FitsAt DEF PublishFails, Fits
  <2> QED BY <1>5, <2>1, SameRowMoves DEF PublishFails, rows, bucket
<1>6. CASE Crash(r)
  <2>1. CASE Free(r)
    BY <1>6, <2>1, PlainAnswer, SameRowEnds DEF Crash, bucket
  <2>2. CASE ~Free(r)
    <3>1. Alone(r) /\ pc'[r] = "dead"
      BY <1>6, LeaveAlone DEF Crash, UploadsInv
    <3>2. Alike /\ session'.published = session.published
            /\ UNCHANGED <<blob, head, objects, delivered>>
      BY <1>6, ForgetAlike DEF Crash, Leave, UploadsInv, bucket
    <3>3. Legal /\ RowInv'
      BY <3>2 DEF Alike, Legal, UploadsInv, RowInv, Multipart
    <3>4. StagedInv'
      <4> SUFFICES ASSUME session.mode = "r2", session.staging \in Requests
                   PROVE  Staged(session.staging)'
        BY <3>2 DEF StagedInv, Alike
      <4>1. Staged(session.staging) /\ session'.staging = session.staging
        BY <3>2 DEF UploadsInv, StagedInv, Alike
      <4> QED
        BY <1>6, <3>1, <3>2, <4>1
           DEF Staged, Crash, Busy, Alone, At, Told, Asks
    <3> QED
      BY <3>1, <3>2, <3>3, <3>4, FitsDone DEF Moves, Alike
  <2> QED BY <2>1, <2>2
<1> QED BY <1>1, <1>2, <1>3, <1>4, <1>5, <1>6 DEF Failure

LEMMA RequestMoves ==
  ASSUME UploadsInv, NEW r \in Requests, Heartbeat(r) \/ Retry(r)
  PROVE  Moves(r)
<1>1. CASE Heartbeat(r)
  <2>1. Free(r) /\ UNCHANGED <<rows, bucket, request, pc, answer>>
    BY <1>1, FreePlaces DEF Heartbeat, Renewed
  <2>2. Fits(r, pc[r])'
    BY <2>1, FitsAt DEF Fits, rows, bucket, Asks, Multipart
  <2> QED
    BY <1>1, <2>1, <2>2, SameRow, AlikeMoves DEF Alone, rows, bucket, Heartbeat
<1>2. CASE Retry(r)
  <2>1. Free(r) /\ pc'[r] = "idle" /\ Alone(r) /\ UNCHANGED <<rows, bucket>>
    BY <1>2
       DEF Retry, Free, Completing, Asks, Alone, UploadsInv, TypesInv,
           UploadsTypeOK
  <2> QED BY <2>1, FitsDone, SameRow, AlikeMoves DEF rows, bucket
<1> QED BY <1>1, <1>2

(* Time, and what others do, which is no version of the session.           *)
LEMMA OutsideKeeps ==
  ASSUME UploadsInv, TypesInv',
         Time \/ LeaseRunsOut \/ Others \/ UNCHANGED vars
  PROVE  UploadsInv' /\ Legal
<1>1. UNCHANGED <<session, delivered, objects, pc, answer, request>>
  BY DEF Time, LeaseRunsOut, Others, vars, rows, bucket, locals
<1>2. head'.written = head.written /\ (blob' = blob \/ (blob = NoRequest /\ blob' = Gone))
  BY DEF Time, LeaseRunsOut, Others, vars, rows, UploadsInv, TypesInv,
         UploadsTypeOK
<1>3. \A q \in Requests : Fits(q, pc[q])'
  BY <1>1 DEF UploadsInv, PlacesInv, Fits, Multipart, Asks
<1>4. StagedInv' /\ RowInv' /\ VersionInv' /\ Legal
  BY <1>1, <1>2
     DEF UploadsInv, StagedInv, Staged, RowInv, VersionInv, Legal, Multipart,
         Asks, At, Told
<1>5. BlobInv'
  BY <1>1, <1>2, UploadsAssumption DEF UploadsInv, BlobInv, Multipart
<1>6. \A q \in Requests : (pc[q] = "done" => AnswerFits(q, answer[q]))'
  BY <1>1 DEF UploadsInv, AnswerFits, Completing, Asks
<1> QED BY <1>3, <1>4, <1>5, <1>6 DEF UploadsInv, PlacesInv

LEMMA UploadsInductive ==
  ASSUME UploadsInv, [Next]_vars
  PROVE  UploadsInv' /\ Legal
<1>1. TypesInv'
  BY TypesInductive DEF UploadsInv
<1>2. ASSUME NEW r \in Requests, Step(r)
      PROVE  Moves(r) \/ (UploadsInv' /\ Legal)
  BY <1>1, <1>2, CreateMoves, ContentMoves, PartMoves, WorkMoves, FinalMoves,
     AbortMoves DEF Step
<1>3. ASSUME NEW r \in Requests, Moves(r)
      PROVE  UploadsInv' /\ Legal
  BY <1>1, <1>3, MovesKeep DEF Moves
<1> QED
  BY <1>1, <1>2, <1>3, FailureMoves, RequestMoves, OutsideKeeps DEF Next

LEMMA InitUploads ==
  ASSUME Init
  PROVE  UploadsInv
<1>1. TypesInv
  BY InitTypes
<1>2. PICK s \in Scenarios :
        /\ session = IF s.opener = NoRequest THEN Unopened(s.mode, s.skip)
                     ELSE Bound(Opened(Unopened(s.mode, s.skip)), s.opener)
        /\ pc = [r \in Requests |-> IF r = s.opener THEN "done" ELSE "idle"]
        /\ answer = [r \in Requests |-> IF r = s.opener THEN "open" ELSE "none"]
  BY DEF Init
<1>3. /\ session.state \in {"none", "open"} /\ session.hash = NoBytes
      /\ session.result = "none" /\ session.completeKey = NoFingerprint
      /\ session.published = FALSE
      /\ session.staging # NoRequest => Multipart
  BY <1>2 DEF Unopened, Opened, Bound, Multipart
<1>4. PlacesInv
  BY <1>2, FitsDone DEF PlacesInv
<1>5. RowInv /\ StagedInv
  BY <1>3, UploadsAssumption
     DEF RowInv, StagedInv, Multipart, NoFingerprint, Fingerprint
<1>6. BlobInv /\ VersionInv
  BY <1>3, UploadsAssumption DEF Init, BlobInv, VersionInv
<1>7. \A r \in Requests : pc[r] = "done" => AnswerFits(r, answer[r])
  BY <1>2 DEF AnswerFits, Results
<1> QED BY <1>1, <1>4, <1>5, <1>6, <1>7 DEF UploadsInv

LEMMA UploadsAlways == Spec => []UploadsInv /\ [][Legal]_vars
<1>1. Init => UploadsInv
  BY InitUploads
<1>2. UploadsInv /\ [Next]_vars => UploadsInv' /\ [Legal]_vars
  BY UploadsInductive
<1> QED BY <1>1, <1>2, PTL DEF Spec

(* Whoever comes late, no statement writes a state that the table of the   *)
(* core library does not allow, and a decided session keeps its result and *)
(* the fingerprint it answers to.                                          *)
THEOREM UploadTransitions == Spec => TransitionsAreLegal
BY UploadsAlways DEF TransitionsAreLegal, Legal

(* What completions and aborts were told is what became of the session,    *)
(* and events are delivered and marked for its version only.               *)
THEOREM UploadsTold == Spec => []ToldIsTrue
BY UploadsAlways, InvImpliesTold, PTL

(* The bytes of a committed version are the declared ones, and where the   *)
(* row of the blob says, whoever assembles, expires, aborts or cleans up   *)
(* meanwhile.                                                              *)
THEOREM UploadedBytes == Spec => []CommittedBytesAvailable
BY UploadsAlways, InvImpliesAvailable, PTL
=============================================================================
