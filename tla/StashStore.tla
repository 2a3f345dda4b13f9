----------------------------- MODULE StashStore -----------------------------
(***************************************************************************)
(* The write API of a stash: put, delete and rollback of one path, commits *)
(* of several paths and reverts of commits, as concurrent requests over    *)
(* the tables of StashTables.                                              *)
(*                                                                         *)
(* A request reads (stash, earlier answer under its key, head), refuses on *)
(* what it read, or submits one batch; when the batch loses it reads again *)
(* to say why.  Each read is a step of its own: the tables may change      *)
(* between any two of them.  A request that takes no further step is a     *)
(* worker that crashed or an answer that was lost, a client's retry is     *)
(* another request that makes the same call, and a batch whose call fails  *)
(* may or may not have been committed.                                     *)
(***************************************************************************)
EXTENDS StashTables

CONSTANTS
  Requests,     \* requests, each of which mints its own commit id
  NoRequest,
  MaxEntries,   \* MAX_COMMIT_ENTRIES
  Calls,        \* the calls a request may make: [Requests -> SUBSET Call]
  MaxLifecycle, \* bound: deletions and restorations of the stash
  MaxForeign,   \* bound: changes of other stashes
  MaxFaults,    \* bound: batches whose call fails
  LedgerExpires \* whether ledger rows may outlive their seven days

SingleCalls == {"put", "delete", "rollback"}

(* One call, as its validated request says it.                             *)
Call == [call : SingleCalls \cup {"commit", "revert"},
         entries : Seq(Entry), skip : BOOLEAN,
         since : Nat, whole : BOOLEAN, scope : SUBSET Paths,
         target : Requests \cup {NoRequest}, onto : {"commit", "head"},
         key : Keys \cup {NoKey}]

(* What the request schemas enforce before a handler runs.                 *)
WellFormed(c) ==
  /\ c.call = "revert" <=> c.entries = <<>>
  /\ c.call = "revert" <=> c.target # NoRequest
  /\ \A i \in DOMAIN c.entries : WellFormedEntry(c.entries[i])
  /\ Len(c.entries) <= MaxEntries
  /\ DistinctPaths(c.entries)
  /\ \A i, j \in DOMAIN c.entries :
       c.entries[i].op = "copy" => c.entries[i].fromPath # c.entries[j].path
  /\ c.scope # {} => ~c.whole
  /\ c.call \in SingleCalls =>
       /\ Len(c.entries) = 1
       /\ c.entries[1].op = c.call
       /\ ~c.whole /\ c.scope = {}

(* The request hash covers the whole call except its key.                  *)
Body(c) == [c EXCEPT !.key = NoKey]

ASSUME StoreAssumption ==
  /\ NoRequest \notin Requests
  /\ CommitIds = Requests
  /\ Calls \in [Requests -> SUBSET Call]
  /\ \A r \in Requests : \A c \in Calls[r] : WellFormed(c) /\ Body(c) \in Hashes
  /\ MaxEntries \in Nat \ {0}
  /\ MaxLifecycle \in Nat /\ MaxForeign \in Nat /\ MaxFaults \in Nat
  /\ LedgerExpires \in BOOLEAN

VARIABLES
  pc,        \* where each request is
  request,   \* the call of each request, NoRequest before it arrives
  entries,   \* the entries it will submit; a revert computes them
  seen,      \* the head version a lost rollback read
  answer,    \* what the client was told
  thrown,    \* requests whose batch call failed
  lifecycle, \* deletions and restorations so far
  foreign    \* changes of other stashes so far

control == <<pc, request, entries, seen, answer, thrown>>
vars == <<tables, control, lifecycle, foreign>>

Places == {"idle", "revert", "target", "heads", "live", "replay", "head",
           "source", "batch", "won", "relive", "rereplay", "rehead",
           "resource", "done"}

Codes == {"none", "ok", "unchanged", "not-found", "exists", "stale",
          "already-deleted", "version-not-found", "rollback-target-tombstone",
          "commit-conflict", "validation", "idempotency-key-reused",
          "internal"}

Answer == [code : Codes, effect : CommitIds \cup {NoRequest},
           replayed : BOOLEAN]

Refusal(code) == [code |-> code, effect |-> NoRequest, replayed |-> FALSE]
Success(c, again) == [code |-> "ok", effect |-> c, replayed |-> again]
Unanswered == Refusal("none")

Init ==
  /\ TablesInit
  /\ pc = [r \in Requests |-> "idle"]
  /\ request = [r \in Requests |-> NoRequest]
  /\ entries = [r \in Requests |-> <<>>]
  /\ seen = [r \in Requests |-> 0]
  /\ answer = [r \in Requests |-> Unanswered]
  /\ thrown = {}
  /\ lifecycle = 0
  /\ foreign = 0

-----------------------------------------------------------------------------
(* Helpers of the handlers.                                                *)

IsSingle(r) == request[r].call \in SingleCalls
IsRevert(r) == request[r].call = "revert"
TheEntry(r) == entries[r][1]
Hash(r) == Body(request[r])
Key(r) == request[r].key

Goto(r, place) ==
  /\ pc' = [pc EXCEPT ![r] = place]
  /\ UNCHANGED <<tables, request, entries, seen, answer, thrown, lifecycle, foreign>>

Reply(r, a) ==
  /\ pc' = [pc EXCEPT ![r] = "done"]
  /\ answer' = [answer EXCEPT ![r] = a]
  /\ UNCHANGED <<tables, request, entries, seen, thrown, lifecycle, foreign>>

(* The row an earlier request left under the key of r, if any.             *)
PriorWrites(r) == {row \in ledger : row.key = Key(r)}
PriorCommits(r) == {row \in commits : Key(r) # NoKey /\ row.key = Key(r)}

(* Mutant: an answer is replayed whatever the earlier request asked for.   *)
ReplayWriteUnhashed(r, row) ==
  LET rows == RowsAt(row.path, row.version) IN
  IF rows = {} THEN Refusal("internal")
  ELSE Success((CHOOSE v \in rows : TRUE).commit, TRUE)

(* replay() of writes.ts: the ledger names a version, the version answers. *)
ReplayWrite(r, row) ==
  IF row.hash # Hash(r) THEN Refusal("idempotency-key-reused")
  ELSE LET rows == RowsAt(row.path, row.version) IN
       IF rows = {} THEN Refusal("internal")
       ELSE Success((CHOOSE v \in rows : TRUE).commit, TRUE)

(* The paths of a commit in the order of its change ids.                   *)
PathOfChange(c, id) == (CHOOSE v \in RowsOf(c) : v.id = id).path

(* resultFromCommit(): the rows of a commit answer a request when they     *)
(* match, one by one, the entries that the request submits.                *)
Rebuilt(r, row) ==
  /\ Cardinality(RowsOf(row.id)) = row.count
  /\ Len(entries[r]) >= row.count
  /\ \A i \in 1..row.count :
       entries[r][i].path = PathOfChange(row.id, row.first + i - 1)

(* Mutant: likewise for commits.                                           *)
ReplayCommitUnhashed(r, row) == Success(row.id, TRUE)

(* replay() of commits.ts: rebuilt from the rows of the earlier commit.    *)
ReplayCommit(r, row) ==
  IF row.hash # Hash(r) THEN Refusal("idempotency-key-reused")
  ELSE IF Rebuilt(r, row) THEN Success(row.id, TRUE) ELSE Refusal("internal")

(* Mutant: a path that is deleted already does not stop a deletion.        *)
HeadRefusalOfVersion(e, head) ==
  CASE e.expected = 0 /\ head.version # 0 -> "exists"
    [] e.expected # 0 /\ head.version = 0 -> "not-found"
    [] e.expected # 0 /\ head.version \notin {0, e.expected} -> "stale"
    [] OTHER -> "none"

(* What a head says against a single-path write.                           *)
HeadRefusal(e, head) ==
  CASE e.expected = 0 /\ head.version # 0 -> "exists"
    [] e.expected # 0 /\ head.version = 0 -> "not-found"
    [] e.expected # 0 /\ head.version \notin {0, e.expected} -> "stale"
    [] e.op = "delete" /\ head.version = e.expected /\ head.deleted ->
         "already-deleted"
    [] OTHER -> "none"

SourceRefusal(e) ==
  CASE RowsAt(e.fromPath, e.fromVersion) = {} -> "version-not-found"
    [] ~Restorable(e.fromPath, e.fromVersion) /\
         RowsAt(e.fromPath, e.fromVersion) # {} -> "rollback-target-tombstone"
    [] OTHER -> "none"

(* entryConflicts() and conflictFailure(), over one snapshot query.        *)
Conflicts(e) ==
  \/ files[e.path].version # e.expected
  \/ e.op = "delete" /\ files[e.path].deleted
  \/ e.op \in {"copy", "rollback"} /\ ~Restorable(e.fromPath, e.fromVersion)

ConflictsOf(r) == {i \in DOMAIN entries[r] : Conflicts(entries[r][i])}

FenceMoved(c) ==
  \/ c.whole /\ ~IsNewestChange(c.since)
  \/ ChangedSince(c.since, c.scope)

MissingAlone(r) ==
  \E i \in ConflictsOf(r) :
    ConflictsOf(r) = {i} /\ files[entries[r][i].path].version = 0

CommitRefusal(r) ==
  IF FenceMoved(request[r]) THEN "stale"
  ELSE IF ConflictsOf(r) = {} THEN "none"
  ELSE IF MissingAlone(r) THEN "not-found" ELSE "commit-conflict"

(* skipIfUnchanged: the head already is what the put would write.          *)
AlreadyThere(r) ==
  /\ request[r].skip
  /\ LET head == files[TheEntry(r).path] IN
     head.version # 0 /\ ~head.deleted /\ head.content = TheEntry(r).content

-----------------------------------------------------------------------------
(* A request arrives; a revert first finds out what it has to undo.        *)

Arrive(r) ==
  /\ pc[r] = "idle"
  /\ \E c \in Calls[r] :
       /\ request' = [request EXCEPT ![r] = c]
       /\ entries' = [entries EXCEPT ![r] = c.entries]
       /\ pc' = [pc EXCEPT ![r] = IF c.call = "revert" THEN "revert" ELSE "live"]
  /\ UNCHANGED <<tables, seen, answer, thrown, lifecycle, foreign>>

CheckRevertLive(r) ==
  /\ pc[r] = "revert"
  /\ IF live THEN Goto(r, "target") ELSE Reply(r, Refusal("not-found"))

(* The sealed target and its rows, and the commit that is under the key    *)
(* already.  One step will do: a sealed commit stays, so the second read   *)
(* finds the target as the first one did.                                  *)
ReadTarget(r) ==
  /\ pc[r] = "target"
  /\ \/ ~Committed(request[r].target) /\ Reply(r, Refusal("not-found"))
     \/ /\ Committed(request[r].target)
        /\ PriorCommits(r) = {}
        /\ Goto(r, "heads")
     \/ /\ Committed(request[r].target)
        /\ \E row \in PriorCommits(r) :
             Reply(r, IF row.hash = Hash(r) THEN Success(row.id, TRUE)
                      ELSE Refusal("idempotency-key-reused"))

(* What undoing commit t means for one of its version rows.                *)
IsCreation(v) ==
  v.version = 1 \/ ContentAt(v.path, v.version - 1) = Tombstone

(* Mutant: a revert onto its commit takes the head for expected as well.   *)
UndoExpectsHead(r, v) ==
  IF files[v.path].version # 0 THEN files[v.path].version ELSE v.version

UndoExpects(r, v) ==
  IF request[r].onto = "head" /\ files[v.path].version # 0
  THEN files[v.path].version ELSE v.version

AlreadyUndone(r, v) ==
  /\ IsCreation(v)
  /\ files[v.path].deleted
  /\ request[r].onto = "head" \/ files[v.path].version = v.version

UndoEntry(r, v) ==
  [op |-> IF IsCreation(v) THEN "delete" ELSE "rollback",
   path |-> v.path, expected |-> UndoExpects(r, v), content |-> Tombstone,
   fromPath |-> v.path,
   fromVersion |-> IF IsCreation(v) THEN 0 ELSE v.version - 1]

(* The rows to undo, in the order of their change ids.                     *)
InChangeOrder(S) ==
  {f \in [1..Cardinality(S) -> S] : \A i, j \in 1..Cardinality(S) :
     i < j => f[i].id < f[j].id}

ReadHeads(r) ==
  /\ pc[r] = "heads"
  /\ LET undo == {v \in RowsOf(request[r].target) : ~AlreadyUndone(r, v)} IN
     \/ undo = {} /\ Reply(r, Refusal("validation"))
     \/ \E order \in InChangeOrder(undo) :
          /\ undo # {}
          /\ entries' = [entries EXCEPT ![r] =
                           [i \in DOMAIN order |-> UndoEntry(r, order[i])]]
          /\ pc' = [pc EXCEPT ![r] = "live"]
          /\ UNCHANGED <<tables, request, seen, answer, thrown, lifecycle, foreign>>

-----------------------------------------------------------------------------
(* The reads before the batch.                                             *)

CheckLive(r) ==
  /\ pc[r] = "live"
  /\ IF live THEN Goto(r, "replay") ELSE Reply(r, Refusal("not-found"))

(* The earlier answer under the key, or on to the place after it.          *)
AnswerFromPrior(r, next) ==
  IF IsSingle(r)
  THEN \/ PriorWrites(r) = {} /\ Goto(r, next)
       \/ \E row \in PriorWrites(r) : Reply(r, ReplayWrite(r, row))
  ELSE \/ PriorCommits(r) = {} /\ Goto(r, next)
       \/ \E row \in PriorCommits(r) : Reply(r, ReplayCommit(r, row))

CheckReplay(r) == pc[r] = "replay" /\ AnswerFromPrior(r, "head")

CheckHead(r) ==
  /\ pc[r] = "head"
  /\ IsSingle(r)
  /\ LET refusal == HeadRefusal(TheEntry(r), files[TheEntry(r).path]) IN
     IF refusal # "none" THEN Reply(r, Refusal(refusal))
     ELSE IF AlreadyThere(r) THEN Reply(r, Refusal("unchanged"))
     ELSE Goto(r, IF TheEntry(r).op = "rollback" THEN "source" ELSE "batch")

CheckSource(r) ==
  /\ pc[r] = "source"
  /\ IF SourceRefusal(TheEntry(r)) # "none"
     THEN Reply(r, Refusal(SourceRefusal(TheEntry(r))))
     ELSE Goto(r, "batch")

CheckSnapshot(r) ==
  /\ pc[r] = "head"
  /\ ~IsSingle(r)
  /\ IF CommitRefusal(r) # "none" THEN Reply(r, Refusal(CommitRefusal(r)))
     ELSE Goto(r, "batch")

-----------------------------------------------------------------------------
(* The batch, and what is read after it.                                   *)

(* Mutant: a revert does not hand its key on to the commit it creates.     *)
BatchOfUnkeyed(r) ==
  [id |-> r, entries |-> entries[r], since |-> request[r].since,
   whole |-> request[r].whole, scope |-> request[r].scope,
   ledgerKey |-> IF IsSingle(r) THEN Key(r) ELSE NoKey,
   commitKey |-> NoKey, hash |-> Hash(r)]

BatchOf(r) ==
  [id |-> r, entries |-> entries[r], since |-> request[r].since,
   whole |-> request[r].whole, scope |-> request[r].scope,
   ledgerKey |-> IF IsSingle(r) THEN Key(r) ELSE NoKey,
   commitKey |-> IF IsSingle(r) THEN NoKey ELSE Key(r), hash |-> Hash(r)]

Win(r) ==
  /\ pc[r] = "batch"
  /\ CommitBatch(BatchOf(r))
  /\ pc' = [pc EXCEPT ![r] = "won"]
  /\ UNCHANGED <<request, entries, seen, answer, thrown, lifecycle, foreign>>

Lose(r) ==
  /\ pc[r] = "batch"
  /\ ~Wins(BatchOf(r))
  /\ Goto(r, "relive")

(* The call of the batch fails: the handler cannot know whether the        *)
(* transaction was committed, and goes on as if it had lost.               *)
Throw(r) ==
  /\ pc[r] = "batch"
  /\ Cardinality(thrown) < MaxFaults
  /\ CommitBatch(BatchOf(r)) \/ UNCHANGED tables
  /\ thrown' = thrown \cup {r}
  /\ pc' = [pc EXCEPT ![r] = "relive"]
  /\ UNCHANGED <<request, entries, seen, answer, lifecycle, foreign>>

(* The winner reads back its own rows: committedChangeId() takes one row,  *)
(* a commit is rebuilt like an earlier one.                                *)
ReadsBack(r) ==
  IF IsSingle(r) THEN Cardinality(RowsOf(r)) = 1
  ELSE \E row \in commits : row.id = r /\ Rebuilt(r, row)

Respond(r) ==
  /\ pc[r] = "won"
  /\ Reply(r, IF ReadsBack(r) THEN Success(r, FALSE) ELSE Refusal("internal"))

(* Mutant: the earlier answer is not looked for once the batch has failed. *)
RecheckLiveOnly(r) ==
  /\ pc[r] = "relive"
  /\ IF live THEN Goto(r, "rehead") ELSE Reply(r, Refusal("not-found"))

RecheckLive(r) ==
  /\ pc[r] = "relive"
  /\ IF live THEN Goto(r, "rereplay") ELSE Reply(r, Refusal("not-found"))

RecheckReplay(r) == pc[r] = "rereplay" /\ AnswerFromPrior(r, "rehead")

OrInternal(code) == IF code = "none" THEN "internal" ELSE code

ClassifyWrite(r) ==
  /\ pc[r] = "rehead"
  /\ IsSingle(r)
  /\ LET e == TheEntry(r)
         head == files[e.path]
     IN IF e.op # "rollback" \/ head.version = 0
        THEN Reply(r, Refusal(OrInternal(HeadRefusal(e, head))))
        ELSE /\ pc' = [pc EXCEPT ![r] = "resource"]
             /\ seen' = [seen EXCEPT ![r] = head.version]
             /\ UNCHANGED <<tables, request, entries, answer, thrown, lifecycle,
                            foreign>>

(* A lost rollback looks at its target before it compares the head.        *)
ClassifyRollback(r) ==
  /\ pc[r] = "resource"
  /\ LET e == TheEntry(r) IN
     Reply(r, Refusal(IF SourceRefusal(e) # "none" THEN SourceRefusal(e)
                      ELSE IF seen[r] = e.expected THEN "internal" ELSE "stale"))

ClassifyCommit(r) ==
  /\ pc[r] = "rehead"
  /\ ~IsSingle(r)
  /\ Reply(r, Refusal(OrInternal(CommitRefusal(r))))

-----------------------------------------------------------------------------
(* The rest of the service.                                                *)

Lifecycle ==
  /\ lifecycle < MaxLifecycle
  /\ lifecycle' = lifecycle + 1
  /\ DeleteStash \/ RestoreStash
  /\ UNCHANGED <<control, foreign>>

Foreign ==
  /\ foreign < MaxForeign
  /\ foreign' = foreign + 1
  /\ OtherStashWrites
  /\ UNCHANGED <<control, lifecycle>>

CollectLedger ==
  LedgerExpires /\ ExpireLedger /\ UNCHANGED <<control, lifecycle, foreign>>

Step(r) ==
  \/ Arrive(r) \/ CheckRevertLive(r) \/ ReadTarget(r) \/ ReadHeads(r)
  \/ CheckLive(r) \/ CheckReplay(r) \/ CheckHead(r) \/ CheckSource(r)
  \/ CheckSnapshot(r) \/ Win(r) \/ Lose(r) \/ Throw(r) \/ Respond(r)
  \/ RecheckLive(r) \/ RecheckReplay(r) \/ ClassifyWrite(r)
  \/ ClassifyRollback(r) \/ ClassifyCommit(r)

Next ==
  \/ \E r \in Requests : Step(r)
  \/ Lifecycle \/ Foreign \/ CollectLedger

Spec == Init /\ [][Next]_vars

-----------------------------------------------------------------------------
(* Properties.                                                             *)

Answered(r) == pc[r] = "done"

TypeOK ==
  /\ TablesTypeOK
  /\ pc \in [Requests -> Places]
  /\ request \in [Requests -> Call \cup {NoRequest}]
  /\ entries \in [Requests -> Seq(Entry)]
  /\ seen \in [Requests -> Nat]
  /\ answer \in [Requests -> Answer]
  /\ thrown \subseteq Requests
  /\ lifecycle \in Nat
  /\ foreign \in Nat

(* Where a request that has entries to submit may be.                      *)
Submitting == {"live", "replay", "head", "source", "batch", "won", "relive",
               "rereplay", "rehead", "resource"}

(* Where a request that has committed may be.                              *)
Settled == {"won", "relive", "rereplay", "rehead", "resource", "done"}

(* What the promises of the tables rest on: every batch is well formed, is *)
(* submitted once, and under the fresh commit id of its request.           *)
RequestsInv ==
  /\ \A r \in Requests : pc[r] # "idle" => request[r] \in Calls[r]
  /\ \A r \in Requests : DistinctPaths(entries[r])
  /\ \A r \in Requests : \A i \in DOMAIN entries[r] :
       WellFormedEntry(entries[r][i])
  /\ \A r \in Requests : pc[r] \in Submitting => entries[r] # <<>>
  /\ \A c \in commits : pc[c.id] \in Settled
  /\ \A v, w \in versions : v.commit = w.commit /\ v.path = w.path => v = w
  /\ IsFiniteSet(versions)

StoreInv == TypeOK /\ RequestsInv /\ TablesInv

(* What a request submits is what it was asked to, unless it reverts.      *)
CallsInv ==
  \A r \in Requests :
    /\ pc[r] \in {"revert", "target", "heads"} => IsRevert(r)
    /\ pc[r] # "idle" /\ ~IsRevert(r) => entries[r] = request[r].entries

(* What a commit row says of the request behind it.                        *)
EffectOf(c) ==
  LET r == c.id IN
  /\ c.key = IF IsSingle(r) THEN NoKey ELSE Key(r)
  /\ c.hash = Hash(r)
  /\ c.count = Len(entries[r])
  /\ \A i \in DOMAIN entries[r] : \E v \in RowsOf(r) :
       /\ v.id = c.first + i - 1
       /\ v.path = entries[r][i].path
       /\ v.version = NextVersion(entries[r][i])
  /\ IsSingle(r) /\ Key(r) # NoKey =>
       LedgerExpires \/ \E row \in ledger : row.key = Key(r)

EffectsInv == \A c \in commits : EffectOf(c)

(* A client is never told something the tables do not say.  A success      *)
(* names a commit that is sealed and that carries out exactly the call of  *)
(* the request, its own or, when replayed, one made under the same key; a  *)
(* request told anything else left no version behind, whatever raced it,   *)
(* unless the call of its batch failed.                                    *)
AnswersMatchEffects ==
  \A r \in Requests : Answered(r) =>
    IF answer[r].code = "ok"
    THEN LET c == answer[r].effect IN
         /\ Committed(c)
         /\ Hash(c) = Hash(r)
         /\ IF answer[r].replayed THEN Key(c) = Key(r) /\ Key(r) # NoKey
            ELSE c = r
    ELSE r \in thrown \/ ~Committed(r)

(* A request whose batch was committed although the call failed still gets *)
(* its own success by its key, unless the stash was deleted meanwhile or   *)
(* its ledger row expired.                                                 *)
AmbiguousBatchRecovers ==
  \A r \in thrown : Answered(r) /\ Committed(r) /\ Key(r) # NoKey =>
    \/ answer[r] = Success(r, TRUE)
    \/ lifecycle > 0 /\ answer[r].code = "not-found"
    \/ LedgerExpires /\ IsSingle(r)

(* The idempotency row of a key leads to the version its call wrote.       *)
LedgerTruthful ==
  \A row \in ledger : \E v \in RowsAt(row.path, row.version) :
    /\ Key(v.commit) = row.key
    /\ Hash(v.commit) = row.hash

(* A key has one effect among commits and reverts, for ever, and one among *)
(* single-path writes while its ledger row lives, however the requests     *)
(* interleave.                                                             *)
OneEffectPerKey ==
  \A r, s \in Requests :
    /\ Committed(r) /\ Committed(s) /\ r # s
    /\ Key(r) = Key(s) /\ Key(r) # NoKey
    => \/ IsSingle(r) # IsSingle(s)
       \/ LedgerExpires /\ IsSingle(r)

(* The same call under the same key is applied at most once even when its  *)
(* ledger row has expired between the attempts.                            *)
RepeatAppliesOnce ==
  \A r, s \in Requests :
    /\ Committed(r) /\ Committed(s) /\ Key(r) # NoKey
    /\ request[r] = request[s]
    => r = s

(* A commit with expectedLastChangeId saw every change before it: nothing  *)
(* in its scope came between the change it names and its own first one.    *)
FencesHeld ==
  \A c \in commits :
    LET between(v) == request[c.id].since < v.id /\ v.id < c.first IN
    /\ request[c.id].whole =>
         /\ \A v \in versions : ~between(v)
         /\ request[c.id].since = 0
              \/ \E v \in versions : v.id = request[c.id].since
    /\ \A v \in versions : v.path \in request[c.id].scope => ~between(v)

(* The batch and the reads around it agree: a request is told that it lost *)
(* to nobody only if its own batch call failed, or the stash was deleted   *)
(* and restored, or its key lost its ledger row, while it was at work; or  *)
(* if it repeats a revert, whose entries may not be those of the first.    *)
InternalIsExplained ==
  \A r \in Requests : answer[r].code = "internal" =>
    \/ r \in thrown \/ lifecycle > 1
    \/ Key(r) # NoKey /\ (IsRevert(r) \/ (LedgerExpires /\ IsSingle(r)))

(* A gate that lets a batch through is never overruled by the seal: the    *)
(* rollback of a sealed batch is only ever about a key.                    *)
GateImpliesSeal ==
  \A r \in Requests :
    pc[r] = "batch" /\ Gate(BatchOf(r)) =>
      Seals(BatchOf(r)) /\ VersionsFree(BatchOf(r))

ContentBefore(v) ==
  IF v.version = 1 THEN Tombstone ELSE ContentAt(v.path, v.version - 1)

(* A revert puts back what each path held before the reverted commit, and  *)
(* with onto = "commit" it does so directly on top of that commit: it does *)
(* not undo a write that came later.                                       *)
RevertRestores ==
  \A r \in Requests : Committed(r) /\ IsRevert(r) =>
    \A v \in RowsOf(r) : \E u \in RowsOf(request[r].target) :
      /\ u.path = v.path
      /\ v.content = ContentBefore(u)
      /\ request[r].onto = "commit" => v.version = u.version + 1

DeletedStashFrozen == [][FrozenStep]_vars

-----------------------------------------------------------------------------
(* Claims of the repository that the interleavings refute.                 *)

(* Two simultaneous requests with one key and one body end as one winner   *)
(* and one replay (acceptance.test.ts: "makes concurrent same-key calls    *)
(* converge on winner plus replay").                                       *)
SameKeyConverges ==
  \A r, s \in Requests :
    /\ Answered(r) /\ Answered(s)
    /\ Key(r) # NoKey /\ request[r] = request[s]
    /\ answer[r].code = "ok"
    => answer[s].code = "ok"

(* A revert has "the same permanent replay semantics as atomic commit"     *)
(* (commits.mdx), so its repetition is not told that there is nothing to   *)
(* revert, nor that the store is inconsistent.                             *)
RepeatedRevertReplays ==
  \A r, s \in Requests :
    /\ Answered(r) /\ Answered(s)
    /\ IsRevert(r) /\ Key(r) # NoKey /\ request[r] = request[s]
    /\ answer[r].code = "ok"
    => answer[s].code \notin {"validation", "internal"}

(* A revert "reverses every entry of the named commit against the current  *)
(* heads" (commits.mdx): when it commits, an entry it left out is a path   *)
(* that is deleted already.                                                *)
RevertLeavesNothingStanding ==
  \A c \in commits : IsRevert(c.id) =>
    \A u \in RowsOf(request[c.id].target) :
      \/ \E v \in RowsOf(c.id) : v.path = u.path
      \/ \E v \in versions :
           /\ v.path = u.path /\ v.id < c.first /\ v.kind = "delete"
           /\ \A w \in versions : w.path = u.path /\ w.id < c.first => w.id <= v.id

-----------------------------------------------------------------------------
(* The store it implements: see VersionedStore.                            *)

Tag(r) ==
  IF pc[r] = "idle" \/ Key(r) = NoKey THEN <<r>> ELSE <<Key(r), Hash(r)>>

History(p) == [n \in 1..files[p].version |-> ContentAt(p, n)]

Position(es, p) == CHOOSE i \in DOMAIN es : es[i].path = p

Wants(r) ==
  [p \in {entries[r][i].path : i \in DOMAIN entries[r]} |->
     entries[r][Position(entries[r], p)].expected]

(* A refusal settles nothing when the call of the batch failed before it.  *)
Outcome(r) ==
  CASE Answered(r) /\ answer[r].code = "ok" -> "done"
    [] Answered(r) /\ answer[r].code # "ok" /\ r \notin thrown -> "void"
    [] OTHER -> "open"

Abstract == INSTANCE VersionedStore WITH
  Values <- Contents \cup {Tombstone},
  Tags <- {<<r>> : r \in Requests} \cup {<<k, h>> : k \in Keys, h \in Hashes},
  history <- [p \in Paths |-> History(p)],
  wants <- [r \in Requests |-> Wants(r)],
  tag <- [r \in Requests |-> Tag(r)],
  applied <- {c.id : c \in commits},
  outcome <- [r \in Requests |-> Outcome(r)]

(* The tables, batches and races of this module together behave like a     *)
(* store in which each request happens at once or not at all.              *)
ImplementsVersionedStore == Abstract!Spec
=============================================================================
