-------------------------- MODULE StashStore_proofs --------------------------
(***************************************************************************)
(* The tables keep their promises whatever requests race, for any paths,   *)
(* keys, calls and number of requests: StoreInv is inductive.              *)
(***************************************************************************)
EXTENDS StashStore, StashTables_proofs

USE DEF Places, Submitting, Settled

LEMMA RefusalType ==
  ASSUME NEW code \in Codes
  PROVE  Refusal(code) \in Answer
BY DEF Refusal, Answer

LEMMA SuccessType ==
  ASSUME NEW c \in CommitIds, NEW again \in BOOLEAN
  PROVE  Success(c, again) \in Answer
BY DEF Success, Answer, Codes

(* An answer changes nothing that the invariant speaks of.                 *)
LEMMA ReplyKeeps ==
  ASSUME StoreInv, NEW r \in Requests, NEW a \in Answer, pc[r] # "idle",
         Reply(r, a)
  PROVE  StoreInv'
<1>1. UNCHANGED <<tables, request, entries, seen, thrown, lifecycle, foreign>>
        /\ pc' = [pc EXCEPT ![r] = "done"] /\ answer' = [answer EXCEPT ![r] = a]
  BY DEF Reply
<1>2. TablesInv'
  BY <1>1, OthersKeepTables DEF StoreInv
<1>3. TypeOK'
  BY <1>1, <1>2 DEF StoreInv, TypeOK, TablesInv
<1>4. RequestsInv'
  BY <1>1, StoreAssumption
     DEF StoreInv, TypeOK, RequestsInv, TablesTypeOK, CommitRow, tables
<1> QED BY <1>2, <1>3, <1>4 DEF StoreInv

(* Nor does a step to another place, if there are entries to go with.      *)
LEMMA GotoKeeps ==
  ASSUME StoreInv, NEW r \in Requests,
         NEW place \in Places \ {"idle", "won", "done"},
         pc[r] \notin {"idle", "won", "done"},
         place \in Submitting => entries[r] # <<>>,
         pc[r] \in Settled => place \in Settled,
         Goto(r, place)
  PROVE  StoreInv'
<1>1. UNCHANGED <<tables, request, entries, seen, answer, thrown, lifecycle, foreign>>
        /\ pc' = [pc EXCEPT ![r] = place]
  BY DEF Goto
<1>2. TablesInv'
  BY <1>1, OthersKeepTables DEF StoreInv
<1>3. TypeOK'
  BY <1>1, <1>2 DEF StoreInv, TypeOK, TablesInv
<1>4. RequestsInv'
  BY <1>1, StoreAssumption
     DEF StoreInv, TypeOK, RequestsInv, TablesTypeOK, CommitRow, tables
<1> QED BY <1>2, <1>3, <1>4 DEF StoreInv

(* The answer an earlier request left is well typed.                       *)
LEMMA PriorKeeps ==
  ASSUME StoreInv, NEW r \in Requests, NEW next \in {"head", "rehead"},
         pc[r] = (IF next = "head" THEN "replay" ELSE "rereplay"),
         AnswerFromPrior(r, next)
  PROVE  StoreInv'
<1>1. CASE Goto(r, next)
  BY <1>1, GotoKeeps DEF StoreInv, RequestsInv
<1>2. ASSUME NEW row \in PriorWrites(r), Reply(r, ReplayWrite(r, row))
      PROVE  StoreInv'
  <2>1. ReplayWrite(r, row) \in Answer
    <3>1. ASSUME NEW rows, rows = RowsAt(row.path, row.version), rows # {}
          PROVE  (CHOOSE v \in rows : TRUE).commit \in CommitIds
      <4>1. rows \subseteq VersionRow
        BY <3>1 DEF RowsAt, StoreInv, TypeOK, TablesTypeOK
      <4>2. (CHOOSE v \in rows : TRUE) \in rows
        BY <3>1
      <4> QED BY <4>1, <4>2 DEF VersionRow
    <3> QED BY <3>1, RefusalType, SuccessType DEF ReplayWrite, Codes
  <2> QED BY <1>2, <2>1, ReplyKeeps
<1>3. ASSUME NEW row \in PriorCommits(r), Reply(r, ReplayCommit(r, row))
      PROVE  StoreInv'
  <2>1. row.id \in CommitIds
    BY DEF PriorCommits, StoreInv, TypeOK, TablesTypeOK, CommitRow
  <2>2. ReplayCommit(r, row) \in Answer
    BY <2>1, RefusalType, SuccessType DEF ReplayCommit, Codes
  <2> QED BY <1>3, <2>2, ReplyKeeps
<1> QED BY <1>1, <1>2, <1>3 DEF AnswerFromPrior

-----------------------------------------------------------------------------
(* The three steps that do more than move on or answer.                    *)

LEMMA ArriveKeeps ==
  ASSUME StoreInv, NEW r \in Requests, Arrive(r)
  PROVE  StoreInv'
<1>1. PICK c \in Calls[r] :
        /\ request' = [request EXCEPT ![r] = c]
        /\ entries' = [entries EXCEPT ![r] = c.entries]
        /\ pc' = [pc EXCEPT ![r] = IF c.call = "revert" THEN "revert" ELSE "live"]
  BY DEF Arrive
<1>2. UNCHANGED <<tables, seen, answer, thrown, lifecycle, foreign>> /\ pc[r] = "idle"
  BY DEF Arrive
<1>3. c \in Call /\ WellFormed(c)
  BY StoreAssumption
<1>4. c.entries \in Seq(Entry)
  BY <1>3 DEF Call
<1>5. c.call # "revert" => c.entries # <<>>
  BY <1>3 DEF WellFormed
<1>6. TablesInv'
  BY <1>2, OthersKeepTables DEF StoreInv
<1>7. TypeOK'
  BY <1>1, <1>2, <1>3, <1>4, <1>6 DEF StoreInv, TypeOK, TablesInv
<1>8. RequestsInv'
  <2>1. \A q \in Requests : pc'[q] # "idle" => request'[q] \in Calls[q]
    BY <1>1 DEF StoreInv, TypeOK, RequestsInv
  <2>2. \A q \in Requests : DistinctPaths(entries'[q])
    BY <1>1, <1>3 DEF StoreInv, TypeOK, RequestsInv, WellFormed
  <2>3. \A q \in Requests : \A i \in DOMAIN entries'[q] :
          WellFormedEntry(entries'[q][i])
    BY <1>1, <1>3 DEF StoreInv, TypeOK, RequestsInv, WellFormed
  <2>4. \A q \in Requests : pc'[q] \in Submitting => entries'[q] # <<>>
    BY <1>1, <1>5 DEF StoreInv, TypeOK, RequestsInv
  <2>5. \A d \in commits' : pc'[d.id] \in Settled
    BY <1>1, <1>2, StoreAssumption
       DEF StoreInv, TypeOK, RequestsInv, TablesTypeOK, CommitRow, tables
  <2>6. /\ \A v, w \in versions' : v.commit = w.commit /\ v.path = w.path => v = w
        /\ IsFiniteSet(versions')
    BY <1>2 DEF StoreInv, RequestsInv, tables
  <2> QED BY <2>1, <2>2, <2>3, <2>4, <2>5, <2>6 DEF RequestsInv
<1> QED BY <1>6, <1>7, <1>8 DEF StoreInv

LEMMA FunctionIsSeq ==
  ASSUME NEW S, NEW n \in Nat \ {0}, NEW f \in [1..n -> S]
  PROVE  f \in Seq(S) /\ f # <<>> /\ DOMAIN f = 1..n
OBVIOUS

(* Undoing a version row is a well-formed entry.                           *)
LEMMA UndoEntryMakesSense ==
  ASSUME StoreInv, NEW r \in Requests, NEW v \in versions
  PROVE  UndoEntry(r, v) \in Entry /\ WellFormedEntry(UndoEntry(r, v))
<1> DEFINE e == UndoEntry(r, v)
<1>1. v.path \in Paths /\ v.version \in Nat \ {0}
  BY DEF StoreInv, TypeOK, TablesTypeOK, VersionRow
<1>2. files[v.path].version \in Nat
  BY <1>1 DEF StoreInv, TypeOK, TablesTypeOK, FileRow
<1>3. UndoExpects(r, v) \in Nat \ {0}
  BY <1>1, <1>2 DEF UndoExpects
<1>4. CASE IsCreation(v)
  <2>1. e = [op |-> "delete", path |-> v.path, expected |-> UndoExpects(r, v),
             content |-> Tombstone, fromPath |-> v.path, fromVersion |-> 0]
    BY <1>4 DEF UndoEntry
  <2>2. e \in Entry
    BY <1>1, <1>3, <2>1 DEF Entry
  <2>3. /\ e.op = "delete" /\ e.content = Tombstone /\ e.fromPath = e.path
        /\ e.expected > 0 /\ e.fromVersion = 0
    BY <1>3, <2>1
  <2>4. WellFormedEntry(e)
    BY <2>3, TablesAssumption DEF WellFormedEntry
  <2> QED BY <2>2, <2>4
<1>5. CASE ~IsCreation(v)
  <2>1. e = [op |-> "rollback", path |-> v.path, expected |-> UndoExpects(r, v),
             content |-> Tombstone, fromPath |-> v.path,
             fromVersion |-> v.version - 1]
    BY <1>5 DEF UndoEntry
  <2>2. v.version - 1 \in Nat \ {0}
    BY <1>1, <1>5 DEF IsCreation
  <2>3. e \in Entry
    BY <1>1, <1>3, <2>1, <2>2 DEF Entry
  <2>4. /\ e.op = "rollback" /\ e.content = Tombstone /\ e.fromPath = e.path
        /\ e.expected > 0 /\ e.fromVersion > 0
    <3>1. /\ e.op = "rollback" /\ e.content = Tombstone /\ e.fromPath = e.path
          /\ e.expected = UndoExpects(r, v) /\ e.fromVersion = v.version - 1
      BY <2>1
    <3>2. UndoExpects(r, v) > 0 /\ v.version - 1 > 0
      <4>1. \A k \in Nat \ {0} : k > 0
        OBVIOUS
      <4> QED BY <1>3, <2>2, <4>1, Zenon
    <3> QED BY <3>1, <3>2
  <2>5. WellFormedEntry(e)
    BY <2>4, TablesAssumption DEF WellFormedEntry
  <2> QED BY <2>3, <2>5
<1> QED BY <1>4, <1>5

LEMMA ReadHeadsKeeps ==
  ASSUME StoreInv, NEW r \in Requests, ReadHeads(r)
  PROVE  StoreInv'
<1> DEFINE undo == {v \in RowsOf(request[r].target) : ~AlreadyUndone(r, v)}
<1>1. CASE undo = {} /\ Reply(r, Refusal("validation"))
  BY <1>1, RefusalType, ReplyKeeps DEF ReadHeads, Codes
<1>2. CASE \E order \in InChangeOrder(undo) :
             /\ undo # {}
             /\ entries' = [entries EXCEPT ![r] =
                              [i \in DOMAIN order |-> UndoEntry(r, order[i])]]
             /\ pc' = [pc EXCEPT ![r] = "live"]
             /\ UNCHANGED <<tables, request, seen, answer, thrown, lifecycle, foreign>>
  <2>1. PICK order \in InChangeOrder(undo) :
          entries' = [entries EXCEPT ![r] =
                        [i \in DOMAIN order |-> UndoEntry(r, order[i])]]
    BY <1>2
  <2>2. undo # {} /\ pc' = [pc EXCEPT ![r] = "live"] /\ pc[r] = "heads"
          /\ UNCHANGED <<tables, request, seen, answer, thrown, lifecycle, foreign>>
    BY <1>2 DEF ReadHeads
  <2> DEFINE es == [i \in DOMAIN order |-> UndoEntry(r, order[i])]
             n == Cardinality(undo)
  <2>3. undo \subseteq versions
    BY DEF RowsOf
  <2>4. IsFiniteSet(undo)
    BY <2>3, FS_Subset DEF StoreInv, RequestsInv
  <2>5. n \in Nat \ {0}
    BY <2>2, <2>4, FS_CardinalityType, FS_EmptySet
  <2>6. order \in [1..n -> undo] /\ \A i, j \in 1..n : i < j => order[i].id < order[j].id
    BY <2>1 DEF InChangeOrder
  <2>7. \A i \in 1..n : es[i] = UndoEntry(r, order[i]) /\ order[i] \in versions
    BY <2>3, <2>6
  <2>8. es \in [1..n -> Entry]
    BY <2>6, <2>7, UndoEntryMakesSense
  <2>9. es \in Seq(Entry) /\ es # <<>> /\ DOMAIN es = 1..n
    <3> HIDE DEF es, n
    <3> QED BY <2>5, <2>8, FunctionIsSeq
  <2>10. DistinctPaths(es)
    <3>1. SUFFICES ASSUME NEW i \in 1..n, NEW j \in 1..n, es[i].path = es[j].path
                   PROVE  i = j
      BY <2>9 DEF DistinctPaths
    <3>2. order[i].path = order[j].path
      <4>1. \A v : UndoEntry(r, v).path = v.path
        BY DEF UndoEntry
      <4> QED BY <2>7, <3>1, <4>1
    <3>3. order[i].commit = order[j].commit
      BY <2>6 DEF RowsOf
    <3>4. order[i] = order[j]
      BY <2>7, <3>2, <3>3 DEF StoreInv, RequestsInv
    <3>5. order[i].id \in Nat
      BY <2>7 DEF StoreInv, TypeOK, TablesTypeOK, VersionRow
    <3>6. i \in Nat /\ j \in Nat
      BY <2>5
    <3>7. ~(i < j) /\ ~(j < i)
      BY <2>6, <3>4, <3>5
    <3> QED BY <3>6, <3>7
  <2>11. \A i \in DOMAIN es : WellFormedEntry(es[i])
    BY <2>6, <2>7, UndoEntryMakesSense
  <2>12. TablesInv'
    BY <2>2, OthersKeepTables DEF StoreInv
  <2>13. entries' = [entries EXCEPT ![r] = es]
    BY <2>1
  <2> HIDE DEF es
  <2>14. TypeOK'
    BY <2>2, <2>9, <2>12, <2>13 DEF StoreInv, TypeOK, TablesInv
  <2>15. RequestsInv'
    <3>1. \A q \in Requests : pc'[q] # "idle" => request'[q] \in Calls[q]
      BY <2>2 DEF StoreInv, TypeOK, RequestsInv
    <3>2. \A q \in Requests : DistinctPaths(entries'[q])
      BY <2>10, <2>13 DEF StoreInv, TypeOK, RequestsInv
    <3>3. \A q \in Requests : \A i \in DOMAIN entries'[q] :
            WellFormedEntry(entries'[q][i])
      BY <2>11, <2>13 DEF StoreInv, TypeOK, RequestsInv
    <3>4. \A q \in Requests : pc'[q] \in Submitting => entries'[q] # <<>>
      BY <2>2, <2>9, <2>13 DEF StoreInv, TypeOK, RequestsInv
    <3>5. \A d \in commits' : pc'[d.id] \in Settled
      BY <2>2, StoreAssumption
         DEF StoreInv, TypeOK, RequestsInv, TablesTypeOK, CommitRow, tables
    <3>6. /\ \A v, w \in versions' :
               v.commit = w.commit /\ v.path = w.path => v = w
          /\ IsFiniteSet(versions')
      BY <2>2 DEF StoreInv, RequestsInv, tables
    <3> QED BY <3>1, <3>2, <3>3, <3>4, <3>5, <3>6 DEF RequestsInv
  <2> QED BY <2>12, <2>14, <2>15 DEF StoreInv
<1> QED BY <1>1, <1>2 DEF ReadHeads

(* The batch of a request is typed, well formed and under a fresh id.      *)
LEMMA BatchOfMakesSense ==
  ASSUME StoreInv, NEW r \in Requests, pc[r] = "batch"
  PROVE  /\ BatchOf(r) \in Batch
         /\ OncePerPath(BatchOf(r))
         /\ EntriesMakeSense(BatchOf(r))
         /\ ~Committed(BatchOf(r).id)
<1>1. request[r] \in Calls[r] /\ Calls[r] \subseteq Call
  BY StoreAssumption DEF StoreInv, RequestsInv
<1>2. Hash(r) \in Hashes /\ request[r] \in Call
  BY <1>1, StoreAssumption DEF Hash
<1>3. entries[r] \in EntryLists
  BY DEF EntryLists, StoreInv, TypeOK, RequestsInv
<1>4. /\ request[r].since \in Nat /\ request[r].whole \in BOOLEAN
      /\ request[r].scope \in SUBSET Paths /\ Key(r) \in Keys \cup {NoKey}
  BY <1>2 DEF Call, Key
<1>5. BatchOf(r) \in Batch
  BY <1>2, <1>3, <1>4, StoreAssumption DEF BatchOf, Batch
<1>6. BatchOf(r).entries = entries[r] /\ BatchOf(r).id = r
  BY DEF BatchOf
<1>7. OncePerPath(BatchOf(r))
  BY <1>6 DEF OncePerPath, StoreInv, RequestsInv, DistinctPaths
<1>8. EntriesMakeSense(BatchOf(r))
  BY <1>6 DEF EntriesMakeSense, StoreInv, RequestsInv, WellFormedEntry
<1>9. ~Committed(BatchOf(r).id)
  BY <1>6 DEF Committed, StoreInv, RequestsInv
<1> QED BY <1>5, <1>7, <1>8, <1>9

(* So committing it keeps the invariant, wherever the request goes next.   *)
LEMMA CommitKeeps ==
  ASSUME StoreInv, NEW r \in Requests, NEW place \in {"won", "relive"},
         pc[r] = "batch", CommitBatch(BatchOf(r)),
         pc' = [pc EXCEPT ![r] = place], thrown' \subseteq Requests,
         UNCHANGED <<request, entries, seen, answer, lifecycle, foreign>>
  PROVE  StoreInv'
<1> DEFINE b == BatchOf(r)
           New == {NewRow(b, i) : i \in DOMAIN b.entries}
<1>1. pc[r] = "batch" /\ CommitBatch(b) /\ pc' = [pc EXCEPT ![r] = place]
        /\ UNCHANGED <<request, entries, seen, answer, lifecycle, foreign>>
  OBVIOUS
<1>2. b \in Batch /\ OncePerPath(b) /\ EntriesMakeSense(b) /\ ~Committed(b.id)
        /\ b.id = r
  BY <1>1, BatchOfMakesSense DEF BatchOf
<1> HIDE DEF b
<1>3. TablesInv'
  BY <1>1, <1>2, BatchKeepsTables DEF StoreInv
<1>4. TypeOK'
  BY <1>1, <1>3 DEF StoreInv, TypeOK, TablesInv
<1>5. TablesTypeOK /\ CommitsWhole
  BY DEF StoreInv, TablesInv
<1>6. versions' = versions \cup New /\ commits' = commits \cup {NewCommit(b)}
  BY <1>1, <1>2, <1>5, BatchStep DEF CommitBatch
<1>7. \A v, w \in versions' : v.commit = w.commit /\ v.path = w.path => v = w
  <2>1. \A v \in New : v.commit = b.id
    BY <1>1, <1>2, <1>5, BatchStep
  <2>2. \A v, w \in New : v.path = w.path => v = w
    BY <1>1, <1>2, <1>5, BatchStep
  <2>3. \A v \in versions : v.commit # b.id
    BY <1>2, <1>5 DEF CommitsWhole, Committed
  <2> QED BY <1>6, <2>1, <2>2, <2>3 DEF StoreInv, RequestsInv
<1>8. IsFiniteSet(versions')
  <2>1. IsFiniteSet(DOMAIN b.entries)
    <3>1. DOMAIN b.entries = 1..Len(b.entries) /\ Len(b.entries) \in Nat
      BY <1>2 DEF Batch, EntryLists
    <3> QED BY <3>1, FS_Interval
  <2> DEFINE f == [i \in DOMAIN b.entries |-> NewRow(b, i)]
  <2>2. f \in Surjection(DOMAIN b.entries, New)
    BY DEF Surjection
  <2>3. IsFiniteSet(New)
    <3> HIDE DEF f, New
    <3> QED BY <2>1, <2>2, FS_Surjection
  <2> QED BY <1>6, <2>3, FS_Union DEF StoreInv, RequestsInv
<1>9. \A c \in commits' : pc'[c.id] \in Settled
  <2>1. NewCommit(b).id = r
    BY <1>2 DEF NewCommit
  <2> QED BY <1>1, <1>6, <2>1, StoreAssumption
        DEF StoreInv, TypeOK, RequestsInv, TablesTypeOK, CommitRow
<1>10. RequestsInv'
  BY <1>1, <1>7, <1>8, <1>9 DEF StoreInv, TypeOK, RequestsInv
<1> QED BY <1>3, <1>4, <1>10 DEF StoreInv

LEMMA WinKeeps ==
  ASSUME StoreInv, NEW r \in Requests, Win(r)
  PROVE  StoreInv'
<1>1. thrown' \subseteq Requests
  BY DEF Win, StoreInv, TypeOK
<1> QED BY <1>1, CommitKeeps DEF Win

LEMMA ThrowKeeps ==
  ASSUME StoreInv, NEW r \in Requests, Throw(r)
  PROVE  StoreInv'
<1>1. /\ pc[r] = "batch" /\ pc' = [pc EXCEPT ![r] = "relive"]
      /\ thrown' \subseteq Requests
      /\ UNCHANGED <<request, entries, seen, answer, lifecycle, foreign>>
  BY DEF Throw, StoreInv, TypeOK
<1>2. CASE CommitBatch(BatchOf(r))
  BY <1>1, <1>2, CommitKeeps
<1>3. CASE UNCHANGED tables
  <2>1. TablesInv'
    BY <1>3, OthersKeepTables DEF StoreInv
  <2>2. TypeOK'
    BY <1>1, <2>1 DEF StoreInv, TypeOK, TablesInv
  <2>3. RequestsInv'
    BY <1>1, <1>3, StoreAssumption
       DEF StoreInv, TypeOK, RequestsInv, TablesTypeOK, CommitRow, tables
  <2> QED BY <2>1, <2>2, <2>3 DEF StoreInv
<1> QED BY <1>2, <1>3 DEF Throw

-----------------------------------------------------------------------------
(* The other steps only move on or answer.                                 *)

LEMMA ReadsKeep ==
  ASSUME StoreInv, NEW r \in Requests,
         \/ CheckRevertLive(r) \/ ReadTarget(r) \/ CheckLive(r) \/ CheckReplay(r)
         \/ CheckHead(r) \/ CheckSource(r) \/ CheckSnapshot(r)
         \/ Lose(r) \/ Respond(r) \/ RecheckLive(r) \/ RecheckReplay(r)
  PROVE  StoreInv'
<1> USE RefusalType, ReplyKeeps, GotoKeeps DEF Codes
<1>0. pc[r] \in Submitting => entries[r] # <<>>
  BY DEF StoreInv, RequestsInv
<1>1. CASE CheckRevertLive(r)
  BY <1>0, <1>1 DEF CheckRevertLive
<1>2. CASE ReadTarget(r)
  <2>1. pc[r] = "target"
    BY <1>2 DEF ReadTarget
  <2>2. CASE Reply(r, Refusal("not-found"))
    BY <2>1, <2>2
  <2>3. CASE Goto(r, "heads")
    BY <2>1, <2>3
  <2>4. ASSUME NEW row \in PriorCommits(r),
               Reply(r, IF row.hash = Hash(r) THEN Success(row.id, TRUE)
                        ELSE Refusal("idempotency-key-reused"))
        PROVE  StoreInv'
    <3>1. row.id \in CommitIds
      BY DEF PriorCommits, StoreInv, TypeOK, TablesTypeOK, CommitRow
    <3>2. (IF row.hash = Hash(r) THEN Success(row.id, TRUE)
           ELSE Refusal("idempotency-key-reused")) \in Answer
      BY <3>1, SuccessType
    <3> QED BY <2>1, <2>4, <3>2
  <2> QED BY <1>2, <2>2, <2>3, <2>4 DEF ReadTarget
<1>3. CASE CheckLive(r)
  BY <1>0, <1>3 DEF CheckLive
<1>4. CASE CheckReplay(r) \/ RecheckReplay(r)
  BY <1>4, PriorKeeps DEF CheckReplay, RecheckReplay
<1>5. CASE CheckHead(r)
  <2> DEFINE refusal == HeadRefusal(TheEntry(r), files[TheEntry(r).path])
  <2>1. pc[r] = "head"
    BY <1>5 DEF CheckHead
  <2>2. refusal \in Codes
    BY DEF HeadRefusal
  <2>3. CASE refusal # "none"
    BY <1>5, <2>1, <2>2, <2>3 DEF CheckHead
  <2>4. CASE refusal = "none"
    BY <1>0, <1>5, <2>1, <2>4 DEF CheckHead
  <2> QED BY <2>3, <2>4
<1>6. CASE CheckSource(r)
  <2>1. SourceRefusal(TheEntry(r)) \in Codes
    BY DEF SourceRefusal
  <2> QED BY <1>0, <1>6, <2>1 DEF CheckSource
<1>7. CASE CheckSnapshot(r)
  <2>1. CommitRefusal(r) \in Codes
    BY DEF CommitRefusal
  <2> QED BY <1>0, <1>7, <2>1 DEF CheckSnapshot
<1>8. CASE Lose(r)
  BY <1>0, <1>8 DEF Lose
<1>9. CASE Respond(r)
  <2>1. Success(r, FALSE) \in Answer
    BY SuccessType, StoreAssumption
  <2> QED BY <1>9, <2>1 DEF Respond
<1>10. CASE RecheckLive(r)
  BY <1>0, <1>10 DEF RecheckLive
<1> QED BY <1>1, <1>2, <1>3, <1>4, <1>5, <1>6, <1>7, <1>8, <1>9, <1>10

LEMMA ClassifyKeeps ==
  ASSUME StoreInv, NEW r \in Requests,
         ClassifyWrite(r) \/ ClassifyRollback(r) \/ ClassifyCommit(r)
  PROVE  StoreInv'
<1> USE RefusalType, ReplyKeeps DEF Codes
<1>1. CASE ClassifyWrite(r)
  <2> DEFINE e == TheEntry(r)
             head == files[e.path]
  <2>1. pc[r] = "rehead" /\ IsSingle(r)
    BY <1>1 DEF ClassifyWrite
  <2>2. CASE Reply(r, Refusal(OrInternal(HeadRefusal(e, head))))
    <3>1. OrInternal(HeadRefusal(e, head)) \in Codes
      BY DEF OrInternal, HeadRefusal
    <3> QED BY <2>1, <2>2, <3>1
  <2>3. CASE /\ pc' = [pc EXCEPT ![r] = "resource"]
             /\ seen' = [seen EXCEPT ![r] = head.version]
             /\ UNCHANGED <<tables, request, entries, answer, thrown, lifecycle,
                            foreign>>
    <3>1. entries[r] # <<>> /\ entries[r] \in Seq(Entry)
      BY <2>1 DEF StoreInv, TypeOK, RequestsInv
    <3>2. e.path \in Paths
      <4>1. \A es \in Seq(Entry) : es # <<>> => es[1] \in Entry
        OBVIOUS
      <4>2. e \in Entry
        BY <3>1, <4>1 DEF TheEntry
      <4> QED BY <4>2 DEF Entry
    <3>3. head.version \in Nat
      BY <3>2 DEF StoreInv, TypeOK, TablesTypeOK, FileRow
    <3>4. TablesInv'
      BY <2>3, OthersKeepTables DEF StoreInv
    <3>5. TypeOK'
      BY <2>3, <3>3, <3>4 DEF StoreInv, TypeOK, TablesInv
    <3>6. RequestsInv'
      BY <2>1, <2>3, StoreAssumption
         DEF StoreInv, TypeOK, RequestsInv, TablesTypeOK, CommitRow, tables
    <3> QED BY <3>4, <3>5, <3>6 DEF StoreInv
  <2> QED BY <1>1, <2>2, <2>3 DEF ClassifyWrite
<1>2. CASE ClassifyRollback(r)
  <2>1. \A e : SourceRefusal(e) \in Codes
    BY DEF SourceRefusal
  <2> QED BY <1>2, <2>1 DEF ClassifyRollback
<1>3. CASE ClassifyCommit(r)
  <2>1. OrInternal(CommitRefusal(r)) \in Codes
    BY DEF OrInternal, CommitRefusal
  <2> QED BY <1>3, <2>1 DEF ClassifyCommit
<1> QED BY <1>1, <1>2, <1>3

(* The rest of the service does not touch a request.                       *)
LEMMA OthersKeep ==
  ASSUME StoreInv, Lifecycle \/ Foreign \/ CollectLedger \/ UNCHANGED vars
  PROVE  StoreInv'
<1>1. UNCHANGED <<versions, commits>> /\ UNCHANGED control
  BY DEF Lifecycle, Foreign, CollectLedger, DeleteStash, RestoreStash,
         OtherStashWrites, ExpireLedger, vars, tables
<1>2. TablesInv'
  BY OthersKeepTables
     DEF StoreInv, Lifecycle, Foreign, CollectLedger, vars
<1>3. lifecycle' \in Nat /\ foreign' \in Nat
  BY DEF StoreInv, TypeOK, Lifecycle, Foreign, CollectLedger, vars
<1>4. TypeOK'
  BY <1>1, <1>2, <1>3 DEF StoreInv, TypeOK, TablesInv, control
<1>5. RequestsInv'
  BY <1>1 DEF StoreInv, RequestsInv, control
<1> QED BY <1>2, <1>4, <1>5 DEF StoreInv

-----------------------------------------------------------------------------
LEMMA InitialStoreInv == Init => StoreInv
<1> SUFFICES ASSUME Init PROVE StoreInv
  OBVIOUS
<1>1. TablesInv
  BY EmptyTables DEF Init
<1>2. Unanswered \in Answer
  BY RefusalType DEF Unanswered, Codes
<1>3. TypeOK
  BY <1>1, <1>2 DEF Init, TypeOK, TablesInv
<1>4. RequestsInv
  BY FS_EmptySet DEF Init, TablesInit, RequestsInv, DistinctPaths
<1> QED BY <1>1, <1>3, <1>4 DEF StoreInv

(* StoreInv is inductive: no step of any request, and nothing else the     *)
(* service does, breaks it.                                                *)
LEMMA StepKeepsStoreInv == StoreInv /\ [Next]_vars => StoreInv'
<1> SUFFICES ASSUME StoreInv, [Next]_vars PROVE StoreInv'
  OBVIOUS
<1>1. ASSUME NEW r \in Requests, Step(r) PROVE StoreInv'
  BY <1>1, ArriveKeeps, ReadHeadsKeeps, WinKeeps, ThrowKeeps, ReadsKeep,
     ClassifyKeeps
     DEF Step
<1>2. CASE Lifecycle \/ Foreign \/ CollectLedger \/ UNCHANGED vars
  BY <1>2, OthersKeep
<1> QED BY <1>1, <1>2 DEF Next

(* Every reachable state has well-typed requests and tables.               *)
THEOREM TypeCorrect == Spec => []TypeOK
<1>1. StoreInv => TypeOK
  BY DEF StoreInv
<1> QED BY <1>1, InitialStoreInv, StepKeepsStoreInv, PTL DEF Spec

(* Writers that race leave each path the versions 1..head, each once.      *)
THEOREM HistoryIsContiguous == Spec => []HistoryContiguous
<1>1. StoreInv => HistoryContiguous
  BY DEF StoreInv, TablesInv
<1> QED BY <1>1, InitialStoreInv, StepKeepsStoreInv, PTL DEF Spec

(* The head row never diverges from the newest version row.                *)
THEOREM HeadsMirror == Spec => []HeadsMirrorHistory
<1>1. StoreInv => HeadsMirrorHistory
  BY DEF StoreInv, TablesInv
<1> QED BY <1>1, InitialStoreInv, StepKeepsStoreInv, PTL DEF Spec

(* Change ids are unique and order the versions of a path.                 *)
THEOREM FeedIsOrdered == Spec => []FeedFollowsHistory
<1>1. StoreInv => FeedFollowsHistory
  BY DEF StoreInv, TablesInv
<1> QED BY <1>1, InitialStoreInv, StepKeepsStoreInv, PTL DEF Spec

(* Commits are all or none.                                                *)
THEOREM CommitsAreWhole == Spec => []CommitsWhole
<1>1. StoreInv => CommitsWhole
  BY DEF StoreInv, TablesInv
<1> QED BY <1>1, InitialStoreInv, StepKeepsStoreInv, PTL DEF Spec

(* Copies and rollbacks hold what the version they name holds.             *)
THEOREM DerivedContentIsFaithful == Spec => []DerivedContentFaithful
<1>1. StoreInv => DerivedContentFaithful
  BY DEF StoreInv, TablesInv
<1> QED BY <1>1, InitialStoreInv, StepKeepsStoreInv, PTL DEF Spec
=============================================================================
