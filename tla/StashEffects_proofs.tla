------------------------- MODULE StashEffects_proofs -------------------------
(***************************************************************************)
(* What each committed request leaves behind: its own rows, one effect per *)
(* key, nothing before its fence; what its answer says of that; and that   *)
(* every step is one of the abstract store, or stutters.  All rests on     *)
(* StoreInv and on the shape every step has: one batch is committed, or no *)
(* row is touched.                                                         *)
(***************************************************************************)
EXTENDS StashStore_proofs

BatchStepOf(r) ==
  /\ pc[r] = "batch"
  /\ CommitBatch(BatchOf(r))
  /\ UNCHANGED <<request, entries>>

QuietStep ==
  /\ UNCHANGED <<files, versions, commits>>
  /\ ledger' \subseteq ledger
  /\ LedgerExpires \/ ledger' = ledger
  /\ \A q \in Requests : pc[q] # "idle" =>
       /\ request'[q] = request[q]
       /\ pc[q] # "heads" => entries'[q] = entries[q]

LEMMA QuietTables ==
  ASSUME UNCHANGED tables, UNCHANGED <<request, entries>>
  PROVE  QuietStep
BY DEF QuietStep, tables

LEMMA QuietReply ==
  ASSUME NEW r, NEW x, Goto(r, x) \/ Reply(r, x)
  PROVE  QuietStep
BY QuietTables DEF Goto, Reply

LEMMA QuietPrior ==
  ASSUME NEW r, NEW x, AnswerFromPrior(r, x)
  PROVE  QuietStep
BY QuietReply DEF AnswerFromPrior

LEMMA QuietArrive ==
  ASSUME StoreInv, NEW r \in Requests, Arrive(r)
  PROVE  QuietStep
<1>1. PICK c \in Calls[r] : /\ request' = [request EXCEPT ![r] = c]
                            /\ entries' = [entries EXCEPT ![r] = c.entries]
  BY DEF Arrive
<1> QED BY <1>1 DEF Arrive, QuietStep, tables, StoreInv, TypeOK

LEMMA QuietReadHeads ==
  ASSUME StoreInv, NEW r \in Requests, ReadHeads(r)
  PROVE  QuietStep
<1> DEFINE undo == {v \in RowsOf(request[r].target) : ~AlreadyUndone(r, v)}
<1>1. CASE Reply(r, Refusal("validation"))
  BY <1>1, QuietReply
<1>2. ASSUME NEW order \in InChangeOrder(undo),
             entries' = [entries EXCEPT ![r] =
                           [i \in DOMAIN order |-> UndoEntry(r, order[i])]],
             UNCHANGED <<tables, request, seen, answer, thrown, lifecycle, foreign>>
      PROVE  QuietStep
  <2> DEFINE es == [i \in DOMAIN order |-> UndoEntry(r, order[i])]
  <2>1. entries' = [entries EXCEPT ![r] = es]
    BY <1>2
  <2> HIDE DEF es
  <2> QED BY <1>2, <2>1 DEF ReadHeads, QuietStep, tables, StoreInv, TypeOK
<1> QED BY <1>1, <1>2 DEF ReadHeads

(* Every step commits the batch of one request, or touches no row.         *)
LEMMA StepShape ==
  ASSUME StoreInv, [Next]_vars
  PROVE  QuietStep \/ \E r \in Requests : BatchStepOf(r)
<1>1. ASSUME NEW r \in Requests, Step(r)
      PROVE  QuietStep \/ BatchStepOf(r)
  <2>1. CASE Arrive(r) \/ ReadHeads(r)
    BY <2>1, QuietArrive, QuietReadHeads
  <2>2. CASE CheckRevertLive(r) \/ ReadTarget(r) \/ CheckLive(r)
    BY <2>2, QuietReply DEF CheckRevertLive, ReadTarget, CheckLive
  <2>3. CASE CheckReplay(r) \/ RecheckReplay(r)
    BY <2>3, QuietPrior DEF CheckReplay, RecheckReplay
  <2>4. CASE CheckHead(r)
    BY <2>4, QuietReply DEF CheckHead
  <2>5. CASE CheckSource(r) \/ CheckSnapshot(r)
    BY <2>5, QuietReply DEF CheckSource, CheckSnapshot
  <2>6. CASE Win(r)
    BY <2>6 DEF Win, BatchStepOf
  <2>7. CASE Throw(r)
    BY <2>7, QuietTables DEF Throw, BatchStepOf
  <2>8. CASE Lose(r) \/ Respond(r) \/ RecheckLive(r)
    BY <2>8, QuietReply DEF Lose, Respond, RecheckLive
  <2>9. CASE ClassifyWrite(r)
    BY <2>9, QuietReply, QuietTables DEF ClassifyWrite
  <2>10. CASE ClassifyRollback(r) \/ ClassifyCommit(r)
    BY <2>10, QuietReply DEF ClassifyRollback, ClassifyCommit
  <2> QED BY <1>1, <2>1, <2>2, <2>3, <2>4, <2>5, <2>6, <2>7, <2>8, <2>9, <2>10
          DEF Step
<1>2. CASE Lifecycle \/ Foreign \/ CollectLedger \/ UNCHANGED vars
  BY <1>2 DEF Lifecycle, Foreign, CollectLedger, DeleteStash, RestoreStash,
              OtherStashWrites, ExpireLedger, vars, tables, control, QuietStep
<1> QED BY <1>1, <1>2 DEF Next

-----------------------------------------------------------------------------
(* A deleted stash.                                                        *)

LEMMA DeletedIsFrozen == StoreInv /\ [Next]_vars => FrozenStep
<1> SUFFICES ASSUME StoreInv, [Next]_vars, ~live
             PROVE  UNCHANGED <<files, versions, commits>>
  BY DEF FrozenStep
<1>1. ASSUME NEW r \in Requests PROVE ~CommitBatch(BatchOf(r))
  BY DEF CommitBatch, Wins, Gate
<1>2. ASSUME NEW r \in Requests, NEW x, Goto(r, x) \/ Reply(r, x)
      PROVE  UNCHANGED <<files, versions, commits>>
  BY <1>2 DEF Goto, Reply, tables
<1>3. ASSUME NEW r \in Requests, NEW x, AnswerFromPrior(r, x)
      PROVE  UNCHANGED <<files, versions, commits>>
  BY <1>2, <1>3 DEF AnswerFromPrior
<1>4. ASSUME NEW r \in Requests, Step(r)
      PROVE  UNCHANGED <<files, versions, commits>>
  <2>1. CASE Arrive(r) \/ ReadHeads(r)
    BY <1>2, <2>1 DEF Arrive, ReadHeads, tables
  <2>2. CASE Win(r) \/ Throw(r)
    BY <1>1, <2>2 DEF Win, Throw, tables
  <2>3. CASE CheckReplay(r) \/ RecheckReplay(r)
    BY <1>3, <2>3 DEF CheckReplay, RecheckReplay
  <2>4. CASE CheckRevertLive(r) \/ ReadTarget(r) \/ CheckLive(r) \/ CheckHead(r)
    BY <1>2, <2>4 DEF CheckRevertLive, ReadTarget, CheckLive, CheckHead
  <2>5. CASE CheckSource(r) \/ CheckSnapshot(r) \/ Lose(r) \/ Respond(r)
    BY <1>2, <2>5 DEF CheckSource, CheckSnapshot, Lose, Respond
  <2>6. CASE RecheckLive(r) \/ ClassifyRollback(r) \/ ClassifyCommit(r)
    BY <1>2, <2>6 DEF RecheckLive, ClassifyRollback, ClassifyCommit
  <2>7. CASE ClassifyWrite(r)
    BY <1>2, <2>7 DEF ClassifyWrite, tables
  <2> QED BY <1>4, <2>1, <2>2, <2>3, <2>4, <2>5, <2>6, <2>7 DEF Step
<1>5. CASE Lifecycle \/ Foreign \/ CollectLedger \/ UNCHANGED vars
  BY <1>5 DEF Lifecycle, Foreign, CollectLedger, DeleteStash, RestoreStash,
              OtherStashWrites, ExpireLedger, vars, tables
<1> QED BY <1>4, <1>5 DEF Next

(* Nothing is written to a stash that is deleted, whenever its deletion    *)
(* falls between the reads and the batch of a request.                     *)
THEOREM DeletedStashStaysFrozen == Spec => DeletedStashFrozen
BY InitialStoreInv, StepKeepsStoreInv, DeletedIsFrozen, PTL
   DEF Spec, DeletedStashFrozen

-----------------------------------------------------------------------------
(* The gate and the seal.                                                  *)

(* A batch that passes its gate can only lose to a key.                    *)
THEOREM GateIsNeverOverruled == Spec => []GateImpliesSeal
<1>1. StoreInv => GateImpliesSeal
  <2> SUFFICES ASSUME StoreInv, NEW r \in Requests, pc[r] = "batch",
                      Gate(BatchOf(r))
               PROVE  Seals(BatchOf(r)) /\ VersionsFree(BatchOf(r))
    BY DEF GateImpliesSeal
  <2>1. /\ BatchOf(r) \in Batch /\ OncePerPath(BatchOf(r))
        /\ EntriesMakeSense(BatchOf(r))
    BY BatchOfMakesSense
  <2> QED BY <2>1, GateSuffices DEF StoreInv
<1> QED BY <1>1, InitialStoreInv, StepKeepsStoreInv, PTL DEF Spec

-----------------------------------------------------------------------------
(* What a commit row says of its request.                                  *)

(* A request that has committed changes no more.                           *)
LEMMA SettledStays ==
  ASSUME StoreInv, NEW r \in Requests, QuietStep \/ BatchStepOf(r),
         NEW c \in commits
  PROVE  /\ c.id \in Requests
         /\ request'[c.id] = request[c.id]
         /\ entries'[c.id] = entries[c.id]
<1>1. c.id \in Requests
  BY StoreAssumption DEF StoreInv, TypeOK, TablesTypeOK, CommitRow
<1>2. pc[c.id] \in Settled
  BY DEF StoreInv, RequestsInv
<1>3. pc[c.id] # "idle" /\ pc[c.id] # "heads"
  BY <1>2 DEF Settled
<1>4. CASE QuietStep
  BY <1>1, <1>3, <1>4 DEF QuietStep
<1>5. CASE BatchStepOf(r)
  BY <1>1, <1>5 DEF BatchStepOf
<1> QED BY <1>4, <1>5

LEMMA RowsStay ==
  ASSUME NEW r \in Requests, QuietStep \/ BatchStepOf(r)
  PROVE  versions \subseteq versions' /\ commits \subseteq commits'
           /\ (LedgerExpires \/ ledger \subseteq ledger')
BY DEF QuietStep, BatchStepOf, CommitBatch

LEMMA EffectStays ==
  ASSUME StoreInv, NEW r \in Requests, QuietStep \/ BatchStepOf(r),
         NEW c \in commits, EffectOf(c)
  PROVE  EffectOf(c)'
<1> DEFINE q == c.id
<1>1. request'[q] = request[q] /\ entries'[q] = entries[q]
  BY SettledStays
<1>2. versions \subseteq versions' /\ (LedgerExpires \/ ledger \subseteq ledger')
  BY RowsStay
<1>3. IsSingle(q)' = IsSingle(q) /\ Key(q)' = Key(q) /\ Hash(q)' = Hash(q)
  BY <1>1 DEF IsSingle, Key, Hash
<1>4. ASSUME NEW i \in DOMAIN entries[q]
      PROVE  \E v \in RowsOf(q)' : /\ v.id = c.first + i - 1
                                  /\ v.path = entries[q][i].path
                                  /\ v.version = NextVersion(entries[q][i])
  BY <1>2, <1>4 DEF EffectOf, RowsOf
<1> QED BY <1>1, <1>2, <1>3, <1>4 DEF EffectOf

(* The fields of the batch of a request.                                   *)
LEMMA BatchOfFields ==
  ASSUME NEW r \in Requests
  PROVE  /\ BatchOf(r).id = r
         /\ BatchOf(r).entries = entries[r]
         /\ BatchOf(r).since = request[r].since
         /\ BatchOf(r).whole = request[r].whole
         /\ BatchOf(r).scope = request[r].scope
         /\ BatchOf(r).hash = Hash(r)
         /\ BatchOf(r).ledgerKey = IF IsSingle(r) THEN Key(r) ELSE NoKey
         /\ BatchOf(r).commitKey = IF IsSingle(r) THEN NoKey ELSE Key(r)
BY DEF BatchOf

LEMMA EffectAppears ==
  ASSUME StoreInv, NEW r \in Requests, BatchStepOf(r),
         NEW c, c = NewCommit(BatchOf(r))
  PROVE  EffectOf(c)'
<1> DEFINE b == BatchOf(r)
<1>1. /\ b \in Batch /\ OncePerPath(b) /\ CommitBatch(b) /\ TablesTypeOK
      /\ UNCHANGED <<request, entries>>
  BY BatchOfMakesSense DEF BatchStepOf, StoreInv, TypeOK
<1>2. /\ c.id = r /\ c.count = Len(entries[r]) /\ c.first = lastChange + 1
      /\ c.key = b.commitKey /\ c.hash = Hash(r)
  BY BatchOfFields DEF NewCommit
<1>3. ASSUME NEW i \in DOMAIN entries[r]
      PROVE  \E v \in RowsOf(r)' : /\ v.id = c.first + i - 1
                                  /\ v.path = entries[r][i].path
                                  /\ v.version = NextVersion(entries[r][i])
  <2>1. /\ NewRow(b, i).id = lastChange + i
        /\ NewRow(b, i).commit = r
        /\ NewRow(b, i).path = entries[r][i].path
        /\ NewRow(b, i).version = NextVersion(entries[r][i])
    BY BatchOfFields DEF NewRow, ChangeIdOf
  <2>2. NewRow(b, i) \in versions' /\ i \in Nat
    BY <1>1, BatchOfFields, BatchStep
  <2>3. lastChange \in Nat
    BY <1>1 DEF TablesTypeOK
  <2>4. lastChange + i = (lastChange + 1) + i - 1
    BY <2>2, <2>3
  <2>5. NewRow(b, i) \in RowsOf(r)'
    BY <2>1, <2>2 DEF RowsOf
  <2> QED BY <1>2, <2>1, <2>4, <2>5
<1>4. IsSingle(r) /\ Key(r) # NoKey => \E row \in ledger' : row.key = Key(r)
  <2>1. SUFFICES ASSUME IsSingle(r), Key(r) # NoKey
                 PROVE  \E row \in ledger' : row.key = Key(r)
    OBVIOUS
  <2>2. b.ledgerKey = Key(r)
    BY <2>1, BatchOfFields
  <2> DEFINE row == [key |-> b.ledgerKey, hash |-> b.hash,
                     path |-> b.entries[1].path,
                     version |-> NextVersion(b.entries[1])]
  <2>3. NewLedger(b) = {row}
    BY <2>1, <2>2 DEF NewLedger
  <2>4. row \in ledger'
    BY <1>1, <2>3 DEF CommitBatch
  <2>5. row.key = Key(r)
    BY <2>2
  <2> QED BY <2>4, <2>5
<1>5. IsSingle(r)' = IsSingle(r) /\ Key(r)' = Key(r) /\ Hash(r)' = Hash(r)
  BY <1>1 DEF IsSingle, Key, Hash
<1>6. c.key = IF IsSingle(r) THEN NoKey ELSE Key(r)
  BY <1>2, BatchOfFields
<1> QED BY <1>1, <1>2, <1>3, <1>4, <1>5, <1>6 DEF EffectOf

LEMMA StepKeepsEffects == StoreInv /\ EffectsInv /\ [Next]_vars => EffectsInv'
<1> SUFFICES ASSUME StoreInv, EffectsInv, [Next]_vars, NEW c \in commits'
             PROVE  EffectOf(c)'
  BY DEF EffectsInv
<1>1. CASE QuietStep
  <2>1. c \in commits /\ EffectOf(c) /\ c.id \in Requests
    BY <1>1, StoreAssumption
       DEF QuietStep, EffectsInv, StoreInv, TypeOK, TablesTypeOK, CommitRow
  <2> QED BY <1>1, <2>1, EffectStays
<1>2. ASSUME NEW r \in Requests, BatchStepOf(r) PROVE EffectOf(c)'
  <2>1. c \in commits \/ c = NewCommit(BatchOf(r))
    BY <1>2 DEF BatchStepOf, CommitBatch
  <2> QED BY <1>2, <2>1, EffectStays, EffectAppears DEF EffectsInv
<1> QED BY <1>1, <1>2, StepShape
-----------------------------------------------------------------------------
(* Keys.                                                                   *)

(* The request behind a committed id is a request, with its key and hash.  *)
LEMMA KeysStay ==
  ASSUME StoreInv, NEW r \in Requests, QuietStep \/ BatchStepOf(r),
         NEW q \in Requests, Committed(q)
  PROVE  /\ Key(q)' = Key(q) /\ Hash(q)' = Hash(q)
         /\ IsSingle(q)' = IsSingle(q) /\ request'[q] = request[q]
<1>1. PICK c \in commits : c.id = q
  BY DEF Committed
<1>2. request'[q] = request[q]
  BY <1>1, SettledStays
<1> QED BY <1>2 DEF Key, Hash, IsSingle

LEMMA StepKeepsLedger ==
  StoreInv /\ LedgerTruthful /\ [Next]_vars => LedgerTruthful'
<1> SUFFICES ASSUME StoreInv, LedgerTruthful, [Next]_vars, NEW row \in ledger'
             PROVE  \E v \in RowsAt(row.path, row.version)' :
                      Key(v.commit)' = row.key /\ Hash(v.commit)' = row.hash
  BY DEF LedgerTruthful
<1>1. ASSUME NEW r \in Requests, QuietStep \/ BatchStepOf(r), row \in ledger
      PROVE  \E v \in RowsAt(row.path, row.version)' :
               Key(v.commit)' = row.key /\ Hash(v.commit)' = row.hash
  <2>1. PICK v \in RowsAt(row.path, row.version) :
          Key(v.commit) = row.key /\ Hash(v.commit) = row.hash
    BY <1>1 DEF LedgerTruthful
  <2>2. v \in versions /\ v.commit \in Requests /\ Committed(v.commit)
    BY StoreAssumption
       DEF RowsAt, StoreInv, TablesInv, CommitsWhole, TablesTypeOK, VersionRow
  <2>3. Key(v.commit)' = row.key /\ Hash(v.commit)' = row.hash
    BY <1>1, <2>1, <2>2, KeysStay
  <2>4. v \in RowsAt(row.path, row.version)'
    BY <1>1, <2>1, RowsStay DEF RowsAt
  <2> QED BY <2>3, <2>4
<1>2. ASSUME NEW r \in Requests, BatchStepOf(r), row \notin ledger
      PROVE  \E v \in RowsAt(row.path, row.version)' :
               Key(v.commit)' = row.key /\ Hash(v.commit)' = row.hash
  <2> DEFINE b == BatchOf(r)
  <2>1. /\ b \in Batch /\ OncePerPath(b) /\ CommitBatch(b) /\ TablesTypeOK
        /\ UNCHANGED <<request, entries>>
    BY <1>2, BatchOfMakesSense DEF BatchStepOf, StoreInv, TypeOK
  <2>2. row \in NewLedger(b) /\ b.ledgerKey # NoKey
    BY <1>2, <2>1 DEF CommitBatch, NewLedger
  <2>3. /\ row.key = Key(r) /\ row.hash = Hash(r)
        /\ row.path = b.entries[1].path /\ row.version = NextVersion(b.entries[1])
    BY <2>2, BatchOfFields DEF NewLedger
  <2>4. 1 \in DOMAIN b.entries
    BY <2>1 DEF Batch, EntryLists
  <2>5. NewRow(b, 1) \in versions'
    BY <2>1, <2>4, BatchStep
  <2>6. /\ NewRow(b, 1).commit = r /\ NewRow(b, 1).path = row.path
        /\ NewRow(b, 1).version = row.version
    BY <2>3, BatchOfFields DEF NewRow
  <2>7. Key(r)' = Key(r) /\ Hash(r)' = Hash(r)
    BY <2>1 DEF Key, Hash
  <2> QED BY <2>3, <2>5, <2>6, <2>7 DEF RowsAt
<1>3. CASE QuietStep
  <2>1. row \in ledger
    BY <1>3 DEF QuietStep
  <2>2. PICK v \in RowsAt(row.path, row.version) : TRUE
    BY <2>1 DEF LedgerTruthful
  <2>3. v.commit \in Requests
    BY StoreAssumption DEF RowsAt, StoreInv, TypeOK, TablesTypeOK, VersionRow
  <2> QED BY <1>1, <1>3, <2>1, <2>3
<1> QED BY <1>1, <1>2, <1>3, StepShape

(* The row a key leads to is the one its call wrote.                       *)
THEOREM LedgerIsTruthful == Spec => []LedgerTruthful
<1>1. Init => LedgerTruthful
  BY DEF Init, TablesInit, LedgerTruthful
<1> QED BY <1>1, InitialStoreInv, StepKeepsStoreInv, StepKeepsLedger, PTL
        DEF Spec

LEMMA InitialEffects == Init => EffectsInv
BY DEF Init, TablesInit, EffectsInv

(* A batch is refused a key that a request of its kind committed under.    *)
LEMMA KeyTaken ==
  ASSUME StoreInv, EffectsInv, NEW r \in Requests, BatchStepOf(r),
         NEW s \in Requests, Committed(s), Key(s) = Key(r), Key(r) # NoKey
  PROVE  IsSingle(r) # IsSingle(s) \/ (LedgerExpires /\ IsSingle(s))
<1> DEFINE b == BatchOf(r)
<1>1. KeysFree(b)
  BY DEF BatchStepOf, CommitBatch, Wins
<1>2. PICK c \in commits : c.id = s
  BY DEF Committed
<1>3. EffectOf(c)
  BY DEF EffectsInv
<1>4. CASE IsSingle(r) /\ IsSingle(s)
  <2>1. LedgerExpires \/ \E row \in ledger : row.key = Key(s)
    BY <1>2, <1>3, <1>4 DEF EffectOf
  <2>2. \A row \in ledger : row.key # Key(r)
    BY <1>1, <1>4, BatchOfFields DEF KeysFree
  <2> QED BY <1>4, <2>1, <2>2
<1>5. CASE ~IsSingle(r) /\ ~IsSingle(s)
  <2>1. c.key = Key(s)
    BY <1>2, <1>3, <1>5 DEF EffectOf
  <2>2. \A row \in commits : row.key # Key(r)
    BY <1>1, <1>5, BatchOfFields DEF KeysFree
  <2> QED BY <2>1, <2>2
<1>6. IsSingle(r) \in BOOLEAN /\ IsSingle(s) \in BOOLEAN
  BY DEF IsSingle
<1> QED BY <1>4, <1>5, <1>6

LEMMA StepKeepsKeys ==
  StoreInv /\ EffectsInv /\ OneEffectPerKey /\ [Next]_vars => OneEffectPerKey'
<1> SUFFICES ASSUME StoreInv, EffectsInv, OneEffectPerKey, [Next]_vars,
                    NEW q \in Requests, NEW s \in Requests, q # s,
                    Committed(q)', Committed(s)', (Key(q) = Key(s))',
                    (Key(q) # NoKey)'
             PROVE  (IsSingle(q) # IsSingle(s) \/ (LedgerExpires /\ IsSingle(q)))'
  BY DEF OneEffectPerKey
<1>1. ASSUME NEW r \in Requests, QuietStep \/ BatchStepOf(r),
             Committed(q), Committed(s)
      PROVE  (IsSingle(q) # IsSingle(s) \/ (LedgerExpires /\ IsSingle(q)))'
  <2>1. /\ Key(q)' = Key(q) /\ IsSingle(q)' = IsSingle(q)
        /\ Key(s)' = Key(s) /\ IsSingle(s)' = IsSingle(s)
    BY <1>1, KeysStay
  <2> QED BY <1>1, <2>1 DEF OneEffectPerKey
<1>2. CASE QuietStep
  <2>1. Committed(q) /\ Committed(s)
    BY <1>2 DEF QuietStep, Committed
  <2> QED BY <1>1, <1>2, <2>1
<1>3. ASSUME NEW r \in Requests, BatchStepOf(r)
      PROVE  (IsSingle(q) # IsSingle(s) \/ (LedgerExpires /\ IsSingle(q)))'
  <2>1. NewCommit(BatchOf(r)).id = r
    BY BatchOfFields DEF NewCommit
  <2>2. \A x : Committed(x)' => Committed(x) \/ x = r
    BY <1>3, <2>1 DEF BatchStepOf, CommitBatch, Committed
  <2>3. Key(r)' = Key(r) /\ IsSingle(r)' = IsSingle(r)
    BY <1>3 DEF BatchStepOf, Key, IsSingle
  <2>4. CASE Committed(q) /\ Committed(s)
    BY <1>1, <1>3, <2>4
  <2>5. CASE Committed(q) /\ s = r
    <3>1. Key(q)' = Key(q) /\ IsSingle(q)' = IsSingle(q)
      BY <1>3, <2>5, KeysStay
    <3>2. Key(q) = Key(r) /\ Key(r) # NoKey
      BY <2>3, <2>5, <3>1
    <3>3. IsSingle(r) # IsSingle(q) \/ (LedgerExpires /\ IsSingle(q))
      BY <1>3, <2>5, <3>2, KeyTaken
    <3> QED BY <2>3, <2>5, <3>1, <3>3
  <2>6. CASE Committed(s) /\ q = r
    <3>1. Key(s)' = Key(s) /\ IsSingle(s)' = IsSingle(s)
      BY <1>3, <2>6, KeysStay
    <3>2. Key(s) = Key(r) /\ Key(r) # NoKey
      BY <2>3, <2>6, <3>1
    <3>3. IsSingle(r) # IsSingle(s) \/ (LedgerExpires /\ IsSingle(s))
      BY <1>3, <2>6, <3>2, KeyTaken
    <3> QED BY <2>3, <2>6, <3>1, <3>3
  <2> QED BY <2>2, <2>4, <2>5, <2>6
<1> QED BY <1>2, <1>3, StepShape

(* However requests race, crash and are retried, a key has one effect.     *)
THEOREM KeysActOnce == Spec => []OneEffectPerKey
<1>1. Init => OneEffectPerKey
  BY DEF Init, TablesInit, OneEffectPerKey, Committed
<1> QED BY <1>1, InitialStoreInv, InitialEffects, StepKeepsStoreInv,
           StepKeepsEffects, StepKeepsKeys, PTL DEF Spec
-----------------------------------------------------------------------------
(* Fences.                                                                 *)

(* A commit's first change is one that has been numbered.                  *)
LEMMA FirstIsPast ==
  ASSUME TablesInv, NEW c \in commits
  PROVE  c.first \in Nat \ {0} /\ c.first <= lastChange
<1>1. /\ c.first \in Nat \ {0} /\ c.last \in Nat \ {0} /\ c.count \in Nat \ {0}
      /\ c.last = c.first + c.count - 1
      /\ {v.id : v \in RowsOf(c.id)} = c.first..c.last
  BY DEF TablesInv, TablesTypeOK, CommitRow, CommitsWhole
<1>2. c.first \in c.first..c.last
  BY <1>1
<1>3. PICK v \in RowsOf(c.id) : v.id = c.first
  BY <1>1, <1>2
<1>4. v.id <= lastChange
  BY <1>3 DEF RowsOf, TablesInv, FeedFollowsHistory
<1> QED BY <1>1, <1>3, <1>4

Between(n, v, m) == n < v.id /\ v.id < m

LEMMA FenceStays ==
  ASSUME StoreInv, FencesHeld, NEW r \in Requests, QuietStep \/ BatchStepOf(r),
         NEW c \in commits
  PROVE  /\ request'[c.id].whole =>
              /\ \A v \in versions' : ~Between(request'[c.id].since, v, c.first)
              /\ request'[c.id].since = 0
                   \/ \E v \in versions' : v.id = request'[c.id].since
         /\ \A v \in versions' : v.path \in request'[c.id].scope =>
              ~Between(request'[c.id].since, v, c.first)
<1>1. request'[c.id] = request[c.id]
  BY SettledStays
<1>2. c.first \in Nat /\ lastChange \in Nat /\ c.first <= lastChange
  BY FirstIsPast DEF StoreInv, TablesInv, TablesTypeOK
<1>3. versions \subseteq versions'
  BY RowsStay
<1>4. ASSUME NEW v \in versions', v \notin versions
      PROVE  ~(v.id < c.first)
  <2>1. BatchStepOf(r) /\ TablesTypeOK
    BY <1>4 DEF QuietStep, StoreInv, TypeOK
  <2>2. BatchOf(r) \in Batch /\ OncePerPath(BatchOf(r)) /\ CommitBatch(BatchOf(r))
    BY <2>1, BatchOfMakesSense DEF BatchStepOf
  <2>3. PICK i \in DOMAIN BatchOf(r).entries : v = NewRow(BatchOf(r), i)
    BY <1>4, <2>1, <2>2, BatchStep
  <2>4. v.id = lastChange + i /\ i \in Nat
    BY <2>1, <2>2, <2>3, BatchStep
  <2> QED BY <1>2, <2>4
<1>5. \A v \in versions :
        /\ request[c.id].whole => ~Between(request[c.id].since, v, c.first)
        /\ v.path \in request[c.id].scope
             => ~Between(request[c.id].since, v, c.first)
  BY DEF FencesHeld, Between
<1>6. request[c.id].whole =>
        request[c.id].since = 0 \/ \E v \in versions : v.id = request[c.id].since
  BY DEF FencesHeld
<1> QED BY <1>1, <1>3, <1>4, <1>5, <1>6 DEF Between

LEMMA FenceAppears ==
  ASSUME StoreInv, NEW r \in Requests, BatchStepOf(r)
  PROVE  /\ request'[r].whole =>
              /\ \A v \in versions' :
                   ~Between(request'[r].since, v, lastChange + 1)
              /\ request'[r].since = 0
                   \/ \E v \in versions' : v.id = request'[r].since
         /\ \A v \in versions' : v.path \in request'[r].scope =>
              ~Between(request'[r].since, v, lastChange + 1)
<1> DEFINE b == BatchOf(r)
<1>1. /\ b \in Batch /\ OncePerPath(b) /\ CommitBatch(b) /\ TablesTypeOK
      /\ request' = request /\ GateFence(b)
  BY BatchOfMakesSense
     DEF BatchStepOf, StoreInv, TypeOK, CommitBatch, Wins, Gate
<1>2. versions \subseteq versions' /\ lastChange \in Nat
  BY <1>1, BatchStep DEF TablesTypeOK
<1>3. ASSUME NEW v \in versions', v \notin versions
      PROVE  ~(v.id < lastChange + 1)
  <2>1. PICK i \in DOMAIN b.entries : v = NewRow(b, i)
    BY <1>1, <1>3, BatchStep
  <2>2. v.id = lastChange + i /\ i \in Nat \ {0}
    BY <1>1, <2>1, BatchStep
  <2> QED BY <1>2, <2>2
<1>4. \A v \in versions : v.path \in Paths
  BY <1>1 DEF TablesTypeOK, VersionRow
<1>5. request[r].whole =>
        /\ \A v \in versions : ~(v.id > request[r].since)
        /\ request[r].since = 0 \/ \E v \in versions : v.id = request[r].since
  BY <1>1, <1>4, BatchOfFields DEF GateFence, IsNewestChange, ChangedSince
<1>6. \A v \in versions :
        v.path \in request[r].scope => ~(v.id > request[r].since)
  BY <1>1, BatchOfFields DEF GateFence, ChangedSince
<1>7. request[r].since \in Nat /\ \A v \in versions : v.id \in Nat
  <2>1. request[r] \in Call
    BY StoreAssumption DEF BatchStepOf, StoreInv, RequestsInv
  <2> QED BY <1>1, <2>1 DEF Call, TablesTypeOK, VersionRow
<1>8. \A v \in versions : ~(v.id > request[r].since) => ~(request[r].since < v.id)
  BY <1>7
<1> QED BY <1>1, <1>2, <1>3, <1>5, <1>6, <1>8 DEF Between

LEMMA StepKeepsFences == StoreInv /\ FencesHeld /\ [Next]_vars => FencesHeld'
<1> SUFFICES ASSUME StoreInv, FencesHeld, [Next]_vars, NEW c \in commits'
             PROVE  /\ request'[c.id].whole =>
                         /\ \A v \in versions' :
                              ~Between(request'[c.id].since, v, c.first)
                         /\ request'[c.id].since = 0
                              \/ \E v \in versions' : v.id = request'[c.id].since
                    /\ \A v \in versions' : v.path \in request'[c.id].scope =>
                         ~Between(request'[c.id].since, v, c.first)
  BY DEF FencesHeld, Between
<1>1. CASE QuietStep
  <2>1. c \in commits
    BY <1>1 DEF QuietStep
  <2>2. c.id \in Requests
    BY <2>1, StoreAssumption DEF StoreInv, TypeOK, TablesTypeOK, CommitRow
  <2> QED BY <1>1, <2>1, <2>2, FenceStays
<1>2. ASSUME NEW r \in Requests, BatchStepOf(r), c \notin commits
      PROVE  c.id = r /\ c.first = lastChange + 1
  <2>1. c = NewCommit(BatchOf(r))
    BY <1>2 DEF BatchStepOf, CommitBatch
  <2> QED BY <2>1, BatchOfFields DEF NewCommit
<1>3. CASE \E r \in Requests : BatchStepOf(r)
  <2>1. PICK r \in Requests : BatchStepOf(r)
    BY <1>3
  <2>2. CASE c \in commits
    BY <2>1, <2>2, FenceStays
  <2>3. CASE c \notin commits
    BY <1>2, <2>1, <2>3, FenceAppears
  <2> QED BY <2>2, <2>3
<1> QED BY <1>1, <1>3, StepShape

(* A fence that holds when the batch runs held at every change before it.  *)
THEOREM FencesAreHeld == Spec => []FencesHeld
<1>1. Init => FencesHeld
  BY DEF Init, TablesInit, FencesHeld
<1> QED BY <1>1, InitialStoreInv, StepKeepsStoreInv, StepKeepsFences, PTL
        DEF Spec
-----------------------------------------------------------------------------
(* Repetition.                                                             *)

Undecided == {"revert", "target", "heads"}

LEMMA MovesKeepCalls ==
  ASSUME StoreInv, CallsInv, NEW r \in Requests, NEW place,
         pc' = [pc EXCEPT ![r] = place], UNCHANGED <<request, entries>>,
         pc[r] # "idle", place \in Undecided => pc[r] \in Undecided
  PROVE  CallsInv'
<1> SUFFICES ASSUME NEW q \in Requests
             PROVE  /\ pc'[q] \in Undecided => IsRevert(q)'
                    /\ pc'[q] # "idle" /\ ~IsRevert(q)' =>
                         entries'[q] = request'[q].entries
  BY DEF CallsInv, Undecided
<1>1. IsRevert(q)' = IsRevert(q)
  BY DEF IsRevert
<1>2. pc \in [Requests -> Places]
  BY DEF StoreInv, TypeOK
<1> QED BY <1>1, <1>2 DEF CallsInv, Undecided

LEMMA GotoKeepsCalls ==
  ASSUME StoreInv, CallsInv, NEW r \in Requests, NEW place, Goto(r, place),
         pc[r] # "idle", place \in Undecided => pc[r] \in Undecided
  PROVE  CallsInv'
BY MovesKeepCalls DEF Goto

LEMMA ReplyKeepsCalls ==
  ASSUME StoreInv, CallsInv, NEW r \in Requests, NEW a, Reply(r, a), pc[r] # "idle"
  PROVE  CallsInv'
BY MovesKeepCalls DEF Reply, Undecided

LEMMA ArriveKeepsCalls ==
  ASSUME StoreInv, CallsInv, NEW r \in Requests, Arrive(r)
  PROVE  CallsInv'
<1>1. PICK c \in Calls[r] :
        /\ request' = [request EXCEPT ![r] = c]
        /\ entries' = [entries EXCEPT ![r] = c.entries]
        /\ pc' = [pc EXCEPT ![r] = IF c.call = "revert" THEN "revert" ELSE "live"]
  BY DEF Arrive
<1>2. /\ pc \in [Requests -> Places] /\ request \in [Requests -> Call \cup {NoRequest}]
      /\ entries \in [Requests -> Seq(Entry)]
  BY DEF StoreInv, TypeOK
<1>3. ASSUME NEW q \in Requests, q # r
      PROVE  /\ pc'[q] = pc[q] /\ request'[q] = request[q]
             /\ entries'[q] = entries[q] /\ IsRevert(q)' = IsRevert(q)
  BY <1>1, <1>2, <1>3 DEF IsRevert
<1>4. /\ request'[r] = c /\ entries'[r] = c.entries
      /\ IsRevert(r)' = (c.call = "revert")
      /\ pc'[r] = IF c.call = "revert" THEN "revert" ELSE "live"
  BY <1>1, <1>2 DEF IsRevert
<1> QED BY <1>3, <1>4 DEF CallsInv

LEMMA ReadHeadsKeepsCalls ==
  ASSUME StoreInv, CallsInv, NEW r \in Requests, ReadHeads(r)
  PROVE  CallsInv'
<1>1. IsRevert(r) /\ pc[r] = "heads"
  BY DEF ReadHeads, CallsInv
<1>2. CASE Reply(r, Refusal("validation"))
  BY <1>1, <1>2, ReplyKeepsCalls
<1>3. ASSUME NEW es, entries' = [entries EXCEPT ![r] = es],
             pc' = [pc EXCEPT ![r] = "live"], request' = request
      PROVE  CallsInv'
  <2>1. /\ pc \in [Requests -> Places] /\ entries \in [Requests -> Seq(Entry)]
    BY DEF StoreInv, TypeOK
  <2>2. \A q \in Requests : IsRevert(q)' = IsRevert(q)
    BY <1>3 DEF IsRevert
  <2> QED BY <1>1, <1>3, <2>1, <2>2 DEF CallsInv
<1> QED BY <1>2, <1>3 DEF ReadHeads

LEMMA PriorKeepsCalls ==
  ASSUME StoreInv, CallsInv, NEW r \in Requests, NEW next \in {"head", "rehead"},
         AnswerFromPrior(r, next), pc[r] # "idle"
  PROVE  CallsInv'
BY GotoKeepsCalls, ReplyKeepsCalls DEF AnswerFromPrior, Undecided

LEMMA StepKeepsCalls == StoreInv /\ CallsInv /\ [Next]_vars => CallsInv'
<1> SUFFICES ASSUME StoreInv, CallsInv, [Next]_vars PROVE CallsInv'
  OBVIOUS
<1> USE GotoKeepsCalls, ReplyKeepsCalls DEF Undecided
<1>1. ASSUME NEW r \in Requests, Step(r)
      PROVE  CallsInv'
  <2>1. CASE Arrive(r) \/ ReadHeads(r)
    BY <2>1, ArriveKeepsCalls, ReadHeadsKeepsCalls
  <2>2. CASE CheckRevertLive(r) \/ ReadTarget(r) \/ CheckLive(r)
    BY <2>2 DEF CheckRevertLive, ReadTarget, CheckLive
  <2>3. CASE CheckReplay(r) \/ RecheckReplay(r)
    BY <2>3, PriorKeepsCalls DEF CheckReplay, RecheckReplay
  <2>4. CASE CheckHead(r)
    BY <2>4 DEF CheckHead
  <2>5. CASE CheckSource(r) \/ CheckSnapshot(r)
    BY <2>5 DEF CheckSource, CheckSnapshot
  <2>6. CASE Win(r) \/ Throw(r)
    BY <2>6, MovesKeepCalls DEF Win, Throw
  <2>7. CASE Lose(r) \/ Respond(r) \/ RecheckLive(r)
    BY <2>7 DEF Lose, Respond, RecheckLive
  <2>8. CASE ClassifyWrite(r)
    BY <2>8, MovesKeepCalls DEF ClassifyWrite
  <2>9. CASE ClassifyRollback(r) \/ ClassifyCommit(r)
    BY <2>9 DEF ClassifyRollback, ClassifyCommit
  <2> QED BY <1>1, <2>1, <2>2, <2>3, <2>4, <2>5, <2>6, <2>7, <2>8, <2>9 DEF Step
<1>2. CASE Lifecycle \/ Foreign \/ CollectLedger \/ UNCHANGED vars
  <2>1. UNCHANGED <<pc, request, entries>>
    BY <1>2 DEF Lifecycle, Foreign, CollectLedger, vars, control
  <2> QED BY <2>1 DEF CallsInv, IsRevert
<1> QED BY <1>1, <1>2 DEF Next

LEMMA NoSecondEffect ==
  StoreInv /\ CallsInv /\ EffectsInv /\ OneEffectPerKey => RepeatAppliesOnce
<1> SUFFICES ASSUME StoreInv, CallsInv, EffectsInv, OneEffectPerKey,
                    NEW r \in Requests, NEW s \in Requests,
                    Committed(r), Committed(s), Key(r) # NoKey,
                    request[r] = request[s], r # s
             PROVE  FALSE
  BY DEF RepeatAppliesOnce
<1>1. IsSingle(r) /\ IsSingle(s)
  BY DEF OneEffectPerKey, Key, IsSingle
<1>2. PICK c \in commits : c.id = r
  BY DEF Committed
<1>3. PICK d \in commits : d.id = s
  BY DEF Committed
<1>4. pc[r] \in Settled /\ pc[s] \in Settled
  BY <1>2, <1>3 DEF StoreInv, RequestsInv
<1>5. ~IsRevert(r) /\ ~IsRevert(s)
  BY <1>1 DEF IsRevert, IsSingle, SingleCalls
<1>6. entries[r] = entries[s]
  BY <1>4, <1>5 DEF CallsInv, Settled
<1>7. 1 \in DOMAIN entries[r]
  <2>1. entries[r] \in Seq(Entry)
    BY DEF StoreInv, TypeOK
  <2>2. Len(entries[r]) = c.count /\ c.count \in Nat \ {0}
    BY <1>2 DEF EffectsInv, EffectOf, StoreInv, TypeOK, TablesTypeOK, CommitRow
  <2> QED BY <2>1, <2>2
<1>8. PICK v \in RowsOf(r) : /\ v.path = entries[r][1].path
                             /\ v.version = NextVersion(entries[r][1])
  BY <1>2, <1>7 DEF EffectsInv, EffectOf
<1>9. PICK w \in RowsOf(s) : /\ w.path = entries[r][1].path
                             /\ w.version = NextVersion(entries[r][1])
  BY <1>3, <1>6, <1>7 DEF EffectsInv, EffectOf
<1>10. v = w
  BY <1>8, <1>9 DEF RowsOf, StoreInv, TablesInv, HistoryContiguous
<1> QED BY <1>8, <1>9, <1>10 DEF RowsOf

(* A repeated write needs the version that the first one replaced: without *)
(* its ledger row it is refused, not applied again.                        *)
THEOREM RepetitionIsHarmless == Spec => []RepeatAppliesOnce
<1>1. Init => CallsInv /\ OneEffectPerKey
  BY DEF Init, TablesInit, CallsInv, OneEffectPerKey, Committed
<1> QED BY <1>1, NoSecondEffect, InitialStoreInv, InitialEffects, StepKeepsStoreInv,
           StepKeepsCalls, StepKeepsEffects, StepKeepsKeys, PTL DEF Spec
-----------------------------------------------------------------------------
(* Answers.                                                                *)

(* The rows of a commit are as many as it counts, and found by change id.  *)
LEMMA RowsCounted ==
  ASSUME StoreInv, NEW c \in commits
  PROVE  /\ Cardinality(RowsOf(c.id)) = c.count
         /\ RowsOf(c.id) # {}
<1> DEFINE R == RowsOf(c.id)
           f == [v \in R |-> v.id]
<1>1. /\ c.first \in Nat \ {0} /\ c.last \in Nat \ {0} /\ c.count \in Nat \ {0}
      /\ c.last = c.first + c.count - 1
      /\ {v.id : v \in R} = c.first..c.last
  BY DEF StoreInv, TablesInv, TablesTypeOK, CommitRow, CommitsWhole
<1>2. R \subseteq versions /\ IsFiniteSet(R)
  BY FS_Subset DEF RowsOf, StoreInv, RequestsInv
<1>3. \A v, w \in R : v.id = w.id => v = w
  BY <1>2 DEF StoreInv, TablesInv, FeedFollowsHistory
<1> DEFINE I == c.first..c.last
<1>4. f \in Bijection(R, I)
  <2>1. f \in [R -> I]
    BY <1>1
  <2>2. \A v, w \in R : f[v] = f[w] => v = w
    BY <1>3
  <2>3. \A n \in I : \E v \in R : f[v] = n
    BY <1>1
  <2> HIDE DEF f, R, I
  <2> QED BY <2>1, <2>2, <2>3 DEF Bijection, Injection, Surjection, IsInjective
<1>5. Cardinality(I) = Cardinality(R)
  <2> HIDE DEF f, R, I
  <2> QED BY <1>2, <1>4, FS_Bijection DEF ExistsBijection
<1>6. Cardinality(I) = c.count
  <2>1. Cardinality(I) = IF c.first > c.last THEN 0 ELSE c.last - c.first + 1
    <3>1. c.first \in Int /\ c.last \in Int
      BY <1>1
    <3> QED BY <3>1, FS_Interval, Zenon
  <2> QED BY <1>1, <2>1
<1>7. c.first \in I
  BY <1>1
<1> QED BY <1>1, <1>5, <1>6, <1>7

(* A winner always finds its rows again.                                   *)
LEMMA WinnerReadsBack ==
  ASSUME StoreInv, CallsInv, EffectsInv, NEW r \in Requests, Committed(r)
  PROVE  ReadsBack(r)
<1>1. PICK c \in commits : c.id = r
  BY DEF Committed
<1>2. EffectOf(c) /\ c.count = Len(entries[r]) /\ c.count \in Nat \ {0}
  BY <1>1 DEF EffectsInv, EffectOf, StoreInv, TypeOK, TablesTypeOK, CommitRow
<1>3. Cardinality(RowsOf(r)) = c.count
  BY <1>1, RowsCounted
<1>4. CASE IsSingle(r)
  <2>1. pc[r] # "idle" /\ ~IsRevert(r)
    BY <1>1, <1>4
       DEF StoreInv, RequestsInv, Settled, IsSingle, IsRevert, SingleCalls
  <2>2. request[r] \in Calls[r] /\ entries[r] = request[r].entries
    BY <2>1 DEF StoreInv, RequestsInv, CallsInv
  <2>3. Len(entries[r]) = 1
    BY <1>4, <2>2, StoreAssumption DEF WellFormed, IsSingle
  <2> QED BY <1>2, <1>3, <1>4, <2>3 DEF ReadsBack
<1>5. CASE ~IsSingle(r)
  <2>1. ASSUME NEW i \in 1..c.count
        PROVE  entries[r][i].path = PathOfChange(r, c.first + i - 1)
    <3>1. i \in DOMAIN entries[r]
      BY <1>2, <2>1 DEF StoreInv, TypeOK
    <3>2. PICK v \in RowsOf(r) : /\ v.id = c.first + i - 1
                                 /\ v.path = entries[r][i].path
      BY <1>1, <1>2, <3>1 DEF EffectOf
    <3>3. \A w \in RowsOf(r) : w.id = v.id => w = v
      BY <3>2 DEF RowsOf, StoreInv, TablesInv, FeedFollowsHistory
    <3>4. (CHOOSE w \in RowsOf(r) : w.id = c.first + i - 1) = v
      BY <3>2, <3>3
    <3> QED BY <3>2, <3>4 DEF PathOfChange
  <2>2. Len(entries[r]) >= c.count
    BY <1>2
  <2>3. Rebuilt(r, c)
    BY <1>1, <1>3, <2>1, <2>2 DEF Rebuilt
  <2> QED BY <1>1, <1>5, <2>3 DEF ReadsBack
<1> QED BY <1>4, <1>5

(* Past its batch, a request that committed has won or had its call fail.  *)
Tracked(r) ==
  /\ pc[r] = "won" => Committed(r)
  /\ Committed(r) /\ pc[r] \in Settled \ {"won", "done"} => r \in thrown

(* What AnswersMatchEffects says of a success.                             *)
Earned(r, a) ==
  /\ Committed(a.effect)
  /\ Hash(a.effect) = Hash(r)
  /\ IF a.replayed THEN Key(a.effect) = Key(r) /\ Key(r) # NoKey
     ELSE a.effect = r

AnswersInv == AnswersMatchEffects /\ \A r \in Requests : Tracked(r)

(* The answers that handlers give are earned.                              *)
LEMMA SuccessFields ==
  ASSUME NEW c, NEW again
  PROVE  /\ Success(c, again).code = "ok"
         /\ Success(c, again).effect = c
         /\ Success(c, again).replayed = again
BY DEF Success

LEMMA ReplayWriteEarned ==
  ASSUME StoreInv, LedgerTruthful, NEW r \in Requests,
         NEW row \in PriorWrites(r), ReplayWrite(r, row).code = "ok"
  PROVE  Earned(r, ReplayWrite(r, row))
<1> DEFINE rows == RowsAt(row.path, row.version)
           v == CHOOSE w \in rows : TRUE
<1>1. row \in ledger /\ row.key = Key(r)
  BY DEF PriorWrites
<1>2. PICK u \in rows : Key(u.commit) = row.key /\ Hash(u.commit) = row.hash
  BY <1>1 DEF LedgerTruthful
<1>3. v \in rows /\ v = u
  BY <1>2 DEF RowsAt, StoreInv, TablesInv, HistoryContiguous
<1>4. row.hash = Hash(r) /\ ReplayWrite(r, row) = Success(v.commit, TRUE)
  BY <1>2 DEF ReplayWrite, Refusal
<1>5. Committed(v.commit)
  BY <1>3 DEF RowsAt, StoreInv, TablesInv, CommitsWhole
<1>6. Hash(v.commit) = Hash(r) /\ Key(v.commit) = Key(r) /\ Key(r) # NoKey
  BY <1>1, <1>2, <1>3, <1>4, TablesAssumption
     DEF StoreInv, TypeOK, TablesTypeOK, LedgerRow
<1> HIDE DEF v, rows
<1>7. Earned(r, Success(v.commit, TRUE))
  BY <1>5, <1>6, SuccessFields DEF Earned
<1> QED BY <1>4, <1>7

LEMMA CommitEarned ==
  ASSUME EffectsInv, NEW r \in Requests, NEW row \in PriorCommits(r),
         row.hash = Hash(r)
  PROVE  Earned(r, Success(row.id, TRUE))
<1>1. row \in commits /\ row.key = Key(r) /\ Key(r) # NoKey
  BY DEF PriorCommits
<1>2. row.key = Key(row.id) /\ row.hash = Hash(row.id)
  BY <1>1 DEF EffectsInv, EffectOf
<1> QED BY <1>1, <1>2 DEF Earned, Success, Committed

LEMMA ReplayCommitEarned ==
  ASSUME EffectsInv, NEW r \in Requests, NEW row \in PriorCommits(r),
         ReplayCommit(r, row).code = "ok"
  PROVE  Earned(r, ReplayCommit(r, row))
<1>1. row.hash = Hash(r) /\ ReplayCommit(r, row) = Success(row.id, TRUE)
  BY DEF ReplayCommit, Refusal
<1> QED BY <1>1, CommitEarned
(* What AnswersInv says of one request.                                    *)
Fair(r) ==
  /\ Answered(r) => IF answer[r].code = "ok" THEN Earned(r, answer[r])
                    ELSE r \in thrown \/ ~Committed(r)
  /\ Tracked(r)

LEMMA AnswersAreFair == AnswersInv <=> \A r \in Requests : Fair(r)
BY DEF AnswersInv, AnswersMatchEffects, Fair, Earned

LEMMA FairAnswersNext ==
  ASSUME \A r \in Requests : Fair(r)'
  PROVE  AnswersInv'
BY DEF AnswersInv, AnswersMatchEffects, Fair, Earned

(* A success stays earned.                                                 *)
LEMMA EarnedStays ==
  ASSUME StoreInv, NEW r \in Requests, QuietStep \/ BatchStepOf(r),
         NEW q \in Requests, pc[q] # "idle", NEW a \in Answer, Earned(q, a)
  PROVE  Earned(q, a)'
<1>1. PICK c \in commits : c.id = a.effect
  BY DEF Earned, Committed
<1>2. a.effect \in Requests
  BY <1>1, StoreAssumption DEF StoreInv, TypeOK, TablesTypeOK, CommitRow
<1>3. Hash(a.effect)' = Hash(a.effect) /\ Key(a.effect)' = Key(a.effect)
  BY <1>2, KeysStay DEF Earned
<1>4. request'[q] = request[q]
  BY DEF QuietStep, BatchStepOf
<1>5. Hash(q)' = Hash(q) /\ Key(q)' = Key(q)
  BY <1>4 DEF Hash, Key
<1>6. Committed(a.effect)'
  BY <1>1, RowsStay DEF Committed
<1> QED BY <1>3, <1>5, <1>6 DEF Earned

(* A request that another one's step passes by.                            *)
LEMMA BystanderIsFair ==
  ASSUME StoreInv, NEW r \in Requests, QuietStep \/ BatchStepOf(r),
         NEW q \in Requests, Fair(q),
         pc'[q] = pc[q], answer'[q] = answer[q], thrown \subseteq thrown',
         q # r \/ UNCHANGED commits
  PROVE  Fair(q)'
<1>1. Committed(q)' <=> Committed(q)
  <2>1. CASE UNCHANGED commits
    BY <2>1 DEF Committed
  <2>2. CASE BatchStepOf(r) /\ q # r
    <3>1. NewCommit(BatchOf(r)).id = r
      BY BatchOfFields DEF NewCommit
    <3> QED BY <2>2, <3>1 DEF BatchStepOf, CommitBatch, Committed
  <2> QED BY <2>1, <2>2 DEF QuietStep
<1>2. Tracked(q)'
  BY <1>1 DEF Fair, Tracked
<1>3. Answered(q)' /\ answer'[q].code = "ok" => Earned(q, answer[q])'
  <2>1. SUFFICES ASSUME Answered(q), answer[q].code = "ok"
                 PROVE  Earned(q, answer[q])'
    BY DEF Answered
  <2>2. answer[q] \in Answer /\ pc[q] # "idle" /\ Earned(q, answer[q])
    BY <2>1 DEF Fair, Answered, StoreInv, TypeOK
  <2>3. \A a \in Answer : Earned(q, a) => Earned(q, a)'
    BY <2>2, EarnedStays
  <2>4. PICK a \in Answer : a = answer[q]
    BY <2>2
  <2>5. Earned(q, a)'
    BY <2>2, <2>3, <2>4
  <2> QED BY <2>4, <2>5 DEF Earned
<1> QED BY <1>1, <1>2, <1>3 DEF Fair, Answered

LEMMA MoveIsFair ==
  ASSUME StoreInv, AnswersInv, NEW r \in Requests, NEW place, QuietStep,
         pc' = [pc EXCEPT ![r] = place], UNCHANGED <<answer, thrown>>,
         pc[r] \notin {"won", "done"}, place \notin {"won", "done"}
  PROVE  AnswersInv'
<1>1. ASSUME NEW q \in Requests PROVE Fair(q)'
  <2>1. Fair(q)
    BY AnswersAreFair
  <2>2. CASE q # r
    BY <2>1, <2>2, BystanderIsFair
  <2>3. CASE q = r
    <3>1. pc'[r] = place
      BY DEF StoreInv, TypeOK
    <3>2. Committed(r)' <=> Committed(r)
      BY DEF QuietStep, Committed
    <3>3. Committed(r) => r \in thrown
      BY <2>1, <2>3 DEF Fair, Tracked, Committed, StoreInv, RequestsInv, Settled
    <3> QED BY <2>3, <3>1, <3>2, <3>3 DEF Fair, Answered, Tracked
  <2> QED BY <2>2, <2>3
<1> QED BY <1>1, FairAnswersNext
LEMMA ReplyIsFair ==
  ASSUME StoreInv, AnswersInv, NEW r \in Requests, NEW a, Reply(r, a),
         pc[r] \notin {"idle", "done"},
         a.code = "ok" => a \in Answer /\ Earned(r, a),
         a.code # "ok" => pc[r] # "won"
  PROVE  AnswersInv'
<1>1. QuietStep
  BY QuietReply
<1>2. /\ pc' = [pc EXCEPT ![r] = "done"] /\ answer' = [answer EXCEPT ![r] = a]
      /\ UNCHANGED thrown /\ UNCHANGED commits
  BY DEF Reply, tables
<1>3. pc \in [Requests -> Places] /\ answer \in [Requests -> Answer]
  BY DEF StoreInv, TypeOK
<1>4. ASSUME NEW q \in Requests PROVE Fair(q)'
  <2>1. Fair(q)
    BY AnswersAreFair
  <2>2. CASE q # r
    <3>1. pc'[q] = pc[q] /\ answer'[q] = answer[q]
      BY <1>2, <1>3, <2>2
    <3> QED BY <1>1, <1>2, <2>1, <3>1, BystanderIsFair
  <2>3. CASE q = r
    <3>1. pc'[r] = "done" /\ answer'[r] = a
      BY <1>2, <1>3
    <3>2. Committed(r)' <=> Committed(r)
      BY <1>2 DEF Committed
    <3>3. Committed(r) => pc[r] \in Settled
      BY DEF Committed, StoreInv, RequestsInv
    <3>4. a.code # "ok" => r \in thrown \/ ~Committed(r)
      BY <2>1, <2>3, <3>3 DEF Fair, Tracked
    <3>5. a.code = "ok" => Earned(r, a)'
      BY <1>1, EarnedStays
    <3>6. Tracked(r)'
      BY <3>1 DEF Tracked
    <3>7. Answered(r)' /\ answer'[r].code = "ok" => Earned(r, answer[r])'
      BY <3>1, <3>5 DEF Earned
    <3> QED BY <1>2, <2>3, <3>1, <3>2, <3>4, <3>6, <3>7 DEF Fair
  <2> QED BY <2>2, <2>3
<1> QED BY <1>4, FairAnswersNext

LEMMA GotoIsFair ==
  ASSUME StoreInv, AnswersInv, NEW r \in Requests, NEW place, Goto(r, place),
         pc[r] \notin {"won", "done"}, place \notin {"won", "done"}
  PROVE  AnswersInv'
<1>1. QuietStep
  BY QuietReply
<1> QED BY <1>1, MoveIsFair DEF Goto

LEMMA RefuseIsFair ==
  ASSUME StoreInv, AnswersInv, NEW r \in Requests, NEW code,
         Reply(r, Refusal(code)), pc[r] \notin {"idle", "won", "done"},
         code # "ok"
  PROVE  AnswersInv'
<1>1. Refusal(code).code # "ok"
  BY DEF Refusal
<1> QED BY <1>1, ReplyIsFair

LEMMA PriorIsFair ==
  ASSUME StoreInv, EffectsInv, LedgerTruthful, AnswersInv, NEW r \in Requests,
         NEW next \in {"head", "rehead"}, AnswerFromPrior(r, next),
         pc[r] \notin {"idle", "won", "done"}
  PROVE  AnswersInv'
<1>1. CASE Goto(r, next)
  BY <1>1, GotoIsFair
<1>2. ASSUME NEW row \in PriorWrites(r), Reply(r, ReplayWrite(r, row))
      PROVE  AnswersInv'
  <2>1. row \in ledger
    BY DEF PriorWrites
  <2>2. ReplayWrite(r, row) \in Answer
    <3>1. PICK v \in RowsAt(row.path, row.version) : TRUE
      BY <2>1 DEF LedgerTruthful
    <3>2. \A w \in RowsAt(row.path, row.version) : w.commit \in CommitIds
      BY DEF RowsAt, StoreInv, TypeOK, TablesTypeOK, VersionRow
    <3>3. (CHOOSE w \in RowsAt(row.path, row.version) : TRUE).commit \in CommitIds
      BY <3>1, <3>2
    <3> QED BY <3>3, RefusalType, SuccessType DEF ReplayWrite, Codes
  <2> QED BY <1>2, <2>2, ReplayWriteEarned, ReplyIsFair
<1>3. ASSUME NEW row \in PriorCommits(r), Reply(r, ReplayCommit(r, row))
      PROVE  AnswersInv'
  <2>1. row.id \in CommitIds
    BY DEF PriorCommits, StoreInv, TypeOK, TablesTypeOK, CommitRow
  <2>2. ReplayCommit(r, row) \in Answer
    BY <2>1, RefusalType, SuccessType DEF ReplayCommit, Codes
  <2> QED BY <1>3, <2>2, ReplayCommitEarned, ReplyIsFair
<1> QED BY <1>1, <1>2, <1>3 DEF AnswerFromPrior

(* The two ways a batch may go.                                            *)
LEMMA BatchIsFair ==
  ASSUME StoreInv, AnswersInv, NEW r \in Requests, BatchStepOf(r),
         \/ pc' = [pc EXCEPT ![r] = "won"] /\ thrown' = thrown
         \/ pc' = [pc EXCEPT ![r] = "relive"] /\ thrown' = thrown \cup {r},
         UNCHANGED answer
  PROVE  AnswersInv'
<1>1. pc \in [Requests -> Places] /\ thrown \subseteq thrown'
  BY DEF StoreInv, TypeOK
<1>2. ASSUME NEW q \in Requests PROVE Fair(q)'
  <2>1. Fair(q)
    BY AnswersAreFair
  <2>2. CASE q # r
    <3>1. pc'[q] = pc[q]
      BY <1>1, <2>2
    <3> QED BY <1>1, <2>1, <2>2, <3>1, BystanderIsFair
  <2>3. CASE q = r
    <3>1. \/ pc'[r] = "won"
          \/ pc'[r] = "relive" /\ r \in thrown'
      BY <1>1
    <3>2. Committed(r)'
      <4>1. NewCommit(BatchOf(r)).id = r
        BY BatchOfFields DEF NewCommit
      <4> QED BY <4>1 DEF BatchStepOf, CommitBatch, Committed
    <3> QED BY <2>3, <3>1, <3>2 DEF Fair, Answered, Tracked
  <2> QED BY <2>2, <2>3
<1> QED BY <1>2, FairAnswersNext
LEMMA RequestIsFair ==
  ASSUME StoreInv, CallsInv, EffectsInv, LedgerTruthful, AnswersInv,
         NEW r \in Requests, Step(r)
  PROVE  AnswersInv'
<1> USE GotoIsFair, RefuseIsFair
<1>1. CASE Arrive(r)
  <2>1. QuietStep
    BY <1>1, QuietArrive
  <2>2. PICK c \in Calls[r] :
          pc' = [pc EXCEPT ![r] = IF c.call = "revert" THEN "revert" ELSE "live"]
    BY <1>1 DEF Arrive
  <2> QED BY <1>1, <2>1, <2>2, MoveIsFair DEF Arrive
<1>2. CASE ReadHeads(r)
  <2>1. QuietStep
    BY <1>2, QuietReadHeads
  <2>2. pc[r] = "heads"
    BY <1>2 DEF ReadHeads
  <2>3. CASE Reply(r, Refusal("validation"))
    BY <2>2, <2>3
  <2>4. CASE pc' = [pc EXCEPT ![r] = "live"] /\ UNCHANGED <<answer, thrown>>
    BY <2>1, <2>2, <2>4, MoveIsFair
  <2> QED BY <1>2, <2>3, <2>4 DEF ReadHeads
<1>3. CASE CheckRevertLive(r) \/ CheckLive(r)
  BY <1>3 DEF CheckRevertLive, CheckLive
<1>4. CASE ReadTarget(r)
  <2>1. pc[r] = "target"
    BY <1>4 DEF ReadTarget
  <2>2. CASE Goto(r, "heads") \/ Reply(r, Refusal("not-found"))
    BY <2>1, <2>2
  <2>3. ASSUME NEW row \in PriorCommits(r),
               Reply(r, IF row.hash = Hash(r) THEN Success(row.id, TRUE)
                        ELSE Refusal("idempotency-key-reused"))
        PROVE  AnswersInv'
    <3>1. CASE row.hash = Hash(r)
      <4>1. row.id \in CommitIds
        BY DEF PriorCommits, StoreInv, TypeOK, TablesTypeOK, CommitRow
      <4>2. Success(row.id, TRUE) \in Answer /\ Reply(r, Success(row.id, TRUE))
        BY <2>3, <3>1, <4>1, SuccessType
      <4> QED BY <2>1, <3>1, <4>2, CommitEarned, ReplyIsFair, SuccessFields
    <3>2. CASE row.hash # Hash(r)
      BY <2>1, <2>3, <3>2
    <3> QED BY <3>1, <3>2
  <2> QED BY <1>4, <2>2, <2>3 DEF ReadTarget
<1>5. CASE CheckReplay(r) \/ RecheckReplay(r)
  BY <1>5, PriorIsFair DEF CheckReplay, RecheckReplay
<1>6. CASE CheckHead(r)
  <2>1. HeadRefusal(TheEntry(r), files[TheEntry(r).path]) # "ok"
    BY DEF HeadRefusal
  <2> QED BY <1>6, <2>1 DEF CheckHead
<1>7. CASE CheckSource(r)
  <2>1. SourceRefusal(TheEntry(r)) # "ok"
    BY DEF SourceRefusal
  <2> QED BY <1>7, <2>1 DEF CheckSource
<1>8. CASE CheckSnapshot(r)
  <2>1. CommitRefusal(r) # "ok"
    BY DEF CommitRefusal
  <2> QED BY <1>8, <2>1 DEF CheckSnapshot
<1>9. CASE Win(r) \/ (Throw(r) /\ CommitBatch(BatchOf(r)))
  BY <1>9, BatchIsFair DEF Win, Throw, BatchStepOf
<1>10. CASE Throw(r) /\ UNCHANGED tables
  <2>1. QuietStep
    BY <1>10, QuietTables DEF Throw
  <2>2. /\ pc[r] = "batch" /\ pc' = [pc EXCEPT ![r] = "relive"]
        /\ thrown' = thrown \cup {r} /\ answer' = answer /\ UNCHANGED commits
    BY <1>10 DEF Throw, tables
  <2>3. pc \in [Requests -> Places] /\ thrown \subseteq thrown'
    BY <2>2 DEF StoreInv, TypeOK
  <2>4. ASSUME NEW q \in Requests PROVE Fair(q)'
    <3>1. Fair(q)
      BY AnswersAreFair
    <3>2. CASE q # r
      <4>1. pc'[q] = pc[q]
        BY <2>2, <2>3, <3>2
      <4> QED BY <2>1, <2>2, <2>3, <3>1, <4>1, BystanderIsFair
    <3>3. CASE q = r
      <4>1. pc'[r] = "relive" /\ r \in thrown'
        BY <2>2, <2>3
      <4> QED BY <3>3, <4>1 DEF Fair, Answered, Tracked
    <3> QED BY <3>2, <3>3
  <2> QED BY <2>4, FairAnswersNext
<1>11. CASE Lose(r) \/ RecheckLive(r)
  BY <1>11 DEF Lose, RecheckLive
<1>12. CASE Respond(r)
  <2>1. pc[r] = "won" /\ Committed(r)
    BY <1>12, AnswersAreFair DEF Respond, Fair, Tracked
  <2>2. Reply(r, Success(r, FALSE))
    BY <1>12, <2>1, WinnerReadsBack DEF Respond
  <2>3. Success(r, FALSE) \in Answer
    BY SuccessType, StoreAssumption
  <2>4. PICK a \in Answer : a = Success(r, FALSE)
    BY <2>3
  <2>5. a.code = "ok" /\ a.effect = r /\ a.replayed = FALSE
    BY <2>4, SuccessFields
  <2>6. Earned(r, a)
    BY <2>1, <2>5 DEF Earned
  <2>7. Reply(r, a)
    BY <2>2, <2>4
  <2> QED BY <2>1, <2>5, <2>6, <2>7, ReplyIsFair
<1>13. CASE ClassifyWrite(r)
  <2>1. OrInternal(HeadRefusal(TheEntry(r), files[TheEntry(r).path])) # "ok"
    BY DEF OrInternal, HeadRefusal
  <2>2. pc[r] = "rehead"
    BY <1>13 DEF ClassifyWrite
  <2>3. CASE pc' = [pc EXCEPT ![r] = "resource"]
               /\ UNCHANGED <<tables, request, entries, answer, thrown>>
    <3>1. QuietStep
      BY <2>3, QuietTables
    <3> QED BY <2>2, <2>3, <3>1, MoveIsFair
  <2> QED BY <1>13, <2>1, <2>2, <2>3 DEF ClassifyWrite
<1>14. CASE ClassifyRollback(r)
  <2>1. \A e : SourceRefusal(e) # "ok"
    BY DEF SourceRefusal
  <2> QED BY <1>14, <2>1 DEF ClassifyRollback
<1>15. CASE ClassifyCommit(r)
  <2>1. OrInternal(CommitRefusal(r)) # "ok"
    BY DEF OrInternal, CommitRefusal
  <2> QED BY <1>15, <2>1 DEF ClassifyCommit
<1> QED BY <1>1, <1>2, <1>3, <1>4, <1>5, <1>6, <1>7, <1>8, <1>9, <1>10, <1>11,
           <1>12, <1>13, <1>14, <1>15 DEF Step, Throw

LEMMA StepKeepsAnswers ==
  StoreInv /\ CallsInv /\ EffectsInv /\ LedgerTruthful /\ AnswersInv
    /\ [Next]_vars => AnswersInv'
<1> SUFFICES ASSUME StoreInv, CallsInv, EffectsInv, LedgerTruthful, AnswersInv,
                    [Next]_vars
             PROVE  AnswersInv'
  OBVIOUS
<1>1. CASE Lifecycle \/ Foreign \/ CollectLedger \/ UNCHANGED vars
  <2>1. UNCHANGED <<pc, request, answer, thrown, commits>>
    BY <1>1 DEF Lifecycle, Foreign, CollectLedger, DeleteStash, RestoreStash,
                OtherStashWrites, ExpireLedger, vars, control, tables
  <2> QED BY <2>1 DEF AnswersInv, AnswersMatchEffects, Tracked, Answered,
                      Committed, Hash, Key
<1>2. ASSUME NEW r \in Requests, Step(r) PROVE AnswersInv'
  BY <1>2, RequestIsFair
<1> QED BY <1>1, <1>2 DEF Next

(* No answer ever lies about the tables: a success names a commit that is  *)
(* there and does what the request asked, a refusal left nothing behind.   *)
THEOREM AnswersAreTrue == Spec => []AnswersMatchEffects
<1>1. AnswersInv => AnswersMatchEffects
  BY DEF AnswersInv
<1>2. Init => CallsInv /\ LedgerTruthful /\ AnswersInv
  BY DEF Init, TablesInit, CallsInv, LedgerTruthful, AnswersInv, Tracked,
         AnswersMatchEffects, Answered, Committed
<1> QED BY <1>1, <1>2, InitialStoreInv, InitialEffects, StepKeepsStoreInv,
           StepKeepsCalls, StepKeepsEffects, StepKeepsLedger, StepKeepsAnswers,
           PTL DEF Spec

-----------------------------------------------------------------------------
(* What every step leaves in place.                                        *)

(* A stash that is deleted has been so since a change of its lifecycle.    *)
DeletionCounts == ~live => lifecycle > 0

Forward ==
  /\ Grows
  /\ versions \subseteq versions' /\ commits \subseteq commits'
  /\ LedgerExpires \/ ledger \subseteq ledger'
  /\ thrown \subseteq thrown'
  /\ lifecycle <= lifecycle'
  /\ ~live /\ live' => lifecycle' > 1

(* What a step does to the requests that do not take it.                   *)
Unmoved(q) ==
  /\ pc'[q] = pc[q] /\ request'[q] = request[q] /\ entries'[q] = entries[q]
  /\ seen'[q] = seen[q] /\ answer'[q] = answer[q]
  /\ q \in thrown' <=> q \in thrown

LEMMA StepGrows ==
  ASSUME StoreInv, NEW r \in Requests, QuietStep \/ BatchStepOf(r)
  PROVE  Grows
<1>1. CASE QuietStep
  BY <1>1, OthersGrow DEF QuietStep, StoreInv, TypeOK
<1>2. CASE BatchStepOf(r)
  <2>1. /\ BatchOf(r) \in Batch /\ OncePerPath(BatchOf(r))
        /\ CommitBatch(BatchOf(r)) /\ BatchOf(r).id = r /\ TablesTypeOK
    BY <1>2, BatchOfMakesSense, BatchOfFields DEF BatchStepOf, StoreInv, TypeOK
  <2>2. ~Committed(r)
    BY <1>2 DEF BatchStepOf, Committed, StoreInv, RequestsInv, Settled
  <2> QED BY <2>1, <2>2, BatchGrows
<1> QED BY <1>1, <1>2

(* A request's own step, seen from its counters and from the others.       *)
StepOnly(r) ==
  /\ lifecycle' = lifecycle /\ live' = live /\ thrown \subseteq thrown'
  /\ UNCHANGED <<request, entries>> \/ Arrive(r) \/ ReadHeads(r)
  /\ \A q \in Requests : q # r => Unmoved(q)

LEMMA StepIsLocal ==
  ASSUME StoreInv, NEW r \in Requests, Step(r)
  PROVE  StepOnly(r)
<1>1. /\ pc \in [Requests -> Places] /\ answer \in [Requests -> Answer]
      /\ request \in [Requests -> Call \cup {NoRequest}]
      /\ entries \in [Requests -> Seq(Entry)] /\ seen \in [Requests -> Nat]
  BY DEF StoreInv, TypeOK
<1>2. ASSUME NEW x, Goto(r, x) \/ Reply(r, x) PROVE StepOnly(r)
  BY <1>1, <1>2 DEF Goto, Reply, tables, Unmoved, StepOnly
<1>3. ASSUME NEW x, AnswerFromPrior(r, x) PROVE StepOnly(r)
  BY <1>2, <1>3 DEF AnswerFromPrior
<1>4. CASE Arrive(r)
  <2>1. PICK c \in Calls[r] :
          /\ request' = [request EXCEPT ![r] = c]
          /\ entries' = [entries EXCEPT ![r] = c.entries]
          /\ pc' = [pc EXCEPT ![r] = IF c.call = "revert" THEN "revert" ELSE "live"]
    BY <1>4 DEF Arrive
  <2> QED BY <1>1, <1>4, <2>1 DEF Arrive, tables, Unmoved, StepOnly
<1>5. CASE ReadHeads(r)
  <2>1. CASE Reply(r, Refusal("validation"))
    BY <1>2, <2>1
  <2>2. ASSUME NEW es, entries' = [entries EXCEPT ![r] = es],
               pc' = [pc EXCEPT ![r] = "live"],
               UNCHANGED <<tables, request, seen, answer, thrown, lifecycle,
                           foreign>>
        PROVE  StepOnly(r)
    BY <1>1, <1>5, <2>2 DEF tables, Unmoved, StepOnly
  <2> QED BY <1>5, <2>1, <2>2 DEF ReadHeads
<1>6. CASE Win(r) \/ Throw(r)
  BY <1>1, <1>6 DEF Win, Throw, CommitBatch, tables, Unmoved, StepOnly
<1>7. CASE ClassifyWrite(r)
  BY <1>1, <1>2, <1>7 DEF ClassifyWrite, tables, Unmoved, StepOnly
<1>8. CASE CheckReplay(r) \/ RecheckReplay(r)
  BY <1>3, <1>8 DEF CheckReplay, RecheckReplay
<1>9. CASE CheckRevertLive(r) \/ ReadTarget(r) \/ CheckLive(r) \/ CheckHead(r)
  BY <1>2, <1>9 DEF CheckRevertLive, ReadTarget, CheckLive, CheckHead
<1>10. CASE CheckSource(r) \/ CheckSnapshot(r) \/ Lose(r) \/ Respond(r)
  BY <1>2, <1>10 DEF CheckSource, CheckSnapshot, Lose, Respond
<1>11. CASE RecheckLive(r) \/ ClassifyRollback(r) \/ ClassifyCommit(r)
  BY <1>2, <1>11 DEF RecheckLive, ClassifyRollback, ClassifyCommit
<1> QED BY <1>4, <1>5, <1>6, <1>7, <1>8, <1>9, <1>10, <1>11 DEF Step

LEMMA OthersAreLocal ==
  ASSUME StoreInv, Lifecycle \/ Foreign \/ CollectLedger \/ UNCHANGED vars
  PROVE  /\ thrown' = thrown /\ UNCHANGED <<request, entries>>
         /\ \A q \in Requests : Unmoved(q)
BY DEF Lifecycle, Foreign, CollectLedger, vars, control, Unmoved

LEMMA StepForward ==
  StoreInv /\ DeletionCounts /\ [Next]_vars => Forward /\ DeletionCounts'
<1> SUFFICES ASSUME StoreInv, DeletionCounts, [Next]_vars
             PROVE  Forward /\ DeletionCounts'
  OBVIOUS
<1>1. lifecycle \in Nat
  BY DEF StoreInv, TypeOK
<1>2. Grows /\ commits \subseteq commits'
        /\ (LedgerExpires \/ ledger \subseteq ledger')
  <2>1. CASE QuietStep
    <3>1. Grows
      BY <2>1, OthersGrow DEF QuietStep, StoreInv, TypeOK
    <3> QED BY <2>1, <3>1 DEF QuietStep
  <2>2. ASSUME NEW r \in Requests, BatchStepOf(r)
        PROVE  Grows /\ commits \subseteq commits'
                 /\ (LedgerExpires \/ ledger \subseteq ledger')
    BY <2>2, StepGrows, RowsStay
  <2> QED BY <2>1, <2>2, StepShape
<1>3. versions \subseteq versions'
  BY <1>2 DEF Grows
<1>4. /\ thrown \subseteq thrown' /\ lifecycle <= lifecycle'
      /\ ~live /\ live' => lifecycle' > 1
      /\ DeletionCounts'
  <2>1. ASSUME lifecycle' = lifecycle, live' = live, thrown \subseteq thrown'
        PROVE  /\ thrown \subseteq thrown' /\ lifecycle <= lifecycle'
               /\ ~live /\ live' => lifecycle' > 1
               /\ DeletionCounts'
    BY <1>1, <2>1 DEF DeletionCounts
  <2>2. ASSUME NEW r \in Requests, Step(r)
        PROVE  lifecycle' = lifecycle /\ live' = live /\ thrown \subseteq thrown'
    BY <2>2, StepIsLocal DEF StepOnly
  <2>3. CASE Foreign \/ CollectLedger \/ UNCHANGED vars
    BY <2>1, <2>3 DEF Foreign, CollectLedger, OtherStashWrites, ExpireLedger,
                      vars, control, tables
  <2>4. CASE Lifecycle
    <3>1. thrown' = thrown /\ lifecycle' = lifecycle + 1
      BY <2>4 DEF Lifecycle, control
    <3> QED BY <1>1, <2>4, <3>1 DEF DeletionCounts
  <2> QED BY <2>1, <2>2, <2>3, <2>4 DEF Next
<1> QED BY <1>2, <1>3, <1>4 DEF Forward

-----------------------------------------------------------------------------
(* Recovery after a batch whose call failed.                               *)

(* A committed request whose key still leads somewhere.                    *)
Recoverable(r) ==
  Committed(r) /\ Key(r) # NoKey /\ ~(LedgerExpires /\ IsSingle(r))

(* Once its batch call has failed, a request is after its batch for good;  *)
(* if it did commit, it does not get past the look for its own row.        *)
Recovers(r) ==
  r \in thrown =>
    /\ pc[r] \in {"relive", "rereplay", "rehead", "resource", "done"}
    /\ Recoverable(r) =>
         /\ pc[r] \in {"relive", "rereplay", "done"}
         /\ Answered(r) => \/ answer[r] = Success(r, TRUE)
                           \/ lifecycle > 0 /\ answer[r].code = "not-found"

RecoveryInv == \A r \in Requests : Recovers(r)

(* The ledger is of single-path writes: no commit or revert is behind it.  *)
LedgerOfWrites ==
  \A row \in ledger : \A v \in RowsAt(row.path, row.version) :
    IsSingle(v.commit)

LEMMA StepKeepsLedgerOfWrites ==
  StoreInv /\ StoreInv' /\ LedgerTruthful /\ LedgerOfWrites /\ [Next]_vars
    => LedgerOfWrites'
<1> SUFFICES ASSUME StoreInv, StoreInv', LedgerTruthful, LedgerOfWrites,
                    [Next]_vars, NEW row \in ledger',
                    NEW v \in RowsAt(row.path, row.version)'
             PROVE  IsSingle(v.commit)'
  BY DEF LedgerOfWrites
<1>1. HistoryContiguous'
  BY DEF StoreInv, TablesInv
<1>2. ASSUME NEW r \in Requests, QuietStep \/ BatchStepOf(r), row \in ledger
      PROVE  IsSingle(v.commit)'
  <2>1. RowsAt(row.path, row.version) # {} /\ versions \subseteq versions'
    BY <1>2, RowsStay DEF LedgerTruthful
  <2>2. v \in RowsAt(row.path, row.version)
    BY <1>1, <2>1, RowsAtStay
  <2>3. v.commit \in Requests /\ Committed(v.commit)
    BY <2>2, StoreAssumption
       DEF RowsAt, StoreInv, TablesInv, CommitsWhole, TablesTypeOK, VersionRow
  <2>4. IsSingle(v.commit)
    BY <1>2, <2>2 DEF LedgerOfWrites
  <2>5. PICK q \in Requests : q = v.commit
    BY <2>3
  <2>6. IsSingle(q)' = IsSingle(q)
    BY <1>2, <2>3, <2>5, KeysStay
  <2> QED BY <2>4, <2>5, <2>6
<1>3. ASSUME NEW r \in Requests, BatchStepOf(r), row \notin ledger
      PROVE  IsSingle(v.commit)'
  <2> DEFINE b == BatchOf(r)
  <2>1. /\ b \in Batch /\ OncePerPath(b) /\ CommitBatch(b) /\ TablesTypeOK
        /\ UNCHANGED <<request, entries>>
    BY <1>3, BatchOfMakesSense DEF BatchStepOf, StoreInv, TypeOK
  <2>2. row \in NewLedger(b) /\ b.ledgerKey # NoKey
    BY <1>3, <2>1 DEF CommitBatch, NewLedger
  <2>3. /\ row.path = b.entries[1].path
        /\ row.version = NextVersion(b.entries[1])
        /\ 1 \in DOMAIN b.entries
    BY <2>1, <2>2 DEF NewLedger, Batch, EntryLists
  <2>4. /\ NewRow(b, 1) \in versions' /\ NewRow(b, 1).commit = r
        /\ NewRow(b, 1).path = row.path /\ NewRow(b, 1).version = row.version
    BY <2>1, <2>3, BatchStep, BatchOfFields DEF NewRow
  <2>5. v = NewRow(b, 1)
    BY <1>1, <2>4 DEF RowsAt, HistoryContiguous
  <2>6. IsSingle(r)
    BY <2>2, BatchOfFields
  <2> QED BY <2>1, <2>4, <2>5, <2>6 DEF IsSingle
<1>4. CASE QuietStep
  <2>1. row \in ledger
    BY <1>4 DEF QuietStep
  <2>2. v.commit \in Requests
    BY StoreAssumption DEF RowsAt, StoreInv, TypeOK, TablesTypeOK, VersionRow
  <2> QED BY <1>2, <1>4, <2>1, <2>2
<1> QED BY <1>2, <1>3, <1>4, StepShape

(* The row under the key of a committed request is its own.                *)
LEMMA OwnPriorCommit ==
  ASSUME StoreInv, EffectsInv, OneEffectPerKey, NEW r \in Requests,
         Recoverable(r), ~IsSingle(r)
  PROVE  /\ PriorCommits(r) # {}
         /\ \A row \in PriorCommits(r) : row.id = r /\ row.hash = Hash(r)
<1>1. PICK c \in commits : c.id = r
  BY DEF Recoverable, Committed
<1>2. c.key = Key(r)
  BY <1>1 DEF EffectsInv, EffectOf
<1>3. c \in PriorCommits(r)
  BY <1>1, <1>2 DEF PriorCommits, Recoverable
<1>4. ASSUME NEW row \in PriorCommits(r)
      PROVE  row.id = r /\ row.hash = Hash(r)
  <2>1. row \in commits /\ row.key = Key(r) /\ Key(r) # NoKey
    BY DEF PriorCommits
  <2>2. EffectOf(row) /\ row.id \in Requests /\ Committed(row.id)
    BY <2>1, StoreAssumption
       DEF EffectsInv, StoreInv, TypeOK, TablesTypeOK, CommitRow, Committed
  <2>3. Key(row.id) = Key(r) /\ ~IsSingle(row.id)
    BY <2>1, <2>2 DEF EffectOf
  <2>4. row.id = r
    <3>1. IsSingle(row.id) = IsSingle(r)
      BY <2>3 DEF IsSingle
    <3> QED BY <2>1, <2>2, <2>3, <3>1 DEF OneEffectPerKey, Recoverable
  <2> QED BY <2>2, <2>4 DEF EffectOf
<1> QED BY <1>3, <1>4

LEMMA OwnPriorWrite ==
  ASSUME StoreInv, EffectsInv, LedgerTruthful, OneEffectPerKey,
         NEW r \in Requests, Recoverable(r), IsSingle(r), LedgerOfWrites
  PROVE  /\ PriorWrites(r) # {}
         /\ \A row \in PriorWrites(r) : ReplayWrite(r, row) = Success(r, TRUE)
<1>1. PICK c \in commits : c.id = r
  BY DEF Recoverable, Committed
<1>2. \E row \in ledger : row.key = Key(r)
  BY <1>1 DEF EffectsInv, EffectOf, Recoverable
<1>3. ASSUME NEW row \in PriorWrites(r)
      PROVE  ReplayWrite(r, row) = Success(r, TRUE)
  <2> DEFINE rows == RowsAt(row.path, row.version)
  <2>1. row \in ledger /\ row.key = Key(r)
    BY DEF PriorWrites
  <2>2. PICK v \in rows : /\ Key(v.commit) = row.key /\ Hash(v.commit) = row.hash
                          /\ IsSingle(v.commit)
    BY <2>1 DEF LedgerOfWrites, LedgerTruthful
  <2>3. Committed(v.commit) /\ v.commit \in Requests
    BY StoreAssumption
       DEF RowsAt, StoreInv, TablesInv, TablesTypeOK, CommitsWhole, VersionRow
  <2>4. v.commit = r
    BY <2>1, <2>2, <2>3 DEF OneEffectPerKey, Recoverable
  <2>5. \A w \in rows : w = v
    BY DEF RowsAt, StoreInv, TablesInv, HistoryContiguous
  <2>6. rows # {} /\ (CHOOSE w \in rows : TRUE) = v
    BY <2>5
  <2>7. row.hash = Hash(r)
    BY <2>2, <2>4
  <2> QED BY <2>4, <2>6, <2>7 DEF ReplayWrite
<1> QED BY <1>2, <1>3 DEF PriorWrites

(* A request that looks for its own row answers with it.                   *)
LEMMA OwnAnswer ==
  ASSUME StoreInv, CallsInv, EffectsInv, LedgerTruthful, LedgerOfWrites,
         OneEffectPerKey, NEW r \in Requests, Recoverable(r), NEW next,
         AnswerFromPrior(r, next)
  PROVE  Reply(r, Success(r, TRUE))
<1>1. CASE IsSingle(r)
  BY <1>1, OwnPriorWrite DEF AnswerFromPrior
<1>2. CASE ~IsSingle(r)
  <2>1. PICK row \in PriorCommits(r) : Reply(r, ReplayCommit(r, row))
    BY <1>2, OwnPriorCommit DEF AnswerFromPrior
  <2>2. row.id = r /\ row.hash = Hash(r) /\ row \in commits
    BY <1>2, OwnPriorCommit DEF PriorCommits
  <2>3. PICK c \in commits : c.id = r /\ Rebuilt(r, c)
    BY <1>2, WinnerReadsBack DEF Recoverable, ReadsBack
  <2>4. c = row
    BY <2>2, <2>3 DEF StoreInv, TablesInv, CommitsWhole
  <2> QED BY <2>1, <2>2, <2>3, <2>4 DEF ReplayCommit
<1> QED BY <1>1, <1>2

LEMMA CommitsAtBatch ==
  ASSUME StoreInv, [Next]_vars, NEW q \in Requests, pc[q] # "batch", Committed(q)'
  PROVE  Committed(q)
<1>1. CASE QuietStep
  BY <1>1 DEF QuietStep, Committed
<1>2. ASSUME NEW r \in Requests, BatchStepOf(r) PROVE Committed(q)
  <2>1. NewCommit(BatchOf(r)).id = r /\ q # r
    BY <1>2, BatchOfFields DEF NewCommit, BatchStepOf
  <2> QED BY <1>2, <2>1 DEF BatchStepOf, CommitBatch, Committed
<1> QED BY <1>1, <1>2, StepShape

LEMMA UnmovedRecovers ==
  ASSUME StoreInv, Forward, [Next]_vars, NEW q \in Requests, Recovers(q), Unmoved(q)
  PROVE  Recovers(q)'
<1> SUFFICES ASSUME q \in thrown
             PROVE  /\ pc'[q] \in {"relive", "rereplay", "rehead", "resource", "done"}
                    /\ Recoverable(q)' =>
                         /\ pc'[q] \in {"relive", "rereplay", "done"}
                         /\ pc'[q] = "done" =>
                              \/ answer'[q] = Success(q, TRUE)
                              \/ lifecycle' > 0 /\ answer'[q].code = "not-found"
  BY DEF Recovers, Unmoved, Answered, Success
<1>1. pc[q] \in {"relive", "rereplay", "rehead", "resource", "done"}
  BY DEF Recovers
<1>2. Recoverable(q)' => Recoverable(q)
  BY <1>1, CommitsAtBatch DEF Recoverable, Key, IsSingle, Unmoved
<1>3. lifecycle > 0 => lifecycle' > 0
  BY StepKeepsStoreInv DEF Forward, StoreInv, TypeOK
<1> QED BY <1>1, <1>2, <1>3 DEF Recovers, Unmoved, Answered

(* The steps that take no part in a recovery.                              *)
LEMMA OnlyThrowThrows ==
  ASSUME StoreInv, NEW r \in Requests, Step(r), r \notin thrown, r \in thrown'
  PROVE  Throw(r)
<1>1. ASSUME NEW x, Goto(r, x) \/ Reply(r, x) PROVE FALSE
  BY <1>1 DEF Goto, Reply
<1>2. ASSUME NEW x, AnswerFromPrior(r, x) PROVE FALSE
  BY <1>1, <1>2 DEF AnswerFromPrior
<1>3. CASE Arrive(r) \/ ReadHeads(r) \/ Win(r) \/ ClassifyWrite(r)
  BY <1>1, <1>3 DEF Arrive, ReadHeads, Win, ClassifyWrite
<1>4. CASE CheckReplay(r) \/ RecheckReplay(r)
  BY <1>2, <1>4 DEF CheckReplay, RecheckReplay
<1>5. CASE CheckRevertLive(r) \/ ReadTarget(r) \/ CheckLive(r) \/ CheckHead(r)
  BY <1>1, <1>5 DEF CheckRevertLive, ReadTarget, CheckLive, CheckHead
<1>6. CASE CheckSource(r) \/ CheckSnapshot(r) \/ Lose(r) \/ Respond(r)
  BY <1>1, <1>6 DEF CheckSource, CheckSnapshot, Lose, Respond
<1>7. CASE RecheckLive(r) \/ ClassifyRollback(r) \/ ClassifyCommit(r)
  BY <1>1, <1>7 DEF RecheckLive, ClassifyRollback, ClassifyCommit
<1> QED BY <1>3, <1>4, <1>5, <1>6, <1>7 DEF Step

(* A request that has committed, or not, goes on or is answered.           *)
LEMMA GotoRecovers ==
  ASSUME StoreInv, NEW r \in Requests, Goto(r, "rereplay") \/
           (~Recoverable(r) /\ \E place \in {"rehead", "resource"} : Goto(r, place))
  PROVE  Recovers(r)'
<1>1. PICK place \in {"rereplay", "rehead", "resource"} :
        pc' = [pc EXCEPT ![r] = place] /\ (place = "rereplay" \/ ~Recoverable(r))
  BY DEF Goto
<1>2. pc'[r] = place
  BY <1>1 DEF StoreInv, TypeOK
<1>3. Recoverable(r)' <=> Recoverable(r)
  BY DEF Goto, Recoverable, Key, IsSingle, Committed, tables
<1> QED BY <1>1, <1>2, <1>3 DEF Recovers, Answered

LEMMA ReplyRecovers ==
  ASSUME StoreInv, NEW r \in Requests, NEW a, Reply(r, a),
         Recoverable(r) => \/ a = Success(r, TRUE)
                           \/ lifecycle > 0 /\ a.code = "not-found"
  PROVE  Recovers(r)'
<1>1. pc'[r] = "done" /\ answer'[r] = a /\ lifecycle' = lifecycle
  BY DEF Reply, StoreInv, TypeOK
<1>2. Recoverable(r)' <=> Recoverable(r)
  BY DEF Reply, Recoverable, Key, IsSingle, Committed, tables
<1>3. Success(r, TRUE)' = Success(r, TRUE)
  BY DEF Success
<1> QED BY <1>1, <1>2, <1>3 DEF Recovers, Answered

LEMMA ActorRecovers ==
  ASSUME StoreInv, CallsInv, EffectsInv, LedgerTruthful, LedgerOfWrites,
         OneEffectPerKey, DeletionCounts, NEW r \in Requests, Recovers(r), Step(r)
  PROVE  Recovers(r)'
<1>1. CASE r \notin thrown
  <2>1. CASE r \notin thrown'
    BY <2>1 DEF Recovers
  <2>2. CASE Throw(r)
    <3>1. pc'[r] = "relive"
      BY <2>2 DEF Throw, StoreInv, TypeOK
    <3> QED BY <3>1 DEF Recovers, Answered
  <2> QED BY <1>1, <2>1, <2>2, OnlyThrowThrows
<1>2. CASE r \in thrown
  <2>1. /\ pc[r] \in {"relive", "rereplay", "rehead", "resource", "done"}
        /\ pc[r] \in {"rehead", "resource"} => ~Recoverable(r)
    BY <1>2 DEF Recovers
  <2>2. \/ RecheckLive(r) \/ RecheckReplay(r) \/ ClassifyWrite(r)
        \/ ClassifyRollback(r) \/ ClassifyCommit(r)
    BY <2>1 DEF Step, Arrive, CheckRevertLive, ReadTarget, ReadHeads, CheckLive,
                CheckReplay, CheckHead, CheckSource, CheckSnapshot, Win, Lose,
                Throw, Respond
  <2>3. CASE RecheckLive(r)
    <3>1. CASE live
      BY <2>3, <3>1, GotoRecovers DEF RecheckLive
    <3>2. CASE ~live
      <4>1. lifecycle > 0 /\ Refusal("not-found").code = "not-found"
        BY <3>2 DEF DeletionCounts, Refusal
      <4> QED BY <2>3, <3>2, <4>1, ReplyRecovers DEF RecheckLive
    <3> QED BY <3>1, <3>2
  <2>4. CASE RecheckReplay(r)
    <3>1. CASE Recoverable(r)
      BY <2>4, <3>1, OwnAnswer, ReplyRecovers DEF RecheckReplay
    <3>2. CASE ~Recoverable(r)
      BY <2>4, <3>2, GotoRecovers, ReplyRecovers
         DEF RecheckReplay, AnswerFromPrior
    <3> QED BY <3>1, <3>2
  <2>5. CASE ClassifyWrite(r)
    <3>1. ~Recoverable(r)
      BY <2>1, <2>5 DEF ClassifyWrite
    <3>2. CASE pc' = [pc EXCEPT ![r] = "resource"]
                 /\ UNCHANGED <<tables, request, entries>>
      <4>1. pc'[r] = "resource"
        BY <3>2 DEF StoreInv, TypeOK
      <4>2. ~Recoverable(r)'
        BY <3>1, <3>2 DEF Recoverable, Key, IsSingle, Committed, tables
      <4> QED BY <4>1, <4>2 DEF Recovers
    <3> QED BY <2>5, <3>1, <3>2, ReplyRecovers DEF ClassifyWrite
  <2>6. CASE ClassifyRollback(r) \/ ClassifyCommit(r)
    <3>1. ~Recoverable(r)
      BY <2>1, <2>6 DEF ClassifyRollback, ClassifyCommit
    <3> QED BY <2>6, <3>1, ReplyRecovers DEF ClassifyRollback, ClassifyCommit
  <2> QED BY <2>2, <2>3, <2>4, <2>5, <2>6
<1> QED BY <1>1, <1>2

LEMMA StepKeepsRecovery ==
  StoreInv /\ CallsInv /\ EffectsInv /\ LedgerTruthful /\ LedgerOfWrites
    /\ OneEffectPerKey /\ DeletionCounts /\ RecoveryInv /\ [Next]_vars
  => RecoveryInv'
<1> SUFFICES ASSUME StoreInv, CallsInv, EffectsInv, LedgerTruthful,
                    LedgerOfWrites, OneEffectPerKey, DeletionCounts, RecoveryInv,
                    [Next]_vars, NEW q \in Requests
             PROVE  Recovers(q)'
  BY DEF RecoveryInv
<1>1. Forward
  BY StepForward
<1>2. CASE Unmoved(q)
  BY <1>1, <1>2, UnmovedRecovers DEF RecoveryInv
<1>3. ASSUME NEW r \in Requests, Step(r) PROVE Recovers(q)'
  <2>1. q # r => Unmoved(q)
    BY <1>3, StepIsLocal DEF StepOnly
  <2> QED BY <1>2, <1>3, <2>1, ActorRecovers DEF RecoveryInv
<1>4. CASE Lifecycle \/ Foreign \/ CollectLedger \/ UNCHANGED vars
  BY <1>2, <1>4, OthersAreLocal
<1> QED BY <1>3, <1>4 DEF Next

(* A request whose batch was committed although its call failed is told so *)
(* under its key, however others race it: recheck and replay of writes.ts  *)
(* and commits.ts find its own row, and no other.                          *)
THEOREM AmbiguousRecovers == Spec => []AmbiguousBatchRecovers
<1>1. StoreInv /\ RecoveryInv => AmbiguousBatchRecovers
  <2> SUFFICES ASSUME StoreInv, RecoveryInv, NEW r \in thrown, Answered(r),
                      Committed(r), Key(r) # NoKey
               PROVE  \/ answer[r] = Success(r, TRUE)
                      \/ lifecycle > 0 /\ answer[r].code = "not-found"
                      \/ LedgerExpires /\ IsSingle(r)
    BY DEF AmbiguousBatchRecovers
  <2>1. Recovers(r)
    BY DEF RecoveryInv, StoreInv, TypeOK
  <2> QED BY <2>1 DEF Recovers, Recoverable
<1>2. Init => /\ CallsInv /\ LedgerTruthful /\ LedgerOfWrites /\ OneEffectPerKey
              /\ DeletionCounts /\ RecoveryInv
  BY DEF Init, TablesInit, CallsInv, LedgerTruthful, LedgerOfWrites, Committed,
         OneEffectPerKey, DeletionCounts, RecoveryInv, Recovers
<1> QED BY <1>1, <1>2, InitialStoreInv, InitialEffects, StepKeepsStoreInv,
           StepKeepsCalls, StepKeepsEffects, StepKeepsLedger,
           StepKeepsLedgerOfWrites, StepKeepsKeys, StepForward,
           StepKeepsRecovery, PTL DEF Spec

-----------------------------------------------------------------------------
(* What a revert undoes.                                                   *)

(* Entry e of request r puts back what u, a row of the target, replaced.   *)
Undoes(r, e, u) ==
  /\ u.path = e.path
  /\ \/ e.op = "delete" /\ ContentBefore(u) = Tombstone
     \/ /\ e.op = "rollback" /\ u.version # 1
        /\ e.fromPath = u.path /\ e.fromVersion = u.version - 1
  /\ request[r].onto = "commit" => e.expected = u.version

(* Each entry of a revert undoes a row of its target, each row it wrote    *)
(* has undone one.                                                         *)
UndoesTarget(r) ==
  pc[r] # "idle" /\ IsRevert(r) =>
    /\ \A i \in DOMAIN entries[r] :
         \E u \in RowsOf(request[r].target) : Undoes(r, entries[r][i], u)
    /\ \A v \in RowsOf(r) : \E u \in RowsOf(request[r].target) :
         /\ u.path = v.path
         /\ v.content = ContentBefore(u)
         /\ request[r].onto = "commit" => v.version = u.version + 1

UndoInv == \A r \in Requests : UndoesTarget(r)

(* What a path held before a row was written does not change.              *)
LEMMA ContentBeforeStays ==
  ASSUME StoreInv, StoreInv', versions \subseteq versions', NEW u \in versions
  PROVE  ContentBefore(u)' = ContentBefore(u)
<1>1. /\ u.path \in Paths /\ u.version \in Nat \ {0}
      /\ u.version <= files[u.path].version /\ files[u.path].version \in Nat
  BY DEF StoreInv, TypeOK, TablesTypeOK, VersionRow, FileRow, TablesInv,
         HistoryContiguous
<1>2. CASE u.version = 1
  BY <1>2 DEF ContentBefore
<1>3. CASE u.version # 1
  <2>1. u.version - 1 \in 1..files[u.path].version
    BY <1>1, <1>3
  <2>2. RowsAt(u.path, u.version - 1) # {}
    BY <1>1, <2>1 DEF StoreInv, TablesInv, HistoryContiguous
  <2>3. ContentAt(u.path, u.version - 1)' = ContentAt(u.path, u.version - 1)
    BY <2>2, RowsAtStay DEF StoreInv, TablesInv
  <2> QED BY <1>3, <2>3 DEF ContentBefore
<1> QED BY <1>2, <1>3

(* The entries that undo the rows of the target.                           *)
LEMMA UndoEntryUndoes ==
  ASSUME StoreInv, NEW r \in Requests, NEW u \in versions,
         request[r].onto \in {"commit", "head"}
  PROVE  Undoes(r, UndoEntry(r, u), u)
<1> PICK e : e = UndoEntry(r, u)
  OBVIOUS
<1>1. /\ e.path = u.path /\ e.fromPath = u.path
      /\ e.op = IF IsCreation(u) THEN "delete" ELSE "rollback"
      /\ e.fromVersion = IF IsCreation(u) THEN 0 ELSE u.version - 1
      /\ e.expected = UndoExpects(r, u)
  BY DEF UndoEntry
<1>2. IsCreation(u) <=> ContentBefore(u) = Tombstone
  BY DEF IsCreation, ContentBefore
<1>3. ~IsCreation(u) => u.version # 1
  BY DEF IsCreation
<1>4. request[r].onto = "commit" => UndoExpects(r, u) = u.version
  BY DEF UndoExpects
<1> QED BY <1>1, <1>2, <1>3, <1>4 DEF Undoes

LEMMA UndoesStays ==
  ASSUME StoreInv, StoreInv', versions \subseteq versions', NEW r \in Requests,
         request'[r] = request[r], NEW e, NEW u \in versions, Undoes(r, e, u)
  PROVE  Undoes(r, e, u)'
BY ContentBeforeStays DEF Undoes

(* A row that some request wrote, and the one that it undoes.              *)
Restores(r, v, u) ==
  /\ u.path = v.path
  /\ v.content = ContentBefore(u)
  /\ request[r].onto = "commit" => v.version = u.version + 1

LEMMA BatchRestores ==
  ASSUME StoreInv, NEW r \in Requests, BatchStepOf(r), NEW i \in DOMAIN entries[r],
         NEW u \in versions, Undoes(r, entries[r][i], u)
  PROVE  Restores(r, NewRow(BatchOf(r), i), u)
<1> DEFINE e == entries[r][i]
           v == NewRow(BatchOf(r), i)
<1>1. /\ v.path = e.path /\ v.version = e.expected + 1
      /\ v.content = ContentOf(e)
  BY BatchOfFields DEF NewRow, NextVersion
<1>2. ContentOf(e) = ContentBefore(u)
  BY DEF Undoes, ContentOf, ContentBefore
<1> HIDE DEF v, e
<1> QED BY <1>1, <1>2 DEF Restores, Undoes, e, v

LEMMA RestoresStays ==
  ASSUME StoreInv, StoreInv', versions \subseteq versions', NEW r \in Requests,
         request'[r] = request[r], NEW v, NEW u \in versions, Restores(r, v, u)
  PROVE  Restores(r, v, u)'
BY ContentBeforeStays DEF Restores

LEMMA RestoredRows ==
  ASSUME StoreInv, StoreInv', [Next]_vars, NEW q \in Requests, UndoesTarget(q),
         IsRevert(q), pc[q] # "idle", request'[q] = request[q],
         NEW v \in RowsOf(q)'
  PROVE  \E u \in RowsOf(request[q].target)' : Restores(q, v, u)'
<1>1. versions \subseteq versions'
  BY StepShape, RowsStay DEF QuietStep
<1>2. ASSUME NEW u \in RowsOf(request[q].target), Restores(q, v, u)
      PROVE  \E w \in RowsOf(request[q].target)' : Restores(q, v, w)'
  <2>1. u \in versions /\ u \in RowsOf(request[q].target)'
    BY <1>1 DEF RowsOf
  <2>2. Restores(q, v, u)'
    BY <1>1, <1>2, <2>1, RestoresStays
  <2> QED BY <2>1, <2>2
<1>3. CASE v \in RowsOf(q)
  BY <1>2, <1>3 DEF UndoesTarget, Restores
<1>4. CASE v \notin RowsOf(q)
  <2>1. v \notin versions /\ v \in versions' /\ v.commit = q
    BY <1>4 DEF RowsOf
  <2>2. PICK r \in Requests : BatchStepOf(r)
    BY <2>1, StepShape DEF QuietStep
  <2>3. /\ BatchOf(r) \in Batch /\ OncePerPath(BatchOf(r))
        /\ CommitBatch(BatchOf(r)) /\ TablesTypeOK
    BY <2>2, BatchOfMakesSense DEF BatchStepOf, StoreInv, TypeOK
  <2>4. PICK i \in DOMAIN entries[r] : v = NewRow(BatchOf(r), i)
    BY <2>1, <2>3, BatchStep, BatchOfFields
  <2>5. r = q
    BY <2>1, <2>4, BatchOfFields DEF NewRow
  <2>6. PICK u \in RowsOf(request[q].target) : Undoes(q, entries[q][i], u)
    BY <2>4, <2>5 DEF UndoesTarget
  <2>7. u \in versions
    BY <2>6 DEF RowsOf
  <2> QED BY <1>2, <2>2, <2>4, <2>5, <2>6, <2>7, BatchRestores
<1> QED BY <1>3, <1>4

(* The entries of a revert, kept or computed.                              *)
LEMMA KeptEntries ==
  ASSUME StoreInv, StoreInv', versions \subseteq versions', NEW q \in Requests,
         UndoesTarget(q), IsRevert(q), pc[q] # "idle",
         request'[q] = request[q], entries'[q] = entries[q],
         NEW i \in DOMAIN entries'[q]
  PROVE  \E u \in RowsOf(request[q].target)' : Undoes(q, entries[q][i], u)'
<1> DEFINE e == entries[q][i]
<1>1. PICK u \in RowsOf(request[q].target) : Undoes(q, e, u)
  BY DEF UndoesTarget
<1>2. u \in versions /\ u \in RowsOf(request[q].target)'
  BY <1>1 DEF RowsOf
<1>3. PICK d : d = e
  OBVIOUS
<1>4. Undoes(q, d, u)'
  BY <1>1, <1>2, <1>3, UndoesStays
<1> QED BY <1>2, <1>3, <1>4 DEF Undoes

LEMMA ComputedEntries ==
  ASSUME StoreInv, StoreInv', CallsInv, NEW r \in Requests, ReadHeads(r),
         NEW i \in DOMAIN entries'[r], UndoesTarget(r)
  PROVE  \E u \in RowsOf(request[r].target)' : Undoes(r, entries[r][i], u)'
<1> DEFINE undo == {v \in RowsOf(request[r].target) : ~AlreadyUndone(r, v)}
<1>1. IsRevert(r) /\ pc[r] = "heads" /\ request[r].onto \in {"commit", "head"}
  <2>1. IsRevert(r) /\ pc[r] = "heads"
    BY DEF ReadHeads, CallsInv
  <2>2. request[r] \in Call
    BY <2>1, StoreAssumption DEF StoreInv, RequestsInv
  <2> QED BY <2>1, <2>2 DEF Call
<1>2. CASE Reply(r, Refusal("validation"))
  <2>1. request' = request /\ entries' = entries /\ versions' = versions
    BY <1>2 DEF Reply, tables
  <2> QED BY <1>1, <2>1, KeptEntries
<1>3. ASSUME NEW order \in InChangeOrder(undo),
             entries' = [entries EXCEPT ![r] =
                           [j \in DOMAIN order |-> UndoEntry(r, order[j])]],
             UNCHANGED <<tables, request>>
      PROVE  \E u \in RowsOf(request[r].target)' : Undoes(r, entries[r][i], u)'
  <2> DEFINE es == [j \in DOMAIN order |-> UndoEntry(r, order[j])]
  <2>1. entries'[r] = es
    BY <1>3 DEF StoreInv, TypeOK
  <2>2. i \in DOMAIN order /\ es[i] = UndoEntry(r, order[i])
    BY <2>1
  <2>3. order[i] \in undo
    BY <2>2 DEF InChangeOrder
  <2>4. PICK u : u = order[i]
    OBVIOUS
  <2>5. /\ u \in versions /\ versions' = versions /\ request' = request
        /\ u \in RowsOf(request[r].target)'
    BY <1>3, <2>3, <2>4 DEF RowsOf, tables
  <2>6. PICK d : d = UndoEntry(r, u)
    OBVIOUS
  <2>7. Undoes(r, d, u)'
    BY <1>1, <2>5, <2>6, UndoEntryUndoes, UndoesStays
  <2>8. entries'[r][i] = d
    BY <2>1, <2>2, <2>4, <2>6
  <2> QED BY <2>5, <2>7, <2>8 DEF Undoes
<1> QED BY <1>2, <1>3 DEF ReadHeads

LEMMA UndoesTargetNext ==
  ASSUME NEW q \in Requests,
         pc'[q] # "idle" /\ IsRevert(q)' =>
           /\ \A i \in DOMAIN entries'[q] :
                \E u \in RowsOf(request[q].target)' : Undoes(q, entries[q][i], u)'
           /\ \A v \in RowsOf(q)' :
                \E u \in RowsOf(request[q].target)' : Restores(q, v, u)'
  PROVE  UndoesTarget(q)'
BY DEF UndoesTarget, Undoes, Restores

LEMMA ArriveUndoes ==
  ASSUME StoreInv, NEW r \in Requests, Arrive(r)
  PROVE  UndoesTarget(r)'
<1>1. PICK c \in Calls[r] : /\ request' = [request EXCEPT ![r] = c]
                            /\ entries' = [entries EXCEPT ![r] = c.entries]
  BY DEF Arrive
<1>2. request'[r] = c /\ entries'[r] = c.entries /\ WellFormed(c)
  BY <1>1, StoreAssumption DEF StoreInv, TypeOK
<1>3. IsRevert(r)' => entries'[r] = <<>>
  BY <1>2 DEF IsRevert, WellFormed
<1>4. ASSUME NEW v \in RowsOf(r)' PROVE FALSE
  <2>1. v \in versions /\ v.commit = r /\ pc[r] = "idle"
    BY DEF RowsOf, Arrive, tables
  <2>2. Committed(r)
    BY <2>1 DEF StoreInv, TablesInv, CommitsWhole
  <2> QED BY <2>1, <2>2 DEF StoreInv, RequestsInv, Settled, Committed
<1> QED BY <1>3, <1>4, UndoesTargetNext

LEMMA StepKeepsUndo ==
  StoreInv /\ StoreInv' /\ CallsInv /\ UndoInv /\ [Next]_vars => UndoInv'
<1> SUFFICES ASSUME StoreInv, StoreInv', CallsInv, UndoInv, [Next]_vars,
                    NEW q \in Requests
             PROVE  UndoesTarget(q)'
  BY DEF UndoInv
<1>1. versions \subseteq versions' /\ UndoesTarget(q)
  BY StepShape, RowsStay DEF QuietStep, UndoInv
<1>2. CASE pc'[q] = pc[q] /\ request'[q] = request[q] /\ entries'[q] = entries[q]
  <2>1. IsRevert(q)' = IsRevert(q)
    BY <1>2 DEF IsRevert
  <2> QED BY <1>1, <1>2, <2>1, KeptEntries, RestoredRows, UndoesTargetNext
<1>3. ASSUME Step(q) PROVE UndoesTarget(q)'
  <2>1. CASE Arrive(q)
    BY <2>1, ArriveUndoes
  <2>2. CASE ReadHeads(q)
    <3>1. IsRevert(q) /\ pc[q] # "idle" /\ request'[q] = request[q]
      BY <2>2 DEF ReadHeads, CallsInv, Reply
    <3> QED BY <1>1, <2>2, <3>1, ComputedEntries, RestoredRows, UndoesTargetNext
  <2>3. CASE UNCHANGED <<request, entries>> /\ ~Arrive(q)
    <3>1. pc[q] # "idle" /\ IsRevert(q)' = IsRevert(q)
      BY <1>3, <2>3 DEF IsRevert, Step, CheckRevertLive, ReadTarget, ReadHeads,
                CheckLive, CheckReplay, CheckHead, CheckSource, CheckSnapshot, Win,
                Lose, Throw, Respond, RecheckLive, RecheckReplay, ClassifyWrite,
                ClassifyRollback, ClassifyCommit
    <3> QED BY <1>1, <2>3, <3>1, KeptEntries, RestoredRows, UndoesTargetNext
  <2> QED BY <1>3, <2>1, <2>2, <2>3, StepIsLocal DEF StepOnly
<1>4. ASSUME NEW r \in Requests, Step(r) PROVE UndoesTarget(q)'
  <2>1. q # r => Unmoved(q)
    BY <1>4, StepIsLocal DEF StepOnly
  <2> QED BY <1>2, <1>3, <1>4, <2>1 DEF Unmoved
<1>5. CASE Lifecycle \/ Foreign \/ CollectLedger \/ UNCHANGED vars
  BY <1>2, <1>5, OthersAreLocal DEF Unmoved
<1> QED BY <1>4, <1>5 DEF Next

(* A revert puts back what each path held before the commit it names, and  *)
(* onto "commit" it never undoes a write that came later: the heads it     *)
(* read may move before its batch, and the gate still sees to it.          *)
THEOREM RevertsRestore == Spec => []RevertRestores
<1>1. StoreInv /\ UndoInv => RevertRestores
  <2> SUFFICES ASSUME StoreInv, UndoInv, NEW r \in Requests, Committed(r),
                      IsRevert(r), NEW v \in RowsOf(r)
               PROVE  \E u \in RowsOf(request[r].target) :
                        /\ u.path = v.path
                        /\ v.content = ContentBefore(u)
                        /\ request[r].onto = "commit" => v.version = u.version + 1
    BY DEF RevertRestores
  <2>1. pc[r] # "idle"
    BY DEF StoreInv, RequestsInv, Settled, Committed
  <2> QED BY <2>1 DEF UndoInv, UndoesTarget
<1>2. Init => CallsInv /\ UndoInv
  BY DEF Init, CallsInv, UndoInv, UndoesTarget
<1> QED BY <1>1, <1>2, InitialStoreInv, StepKeepsStoreInv, StepKeepsCalls,
           StepKeepsUndo, PTL DEF Spec

-----------------------------------------------------------------------------
(* Why a request loses.                                                    *)

(* What may leave a lost batch without a reason.                           *)
Excused(r) ==
  \/ r \in thrown \/ lifecycle > 1
  \/ Key(r) # NoKey /\ (IsRevert(r) \/ (LedgerExpires /\ IsSingle(r)))

KeyUsed(r) ==
  IF IsSingle(r) THEN PriorWrites(r) # {} ELSE PriorCommits(r) # {}

(* The head is not the one that an entry expects.                          *)
Displaced(e) ==
  \/ files[e.path].version # e.expected
  \/ e.op = "delete" /\ files[e.path].deleted

Superseded(r) ==
  \/ FenceMoved(request[r])
  \/ \E i \in DOMAIN entries[r] : Displaced(entries[r][i])

AfterHead == {"source", "batch", "relive", "rereplay", "rehead", "resource"}

(* What a request found in order on its way to the batch cannot turn bad   *)
(* again in the other direction: heads are past what it expects, sources   *)
(* stay, and the change its fence names has been.                          *)
ReadyAt(r, place) ==
  place \in AfterHead =>
    /\ place \in {"source", "resource"} => IsSingle(r)
    /\ \A i \in DOMAIN entries[r] :
         /\ entries[r][i].expected <= files[entries[r][i].path].version
         /\ place # "source" /\ entries[r][i].op \in {"copy", "rollback"} =>
              Restorable(entries[r][i].fromPath, entries[r][i].fromVersion)
    /\ request[r].whole =>
         request[r].since = 0 \/ \E v \in versions : v.id = request[r].since

Ready(r) == ReadyAt(r, pc[r])

(* The reason why it lost is still there when it looks for it.             *)
ReasonAt(r, place) ==
  /\ place = "relive" => ~live \/ KeyUsed(r) \/ Superseded(r)
  /\ place = "rereplay" => KeyUsed(r) \/ Superseded(r)
  /\ place = "rehead" => Superseded(r)
  /\ place = "resource" => seen[r] # TheEntry(r).expected

HasReason(r) ==
  \/ pc[r] # "idle" /\ Excused(r)
  \/ ReasonAt(r, pc[r]) /\ answer[r].code # "internal"

ReasonInv == \A r \in Requests : Ready(r) /\ HasReason(r)

LEMMA DisplacedStays ==
  ASSUME StoreInv, StoreInv', Forward, NEW e \in Entry, Displaced(e),
         e.expected <= files[e.path].version
  PROVE  Displaced(e)'
<1>1. /\ e.path \in Paths /\ e.expected \in Nat
      /\ files[e.path].version \in Nat /\ files'[e.path].version \in Nat
  BY DEF Entry, StoreInv, TypeOK, TablesTypeOK, FileRow
<1>2. /\ files[e.path].version <= files'[e.path].version
      /\ files'[e.path].version = files[e.path].version
           => files'[e.path] = files[e.path]
  BY <1>1 DEF Forward, Grows
<1>3. CASE files'[e.path].version = files[e.path].version
  BY <1>2, <1>3 DEF Displaced
<1>4. CASE files'[e.path].version # files[e.path].version
  <2>1. files'[e.path].version # e.expected
    BY <1>1, <1>2, <1>4
  <2> QED BY <2>1 DEF Displaced
<1> QED BY <1>3, <1>4

LEMMA FenceStaysMoved ==
  ASSUME StoreInv, StoreInv', Forward, NEW c \in Call, FenceMoved(c),
         c.whole => c.since = 0 \/ \E v \in versions : v.id = c.since
  PROVE  FenceMoved(c)'
<1>1. versions \subseteq versions'
  BY DEF Forward
<1>2. \A s, ps : ChangedSince(s, ps) => ChangedSince(s, ps)'
  BY <1>1 DEF ChangedSince
<1>3. CASE ChangedSince(c.since, c.scope)
  BY <1>2, <1>3 DEF FenceMoved
<1>4. CASE c.whole /\ ~IsNewestChange(c.since)
  <2>1. ChangedSince(c.since, Paths)
    BY <1>4 DEF IsNewestChange
  <2> QED BY <1>2, <1>4, <2>1 DEF FenceMoved, IsNewestChange
<1> QED BY <1>3, <1>4 DEF FenceMoved

(* A request that stands where it was, while the tables move on.           *)
LEMMA CallAndEntries ==
  ASSUME StoreInv, NEW r \in Requests, pc[r] # "idle"
  PROVE  /\ request[r] \in Call /\ WellFormed(request[r])
         /\ entries[r] \in Seq(Entry)
         /\ \A i \in DOMAIN entries[r] : entries[r][i] \in Entry
BY StoreAssumption DEF StoreInv, TypeOK, RequestsInv

LEMMA SupersededStays ==
  ASSUME StoreInv, StoreInv', Forward, NEW r \in Requests, Ready(r),
         pc[r] \in AfterHead, Superseded(r),
         request'[r] = request[r], entries'[r] = entries[r]
  PROVE  Superseded(r)'
<1>1. /\ request[r] \in Call
      /\ \A i \in DOMAIN entries[r] : entries[r][i] \in Entry
  BY CallAndEntries DEF AfterHead
<1>2. CASE FenceMoved(request[r])
  <2>1. PICK c \in Call : c = request[r]
    BY <1>1
  <2>2. c.whole => c.since = 0 \/ \E v \in versions : v.id = c.since
    BY <2>1 DEF Ready, ReadyAt
  <2>3. FenceMoved(c)'
    BY <1>2, <2>1, <2>2, FenceStaysMoved
  <2> QED BY <2>1, <2>3 DEF Superseded, FenceMoved
<1>3. ASSUME NEW i \in DOMAIN entries[r], Displaced(entries[r][i])
      PROVE  Superseded(r)'
  <2>1. PICK e \in Entry : e = entries[r][i]
    BY <1>1
  <2>2. e.expected <= files[e.path].version
    BY <2>1 DEF Ready, ReadyAt
  <2>3. Displaced(e)'
    BY <1>3, <2>1, <2>2, DisplacedStays
  <2> QED BY <2>1, <2>3 DEF Superseded, Displaced
<1> QED BY <1>2, <1>3 DEF Superseded

LEMMA ReadyStays ==
  ASSUME StoreInv, StoreInv', Forward, NEW r \in Requests, Ready(r),
         pc[r] \in AfterHead, request'[r] = request[r], entries'[r] = entries[r],
         pc'[r] = pc[r] \/ (pc[r] = "batch" /\ pc'[r] = "relive")
  PROVE  Ready(r)'
<1>1. \A i \in DOMAIN entries[r] : entries[r][i] \in Entry
  BY CallAndEntries DEF AfterHead
<1>2. versions \subseteq versions' /\ HistoryContiguous'
  BY DEF Forward, StoreInv, TablesInv
<1>3. ASSUME NEW i \in DOMAIN entries[r]
      PROVE  entries[r][i].expected <= files'[entries[r][i].path].version
  <2> DEFINE e == entries[r][i]
  <2>1. e.path \in Paths /\ e.expected \in Nat
    BY <1>1 DEF Entry
  <2>2. /\ e.expected <= files[e.path].version
        /\ files[e.path].version <= files'[e.path].version
    BY <2>1 DEF Ready, ReadyAt, Forward, Grows
  <2>3. files[e.path].version \in Nat /\ files'[e.path].version \in Nat
    BY <2>1 DEF StoreInv, TypeOK, TablesTypeOK, FileRow
  <2> QED BY <2>1, <2>2, <2>3
<1>4. \A p, n : Restorable(p, n) => Restorable(p, n)'
  BY <1>2 DEF Restorable, RowsAt
<1>5. ASSUME NEW i \in DOMAIN entries[r], pc'[r] # "source",
             entries[r][i].op \in {"copy", "rollback"}
      PROVE  Restorable(entries[r][i].fromPath, entries[r][i].fromVersion)'
  <2>1. Restorable(entries[r][i].fromPath, entries[r][i].fromVersion)
    BY <1>5 DEF Ready, ReadyAt
  <2>2. PICK p, n : p = entries[r][i].fromPath /\ n = entries[r][i].fromVersion
    OBVIOUS
  <2>3. Restorable(p, n)'
    BY <1>4, <2>1, <2>2
  <2> QED BY <2>2, <2>3 DEF Restorable, RowsAt
<1>6. request[r].whole =>
        request[r].since = 0 \/ \E v \in versions' : v.id = request[r].since
  BY <1>2 DEF Ready, ReadyAt
<1> QED BY <1>3, <1>5, <1>6 DEF Ready, ReadyAt, IsSingle

LEMMA ExcusedStays ==
  ASSUME StoreInv, StoreInv', Forward, NEW r \in Requests,
         request'[r] = request[r], Excused(r)
  PROVE  Excused(r)'
<1>1. /\ thrown \subseteq thrown' /\ lifecycle <= lifecycle'
      /\ lifecycle \in Nat /\ lifecycle' \in Nat
  BY DEF Forward, StoreInv, TypeOK
<1>2. lifecycle > 1 => lifecycle' > 1
  BY <1>1
<1>3. /\ Key(r)' = Key(r) /\ IsRevert(r)' = IsRevert(r)
      /\ IsSingle(r)' = IsSingle(r)
  BY DEF Key, IsRevert, IsSingle
<1> QED BY <1>1, <1>2, <1>3 DEF Excused

LEMMA KeyUsedStays ==
  ASSUME StoreInv, StoreInv', Forward, NEW r \in Requests,
         request'[r] = request[r], KeyUsed(r), ~Excused(r)
  PROVE  KeyUsed(r)'
<1>1. Key(r)' = Key(r) /\ IsSingle(r)' = IsSingle(r)
  BY DEF Key, IsSingle
<1>2. CASE IsSingle(r)
  <2>1. PICK row \in ledger : row.key = Key(r)
    BY <1>2 DEF KeyUsed, PriorWrites
  <2>2. Key(r) # NoKey
    BY <2>1, TablesAssumption DEF StoreInv, TypeOK, TablesTypeOK, LedgerRow
  <2>3. row \in ledger'
    BY <1>2, <2>1, <2>2 DEF Excused, Forward
  <2> QED BY <1>1, <1>2, <2>1, <2>3 DEF KeyUsed, PriorWrites
<1>3. CASE ~IsSingle(r)
  BY <1>1, <1>3 DEF KeyUsed, PriorCommits, Forward
<1> QED BY <1>2, <1>3

LEMMA UnmovedReason ==
  ASSUME StoreInv, StoreInv', Forward, NEW q \in Requests, Unmoved(q),
         Ready(q), HasReason(q)
  PROVE  Ready(q)' /\ HasReason(q)'
<1>1. Ready(q)'
  <2>1. CASE pc[q] \in AfterHead
    BY <2>1, ReadyStays DEF Unmoved
  <2>2. CASE pc[q] \notin AfterHead
    BY <2>2 DEF Ready, ReadyAt, Unmoved
  <2> QED BY <2>1, <2>2
<1>2. HasReason(q)'
  <2>1. CASE pc[q] # "idle" /\ Excused(q)
    BY <2>1, ExcusedStays DEF HasReason, Unmoved
  <2>2. CASE ReasonAt(q, pc[q]) /\ answer[q].code # "internal" /\ ~Excused(q)
    <3>1. pc[q] \in AfterHead /\ Superseded(q) => Superseded(q)'
      BY SupersededStays DEF Unmoved
    <3>2. KeyUsed(q) => KeyUsed(q)'
      BY <2>2, KeyUsedStays DEF Unmoved
    <3>3. pc'[q] = pc[q] /\ seen'[q] = seen[q] /\ TheEntry(q)' = TheEntry(q)
            /\ answer'[q] = answer[q]
      BY DEF Unmoved, TheEntry
    <3>4. ~live => ~live' \/ Excused(q)'
      BY DEF Forward, Excused
    <3>5. CASE Excused(q)' /\ pc[q] # "idle"
      BY <3>3, <3>5 DEF HasReason
    <3>6. CASE ~Excused(q)' \/ pc[q] = "idle"
      <4>1. ReasonAt(q, pc[q])'
        BY <2>2, <3>1, <3>2, <3>3, <3>4, <3>6 DEF ReasonAt, AfterHead
      <4> QED BY <2>2, <3>3, <4>1 DEF HasReason
    <3> QED BY <3>5, <3>6
  <2>3. CASE pc[q] = "idle" /\ answer[q].code # "internal"
    <3>1. pc'[q] = "idle" /\ answer'[q].code # "internal"
      BY <2>3 DEF Unmoved
    <3> QED BY <3>1 DEF HasReason, ReasonAt
  <2> QED BY <2>1, <2>2, <2>3 DEF HasReason
<1> QED BY <1>1, <1>2

(* A move that leaves the tables alone, and an answer.                     *)
LEMMA GotoHasReason ==
  ASSUME StoreInv, NEW r \in Requests, NEW place, Goto(r, place),
         pc[r] # "idle", HasReason(r), ReadyAt(r, place), place # "idle",
         Excused(r) \/ ReasonAt(r, place)
  PROVE  Ready(r)' /\ HasReason(r)'
<1>1. pc'[r] = place
  BY DEF Goto, StoreInv, TypeOK
<1>2. UNCHANGED <<live, files, versions, commits, ledger, request, entries, seen,
                  answer, thrown, lifecycle>>
  BY DEF Goto, tables
<1>3. ReadyAt(r, place)'
  BY <1>2 DEF ReadyAt, Restorable, RowsAt, IsSingle
<1>4. Excused(r)' <=> Excused(r)
  BY <1>2 DEF Excused, Key, IsRevert, IsSingle
<1>5. ReasonAt(r, place)' <=> ReasonAt(r, place)
  <2>1. KeyUsed(r)' <=> KeyUsed(r)
    BY <1>2 DEF KeyUsed, IsSingle, PriorWrites, PriorCommits, Key
  <2>2. FenceMoved(request[r])' <=> FenceMoved(request[r])
    BY <1>2 DEF FenceMoved, IsNewestChange, ChangedSince
  <2>3. Superseded(r)' <=> Superseded(r)
    BY <1>2, <2>2 DEF Superseded, Displaced
  <2> QED BY <1>2, <2>1, <2>3 DEF ReasonAt, TheEntry
<1>6. Ready(r)'
  BY <1>1, <1>3 DEF Ready
<1>7. HasReason(r)'
  BY <1>1, <1>2, <1>4, <1>5 DEF HasReason
<1> QED BY <1>6, <1>7

LEMMA ReplyHasReason ==
  ASSUME StoreInv, NEW r \in Requests, NEW a, Reply(r, a), pc[r] # "idle",
         a.code # "internal" \/ Excused(r)
  PROVE  Ready(r)' /\ HasReason(r)'
<1>1. pc'[r] = "done" /\ answer'[r] = a
  BY DEF Reply, StoreInv, TypeOK
<1>2. Excused(r)' <=> Excused(r)
  BY DEF Reply, Excused, Key, IsRevert, IsSingle
<1> QED BY <1>1, <1>2 DEF Ready, ReadyAt, HasReason, ReasonAt, AfterHead

(* What the reads under a key find is complete.                            *)
LEMMA BodyFields ==
  ASSUME NEW c \in Call
  PROVE  /\ Body(c).call = c.call /\ Body(c).entries = c.entries
         /\ Body(c).skip = c.skip /\ Body(c).since = c.since
         /\ Body(c).whole = c.whole /\ Body(c).scope = c.scope
         /\ Body(c).target = c.target /\ Body(c).onto = c.onto
BY DEF Body, Call

LEMMA ReplayWriteKnows ==
  ASSUME LedgerTruthful, NEW r \in Requests, NEW row \in PriorWrites(r)
  PROVE  ReplayWrite(r, row).code # "internal"
<1>1. RowsAt(row.path, row.version) # {}
  BY DEF PriorWrites, LedgerTruthful
<1> QED BY <1>1, SuccessFields DEF ReplayWrite, Refusal

LEMMA ReplayCommitKnows ==
  ASSUME StoreInv, CallsInv, EffectsInv, NEW r \in Requests, pc[r] # "idle",
         ~IsSingle(r), ~IsRevert(r), NEW row \in PriorCommits(r)
  PROVE  ReplayCommit(r, row).code # "internal"
<1>1. CASE row.hash # Hash(r)
  BY <1>1 DEF ReplayCommit, Refusal
<1>2. CASE row.hash = Hash(r)
  <2>1. row \in commits
    BY DEF PriorCommits
  <2>2. PICK s \in Requests : s = row.id
    BY <2>1, StoreAssumption DEF StoreInv, TypeOK, TablesTypeOK, CommitRow
  <2>3. Committed(s) /\ pc[s] # "idle" /\ Hash(s) = Hash(r)
    BY <1>2, <2>1, <2>2
       DEF Committed, StoreInv, RequestsInv, Settled, EffectsInv, EffectOf
  <2>4. request[s] \in Call /\ request[r] \in Call
    BY <2>3, CallAndEntries
  <2>5. request[s].call = request[r].call /\ request[s].entries = request[r].entries
    BY <2>3, <2>4, BodyFields DEF Hash
  <2>6. ~IsSingle(s) /\ ~IsRevert(s)
    BY <2>5 DEF IsSingle, IsRevert
  <2>7. entries[s] = entries[r]
    BY <2>3, <2>5, <2>6 DEF CallsInv
  <2>8. PICK c \in commits : c.id = s /\ Rebuilt(s, c)
    BY <2>3, <2>6, WinnerReadsBack DEF ReadsBack
  <2>9. c = row
    BY <2>1, <2>2, <2>8 DEF StoreInv, TablesInv, CommitsWhole
  <2>10. Rebuilt(r, row)
    BY <2>7, <2>8, <2>9 DEF Rebuilt
  <2> QED BY <1>2, <2>10, SuccessFields DEF ReplayCommit
<1> QED BY <1>1, <1>2

LEMMA PriorHasReason ==
  ASSUME StoreInv, CallsInv, EffectsInv, LedgerTruthful, NEW r \in Requests,
         NEW next \in {"head", "rehead"}, AnswerFromPrior(r, next),
         pc[r] = (IF next = "head" THEN "replay" ELSE "rereplay"),
         Ready(r), HasReason(r)
  PROVE  Ready(r)' /\ HasReason(r)'
<1>1. ReadyAt(r, next)
  BY DEF Ready, ReadyAt, AfterHead
<1>2. CASE Goto(r, next) /\ ~KeyUsed(r)
  <2>1. Excused(r) \/ ReasonAt(r, next)
    BY <1>2 DEF HasReason, ReasonAt
  <2> QED BY <1>1, <1>2, <2>1, GotoHasReason
<1>3. ASSUME NEW row \in PriorWrites(r), Reply(r, ReplayWrite(r, row))
      PROVE  Ready(r)' /\ HasReason(r)'
  BY <1>3, ReplayWriteKnows, ReplyHasReason
<1>4. ASSUME NEW row \in PriorCommits(r), Reply(r, ReplayCommit(r, row)),
             ~IsSingle(r)
      PROVE  Ready(r)' /\ HasReason(r)'
  <2>1. IsRevert(r) => Excused(r)
    BY DEF PriorCommits, Excused
  <2>2. pc[r] # "idle"
    OBVIOUS
  <2> QED BY <1>4, <2>1, <2>2, ReplayCommitKnows, ReplyHasReason
<1> QED BY <1>2, <1>3, <1>4 DEF AnswerFromPrior, KeyUsed

(* A request past its head check is where it says.                         *)
LEMMA TheSingleEntry ==
  ASSUME StoreInv, CallsInv, NEW r \in Requests, pc[r] # "idle", IsSingle(r)
  PROVE  /\ TheEntry(r) \in Entry /\ DOMAIN entries[r] = {1}
         /\ WellFormedEntry(TheEntry(r)) /\ TheEntry(r).op \in SingleCalls
         /\ ~request[r].whole /\ request[r].scope = {}
<1>1. /\ request[r] \in Call /\ WellFormed(request[r]) /\ ~IsRevert(r)
      /\ entries[r] \in Seq(Entry)
  BY CallAndEntries DEF IsSingle, IsRevert, SingleCalls
<1>2. /\ entries[r] = request[r].entries /\ Len(entries[r]) = 1
      /\ entries[r][1].op = request[r].call /\ ~request[r].whole
      /\ request[r].scope = {}
  BY <1>1 DEF CallsInv, WellFormed, IsSingle
<1>3. DOMAIN entries[r] = {1}
  BY <1>1, <1>2
<1>4. WellFormedEntry(entries[r][1])
  BY <1>3 DEF StoreInv, RequestsInv
<1> QED BY <1>1, <1>2, <1>3, <1>4, CallAndEntries DEF TheEntry, IsSingle

LEMMA HeadRefusalMeans ==
  ASSUME NEW e \in Entry, WellFormedEntry(e), NEW head \in FileRow
  PROVE  HeadRefusal(e, head) = "none" <=>
           head.version = e.expected /\ ~(e.op = "delete" /\ head.deleted)
<1>1. /\ e.expected \in Nat /\ head.version \in Nat /\ head.deleted \in BOOLEAN
      /\ e.op = "delete" => e.expected > 0
  BY DEF Entry, FileRow, WellFormedEntry
<1> QED BY <1>1 DEF HeadRefusal

LEMMA CheckHeadHasReason ==
  ASSUME StoreInv, CallsInv, NEW r \in Requests, CheckHead(r), HasReason(r)
  PROVE  Ready(r)' /\ HasReason(r)'
<1> DEFINE e == TheEntry(r)
           head == files[e.path]
<1>1. pc[r] = "head" /\ pc[r] # "idle" /\ IsSingle(r)
  BY DEF CheckHead
<1>2. /\ e \in Entry /\ DOMAIN entries[r] = {1} /\ WellFormedEntry(e)
      /\ e.op \in SingleCalls /\ ~request[r].whole
  BY <1>1, TheSingleEntry
<1>3. e.path \in Paths /\ e.expected \in Nat /\ head \in FileRow
  BY <1>2 DEF Entry, StoreInv, TypeOK, TablesTypeOK
<1>4. HeadRefusal(e, head) # "internal"
  BY DEF HeadRefusal
<1>5. CASE Reply(r, Refusal(HeadRefusal(e, head))) \/ Reply(r, Refusal("unchanged"))
  BY <1>1, <1>4, <1>5, ReplyHasReason DEF Refusal
<1>6. CASE HeadRefusal(e, head) = "none"
             /\ Goto(r, IF e.op = "rollback" THEN "source" ELSE "batch")
  <2> DEFINE place == IF e.op = "rollback" THEN "source" ELSE "batch"
  <2>1. e.expected <= head.version
    BY <1>2, <1>3, <1>6, HeadRefusalMeans
  <2>2. e.op \in {"copy", "rollback"} => place = "source"
    BY <1>2 DEF SingleCalls
  <2>3. ReadyAt(r, place)
    BY <1>1, <1>2, <2>1, <2>2 DEF ReadyAt, TheEntry
  <2>4. ReasonAt(r, place)
    BY DEF ReasonAt
  <2> QED BY <1>1, <1>6, <2>3, <2>4, GotoHasReason
<1> QED BY <1>5, <1>6 DEF CheckHead

LEMMA CheckSourceHasReason ==
  ASSUME StoreInv, CallsInv, NEW r \in Requests, CheckSource(r),
         Ready(r), HasReason(r)
  PROVE  Ready(r)' /\ HasReason(r)'
<1>1. pc[r] = "source" /\ pc[r] # "idle" /\ IsSingle(r)
  BY DEF CheckSource, Ready, ReadyAt, AfterHead
<1>2. CASE Reply(r, Refusal(SourceRefusal(TheEntry(r))))
  <2>1. SourceRefusal(TheEntry(r)) # "internal"
    BY DEF SourceRefusal
  <2> QED BY <1>1, <1>2, <2>1, ReplyHasReason DEF Refusal
<1>3. CASE SourceRefusal(TheEntry(r)) = "none" /\ Goto(r, "batch")
  <2>1. Restorable(TheEntry(r).fromPath, TheEntry(r).fromVersion)
    BY <1>3 DEF SourceRefusal
  <2>2. DOMAIN entries[r] = {1}
    BY <1>1, TheSingleEntry
  <2>3. ReadyAt(r, "batch")
    BY <1>1, <2>1, <2>2 DEF Ready, ReadyAt, AfterHead, TheEntry
  <2>4. ReasonAt(r, "batch")
    BY DEF ReasonAt
  <2> QED BY <1>1, <1>3, <2>3, <2>4, GotoHasReason
<1> QED BY <1>2, <1>3 DEF CheckSource

LEMMA CheckSnapshotHasReason ==
  ASSUME StoreInv, CallsInv, NEW r \in Requests, CheckSnapshot(r), HasReason(r)
  PROVE  Ready(r)' /\ HasReason(r)'
<1>1. pc[r] = "head" /\ pc[r] # "idle"
  BY DEF CheckSnapshot
<1>2. CASE Reply(r, Refusal(CommitRefusal(r)))
  <2>1. CommitRefusal(r) # "internal"
    BY DEF CommitRefusal
  <2> QED BY <1>1, <1>2, <2>1, ReplyHasReason DEF Refusal
<1>3. CASE CommitRefusal(r) = "none" /\ Goto(r, "batch")
  <2>1. ~FenceMoved(request[r]) /\ ConflictsOf(r) = {}
    BY <1>3 DEF CommitRefusal
  <2>2. ASSUME NEW i \in DOMAIN entries[r]
        PROVE  /\ entries[r][i].expected <= files[entries[r][i].path].version
               /\ entries[r][i].op \in {"copy", "rollback"} =>
                    Restorable(entries[r][i].fromPath, entries[r][i].fromVersion)
    <3>1. ~Conflicts(entries[r][i])
      BY <2>1 DEF ConflictsOf
    <3>2. entries[r][i].expected \in Nat
      BY <1>1, CallAndEntries DEF Entry
    <3> QED BY <3>1, <3>2 DEF Conflicts
  <2>3. request[r].whole =>
          request[r].since = 0 \/ \E v \in versions : v.id = request[r].since
    BY <2>1 DEF FenceMoved, IsNewestChange
  <2>4. ReadyAt(r, "batch")
    BY <2>2, <2>3 DEF ReadyAt
  <2>5. ReasonAt(r, "batch")
    BY DEF ReasonAt
  <2> QED BY <1>1, <1>3, <2>4, <2>5, GotoHasReason
<1> QED BY <1>2, <1>3 DEF CheckSnapshot

(* A batch loses to the stash, to a key, or to a newer head or change.     *)
LEMMA LoseHasReason ==
  ASSUME StoreInv, NEW r \in Requests, Lose(r), Ready(r), HasReason(r)
  PROVE  Ready(r)' /\ HasReason(r)'
<1> DEFINE b == BatchOf(r)
<1>1. pc[r] = "batch" /\ Goto(r, "relive") /\ ~Wins(b)
  BY DEF Lose
<1>2. /\ b \in Batch /\ OncePerPath(b) /\ EntriesMakeSense(b) /\ TablesInv
  BY <1>1, BatchOfMakesSense DEF StoreInv
<1>3. ~Gate(b) \/ ~KeysFree(b)
  BY <1>1, <1>2, GateSuffices DEF Wins
<1>4. ReasonAt(r, "relive")
  <2>1. CASE ~KeysFree(b)
    <3>1. \/ /\ IsSingle(r) /\ \E row \in ledger : row.key = Key(r)
          \/ /\ ~IsSingle(r) /\ Key(r) # NoKey
             /\ \E row \in commits : row.key = Key(r)
      BY <2>1, BatchOfFields DEF KeysFree
    <3>2. KeyUsed(r)
      BY <3>1 DEF KeyUsed, PriorWrites, PriorCommits
    <3> QED BY <3>2 DEF ReasonAt
  <2>2. CASE ~live
    BY <2>2 DEF ReasonAt
  <2>3. CASE ~GateFence(b)
    <3>1. FenceMoved(request[r])
      BY <2>3, BatchOfFields DEF GateFence, FenceMoved
    <3> QED BY <3>1 DEF ReasonAt, Superseded
  <2>4. ASSUME NEW i \in DOMAIN b.entries, ~GateAccepts(b.entries[i])
        PROVE  ReasonAt(r, "relive")
    <3>1. i \in DOMAIN entries[r] /\ b.entries[i] = entries[r][i]
      BY <2>4, BatchOfFields
    <3>2. entries[r][i].op \in {"copy", "rollback"} =>
            Restorable(entries[r][i].fromPath, entries[r][i].fromVersion)
      BY <1>1, <3>1 DEF Ready, ReadyAt, AfterHead
    <3>3. Displaced(entries[r][i])
      BY <2>4, <3>1, <3>2 DEF GateAccepts, Displaced
    <3> QED BY <3>1, <3>3 DEF ReasonAt, Superseded
  <2> QED BY <1>3, <2>1, <2>2, <2>3, <2>4 DEF Gate
<1>5. ReadyAt(r, "relive")
  BY <1>1 DEF Ready, ReadyAt, AfterHead
<1> QED BY <1>1, <1>4, <1>5, GotoHasReason

LEMMA RecheckLiveHasReason ==
  ASSUME StoreInv, NEW r \in Requests, RecheckLive(r), Ready(r), HasReason(r)
  PROVE  Ready(r)' /\ HasReason(r)'
<1>1. pc[r] = "relive"
  BY DEF RecheckLive
<1>2. CASE Reply(r, Refusal("not-found"))
  BY <1>1, <1>2, ReplyHasReason DEF Refusal
<1>3. CASE live /\ Goto(r, "rereplay")
  <2>1. Excused(r) \/ ReasonAt(r, "rereplay")
    BY <1>1, <1>3 DEF HasReason, ReasonAt
  <2>2. ReadyAt(r, "rereplay")
    BY <1>1 DEF Ready, ReadyAt, AfterHead
  <2> QED BY <1>1, <1>3, <2>1, <2>2, GotoHasReason
<1> QED BY <1>2, <1>3 DEF RecheckLive

LEMMA ClassifyWriteHasReason ==
  ASSUME StoreInv, CallsInv, NEW r \in Requests, ClassifyWrite(r),
         Ready(r), HasReason(r)
  PROVE  Ready(r)' /\ HasReason(r)'
<1> DEFINE e == TheEntry(r)
           head == files[e.path]
<1>1. pc[r] = "rehead" /\ pc[r] # "idle" /\ IsSingle(r)
  BY DEF ClassifyWrite
<1>2. /\ e \in Entry /\ DOMAIN entries[r] = {1} /\ WellFormedEntry(e)
      /\ ~request[r].whole /\ request[r].scope = {} /\ e = entries[r][1]
  BY <1>1, TheSingleEntry DEF TheEntry
<1>3. e.path \in Paths /\ e.expected \in Nat /\ head \in FileRow
      /\ (e.op = "rollback" => e.expected > 0)
  BY <1>2 DEF Entry, StoreInv, TypeOK, TablesTypeOK, WellFormedEntry
<1>4. Superseded(r) => Displaced(e)
  BY <1>2 DEF Superseded, FenceMoved, ChangedSince
<1>5. Displaced(e) <=> HeadRefusal(e, head) # "none"
  BY <1>2, <1>3, HeadRefusalMeans DEF Displaced
<1>6. Excused(r) \/ Displaced(e)
  BY <1>1, <1>4 DEF HasReason, ReasonAt
<1>7. CASE Reply(r, Refusal(OrInternal(HeadRefusal(e, head))))
  <2>1. HeadRefusal(e, head) # "internal"
    BY DEF HeadRefusal
  <2>2. Excused(r) \/ OrInternal(HeadRefusal(e, head)) # "internal"
    BY <1>5, <1>6, <2>1 DEF OrInternal
  <2> QED BY <1>1, <1>7, <2>2, ReplyHasReason DEF Refusal
<1>8. CASE /\ e.op = "rollback" /\ head.version # 0
           /\ pc' = [pc EXCEPT ![r] = "resource"]
           /\ seen' = [seen EXCEPT ![r] = head.version]
           /\ UNCHANGED <<tables, request, entries, answer, thrown, lifecycle,
                          foreign>>
  <2>1. pc'[r] = "resource" /\ seen'[r] = head.version
    BY <1>8 DEF StoreInv, TypeOK
  <2>2. Ready(r)'
    <3>1. ReadyAt(r, "resource")
      BY <1>1 DEF Ready, ReadyAt, AfterHead
    <3>2. ReadyAt(r, "resource")'
      BY <1>8, <3>1 DEF ReadyAt, Restorable, RowsAt, IsSingle, tables
    <3> QED BY <2>1, <3>2 DEF Ready
  <2>3. CASE Excused(r)
    <3>1. Excused(r)'
      BY <1>8, <2>3 DEF Excused, Key, IsRevert, IsSingle
    <3> QED BY <2>1, <2>2, <3>1 DEF HasReason
  <2>4. CASE ~Excused(r)
    <3>1. head.version # e.expected
      BY <1>6, <1>8, <2>4 DEF Displaced
    <3>2. TheEntry(r)' = e /\ answer'[r] = answer[r] /\ answer[r].code # "internal"
      BY <1>8, <2>4 DEF TheEntry, HasReason
    <3>3. HasReason(r)'
      BY <2>1, <3>1, <3>2 DEF HasReason, ReasonAt
    <3> QED BY <2>2, <3>3
  <2> QED BY <2>3, <2>4
<1> QED BY <1>7, <1>8 DEF ClassifyWrite

LEMMA ClassifyHasReason ==
  ASSUME StoreInv, NEW r \in Requests, ClassifyRollback(r) \/ ClassifyCommit(r),
         HasReason(r)
  PROVE  Ready(r)' /\ HasReason(r)'
<1>1. CASE ClassifyRollback(r)
  <2> DEFINE code == IF SourceRefusal(TheEntry(r)) # "none"
                     THEN SourceRefusal(TheEntry(r))
                     ELSE IF seen[r] = TheEntry(r).expected THEN "internal"
                          ELSE "stale"
  <2>1. pc[r] = "resource" /\ Reply(r, Refusal(code))
    BY <1>1 DEF ClassifyRollback
  <2>2. SourceRefusal(TheEntry(r)) # "internal"
    BY DEF SourceRefusal
  <2>3. Excused(r) \/ code # "internal"
    BY <2>1, <2>2 DEF HasReason, ReasonAt
  <2>4. Refusal(code).code = code
    BY DEF Refusal
  <2> QED BY <2>1, <2>3, <2>4, ReplyHasReason
<1>2. CASE ClassifyCommit(r)
  <2>1. pc[r] = "rehead" /\ Reply(r, Refusal(OrInternal(CommitRefusal(r))))
    BY <1>2 DEF ClassifyCommit
  <2>2. CommitRefusal(r) # "internal"
    BY DEF CommitRefusal
  <2>3. Superseded(r) => CommitRefusal(r) # "none"
    BY DEF Superseded, CommitRefusal, ConflictsOf, Conflicts, Displaced
  <2>4. Excused(r) \/ OrInternal(CommitRefusal(r)) # "internal"
    BY <2>1, <2>2, <2>3 DEF HasReason, ReasonAt, OrInternal
  <2> QED BY <2>1, <2>4, ReplyHasReason DEF Refusal
<1> QED BY <1>1, <1>2

(* Whether or not the batch of a failed call was committed, what it needed *)
(* is there.                                                               *)
LEMMA ThrowStaysReady ==
  ASSUME StoreInv, StoreInv', Forward, NEW r \in Requests, Throw(r), Ready(r)
  PROVE  Ready(r)'
<1>1. pc[r] = "batch" /\ pc'[r] = "relive" /\ request'[r] = request[r]
        /\ entries'[r] = entries[r]
  BY DEF Throw, StoreInv, TypeOK
<1> QED BY <1>1, ReadyStays DEF AfterHead

(* The steps that decide nothing.                                          *)
LEMMA EarlyHasReason ==
  ASSUME StoreInv, NEW r \in Requests, Ready(r), HasReason(r),
         Arrive(r) \/ CheckRevertLive(r) \/ ReadTarget(r) \/ ReadHeads(r)
           \/ CheckLive(r)
  PROVE  Ready(r)' /\ HasReason(r)'
<1>1. ASSUME NEW place, place \notin AfterHead
      PROVE  ReadyAt(r, place) /\ ReasonAt(r, place)
  BY <1>1 DEF ReadyAt, ReasonAt, AfterHead
<1>2. ASSUME NEW place, place \notin AfterHead \cup {"idle"}, pc'[r] = place,
             answer'[r] = answer[r], pc[r] = "idle" \/ pc[r] = "heads",
             pc[r] # "idle" => /\ request'[r] = request[r]
                               /\ thrown' = thrown /\ lifecycle' = lifecycle
      PROVE  Ready(r)' /\ HasReason(r)'
  <2>1. Ready(r)'
    BY <1>2 DEF Ready, ReadyAt
  <2>2. CASE answer[r].code # "internal"
    BY <1>2, <2>1, <2>2 DEF HasReason, ReasonAt, AfterHead
  <2>3. CASE pc[r] # "idle" /\ Excused(r)
    BY <1>2, <2>1, <2>3 DEF HasReason, Excused, Key, IsRevert, IsSingle
  <2> QED BY <2>2, <2>3 DEF HasReason
<1>3. CASE Arrive(r)
  <2>1. PICK c \in Calls[r] :
          pc' = [pc EXCEPT ![r] = IF c.call = "revert" THEN "revert" ELSE "live"]
    BY <1>3 DEF Arrive
  <2>2. pc'[r] \in {"revert", "live"} /\ answer' = answer /\ pc[r] = "idle"
    BY <1>3, <2>1 DEF Arrive, StoreInv, TypeOK
  <2> QED BY <1>2, <2>2 DEF AfterHead
<1>4. CASE ReadHeads(r)
  <2>1. pc[r] = "heads"
    BY <1>4 DEF ReadHeads
  <2>2. CASE Reply(r, Refusal("validation"))
    BY <2>1, <2>2, ReplyHasReason DEF Refusal
  <2>3. CASE pc' = [pc EXCEPT ![r] = "live"]
               /\ UNCHANGED <<tables, request, seen, answer, thrown, lifecycle,
                              foreign>>
    <3>1. pc'[r] = "live"
      BY <2>3 DEF StoreInv, TypeOK
    <3> QED BY <1>2, <2>1, <2>3, <3>1 DEF AfterHead
  <2> QED BY <1>4, <2>2, <2>3 DEF ReadHeads
<1>5. CASE CheckRevertLive(r) \/ CheckLive(r)
  BY <1>1, <1>5, GotoHasReason, ReplyHasReason
     DEF CheckRevertLive, CheckLive, AfterHead, Refusal
<1>6. CASE ReadTarget(r)
  <2>1. pc[r] = "target"
    BY <1>6 DEF ReadTarget
  <2>2. CASE Goto(r, "heads") \/ Reply(r, Refusal("not-found"))
    BY <1>1, <2>1, <2>2, GotoHasReason, ReplyHasReason DEF AfterHead, Refusal
  <2>3. ASSUME NEW row \in PriorCommits(r),
               Reply(r, IF row.hash = Hash(r) THEN Success(row.id, TRUE)
                        ELSE Refusal("idempotency-key-reused"))
        PROVE  Ready(r)' /\ HasReason(r)'
    BY <2>1, <2>3, ReplyHasReason, SuccessFields DEF Refusal
  <2> QED BY <1>6, <2>2, <2>3 DEF ReadTarget
<1> QED BY <1>3, <1>4, <1>5, <1>6

LEMMA ActorHasReason ==
  ASSUME StoreInv, StoreInv', Forward, CallsInv, EffectsInv, LedgerTruthful, AnswersInv,
         NEW r \in Requests, Step(r), Ready(r), HasReason(r)
  PROVE  Ready(r)' /\ HasReason(r)'
<1>1. CASE Arrive(r) \/ CheckRevertLive(r) \/ ReadTarget(r) \/ ReadHeads(r)
             \/ CheckLive(r)
  BY <1>1, EarlyHasReason
<1>2. CASE CheckReplay(r) \/ RecheckReplay(r)
  BY <1>2, PriorHasReason DEF CheckReplay, RecheckReplay
<1>3. CASE CheckHead(r) \/ CheckSource(r) \/ CheckSnapshot(r)
  BY <1>3, CheckHeadHasReason, CheckSourceHasReason, CheckSnapshotHasReason
<1>4. CASE Win(r)
  <2>1. pc'[r] = "won" /\ pc[r] = "batch"
    BY <1>4 DEF Win, StoreInv, TypeOK
  <2>2. Excused(r)' <=> Excused(r)
    BY <1>4 DEF Win, Excused, Key, IsRevert, IsSingle
  <2>3. answer' = answer
    BY <1>4 DEF Win
  <2> QED BY <2>1, <2>2, <2>3 DEF HasReason, Ready, ReadyAt, ReasonAt, AfterHead
<1>5. CASE Throw(r)
  <2>1. r \in thrown' /\ pc'[r] = "relive" /\ pc[r] = "batch"
    BY <1>5 DEF Throw, StoreInv, TypeOK
  <2>2. Ready(r)'
    BY <1>5, ThrowStaysReady
  <2> QED BY <2>1, <2>2 DEF HasReason, Excused
<1>6. CASE Lose(r) \/ RecheckLive(r)
  BY <1>6, LoseHasReason, RecheckLiveHasReason
<1>7. CASE Respond(r)
  <2>1. pc[r] = "won" /\ Committed(r)
    BY <1>7, AnswersAreFair DEF Respond, Fair, Tracked
  <2>2. Reply(r, Success(r, FALSE))
    BY <1>7, <2>1, WinnerReadsBack DEF Respond
  <2> QED BY <2>1, <2>2, ReplyHasReason, SuccessFields
<1>8. CASE ClassifyWrite(r) \/ ClassifyRollback(r) \/ ClassifyCommit(r)
  BY <1>8, ClassifyWriteHasReason, ClassifyHasReason
<1> QED BY <1>1, <1>2, <1>3, <1>4, <1>5, <1>6, <1>7, <1>8 DEF Step

LEMMA StepKeepsReason ==
  StoreInv /\ StoreInv' /\ CallsInv /\ EffectsInv /\ LedgerTruthful /\ AnswersInv
    /\ DeletionCounts /\ ReasonInv /\ [Next]_vars => ReasonInv'
<1> SUFFICES ASSUME StoreInv, StoreInv', CallsInv, EffectsInv, LedgerTruthful,
                    AnswersInv, DeletionCounts, ReasonInv, [Next]_vars,
                    NEW q \in Requests
             PROVE  Ready(q)' /\ HasReason(q)'
  BY DEF ReasonInv
<1>1. Forward
  BY StepForward
<1>2. CASE Unmoved(q)
  BY <1>1, <1>2, UnmovedReason DEF ReasonInv
<1>3. ASSUME NEW r \in Requests, Step(r) PROVE Ready(q)' /\ HasReason(q)'
  <2>1. q # r => Unmoved(q)
    BY <1>3, StepIsLocal DEF StepOnly
  <2> QED BY <1>1, <1>2, <1>3, <2>1, ActorHasReason DEF ReasonInv
<1>4. CASE Lifecycle \/ Foreign \/ CollectLedger \/ UNCHANGED vars
  BY <1>2, <1>4, OthersAreLocal
<1> QED BY <1>3, <1>4 DEF Next

(* The gate and the reads around it agree, whatever moves between them: a  *)
(* batch that loses leaves a reason that its request can still read, and   *)
(* "internal" is kept for the cases that InternalIsExplained names.        *)
THEOREM InternalErrorsAreExplained == Spec => []InternalIsExplained
<1>1. StoreInv /\ ReasonInv => InternalIsExplained
  <2> SUFFICES ASSUME ReasonInv, NEW r \in Requests, answer[r].code = "internal"
               PROVE  Excused(r)
    BY DEF InternalIsExplained, Excused
  <2> QED BY DEF ReasonInv, HasReason
<1>2. Init => /\ CallsInv /\ LedgerTruthful /\ AnswersInv /\ DeletionCounts
              /\ ReasonInv
  <2>1. Init => CallsInv /\ LedgerTruthful /\ AnswersInv /\ DeletionCounts
    BY DEF Init, TablesInit, CallsInv, LedgerTruthful, AnswersInv, Tracked,
           AnswersMatchEffects, Answered, Committed, DeletionCounts
  <2>2. Init => ReasonInv
    BY DEF Init, ReasonInv, Ready, ReadyAt, HasReason, ReasonAt, AfterHead,
           Unanswered, Refusal
  <2> QED BY <2>1, <2>2
<1> QED BY <1>1, <1>2, InitialStoreInv, InitialEffects, StepKeepsStoreInv,
           StepKeepsCalls, StepKeepsEffects, StepKeepsLedger, StepKeepsAnswers,
           StepForward, StepKeepsReason, PTL DEF Spec

-----------------------------------------------------------------------------
(* The refinement of VersionedStore: a batch that is committed is Apply,   *)
(* computing the entries is Ask, an answer is Confirm or Refuse, and every *)
(* other step is none.                                                     *)

Applied == {c.id : c \in commits}

LEMMA AppliedMeans ==
  ASSUME NEW r
  PROVE  r \in Applied <=> Committed(r)
BY DEF Applied, Committed

(* Histories.                                                              *)
LEMMA HistoryStays ==
  ASSUME UNCHANGED <<files, versions>>, NEW p
  PROVE  History(p)' = History(p)
BY DEF History, ContentAt, RowsAt

LEMMA HistoryFields ==
  ASSUME StoreInv, NEW p \in Paths
  PROVE  /\ History(p) \in Seq(Contents \cup {Tombstone})
         /\ Len(History(p)) = files[p].version
         /\ DOMAIN History(p) = 1..files[p].version
         /\ \A n \in 1..files[p].version : History(p)[n] = ContentAt(p, n)
<1>1. files[p].version \in Nat
  BY DEF StoreInv, TypeOK, TablesTypeOK, FileRow
<1>2. ASSUME NEW n \in 1..files[p].version
      PROVE  ContentAt(p, n) \in Contents \cup {Tombstone}
  <2>1. RowsAt(p, n) # {}
    BY DEF StoreInv, TablesInv, HistoryContiguous
  <2>2. (CHOOSE v \in RowsAt(p, n) : TRUE) \in RowsAt(p, n)
    BY <2>1
  <2>3. (CHOOSE v \in RowsAt(p, n) : TRUE) \in VersionRow
    BY <2>2 DEF RowsAt, StoreInv, TypeOK, TablesTypeOK
  <2> QED BY <2>3 DEF ContentAt, VersionRow
<1> QED BY <1>1, <1>2 DEF History

HistoriesInv ==
  \A p \in Paths :
    /\ History(p) \in Seq(Contents \cup {Tombstone})
    /\ Len(History(p)) = files[p].version
    /\ \A n \in 1..files[p].version : History(p)[n] = ContentAt(p, n)

LEMMA HistoriesAreSeqs == StoreInv => HistoriesInv
BY HistoryFields DEF HistoriesInv

LEMMA AppendIs ==
  ASSUME NEW S, NEW s \in Seq(S), NEW t \in Seq(S), Len(t) = Len(s) + 1,
         \A n \in 1..Len(s) : t[n] = s[n]
  PROVE  t = Append(s, t[Len(s) + 1])
OBVIOUS

(* Tags name the call with its key.                                        *)
LEMMA TagType ==
  ASSUME StoreInv, NEW r \in Requests
  PROVE  Tag(r) \in {<<q>> : q \in Requests} \cup {<<k, h>> : k \in Keys, h \in Hashes}
<1>1. CASE pc[r] = "idle" \/ Key(r) = NoKey
  BY <1>1 DEF Tag
<1>2. CASE pc[r] # "idle" /\ Key(r) # NoKey
  <2>1. request[r] \in Calls[r] /\ request[r] \in Call
    BY <1>2, CallAndEntries DEF StoreInv, RequestsInv
  <2>2. Key(r) \in Keys
    BY <1>2, <2>1 DEF Key, Call
  <2>3. Hash(r) \in Hashes
    BY <2>1, StoreAssumption DEF Hash
  <2> QED BY <1>2, <2>2, <2>3 DEF Tag
<1> QED BY <1>1, <1>2

LEMMA SameCall ==
  ASSUME NEW c \in Call, NEW d \in Call, Body(c) = Body(d), c.key = d.key
  PROVE  c = d
<1>1. /\ c.call = d.call /\ c.entries = d.entries /\ c.skip = d.skip
      /\ c.since = d.since /\ c.whole = d.whole /\ c.scope = d.scope
      /\ c.target = d.target /\ c.onto = d.onto
  BY BodyFields
<1> QED BY <1>1 DEF Call

LEMMA SameTag ==
  ASSUME StoreInv, NEW r \in Requests, NEW s \in Requests, r # s,
         Tag(r) = Tag(s)
  PROVE  /\ pc[r] # "idle" /\ pc[s] # "idle" /\ Key(r) # NoKey
         /\ request[r] = request[s]
<1>1. /\ pc[r] # "idle" /\ Key(r) # NoKey /\ pc[s] # "idle" /\ Key(s) # NoKey
      /\ Key(r) = Key(s) /\ Hash(r) = Hash(s)
  BY DEF Tag
<1>2. request[r] \in Call /\ request[s] \in Call
  BY <1>1, CallAndEntries
<1>3. request[r] = request[s]
  BY <1>1, <1>2, SameCall DEF Key, Hash
<1> QED BY <1>1, <1>3

(* Wishes.                                                                 *)
LEMMA WantsIsWish ==
  ASSUME StoreInv, NEW r \in Requests
  PROVE  Abstract!IsWish(Wants(r))
<1>1. entries[r] \in Seq(Entry)
  BY DEF StoreInv, TypeOK
<1>2. \A i \in DOMAIN entries[r] :
        entries[r][i].path \in Paths /\ entries[r][i].expected \in Nat
  <2>1. \A i \in DOMAIN entries[r] : entries[r][i] \in Entry
    BY <1>1
  <2> QED BY <2>1 DEF Entry
<1>3. ASSUME NEW p \in {entries[r][i].path : i \in DOMAIN entries[r]}
      PROVE  Position(entries[r], p) \in DOMAIN entries[r]
  BY DEF Position
<1> QED BY <1>2, <1>3 DEF Wants, Abstract!IsWish

LEMMA WantsFields ==
  ASSUME StoreInv, NEW r \in Requests
  PROVE  /\ DOMAIN Wants(r) = {entries[r][i].path : i \in DOMAIN entries[r]}
         /\ \A i \in DOMAIN entries[r] :
              Wants(r)[entries[r][i].path] = entries[r][i].expected
<1>1. ASSUME NEW i \in DOMAIN entries[r]
      PROVE  Position(entries[r], entries[r][i].path) = i
  BY DEF Position, StoreInv, RequestsInv, DistinctPaths
<1> QED BY <1>1 DEF Wants

WishInv ==
  \A r \in Requests :
    /\ Abstract!IsWish(Wants(r))
    /\ Tag(r) \in {<<q>> : q \in Requests} \cup {<<k, h>> : k \in Keys, h \in Hashes}

LEMMA WishesAreWishes == StoreInv => WishInv
BY WantsIsWish, TagType DEF WishInv

(* The tables and the calls leave the abstract store as it is.             *)
LEMMA CallsStand ==
  ASSUME NEW q \in Requests, request'[q] = request[q], entries'[q] = entries[q],
         pc[q] = "idle" <=> pc'[q] = "idle"
  PROVE  Wants(q)' = Wants(q) /\ Tag(q)' = Tag(q)
BY DEF Wants, Tag, Key, Hash, Position

LEMMA OutcomeStands ==
  ASSUME NEW q \in Requests, Unmoved(q)
  PROVE  Outcome(q)' = Outcome(q)
BY DEF Outcome, Answered, Unmoved

(* What is the same before and after, and what one request is told.        *)
Still ==
  /\ \A p \in Paths : History(p)' = History(p)
  /\ \A q \in Requests : Wants(q)' = Wants(q) /\ Tag(q)' = Tag(q)
  /\ commits' = commits

LEMMA StillStore ==
  ASSUME Still, \A q \in Requests : Outcome(q)' = Outcome(q)
  PROVE  UNCHANGED Abstract!store
<1>1. [p \in Paths |-> History(p)]' = [p \in Paths |-> History(p)]
  BY DEF Still
<1>2. [r \in Requests |-> Wants(r)]' = [r \in Requests |-> Wants(r)]
  BY DEF Still
<1>3. [r \in Requests |-> Tag(r)]' = [r \in Requests |-> Tag(r)]
  BY DEF Still
<1>4. [r \in Requests |-> Outcome(r)]' = [r \in Requests |-> Outcome(r)]
  OBVIOUS
<1>5. {c.id : c \in commits}' = {c.id : c \in commits}
  BY DEF Still
<1> QED BY <1>1, <1>2, <1>3, <1>4, <1>5 DEF Abstract!store

LEMMA ToldStore ==
  ASSUME Still, NEW r \in Requests, Outcome(r) = "open",
         \A q \in Requests : q # r => Outcome(q)' = Outcome(q),
         \/ /\ Outcome(r)' = "done"
            /\ \E s \in Applied : s = r \/ (s \in Requests /\ Tag(s) = Tag(r))
         \/ Outcome(r)' = "void" /\ r \notin Applied
  PROVE  Abstract!Next
<1>1. /\ [p \in Paths |-> History(p)]' = [p \in Paths |-> History(p)]
      /\ [q \in Requests |-> Wants(q)]' = [q \in Requests |-> Wants(q)]
      /\ [q \in Requests |-> Tag(q)]' = [q \in Requests |-> Tag(q)]
      /\ {c.id : c \in commits}' = {c.id : c \in commits}
  BY DEF Still
<1>2. [q \in Requests |-> Outcome(q)][r] = "open"
  OBVIOUS
<1>3. CASE /\ Outcome(r)' = "done"
           /\ \E s \in Applied : s = r \/ (s \in Requests /\ Tag(s) = Tag(r))
  <2>1. [q \in Requests |-> Outcome(q)]'
          = [[q \in Requests |-> Outcome(q)] EXCEPT ![r] = "done"]
    BY <1>3
  <2>2. \E s \in {c.id : c \in commits} :
          s = r \/ [q \in Requests |-> Tag(q)][s] = [q \in Requests |-> Tag(q)][r]
    BY <1>3 DEF Applied
  <2>3. Abstract!Confirm(r)
    BY <1>1, <1>2, <2>1, <2>2 DEF Abstract!Confirm
  <2> QED BY <2>3 DEF Abstract!Next
<1>4. CASE Outcome(r)' = "void" /\ r \notin Applied
  <2>1. [q \in Requests |-> Outcome(q)]'
          = [[q \in Requests |-> Outcome(q)] EXCEPT ![r] = "void"]
    BY <1>4
  <2>2. Abstract!Refuse(r)
    BY <1>1, <1>2, <1>4, <2>1 DEF Abstract!Refuse, Applied
  <2> QED BY <2>2 DEF Abstract!Next
<1> QED BY <1>3, <1>4

LEMMA AskStore ==
  ASSUME WishInv', NEW r \in Requests, Outcome(r) = "open", r \notin Applied,
         \A p \in Paths : History(p)' = History(p), commits' = commits,
         \A q \in Requests : Outcome(q)' = Outcome(q),
         \A q \in Requests : q # r => Wants(q)' = Wants(q) /\ Tag(q)' = Tag(q)
  PROVE  Abstract!Next
<1>1. /\ [p \in Paths |-> History(p)]' = [p \in Paths |-> History(p)]
      /\ [q \in Requests |-> Outcome(q)]' = [q \in Requests |-> Outcome(q)]
      /\ {c.id : c \in commits}' = {c.id : c \in commits}
  OBVIOUS
<1>2. [q \in Requests |-> Outcome(q)][r] = "open"
        /\ r \notin {c.id : c \in commits}
  BY DEF Applied
<1>3. Abstract!IsWish(Wants(r))' /\ Tag(r)' \in {<<q>> : q \in Requests}
                                       \cup {<<k, h>> : k \in Keys, h \in Hashes}
  BY DEF WishInv
<1>4. [q \in Requests |-> Wants(q)]'[r] = Wants(r)'
  OBVIOUS
<1>5. [q \in Requests |-> Tag(q)]'[r] = Tag(r)'
  OBVIOUS
<1>6. [q \in Requests |-> Wants(q)]'
        = [[q \in Requests |-> Wants(q)] EXCEPT ![r] = Wants(r)']
  OBVIOUS
<1>7. [q \in Requests |-> Tag(q)]'
        = [[q \in Requests |-> Tag(q)] EXCEPT ![r] = Tag(r)']
  OBVIOUS
<1>8. Abstract!Ask(r)
  BY <1>1, <1>2, <1>3, <1>4, <1>5, <1>6, <1>7
     DEF Abstract!Ask, Abstract!IsWish
<1> QED BY <1>8 DEF Abstract!Next

LEMMA SameSequence ==
  ASSUME NEW S, NEW s \in Seq(S), NEW t \in Seq(S), Len(t) = Len(s),
         \A n \in 1..Len(s) : t[n] = s[n]
  PROVE  t = s
OBVIOUS

(* A batch that is committed appends to each history it wants to.          *)
LEMMA BatchAppends ==
  ASSUME StoreInv, StoreInv', HistoriesInv', NEW r \in Requests, BatchStepOf(r),
         NEW p \in Paths
  PROVE  /\ p \in DOMAIN Wants(r) =>
              /\ Wants(r)[p] = Len(History(p))
              /\ History(p)' = Append(History(p), History(p)'[Len(History(p)) + 1])
              /\ History(p)'[Len(History(p)) + 1] \in Contents \cup {Tombstone}
         /\ p \notin DOMAIN Wants(r) => History(p)' = History(p)
<1> DEFINE b == BatchOf(r)
           n == files[p].version
<1>1. /\ b \in Batch /\ OncePerPath(b) /\ CommitBatch(b) /\ TablesTypeOK
      /\ b.entries = entries[r] /\ Gate(b)
  BY BatchOfMakesSense, BatchOfFields
     DEF BatchStepOf, StoreInv, TypeOK, CommitBatch, Wins
<1>2. /\ History(p) \in Seq(Contents \cup {Tombstone})
      /\ Len(History(p)) = n /\ n \in Nat
      /\ \A m \in 1..n : History(p)[m] = ContentAt(p, m)
  BY <1>1, HistoryFields DEF TablesTypeOK, FileRow
<1>3. /\ History(p)' \in Seq(Contents \cup {Tombstone})
      /\ Len(History(p)') = files'[p].version
      /\ \A m \in 1..files'[p].version : History(p)'[m] = ContentAt(p, m)'
  BY DEF HistoriesInv
<1>4. versions \subseteq versions'
  BY <1>1, BatchStep
<1>5. ASSUME NEW m \in 1..n PROVE ContentAt(p, m)' = ContentAt(p, m)
  <2>1. RowsAt(p, m) # {}
    BY DEF StoreInv, TablesInv, HistoryContiguous
  <2> QED BY <1>4, <2>1, RowsAtStay DEF StoreInv, TablesInv
<1>6. CASE p \in DOMAIN Wants(r)
  <2>1. PICK i \in DOMAIN entries[r] : p = entries[r][i].path
    BY <1>6, WantsFields
  <2>2. Wants(r)[p] = entries[r][i].expected
    BY <2>1, WantsFields
  <2>3. n = entries[r][i].expected
    BY <1>1, <2>1 DEF Gate, GateAccepts
  <2>4. NewRow(b, i).path = p /\ NewRow(b, i).version = n + 1
    BY <1>1, <2>1, <2>3 DEF NewRow, NextVersion
  <2>5. files'[p].version = n + 1
    BY <1>1, <2>1, <2>4, BatchStep, HeadOfFields
  <2> DEFINE s == History(p)
             t == History(p)'
  <2>6. Len(t) = Len(s) + 1 /\ \A m \in 1..Len(s) : t[m] = s[m]
    BY <1>2, <1>3, <1>5, <2>5
  <2>7. t = Append(s, t[Len(s) + 1])
    <3> HIDE DEF s, t
    <3> QED BY <1>2, <1>3, <2>6, AppendIs DEF s, t
  <2>8. t[Len(s) + 1] \in Contents \cup {Tombstone}
    <3>1. Len(s) + 1 \in 1..Len(t)
      BY <1>2, <2>6
    <3> QED BY <1>3, <3>1
  <2> QED BY <1>2, <1>6, <2>2, <2>3, <2>7, <2>8
<1>7. CASE p \notin DOMAIN Wants(r)
  <2>1. \A i \in DOMAIN entries[r] : NewRow(b, i).path # p
    BY <1>1, <1>7, WantsFields DEF NewRow
  <2>2. files'[p] = files[p]
    BY <1>1, <2>1, BatchStep
  <2> DEFINE s == History(p)
             t == History(p)'
  <2>3. Len(t) = Len(s) /\ \A m \in 1..Len(s) : t[m] = s[m]
    BY <1>2, <1>3, <1>5, <2>2
  <2>4. t = s
    <3> HIDE DEF s, t
    <3> QED BY <1>2, <1>3, <2>3, SameSequence DEF s, t
  <2> QED BY <1>7, <2>4
<1> QED BY <1>6, <1>7

LEMMA ApplyStore ==
  ASSUME StoreInv, StoreInv', HistoriesInv', RepeatAppliesOnce',
         NEW r \in Requests, BatchStepOf(r), Outcome(r) = "open",
         \A q \in Requests : /\ Wants(q)' = Wants(q) /\ Tag(q)' = Tag(q)
                             /\ Outcome(q)' = Outcome(q)
  PROVE  Abstract!Next
<1> DEFINE history == [p \in Paths |-> History(p)]
           wants == [q \in Requests |-> Wants(q)]
           tag == [q \in Requests |-> Tag(q)]
           outcome == [q \in Requests |-> Outcome(q)]
<1>0. NewCommit(BatchOf(r)).id = r
  BY BatchOfFields DEF NewCommit
<1>1. /\ wants' = wants /\ tag' = tag /\ outcome' = outcome
      /\ outcome[r] = "open" /\ wants[r] = Wants(r)
  OBVIOUS
<1>2. r \notin Applied
  BY DEF Applied, BatchStepOf, StoreInv, RequestsInv, Settled
<1>3. ASSUME NEW s \in Applied PROVE tag[s] # tag[r]
  <2>1. s \in Requests /\ s # r /\ Committed(s)
    BY <1>2, StoreAssumption
       DEF Applied, Committed, StoreInv, TypeOK, TablesTypeOK, CommitRow
  <2>2. SUFFICES ASSUME Tag(s) = Tag(r) PROVE FALSE
    BY <2>1
  <2>3. Key(s) # NoKey /\ request[r] = request[s]
    BY <2>1, <2>2, SameTag
  <2>4. request' = request /\ Committed(s)' /\ Committed(r)'
    <3>1. NewCommit(BatchOf(r)) \in commits' /\ commits \subseteq commits'
      BY DEF BatchStepOf, CommitBatch
    <3> QED BY <1>0, <2>1, <3>1 DEF BatchStepOf, Committed
  <2>5. (Key(s) # NoKey)'
    BY <2>3, <2>4 DEF Key
  <2> QED BY <2>1, <2>3, <2>4, <2>5 DEF RepeatAppliesOnce
<1>4. DOMAIN wants[r] # {}
  <2>1. entries[r] # <<>> /\ entries[r] \in Seq(Entry)
    BY DEF BatchStepOf, StoreInv, TypeOK, RequestsInv, Submitting
  <2>2. 1 \in DOMAIN entries[r]
    BY <2>1
  <2>3. entries[r][1].path \in DOMAIN Wants(r)
    BY <2>2, WantsFields
  <2> QED BY <1>1, <2>3
<1>5. DOMAIN wants[r] \subseteq Paths
  BY <1>1, WantsIsWish DEF Abstract!IsWish
<1>6. \A p \in DOMAIN wants[r] : wants[r][p] = Len(history[p])
  BY <1>1, <1>5, BatchAppends
<1>7. \E value \in [DOMAIN wants[r] -> Contents \cup {Tombstone}] :
        history' = [p \in Paths |-> IF p \in DOMAIN wants[r]
                                    THEN Append(history[p], value[p])
                                    ELSE history[p]]
  <2> DEFINE value == [p \in DOMAIN Wants(r) |-> History(p)'[Len(History(p)) + 1]]
  <2>1. value \in [DOMAIN Wants(r) -> Contents \cup {Tombstone}]
    BY <1>1, <1>5, BatchAppends
  <2>2. ASSUME NEW p \in Paths
        PROVE  History(p)' = IF p \in DOMAIN Wants(r)
                             THEN Append(History(p), value[p]) ELSE History(p)
    BY BatchAppends
  <2>3. history' = [p \in Paths |-> IF p \in DOMAIN wants[r]
                                    THEN Append(history[p], value[p])
                                    ELSE history[p]]
    BY <1>1, <2>2
  <2> QED BY <1>1, <2>1, <2>3
<1>8. {c.id : c \in commits}' = {c.id : c \in commits} \cup {r}
  <2>1. commits' = commits \cup {NewCommit(BatchOf(r))}
    BY DEF BatchStepOf, CommitBatch
  <2> QED BY <1>0, <2>1
<1>9. Abstract!Apply(r)
  BY <1>1, <1>2, <1>3, <1>4, <1>6, <1>7, <1>8 DEF Abstract!Apply, Applied
<1> QED BY <1>9 DEF Abstract!Next

(* Where a request's own step takes it.                                    *)
StepMoves(r) ==
  /\ pc[r] # "done" /\ pc'[r] # "idle"
  /\ pc[r] = "batch" => pc'[r] # "done"
  /\ pc[r] = "idle" => Arrive(r)

LEMMA ActorMoves ==
  ASSUME StoreInv, NEW r \in Requests, Step(r)
  PROVE  StepMoves(r)
<1>1. pc \in [Requests -> Places]
  BY DEF StoreInv, TypeOK
<1>2. ASSUME NEW x, Goto(r, x), x # "idle", x # "done",
             pc[r] # "done", pc[r] # "idle"
      PROVE  StepMoves(r)
  BY <1>1, <1>2 DEF Goto, StepMoves
<1>3. ASSUME NEW x, Reply(r, x), pc[r] # "done", pc[r] # "idle", pc[r] # "batch"
      PROVE  StepMoves(r)
  BY <1>1, <1>3 DEF Reply, StepMoves
<1>4. ASSUME NEW x, AnswerFromPrior(r, x), x # "idle", x # "done",
             pc[r] # "done", pc[r] # "idle", pc[r] # "batch"
      PROVE  StepMoves(r)
  BY <1>2, <1>3, <1>4 DEF AnswerFromPrior
<1>5. CASE Arrive(r)
  BY <1>1, <1>5 DEF Arrive, StepMoves
<1>6. CASE ReadHeads(r)
  BY <1>1, <1>3, <1>6 DEF ReadHeads, StepMoves
<1>7. CASE CheckReplay(r) \/ RecheckReplay(r)
  BY <1>4, <1>7 DEF CheckReplay, RecheckReplay
<1>8. CASE CheckRevertLive(r) \/ ReadTarget(r) \/ CheckLive(r) \/ CheckHead(r)
  BY <1>2, <1>3, <1>8 DEF CheckRevertLive, ReadTarget, CheckLive, CheckHead
<1>9. CASE CheckSource(r) \/ CheckSnapshot(r) \/ Lose(r) \/ Respond(r)
  BY <1>2, <1>3, <1>9 DEF CheckSource, CheckSnapshot, Lose, Respond
<1>10. CASE RecheckLive(r) \/ ClassifyRollback(r) \/ ClassifyCommit(r)
  BY <1>2, <1>3, <1>10 DEF RecheckLive, ClassifyRollback, ClassifyCommit
<1>11. CASE ClassifyWrite(r)
  BY <1>1, <1>3, <1>11 DEF ClassifyWrite, StepMoves
<1>12. CASE Win(r) \/ Throw(r)
  BY <1>1, <1>12 DEF Win, Throw, StepMoves
<1> QED BY <1>5, <1>6, <1>7, <1>8, <1>9, <1>10, <1>11, <1>12 DEF Step

(* A batch is committed by its own request's step.                         *)
LEMMA ActorCommits ==
  ASSUME StoreInv, StoreInv', NEW r \in Requests, Step(r)
  PROVE  QuietStep \/ BatchStepOf(r)
<1>1. \A q \in Requests : q # r => Unmoved(q)
  BY StepIsLocal DEF StepOnly
<1>2. ASSUME NEW s \in Requests, BatchStepOf(s) PROVE s = r
  <2>1. NewCommit(BatchOf(s)).id = s
    BY BatchOfFields DEF NewCommit
  <2>2. NewCommit(BatchOf(s)) \in commits'
    BY <1>2 DEF BatchStepOf, CommitBatch
  <2>3. pc'[s] \in Settled /\ pc[s] = "batch"
    BY <1>2, <2>1, <2>2 DEF StoreInv, RequestsInv, BatchStepOf
  <2> QED BY <1>1, <2>3 DEF Unmoved, Settled
<1>3. QuietStep \/ \E s \in Requests : BatchStepOf(s)
  BY StepShape DEF Next
<1> QED BY <1>2, <1>3

(* A call comes in, or a revert has read what it has to undo.              *)
LEMMA AskStep ==
  ASSUME StoreInv, WishInv', NEW r \in Requests, UNCHANGED tables,
         pc[r] \in {"idle", "heads"}, pc'[r] # "done",
         \A q \in Requests : q # r => Unmoved(q)
  PROVE  Abstract!Next
<1>1. Outcome(r) = "open" /\ Outcome(r)' = "open"
  BY DEF Outcome, Answered
<1>2. r \notin Applied
  BY DEF Applied, StoreInv, RequestsInv, Settled
<1>3. \A p \in Paths : History(p)' = History(p)
  BY HistoryStays DEF tables
<1>4. \A q \in Requests : Outcome(q)' = Outcome(q)
  BY <1>1, OutcomeStands
<1>5. \A q \in Requests : q # r => Wants(q)' = Wants(q) /\ Tag(q)' = Tag(q)
  BY CallsStand DEF Unmoved
<1> QED BY <1>1, <1>2, <1>3, <1>4, <1>5, AskStore DEF tables

(* A request takes a step that writes nothing.                             *)
LEMMA TellStep ==
  ASSUME StoreInv, AnswersInv', NEW r \in Requests, QuietStep,
         UNCHANGED <<request, entries>>,
         pc[r] # "idle", pc[r] # "done", pc'[r] # "idle",
         \A q \in Requests : q # r => Unmoved(q)
  PROVE  Abstract!Next \/ UNCHANGED Abstract!store
<1>1. Still
  <2>1. \A p \in Paths : History(p)' = History(p)
    BY HistoryStays DEF QuietStep
  <2>2. \A q \in Requests : Wants(q)' = Wants(q) /\ Tag(q)' = Tag(q)
    BY CallsStand DEF Unmoved
  <2> QED BY <2>1, <2>2 DEF Still, QuietStep
<1>2. Outcome(r) = "open"
  BY DEF Outcome, Answered
<1>3. \A q \in Requests : q # r => Outcome(q)' = Outcome(q)
  BY OutcomeStands
<1>4. CASE pc'[r] # "done" \/ (answer'[r].code # "ok" /\ r \in thrown')
  <2>1. Outcome(r)' = "open"
    BY <1>4 DEF Outcome, Answered
  <2> QED BY <1>1, <1>2, <1>3, <2>1, StillStore
<1>5. CASE pc'[r] = "done" /\ answer'[r].code = "ok"
  <2> DEFINE c == answer'[r].effect
  <2>1. Outcome(r)' = "done"
    BY <1>5 DEF Outcome, Answered
  <2>2. (\E d \in commits' : d.id = c) /\ Body(request'[c]) = Body(request'[r])
          /\ (c = r \/ (request'[c].key = request'[r].key
                          /\ request'[r].key # NoKey))
    BY <1>5 DEF AnswersInv, AnswersMatchEffects, Answered, Committed, Hash, Key
  <2>3. c \in Applied /\ pc[c] \in Settled /\ c \in Requests
    <3>1. PICK d \in commits : d.id = c
      BY <2>2 DEF QuietStep
    <3>2. c \in Applied /\ pc[c] \in Settled
      BY <3>1 DEF Applied, StoreInv, RequestsInv
    <3>3. d.id \in Requests
      BY <3>1, StoreAssumption DEF StoreInv, TypeOK, TablesTypeOK, CommitRow
    <3> QED BY <3>1, <3>2, <3>3
  <2>4. c = r \/ Tag(c) = Tag(r)
    <3>1. pc[c] # "idle"
      BY <2>3 DEF Settled
    <3>2. Body(request[c]) = Body(request[r])
            /\ (c = r \/ (request[c].key = request[r].key
                            /\ request[r].key # NoKey))
      BY <2>2
    <3> HIDE DEF c
    <3> QED BY <3>1, <3>2 DEF Tag, Key, Hash
  <2>5. \E s \in Applied : s = r \/ (s \in Requests /\ Tag(s) = Tag(r))
    BY <2>3, <2>4
  <2> QED BY <1>1, <1>2, <1>3, <2>1, <2>5, ToldStore
<1>6. CASE pc'[r] = "done" /\ answer'[r].code # "ok" /\ r \notin thrown'
  <2>1. Outcome(r)' = "void"
    BY <1>6 DEF Outcome, Answered
  <2>2. ~Committed(r)'
    BY <1>6 DEF AnswersInv, AnswersMatchEffects, Answered
  <2>3. r \notin Applied
    BY <2>2 DEF Committed, Applied, QuietStep
  <2> QED BY <1>1, <1>2, <1>3, <2>1, <2>3, ToldStore
<1> QED BY <1>4, <1>5, <1>6

(* A batch is committed, whether or not its request learns of it.          *)
LEMMA ApplyStep ==
  ASSUME StoreInv, StoreInv', HistoriesInv', RepeatAppliesOnce',
         NEW r \in Requests, BatchStepOf(r), pc'[r] \notin {"idle", "done"},
         \A q \in Requests : q # r => Unmoved(q)
  PROVE  Abstract!Next
<1>1. pc[r] = "batch" /\ UNCHANGED <<request, entries>>
  BY DEF BatchStepOf
<1>2. Outcome(r) = "open" /\ Outcome(r)' = "open"
  BY <1>1 DEF Outcome, Answered
<1>3. \A q \in Requests : Outcome(q)' = Outcome(q)
  BY <1>2, OutcomeStands
<1>4. \A q \in Requests : Wants(q)' = Wants(q) /\ Tag(q)' = Tag(q)
  BY <1>1, CallsStand DEF Unmoved
<1> QED BY <1>2, <1>3, <1>4, ApplyStore

(* Every step is a step of the abstract store, or none.                    *)
LEMMA StepRefines ==
  StoreInv /\ StoreInv' /\ AnswersInv' /\ RepeatAppliesOnce' /\ HistoriesInv'
    /\ WishInv' /\ [Next]_vars => [Abstract!Next]_(Abstract!store)
<1> SUFFICES ASSUME StoreInv, StoreInv', AnswersInv', RepeatAppliesOnce',
                    HistoriesInv', WishInv', [Next]_vars
             PROVE  [Abstract!Next]_(Abstract!store)
  OBVIOUS
<1>1. ASSUME NEW r \in Requests, Step(r)
      PROVE  Abstract!Next \/ UNCHANGED Abstract!store
  <2>1. StepMoves(r) /\ StepOnly(r) /\ (QuietStep \/ BatchStepOf(r))
    BY <1>1, ActorMoves, StepIsLocal, ActorCommits
  <2>2. \A q \in Requests : q # r => Unmoved(q)
    BY <2>1 DEF StepOnly
  <2>3. CASE pc[r] = "idle"
    <3>1. Arrive(r)
      BY <2>1, <2>3 DEF StepMoves
    <3>2. UNCHANGED tables /\ pc'[r] # "done"
      BY <3>1 DEF Arrive, StoreInv, TypeOK
    <3> QED BY <2>2, <2>3, <3>2, AskStep
  <2>4. CASE BatchStepOf(r)
    BY <2>1, <2>2, <2>4, ApplyStep DEF StepMoves, BatchStepOf
  <2>5. CASE QuietStep /\ pc[r] # "idle" /\ UNCHANGED <<request, entries>>
    BY <2>1, <2>2, <2>5, TellStep DEF StepMoves
  <2>6. CASE pc[r] # "idle" /\ ~UNCHANGED <<request, entries>>
    <3>1. ReadHeads(r) /\ pc[r] = "heads"
      BY <2>1, <2>6 DEF StepOnly, Arrive, ReadHeads
    <3>2. UNCHANGED tables /\ pc'[r] # "done"
      BY <2>6, <3>1 DEF ReadHeads, Reply, StoreInv, TypeOK
    <3> QED BY <2>2, <3>1, <3>2, AskStep
  <2> QED BY <2>1, <2>3, <2>4, <2>5, <2>6
<1>2. CASE Lifecycle \/ Foreign \/ CollectLedger \/ UNCHANGED vars
  <2>1. QuietStep
    BY <1>2 DEF Lifecycle, Foreign, CollectLedger, DeleteStash, RestoreStash,
                OtherStashWrites, ExpireLedger, vars, tables, control, QuietStep
  <2>2. \A q \in Requests : Unmoved(q)
    BY <1>2, OthersAreLocal
  <2>3. Still
    BY <2>1, <2>2, HistoryStays, CallsStand DEF Still, QuietStep, Unmoved
  <2>4. \A q \in Requests : Outcome(q)' = Outcome(q)
    BY <2>2, OutcomeStands
  <2> QED BY <2>3, <2>4, StillStore
<1> QED BY <1>1, <1>2 DEF Next

LEMMA InitRefines == Init => Abstract!Init
<1> SUFFICES ASSUME Init PROVE Abstract!Init
  OBVIOUS
<1>1. ASSUME NEW p \in Paths PROVE History(p) = <<>>
  <2>1. p \in Paths /\ files[p].version = 0
    BY <1>1 DEF Init, TablesInit, NoFile
  <2>2. 1..files[p].version = {}
    BY <2>1
  <2> QED BY <2>2 DEF History
<1>2. ASSUME NEW r \in Requests
      PROVE  Wants(r) = <<>> /\ Tag(r) = <<r>> /\ Outcome(r) = "open"
  BY DEF Init, Wants, Tag, Outcome, Answered
<1>3. {c.id : c \in commits} = {}
  BY DEF Init, TablesInit
<1> QED BY <1>1, <1>2, <1>3 DEF Abstract!Init

(* The requests, with all their reads, races, failed calls and repeated    *)
(* calls, behave like a store in which each takes effect at one instant or *)
(* not at all: at most once for a tag, only on the versions it names, and  *)
(* never when it was refused without a failed batch call.                  *)
THEOREM StoreImplementsVersionedStore == Spec => ImplementsVersionedStore
<1>1. AnswersInv => AnswersMatchEffects
  BY DEF AnswersInv
<1>2. Init => CallsInv /\ LedgerTruthful /\ AnswersInv
  BY DEF Init, TablesInit, CallsInv, LedgerTruthful, AnswersInv, Tracked,
         AnswersMatchEffects, Answered, Committed
<1> QED BY <1>1, <1>2, InitialStoreInv, InitialEffects, StepKeepsStoreInv,
           StepKeepsCalls, StepKeepsEffects, StepKeepsLedger, StepKeepsAnswers,
           RepetitionIsHarmless, HistoriesAreSeqs, WishesAreWishes,
           InitRefines, StepRefines, PTL
           DEF Spec, ImplementsVersionedStore, Abstract!Spec
=============================================================================
