------------------------- MODULE StashTables_proofs -------------------------
(***************************************************************************)
(* What one winning batch does to the tables: the lemmas that every        *)
(* writer's proof rests on.                                                *)
(***************************************************************************)
EXTENDS StashTables, FiniteSetTheorems, TLAPS

(* A path occurs once in a batch, as entryListRefinement demands.          *)
OncePerPath(b) ==
  \A i, j \in DOMAIN b.entries :
    b.entries[i].path = b.entries[j].path => i = j

(* A put holds a content, an entry names a source version exactly if it    *)
(* copies or rolls back, and a deletion only deletes what is there.        *)
EntriesMakeSense(b) ==
  \A i \in DOMAIN b.entries :
    /\ b.entries[i].op = "put" => b.entries[i].content \in Contents
    /\ b.entries[i].op \in {"copy", "rollback"} <=> b.entries[i].fromVersion > 0
    /\ b.entries[i].op = "delete" => b.entries[i].expected > 0

(* The rows of a sealed batch: one for each entry, and well typed.         *)
LEMMA BatchRows ==
  ASSUME TablesTypeOK, NEW b \in Batch, Wins(b)
  PROVE  /\ NewRows(b) = {NewRow(b, i) : i \in DOMAIN b.entries}
         /\ \A i \in DOMAIN b.entries : NewRow(b, i) \in VersionRow
<1>1. NewRows(b) = {NewRow(b, i) : i \in DOMAIN b.entries}
  BY DEF Wins, Seals, NewRows
<1>2. ASSUME NEW i \in DOMAIN b.entries
      PROVE  NewRow(b, i) \in VersionRow
  <2> DEFINE e == b.entries[i]
  <2>1. i \in Nat \ {0} /\ e \in Entry
    BY DEF Batch, EntryLists
  <2>2. Insertable(e)
    BY <1>2 DEF Wins, Seals
  <2>3. ContentOf(e) \in Contents \cup {Tombstone}
    <3>1. CASE e.op = "put"
      BY <2>1, <3>1 DEF ContentOf, Entry
    <3>2. CASE e.op = "delete"
      BY <2>1, <3>2 DEF ContentOf, Entry
    <3>3. CASE e.op \in {"copy", "rollback"}
      <4>1. PICK v \in RowsAt(e.fromPath, e.fromVersion) : TRUE
        BY <2>2, <3>3 DEF Insertable, Restorable
      <4>2. ContentAt(e.fromPath, e.fromVersion) \in Contents \cup {Tombstone}
        BY <4>1 DEF ContentAt, RowsAt, TablesTypeOK, VersionRow
      <4> QED BY <3>3, <4>2 DEF ContentOf
    <3> QED BY <2>1, <3>1, <3>2, <3>3 DEF Entry
  <2>4. KindOf(e.op) \in {"put", "delete", "rollback"}
    BY <2>1 DEF KindOf, Entry
  <2>5. ChangeIdOf(i) \in Nat \ {0} /\ NextVersion(e) \in Nat \ {0}
    BY <2>1 DEF ChangeIdOf, NextVersion, TablesTypeOK, Entry
  <2>6. b.id \in CommitIds /\ e.path \in Paths /\ e.fromPath \in Paths
          /\ e.fromVersion \in Nat
    BY <2>1 DEF Batch, Entry
  <2> QED BY <2>3, <2>4, <2>5, <2>6 DEF NewRow, VersionRow
<1> QED BY <1>1, <1>2

(* The heads of a sealed batch: each entry's path moves from the expected  *)
(* version to the next one, every other path stays.                        *)
LEMMA BatchHeads ==
  ASSUME TablesTypeOK, NEW b \in Batch, Wins(b)
  PROVE  /\ FilesAfter(b) \in [Paths -> FileRow]
         /\ \A i \in DOMAIN b.entries :
              /\ files[b.entries[i].path].version = b.entries[i].expected
              /\ FilesAfter(b)[b.entries[i].path] = HeadOf(NewRow(b, i))
         /\ \A p \in Paths :
              (\A i \in DOMAIN b.entries : b.entries[i].path # p)
                => FilesAfter(b)[p] = files[p]
<1>1. ASSUME NEW i \in DOMAIN b.entries
      PROVE  /\ files[b.entries[i].path].version = b.entries[i].expected
             /\ FilesAfter(b)[b.entries[i].path] = HeadOf(NewRow(b, i))
  <2> DEFINE e == b.entries[i]
  <2>1. e \in Entry
    BY DEF Batch, EntryLists
  <2>2. files[e.path].version = e.expected
    BY DEF Wins, Gate, GateAccepts
  <2>3. FilesAfter(b)[e.path] = [version |-> NextVersion(e),
                                 content |-> ContentOf(e),
                                 deleted |-> e.op = "delete"]
    BY DEF Wins, Seals
  <2>4. (KindOf(e.op) = "delete") = (e.op = "delete")
    BY <2>1 DEF KindOf, Entry
  <2>5. HeadOf(NewRow(b, i)) = [version |-> NextVersion(e),
                                content |-> ContentOf(e),
                                deleted |-> e.op = "delete"]
    BY <2>4 DEF HeadOf, NewRow
  <2> QED BY <2>2, <2>3, <2>5
<1>2. ASSUME NEW p \in Paths, \A i \in DOMAIN b.entries : b.entries[i].path # p
      PROVE  FilesAfter(b)[p] = files[p]
  <2>1. {row \in NewRows(b) : row.path = p} = {}
    BY <1>2 DEF NewRows, NewRow
  <2> QED BY <2>1 DEF FilesAfter
<1>3. FilesAfter(b) \in [Paths -> FileRow]
  <2>1. DOMAIN FilesAfter(b) = Paths /\ FilesAfter(b) = [p \in Paths |-> FilesAfter(b)[p]]
    BY DEF FilesAfter
  <2>2. ASSUME NEW p \in Paths PROVE FilesAfter(b)[p] \in FileRow
    <3>1. CASE \A i \in DOMAIN b.entries : b.entries[i].path # p
      BY <1>2, <3>1 DEF TablesTypeOK
    <3>2. CASE \E i \in DOMAIN b.entries : b.entries[i].path = p
      <4>1. PICK i \in DOMAIN b.entries : b.entries[i].path = p
        BY <3>2
      <4>2. NewRow(b, i) \in VersionRow
        BY BatchRows
      <4>3. HeadOf(NewRow(b, i)) \in FileRow
        BY <4>2 DEF HeadOf, VersionRow, FileRow
      <4> QED BY <1>1, <4>1, <4>3
    <3> QED BY <3>1, <3>2
  <2> QED BY <2>1, <2>2
<1> QED BY <1>1, <1>2, <1>3

-----------------------------------------------------------------------------
(* The step of a winning batch, in the terms the invariants are stated in. *)

(* A row a batch adds is the successor of the head that the batch found,   *)
(* and becomes the head; its change id is past all earlier ones.           *)
LEMMA BatchStep ==
  ASSUME TablesTypeOK, NEW b \in Batch, OncePerPath(b), CommitBatch(b)
  PROVE  /\ versions' = versions \cup {NewRow(b, i) : i \in DOMAIN b.entries}
         /\ \A i \in DOMAIN b.entries :
              /\ i \in Nat \ {0} /\ i <= Len(b.entries)
              /\ NewRow(b, i) \in VersionRow
              /\ NewRow(b, i).id = lastChange + i
              /\ NewRow(b, i).commit = b.id
              /\ NewRow(b, i).version = files[NewRow(b, i).path].version + 1
              /\ files'[NewRow(b, i).path] = HeadOf(NewRow(b, i))
         /\ \A i, j \in DOMAIN b.entries :
              NewRow(b, i).path = NewRow(b, j).path => i = j
         /\ \A p \in Paths :
              (\A i \in DOMAIN b.entries : NewRow(b, i).path # p)
                => files'[p] = files[p]
         /\ lastChange' = lastChange + Len(b.entries)
         /\ Len(b.entries) \in Nat \ {0}
<1>1. Wins(b) /\ files' = FilesAfter(b) /\ versions' = versions \cup NewRows(b)
        /\ lastChange' = lastChange + Len(b.entries)
  BY DEF CommitBatch
<1>2. Len(b.entries) \in Nat \ {0} /\ DOMAIN b.entries = 1..Len(b.entries)
  BY DEF Batch, EntryLists
<1>3. ASSUME NEW i \in DOMAIN b.entries
      PROVE  /\ NewRow(b, i).id = lastChange + i
             /\ NewRow(b, i).commit = b.id
             /\ NewRow(b, i).path = b.entries[i].path
             /\ NewRow(b, i).version = b.entries[i].expected + 1
  BY DEF NewRow, ChangeIdOf, NextVersion
<1>4. /\ NewRows(b) = {NewRow(b, i) : i \in DOMAIN b.entries}
      /\ \A i \in DOMAIN b.entries : NewRow(b, i) \in VersionRow
  BY <1>1, BatchRows
<1>5. /\ \A i \in DOMAIN b.entries :
           /\ files[b.entries[i].path].version = b.entries[i].expected
           /\ FilesAfter(b)[b.entries[i].path] = HeadOf(NewRow(b, i))
      /\ \A p \in Paths :
           (\A i \in DOMAIN b.entries : b.entries[i].path # p)
             => FilesAfter(b)[p] = files[p]
  BY <1>1, BatchHeads
<1>6. \A i, j \in DOMAIN b.entries :
        NewRow(b, i).path = NewRow(b, j).path => i = j
  BY <1>3 DEF OncePerPath
<1>7. \A i \in DOMAIN b.entries :
        /\ i \in Nat \ {0} /\ i <= Len(b.entries)
        /\ NewRow(b, i).version = files[NewRow(b, i).path].version + 1
        /\ files'[NewRow(b, i).path] = HeadOf(NewRow(b, i))
  BY <1>1, <1>2, <1>3, <1>5
<1>8. \A p \in Paths :
        (\A i \in DOMAIN b.entries : NewRow(b, i).path # p)
          => files'[p] = files[p]
  BY <1>1, <1>3, <1>5
<1> QED BY <1>1, <1>2, <1>3, <1>4, <1>6, <1>7, <1>8

LEMMA BatchKeepsTypes ==
  ASSUME TablesTypeOK, NEW b \in Batch, CommitBatch(b)
  PROVE  TablesTypeOK'
<1>1. Wins(b)
  BY DEF CommitBatch
<1>2. files' \in [Paths -> FileRow]
  BY <1>1, BatchHeads DEF CommitBatch
<1>3. versions' \subseteq VersionRow
  BY <1>1, BatchRows DEF CommitBatch, TablesTypeOK
<1>4. Len(b.entries) \in Nat \ {0} /\ b.entries[1] \in Entry
  BY DEF Batch, EntryLists
<1>5. NewCommit(b) \in CommitRow
  BY <1>4 DEF NewCommit, CommitRow, Batch, TablesTypeOK
<1>6. NewLedger(b) \subseteq LedgerRow
  BY <1>4 DEF NewLedger, LedgerRow, Batch, Entry, NextVersion
<1> QED BY <1>2, <1>3, <1>4, <1>5, <1>6 DEF CommitBatch, TablesTypeOK

LEMMA HeadOfFields ==
  ASSUME NEW row
  PROVE  /\ HeadOf(row).version = row.version
         /\ HeadOf(row).content = row.content
         /\ HeadOf(row).deleted = (row.kind = "delete")
BY DEF HeadOf

(* No gap and no duplicate in the versions of a path.                      *)
LEMMA BatchKeepsHistory ==
  ASSUME TablesTypeOK, HistoryContiguous,
         NEW b \in Batch, OncePerPath(b), CommitBatch(b)
  PROVE  HistoryContiguous'
<1> DEFINE New == {NewRow(b, i) : i \in DOMAIN b.entries}
<1>1. versions' = versions \cup New
  BY BatchStep
<1>2. \A p \in Paths : files[p].version \in Nat
  BY DEF TablesTypeOK, FileRow
<1>3. \A v \in New : /\ v.path \in Paths
                     /\ v.version = files[v.path].version + 1
                     /\ files'[v.path].version = v.version
  <2>1. SUFFICES ASSUME NEW i \in DOMAIN b.entries
                 PROVE  LET v == NewRow(b, i) IN
                        /\ v.path \in Paths
                        /\ v.version = files[v.path].version + 1
                        /\ files'[v.path].version = v.version
    OBVIOUS
  <2>2. NewRow(b, i) \in VersionRow
    BY BatchStep
  <2>3. files'[NewRow(b, i).path].version = NewRow(b, i).version
    BY BatchStep, HeadOfFields
  <2> QED BY BatchStep, <2>2, <2>3 DEF VersionRow
<1>4. \A v, w \in New : v.path = w.path => v = w
  BY BatchStep
<1>5. \A p \in Paths : (\A v \in New : v.path # p) => files'[p] = files[p]
  BY BatchStep
<1>6. \A v \in versions : v.path \in Paths /\ v.version \in Nat
                            /\ v.version <= files[v.path].version
  BY DEF HistoryContiguous, TablesTypeOK, VersionRow
<1>7. \A p \in Paths : /\ files'[p].version \in Nat
                       /\ files[p].version <= files'[p].version
  BY <1>2, <1>3, <1>5
<1>8. \A v \in versions' : v.version <= files'[v.path].version
  BY <1>1, <1>2, <1>3, <1>6, <1>7
<1>9. ASSUME NEW v \in versions', NEW w \in versions',
             v.path = w.path, v.version = w.version
      PROVE  v = w
  <2>1. CASE v \in versions /\ w \in versions
    BY <1>9, <2>1 DEF HistoryContiguous
  <2>2. CASE v \in New /\ w \in New
    BY <1>4, <1>9, <2>2
  <2>3. CASE v \in versions /\ w \in New
    BY <1>2, <1>3, <1>6, <1>9, <2>3
  <2>4. CASE v \in New /\ w \in versions
    BY <1>2, <1>3, <1>6, <1>9, <2>4
  <2> QED BY <1>1, <2>1, <2>2, <2>3, <2>4
<1>10. ASSUME NEW p \in Paths, NEW n \in 1..files'[p].version
       PROVE  \E v \in versions' : v.path = p /\ v.version = n
  <2>1. CASE n \in 1..files[p].version
    BY <1>1, <2>1 DEF HistoryContiguous, RowsAt
  <2>2. CASE n \notin 1..files[p].version
    <3>1. n > files[p].version /\ files'[p] # files[p]
      BY <1>2, <1>7, <2>2
    <3>2. PICK v \in New : v.path = p
      BY <1>5, <3>1
    <3>3. v.version = n
      BY <1>2, <1>3, <1>10, <3>1, <3>2
    <3> QED BY <1>1, <3>2, <3>3
  <2> QED BY <2>1, <2>2
<1> QED BY <1>8, <1>9, <1>10 DEF HistoryContiguous, RowsAt

(* A head still repeats its newest version.                                *)
LEMMA BatchKeepsHeads ==
  ASSUME TablesTypeOK, HistoryContiguous, HeadsMirrorHistory,
         NEW b \in Batch, OncePerPath(b), EntriesMakeSense(b), CommitBatch(b)
  PROVE  HeadsMirrorHistory'
<1> DEFINE New == {NewRow(b, i) : i \in DOMAIN b.entries}
<1>1. versions' = versions \cup New
  BY BatchStep
<1>2. \A p \in Paths : files[p].version \in Nat
  BY DEF TablesTypeOK, FileRow
<1>3. \A v \in New : /\ v.path \in Paths
                     /\ v.version = files[v.path].version + 1
                     /\ files'[v.path] = HeadOf(v)
  BY BatchStep DEF VersionRow
<1>4. \A p \in Paths : (\A v \in New : v.path # p) => files'[p] = files[p]
  BY BatchStep
<1>5. ASSUME NEW v \in versions, v.version = files'[v.path].version
      PROVE  files'[v.path] = HeadOf(v)
  <2>1. v.path \in Paths /\ v.version \in Nat /\ v.version <= files[v.path].version
    BY DEF HistoryContiguous, TablesTypeOK, VersionRow
  <2>2. ASSUME NEW w \in New, w.path = v.path PROVE FALSE
    <3>1. files'[v.path].version = files[v.path].version + 1
      BY <1>3, <2>2, HeadOfFields
    <3> QED BY <1>2, <1>5, <2>1, <3>1
  <2>3. files'[v.path] = files[v.path]
    BY <1>4, <2>1, <2>2
  <2> QED BY <1>5, <2>3 DEF HeadsMirrorHistory
<1>6. ASSUME NEW i \in DOMAIN b.entries
      PROVE  NewRow(b, i).content = Tombstone <=> NewRow(b, i).kind = "delete"
  <2> DEFINE e == b.entries[i]
  <2>1. e \in Entry /\ Insertable(e)
    <3>1. e \in Entry
      BY DEF Batch, EntryLists
    <3>2. Wins(b)
      BY DEF CommitBatch
    <3>3. Insertable(e)
      BY <3>2 DEF Wins, Seals
    <3> QED BY <3>1, <3>3
  <2>2. NewRow(b, i).content = ContentOf(e) /\ NewRow(b, i).kind = KindOf(e.op)
    BY DEF NewRow
  <2>3. CASE e.op = "put"
    <3>1. ContentOf(e) = e.content /\ KindOf(e.op) = "put"
      BY <2>3 DEF ContentOf, KindOf
    <3>2. e.content # Tombstone
      BY <2>3, TablesAssumption DEF EntriesMakeSense
    <3> QED BY <2>2, <3>1, <3>2
  <2>4. CASE e.op = "delete"
    <3>1. ContentOf(e) = Tombstone /\ KindOf(e.op) = "delete"
      BY <2>4 DEF ContentOf, KindOf
    <3> QED BY <2>2, <3>1
  <2>5. CASE e.op \in {"copy", "rollback"}
    <3>1. ContentOf(e) = ContentAt(e.fromPath, e.fromVersion)
            /\ KindOf(e.op) # "delete"
      BY <2>5 DEF ContentOf, KindOf
    <3>2. PICK v \in RowsAt(e.fromPath, e.fromVersion) : v.content # Tombstone
      BY <2>1, <2>5 DEF Insertable, Restorable
    <3>3. ContentAt(e.fromPath, e.fromVersion) = v.content
      BY <3>2 DEF ContentAt, RowsAt, HistoryContiguous
    <3> QED BY <2>2, <3>1, <3>2, <3>3
  <2> QED BY <2>1, <2>3, <2>4, <2>5 DEF Entry
<1>7. \A v \in versions' : v.content = Tombstone <=> v.kind = "delete"
  BY <1>1, <1>6 DEF HeadsMirrorHistory
<1>8. \A v \in versions' :
        v.version = files'[v.path].version => files'[v.path] = HeadOf(v)
  BY <1>1, <1>3, <1>5
<1> QED BY <1>7, <1>8 DEF HeadsMirrorHistory, HeadOf

(* Change ids stay unique, below the sequence and in version order.        *)
LEMMA BatchKeepsFeed ==
  ASSUME TablesTypeOK, HistoryContiguous, FeedFollowsHistory,
         NEW b \in Batch, OncePerPath(b), CommitBatch(b)
  PROVE  FeedFollowsHistory'
<1> DEFINE New == {NewRow(b, i) : i \in DOMAIN b.entries}
<1>1. versions' = versions \cup New
  BY BatchStep
<1>2. lastChange \in Nat /\ lastChange' \in Nat /\ lastChange <= lastChange'
  BY BatchStep DEF TablesTypeOK
<1>3. \A p \in Paths : files[p].version \in Nat
  BY DEF TablesTypeOK, FileRow
<1>4. \A v \in New : /\ v.id \in Nat /\ v.id > lastChange /\ v.id <= lastChange'
                     /\ v.path \in Paths
                     /\ v.version = files[v.path].version + 1
  BY <1>2, BatchStep DEF VersionRow
<1>5. \A v, w \in New : v.path = w.path => v = w
  BY BatchStep
<1>6. \A v, w \in New : v.id = w.id => v = w
  <2>1. SUFFICES ASSUME NEW i \in DOMAIN b.entries, NEW j \in DOMAIN b.entries,
                        NewRow(b, i).id = NewRow(b, j).id
                 PROVE  i = j
    OBVIOUS
  <2>2. lastChange + i = lastChange + j /\ i \in Nat /\ j \in Nat
    BY <2>1, BatchStep
  <2> QED BY <1>2, <2>2
<1>7. \A v \in versions : /\ v.id \in Nat /\ v.id <= lastChange
                          /\ v.path \in Paths /\ v.version \in Nat
                          /\ v.version <= files[v.path].version
  BY DEF HistoryContiguous, FeedFollowsHistory, TablesTypeOK, VersionRow
<1>8. \A v \in versions' : v.id <= lastChange'
  BY <1>1, <1>2, <1>4, <1>7
<1>9. \A v, w \in versions' : v.id = w.id => v = w
  BY <1>1, <1>2, <1>4, <1>6, <1>7 DEF FeedFollowsHistory
<1>10. ASSUME NEW v \in versions', NEW w \in versions',
              v.path = w.path, v.version < w.version
       PROVE  v.id < w.id
  <2>1. CASE v \in versions /\ w \in versions
    BY <1>10, <2>1 DEF FeedFollowsHistory
  <2>2. CASE v \in versions /\ w \in New
    BY <1>2, <1>4, <1>7, <2>2
  <2>3. CASE v \in New /\ w \in versions
    BY <1>3, <1>4, <1>7, <1>10, <2>3
  <2>4. CASE v \in New /\ w \in New
    BY <1>3, <1>4, <1>5, <1>10, <2>4
  <2> QED BY <1>1, <2>1, <2>2, <2>3, <2>4
<1> QED BY <1>8, <1>9, <1>10 DEF FeedFollowsHistory

(* A batch under a fresh commit id adds one whole commit and touches no    *)
(* other.                                                                  *)
LEMMA BatchKeepsCommits ==
  ASSUME TablesTypeOK, CommitsWhole,
         NEW b \in Batch, OncePerPath(b), CommitBatch(b),
         ~Committed(b.id)
  PROVE  CommitsWhole'
<1> DEFINE New == {NewRow(b, i) : i \in DOMAIN b.entries}
           n == Len(b.entries)
<1>1. versions' = versions \cup New /\ commits' = commits \cup {NewCommit(b)}
  BY BatchStep DEF CommitBatch
<1>2. /\ NewCommit(b).id = b.id /\ NewCommit(b).count = n
      /\ NewCommit(b).first = lastChange + 1 /\ NewCommit(b).last = lastChange + n
  BY DEF NewCommit
<1>3. n \in Nat \ {0} /\ DOMAIN b.entries = 1..n /\ lastChange \in Nat
  BY DEF Batch, EntryLists, TablesTypeOK
<1>4. \A v \in New : v.commit = b.id
  BY BatchStep
<1>5. \A v \in versions : v.commit # b.id
  BY DEF CommitsWhole, Committed
<1>6. \A c \in commits : c.id # b.id
  BY DEF Committed
<1>7. \A v \in versions' : \E c \in commits' : c.id = v.commit
  BY <1>1, <1>2, <1>4 DEF CommitsWhole, Committed
<1>8. \A c, d \in commits' : c.id = d.id => c = d
  BY <1>1, <1>2, <1>6 DEF CommitsWhole
<1>9. {v \in versions' : v.commit = b.id} = New
  BY <1>1, <1>4, <1>5
<1>10. {v.id : v \in New} = (lastChange + 1)..(lastChange + n)
  <2>1. \A i \in 1..n : NewRow(b, i).id = lastChange + i
    BY <1>3, BatchStep
  <2>2. ASSUME NEW k \in (lastChange + 1)..(lastChange + n)
        PROVE  k \in {v.id : v \in New}
    <3>1. (k - lastChange) \in 1..n /\ k = lastChange + (k - lastChange)
      BY <1>3
    <3> QED BY <1>3, <2>1, <3>1
  <2>3. ASSUME NEW v \in New
        PROVE  v.id \in (lastChange + 1)..(lastChange + n)
    BY <1>3, <2>1
  <2> QED BY <2>2, <2>3
<1>11. ASSUME NEW c \in commits
       PROVE  {v \in versions' : v.commit = c.id} = {v \in versions : v.commit = c.id}
  BY <1>1, <1>4, <1>6
<1>12. ASSUME NEW c \in commits'
       PROVE  /\ c.last = c.first + c.count - 1
              /\ {v.id : v \in {w \in versions' : w.commit = c.id}} = c.first..c.last
  <2>1. CASE c \in commits
    BY <1>11, <2>1 DEF CommitsWhole, RowsOf
  <2>2. CASE c = NewCommit(b)
    <3>1. c.id = b.id /\ c.count = n
            /\ c.first = lastChange + 1 /\ c.last = lastChange + n
      BY <1>2, <2>2
    <3>2. {w \in versions' : w.commit = c.id} = New
      BY <1>9, <3>1
    <3>3. {v.id : v \in {w \in versions' : w.commit = c.id}} = c.first..c.last
      BY <1>10, <3>1, <3>2
    <3>4. c.last = c.first + c.count - 1
      <4>1. \A m, k \in Nat : m + k = (m + 1) + k - 1
        OBVIOUS
      <4>2. lastChange \in Nat /\ n \in Nat
        BY <1>3
      <4> HIDE DEF n
      <4> QED BY <3>1, <4>1, <4>2
    <3> QED BY <3>3, <3>4
  <2> QED BY <1>1, <2>1, <2>2
<1> QED BY <1>7, <1>8, <1>12 DEF CommitsWhole, Committed, RowsOf

(* A row that copies or rolls back has the content of an older live row.   *)
LEMMA BatchKeepsDerived ==
  ASSUME TablesTypeOK, HistoryContiguous, FeedFollowsHistory,
         DerivedContentFaithful,
         NEW b \in Batch, OncePerPath(b), EntriesMakeSense(b), CommitBatch(b)
  PROVE  DerivedContentFaithful'
<1> DEFINE New == {NewRow(b, i) : i \in DOMAIN b.entries}
           Faithful(v, all) ==
             v.kind # "delete" /\ v.fromVersion # 0 =>
               \E w \in all : /\ w.path = v.fromPath /\ w.version = v.fromVersion
                              /\ w.id < v.id /\ w.content # Tombstone
                              /\ w.content = v.content
<1>1. versions' = versions \cup New
  BY BatchStep
<1>2. \A v \in versions : Faithful(v, versions')
  BY <1>1 DEF DerivedContentFaithful, RowsAt
<1>3. ASSUME NEW i \in DOMAIN b.entries
      PROVE  Faithful(NewRow(b, i), versions')
  <2> DEFINE e == b.entries[i]
             v == NewRow(b, i)
  <2>1. e \in Entry
    BY DEF Batch, EntryLists
  <2>2. Wins(b)
    BY DEF CommitBatch
  <2>3. Insertable(e)
    BY <2>2 DEF Wins, Seals
  <2>4. /\ v.content = ContentOf(e) /\ v.kind = KindOf(e.op)
        /\ v.fromPath = e.fromPath /\ v.fromVersion = e.fromVersion
    BY DEF NewRow
  <2>5. CASE e.op \notin {"copy", "rollback"}
    <3>1. e.fromVersion = 0
      BY <2>1, <2>5 DEF EntriesMakeSense, Entry
    <3> QED BY <2>4, <3>1
  <2>6. CASE e.op \in {"copy", "rollback"}
    <3>1. ContentOf(e) = ContentAt(e.fromPath, e.fromVersion)
      BY <2>6 DEF ContentOf
    <3>2. PICK w \in RowsAt(e.fromPath, e.fromVersion) : w.content # Tombstone
      BY <2>3, <2>6 DEF Insertable, Restorable
    <3>3. w \in versions /\ w.path = e.fromPath /\ w.version = e.fromVersion
      BY <3>2 DEF RowsAt
    <3>4. ContentAt(e.fromPath, e.fromVersion) = w.content
      BY <3>2 DEF ContentAt, RowsAt, HistoryContiguous
    <3>5. w.id < v.id
      <4>1. w.id \in Nat /\ w.id <= lastChange /\ lastChange \in Nat
        BY <3>3 DEF FeedFollowsHistory, TablesTypeOK, VersionRow
      <4>2. v.id = lastChange + i /\ i \in Nat \ {0}
        BY BatchStep
      <4> QED BY <4>1, <4>2
    <3> QED BY <1>1, <2>4, <3>1, <3>2, <3>3, <3>4, <3>5
  <2> QED BY <2>5, <2>6
<1>4. \A v \in versions' : Faithful(v, versions')
  BY <1>1, <1>2, <1>3
<1> QED BY <1>4 DEF DerivedContentFaithful, RowsAt

(* All that the tables promise survives a winning batch that is well       *)
(* formed and whose commit id is fresh.                                    *)
LEMMA BatchKeepsTables ==
  ASSUME TablesInv,
         NEW b \in Batch, OncePerPath(b), EntriesMakeSense(b), CommitBatch(b),
         ~Committed(b.id)
  PROVE  TablesInv'
<1>1. TablesTypeOK'
  BY BatchKeepsTypes DEF TablesInv
<1>2. HistoryContiguous'
  BY BatchKeepsHistory DEF TablesInv
<1>3. HeadsMirrorHistory'
  BY BatchKeepsHeads DEF TablesInv
<1>4. FeedFollowsHistory'
  BY BatchKeepsFeed DEF TablesInv
<1>5. CommitsWhole'
  BY BatchKeepsCommits DEF TablesInv
<1>6. DerivedContentFaithful'
  BY BatchKeepsDerived DEF TablesInv
<1> QED BY <1>1, <1>2, <1>3, <1>4, <1>5, <1>6 DEF TablesInv

(* The empty tables keep every promise.                                    *)
LEMMA EmptyTables ==
  ASSUME TablesInit
  PROVE  TablesInv
<1>1. TablesTypeOK
  BY DEF TablesInit, TablesTypeOK, NoFile, FileRow
<1>2. HistoryContiguous
  BY DEF TablesInit, HistoryContiguous, NoFile
<1> QED BY <1>1, <1>2 DEF TablesInit, TablesInv, HeadsMirrorHistory,
              FeedFollowsHistory, CommitsWhole, DerivedContentFaithful

(* What other parts do to the tables keeps the promises too.               *)
LEMMA OthersKeepTables ==
  ASSUME TablesInv,
         DeleteStash \/ RestoreStash \/ OtherStashWrites \/ ExpireLedger
           \/ UNCHANGED tables
  PROVE  TablesInv'
<1> USE DEF TablesInv, TablesTypeOK, HistoryContiguous, HeadsMirrorHistory,
            FeedFollowsHistory, CommitsWhole, DerivedContentFaithful,
            RowsAt, RowsOf, Committed
<1>1. CASE DeleteStash
  BY <1>1 DEF DeleteStash
<1>2. CASE RestoreStash
  BY <1>2 DEF RestoreStash
<1>3. CASE OtherStashWrites
  <2>1. /\ lastChange' = lastChange + 1
        /\ UNCHANGED <<live, files, versions, commits, ledger>>
    BY <1>3 DEF OtherStashWrites
  <2>2. lastChange' \in Nat /\ \A v \in versions' : v.id <= lastChange'
    BY <2>1 DEF VersionRow
  <2> QED BY <2>1, <2>2
<1>4. CASE ExpireLedger
  BY <1>4 DEF ExpireLedger
<1>5. CASE UNCHANGED tables
  BY <1>5 DEF tables
<1> QED BY <1>1, <1>2, <1>3, <1>4, <1>5

-----------------------------------------------------------------------------
(* The gate and the seal.                                                  *)

(* What the gate admits, the version inserts, the heads and the seal find  *)
(* in order as well: the seal never has to undo a batch.                   *)
LEMMA GateSuffices ==
  ASSUME TablesInv, NEW b \in Batch, OncePerPath(b), EntriesMakeSense(b), Gate(b)
  PROVE  Seals(b) /\ VersionsFree(b)
<1>1. b.entries \in Seq(Entry)
  BY DEF Batch, EntryLists
<1>2. \A i \in DOMAIN b.entries :
        /\ b.entries[i] \in Entry
        /\ GateAccepts(b.entries[i])
        /\ files[b.entries[i].path].version = b.entries[i].expected
  BY <1>1 DEF Gate, GateAccepts
<1>3. ASSUME NEW i \in DOMAIN b.entries
      PROVE  Insertable(b.entries[i])
  <2> DEFINE e == b.entries[i]
  <2>1. e.path \in Paths /\ e.expected \in Nat
          /\ e.op \in {"put", "copy", "delete", "rollback"}
    BY <1>2 DEF Entry
  <2>2. CASE e.op = "delete"
    <3>1. e.expected \in 1..files[e.path].version
      BY <1>2, <2>1, <2>2 DEF EntriesMakeSense
    <3>2. RowsAt(e.path, e.expected) # {}
      BY <2>1, <3>1 DEF TablesInv, HistoryContiguous
    <3> QED BY <2>2, <3>2 DEF Insertable
  <2>3. CASE e.op \in {"copy", "rollback"}
    BY <1>2, <2>3 DEF GateAccepts, Insertable
  <2>4. CASE e.op = "put"
    BY <2>4 DEF Insertable
  <2> QED BY <2>1, <2>2, <2>3, <2>4
<1>4. ASSUME NEW i \in DOMAIN b.entries
      PROVE  FilesAfter(b)[b.entries[i].path]
               = [version |-> NextVersion(b.entries[i]),
                  content |-> ContentOf(b.entries[i]),
                  deleted |-> b.entries[i].op = "delete"]
  <2> DEFINE e == b.entries[i]
             moved == {row \in NewRows(b) : row.path = e.path}
             gated == {j \in DOMAIN b.entries :
                         b.entries[j].path = e.path
                           /\ b.entries[j].expected = files[e.path].version}
  <2>1. \A j \in DOMAIN b.entries : NewRow(b, j).path = b.entries[j].path
    BY DEF NewRow
  <2>2. moved = {NewRow(b, i)}
    BY <1>3, <2>1 DEF NewRows, OncePerPath
  <2>3. i \in gated
    BY <1>2
  <2>4. e.path \in Paths
    BY <1>2 DEF Entry
  <2>5. FilesAfter(b)[e.path] = HeadOf(CHOOSE row \in moved : TRUE)
    BY <2>2, <2>3, <2>4 DEF FilesAfter
  <2>6. (CHOOSE row \in moved : TRUE) = NewRow(b, i)
    BY <2>2
  <2>7. KindOf(e.op) = "delete" <=> e.op = "delete"
    BY <1>2 DEF KindOf, Entry
  <2>8. (KindOf(e.op) = "delete") = (e.op = "delete")
    BY <2>7
  <2>9. /\ NewRow(b, i).version = NextVersion(e)
        /\ NewRow(b, i).content = ContentOf(e)
        /\ NewRow(b, i).kind = KindOf(e.op)
    BY DEF NewRow
  <2>10. HeadOf(NewRow(b, i)) = [version |-> NextVersion(e),
                                content |-> ContentOf(e),
                                deleted |-> e.op = "delete"]
    BY <2>8, <2>9 DEF HeadOf
  <2> QED BY <2>5, <2>6, <2>10
<1>5. VersionsFree(b)
  <2>1. SUFFICES ASSUME NEW i \in DOMAIN b.entries,
                        NEW v \in versions,
                        v.path = b.entries[i].path,
                        v.version = b.entries[i].expected + 1
                 PROVE  FALSE
    BY DEF VersionsFree, NewRows, NewRow, NextVersion, RowsAt
  <2>2. v.version <= files[v.path].version
    BY DEF TablesInv, HistoryContiguous
  <2>3. b.entries[i].expected \in Nat
    BY <1>2 DEF Entry
  <2> QED BY <1>2, <2>1, <2>2, <2>3
<1> QED BY <1>3, <1>4, <1>5 DEF Seals

-----------------------------------------------------------------------------
(* What is written is never taken back.                                    *)

Grows ==
  /\ versions \subseteq versions'
  /\ \A p \in Paths :
       /\ files[p].version <= files'[p].version
       /\ files'[p].version = files[p].version => files'[p] = files[p]
  /\ \A c : Committed(c) => Committed(c)' /\ RowsOf(c)' = RowsOf(c)

LEMMA BatchGrows ==
  ASSUME TablesTypeOK, NEW b \in Batch, OncePerPath(b), CommitBatch(b),
         ~Committed(b.id)
  PROVE  Grows
<1>1. versions' = versions \cup {NewRow(b, i) : i \in DOMAIN b.entries}
  BY BatchStep
<1>2. ASSUME NEW p \in Paths
      PROVE  /\ files[p].version <= files'[p].version
             /\ files'[p].version = files[p].version => files'[p] = files[p]
  <2>1. files[p].version \in Nat
    BY DEF TablesTypeOK, FileRow
  <2>2. CASE \A i \in DOMAIN b.entries : NewRow(b, i).path # p
    BY <2>1, <2>2, BatchStep
  <2>3. ASSUME NEW i \in DOMAIN b.entries, NewRow(b, i).path = p
        PROVE  files'[p].version = files[p].version + 1
    BY <2>3, BatchStep, HeadOfFields
  <2> QED BY <2>1, <2>2, <2>3
<1>3. ASSUME NEW c, Committed(c)
      PROVE  Committed(c)' /\ RowsOf(c)' = RowsOf(c)
  <2>1. c # b.id
    BY <1>3
  <2>2. \A i \in DOMAIN b.entries : NewRow(b, i).commit = b.id
    BY BatchStep
  <2>3. commits \subseteq commits'
    BY DEF CommitBatch
  <2> QED BY <1>1, <1>3, <2>1, <2>2, <2>3 DEF RowsOf, Committed
<1> QED BY <1>1, <1>2, <1>3 DEF Grows

LEMMA OthersGrow ==
  ASSUME TablesTypeOK, UNCHANGED <<files, versions, commits>>
  PROVE  Grows
<1>1. \A p \in Paths : files[p].version \in Nat
  BY DEF TablesTypeOK, FileRow
<1> QED BY <1>1 DEF Grows, Committed, RowsOf

(* A row that is there is the only one of its version, now and later.      *)
LEMMA RowsAtStay ==
  ASSUME HistoryContiguous', versions \subseteq versions', NEW p, NEW n,
         RowsAt(p, n) # {}
  PROVE  /\ RowsAt(p, n)' = RowsAt(p, n)
         /\ ContentAt(p, n)' = ContentAt(p, n)
         /\ Restorable(p, n)' <=> Restorable(p, n)
<1>1. RowsAt(p, n)' = RowsAt(p, n)
  BY DEF RowsAt, HistoryContiguous
<1> QED BY <1>1 DEF ContentAt, Restorable
=============================================================================
