---------------------------- MODULE StashTables ----------------------------
(***************************************************************************)
(* The D1 tables of one stash, and the one way content gets into them: the *)
(* batch that commitBatch builds.  A batch is a D1 transaction.  It        *)
(* inserts a commit row behind a gate, then the version rows and the file  *)
(* heads behind a fence on that commit row, then the idempotency ledger    *)
(* row, and last it seals the commit; a seal that does not add up violates *)
(* a CHECK and the whole transaction rolls back.                           *)
(*                                                                         *)
(* The modules that write (StashStore; later the change sets and uploads)  *)
(* extend this one.  A content stands for everything a version row says of *)
(* its bytes: hash, size, content type and representation.                 *)
(***************************************************************************)
EXTENDS Integers, Sequences, FiniteSets

CONSTANTS
  Paths,        \* file paths of the stash
  Contents,     \* what a version may hold
  Tombstone,    \* the NULL blob_hash of a deleted version
  Keys,         \* idempotency keys
  NoKey,        \* a request without a key
  CommitIds,    \* ids that mintCommitId may mint
  Hashes        \* request hashes: one per canonical request

ASSUME TablesAssumption ==
  /\ Tombstone \notin Contents
  /\ NoKey \notin Keys

VARIABLES
  live,         \* stashes.deleted_at IS NULL
  files,        \* head row of each path; version 0: the path has no row
  versions,     \* the append-only version rows
  lastChange,   \* the AUTOINCREMENT sequence of versions.id
  commits,      \* the sealed commit rows
  ledger        \* the idempotency rows of single-path writes

tables == <<live, files, versions, lastChange, commits, ledger>>

-----------------------------------------------------------------------------
(* Rows.  An expected version of 0 is the null of the API: the path must   *)
(* have no row.  Every path of a request is distinct (entryListRefinement),*)
(* so one batch writes at most one version of a path.                      *)

Entry == [op : {"put", "copy", "delete", "rollback"}, path : Paths,
          expected : Nat, content : Contents \cup {Tombstone},
          fromPath : Paths, fromVersion : Nat]

FileRow == [version : Nat, content : Contents \cup {Tombstone},
            deleted : BOOLEAN]

VersionRow == [id : Nat \ {0}, path : Paths, version : Nat \ {0},
               kind : {"put", "delete", "rollback"},
               content : Contents \cup {Tombstone},
               fromPath : Paths, fromVersion : Nat, commit : CommitIds]

CommitRow == [id : CommitIds, count : Nat \ {0},
              first : Nat \ {0}, last : Nat \ {0},
              key : Keys \cup {NoKey}, hash : Hashes]

LedgerRow == [key : Keys, hash : Hashes, path : Paths, version : Nat \ {0}]

EntryLists == Seq(Entry) \ {<<>>}

(* What the request schemas demand of the entries of a commit or proposal. *)
DistinctPaths(es) ==
  \A i, j \in DOMAIN es : es[i].path = es[j].path => i = j

WellFormedEntry(e) ==
  /\ e.op = "put" <=> e.content \in Contents
  /\ e.op \in {"delete", "rollback"} => e.expected > 0
  /\ e.op \in {"copy", "rollback"} <=> e.fromVersion > 0
  /\ e.op = "copy" \/ e.fromPath = e.path

(* What a writer hands to commitBatch.  `since' with `whole' is            *)
(* expectedLastChangeId; with a `scope' it is narrowed to the paths under  *)
(* expectedLastChangePrefix; whole = FALSE and scope = {} is no fence.     *)
Batch == [id : CommitIds, entries : EntryLists, since : Nat, whole : BOOLEAN,
          scope : SUBSET Paths, ledgerKey : Keys \cup {NoKey},
          commitKey : Keys \cup {NoKey}, hash : Hashes]

NoFile == [version |-> 0, content |-> Tombstone, deleted |-> FALSE]

TablesInit ==
  /\ live = TRUE
  /\ files = [p \in Paths |-> NoFile]
  /\ versions = {}
  /\ lastChange = 0
  /\ commits = {}
  /\ ledger = {}

-----------------------------------------------------------------------------
(* Reads.                                                                  *)

Committed(c) == \E row \in commits : row.id = c

RowsOf(c) == {v \in versions : v.commit = c}

RowsAt(p, n) == {v \in versions : v.path = p /\ v.version = n}

(* A version that copy and rollback may take its content from.             *)
Restorable(p, n) == \E v \in RowsAt(p, n) : v.content # Tombstone

ContentAt(p, n) == (CHOOSE v \in RowsAt(p, n) : TRUE).content

ChangedSince(since, scope) ==
  \E v \in versions : v.id > since /\ v.path \in scope

(* COALESCE(MAX(versions.id), 0) of the stash.                             *)
IsNewestChange(n) ==
  /\ ~ChangedSince(n, Paths)
  /\ n = 0 \/ \E v \in versions : v.id = n

-----------------------------------------------------------------------------
(* The statements of a batch.                                              *)

(* Mutants: the version is computed from a head read too late or not at all.*)
NextVersionSkips(e) == e.expected + 2
NextVersionRepeats(e) == e.expected

NextVersion(e) == e.expected + 1

(* Mutant: the gate trusts the heads that were read before the batch.      *)
GateAcceptsAnyHead(e) ==
  e.op \in {"copy", "rollback"} => Restorable(e.fromPath, e.fromVersion)

(* The gate's test of one entry, in SQL, inside the transaction.           *)
GateAccepts(e) ==
  /\ files[e.path].version = e.expected
  /\ e.op = "delete" => ~files[e.path].deleted
  /\ e.op \in {"copy", "rollback"} => Restorable(e.fromPath, e.fromVersion)

(* Mutant: the fence is left to the reads before the batch.                *)
GateFenceUnchecked(b) == TRUE

GateFence(b) ==
  /\ b.whole => IsNewestChange(b.since)
  /\ ~ChangedSince(b.since, b.scope)

(* Mutant: the gate does not look at the stash.                            *)
GateDeletedToo(b) ==
  GateFence(b) /\ \A i \in DOMAIN b.entries : GateAccepts(b.entries[i])

Gate(b) ==
  /\ live
  /\ GateFence(b)
  /\ \A i \in DOMAIN b.entries : GateAccepts(b.entries[i])

(* Each version insert selects from the row it derives its content from.   *)
Insertable(e) ==
  CASE e.op = "put" -> TRUE
    [] e.op = "delete" -> RowsAt(e.path, e.expected) # {}
    [] e.op \in {"copy", "rollback"} -> Restorable(e.fromPath, e.fromVersion)

KindOf(op) ==
  CASE op \in {"put", "copy"} -> "put"
    [] op = "delete" -> "delete"
    [] op = "rollback" -> "rollback"

(* Mutant: a deletion keeps the hash of the version that it deletes.       *)
ContentOfKeepsBytes(e) ==
  CASE e.op = "put" -> e.content
    [] e.op = "delete" -> ContentAt(e.path, e.expected)
    [] e.op \in {"copy", "rollback"} -> ContentAt(e.fromPath, e.fromVersion)

ContentOf(e) ==
  CASE e.op = "put" -> e.content
    [] e.op = "delete" -> Tombstone
    [] e.op \in {"copy", "rollback"} -> ContentAt(e.fromPath, e.fromVersion)

(* Mutant: change ids are numbered within their batch.                     *)
ChangeIdWithinBatch(i) == i

(* AUTOINCREMENT numbers the rows of a batch in their order.               *)
ChangeIdOf(i) == lastChange + i

NewRow(b, i) ==
  LET e == b.entries[i] IN
  [id |-> ChangeIdOf(i), path |-> e.path, version |-> NextVersion(e),
   kind |-> KindOf(e.op), content |-> ContentOf(e),
   fromPath |-> e.fromPath, fromVersion |-> e.fromVersion, commit |-> b.id]

NewRows(b) ==
  {NewRow(b, i) : i \in {j \in DOMAIN b.entries : Insertable(b.entries[j])}}

HeadOf(row) == [version |-> row.version, content |-> row.content,
                deleted |-> row.kind = "delete"]

(* The head statement moves a head only from the version it was gated on.  *)
FilesAfter(b) ==
  [p \in Paths |->
     LET moved == {row \in NewRows(b) : row.path = p}
         gated == {i \in DOMAIN b.entries :
                     b.entries[i].path = p
                       /\ b.entries[i].expected = files[p].version}
     IN IF moved # {} /\ gated # {}
        THEN HeadOf(CHOOSE row \in moved : TRUE)
        ELSE files[p]]

(* Mutant: the unique index of the ledger is missing.                      *)
LedgerKeysRepeat(b) ==
  b.commitKey # NoKey => \A row \in commits : row.key # b.commitKey

(* PRIMARY KEY and UNIQUE indexes: a violation aborts the transaction.     *)
KeysFree(b) ==
  /\ b.ledgerKey # NoKey => \A row \in ledger : row.key # b.ledgerKey
  /\ b.commitKey # NoKey => \A row \in commits : row.key # b.commitKey

VersionsFree(b) ==
  \A row \in NewRows(b) : RowsAt(row.path, row.version) = {}

(* The seal counts the rows and compares every head, else it rolls back.   *)
Seals(b) ==
  \A i \in DOMAIN b.entries :
    /\ Insertable(b.entries[i])
    /\ FilesAfter(b)[b.entries[i].path]
         = [version |-> NextVersion(b.entries[i]),
            content |-> ContentOf(b.entries[i]),
            deleted |-> b.entries[i].op = "delete"]

Wins(b) == Gate(b) /\ KeysFree(b) /\ VersionsFree(b) /\ Seals(b)

(* Mutant: the seal records one change id less.                            *)
NewCommitShort(b) ==
  [id |-> b.id, count |-> Len(b.entries),
   first |-> lastChange + 1, last |-> lastChange + Len(b.entries) - 1,
   key |-> b.commitKey, hash |-> b.hash]

NewCommit(b) ==
  [id |-> b.id, count |-> Len(b.entries),
   first |-> lastChange + 1, last |-> lastChange + Len(b.entries),
   key |-> b.commitKey, hash |-> b.hash]

(* Mutant: the ledger row names the version that was replaced.             *)
NewLedgerOfHead(b) ==
  IF b.ledgerKey = NoKey THEN {}
  ELSE {[key |-> b.ledgerKey, hash |-> b.hash, path |-> b.entries[1].path,
         version |-> b.entries[1].expected]}

NewLedger(b) ==
  IF b.ledgerKey = NoKey THEN {}
  ELSE {[key |-> b.ledgerKey, hash |-> b.hash, path |-> b.entries[1].path,
         version |-> NextVersion(b.entries[1])]}

(* The transaction, when it wins; one that loses changes no table.         *)
CommitBatch(b) ==
  /\ Wins(b)
  /\ files' = FilesAfter(b)
  /\ versions' = versions \cup NewRows(b)
  /\ lastChange' = lastChange + Len(b.entries)
  /\ commits' = commits \cup {NewCommit(b)}
  /\ ledger' = ledger \cup NewLedger(b)
  /\ UNCHANGED live

-----------------------------------------------------------------------------
(* What other parts of the service do to the same tables.                  *)

(* Soft delete and restore of the stash touch only its deleted_at.         *)
DeleteStash == live /\ live' = FALSE
               /\ UNCHANGED <<files, versions, lastChange, commits, ledger>>

RestoreStash == ~live /\ live' = TRUE
                /\ UNCHANGED <<files, versions, lastChange, commits, ledger>>

(* The sequence is shared by all stashes: their writes leave gaps in ours. *)
OtherStashWrites ==
  /\ lastChange' = lastChange + 1
  /\ UNCHANGED <<live, files, versions, commits, ledger>>

(* The ledger collector drops a row that outlived its time to live.        *)
ExpireLedger ==
  /\ \E row \in ledger : ledger' = ledger \ {row}
  /\ UNCHANGED <<live, files, versions, lastChange, commits>>

-----------------------------------------------------------------------------
(* What the tables promise.                                                *)

TablesTypeOK ==
  /\ live \in BOOLEAN
  /\ files \in [Paths -> FileRow]
  /\ versions \subseteq VersionRow
  /\ lastChange \in Nat
  /\ commits \subseteq CommitRow
  /\ ledger \subseteq LedgerRow

(* The versions of a path are 1..head without gap or duplicate: what       *)
(* "per file, 1..n contiguous" in the schema says of racing writers.       *)
HistoryContiguous ==
  /\ \A v \in versions : v.version <= files[v.path].version
  /\ \A v, w \in versions :
       v.path = w.path /\ v.version = w.version => v = w
  /\ \A p \in Paths : \A n \in 1..files[p].version : RowsAt(p, n) # {}

(* The mutable head row repeats the newest version row exactly.            *)
HeadsMirrorHistory ==
  /\ \A v \in versions :
       v.version = files[v.path].version => files[v.path] = HeadOf(v)
  /\ \A v \in versions : v.content = Tombstone <=> v.kind = "delete"

(* Polling by change id meets every version once, and the versions of a    *)
(* path in their order: AUTOINCREMENT under racing transactions.           *)
FeedFollowsHistory ==
  /\ \A v \in versions : v.id <= lastChange
  /\ \A v, w \in versions : v.id = w.id => v = w
  /\ \A v, w \in versions :
       v.path = w.path /\ v.version < w.version => v.id < w.id

(* All or none: a commit has exactly the rows it counts, they have the     *)
(* consecutive change ids it records, and no row is outside of a commit.   *)
CommitsWhole ==
  /\ \A v \in versions : Committed(v.commit)
  /\ \A c, d \in commits : c.id = d.id => c = d
  /\ \A c \in commits :
       /\ c.last = c.first + c.count - 1
       /\ {v.id : v \in RowsOf(c.id)} = c.first..c.last

(* A rollback or copy has the content of the live version it names, and    *)
(* that version is older.                                                  *)
DerivedContentFaithful ==
  \A v \in versions :
    v.kind # "delete" /\ v.fromVersion # 0 =>
      \E w \in RowsAt(v.fromPath, v.fromVersion) :
        w.id < v.id /\ w.content # Tombstone /\ w.content = v.content

TablesInv ==
  /\ TablesTypeOK
  /\ HistoryContiguous
  /\ HeadsMirrorHistory
  /\ FeedFollowsHistory
  /\ CommitsWhole
  /\ DerivedContentFaithful

(* Nothing is written to a stash that is deleted.                          *)
FrozenStep ==
  ~live => UNCHANGED <<files, versions, commits>>
=============================================================================
