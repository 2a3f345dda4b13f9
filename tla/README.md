# zudo-history-stash, verified

zudo-history-stash is a store of versioned text and binary files, "stashes",
that runs as a Cloudflare Worker over D1 (SQLite), R2 objects and Durable
Objects. Clients write with optimistic concurrency (an expected version per
path) and idempotency keys, propose change sets that others approve, or upload
large files in sessions; a collector removes what nobody needs, pages of a
Viewer follow the changes live and edit files in the browser. This directory
models these parts in TLA+, checks small instances with TLC and proves the main
invariants for every instance with TLAPS. File names below are relative to
`workers/stash/src/` of the repository unless they start with `packages/`,
`docs/` or `doc/`.

## Inventory

| part | state it keeps | operations | what is hard | what makes it correct |
|---|---|---|---|---|
| tables and batch (`d1/sql/*.ts`, `migrations/`) | `files` (heads), `versions`, `commits`, `idempotency`, `stashes` | one D1 transaction per write, built by `commitBatch`: gate, versions, heads, ledger, seal | atomicity of a dozen statements that each may match no row | contiguous history, heads repeat it, commits whole |
| write API (`d1/writes.ts`, `d1/commits.ts`) | none of its own between requests | put, delete, rollback, commit, revert | every check is a query before the batch and stale by the time of the batch; retries and simultaneous twins; batch calls that fail after the commit | nothing lost or applied twice, answers true |
| change sets (`d1/change-sets.ts`) | `change_sets`, `change_set_entries`: status, entries, expiry, fence | create, approve, reject; expiry by the clock | approval re-checks bases, fence and expiry by reads, then claims in its batch; rejections and other approvals race with it; the collector | one decision, for ever; applied by one commit, of what was staged, under the fence that was proposed |
| uploads (`d1/upload-sessions.ts`, `routes/uploads.ts`, `upload-finalize.ts`) | session state, leases on finalization and publication, staged bytes, multipart parts | create, resume, upload, complete, abort, expire, sweep | crashes between R2 and D1, retries of parts, leases that lapse under a living owner | one version per session, its bytes exist, answers are true, the session ends |
| blobs (`d1/blobs.ts`, `d1/byte-writes.ts`, `d1/byte-reader.ts`) | D1 bodies, R2 objects | store, read | an object is written before the row that refers to it | a version's bytes can always be read |
| collection (`gc.ts`, `d1/gc-store.ts`, `gc-scheduler.ts`) | lease, cursors, runs | collect orphan objects, contents, change sets, old ledger rows, staging; schedule | a collector that lost its lease; a slow writer; R2 knows no fence | needed bytes are never deleted, pages follow each other, garbage goes |
| stash lifecycle, tokens (`d1/admin-store.ts`, `auth.ts`) | `stashes`, `tokens` | create, delete, restore; create, rotate, revoke | ambiguous failures | a deleted stash is frozen; one live token after a rotation |
| import (`d1/import.ts`) | as the tables | chains of several versions in one commit | replays of a chain | same as commits |
| events (`events/`, `packages/client/src/events.ts`) | subscribers and their queues; the client's checkpoint | publish, subscribe, replay, reconnect | lost, late and repeated frames, full queues, the seam of replay and live | nothing falls between two checkpoints |
| live pages (`packages/ui` `use-live-changes.ts`, `refresh-scheduler.ts`, `workers/viewer` `live-updates.tsx`) | the hook's cursor, one refresh at a time | coalesce, refresh, confirm, poll | two checkpoints that advance at different moments | a cursor never passes what the page lacks; the page catches up |
| editing (`use-save-machine.ts`, `use-workbench.ts`, `edit-workbench.tsx`, `save-review-dialog.tsx`) | draft, the draft in `sessionStorage`, three heads | type, review, save, retry, verify, reload, complete | answers that arrive when the page has moved on | nothing is overwritten unseen, typed text is kept unless a visit refuses it |

The components meet in the D1 tables: put, delete, rollback, commit, revert,
import, upload completion and change-set approval are all writers of `versions`
and `files`, each through a batch with the same gate and seal (change-set
approval builds its own, set-based one). Deletion and restoration of the stash,
and collection of the ledger, change rows that those writers read. R2 is
written before D1 refers to it and deleted after D1 stopped to. Events are
published after the batch and are only hints: the change cursor is the record,
and pages read it from there. The UI reaches all of this through the API only.

## Modules

* `StashTables` is the tables of one stash and `CommitBatch`, the transaction
  of `commitBatch` (`d1/sql/commits.ts`). `Gate` is the insertion of the commit
  row, `NewRows` the insertions of the versions, `FilesAfter` the head
  statements, `NewLedger` the ledger row, `Seals` the seal. `Wins(b)` says when
  the transaction commits; one that does not changes nothing, because D1 rolls
  it back (a key collision, a seal that violates its CHECK) or because every
  statement after the gate is fenced on the commit row. The module keeps gate
  and seal apart as the code does: that the second never contradicts the first
  is a theorem, not an assumption.
* `StashStore` is the write API as concurrent requests. Each request has a
  place `pc`; each place is one query of the handler, so that anything may
  happen between two queries:

  | place | code |
  |---|---|
  | `idle` | the request has not arrived |
  | `revert`, `target`, `heads` | `revertCommit`: stash live, target and key, heads and the entries to submit |
  | `live`, `replay` | `stashIsLive`, `existingReplay` / `existingCommit` |
  | `head`, `source` | `readHead` and `readVersion` of one path, or `readSnapshot` of a commit |
  | `batch` | `db.batch`: `Win`, `Lose`, or `Throw` when the call fails, committed or not |
  | `won` | reading back the own rows for the answer |
  | `relive`, `rereplay`, `rehead`, `resource` | the reads that explain a lost batch (`postBatchRefusal`, end of `createCommit`) |
  | `done` | answered |

* `VersionedStore` is what clients are promised, without tables, batches or
  queries: histories of values, and requests that happen at one instant or
  never. `StashStore` implements it (`ImplementsVersionedStore`), with the
  histories read off the version rows, requests with one key and one body as
  repetitions of one another, a success read as *done* and a refusal as *void*,
  but for the refusal of a request whose batch call failed: it does not know
  whether it took effect, and stays *open*.
* `MCStashStore` holds the instances for TLC.
* `ChangeSets` composes `StashTables` with the change sets of one stash.
  `now` is read once, when a request starts, while the clock goes on. An
  approval writes through a batch of its own (`changeSetCommitBatch`) whose
  first statement, an UPDATE of the open row, takes the place of the gate; its
  tests are those of `Gate` plus `Claimable`, and the statements after it are
  fenced on it, so `ApplySet` is `CommitBatch` with a claim. Other writers are
  one atomic batch each (`Write`), which is all an approval can see of them.

  | place | code |
  |---|---|
  | `idle`, `live` | the request has not arrived; `ensureLive` |
  | `replay`, `fence`, `stage`, `insert`, `created` | `createChangeSet`: change set under the key, newest change and expiry, `stageEntry` of each entry in any order, the batch, reading it back |
  | `rereplay`, `refence` | the reads that explain a lost creation |
  | `row`, `entries`, `newest`, `claim`, `won` | `approveChangeSet`: the row, `approvalConflicts` entry by entry, newest change, the batch, reading the result |
  | `rerow`, `reentries`, `renewest` | the same reads again, to explain a lost approval |
  | `reject`, `rejected`, `unrejected` | `rejectChangeSet`: the update, and the read after it |
  | `done` | answered |

  A change set is named by the request that created it, and a commit by the
  approval that made it. A collected row stays as `collected`, so that
  properties can speak of it; no handler reads it.
* `MCChangeSets` holds its instances for TLC.
* `Uploads` is one upload session. Every D1 call and every R2 call of a request
  is a step; `head` and `blob` are what the session can see of the tables.

  | place | code |
  |---|---|
  | `check`, `insert`, `raced`, `mint`, `bind`, `unbind` | creation: the head, the row, a twin's row, the multipart upload and its binding |
  | `stage`, `record`, `discard`, `discardLost`, `failOpen`, `expire` | content: R2 put, the row, what is undone when a step fails or is late |
  | `claim`, `insertClaim`, `uploadPart`, `recordPart`, `releasePart` | a part under its writer's claim |
  | `list`, `seal`, `acquire`, `reread`, `assemble`, `markCompleted`, `verify`, `markVerified`, `stat` | completion: parts listed, session sealed, lease taken, object assembled, verified and looked for |
  | `unchanged`, `commit`, `outcome`, `stale`, `fail`, `decline` | how a completion ends the session |
  | `publish`, `deliver`, `mark`, `unclaim` | the event under its publication lease |
  | `releaseStale`, `abort`, `unaborted`, `cleanup`, `untrack` | abort, the sweep of the collector, and what both clean up in R2 |

  Time is told by what it makes true: the session is past its expiry
  (`overdue`), a lease has lapsed (`lapsed`, `unclaimed`), and a request saw
  that (`late`). A lapsed lease whose owner lives on is a trouble, so both the
  late owner and the one who takes over are in the model. `MCUploads` holds its
  instances.
* `Collection` is the contents of a stash and the collector. Writers (puts,
  proposals, uploads) store an object under a fresh key and refer to it in a
  later transaction, or drop it when they lost; a collector goes `idle`,
  `start` (takes the lease), `page` (selects candidates after its cursor),
  `references`, `cutoff` (asks D1 which objects are referred to, then reads the
  clock), `heartbeat`, `delete`, `finish` (fenced: stores the next cursor) or
  `error`. `Tick` is time, where a comparison of ages protects something:
  `OrphanAge` for `GC_ORPHAN_MIN_AGE_MS`, `WriteTime` for the longest that a
  writer may take from its object to its reference, `QueryTime` for the query
  of the collector. Ages of days and months are reached at any moment.
  `MCCollection` holds its instances.
* `LiveFeed` is one page that follows the changes of its stash: a commit leaves
  its publication to `waitUntil` (`unpublished`), the Durable Object queues a
  frame for the subscriber (`stream.live`), the route puts replay, head check
  and `ready` before it (`stream.prefix`), the client's stream reads, drops
  duplicates, reconnects from its checkpoint and feeds a bounded queue
  (`inbox`), the hook turns events into refreshes (`slot`: one that runs and one
  that waits), and a refresh reads the feed from the hook's cursor, is adopted
  by the page (`known`) and only then confirmed (`hook.consumer`).
  `MCLiveFeed` holds its instance.
* `Editing` is one file in the edit workbench: `page` (the workbench and its
  draft), `machine` (`useSaveMachine`: fence, frozen attempt, flight,
  verification, reload), `dialog` (the review), `stored` (the draft in
  `sessionStorage`, with its source and the head that the page knew) and the
  server, where a PUT is one step (`StashStore` has the steps). Each answer is
  applied in a step of its own, some time after its request. A visit, with or
  without `?from=`, restores the stored draft or clears it (`canRestoreDraft`).
  `wanted` is what the user typed and has neither saved nor given up, and no
  visit has refused. `MCEditing` holds its instance.
* `StashTables_proofs` (the batch preserves every invariant of the tables),
  `StashStore_proofs` (so does every step of the store) and
  `StashEffects_proofs` (what follows for requests and answers, and the
  refinement) hold the proofs of the store; `ChangeSets_proofs`,
  `Uploads_proofs`, `Collection_proofs`, `LiveFeed_proofs` and `Editing_proofs`
  those of their modules.

Names that stand for code: expected version 0 is the `null` of the API ("must
not exist"); a head of version 0 is a path without row; a content is everything
a version row says of its bytes (hash, size, type, representation); the hash of
a request is its body without the key, so two requests have one hash exactly
when they ask for the same (no collisions of SHA-256, which the code relies on
too); a request's commit id is the request itself, since `mintCommitId` is
fresh each time.

## Runs

`review` and `prefix_fence` use `MCChangeSets`; `uploads`, `collection`,
`live_feed` and `editing` the MC module of that name; all others
`MCStashStore`. A retry of a write is another request that makes the same call,
so three requests are a write, its retry and a competitor, and four a commit, a
write on top, a revert and its repetition or its own revert.

| run | instance | shows |
|---|---|---|
| `single_path` | 3 requests (symmetric), each any of 11 puts, deletions, rollbacks of one path under two keys or none, with and without `skipIfUnchanged`; one deletion of the stash, one failing batch call. 164 552 states | histories, heads, feed, ledger and answers agree; refinement of `VersionedStore`; no request is ever told that it lost to nobody; an ambiguous write is recovered by its key |
| `commits` | 3 requests (symmetric), each any of 9 commits and writes of two paths with copies, rollbacks and both fences; stash deleted and restored, a write of another stash, ledger rows that expire, one failing batch call. 952 915 states | commits are whole, fences hold, seal and gate agree, an ambiguous batch is recovered by its key |
| `revert` | 4 requests: a commit of two paths, writes on top, reverts in both modes, reverts of reverts, repetitions; one failing batch call. 556 784 states | reverts restore, repetitions are harmless; refinement of `VersionedStore` with reverts |
| `review` | 3 requests: one of two proposals (with a fence on the stash or on a path, a copy, an expiry); its twin, a rival under its key, or an approval; an approval or a rejection. Two writes of others (a first version, a second path or a deletion), 3 instants, stash deleted or restored once, one failing batch call, the collector. 1 859 069 states | decisions are final and one commit each, of what was staged, under the fence that was proposed; answers stay true; a key names one change set |
| `uploads` | one session; 4 requests in 10 scenarios: who opens it, fills it (whole, or by parts, with right or wrong bytes), completes, resumes, aborts, sweeps; 1 or 2 troubles (a request dies, a caught call fails, a lease lapses under its owner, another write). 275 379 states | transitions follow the table of the core library, answers and events are true, the committed bytes exist; a finalizing session with a key ends |
| `collection` | 2 writers, 2 collectors in 7 scenarios: who writes how, which kinds are collected by the cron trigger, by hand or dry; up to 1 trouble; pages of one. 181 465 states | what is needed stays, pages form a chain; garbage goes |
| `live_feed` | up to 3 changes, one of them the page's own; queues, pages and replays of one; a page just opened (2 changes), and one that returns at change 1 (2 more, 1 trouble). 726 725 states | the hook's cursor confirms only what was adopted, a page at rest is current; the page catches up |
| `editing` | two texts (symmetric) and the empty one; versions/saves/visits/troubles up to 4/2/1/1, 3/2/2/1 and 3/1/1/2. 5 653 307 states | no save covers a version its review did not show, typed text is kept unless a visit refuses it |
| `prefix_fence` | 1 proposal, its approval and rejection, writes of others | **violation** of `PrefixConflictIsReal` |
| `same_key_race` | 3 requests, one path | **violation** of `SameKeyConverges` |
| `revert_skip_race` | 4 requests | **violation** of `RevertLeavesNothingStanding` |
| `revert_repeat_race` | 4 requests | **violation** of `RepeatedRevertReplays` |

Deadlock is not checked: the systems may stop, when all requests are answered,
all scenarios are over or all bounds are reached.

The bounds, and why they suffice:

* requests (3 or 4): each property relates at most two requests and what
  happened between; the third and fourth are the competitor in between, or the
  commit that a revert needs.
* `MaxEntries` 2: the statements of a batch treat entries alike; two tell
  "all" from "some".
* `MaxLifecycle` (0 to 2): a stash that is deleted *and* restored within one
  request makes the batch lose and the explanation find nothing wrong, and the
  request ends as an internal error; `single_path`, which checks
  `InternalIsExplained`, has one change, so that there this excuse is none.
  `AnswersStayTrue` has a like exception: a rejection whose stash is deleted and
  restored between its UPDATE and its reads is told "closed" of an open change
  set. `review` has one change of the lifecycle, the proofs any number.
* `MaxForeign` 1: a gap in the change ids. `MaxFaults` 1: a failed batch call,
  applied or not; only the request it happened to may then be refused what it
  wrote.
* `LedgerExpires`: the seven days may pass at any moment. It excuses the
  single-path writes of `AmbiguousBatchRecovers` in `commits`; in `single_path`
  the rows stay, so that there they have no excuse.
* `TimeToLive` 1, `Retention` 1, `MaxClock` 2: only the order of instants
  matters. A change set is created at 0 or 1 and expires at 1 or 2, so that an
  approval may start before and claim after its expiry, and the collector may
  remove it by 2, while an approval that read it is under way. A request that
  arrives later than the expiry is refused by its first read.
* Approvals and rejections arrive only once the change set they name was made:
  the server mints its id, so nobody can name it before.
* Troubles are counted together: one or two crashes, failures or lapses in
  every place of every request, so that the recovery itself meets a second one
  where two requests clean up after each other.
* `uploads`: one part, since parts share nothing but the manifest; two bytes,
  the declared ones and others.
* `collection`: `OrphanAge` = `WriteTime` = 1 and `QueryTime` 0 is the tightest
  instance of the assumption `WriteTime + QueryTime <= OrphanAge`. The code has
  15 minutes (`gc.ts`, `GC_ORPHAN_MIN_AGE_MS`) for what is one request from its
  object to its reference: it relies on this margin, and nothing enforces it.
  Pages of one make every second item another page. Scenarios instead of all
  combinations: each kind meets the sorts of writers that its candidates depend
  on, and objects and contents also two collectors of that kind, one of which
  may be late.
* `live_feed`: with pages and queues of one, any second frame overruns them.
  `PollAfter` is 1 where the code has 3 (`use-live-changes.ts`): the count only
  delays polling. `editing` needs four versions for "the user reviewed 2, others
  wrote 3, the save is 4", and a second save and a second visit for answers that
  belong to an earlier one; a larger instance of 14.3 million states passed as
  well.

### Fairness

`StashStore`, `ChangeSets` and `Editing` are checked without fairness and claim
no liveness: a request that stops is a crashed worker or a lost answer, which
their properties must survive. The other three state what the platform gives:

* `Uploads`: a running request takes its next step (or crashes, which is a
  trouble); the lease of a completion that is over runs out; a client that has a
  key repeats a completion that was not decided, which is what keys are for.
  Not that the session expires, nor that anyone aborts it.
  `Settles` holds for completions with a key only: see the observations.
* `Collection`: writers end (the platform's limit), the cron trigger fires for
  ever and starts every kind that a scenario schedules (the round robin of
  `gc-scheduler.ts`), what is running goes on, and time passes. `Tick` needs
  strong fairness, since it is disabled for the moment in which a request has
  reached its limit.
* `LiveFeed`: requests and refreshes end, one way or the other, a stream has a
  lifetime (`stash-events.ts` closes it), events are taken, and a hidden page is
  looked at again. Nothing says that a publication arrives or that a connection
  ever succeeds: `CatchesUp` then rests on polling.

### What the four violations say

1. *Simultaneous requests with one key.* `put` looks for an earlier answer and
   then reads the head. A twin that commits between the two is seen as a
   competitor, and the answer is `exists` or `stale`. The acceptance test "makes
   concurrent same-key calls converge on winner plus replay" and `docs/api.md`
   promise a replay. No data is harmed (`OneEffectPerKey`), and one more retry
   replays.
2. *A revert may leave a path standing.* Paths read as deleted are skipped, and
   nothing fences them: when one is written again before the batch, the revert
   succeeds, says it was already deleted, and the path still has a content that
   it was to reverse. `commits.mdx` says it "reverses every entry ... against
   the current heads".
3. *A repeated revert may fail for good reasons that are not its own.* A twin that computed
   its entries from other heads cannot rebuild the winner's answer: it is told
   `internal`, or that there is nothing to revert. `commits.mdx` promises "the
   same permanent replay semantics as commit creation".
4. *A lost proposal is misexplained.* When the batch of `createChangeSet` did
   not insert, the code compares with the newest change of the whole stash, also
   when the fence is narrowed to a prefix. In the counterexample the stash is
   deleted between the first check and the batch; the creation is told
   `commit-conflict`, though only a path outside of the prefix changed. The same
   answer is given after a batch call that failed. `commits.mdx` says the prefix
   fence "asks only that no newer change exists under the prefix".

## Proofs

The assumptions are the named ones of the modules (`TablesAssumption`,
`StoreAssumption`, `ChangeSetsAssumption`, `UploadsAssumption`,
`CollectionAssumption`, `LiveFeedAssumption`, `EditingAssumption`): the tombstone
is not a content, calls are well formed as the request schemas make them,
placeholders differ from what they stand in for, sizes are positive, an upload
has a part, and bounds are numbers. One says
something of the world: `CollectionAssumption` has `WriteTime + QueryTime <=
OrphanAge`. No set is assumed finite or small.

*The inductive invariant.* None of the invariants is inductive by itself: a
contiguous history is preserved by a batch only if heads mirror it, entries are
distinct and well formed, and the commit id is fresh. `StoreInv` joins

* `TypeOK`;
* `RequestsInv`: entries have distinct paths and make sense, a request past
  `heads` has entries, and **a commit row exists only for a request that has
  submitted its batch**, which is what makes the next one's rows the only rows of
  their commit;
* `TablesInv`: all the promises of the tables together.

`StashTables_proofs` shows that `CommitBatch(b)` preserves each conjunct of
`TablesInv` for every well-formed batch `b`; `StashStore_proofs` shows each
action of `StashStore` either does that or leaves the rows alone, and derives
the six invariants of the tables.

`StashEffects_proofs` adds what relates requests to rows. Every step is one
batch or leaves rows and settled requests alone (`StepShape`). On that
rest two more inductive invariants, `CallsInv` (what is submitted is what was
asked) and `EffectsInv` (what a commit row says about its request), from which
follow `LedgerTruthful`, `OneEffectPerKey`, `FencesHeld`, `RepeatAppliesOnce`
and `AnswersMatchEffects`: every answer any client gets is true. Two
more are proved there: `GateImpliesSeal` (the gate is never overruled) and the
action property `DeletedStashFrozen`. Three results say what a request meets
after its reads went stale. They rest on `StepForward` (rows, commits and failed
calls only ever grow, heads only move on) and `StepIsLocal` (a step touches the
control of one request), and each has its own invariant:

* `RecoveryInv`, for `AmbiguousBatchRecovers`: **a request that committed
  without knowing it finds its own row under its key**, in the ledger or among
  the commits, as long as it has not answered. It needs that a ledger row leads
  to the write of one path (`LedgerOfWrites`).
* `UndoInv`, for `RevertRestores`: each entry that a revert computed undoes a row
  of its target, and each row it wrote has undone one. What a path held before a
  row never changes, so what was computed from old reads is still right when the
  batch is committed.
* `ReasonInv`, for `InternalIsExplained`: **the reason why a batch lost is still
  there when the request looks for it.** Up to the batch, heads are at or past
  what the entries expect, sources are there and the fence's change exists
  (`Ready`): each can only turn against the request once. After it, one of the
  reasons left at each read is the true one (`HasReason`).

The refinement of `VersionedStore` is proved step by step (`StepRefines`): a
committed batch is `Apply`, whether its request learns of it or not; the arrival
of a call and the computing of a revert's entries are `Ask`; an answer is
`Confirm`, `Refuse` or, after a failed call, nothing; everything else stutters.
`Apply` takes the most: histories grow by one value where the entries say and
nowhere else (`BatchAppends`), and no repetition has been applied, by
`RepeatAppliesOnce` in the state after the step. `Confirm` is where
`AnswersMatchEffects` is used.

`ChangeSets_proofs` rests on the inductive
invariant `SetsInv`, which joins `SetsTypeOK`, `TablesInv` and

* `RequestsFit`: a request is only at places of its kind, a reviewer works on
  the entries of the change set it names, **a change set exists only for a
  request past its insertion and a commit only for one past its claim**, so that
  ids are fresh when they are used;
* `EntriesInv`: what staging keeps of a well-formed list of entries;
* `DecisionsInv`: applied change sets and commits of approvals name each other.

`AppliedOnce` is its last part. `DecisionsAreFinal` follows from `StepsOfSets`,
what any step may do to a change set. `FencesOutliveReviews` needs an induction
of its own on top of `SetsInv`: a later batch only adds change ids above those
of every earlier commit (`BatchComesLater`), and the claim of the approval sees
no excluded change below its own.

Four results about what is applied and what is answered follow from a second
invariant, `ReviewInv`: `SetsKnow` (an open or decided change set is what its
creation staged, and keys name one live change set) and `RequestKnows`, what each
request knows at each place. A creation past staging has the contents of the
sources it names, since versions never change; **whoever lost its batch finds the
fence moved, a head displaced, the set decided or the key taken when it asks
again**, or is excused by a fault. `AppliedAsReviewed`, `AnswersStayTrue`,
`KeyNamesOneSet` and `InternalOnlyAfterFault` are read off from it.

`Uploads_proofs` proves all the safety properties of an upload session with
`UploadsInv`:

* `TypesInv`, with what a completion that assembles parts has listed;
* `PlacesInv`: what each place of a request implies of the row, however late
  the request comes (from the lease on, the session is finalizing or over; what
  is known to have the declared hash has it in the row; **what was checked while
  it was assembled holds the declared bytes until the session is over**);
* `RowInv`, `StagedInv`, `BlobInv`: what the state of the row says of its
  fingerprints, its object and the stored bytes. **The object a row names was put
  there by a request that is over**, so nobody is left to discard it but the one
  whose call failed, the exception of `CommittedBytesAvailable`;
* `VersionInv` and `AnswerFits`: the version, the event and the answers agree
  with the result of the session.

Each statement's WHERE clause is what preserves it: the leases do not exclude
late owners, and the proof nowhere assumes that they do.

`Collection_proofs` proves `NothingNeededIsCollected` for any writers,
collectors, page sizes and troubles. It says nothing of candidates, and a
collector deletes what it read as unreferenced some time ago; `CollectionInv`
adds

* `WritersInv`: an object whose writer is still at work is no older than
  `WriteTime`, and a held session has its object;
* `RowsInv`: a row names an object that is there;
* `CandidatesInv`: **a candidate past the cutoff is old and unreferenced, and
  from then on nothing can refer to it**: its writer is done, since it would be
  younger otherwise, and a reference is only made by the object's own writer.
  This is where the assumption on the times is used, and why a collector whose
  lease was taken away can do no harm in R2, where nothing fences it.

`PagesFormAChain` needs `ChainInv`: the holder of a lease is at work on that
kind, and the stored cursor is the one it began at, unless an administrator
named another (`HoldersInv`); `ChainStep` does the rest.

`LiveFeed_proofs` proves `NothingSkipped` with `FeedInv`: `StreamInv`
(checkpoints and frames on their way from the object to the hook are numbers of
changes that exist), `TasksInv` (so is what a waiting refresh would confirm) and
`RefreshInv`: **a refresh that has read confirms no more than it read**, and it
read from the hook's cursor. The way of the frames does not matter, which is
the design: events are hints.

Where the frames go does matter for `RestIsCurrent`, and `RestInv` follows each
change on its way, until a trouble happens. `OpenInv` holds of a response that
is not cut off. Between object and client (`Replaying`, `Heading`,
`Announcing`, `Told`, one for each phase of a connection): **a change is at or
before the checkpoint that "ready" announces, or unpublished, or among the live
frames, since the subscription came before the read of the head**. Between
client and page, `Showing`: **a change that the client has seen is shown, or a
refresh is queued or has read it, or a refresh will follow the one that did
not, or an event that starts one is in the queue**. Such an event is a "ready"
or another's change; a change that is held back until "ready" is no loss,
because `Listening` has the "ready" behind it in the queue. A change of the
page's own has no event that counts and is shown when it is committed
(`KnownInv`). At rest nothing is left but to be told and shown.

`Editing_proofs` proves `NothingOverwrittenUnseen` and `TypedTextIsKept` with
`EditingInv`. Its parts say how the three heads are related: `KnownInv` (all
exist), `KeysInv` (what is sent, answered and kept for a retry is one attempt
per key), `ReplyInv` (what an answer says of the history), `SessionInv` (which
states of hook, dialog and completion go together), `ReviewInv` (**while the
dialog is open, the versions after the one it shows, up to the fence, are the
user's own**) and `DraftInv` (where the typed text is). `TypedTextIsKept` ends
where a visit refuses the stored draft; `OnlyARefusalLosesText` says how little
that is: while the page is away, typed text is lost only when its source was
newer than the head that the page knew, or to a visit for another source.

Only model-checked: liveness (`Settles`, `GarbageGoes`, `CatchesUp`), which is
out of the prover's reach. The types of `LiveFeed` and
`Editing` (`LiveTypeOK`, `EditingTypeOK`) are proved and in no run, and so is
that copies and rollbacks have the content of their source
(`DerivedContentFaithful`): versions never change, so a small instance adds
nothing.

## Observations

What modelling showed beside the four violations; none of these contradicts a
property of a run, some are why a property has a condition.

*Uploads.*

* A `PUT` of content whose batch was applied while its call failed takes the
  failure for a refusal and discards the object. A completion that has looked for
  the object before (`verifyR2Staging`) then commits a version whose bytes are gone. It is
  the one exception of `CommittedBytesAvailable`.
* A completion without a key that dies leaves the session `finalizing`. A
  repetition has another fingerprint and is refused, an abort refuses as long as
  the state is `finalizing` with an earlier fingerprint, and the expiry sweep
  leaves such sessions alone. `Settles` therefore asks for a key.
* A completion that dies between claiming the publication and delivering the
  event: its repetition answers 201 from the row and does not publish. The event
  never comes, which `LiveFeed` allows (`Lose`).
* Parts are listed before the session is sealed. A part that is written again in
  between makes the assembly fail, and the session ends `failed`; it never
  commits other bytes. So does a batch call that fails without effect.

*Collection.*

* The deletion in R2 is not fenced. It needs no fence, by `CandidatesInv`.

*Editing.*

* Typed text can get lost. A page opens at version 1; somebody else writes
  version 2, and the rail, which is read again without moving the head, lists it;
  the user loads it as source and types; the draft is stored with source 2 and
  fence 1; the tab is reloaded. `canRestoreDraft` (`use-workbench.ts:415`) wants
  the source at or below the fence, so the draft is cleared (`use-workbench.ts:542`)
  and the head shown. Likewise after `?from=1`, another source loaded and
  a reload of the tab. `docs/viewer-operations.md:40` says a draft "is cleared
  after a successful save or an explicit discard". `Visit` has the refusal, and
  `TypedTextIsKept` excepts it: TLC finds these traces when it does not.
* The proof uses that the host leaves the page after a save, as the Viewer's
  edit page does. With a host that stays, TLC found a history of 19 steps in
  which a late reload raises the fence past a version that the reopened dialog
  does not show, and the next save covers it unseen.
* A verification whose read is pending while a save completes may return the
  dialog to `idle`: a second save of the same text on the user's own version is
  possible. It is harmless, and `NothingOverwrittenUnseen` lets own versions be.

## Not modelled, and what the abstraction leaves out

* A batch of the five operations writes each path once (`entryListRefinement`).
  Chains of versions of one path belong to import.
* `StashStore` and `ChangeSets` take contents as values. How `prepareBlob`
  stores them before the batch, and that the batch inserts and requires their
  row, is in `Collection`. Inline contents, tiers, compression and the readers
  are left out.
* Clock values, authors, messages, metadata, sizes and the size limits are left
  out; no property tells them apart. Validation before the first query is the
  well-formedness of calls.
* The two reads of a commit's target and its key in `revertCommit` are one step:
  sealed commits never change, so nothing that happens between can be told.
* Change sets: the event `onApplied` is left out; get, list and diff change
  nothing. The reads of `stageEntry` are one step per entry, and so are those of
  `approvalConflicts`: what decides whether a change set is applied is asked
  again in the batch.
* Uploads: reading routes, the stream and its size and hash checks (an upload is
  its bytes or fails), the sizes of parts, and the counts of open sessions and
  reserved bytes behind a capacity refusal.
* Collection: the ledger kind, which deletes by age alone (`LedgerExpires` of
  the store; the staging it sweeps is in `Uploads`), budgets of a run, and the
  reports. The `head` requests to R2 are one step with the reading of the clock
  (`ReadCutoff`). "retired" stands for a day and for thirty days after the expiry
  of a proposal.
* Live feed: commit and change-set frames, which only ask for a refresh; hints of
  paths; heartbeats; answers that end a stream for good (401, 403, 404); the
  limit of the memory of duplicates. A refresh of several pages reads what its
  last page finds.
* Editing: history rail, comparison, line endings, metadata, several targets,
  failures of the storage, and the button that proposes a change set.
* Tokens: each operation is one statement or one guarded batch, so interleaving
  adds nothing; what remains is an ambiguous rotation, a hazard without
  property.
* Import: chains of versions in one commit need a `CommitBatch` that writes a
  path more than once, and its proofs generalised.
* The scheduler of the collection is arithmetic on a budget with no state between two
  invocations; `Collection` assumes what it provides.
* The rest of the client library, the UI and the Viewer maps calls to HTTP and
  answers to pictures; documentation and scripts are tooling. These lines are
  most of the repository, and why the modules stand for a seventh of it only.

## Plan

Done: the store, its refinement and proofs; change sets; contents and
collection; upload sessions; the live feed; the save machine.

To come: import chains, by generalising `StashTables`; tokens, for their
ambiguous rotation.
