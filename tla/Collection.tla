----------------------------- MODULE Collection -----------------------------
(***************************************************************************)
(* What a stash stores for its contents, and the collector that removes    *)
(* what nobody needs: rows of contents, R2 objects, and change sets past   *)
(* their retention (the ledger's pages only delete by age; the staging     *)
(* they also sweep is in Uploads).                                         *)
(*                                                                         *)
(* A writer puts an object under a fresh key first and refers to it from   *)
(* D1 in a later transaction: nothing but time keeps the collector, which  *)
(* reads the references first and deletes later, away from it.  A          *)
(* collector works page by page under a lease in D1 that it may lose while *)
(* it goes on; R2 knows nothing of leases.                                 *)
(*                                                                         *)
(* A writer makes at most one object, and they share a number: keys and    *)
(* contents are numbers in the order in which pages list them.  Inline     *)
(* contents are rows without an object and are left out.  Time passes in   *)
(* ticks where a comparison of times protects something (the age of an     *)
(* object); ages of a day or a month are reached at any moment.            *)
(***************************************************************************)
EXTENDS Naturals, FiniteSets

CONSTANTS
  Writers, Contents, Legacy, \* Legacy: the contents of table blobs
  Collectors, Nobody, Gone,
  Scenarios,
  PageLimit,
  OrphanAge,   \* GC_ORPHAN_MIN_AGE_MS
  WriteTime,   \* the platform's limit on a request: from object to reference
  QueryTime,   \* from reading the references to reading the clock
  MaxTroubles  \* bound: the troubles of any scenario

Kinds == {"r2-orphans", "content", "change-sets"}
Modes == {"write", "proposal", "upload", "multipart",
          "none",   \* a writer that does not come
          "orphan"} \* one that has come and left an object behind

Phases(kind) ==
  CASE kind = "r2-orphans" -> {"objects"}
    [] kind = "content" -> {"blobs", "byte_blobs"}
    [] kind = "change-sets" -> {"expired", "rejected"}

(* A cursor is after a key of the page's phase; 0 is before all of them.   *)
NoCursor == [phase |-> "none", after |-> 0]
Items == Writers \cup Contents
CursorsOf(kind) ==
  {NoCursor} \cup [phase : Phases(kind), after : {0} \cup Items]
Cursors == UNION {CursorsOf(kind) : kind \in Kinds}

(* "scheduled": run by the cron trigger again and again; "dry", "manual":  *)
(* one request of an administrator, the latter with a cursor of its own.   *)
Plan == [kind : Kinds, sort : {"scheduled", "dry", "manual"}, cursor : Cursors]

(* `troubles', a bound: calls that fail, collectors that die, and leases   *)
(* that lapse under living ones, all together.                             *)
Scenario ==
  [ask : [Writers -> [mode : Modes, content : Contents]],
   plan : [Collectors -> Plan], troubles : 0..MaxTroubles]

(* The margin the code relies on: a writer refers to its object, and a     *)
(* collector reads the clock after its query, within the minimum age.      *)
ASSUME CollectionAssumption ==
  /\ Writers \subseteq Nat \ {0} /\ Contents \subseteq Nat \ {0}
  /\ Legacy \subseteq Contents
  /\ Nobody \notin Writers \cup Collectors /\ Gone \notin Collectors
  /\ Gone # Nobody
  /\ Scenarios \subseteq Scenario
  /\ \A s \in Scenarios : \A c \in Collectors :
       s.plan[c].cursor \in CursorsOf(s.plan[c].kind)
  /\ PageLimit \in Nat \ {0} /\ MaxTroubles \in Nat
  /\ OrphanAge \in Nat /\ WriteTime \in Nat /\ QueryTime \in Nat
  /\ WriteTime + QueryTime <= OrphanAge

VARIABLES
  row,       \* blobs and byte_blobs: the object each content's row names
  aged,      \* contents whose row is past the content age
  versions,  \* contents that a version refers to
  proposal,  \* the change set of a writer that proposes
  session,   \* the upload session of a writer that uploads
  object,    \* R2: the age of each object
  place,     \* of each writer
  ask, plan,
  cursor, owner, lapsed, \* gc_jobs: next_cursor, the lease, lapsed leases
  at,        \* of each collector
  from, next, found, \* of its page: input cursor, next cursor, candidates
  waited,    \* since it read the references
  troubles

store == <<row, aged, versions, proposal, session, object, place>>
jobs == <<cursor, owner, lapsed>>
pages == <<at, from, next, found, waited>>
fixed == <<ask, plan>>
vars == <<store, jobs, pages, fixed, troubles>>

NoObject == OrphanAge + 1 + 1
Ages == 0..OrphanAge + 1    \* the last one is any older age

Stored(w) == object[w] # NoObject

(* "retired": a day and more after its expiry.  When exactly the retention *)
(* of 30 days has passed, for those and for the rejected, is left open.    *)
Statuses == {"none", "open", "expired", "retired", "rejected", "applied",
             "collected"}

Init ==
  /\ row = [h \in Contents |-> Nobody]
  /\ aged = {} /\ versions = {}
  /\ proposal = [w \in Writers |-> "none"]
  /\ session = [w \in Writers |-> "none"]
  /\ \E s \in Scenarios : ask = s.ask /\ plan = s.plan /\ troubles = s.troubles
  /\ object = [w \in Writers |-> IF ask[w].mode = "orphan" THEN OrphanAge + 1
                                 ELSE NoObject]
  /\ place = [w \in Writers |-> IF ask[w].mode = "orphan" THEN "done"
                                ELSE "idle"]
  /\ cursor = [k \in Kinds |-> NoCursor]
  /\ owner = [k \in Kinds |-> Nobody]
  /\ lapsed = {}
  /\ at = [c \in Collectors |-> "idle"]
  /\ from = [c \in Collectors |-> NoCursor]
  /\ next = [c \in Collectors |-> NoCursor]
  /\ found = [c \in Collectors |-> {}]
  /\ waited = [c \in Collectors |-> 0]

-----------------------------------------------------------------------------
(* Writers.                                                                *)

(* Put a spilled body under a fresh key.                                   *)
Store(w) ==
  /\ place[w] = "idle"
  /\ \/ ask[w].mode \in {"write", "proposal"}
     \/ ask[w].mode = "upload" /\ session[w] = "open"
  /\ object' = [object EXCEPT ![w] = 0]
  /\ place' = [place EXCEPT ![w] = "stored"]
  /\ UNCHANGED <<row, aged, versions, proposal, session>>

(* The statements of a batch that keep a body: the row that is there stays *)
(* (ON CONFLICT DO NOTHING), and the object of a second one is an orphan.  *)
KeepRow(w) ==
  LET h == ask[w].content
  IN  IF row[h] = Nobody
      THEN row' = [row EXCEPT ![h] = w] /\ aged' = aged \ {h}
      ELSE UNCHANGED <<row, aged>>

Finished(w) == place' = [place EXCEPT ![w] = "done"]

(* put, commit and import: the batch, when it is applied.                  *)
Write(w) ==
  /\ place[w] = "stored" /\ ask[w].mode = "write"
  /\ KeepRow(w)
  /\ versions' = versions \cup {ask[w].content}
  /\ Finished(w)
  /\ UNCHANGED <<proposal, session, object>>

(* createChangeSet: the batch, when it is applied.                         *)
Propose(w) ==
  /\ place[w] = "stored" /\ ask[w].mode = "proposal"
  /\ KeepRow(w)
  /\ proposal' = [proposal EXCEPT ![w] = "open"]
  /\ Finished(w)
  /\ UNCHANGED <<versions, session, object>>

(* The batch is refused, or the request dies before it: an orphan is left. *)
(* A refused upload tries to delete its object.                            *)
GiveUp(w) ==
  /\ place[w] = "stored"
  /\ \/ UNCHANGED object
     \/ ask[w].mode = "upload" /\ object' = [object EXCEPT ![w] = NoObject]
  /\ Finished(w)
  /\ UNCHANGED <<row, aged, versions, proposal, session>>

(* The claim of an approval asks that the row is there.  An approval that  *)
(* read the clock before the expiry may claim a moment after it.           *)
Approve(w) ==
  /\ proposal[w] \in {"open", "expired"}
  /\ row[ask[w].content] # Nobody
  /\ proposal' = [proposal EXCEPT ![w] = "applied"]
  /\ versions' = versions \cup {ask[w].content}
  /\ UNCHANGED <<row, aged, session, object, place>>

(* A rejection does not look at the expiry.                                *)
Reject(w) ==
  /\ proposal[w] \in {"open", "expired", "retired"}
  /\ proposal' = [proposal EXCEPT ![w] = "rejected"]
  /\ UNCHANGED <<row, aged, versions, session, object, place>>

(* A session is opened; that of a multipart upload is bound to its key.    *)
OpenSession(w) ==
  /\ session[w] = "none" /\ place[w] = "idle"
  /\ \/ ask[w].mode = "upload" /\ session' = [session EXCEPT ![w] = "open"]
     \/ ask[w].mode = "multipart" /\ session' = [session EXCEPT ![w] = "held"]
  /\ UNCHANGED <<row, aged, versions, proposal, object, place>>

(* recordStagedObject: upload_objects names the object.                    *)
Record(w) ==
  /\ place[w] = "stored" /\ session[w] = "open"
  /\ session' = [session EXCEPT ![w] = "held"]
  /\ Finished(w)
  /\ UNCHANGED <<row, aged, versions, proposal, object>>

(* The parts are assembled: the object appears under the bound key.        *)
Assemble(w) ==
  /\ session[w] = "held" /\ place[w] = "idle"
  /\ object' = [object EXCEPT ![w] = 0]
  /\ Finished(w)
  /\ UNCHANGED <<row, aged, versions, proposal, session>>

(* uploadFinalizeBatch: row, version and the end of the session at once.   *)
Finalize(w) ==
  /\ session[w] = "held" /\ place[w] = "done"
  /\ KeepRow(w)
  /\ versions' = versions \cup {ask[w].content}
  /\ session' = [session EXCEPT ![w] = "ended"]
  /\ UNCHANGED <<proposal, object, place>>

(* Aborted, expired, stale, failed or unchanged.  A multipart completion   *)
(* that has not assembled its parts loses its claim on them.               *)
EndSession(w) ==
  /\ session[w] \in {"open", "held"}
  /\ session' = [session EXCEPT ![w] = "ended"]
  /\ place' = [place EXCEPT ![w] = IF @ = "idle" THEN "done" ELSE @]
  /\ UNCHANGED <<row, aged, versions, proposal, object>>

Settle(w) == Write(w) \/ Propose(w) \/ Record(w) \/ GiveUp(w)

WriterStep(w) ==
  /\ \/ Store(w) \/ Settle(w) \/ Approve(w) \/ Reject(w)
     \/ OpenSession(w) \/ Assemble(w) \/ Finalize(w) \/ EndSession(w)
  /\ UNCHANGED <<jobs, pages, fixed, troubles>>

-----------------------------------------------------------------------------
(* What the collector takes for garbage.                                   *)

(* Mutant: the sessions are left out of the query.                         *)
ReferencedByRows(w) == \E h \in Contents : row[h] = w

(* referencedR2Keys                                                        *)
Referenced(w) ==
  \/ \E h \in Contents : row[h] = w
  \/ session[w] = "held"

Old(w) == Stored(w) /\ object[w] > OrphanAge

(* unreferencedPredicate: the same in the selection and in the deletion.   *)
Collectable(h) ==
  /\ row[h] # Nobody /\ h \in aged
  /\ h \notin versions
  /\ \A w \in Writers : ask[w].content = h =>
       proposal[w] \notin {"open", "expired"} /\ session[w] \notin {"open", "held"}

Listed(phase) ==
  CASE phase = "objects" -> {w \in Writers : Stored(w)}
    [] phase = "blobs" -> {h \in Legacy : Collectable(h)}
    [] phase = "byte_blobs" -> {h \in Contents \ Legacy : Collectable(h)}
    [] phase = "expired" -> {w \in Writers : proposal[w] = "retired"}
    [] phase = "rejected" -> {w \in Writers : proposal[w] = "rejected"}

-----------------------------------------------------------------------------
(* A page: GcEngine.run.                                                   *)

Kind(c) == plan[c].kind
Dry(c) == plan[c].sort = "dry"
Holds(c) == owner[Kind(c)] = c

FirstPhase(kind) ==
  CASE kind = "r2-orphans" -> "objects"
    [] kind = "content" -> "blobs"
    [] kind = "change-sets" -> "expired"

PhaseAfter(phase) ==
  CASE phase = "blobs" -> [phase |-> "byte_blobs", after |-> 0]
    [] phase = "expired" -> [phase |-> "rejected", after |-> 0]
    [] OTHER -> NoCursor

Decoded(c) ==
  IF from[c] = NoCursor THEN [phase |-> FirstPhase(Kind(c)), after |-> 0]
  ELSE from[c]

(* The rest of the phase after the cursor, and its first page.             *)
Rest(c) == {x \in Listed(Decoded(c).phase) : x > Decoded(c).after}
Page(c) == {x \in Rest(c) : Cardinality({y \in Rest(c) : y < x}) < PageLimit}

Last(S) == {x \in S : \A y \in S : y <= x}

(* Mutant: the second phase gets a cursor made for another kind.           *)
AfterPageMixed(c) ==
  IF Rest(c) = Page(c)
  THEN {IF Decoded(c).phase \in {"blobs", "expired"}
        THEN [phase |-> "byte_blobs", after |-> 0] ELSE NoCursor}
  ELSE [phase : {Decoded(c).phase}, after : Last(Page(c))]

(* The cursor of the next page: the same phase after the last item, or the *)
(* next phase, or none.                                                    *)
AfterPage(c) ==
  IF Rest(c) = Page(c)
  THEN {PhaseAfter(Decoded(c).phase)}
  ELSE [phase : {Decoded(c).phase}, after : Last(Page(c))]

Goto(c, a) == at' = [at EXCEPT ![c] = a]

(* The run is over.  A lease that it did not release stays with an owner   *)
(* that no longer exists.  (Owners are uuids, so owner and generation, of  *)
(* which the fences ask both, say the same: the run that took the lease.)  *)
Ended(c) ==
  /\ Goto(c, IF plan[c].sort = "scheduled" THEN "idle" ELSE "over")
  /\ from' = [from EXCEPT ![c] = NoCursor]
  /\ next' = [next EXCEPT ![c] = NoCursor]
  /\ found' = [found EXCEPT ![c] = {}]
  /\ waited' = [waited EXCEPT ![c] = 0]

Leaves(c) ==
  /\ Ended(c)
  /\ owner' = [k \in Kinds |-> IF owner[k] = c THEN Gone ELSE owner[k]]
  /\ UNCHANGED <<cursor, lapsed>>

Acquire(c) ==
  /\ at[c] = "idle"
  /\ owner[Kind(c)] = Nobody \/ Kind(c) \in lapsed
  /\ owner' = [owner EXCEPT ![Kind(c)] = c]
  /\ lapsed' = lapsed \ {Kind(c)}
  /\ from' = [from EXCEPT ![c] = IF plan[c].sort = "manual" THEN plan[c].cursor
                                 ELSE cursor[Kind(c)]]
  /\ Goto(c, "start")
  /\ UNCHANGED <<cursor, next, found, waited>>

(* insertRun is fenced; a lease that is lost ends the run.                 *)
StartRun(c) ==
  /\ at[c] = "start"
  /\ IF Holds(c)
     THEN /\ Goto(c, "page")
          /\ UNCHANGED <<jobs, from, next, found, waited>>
     ELSE Leaves(c)

(* BLOBS.list, contentPage or changeSetPage.                               *)
ReadPage(c) ==
  /\ at[c] = "page"
  /\ found' = [found EXCEPT ![c] = Page(c)]
  /\ \E cur \in AfterPage(c) : next' = [next EXCEPT ![c] = cur]
  /\ Goto(c, IF Kind(c) = "r2-orphans" THEN "references" ELSE "heartbeat")
  /\ UNCHANGED <<jobs, from, waited>>

ReadReferences(c) ==
  /\ at[c] = "references"
  /\ found' = [found EXCEPT ![c] = {w \in @ : ~Referenced(w)}]
  /\ Goto(c, "cutoff")
  /\ UNCHANGED <<jobs, from, next, waited>>

(* The clock is read, and every old object is looked at again: keys are    *)
(* never used twice, so that only tells which are deleted meanwhile.       *)
ReadCutoff(c) ==
  /\ at[c] = "cutoff"
  /\ found' = [found EXCEPT ![c] = {w \in @ : Old(w)}]
  /\ waited' = [waited EXCEPT ![c] = 0]
  /\ Goto(c, "heartbeat")
  /\ UNCHANGED <<jobs, from, next>>

Heartbeat(c) ==
  /\ at[c] = "heartbeat"
  /\ IF Holds(c)
     THEN /\ lapsed' = lapsed \ {Kind(c)}
          /\ Goto(c, IF Dry(c) \/ found[c] = {} THEN "finish" ELSE "delete")
          /\ UNCHANGED <<cursor, owner, from, next, found, waited>>
     ELSE Leaves(c)

(* The deletion of D1 rows is fenced, and asks the predicate again; that   *)
(* of R2 objects can do neither.  `some' is what it gets to.               *)
Deletion(c, some) ==
  CASE Kind(c) = "r2-orphans" ->
         /\ object' = [w \in Writers |->
                         IF w \in some THEN NoObject ELSE object[w]]
         /\ UNCHANGED <<row, aged, proposal>>
    [] Kind(c) = "content" ->
         LET gone == {h \in some : Holds(c) /\ Collectable(h)}
         IN  /\ row' = [h \in Contents |->
                          IF h \in gone THEN Nobody ELSE row[h]]
             /\ aged' = aged \ gone
             /\ UNCHANGED <<object, proposal>>
    [] Kind(c) = "change-sets" ->
         /\ proposal' = [w \in Writers |->
              IF Holds(c) /\ w \in some \cap Listed(Decoded(c).phase)
              THEN "collected" ELSE proposal[w]]
         /\ UNCHANGED <<object, row, aged>>

Delete(c) ==
  /\ at[c] = "delete"
  /\ Deletion(c, found[c])
  /\ Goto(c, "finish")
  /\ UNCHANGED <<versions, session, place, jobs, from, next, found, waited>>

(* Mutant: finishRunBatch without its fence.                               *)
FinishUnfenced(c) ==
  /\ at[c] = "finish"
  /\ cursor' = [cursor EXCEPT ![Kind(c)] = IF Dry(c) THEN @ ELSE next[c]]
  /\ owner' = [owner EXCEPT ![Kind(c)] = Nobody]
  /\ lapsed' = lapsed \ {Kind(c)}
  /\ Ended(c)

(* Mutant: a page that found nothing keeps the cursor where it was.        *)
FinishStalls(c) ==
  /\ at[c] = "finish"
  /\ IF Holds(c)
     THEN /\ cursor' = [cursor EXCEPT ![Kind(c)] =
                          IF Dry(c) \/ found[c] = {} THEN @ ELSE next[c]]
          /\ owner' = [owner EXCEPT ![Kind(c)] = Nobody]
          /\ lapsed' = lapsed \ {Kind(c)}
          /\ Ended(c)
     ELSE Leaves(c)

(* finishRunBatch                                                          *)
Finish(c) ==
  /\ at[c] = "finish"
  /\ IF Holds(c)
     THEN /\ cursor' = [cursor EXCEPT ![Kind(c)] = IF Dry(c) THEN @ ELSE next[c]]
          /\ owner' = [owner EXCEPT ![Kind(c)] = Nobody]
          /\ lapsed' = lapsed \ {Kind(c)}
          /\ Ended(c)
     ELSE Leaves(c)

(* finishError: the lease is released, the cursor stays.                   *)
FinishError(c) ==
  /\ at[c] = "error"
  /\ IF Holds(c)
     THEN /\ owner' = [owner EXCEPT ![Kind(c)] = Nobody]
          /\ lapsed' = lapsed \ {Kind(c)}
          /\ Ended(c)
          /\ UNCHANGED cursor
     ELSE Leaves(c)

PageStep(c) ==
  \/ Acquire(c) \/ StartRun(c) \/ ReadPage(c) \/ ReadReferences(c)
  \/ ReadCutoff(c) \/ Heartbeat(c) \/ Finish(c) \/ FinishError(c)

CollectorStep(c) ==
  /\ \/ PageStep(c) /\ UNCHANGED store
     \/ Delete(c)
  /\ UNCHANGED <<fixed, troubles>>

-----------------------------------------------------------------------------
(* Troubles, and time.                                                     *)

(* A call inside the try block throws; a deletion may have got somewhere,  *)
(* and the last batch may have been applied.                               *)
CallFails(c) ==
  \/ /\ at[c] \in {"page", "references", "cutoff", "heartbeat", "finish"}
     /\ Goto(c, "error")
     /\ waited' = [waited EXCEPT ![c] = 0]
     /\ UNCHANGED <<store, jobs, from, next, found>>
  \/ /\ at[c] = "delete"
     /\ \E some \in SUBSET found[c] : Deletion(c, some)
     /\ Goto(c, "error")
     /\ UNCHANGED <<versions, session, place, jobs, from, next, found, waited>>

Dies(c) ==
  /\ at[c] \notin {"idle", "over"}
  /\ Leaves(c)
  /\ UNCHANGED store

(* The lease of a collector that is merely slow.                           *)
Slow(k) ==
  /\ owner[k] \in Collectors /\ k \notin lapsed
  /\ lapsed' = lapsed \cup {k}
  /\ UNCHANGED <<store, pages, cursor, owner>>

Trouble ==
  /\ troubles > 0
  /\ troubles' = troubles - 1
  /\ \/ \E c \in Collectors : CallFails(c) \/ Dies(c)
     \/ \E k \in Kinds : Slow(k)
  /\ UNCHANGED fixed

Lapse(k) ==
  /\ owner[k] = Gone /\ k \notin lapsed
  /\ lapsed' = lapsed \cup {k}
  /\ UNCHANGED <<store, pages, cursor, owner, fixed, troubles>>

(* A request does not outlive WriteTime, nor a query QueryTime.            *)
Tick ==
  /\ \A w \in Writers : place[w] = "stored" => object[w] < WriteTime
  /\ \A c \in Collectors : at[c] = "cutoff" => waited[c] < QueryTime
  /\ object' = [w \in Writers |->
                  IF object[w] <= OrphanAge THEN object[w] + 1 ELSE object[w]]
  /\ waited' = [c \in Collectors |->
                  IF at[c] = "cutoff" THEN waited[c] + 1 ELSE waited[c]]
  /\ UNCHANGED <<row, aged, versions, proposal, session, place, jobs,
                 at, from, next, found, fixed, troubles>>

(* A day after a row was written (the age of one that a version refers to  *)
(* is never asked again: versions stay).                                   *)
RowAges(h) ==
  /\ row[h] # Nobody /\ h \notin aged \cup versions
  /\ aged' = aged \cup {h}
  /\ UNCHANGED <<row, versions, proposal, session, object, place, jobs, pages,
                 fixed, troubles>>

(* The expiry of a change set, and a day later.                            *)
ProposalAges(w) ==
  /\ proposal[w] \in {"open", "expired"}
  /\ proposal' = [proposal EXCEPT ![w] = IF @ = "open" THEN "expired"
                                         ELSE "retired"]
  /\ UNCHANGED <<row, aged, versions, session, object, place, jobs, pages,
                 fixed, troubles>>

(* What comes with time alone.                                             *)
Passing ==
  \/ \E w \in Writers : ProposalAges(w)
  \/ \E h \in Contents : RowAges(h)
  \/ \E k \in Kinds : Lapse(k)

Next ==
  \/ \E w \in Writers : WriterStep(w)
  \/ \E c \in Collectors : CollectorStep(c)
  \/ Passing \/ Tick \/ Trouble

Spec == Init /\ [][Next]_vars

(* Requests end, the cron trigger fires for ever and what it starts goes   *)
(* on (a step that dies or fails is a trouble, of which there are finitely *)
(* many), and time passes: strongly, for what disables a tick is only the  *)
(* short moment in which a request or a query has reached its limit.       *)
Fairness ==
  /\ WF_vars(\E w \in Writers :
               Settle(w) /\ UNCHANGED <<jobs, pages, fixed, troubles>>)
  /\ \A c \in Collectors : WF_vars(CollectorStep(c))
  /\ WF_vars(Passing)
  /\ SF_vars(Tick)

FairSpec == Spec /\ Fairness

-----------------------------------------------------------------------------
(* Properties.                                                             *)

(* The values of the variables; a stored cursor is one that decodeGcCursor *)
(* accepts for its kind, so that no kind is stuck on a cursor for ever.    *)
CollectionTypeOK ==
  /\ row \in [Contents -> Writers \cup {Nobody}]
  /\ aged \subseteq Contents /\ versions \subseteq Contents
  /\ proposal \in [Writers -> Statuses]
  /\ session \in [Writers -> {"none", "open", "held", "ended"}]
  /\ object \in [Writers -> Ages \cup {NoObject}]
  /\ place \in [Writers -> {"idle", "stored", "done"}]
  /\ ask \in [Writers -> [mode : Modes, content : Contents]]
  /\ plan \in [Collectors -> Plan]
  /\ owner \in [Kinds -> Collectors \cup {Nobody, Gone}]
  /\ lapsed \subseteq Kinds
  /\ at \in [Collectors -> {"idle", "start", "page", "references", "cutoff",
                            "heartbeat", "delete", "finish", "error", "over"}]
  /\ waited \in [Collectors -> 0..QueryTime]
  /\ troubles \in Nat
  /\ cursor \in [Kinds -> Cursors] /\ \A k \in Kinds : cursor[k] \in CursorsOf(k)
  /\ found \in [Collectors -> SUBSET Items]
  /\ from \in [Collectors -> Cursors] /\ next \in [Collectors -> Cursors]
  /\ \A c \in Collectors :
       from[c] \in CursorsOf(Kind(c)) /\ next[c] \in CursorsOf(Kind(c))

(* The bytes of every version, of every change set that can still be       *)
(* approved and of every session that can still be completed are there,    *)
(* whatever collectors, late ones and dead ones included, did meanwhile.   *)
NothingNeededIsCollected ==
  /\ \A h \in versions : row[h] # Nobody
  /\ \A h \in Contents : row[h] # Nobody => Stored(row[h])
  /\ \A w \in Writers :
       /\ proposal[w] \in {"open", "expired"} => row[ask[w].content] # Nobody
       /\ session[w] = "held" /\ place[w] = "done" => Stored(w)

(* Pages form a chain: a stored cursor is replaced only by the successor   *)
(* of the page that began at it, unless an administrator names another     *)
(* beginning; a collector that lost its lease, or a dry run, writes none.  *)
PagesFormAChain ==
  [][\A k \in Kinds : cursor'[k] # cursor[k] =>
       \E c \in Collectors :
         /\ Kind(c) = k /\ at[c] = "finish" /\ at'[c] # "finish" /\ ~Dry(c)
         /\ plan[c].sort = "manual" \/ from[c] = cursor[k]
         /\ cursor'[k] = next[c]]_vars

(* Garbage goes, if the cron trigger runs its kind: an object that nothing *)
(* refers to or still may refer to, a row that nobody needs, a change set  *)
(* past its retention.  Dead collectors and failed pages only delay it.    *)
Abandoned(w) == Stored(w) /\ place[w] = "done" /\ ~Referenced(w)
Scheduled(kind) ==
  \E c \in Collectors : plan[c].kind = kind /\ plan[c].sort = "scheduled"

GarbageGoes ==
  /\ \A w \in Writers :
       /\ (Scheduled("r2-orphans") /\ Abandoned(w)) ~> ~Stored(w)
       /\ (Scheduled("change-sets") /\ proposal[w] \in {"retired", "rejected"})
            ~> proposal[w] = "collected"
  /\ \A h \in Contents :
       (Scheduled("content") /\ Collectable(h)) ~> ~Collectable(h)
=============================================================================
