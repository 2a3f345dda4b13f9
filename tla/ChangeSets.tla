----------------------------- MODULE ChangeSets -----------------------------
(***************************************************************************)
(* Change sets: a proposal of entries that is staged, reviewed, and then   *)
(* applied as one commit or rejected, before it expires.                   *)
(*                                                                         *)
(* Creation, approval and rejection are concurrent requests, whose every   *)
(* query is a step; `now' is read once, when a request starts, and the     *)
(* clock goes on while it works.  Approval writes the tables of            *)
(* StashTables by a batch of its own, whose first statement claims the     *)
(* change set.  Meanwhile others write to the paths, the stash is deleted  *)
(* and restored, calls of batches fail, and the collector removes change   *)
(* sets that were closed or expired long enough ago.                       *)
(***************************************************************************)
EXTENDS StashTables

CONSTANTS
  Requests,     \* requests; a creation mints a change set of its own name
  NoRequest,
  NoHash,       \* the NULL request_hash of a commit made by an approval
  Calls,        \* the calls a request may make: [Requests -> SUBSET Call]
  Writes,       \* what others may write to the stash, each once
  TimeToLive,   \* CHANGE_SET_TTL_DAYS
  Retention,    \* GC_CHANGE_SET_RETENTION_MS
  MaxEntries,   \* MAX_COMMIT_ENTRIES
  MaxClock,     \* bound: the last instant
  MaxLifecycle, \* bound: deletions and restorations of the stash
  MaxFaults     \* bound: batches whose call fails

(* `expires' 0: the caller leaves the expiry to the server.                *)
Call == [call : {"create", "approve", "reject"}, entries : Seq(Entry),
         expires : Nat, since : Nat, whole : BOOLEAN, scope : SUBSET Paths,
         key : Keys \cup {NoKey}, set : Requests \cup {NoRequest}]

WellFormed(c) ==
  /\ c.call = "create" <=> c.entries # <<>>
  /\ c.call = "create" <=> c.set = NoRequest
  /\ \A i \in DOMAIN c.entries : WellFormedEntry(c.entries[i])
  /\ Len(c.entries) <= MaxEntries
  /\ DistinctPaths(c.entries)
  /\ \A i, j \in DOMAIN c.entries :
       c.entries[i].op = "copy" => c.entries[i].fromPath # c.entries[j].path
  /\ c.scope # {} => ~c.whole
  /\ c.call # "create" => c.key = NoKey /\ ~c.whole /\ c.scope = {}

(* The request hash covers the whole call except its key.                  *)
Body(c) == [c EXCEPT !.key = NoKey]

ASSUME ChangeSetsAssumption ==
  /\ NoRequest \notin Requests
  /\ Requests \subseteq CommitIds
  /\ NoHash \in Hashes
  /\ Calls \in [Requests -> SUBSET Call]
  /\ \A r \in Requests : \A c \in Calls[r] : WellFormed(c)
  /\ Writes \subseteq Batch
  /\ \A b \in Writes :
       /\ b.id \notin Requests
       /\ DistinctPaths(b.entries)
       /\ \A i \in DOMAIN b.entries : WellFormedEntry(b.entries[i])
  /\ TimeToLive \in Nat \ {0} /\ Retention \in Nat
  /\ MaxEntries \in Nat \ {0}
  /\ MaxClock \in Nat /\ MaxLifecycle \in Nat /\ MaxFaults \in Nat

VARIABLES
  sets,      \* the change set each creation made, if any
  clock,
  pc,        \* where each request is
  request,   \* the call of each request, NoRequest before it arrives
  now,       \* the clock when it started
  entries,   \* the entries it stages, or read from the change set
  todo,      \* the entries it has yet to look at
  conflicts, \* the paths it found in conflict
  answer,    \* what the client was told
  thrown,    \* requests whose batch call failed
  lifecycle  \* deletions and restorations so far

control == <<pc, request, now, entries, todo, conflicts, answer, thrown>>
vars == <<tables, sets, clock, control, lifecycle>>

(* A collected row is remembered, to say what happened to it.              *)
Statuses == {"absent", "open", "applied", "rejected", "collected"}

SetRow == [status : Statuses, entries : Seq(Entry), expires : Nat,
           since : Nat, whole : BOOLEAN, scope : SUBSET Paths,
           key : Keys \cup {NoKey}, body : Call \cup {NoRequest},
           commit : Requests \cup {NoRequest}, decided : Nat]

NoSet == [status |-> "absent", entries |-> <<>>, expires |-> 0, since |-> 0,
          whole |-> FALSE, scope |-> {}, key |-> NoKey, body |-> NoRequest,
          commit |-> NoRequest, decided |-> 0]

Places == {"idle", "live", "replay", "fence", "stage", "insert", "created",
           "rereplay", "refence", "row", "entries", "newest", "claim", "won",
           "rerow", "reentries", "renewest", "reject", "rejected",
           "unrejected", "done"}

Codes == {"none", "ok", "not-found", "validation", "commit-conflict",
          "idempotency-key-reused", "change-set-closed",
          "change-set-expired", "internal"}

Answer == [code : Codes, set : Requests \cup {NoRequest},
           commit : Requests \cup {NoRequest}]

Refusal(code) == [code |-> code, set |-> NoRequest, commit |-> NoRequest]
Success(s, c) == [code |-> "ok", set |-> s, commit |-> c]
Unanswered == Refusal("none")

Init ==
  /\ TablesInit
  /\ sets = [s \in Requests |-> NoSet]
  /\ clock = 0
  /\ pc = [r \in Requests |-> "idle"]
  /\ request = [r \in Requests |-> NoRequest]
  /\ now = [r \in Requests |-> 0]
  /\ entries = [r \in Requests |-> <<>>]
  /\ todo = [r \in Requests |-> {}]
  /\ conflicts = [r \in Requests |-> {}]
  /\ answer = [r \in Requests |-> Unanswered]
  /\ thrown = {}
  /\ lifecycle = 0

-----------------------------------------------------------------------------
(* Helpers of the handlers.                                                *)

Present(s) == sets[s].status \in {"open", "applied", "rejected"}

(* SELECT_CHANGE_SET joins the stash: a deleted one hides its change sets. *)
Visible(s) == live /\ s \in Requests /\ Present(s)

Target(r) == request[r].set

(* Mutant: the last instant before the expiry is one too late.             *)
ExpiredAfter(s, t) == sets[s].expires < t

Expired(s, t) == sets[s].expires <= t

Keyed(key) == {s \in Requests : Present(s) /\ key # NoKey /\ sets[s].key = key}

(* Mutant: a replay does not compare the request with the first one.       *)
ReplayUnhashed(r, s) == Success(s, NoRequest)

Replay(r, s) ==
  IF sets[s].body = Body(request[r]) THEN Success(s, NoRequest)
  ELSE Refusal("idempotency-key-reused")

Goto(r, place) ==
  /\ pc' = [pc EXCEPT ![r] = place]
  /\ UNCHANGED <<tables, sets, clock, request, now, entries, todo, conflicts,
                 answer, thrown, lifecycle>>

Reply(r, a) ==
  /\ pc' = [pc EXCEPT ![r] = "done"]
  /\ answer' = [answer EXCEPT ![r] = a]
  /\ UNCHANGED <<tables, sets, clock, request, now, entries, todo, conflicts,
                 thrown, lifecycle>>

(* The server mints the id of a change set: nobody names it before.        *)
Arrive(r) ==
  /\ pc[r] = "idle"
  /\ \E c \in Calls[r] :
       /\ c.call # "create" => sets[c.set].status # "absent"
       /\ request' = [request EXCEPT ![r] = c]
       /\ entries' = [entries EXCEPT ![r] = c.entries]
       /\ todo' = [todo EXCEPT ![r] = DOMAIN c.entries]
  /\ now' = [now EXCEPT ![r] = clock]
  /\ pc' = [pc EXCEPT ![r] = "live"]
  /\ UNCHANGED <<tables, sets, clock, conflicts, answer, thrown, lifecycle>>

FirstRead(c) ==
  CASE c.call = "approve" -> "row"
    [] c.call = "reject" -> "reject"
    [] c.call = "create" -> IF c.key = NoKey THEN "fence" ELSE "replay"

CheckLive(r) ==
  /\ pc[r] = "live"
  /\ IF live THEN Goto(r, FirstRead(request[r]))
     ELSE Reply(r, Refusal("not-found"))

-----------------------------------------------------------------------------
(* createChangeSet.                                                        *)

CheckReplay(r) ==
  /\ pc[r] \in {"replay", "rereplay"}
  /\ LET prior == {s \in Keyed(request[r].key) : Visible(s)} IN
     IF prior # {} THEN \E s \in prior : Reply(r, Replay(r, s))
     ELSE Goto(r, IF pc[r] = "replay" THEN "fence" ELSE "refence")

CheckFence(r) ==
  /\ pc[r] = "fence"
  /\ LET c == request[r] IN
     IF ~GateFence(c) THEN Reply(r, Refusal("commit-conflict"))
     ELSE IF c.expires # 0 /\ c.expires <= now[r]
          THEN Reply(r, Refusal("validation"))
          ELSE Goto(r, "stage")

(* The base of an entry must have existed, its source must hold a content. *)
Stageable(e) ==
  /\ e.expected = 0 => files[e.path].version = 0
  /\ e.expected # 0 => RowsAt(e.path, e.expected) # {}
  /\ e.op = "delete" => ~files[e.path].deleted
  /\ e.op \in {"copy", "rollback"} => Restorable(e.fromPath, e.fromVersion)

(* A derived entry records the content that the reviewers are shown.       *)
Staged(e) ==
  IF e.op \in {"copy", "rollback"}
  THEN [e EXCEPT !.content = ContentAt(e.fromPath, e.fromVersion)]
  ELSE e

(* The entries are staged concurrently: in any order.                      *)
Stage(r) ==
  /\ pc[r] = "stage"
  /\ \E i \in todo[r] :
       IF ~Stageable(entries[r][i]) THEN Reply(r, Refusal("validation"))
       ELSE /\ entries' = [entries EXCEPT ![r][i] = Staged(entries[r][i])]
            /\ todo' = [todo EXCEPT ![r] = @ \ {i}]
            /\ pc' = [pc EXCEPT ![r] =
                        IF todo[r] = {i} THEN "insert" ELSE "stage"]
            /\ UNCHANGED <<tables, sets, clock, request, now, conflicts,
                           answer, thrown, lifecycle>>

(* Mutant: the index on the keys of change sets is not unique.             *)
InsertableTwice(r) == live /\ GateFence(request[r])

InsertWins(r) ==
  /\ live
  /\ GateFence(request[r])
  /\ Keyed(request[r].key) = {}

NewSet(r) ==
  [NoSet EXCEPT !.status = "open",
                !.entries = entries[r],
                !.expires = IF request[r].expires # 0 THEN request[r].expires
                            ELSE now[r] + TimeToLive,
                !.since = request[r].since,
                !.whole = request[r].whole,
                !.scope = request[r].scope,
                !.key = request[r].key,
                !.body = Body(request[r])]

CreateSet(r) ==
  /\ InsertWins(r)
  /\ sets' = [sets EXCEPT ![r] = NewSet(r)]
  /\ UNCHANGED tables

(* Mutant: a lost creation does not look for its twin.                     *)
AfterLostInsertAlone(r) == "refence"

AfterLostInsert(r) == IF request[r].key = NoKey THEN "refence" ELSE "rereplay"

Insert(r) ==
  /\ pc[r] = "insert"
  /\ CreateSet(r)
  /\ pc' = [pc EXCEPT ![r] = "created"]
  /\ UNCHANGED <<clock, request, now, entries, todo, conflicts, answer, thrown,
                 lifecycle>>

LoseInsert(r) ==
  /\ pc[r] = "insert"
  /\ ~InsertWins(r)
  /\ Goto(r, AfterLostInsert(r))

(* A new change set that cannot be read back is treated like a lost batch. *)
ReadBack(r) ==
  /\ pc[r] = "created"
  /\ IF Visible(r) THEN Reply(r, Success(r, NoRequest))
     ELSE Goto(r, AfterLostInsert(r))

(* Here the code compares with the newest change of the whole stash, even  *)
(* when the fence is narrowed to a prefix.                                 *)
ExplainInsert(r) ==
  /\ pc[r] = "refence"
  /\ LET c == request[r] IN
     Reply(r, Refusal(IF (c.whole \/ c.scope # {}) /\ ~IsNewestChange(c.since)
                      THEN "commit-conflict" ELSE "internal"))

-----------------------------------------------------------------------------
(* approveChangeSet.                                                       *)

(* appliedResult: the stored decision, as long as its commit is there.     *)
Applied(s) ==
  IF Committed(sets[s].commit) THEN Success(s, sets[s].commit)
  ELSE Refusal("internal")

(* After a lost batch the expiry is not looked at again.                   *)
ReadRow(r) ==
  /\ pc[r] \in {"row", "rerow"}
  /\ LET s == Target(r) IN
     IF ~Visible(s) THEN Reply(r, Refusal("not-found"))
     ELSE IF sets[s].status = "applied" THEN Reply(r, Applied(s))
     ELSE IF sets[s].status # "open"
       THEN Reply(r, Refusal("change-set-closed"))
     ELSE IF pc[r] = "row" /\ Expired(s, now[r])
       THEN Reply(r, Refusal("change-set-expired"))
     ELSE /\ entries' = [entries EXCEPT ![r] = sets[s].entries]
          /\ todo' = [todo EXCEPT ![r] = DOMAIN sets[s].entries]
          /\ pc' = [pc EXCEPT ![r] = IF pc[r] = "row" THEN "entries"
                                     ELSE "reentries"]
          /\ UNCHANGED <<tables, sets, clock, request, now, conflicts, answer,
                         thrown, lifecycle>>

ConflictAnswer(r, paths) ==
  IF \E i \in DOMAIN entries[r] :
       /\ paths = {entries[r][i].path}
       /\ entries[r][i].op = "delete"
       /\ files[entries[r][i].path].version = 0
  THEN Refusal("not-found") ELSE Refusal("commit-conflict")

(* approvalConflicts looks at one entry after the other.                   *)
CheckEntry(r) ==
  /\ pc[r] \in {"entries", "reentries"}
  /\ \E i \in todo[r] :
       LET e == entries[r][i]
           found == conflicts[r] \cup IF GateAccepts(e) THEN {} ELSE {e.path}
       IN /\ \A j \in todo[r] : i <= j
          /\ IF todo[r] # {i}
             THEN /\ todo' = [todo EXCEPT ![r] = @ \ {i}]
                  /\ conflicts' = [conflicts EXCEPT ![r] = found]
                  /\ UNCHANGED <<tables, sets, clock, pc, request, now,
                                 entries, answer, thrown, lifecycle>>
             ELSE IF found # {} THEN Reply(r, ConflictAnswer(r, found))
             ELSE Goto(r, IF pc[r] = "entries" THEN "newest" ELSE "renewest")

CheckNewest(r) ==
  /\ pc[r] \in {"newest", "renewest"}
  /\ IF ~GateFence(sets[Target(r)])
     THEN Reply(r, Refusal("commit-conflict"))
     ELSE IF pc[r] = "newest" THEN Goto(r, "claim")
     ELSE Reply(r, Refusal("internal"))

(* Mutants: the batch leaves the fence to the reads before it, or drops    *)
(* all entries but the first.                                              *)
ClaimBatchUnfenced(r) ==
  [id |-> r, entries |-> entries[r], since |-> 0, whole |-> FALSE,
   scope |-> {}, ledgerKey |-> NoKey, commitKey |-> NoKey, hash |-> NoHash]
ClaimBatchShort(r) ==
  [id |-> r, entries |-> <<entries[r][1]>>, since |-> sets[Target(r)].since,
   whole |-> sets[Target(r)].whole, scope |-> sets[Target(r)].scope,
   ledgerKey |-> NoKey, commitKey |-> NoKey, hash |-> NoHash]

(* The claim is an UPDATE of the open, unexpired row; its remaining tests  *)
(* are those of a gate, and the statements that follow are fenced on it.   *)
Claimable(r) ==
  /\ sets[Target(r)].status = "open"
  /\ ~Expired(Target(r), now[r])

ClaimBatch(r) ==
  LET s == sets[Target(r)] IN
  [id |-> r, entries |-> entries[r],
   since |-> s.since, whole |-> s.whole, scope |-> s.scope,
   ledgerKey |-> NoKey, commitKey |-> NoKey, hash |-> NoHash]

ApplySet(r) ==
  /\ Claimable(r)
  /\ CommitBatch(ClaimBatch(r))
  /\ sets' = [sets EXCEPT ![Target(r)].status = "applied",
                          ![Target(r)].commit = r,
                          ![Target(r)].decided = now[r]]

Claim(r) ==
  /\ pc[r] = "claim"
  /\ ApplySet(r)
  /\ pc' = [pc EXCEPT ![r] = "won"]
  /\ UNCHANGED <<clock, request, now, entries, todo, conflicts, answer, thrown,
                 lifecycle>>

LoseClaim(r) ==
  /\ pc[r] = "claim"
  /\ ~(Claimable(r) /\ Wins(ClaimBatch(r)))
  /\ Goto(r, "rerow")

Respond(r) ==
  /\ pc[r] = "won"
  /\ Reply(r, IF Visible(Target(r)) /\ sets[Target(r)].status = "applied"
              THEN Applied(Target(r)) ELSE Refusal("internal"))

-----------------------------------------------------------------------------
(* rejectChangeSet: an expired change set may still be rejected.           *)

(* Mutant: the update does not ask whether the change set is open.         *)
RejectableClosed(s) == Visible(s)

Rejectable(s) == Visible(s) /\ sets[s].status = "open"

RejectSet(r) ==
  /\ Rejectable(Target(r))
  /\ sets' = [sets EXCEPT ![Target(r)].status = "rejected",
                          ![Target(r)].commit = NoRequest,
                          ![Target(r)].decided = now[r]]
  /\ UNCHANGED tables

Reject(r) ==
  /\ pc[r] = "reject"
  /\ RejectSet(r)
  /\ pc' = [pc EXCEPT ![r] = "rejected"]
  /\ UNCHANGED <<clock, request, now, entries, todo, conflicts, answer, thrown,
                 lifecycle>>

LoseReject(r) ==
  /\ pc[r] = "reject"
  /\ ~Rejectable(Target(r))
  /\ Goto(r, "unrejected")

AnswerReject(r) ==
  /\ pc[r] \in {"rejected", "unrejected"}
  /\ Reply(r, IF ~Visible(Target(r)) THEN Refusal("not-found")
              ELSE IF pc[r] = "rejected" THEN Success(Target(r), NoRequest)
              ELSE Refusal("change-set-closed"))

-----------------------------------------------------------------------------
(* The call of a batch fails, with or without effect.  Creation and        *)
(* approval find out from the tables; a rejection ends with the error.     *)
Throw(r) ==
  /\ pc[r] \in {"insert", "claim", "reject"}
  /\ Cardinality(thrown) < MaxFaults
  /\ thrown' = thrown \cup {r}
  /\ \/ UNCHANGED <<tables, sets>>
     \/ pc[r] = "insert" /\ CreateSet(r)
     \/ pc[r] = "claim" /\ ApplySet(r)
     \/ pc[r] = "reject" /\ RejectSet(r)
  /\ pc' = [pc EXCEPT ![r] = CASE pc[r] = "insert" -> AfterLostInsert(r)
                               [] pc[r] = "claim" -> "rerow"
                               [] pc[r] = "reject" -> "done"]
  /\ answer' = [answer EXCEPT ![r] = IF pc[r] = "reject"
                                     THEN Refusal("internal") ELSE @]
  /\ UNCHANGED <<clock, request, now, entries, todo, conflicts, lifecycle>>

Step(r) ==
  \/ Arrive(r) \/ CheckLive(r)
  \/ CheckReplay(r) \/ CheckFence(r) \/ Stage(r)
  \/ Insert(r) \/ LoseInsert(r) \/ ReadBack(r) \/ ExplainInsert(r)
  \/ ReadRow(r) \/ CheckEntry(r) \/ CheckNewest(r)
  \/ Claim(r) \/ LoseClaim(r) \/ Respond(r)
  \/ Reject(r) \/ LoseReject(r) \/ AnswerReject(r)
  \/ Throw(r)

(* Any other writer of the stash; what it wrote tells that it wrote.       *)
Write ==
  /\ \E b \in Writes : ~Committed(b.id) /\ CommitBatch(b)
  /\ UNCHANGED <<sets, clock, control, lifecycle>>

Lifecycle ==
  /\ lifecycle < MaxLifecycle
  /\ DeleteStash \/ RestoreStash
  /\ lifecycle' = lifecycle + 1
  /\ UNCHANGED <<sets, clock, control>>

Tick ==
  /\ clock < MaxClock
  /\ clock' = clock + 1
  /\ UNCHANGED <<tables, sets, control, lifecycle>>

(* Once a change set is old enough it stays so: whether the page was read  *)
(* earlier does not matter, and the deletion asks again.                   *)
Collectible(s) ==
  \/ sets[s].status = "open" /\ sets[s].expires + Retention <= clock
  \/ sets[s].status = "rejected" /\ sets[s].decided + Retention <= clock

Collect ==
  /\ \E s \in Requests :
       /\ Collectible(s)
       /\ sets' = [sets EXCEPT ![s].status = "collected"]
  /\ UNCHANGED <<tables, clock, control, lifecycle>>

Next ==
  \/ \E r \in Requests : Step(r)
  \/ Write \/ Lifecycle \/ Tick \/ Collect

Spec == Init /\ [][Next]_vars

-----------------------------------------------------------------------------
(* Properties.                                                             *)

(* Every variable has its type.                                            *)
SetsTypeOK ==
  /\ TablesTypeOK
  /\ sets \in [Requests -> SetRow]
  /\ clock \in Nat
  /\ pc \in [Requests -> Places]
  /\ request \in [Requests -> Call \cup {NoRequest}]
  /\ now \in [Requests -> Nat]
  /\ entries \in [Requests -> Seq(Entry)]
  /\ todo \in [Requests -> SUBSET Nat]
  /\ conflicts \in [Requests -> SUBSET Paths]
  /\ answer \in [Requests -> Answer]
  /\ thrown \subseteq Requests
  /\ lifecycle \in Nat

IsApplied(s) == sets[s].status = "applied"

(* A change set is applied exactly when one sealed commit was made for it, *)
(* by an approval of it that began before it expired: "exactly one atomic  *)
(* commit", however many approvals and rejections race.                    *)
AppliedByOneCommit ==
  /\ \A s \in Requests : IsApplied(s) =>
       /\ Committed(sets[s].commit)
       /\ Target(sets[s].commit) = s
       /\ sets[s].decided < sets[s].expires
  /\ \A r \in Requests : Committed(r) =>
       IsApplied(Target(r)) /\ sets[Target(r)].commit = r

(* What is applied is what was staged for review: the same paths, each on  *)
(* the base version that was proposed, with the contents that were shown,  *)
(* although versions are written and copied from by others meanwhile.      *)
AppliedAsReviewed ==
  \A s \in Requests : IsApplied(s) =>
    {<<v.path, v.version, v.content>> : v \in RowsOf(sets[s].commit)}
      = {<<e.path, e.expected + 1, e.content>> :
           e \in {sets[s].entries[i] : i \in DOMAIN sets[s].entries}}

(* The fence a change set was created with holds until it is applied: no   *)
(* change it excludes lies between its cursor and its commit, however long *)
(* the review took.                                                        *)
FenceOutlivesReview ==
  \A s \in Requests : IsApplied(s) =>
    \A v \in versions :
      /\ v.id > sets[s].since
      /\ sets[s].whole \/ v.path \in sets[s].scope
      => \E c \in commits : c.id = sets[s].commit /\ v.id >= c.first

(* A decision is for ever: an applied change set never changes again, and  *)
(* a rejected one is only ever removed by the collector.                   *)
DecisionIsFinal ==
  [][\A s \in Requests :
       /\ IsApplied(s) => sets'[s] = sets[s]
       /\ sets[s].status = "rejected" =>
            sets'[s] \in {sets[s], [sets[s] EXCEPT !.status = "collected"]}]_vars

(* What clients are told stays true: an approval answered with a commit    *)
(* names the one of its change set, an "already closed" or a conflict will *)
(* not turn into a success, and a creation answers with a change set made  *)
(* for the very same request.  Only a rejection whose stash is deleted and *)
(* restored between its queries may be told "closed" of an open one.       *)
ConflictPersists(s) ==
  \/ ~GateFence(sets[s])
  \/ \E i \in DOMAIN sets[s].entries : ~GateAccepts(sets[s].entries[i])

AnswersStayTrue ==
  \A r \in Requests :
    LET s == Target(r) IN
    /\ request[r] # NoRequest /\ answer[r].code = "ok" =>
         CASE request[r].call = "approve" ->
                IsApplied(s) /\ answer[r] = Success(s, sets[s].commit)
           [] request[r].call = "reject" ->
                sets[s].status \in {"rejected", "collected"}
           [] request[r].call = "create" ->
                sets[answer[r].set].body = Body(request[r])
    /\ answer[r].code = "change-set-closed" =>
         \/ sets[s].status \in {"rejected", "collected"}
         \/ request[r].call = "reject" /\ (IsApplied(s) \/ lifecycle > 1)
    /\ answer[r].code = "commit-conflict" /\ request[r].call = "approve" =>
         ConflictPersists(s)

(* Creations under one key that are answered with different change sets    *)
(* are no twins: the first one was collected before the second was made.   *)
KeyNamesOneSet ==
  \A q, r \in Requests :
    /\ answer[q].code = "ok" /\ answer[r].code = "ok"
    /\ request[q].call = "create" /\ request[r].call = "create"
    /\ request[q].key # NoKey /\ request[q].key = request[r].key
    /\ answer[q].set # answer[r].set
    => \E s \in {answer[q].set, answer[r].set} : sets[s].status = "collected"

(* A request is told "internal" only if the call of its batch failed, or   *)
(* the stash was deleted and its change sets collected under its hands:    *)
(* every other race is explained to the client.                            *)
InternalOnlyAfterFault ==
  \A r \in Requests : answer[r].code = "internal" =>
    \/ r \in thrown
    \/ lifecycle > 0
    \/ \E s \in Requests : sets[s].status = "collected"

(* "The prefix fence asks only that no newer change exists under the       *)
(* prefix": a creation with a fence narrowed to some paths is told of a    *)
(* conflict only if one of these paths changed.                            *)
PrefixConflictIsReal ==
  \A r \in Requests :
    /\ answer[r].code = "commit-conflict"
    /\ request[r].call = "create" /\ request[r].scope # {}
    => ChangedSince(request[r].since, request[r].scope)
=============================================================================
