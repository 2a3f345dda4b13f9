------------------------------- MODULE Editing -------------------------------
(***************************************************************************)
(* One file in the edit workbench of the UI: the workbench with its draft, *)
(* the hook that owns the compare-and-swap save, and the dialog in which a *)
(* save is reviewed, against the file as others, too, write it.            *)
(*                                                                         *)
(* Three heads are kept apart: the one that the workbench shows, the fence *)
(* that the next save expects, and the one that the open dialog compares   *)
(* with.  Every answer is applied some time after its request, when the    *)
(* page may have moved on, and a page that is left keeps its draft in the  *)
(* tab's storage only.                                                     *)
(*                                                                         *)
(* A version's body stands for its hash.  The server takes a PUT in one    *)
(* step (StashStore has the steps); the history rail, the comparison, line *)
(* endings and metadata are left out.                                      *)
(***************************************************************************)
EXTENDS Naturals, Sequences

CONSTANTS
  Texts, Empty,  \* drafts; the draft that a deleted file begins with
  Gone,          \* the body of a version that deletes the file
  NoText, NoDraft, NoAttempt, NoReply, NoCheck,
  Scenarios,     \* bounds: how often what happens
  MaxVersions, MaxSaves, MaxVisits, MaxTroubles   \* the most of each

Drafts == Texts \cup {Empty}
Bodies == Drafts \cup {Gone}

Scenario == [versions : 1..MaxVersions, saves : 0..MaxSaves,
             visits : 0..MaxVisits, troubles : 0..MaxTroubles]

Numbers == 1..MaxVersions

(* FrozenSaveAttempt; `shown' is the version that the dialog compared the  *)
(* draft with when the save was confirmed.                                 *)
Attempts == [key : 1..MaxSaves, body : Drafts, expected : Numbers,
             shown : Numbers]

(* A version; of key 0 when somebody else wrote it.                        *)
Versions == [body : Bodies, key : 0..MaxSaves, shown : 0..MaxVersions]

(* WorkbenchDraftRecord; `fence': the head that the page knew when it was  *)
(* stored, which may be older than the source.                             *)
StoredDrafts == [source : Numbers, fence : Numbers, text : Drafts]
Replies == [kind : {"created", "stale", "refused"}, version : Numbers]
Checks == [kind : {"verify", "reconcile"}, expected : Numbers,
           from : Numbers, fresh : BOOLEAN]

(* `asking': the version whose loading waits for the user's consent;       *)
(* `loading': the one being loaded; 0 for none.  `completing': what is     *)
(* left to do after the save of version `completed'.                       *)
Pages == [open : BOOLEAN, head : Numbers, source : Numbers, draft : Drafts,
          asking : {0} \cup Numbers, loading : {0} \cup Numbers,
          completing : {"no", "reading", "refreshing"}, completed : Numbers]

(* `fence': the effective head; `flight': the attempt being sent;          *)
(* `reload': 0, or the head when the reload began, and whether the dialog  *)
(* that began it is still there.  A state "unverified" is an error of the  *)
(* verification.                                                           *)
Machines == [state : {"idle", "saving", "saved", "unchanged", "stale",
                      "error", "unverified"},
             fence : Numbers, retry : Attempts \cup {NoAttempt},
             flight : Attempts \cup {NoAttempt},
             reply : Replies \cup {NoReply},
             reload : {0} \cup Numbers, watched : BOOLEAN,
             check : Checks \cup {NoCheck}]

(* `reloaded': 0, or the version that replaced `review'.                   *)
Dialogs == [open : BOOLEAN, review : Numbers, reloaded : {0} \cup Numbers,
            operation : {"none", "reconcile", "save", "retry", "reload"}]

ASSUME EditingAssumption ==
  /\ Gone \notin Drafts /\ NoText \notin Drafts
  /\ NoDraft \notin StoredDrafts /\ NoAttempt \notin Attempts
  /\ NoReply \notin Replies /\ NoCheck \notin Checks
  /\ Scenarios \subseteq Scenario
  /\ {MaxVersions, MaxSaves, MaxVisits, MaxTroubles} \subseteq Nat
  /\ MaxVersions > 0

VARIABLES
  history,   \* of the file, at the server
  requests,  \* PUTs on their way to it
  stored,    \* the draft in sessionStorage
  page, machine, dialog,
  wanted,    \* what was typed and not yet saved, given up or refused
  saves, visits, troubles, scenario

vars == <<history, requests, stored, page, machine, dialog, wanted,
          saves, visits, troubles, scenario>>

Newest == Len(history)

(* bodyText: a deleted version reads as an empty draft.                    *)
TextOf(v) == IF history[v].body = Gone THEN Empty ELSE history[v].body

NoPage == [open |-> FALSE, head |-> 1, source |-> 1, draft |-> Empty,
           asking |-> 0, loading |-> 0, completing |-> "no", completed |-> 1]

NewMachine(head) ==
  [state |-> "idle", fence |-> head, retry |-> NoAttempt,
   flight |-> NoAttempt, reply |-> NoReply, reload |-> 0, watched |-> FALSE,
   check |-> NoCheck]

NoDialog == [open |-> FALSE, review |-> 1, reloaded |-> 0,
             operation |-> "none"]

Init ==
  /\ scenario \in Scenarios
  /\ \E b \in Texts \cup {Gone} :
       history = <<[body |-> b, key |-> 0, shown |-> 0]>>
  /\ requests = {} /\ stored = NoDraft
  /\ page = NoPage /\ machine = NewMachine(1) /\ dialog = NoDialog
  /\ wanted = NoText
  /\ saves = 0 /\ visits = 0 /\ troubles = 0

Trouble == troubles < scenario.troubles /\ troubles' = troubles + 1

Later(a, b) == IF a >= b THEN a ELSE b

-----------------------------------------------------------------------------
(* The server, and those who write the file elsewhere.                     *)

Written(body, key, shown) ==
  /\ Newest < scenario.versions
  /\ history' = Append(history, [body |-> body, key |-> key, shown |-> shown])

Elsewhere ==
  /\ \E b \in (Texts \cup {Gone}) \ {history[Newest].body} :
       Written(b, 0, 0)
  /\ UNCHANGED <<requests, stored, page, machine, dialog, wanted, saves,
                 visits, troubles>>

(* The page hears of what became of its request only while it waits.       *)
Replied(r, kind, v) ==
  machine' = IF machine.flight = r
             THEN [machine EXCEPT !.reply = [kind |-> kind, version |-> v]]
             ELSE machine

Replay(r) ==
  \E v \in 1..Newest :
    /\ history[v].key = r.key
    /\ Replied(r, "created", v)
    /\ UNCHANGED history

Replayed(r) == \E v \in 1..Newest : history[v].key = r.key

Put(r) ==
  /\ r \in requests
  /\ requests' = requests \ {r}
  /\ \/ Replay(r)
     \/ /\ ~Replayed(r) /\ r.expected = Newest
        /\ Written(r.body, r.key, r.shown)
        /\ Replied(r, "created", Newest + 1)
     \/ /\ ~Replayed(r) /\ r.expected # Newest
        /\ Replied(r, "stale", Newest)
        /\ UNCHANGED history
  /\ UNCHANGED <<stored, page, dialog, wanted, saves, visits, troubles>>

(* An answer such as 403 or 413, for want of a token or of room.           *)
Refuse(r) ==
  /\ r \in requests
  /\ requests' = requests \ {r}
  /\ Trouble
  /\ Replied(r, "refused", Newest)
  /\ UNCHANGED <<history, stored, page, dialog, wanted, saves, visits>>

-----------------------------------------------------------------------------
(* use-workbench.                                                          *)

(* canRestoreDraft, for a visit that asks for version `from' (?from=N), or *)
(* for none (0).                                                           *)
Restorable(from) ==
  /\ stored # NoDraft /\ from \in {0, stored.source}
  /\ stored.source <= stored.fence /\ stored.fence <= Newest
  /\ stored.text # TextOf(stored.source)

(* The head and the source are read together.  A stored draft that cannot  *)
(* be restored is cleared, and with it goes what was typed.                *)
Visit(from) ==
  LET restored == Restorable(from)
      source == IF from # 0 THEN from
                ELSE IF restored THEN stored.source ELSE Newest
  IN /\ ~page.open /\ visits < scenario.visits
     /\ from <= Newest
     /\ visits' = visits + 1
     /\ page' = [NoPage EXCEPT
                   !.open = TRUE, !.head = Newest, !.source = source,
                   !.draft = IF restored THEN stored.text
                             ELSE TextOf(source)]
     /\ machine' = NewMachine(Newest)
     /\ stored' = IF restored THEN stored ELSE NoDraft
     /\ wanted' = IF restored THEN wanted ELSE NoText
     /\ UNCHANGED <<history, requests, dialog, saves, troubles>>

(* The tab is reloaded, or the user goes elsewhere.                        *)
Away == page' = NoPage /\ machine' = NewMachine(1) /\ dialog' = NoDialog

Leave ==
  /\ page.open
  /\ Away
  /\ UNCHANGED <<history, requests, stored, wanted, saves, visits, troubles>>

(* generation += 1: what runs must not speak of what it no longer sees.    *)
Superseded(m) ==
  IF m.check = NoCheck THEN m ELSE [m EXCEPT !.check.fresh = FALSE]

(* The editor is inert under the modal dialog, and disabled while a source *)
(* is loaded or a save completed.                                          *)
Editable ==
  page.open /\ ~dialog.open /\ page.loading = 0 /\ page.completing = "no"

(* handleDraftChange, setDraft.                                            *)
Type(text) ==
  LET dirty == text # TextOf(page.source) IN
  /\ Editable /\ text # page.draft
  /\ page' = [page EXCEPT !.draft = text]
  /\ stored' = IF dirty
               THEN [source |-> page.source, fence |-> page.head,
                     text |-> text]
               ELSE NoDraft
  /\ wanted' = IF dirty THEN text ELSE NoText
  /\ machine' = Superseded(machine)
  /\ UNCHANGED <<history, requests, dialog, saves, visits, troubles>>

(* handleDiscard, discard.                                                 *)
Discarded ==
  /\ page' = [page EXCEPT !.draft = TextOf(page.source), !.asking = 0]
  /\ stored' = NoDraft /\ wanted' = NoText

Discard ==
  /\ Editable
  /\ Discarded
  /\ machine' = Superseded(machine)
  /\ UNCHANGED <<history, requests, dialog, saves, visits, troubles>>

(* requestSource, loadSource: a draft that differs from its source is      *)
(* given up only with the user's consent.                                  *)
RequestSource(v) ==
  /\ page.open /\ ~dialog.open /\ page.loading = 0
  /\ v \in 1..Newest
  /\ page' = IF page.draft = TextOf(page.source)
             THEN [page EXCEPT !.loading = v, !.asking = 0]
             ELSE [page EXCEPT !.asking = v]
  /\ UNCHANGED <<history, requests, stored, machine, dialog, wanted, saves,
                 visits, troubles>>

(* resolveSource.                                                          *)
Resolve(confirmed) ==
  /\ page.asking # 0 /\ ~dialog.open /\ page.loading = 0
  /\ page' = [page EXCEPT !.asking = 0,
                          !.loading = IF confirmed THEN page.asking ELSE 0]
  /\ wanted' = IF confirmed THEN NoText ELSE wanted
  /\ UNCHANGED <<history, requests, stored, machine, dialog, saves, visits,
                 troubles>>

(* performSourceLoad.                                                      *)
SourceLoaded ==
  /\ page.loading # 0
  /\ page' = [page EXCEPT !.source = page.loading, !.loading = 0,
                          !.draft = TextOf(page.loading)]
  /\ stored' = NoDraft
  /\ machine' = IF page.draft = TextOf(page.loading) THEN machine
                ELSE Superseded(machine)
  /\ UNCHANGED <<history, requests, dialog, wanted, saves, visits, troubles>>

SourceFails ==
  /\ page.loading # 0
  /\ page' = [page EXCEPT !.loading = 0]
  /\ Trouble
  /\ UNCHANGED <<history, requests, stored, machine, dialog, wanted, saves,
                 visits>>

-----------------------------------------------------------------------------
(* use-save-machine, as the dialog and the live refresh call it.           *)

Busy ==
  \/ machine.flight # NoAttempt \/ machine.reload # 0
  \/ machine.check # NoCheck

(* Mutant: the frozen attempt outlives its session.                        *)
ResetKeepsRetry(m, head) == [m EXCEPT !.state = "idle", !.fence = head]

(* resetSession; `head' is the one that was last rendered.                 *)
Reset(m, head) ==
  [m EXCEPT !.state = "idle", !.fence = head, !.retry = NoAttempt]

(* runAttempt, up to the request.                                          *)
Run(m, a) ==
  [Superseded(m) EXCEPT !.state = "saving", !.retry = a, !.flight = a,
                        !.reply = NoReply]

(* save: a key of its own and the fence of the moment.                     *)
Display == IF dialog.reloaded = 0 THEN dialog.review ELSE dialog.reloaded

Save(m) ==
  LET a == [key |-> saves + 1, body |-> page.draft,
            expected |-> m.fence, shown |-> Display]
  IN /\ saves < scenario.saves /\ saves' = saves + 1
     /\ requests' = requests \cup {a}
     /\ machine' = Run(m, a)
     /\ dialog' = [dialog EXCEPT !.operation = "save"]

(* The dialog's effect on a completion that it waits for: handleSaved.     *)
Completing(v) ==
  IF dialog.operation \in {"reconcile", "save", "retry"}
     /\ page.completing = "no"
  THEN [page EXCEPT !.completing = "reading", !.completed = v]
  ELSE page

Settled == [dialog EXCEPT !.operation = "none"]

(* The answer to a PUT, in runAttempt.                                     *)
Answered ==
  LET r == machine.reply
      done == [machine EXCEPT !.flight = NoAttempt, !.reply = NoReply,
                              !.retry = NoAttempt]
  IN /\ machine.flight # NoAttempt /\ r # NoReply
     /\ machine' =
          CASE r.kind = "created" ->
                 [Superseded(done) EXCEPT
                    !.state = "saved", !.fence = Later(r.version, done.fence)]
            [] r.kind = "stale" -> [done EXCEPT !.state = "stale"]
            [] r.kind = "refused" -> [done EXCEPT !.state = "error"]
     /\ page' = IF r.kind = "created" THEN Completing(r.version) ELSE page
     /\ dialog' = Settled
     /\ UNCHANGED <<history, requests, stored, wanted, saves, visits,
                    troubles>>

(* The call fails, the request may still arrive.                           *)
Failed ==
  /\ machine.flight # NoAttempt
  /\ Trouble
  /\ machine' = [machine EXCEPT !.state = "error", !.flight = NoAttempt,
                                !.reply = NoReply]
  /\ dialog' = Settled
  /\ UNCHANGED <<history, requests, stored, page, wanted, saves, visits>>

(* verifyCurrentHead, on a change of this path that the page hears of.     *)
Verify ==
  /\ page.open /\ ~Busy
  /\ machine' = [machine EXCEPT
                   !.check = [kind |-> "verify", expected |-> machine.fence,
                              from |-> Newest, fresh |-> TRUE]]
  /\ UNCHANGED <<history, requests, stored, page, dialog, wanted, saves,
                 visits, troubles>>

(* Mutant: the fence follows the head that was verified.                   *)
VerdictFollows(m, v) == [m EXCEPT !.check = NoCheck, !.fence = v]

(* What a verification says of version v: the fence stays where it is.     *)
Verdict(m, v) ==
  IF v # m.check.expected
  THEN [m EXCEPT !.check = NoCheck, !.state = "stale", !.retry = NoAttempt]
  ELSE [m EXCEPT !.check = NoCheck,
                 !.state = IF m.state = "unverified" THEN "idle" ELSE m.state]

Checking(kind) == machine.check # NoCheck /\ machine.check.kind = kind

Verified ==
  /\ Checking("verify")
  /\ \E v \in machine.check.from..Newest :
       machine' = IF machine.check.fresh THEN Verdict(machine, v)
                  ELSE [machine EXCEPT !.check = NoCheck]
  /\ UNCHANGED <<history, requests, stored, page, dialog, wanted, saves,
                 visits, troubles>>

VerifyFails ==
  /\ Checking("verify")
  /\ Trouble
  /\ machine' = [machine EXCEPT !.check = NoCheck,
                   !.state = IF machine.check.fresh THEN "unverified"
                             ELSE machine.state]
  /\ UNCHANGED <<history, requests, stored, page, dialog, wanted, saves,
                 visits>>

-----------------------------------------------------------------------------
(* The review dialog.                                                      *)

SameAs(v) == page.draft = history[v].body

OpenDialog ==
  /\ Editable /\ ~SameAs(page.head) /\ machine.state # "saving"
  /\ dialog' = [NoDialog EXCEPT !.open = TRUE, !.review = page.head]
  /\ UNCHANGED <<history, requests, stored, page, machine, wanted, saves,
                 visits, troubles>>

(* What every button of the dialog waits for.                              *)
Quiet ==
  dialog.open /\ dialog.operation = "none" /\ machine.state # "saving"

(* requestClose.  closeDialog does nothing while a save is completed.      *)
Close ==
  /\ Quiet /\ ~Busy
  /\ machine' = Reset(machine, page.head)
  /\ dialog' = IF page.completing = "no" THEN NoDialog ELSE dialog
  /\ UNCHANGED <<history, requests, stored, page, wanted, saves, visits,
                 troubles>>

(* requestDiscard.                                                         *)
CloseAndDiscard ==
  /\ Quiet /\ ~Busy /\ machine.state = "stale"
  /\ machine' = Reset(machine, page.head)
  /\ IF page.completing = "no"
     THEN dialog' = NoDialog /\ Discarded
     ELSE UNCHANGED <<dialog, page, stored, wanted>>
  /\ UNCHANGED <<history, requests, saves, visits, troubles>>

(* saveFresh, up to the hash of the draft; when the hook is busy reconcile *)
(* says no at once.                                                        *)
Confirm ==
  /\ Quiet /\ machine.state = "idle" /\ ~SameAs(Display)
  /\ IF Busy
     THEN Save(machine)
     ELSE /\ machine' = [machine EXCEPT
                 !.check = [kind |-> "reconcile", expected |-> machine.fence,
                            from |-> Newest, fresh |-> TRUE]]
          /\ dialog' = [dialog EXCEPT !.operation = "reconcile"]
          /\ UNCHANGED <<requests, saves>>
  /\ UNCHANGED <<history, stored, page, wanted, visits, troubles>>

(* reconcile, and the rest of saveFresh, which gives up when the draft or  *)
(* the head was rendered anew, or its dialog is gone.                      *)
Reconciled ==
  LET m == [machine EXCEPT !.check = NoCheck]
      check == machine.check
  IN /\ Checking("reconcile")
     /\ IF check.fresh /\ SameAs(check.expected)
        THEN /\ machine' = [m EXCEPT !.state = "unchanged",
                                     !.retry = NoAttempt]
             /\ page' = Completing(check.expected)
             /\ dialog' = Settled
             /\ UNCHANGED <<requests, saves>>
        ELSE IF check.fresh /\ dialog.operation = "reconcile"
        THEN Save(m) /\ UNCHANGED page
        ELSE /\ machine' = m /\ dialog' = Settled
             /\ UNCHANGED <<requests, page, saves>>
     /\ UNCHANGED <<history, stored, wanted, visits, troubles>>

(* retryFrozenAttempt: the attempt as it was first sent.                   *)
Retry ==
  /\ Quiet /\ machine.state \in {"error", "unverified"}
  /\ machine.retry # NoAttempt
  /\ machine.flight = NoAttempt /\ machine.reload = 0
  /\ machine' = Run(machine, machine.retry)
  /\ requests' = requests \cup {machine.retry}
  /\ dialog' = [dialog EXCEPT !.operation = "retry"]
  /\ UNCHANGED <<history, stored, page, wanted, saves, visits, troubles>>

(* reloadAndCompare.                                                       *)
Reload ==
  /\ Quiet /\ machine.state = "stale" /\ machine.reload = 0
  /\ machine' = [Superseded(machine) EXCEPT
                   !.retry = NoAttempt, !.reload = Newest, !.watched = TRUE]
  /\ dialog' = [dialog EXCEPT !.operation = "reload"]
  /\ UNCHANGED <<history, requests, stored, page, wanted, saves, visits,
                 troubles>>

(* The workbench takes the record as its head and as the fence of what it  *)
(* stored (afterStaleReload); the dialog, if it is still the one that      *)
(* asked, shows it.                                                        *)
Reloaded ==
  /\ machine.reload # 0
  /\ \E v \in machine.reload..Newest :
       /\ machine' = [Superseded(machine) EXCEPT
                        !.state = "idle", !.fence = Later(v, machine.fence),
                        !.reload = 0, !.watched = FALSE]
       /\ page' = [page EXCEPT !.head = Later(v, page.head)]
       /\ stored' = IF stored # NoDraft /\ v >= page.head
                    THEN [stored EXCEPT !.fence = v] ELSE stored
       /\ dialog' = IF machine.watched
                    THEN [Settled EXCEPT !.reloaded = v] ELSE dialog
  /\ UNCHANGED <<history, requests, wanted, saves, visits, troubles>>

ReloadFails ==
  /\ machine.reload # 0
  /\ Trouble
  /\ machine' = [machine EXCEPT !.state = "error", !.reload = 0,
                                !.watched = FALSE]
  /\ dialog' = IF machine.watched THEN Settled ELSE dialog
  /\ UNCHANGED <<history, requests, stored, page, wanted, saves, visits>>

-----------------------------------------------------------------------------
(* handleSaved of the edit workbench.                                      *)

(* The record of the saved version becomes head, source and draft          *)
(* (afterSaved); the session is reset, unless the hook is busy, and the    *)
(* new head then rendered; the dialog goes.                                *)
Adopt ==
  LET v == page.completed
      newer == v >= page.head
      m == IF Busy THEN machine ELSE Reset(machine, page.head)
  IN /\ page.completing = "reading"
     /\ page' = IF newer
                THEN [page EXCEPT
                        !.head = v, !.source = v, !.draft = TextOf(v),
                        !.asking = 0, !.loading = 0,
                        !.completing = "refreshing"]
                ELSE [page EXCEPT !.asking = 0, !.completing = "refreshing"]
     /\ stored' = IF newer THEN NoDraft ELSE stored
     /\ wanted' = IF newer /\ wanted = TextOf(v) THEN NoText ELSE wanted
     /\ machine' = IF newer
                   THEN [Superseded(m) EXCEPT
                           !.fence = Later(v, m.fence), !.watched = FALSE]
                   ELSE [m EXCEPT !.watched = FALSE]
     /\ dialog' = NoDialog
     /\ UNCHANGED <<history, requests, saves, visits, troubles>>

AdoptFails ==
  /\ page.completing = "reading"
  /\ Trouble
  /\ page' = [page EXCEPT !.completing = "no"]
  /\ UNCHANGED <<history, requests, stored, machine, dialog, wanted, saves,
                 visits>>

(* The history rail is read again, and the host is told: the Viewer        *)
(* navigates to the file's page.                                           *)
Refreshed ==
  /\ page.completing = "refreshing"
  /\ Away
  /\ UNCHANGED <<history, requests, stored, wanted, saves, visits, troubles>>

-----------------------------------------------------------------------------
ServerStep == \/ Elsewhere
              \/ \E r \in requests : Put(r) \/ Refuse(r)

WorkbenchStep ==
  \/ \E v \in {0} \cup Numbers : Visit(v)
  \/ Leave \/ Discard
  \/ \E t \in Texts : Type(t)
  \/ \E v \in Numbers : RequestSource(v)
  \/ \E c \in BOOLEAN : Resolve(c)
  \/ SourceLoaded \/ SourceFails

MachineStep == Answered \/ Failed \/ Verify \/ Verified \/ VerifyFails

DialogStep ==
  \/ OpenDialog \/ Close \/ CloseAndDiscard \/ Confirm \/ Reconciled
  \/ Retry \/ Reload \/ Reloaded \/ ReloadFails

CompletionStep == Adopt \/ AdoptFails \/ Refreshed

Next ==
  /\ \/ ServerStep \/ WorkbenchStep \/ MachineStep \/ DialogStep
     \/ CompletionStep
  /\ UNCHANGED scenario

Spec == Init /\ [][Next]_vars

-----------------------------------------------------------------------------
(* The type invariant.                                                     *)
EditingTypeOK ==
  /\ history \in Seq(Versions) /\ Len(history) \in Numbers
  /\ requests \subseteq Attempts
  /\ stored \in StoredDrafts \cup {NoDraft}
  /\ page \in Pages /\ machine \in Machines /\ dialog \in Dialogs
  /\ wanted \in Drafts \cup {NoText}
  /\ saves \in 0..MaxSaves /\ visits \in 0..MaxVisits
  /\ troubles \in 0..MaxTroubles /\ scenario \in Scenarios

(* "Save v5 on top of v4": whatever the late answers of verifications,     *)
(* reloads, retries and completed saves did to the fence meanwhile, a save *)
(* never covers a version of somebody else that is newer than the one its  *)
(* user compared the draft with.                                           *)
NothingOverwrittenUnseen ==
  \A v \in 1..Newest :
    history[v].key # 0 =>
      \A u \in (history[v].shown + 1)..(v - 1) : history[u].key # 0

(* What the user typed stays in the editor, or in the tab's storage while  *)
(* the page is away, until it is saved, the user gives it up, or a later   *)
(* visit refuses to restore it: because its source was newer than the head *)
(* that the page knew, or because the visit asks for another source.  No   *)
(* late answer, retry or completion of another save replaces it, and       *)
(* nothing else takes it from storage.                                     *)
TypedTextIsKept ==
  wanted # NoText =>
    IF page.open THEN page.draft = wanted
    ELSE stored # NoDraft /\ stored.text = wanted
=============================================================================
