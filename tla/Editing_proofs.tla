--------------------------- MODULE Editing_proofs ---------------------------
(***************************************************************************)
(* For any number of versions, saves, visits and troubles: no save covers  *)
(* what its user has not seen, and what was typed gets lost in one way     *)
(* only, when a visit refuses a stored draft for its source.               *)
(***************************************************************************)
EXTENDS Editing, TLAPS

Known == 1..Newest

(* Every version that the page speaks of has been written.                 *)
KnownInv ==
  /\ stored # NoDraft => {stored.source, stored.fence} \subseteq Known
  /\ page.head \in Known /\ page.source \in Known
  /\ page.completed \in Known
  /\ {page.asking, page.loading} \subseteq {0} \cup Known
  /\ machine.fence \in Known /\ machine.reload \in {0} \cup Known
  /\ machine.check # NoCheck =>
       machine.check.expected \in Known /\ machine.check.from \in Known
  /\ machine.reply # NoReply => machine.reply.version \in Known
  /\ dialog.review \in Known /\ dialog.reloaded \in {0} \cup Known

Sent == requests \cup ({machine.flight, machine.retry} \ {NoAttempt})

(* What lies between a version that was shown and one that was expected is *)
(* the editor's own.                                                       *)
Covered(shown, expected) == \A u \in (shown + 1)..expected : history[u].key # 0

(* A key names one attempt, and what it has written.                       *)
KeysInv ==
  /\ \A a \in Sent : /\ a.key <= saves /\ a.expected <= Newest
                     /\ Covered(a.shown, a.expected)
  /\ \A a, b \in Sent : a.key = b.key => a = b
  /\ \A v \in 1..Newest : history[v].key <= saves
  /\ \A a \in Sent, v \in 1..Newest :
       history[v].key = a.key =>
         history[v].body = a.body /\ history[v].shown = a.shown

ReplyInv ==
  machine.reply # NoReply /\ machine.reply.kind = "created" =>
    history[machine.reply.version].key = machine.flight.key

Stands == machine.check # NoCheck /\ machine.check.fresh

(* A save lives in a dialog, and what runs excludes the rest.              *)
SessionInv ==
  /\ ~page.open =>
       page = NoPage /\ machine = NewMachine(1) /\ dialog = NoDialog
  /\ dialog.open =>
       page.open /\ page.completing # "refreshing" /\ page.loading = 0
  /\ ~dialog.open => dialog.operation = "none"
  /\ page.open /\ ~dialog.open /\ page.completing # "refreshing" =>
       /\ page.completing = "no" /\ machine.fence = page.head
       /\ machine.retry = NoAttempt /\ machine.flight = NoAttempt
       /\ machine.reload = 0 /\ ~Checking("reconcile")
  /\ machine.flight # NoAttempt =>
       /\ machine.retry = machine.flight /\ machine.reload = 0
       /\ machine.state = "saving" /\ ~Stands /\ ~Checking("reconcile")
  /\ machine.reload # 0 => machine.retry = NoAttempt /\ ~Stands

(* What the open dialog shows against what the hook holds.                 *)
ReviewInv ==
  dialog.open =>
    /\ page.head <= Display /\ Covered(Display, machine.fence)
    /\ machine.reload # 0 =>
         /\ machine.watched /\ dialog.operation = "reload"
         /\ machine.fence <= machine.reload /\ page.head <= machine.reload
    /\ machine.retry # NoAttempt =>
         /\ machine.retry.shown = Display
         /\ wanted # NoText => machine.retry.body = wanted
    /\ Checking("reconcile") => dialog.operation = "reconcile"

DraftInv ==
  wanted # NoText =>
    /\ stored # NoDraft /\ stored.text = wanted
    /\ TextOf(stored.source) # wanted
    /\ page.open => /\ page.draft = wanted /\ page.source = stored.source
                    /\ page.loading = 0
    /\ page.completing = "reading" => TextOf(page.completed) = wanted

EditingInv ==
  /\ EditingTypeOK /\ KnownInv /\ KeysInv /\ ReplyInv
  /\ SessionInv /\ ReviewInv /\ DraftInv
  /\ NothingOverwrittenUnseen

-----------------------------------------------------------------------------
LEMMA NumbersAre ==
  /\ Numbers = 1..MaxVersions /\ MaxVersions \in Nat \ {0}
  /\ MaxSaves \in Nat /\ MaxVisits \in Nat /\ MaxTroubles \in Nat
BY EditingAssumption DEF Numbers

LEMMA ScenarioIs ==
  ASSUME scenario \in Scenarios
  PROVE  /\ scenario.versions \in 1..MaxVersions
         /\ scenario.saves \in 0..MaxSaves
         /\ scenario.visits \in 0..MaxVisits
         /\ scenario.troubles \in 0..MaxTroubles
BY EditingAssumption DEF Scenario

LEMMA HistoryIs ==
  ASSUME EditingTypeOK
  PROVE  /\ Newest \in Numbers /\ Newest \in Nat /\ Newest >= 1
         /\ \A v \in 1..Newest :
              /\ v \in Numbers /\ history[v] \in Versions
              /\ history[v].key \in Nat /\ history[v].shown \in Nat
              /\ history[v].body \in Bodies /\ TextOf(v) \in Drafts
<1>1. Newest \in Numbers /\ Newest \in Nat /\ Newest >= 1
  BY NumbersAre DEF EditingTypeOK, Newest
<1>2. \A v \in 1..Newest : v \in Numbers /\ history[v] \in Versions
  BY NumbersAre, <1>1 DEF EditingTypeOK, Newest
<1>3. \A x \in Versions : x.key \in Nat /\ x.shown \in Nat /\ x.body \in Bodies
  BY NumbersAre DEF Versions
<1> QED BY <1>1, <1>2, <1>3 DEF TextOf, Bodies, Drafts

LEMMA InitHolds == ASSUME Init PROVE EditingInv
<1>1. PICK b \in Texts \cup {Gone} :
        history = <<[body |-> b, key |-> 0, shown |-> 0]>>
  BY DEF Init
<1>2. /\ requests = {} /\ stored = NoDraft /\ page = NoPage
      /\ machine = NewMachine(1) /\ dialog = NoDialog /\ wanted = NoText
      /\ saves = 0 /\ visits = 0 /\ troubles = 0 /\ scenario \in Scenarios
  BY DEF Init
<1>3. Newest = 1 /\ history[1].key = 0 /\ history[1].shown = 0
  BY <1>1 DEF Newest
<1>4. EditingTypeOK
  <2>1. [body |-> b, key |-> 0, shown |-> 0] \in Versions
    BY NumbersAre DEF Versions, Bodies, Drafts
  <2>2. history \in Seq(Versions) /\ Len(history) \in Numbers
    BY <1>1, <2>1, NumbersAre
  <2>3. NoPage \in Pages BY NumbersAre DEF Pages, NoPage, Drafts
  <2>4. NewMachine(1) \in Machines BY NumbersAre DEF Machines, NewMachine
  <2>5. NoDialog \in Dialogs BY NumbersAre DEF Dialogs, NoDialog
  <2> QED BY <1>2, <2>2, <2>3, <2>4, <2>5, NumbersAre DEF EditingTypeOK
<1>5. KnownInv
  BY <1>2, <1>3 DEF KnownInv, Known, NoPage, NewMachine, NoDialog
<1>6. KeysInv
  <2>1. Sent = {} BY <1>2 DEF Sent, NewMachine
  <2> QED BY <1>2, <1>3, <2>1 DEF KeysInv
<1>7. ReplyInv BY <1>2 DEF ReplyInv, NewMachine
<1>8. SessionInv
  BY <1>2 DEF SessionInv, NoPage, NewMachine, NoDialog, Stands, Checking
<1>9. ReviewInv /\ DraftInv BY <1>2 DEF ReviewInv, DraftInv, NoDialog
<1>10. NothingOverwrittenUnseen BY <1>3 DEF NothingOverwrittenUnseen
<1> QED
  BY <1>4, <1>5, <1>6, <1>7, <1>8, <1>9, <1>10 DEF EditingInv

-----------------------------------------------------------------------------
(* The history only grows.                                                 *)
LEMMA Grows ==
  ASSUME EditingTypeOK, NEW e \in Versions, Newest < MaxVersions,
         history' = Append(history, e)
  PROVE  /\ Newest' = Newest + 1 /\ Newest' \in Numbers
         /\ history' \in Seq(Versions)
         /\ \A v \in 1..Newest : history'[v] = history[v]
         /\ \A v \in 1..Newest : TextOf(v)' = TextOf(v)
         /\ history'[Newest + 1] = e
         /\ Known \subseteq Known'
<1>1. history \in Seq(Versions) /\ Newest \in Nat
  BY HistoryIs DEF EditingTypeOK
<1>2. /\ Newest' = Newest + 1 /\ history' \in Seq(Versions)
      /\ history'[Newest + 1] = e
  BY <1>1 DEF Newest
<1>3. \A v \in 1..Newest : history'[v] = history[v]
  BY <1>1 DEF Newest
<1>4. \A v \in 1..Newest : TextOf(v)' = TextOf(v)
  BY <1>3 DEF TextOf
<1>5. Newest' \in Numbers
  BY <1>1, <1>2, NumbersAre
<1>6. Known \subseteq Known'
  BY <1>1, <1>2 DEF Known
<1> QED BY <1>2, <1>3, <1>4, <1>5, <1>6

LEMMA KeysKept ==
  ASSUME KeysInv, UNCHANGED <<history, saves>>, Sent' \subseteq Sent
  PROVE  KeysInv'
BY DEF KeysInv, Covered, Newest

LEMMA NothingKept ==
  ASSUME NothingOverwrittenUnseen, UNCHANGED history
  PROVE  NothingOverwrittenUnseen'
BY DEF NothingOverwrittenUnseen, Newest

(* A step that leaves the server alone has the parts about the page left.  *)
LEMMA PageSteps ==
  ASSUME EditingInv, UNCHANGED <<history, saves, scenario>>,
         Sent' \subseteq Sent,
         requests' \subseteq Attempts, visits' \in 0..MaxVisits,
         troubles' \in 0..MaxTroubles,
         stored' \in StoredDrafts \cup {NoDraft}, page' \in Pages,
         machine' \in Machines, dialog' \in Dialogs,
         wanted' \in Drafts \cup {NoText},
         KnownInv', ReplyInv', SessionInv', ReviewInv', DraftInv'
  PROVE  EditingInv'
<1>1. EditingTypeOK' BY DEF EditingInv, EditingTypeOK
<1>2. KeysInv' BY KeysKept DEF EditingInv
<1>3. NothingOverwrittenUnseen' BY NothingKept DEF EditingInv
<1> QED BY <1>1, <1>2, <1>3 DEF EditingInv

LEMMA TroubleIs ==
  ASSUME EditingTypeOK, Trouble PROVE troubles' \in 0..MaxTroubles
BY ScenarioIs, NumbersAre DEF EditingTypeOK, Trouble

-----------------------------------------------------------------------------
(* The server.                                                             *)

(* A machine that heard of a reply, or did not.                            *)
Heard(m, n, kind, v) ==
  n = m \/ n = [m EXCEPT !.reply = [kind |-> kind, version |-> v]]

LEMMA HeardIs ==
  ASSUME NEW m \in Machines, NEW n,
         NEW kind \in {"created", "stale", "refused"},
         NEW v \in Numbers, Heard(m, n, kind, v)
  PROVE  /\ n \in Machines
         /\ n.state = m.state /\ n.fence = m.fence /\ n.retry = m.retry
         /\ n.flight = m.flight /\ n.reload = m.reload
         /\ n.watched = m.watched /\ n.check = m.check
         /\ n = m \/ n.reply = [kind |-> kind, version |-> v]
BY DEF Heard, Machines, Replies

LEMMA GrownRange ==
  ASSUME EditingTypeOK, Newest' = Newest + 1
  PROVE  \A v \in 1..Newest' : v \in 1..Newest \/ v = Newest + 1
<1>1. Newest \in Nat BY HistoryIs
<1> QED BY <1>1

LEMMA CoveredGrows ==
  ASSUME EditingTypeOK, \A v \in 1..Newest : history'[v] = history[v],
         NEW low \in Nat, NEW high \in Nat, high <= Newest,
         Covered(low, high)
  PROVE  \A u \in (low + 1)..high : history'[u].key # 0
<1>1. Newest \in Nat BY HistoryIs
<1> SUFFICES ASSUME NEW u \in (low + 1)..high PROVE history'[u].key # 0
  OBVIOUS
<1>2. u \in 1..Newest BY <1>1
<1> QED BY <1>2 DEF Covered

(* What a new version must not disturb.                                    *)
LEMMA GrowthKeeps ==
  ASSUME EditingInv, NEW e \in Versions, Newest < MaxVersions,
         history' = Append(history, e), requests' \subseteq requests,
         Heard(machine, machine', "created", Newest + 1),
         machine' # machine => page.open /\ machine.flight.key = e.key,
         e.key <= saves,
         \A a \in Sent : e.key = a.key => e.body = a.body /\ e.shown = a.shown,
         e.key # 0 => Covered(e.shown, Newest),
         UNCHANGED <<stored, page, dialog, wanted, saves, visits, troubles,
                     scenario>>
  PROVE  EditingInv'
<1>1. /\ Newest' = Newest + 1 /\ Newest' \in Numbers
      /\ history' \in Seq(Versions)
      /\ \A v \in 1..Newest : history'[v] = history[v]
      /\ \A v \in 1..Newest : TextOf(v)' = TextOf(v)
      /\ history'[Newest + 1] = e
      /\ Known \subseteq Known'
  BY Grows DEF EditingInv
<1>2. /\ machine' \in Machines
      /\ machine'.state = machine.state /\ machine'.fence = machine.fence
      /\ machine'.retry = machine.retry /\ machine'.flight = machine.flight
      /\ machine'.reload = machine.reload
      /\ machine'.watched = machine.watched
      /\ machine'.check = machine.check
      /\ \/ machine' = machine
         \/ machine'.reply = [kind |-> "created", version |-> Newest + 1]
  BY <1>1, HeardIs DEF EditingInv, EditingTypeOK
<1>3. Newest \in Nat /\ Newest >= 1 /\ saves \in Nat
  BY HistoryIs, NumbersAre DEF EditingInv, EditingTypeOK
<1>12. \A v \in 1..Newest' : v \in 1..Newest \/ v = Newest + 1
  BY <1>1, GrownRange DEF EditingInv
<1>13. EditingTypeOK /\ \A v \in 1..Newest : history'[v] = history[v]
  BY <1>1 DEF EditingInv
<1>4. EditingTypeOK'
  BY <1>1, <1>2 DEF EditingInv, EditingTypeOK, Newest
<1>5. KnownInv'
  <2>1. Newest + 1 \in Known' BY <1>1, <1>3 DEF Known
  <2> QED BY <1>1, <1>2, <2>1 DEF EditingInv, KnownInv
<1>6. KeysInv'
  <2>1. Sent' \subseteq Sent BY <1>2 DEF Sent
  <2>2. ASSUME NEW a \in Sent
        PROVE  /\ a.key <= saves /\ a.expected <= Newest
               /\ a.expected \in Nat /\ a.shown \in Nat
               /\ Covered(a.shown, a.expected)
    <3>1. a \in Attempts
      BY DEF Sent, EditingInv, EditingTypeOK, Machines
    <3> QED BY <3>1, NumbersAre DEF Attempts, EditingInv, KeysInv
  <2>3. ASSUME NEW a \in Sent PROVE Covered(a.shown, a.expected)'
    <3>1. \A u \in (a.shown + 1)..a.expected : history'[u].key # 0
      BY <1>1, <2>2, CoveredGrows DEF EditingInv
    <3> QED BY <3>1 DEF Covered
  <2>4. \A v \in 1..Newest' : history'[v].key <= saves
    BY <1>1, <1>12 DEF EditingInv, KeysInv
  <2>5. ASSUME NEW a \in Sent, NEW v \in 1..Newest',
               history'[v].key = a.key
        PROVE  history'[v].body = a.body /\ history'[v].shown = a.shown
    <3>1. CASE v \in 1..Newest
      <4>1. history'[v] = history[v] BY <1>1, <3>1
      <4>2. \A b \in Sent, w \in 1..Newest :
              history[w].key = b.key =>
                history[w].body = b.body /\ history[w].shown = b.shown
        BY DEF EditingInv, KeysInv
      <4> QED BY <2>5, <3>1, <4>1, <4>2
    <3>2. CASE v = Newest + 1 BY <1>1, <2>5, <3>2
    <3> QED BY <1>12, <2>5, <3>1, <3>2
  <2>6. \A a \in Sent : a.key <= saves /\ a.expected <= Newest'
    BY <1>1, <1>3, <2>2
  <2>7. \A a, b \in Sent : a.key = b.key => a = b
    BY DEF EditingInv, KeysInv
  <2> QED
    BY <2>1, <2>3, <2>4, <2>5, <2>6, <2>7 DEF KeysInv
<1>7. ReplyInv'
  <2>1. CASE machine' = machine
    BY <1>1, <2>1 DEF EditingInv, ReplyInv, KnownInv, Known
  <2>2. CASE machine' # machine
    <3>1. /\ machine'.reply.version = Newest + 1
          /\ machine'.flight.key = e.key /\ history'[Newest + 1].key = e.key
      BY <1>1, <1>2, <2>2
    <3> QED BY <3>1 DEF ReplyInv
  <2> QED BY <2>1, <2>2
<1>8. SessionInv'
  <2>1. ~page.open => machine' = machine
    OBVIOUS
  <2> QED BY <1>2, <2>1 DEF EditingInv, SessionInv, Stands, Checking
<1>9. ReviewInv'
  <2>1. machine.fence \in 1..Newest /\ Display \in 0..Newest
    BY <1>3 DEF EditingInv, KnownInv, Known, Display
  <2>2. ASSUME Covered(Display, machine.fence)
        PROVE  Covered(Display, machine.fence)'
    <3>2. Display \in Nat /\ machine.fence \in Nat /\ machine.fence <= Newest
      BY <1>3, <2>1
    <3>1. \A u \in (Display + 1)..machine.fence : history'[u].key # 0
      BY <1>13, <2>2, <3>2, CoveredGrows
    <3> QED BY <1>2, <3>1 DEF Covered, Display
  <2> QED
    BY <1>2, <2>2 DEF EditingInv, ReviewInv, Display, Checking
<1>10. DraftInv'
  BY <1>1 DEF EditingInv, DraftInv, KnownInv, Known
<1>11. NothingOverwrittenUnseen'
  <2>1. ASSUME NEW v \in 1..Newest', history'[v].key # 0,
               NEW u \in (history'[v].shown + 1)..(v - 1)
        PROVE  history'[u].key # 0
    <3>1. CASE v = Newest + 1
      <4>1. e.key # 0 /\ e.shown \in Nat /\ u \in (e.shown + 1)..Newest
        <5>1. e.shown \in Nat BY NumbersAre DEF Versions
        <5>2. v - 1 = Newest BY <1>3, <3>1
        <5> QED BY <1>1, <2>1, <3>1, <5>1, <5>2
      <4>2. \A w \in (e.shown + 1)..Newest : history'[w].key # 0
        <5>1. e.shown \in Nat /\ Newest <= Newest /\ Covered(e.shown, Newest)
          BY <1>3, <4>1
        <5> QED BY <1>3, <1>13, <5>1, CoveredGrows
      <4> QED BY <4>1, <4>2
    <3>2. CASE v \in 1..Newest
      <4>1. history'[v] = history[v] /\ history[v].shown \in Nat
        BY <1>1, <3>2, HistoryIs DEF EditingInv
      <4>2. u \in 1..Newest BY <1>3, <3>2, <4>1
      <4> QED
        BY <1>1, <2>1, <3>2, <4>1, <4>2
           DEF EditingInv, NothingOverwrittenUnseen
    <3> QED BY <1>12, <3>1, <3>2
  <2> QED BY <2>1 DEF NothingOverwrittenUnseen
<1> QED
  BY <1>4, <1>5, <1>6, <1>7, <1>8, <1>9, <1>10, <1>11 DEF EditingInv

LEMMA ElsewhereKeeps ==
  ASSUME EditingInv, Elsewhere, UNCHANGED scenario
  PROVE  EditingInv'
<1>1. PICK b \in Bodies : /\ Newest < scenario.versions
                         /\ history' = Append(history, [body |-> b, key |-> 0,
                                                        shown |-> 0])
  BY DEF Elsewhere, Written, Bodies, Drafts
<1> DEFINE e == [body |-> b, key |-> 0, shown |-> 0]
<1>2. e \in Versions /\ e.key = 0
  BY NumbersAre DEF Versions
<1>3. Newest < MaxVersions
  BY <1>1, ScenarioIs, NumbersAre, HistoryIs DEF EditingInv, EditingTypeOK
<1>4. \A a \in Sent : a.key # 0
  <2>1. Sent \subseteq Attempts
    BY DEF Sent, EditingInv, EditingTypeOK, Machines
  <2>2. \A a \in Attempts : a.key # 0 BY NumbersAre DEF Attempts
  <2> QED BY <2>1, <2>2
<1>5. 0 <= saves BY NumbersAre DEF EditingInv, EditingTypeOK
<1>6. /\ history' = Append(history, e) /\ requests' = requests
      /\ machine' = machine
      /\ UNCHANGED <<stored, page, dialog, wanted, saves, visits, troubles>>
  BY <1>1 DEF Elsewhere
<1>7. Heard(machine, machine', "created", Newest + 1) BY <1>6 DEF Heard
<1> HIDE DEF e
<1> QED BY <1>2, <1>3, <1>4, <1>5, <1>6, <1>7, GrowthKeeps

(* An answer that is on its way changes nothing else.                      *)
LEMMA ReplyKeeps ==
  ASSUME EditingInv, requests' \subseteq requests,
         NEW kind \in {"created", "stale", "refused"}, NEW v \in 1..Newest,
         Heard(machine, machine', kind, v),
         machine' # machine => page.open,
         machine' # machine /\ kind = "created" =>
           history[v].key = machine.flight.key,
         troubles' \in 0..MaxTroubles,
         UNCHANGED <<history, stored, page, dialog, wanted, saves, visits,
                     scenario>>
  PROVE  EditingInv'
<1>1. v \in Numbers BY HistoryIs DEF EditingInv
<1>2. /\ machine' \in Machines
      /\ machine'.state = machine.state /\ machine'.fence = machine.fence
      /\ machine'.retry = machine.retry /\ machine'.flight = machine.flight
      /\ machine'.reload = machine.reload
      /\ machine'.watched = machine.watched
      /\ machine'.check = machine.check
      /\ \/ machine' = machine
         \/ machine'.reply = [kind |-> kind, version |-> v]
  BY <1>1, HeardIs DEF EditingInv, EditingTypeOK
<1>3. Sent' \subseteq Sent BY <1>2 DEF Sent
<1>4. Newest' = Newest /\ Known' = Known BY DEF Newest, Known
<1>5. KnownInv'
  <2>1. machine'.reply # NoReply => machine'.reply.version \in Known
    BY <1>2 DEF EditingInv, KnownInv, Known
  <2> QED BY <1>2, <1>4, <2>1 DEF EditingInv, KnownInv
<1>6. ReplyInv'
  <2>1. CASE machine' = machine BY <2>1 DEF EditingInv, ReplyInv
  <2>2. CASE machine' # machine
    <3>1. machine'.reply.kind = kind /\ machine'.reply.version = v
      BY <1>2, <2>2
    <3> QED BY <1>2, <2>2, <3>1 DEF ReplyInv
  <2> QED BY <2>1, <2>2
<1>7. SessionInv' BY <1>2 DEF EditingInv, SessionInv, Stands, Checking
<1>8. ReviewInv'
  BY <1>2 DEF EditingInv, ReviewInv, Display, Checking, Covered
<1>9. DraftInv' BY DEF EditingInv, DraftInv, TextOf
<1> QED
  BY <1>2, <1>3, <1>5, <1>6, <1>7, <1>8, <1>9, PageSteps
     DEF EditingInv, EditingTypeOK

LEMMA OpenWhileSent ==
  ASSUME EditingInv, machine.flight # NoAttempt PROVE page.open
BY DEF EditingInv, SessionInv, NewMachine

LEMMA PutKeeps ==
  ASSUME EditingInv, NEW r \in requests, Put(r), UNCHANGED scenario
  PROVE  EditingInv'
<1>1. r \in Attempts /\ r \in Sent /\ r # NoAttempt
  BY EditingAssumption DEF Sent, EditingInv, EditingTypeOK
<1>2. requests' \subseteq requests
      /\ UNCHANGED <<stored, page, dialog, wanted, saves, visits, troubles>>
  BY DEF Put
<1>3. Newest \in Nat /\ Newest >= 1 BY HistoryIs DEF EditingInv
<1>4. CASE Replay(r)
  <2>1. PICK v \in 1..Newest : /\ history[v].key = r.key
                              /\ Replied(r, "created", v)
                              /\ history' = history
    BY <1>4 DEF Replay
  <2>2. Heard(machine, machine', "created", v)
    BY <2>1 DEF Replied, Heard
  <2>3. machine' # machine => machine.flight = r BY <2>1 DEF Replied
  <2>4. machine' # machine => page.open BY <1>1, <2>3, OpenWhileSent
  <2>5. troubles' \in 0..MaxTroubles
    BY <1>2 DEF EditingInv, EditingTypeOK
  <2> QED BY <1>2, <2>1, <2>2, <2>3, <2>4, <2>5, ReplyKeeps
<1>5. CASE /\ r.expected = Newest /\ ~Replayed(r)
           /\ Written(r.body, r.key, r.shown)
           /\ Replied(r, "created", Newest + 1)
  <2> DEFINE e == [body |-> r.body, key |-> r.key, shown |-> r.shown]
  <2>1. history' = Append(history, e) /\ Newest < MaxVersions
    BY <1>5, ScenarioIs, NumbersAre, HistoryIs
       DEF Written, EditingInv, EditingTypeOK
  <2>2. e \in Versions
    BY <1>1, NumbersAre DEF Attempts, Versions, Bodies
  <2>3. machine' # machine => machine.flight = r BY <1>5 DEF Replied
  <2>4. machine' # machine => page.open /\ machine.flight.key = e.key
    BY <1>1, <2>3, OpenWhileSent
  <2>5. Heard(machine, machine', "created", Newest + 1)
    BY <1>5 DEF Replied, Heard
  <2>6. e.key <= saves /\ Covered(e.shown, Newest)
    BY <1>1, <1>5 DEF EditingInv, KeysInv
  <2>7. \A a \in Sent :
          e.key = a.key => e.body = a.body /\ e.shown = a.shown
    BY <1>1 DEF EditingInv, KeysInv
  <2> HIDE DEF e
  <2> QED
    BY <1>2, <2>1, <2>2, <2>4, <2>5, <2>6, <2>7, GrowthKeeps
<1>6. CASE Replied(r, "stale", Newest) /\ history' = history
  <2>1. Heard(machine, machine', "stale", Newest)
    BY <1>6 DEF Replied, Heard
  <2>2. machine' # machine => page.open
    BY <1>1, <1>6, OpenWhileSent DEF Replied
  <2>3. troubles' \in 0..MaxTroubles /\ Newest \in 1..Newest
    BY <1>2, <1>3 DEF EditingInv, EditingTypeOK
  <2> QED BY <1>2, <1>6, <2>1, <2>2, <2>3, ReplyKeeps
<1> QED BY <1>4, <1>5, <1>6 DEF Put

LEMMA RefuseKeeps ==
  ASSUME EditingInv, NEW r \in requests, Refuse(r), UNCHANGED scenario
  PROVE  EditingInv'
<1>1. r # NoAttempt
  BY EditingAssumption DEF EditingInv, EditingTypeOK
<1>2. /\ requests' \subseteq requests /\ Trouble
      /\ Replied(r, "refused", Newest)
      /\ UNCHANGED <<history, stored, page, dialog, wanted, saves, visits>>
  BY DEF Refuse
<1>3. Newest \in 1..Newest BY HistoryIs DEF EditingInv
<1>4. Heard(machine, machine', "refused", Newest)
  BY <1>2 DEF Replied, Heard
<1>5. machine' # machine => page.open
  BY <1>1, <1>2, OpenWhileSent DEF Replied
<1>6. troubles' \in 0..MaxTroubles BY <1>2, TroubleIs DEF EditingInv
<1> QED BY <1>2, <1>3, <1>4, <1>5, <1>6, ReplyKeeps

-----------------------------------------------------------------------------
(* The workbench.                                                          *)

LEMMA SupersededIs ==
  ASSUME NEW m \in Machines, NEW n, n = Superseded(m)
  PROVE  /\ n \in Machines
         /\ n.state = m.state /\ n.fence = m.fence /\ n.retry = m.retry
         /\ n.flight = m.flight /\ n.reply = m.reply
         /\ n.reload = m.reload /\ n.watched = m.watched
         /\ n.check = NoCheck <=> m.check = NoCheck
         /\ m.check # NoCheck =>
              /\ n.check.kind = m.check.kind /\ ~n.check.fresh
              /\ n.check.expected = m.check.expected
              /\ n.check.from = m.check.from
<1>1. CASE m.check = NoCheck BY <1>1 DEF Superseded
<1>2. CASE m.check # NoCheck
  <2>1. m.check \in Checks BY <1>2 DEF Machines
  <2> DEFINE c == [m.check EXCEPT !.fresh = FALSE]
  <2>2. /\ c \in Checks /\ c # NoCheck /\ c.kind = m.check.kind /\ ~c.fresh
        /\ c.expected = m.check.expected /\ c.from = m.check.from
    BY <2>1, EditingAssumption DEF Checks
  <2>3. n = [m EXCEPT !.check = c] BY <1>2 DEF Superseded
  <2> HIDE DEF c
  <2> QED BY <1>2, <2>2, <2>3 DEF Machines
<1> QED BY <1>1, <1>2

(* What a step may do to a machine that it leaves in its session.          *)
Resting(m, n) ==
  /\ n.fence = m.fence /\ n.retry = m.retry /\ n.flight = m.flight
  /\ n.reply = m.reply /\ n.reload = m.reload /\ n.watched = m.watched
  /\ n.state = m.state
  /\ n.check = m.check
     \/ /\ n.check # NoCheck /\ m.check # NoCheck /\ ~n.check.fresh
        /\ n.check.kind = m.check.kind
        /\ n.check.expected = m.check.expected
        /\ n.check.from = m.check.from

LEMMA SupersededRests ==
  ASSUME NEW m \in Machines
  PROVE  Superseded(m) \in Machines /\ Resting(m, Superseded(m))
BY SupersededIs DEF Resting, Superseded

(* Steps of the workbench that leave head, dialog and session as they are. *)
LEMMA WorkbenchKeeps ==
  ASSUME EditingInv, page.open, page'.open, machine' \in Machines,
         Resting(machine, machine'),
         UNCHANGED <<history, requests, dialog, saves, visits, scenario>>,
         troubles' \in 0..MaxTroubles, page' \in Pages,
         stored' \in StoredDrafts \cup {NoDraft},
         wanted' \in Drafts \cup {NoText},
         stored' # NoDraft => {stored'.source, stored'.fence} \subseteq Known,
         page'.head = page.head, page'.source \in Known,
         page'.completed = page.completed,
         page'.completing = page.completing,
         {page'.asking, page'.loading} \subseteq {0} \cup Known,
         dialog.open => page'.loading = 0,
         wanted' # wanted => ~dialog.open \/ wanted' = NoText,
         DraftInv'
  PROVE  EditingInv'
<1>1. Newest' = Newest /\ Known' = Known BY DEF Newest, Known
<1>2. Sent' \subseteq Sent BY DEF Sent, Resting
<1>3. KnownInv' BY <1>1 DEF EditingInv, KnownInv, Resting
<1>4. ReplyInv' BY DEF EditingInv, ReplyInv, Resting
<1>5. SessionInv' BY DEF EditingInv, SessionInv, Resting, Stands, Checking
<1>6. ReviewInv'
  BY DEF EditingInv, ReviewInv, Display, Checking, Covered, Resting
<1> QED
  BY <1>2, <1>3, <1>4, <1>5, <1>6, PageSteps
     DEF EditingInv, EditingTypeOK

LEMMA Rests == Resting(machine, machine) BY DEF Resting

LEMMA OpenParts ==
  ASSUME EditingInv
  PROVE  /\ page \in Pages /\ machine \in Machines /\ dialog \in Dialogs
         /\ page.loading # 0 \/ page.asking # 0 => page.open
         /\ troubles \in 0..MaxTroubles
         /\ stored \in StoredDrafts \cup {NoDraft}
         /\ wanted \in Drafts \cup {NoText} /\ NoText \notin Drafts
         /\ page.source \in 1..Newest /\ TextOf(page.source) \in Drafts
         /\ page.head \in 1..Newest
<1>1. page.loading # 0 \/ page.asking # 0 => page.open
  BY DEF EditingInv, SessionInv, NoPage
<1>2. page.source \in 1..Newest /\ page.head \in 1..Newest
  BY DEF EditingInv, KnownInv, Known
<1>3. TextOf(page.source) \in Drafts
  BY <1>2, HistoryIs DEF EditingInv
<1> QED
  BY <1>1, <1>2, <1>3, EditingAssumption DEF EditingInv, EditingTypeOK

(* While the page is away, a draft that is still wanted is refused only    *)
(* when its source was newer than the head that the page knew, or when the *)
(* visit asks for another source.                                          *)
LEMMA RefusedForItsSource ==
  ASSUME EditingInv, ~page.open, wanted # NoText, NEW from \in {0} \cup Known
  PROVE  Restorable(from) <=> /\ from \in {0, stored.source}
                              /\ stored.source <= stored.fence
<1>1. /\ stored # NoDraft /\ stored.text # TextOf(stored.source)
      /\ stored.fence \in 1..Newest
  BY DEF EditingInv, DraftInv, KnownInv, Known
<1>2. stored.fence <= Newest
  BY <1>1, HistoryIs DEF EditingInv
<1> QED BY <1>1, <1>2 DEF Restorable

LEMMA VisitKeeps ==
  ASSUME EditingInv, NEW from \in {0} \cup Numbers, Visit(from),
         UNCHANGED scenario
  PROVE  EditingInv'
<1> DEFINE restored == Restorable(from)
           source == IF from # 0 THEN from
                     ELSE IF restored THEN stored.source ELSE Newest
           draft == IF restored THEN stored.text ELSE TextOf(source)
<1>1. /\ page' = [NoPage EXCEPT !.open = TRUE, !.head = Newest,
                                !.source = source, !.draft = draft]
      /\ machine' = NewMachine(Newest)
      /\ stored' = IF restored THEN stored ELSE NoDraft
      /\ wanted' = IF restored THEN wanted ELSE NoText
      /\ ~page.open /\ visits' = visits + 1 /\ visits < scenario.visits
      /\ from <= Newest
      /\ UNCHANGED <<history, requests, dialog, saves, troubles>>
  BY DEF Visit
<1>2. /\ Newest \in Known /\ Newest \in Numbers /\ 1 \in Known
      /\ 1 \in Numbers /\ Known \subseteq Numbers
      /\ \A v \in Known : TextOf(v) \in Drafts
  BY HistoryIs, NumbersAre DEF EditingInv, Known
<1>3. from # 0 => from \in Known
  BY <1>1, NumbersAre, HistoryIs DEF EditingInv, Known
<1>4. restored => /\ stored # NoDraft /\ from \in {0, stored.source}
                  /\ stored \in StoredDrafts /\ stored.source \in Known
                  /\ stored.fence \in Known
  BY DEF Restorable, EditingInv, EditingTypeOK, KnownInv
<1>5. source \in Known /\ source \in Numbers /\ draft \in Drafts
  <2>1. source \in Known BY <1>2, <1>3, <1>4
  <2>2. draft \in Drafts
    <3>1. CASE restored BY <1>4, <3>1 DEF StoredDrafts
    <3>2. CASE ~restored BY <1>2, <2>1, <3>2
    <3> QED BY <3>1, <3>2
  <2> QED BY <1>2, <2>1, <2>2
<1>6. restored => source = stored.source /\ draft = stored.text
  BY <1>4
<1> HIDE DEF restored, source, draft
<1>7. /\ page' \in Pages /\ page'.open /\ page'.head = Newest
      /\ page'.source = source /\ page'.draft = draft
      /\ page'.asking = 0 /\ page'.loading = 0 /\ page'.completed = 1
      /\ page'.completing = "no"
  BY <1>1, <1>2, <1>5 DEF NoPage, Pages
<1>8. /\ machine' \in Machines /\ machine'.fence = Newest
      /\ machine'.retry = NoAttempt /\ machine'.flight = NoAttempt
      /\ machine'.reload = 0 /\ machine'.check = NoCheck
      /\ machine'.reply = NoReply
  BY <1>1, <1>2 DEF Machines, NewMachine
<1>9. dialog = NoDialog BY <1>1 DEF EditingInv, SessionInv
<1>10. Sent' \subseteq Sent BY <1>1, <1>8 DEF Sent
<1>11. KnownInv'
  <2>1. Newest' = Newest /\ Known' = Known BY <1>1 DEF Newest, Known
  <2>2. stored' # NoDraft => {stored'.source, stored'.fence} \subseteq Known
    BY <1>1, <1>4
  <2> QED
    BY <1>1, <1>2, <1>5, <1>7, <1>8, <2>1, <2>2 DEF EditingInv, KnownInv
<1>12. ReplyInv' BY <1>8 DEF ReplyInv
<1>13. SessionInv'
  BY <1>1, <1>7, <1>8, <1>9 DEF SessionInv, Stands, Checking, NoDialog
<1>14. ReviewInv' BY <1>1, <1>9 DEF ReviewInv, NoDialog
<1>15. DraftInv'
  <2>1. CASE restored
    BY <1>1, <1>6, <1>7, <2>1 DEF EditingInv, DraftInv, TextOf
  <2>2. CASE ~restored BY <1>1, <2>2 DEF DraftInv
  <2> QED BY <2>1, <2>2
<1>16. visits' \in 0..MaxVisits
  BY <1>1, ScenarioIs, NumbersAre DEF EditingInv, EditingTypeOK
<1>17. /\ stored' \in StoredDrafts \cup {NoDraft}
       /\ wanted' \in Drafts \cup {NoText}
  BY <1>1 DEF EditingInv, EditingTypeOK
<1> QED
  BY <1>1, <1>7, <1>8, <1>10, <1>11, <1>12, <1>13, <1>14, <1>15, <1>16,
     <1>17, PageSteps DEF EditingInv, EditingTypeOK

LEMMA AwayKeeps ==
  ASSUME EditingInv, Away,
         UNCHANGED <<history, requests, stored, wanted, saves, visits,
                     troubles, scenario>>
  PROVE  EditingInv'
<1>1. page' = NoPage /\ machine' = NewMachine(1) /\ dialog' = NoDialog
  BY DEF Away
<1>2. 1 \in Known /\ 1 \in Numbers
  BY HistoryIs, NumbersAre DEF EditingInv, Known
<1>3. NoPage \in Pages /\ NewMachine(1) \in Machines /\ NoDialog \in Dialogs
  BY <1>2 DEF NoPage, NewMachine, NoDialog, Pages, Machines, Dialogs, Drafts
<1>4. Sent' \subseteq Sent BY <1>1 DEF Sent, NewMachine
<1>5. KnownInv'
  <2>1. Newest' = Newest /\ Known' = Known BY DEF Newest, Known
  <2> QED
    BY <1>1, <1>2, <2>1
       DEF EditingInv, KnownInv, NoPage, NewMachine, NoDialog
<1>6. ReplyInv' BY <1>1 DEF ReplyInv, NewMachine
<1>7. SessionInv'
  BY <1>1 DEF SessionInv, NoPage, NewMachine, NoDialog, Stands, Checking
<1>8. ReviewInv' BY <1>1 DEF ReviewInv, NoDialog
<1>9. DraftInv' BY <1>1 DEF EditingInv, DraftInv, NoPage, TextOf
<1> QED
  BY <1>1, <1>3, <1>4, <1>5, <1>6, <1>7, <1>8, <1>9, PageSteps
     DEF EditingInv, EditingTypeOK

LEMMA TypeKeeps ==
  ASSUME EditingInv, NEW text \in Texts, Type(text), UNCHANGED scenario
  PROVE  EditingInv'
<1> DEFINE dirty == text # TextOf(page.source)
           draft == [source |-> page.source, fence |-> page.head,
                     text |-> text]
<1>1. /\ page.open /\ ~dialog.open /\ page.loading = 0
      /\ page.completing = "no"
      /\ page' = [page EXCEPT !.draft = text]
      /\ stored' = IF dirty THEN draft ELSE NoDraft
      /\ wanted' = IF dirty THEN text ELSE NoText
      /\ machine' = Superseded(machine)
      /\ UNCHANGED <<history, requests, dialog, saves, visits, troubles>>
  BY DEF Type, Editable
<1>2. text \in Drafts /\ text # NoText
  BY EditingAssumption DEF Drafts
<1>3. machine' \in Machines /\ Resting(machine, machine')
  BY <1>1, OpenParts, SupersededRests
<1>4. /\ page' \in Pages /\ page'.open /\ page'.head = page.head
      /\ page'.source = page.source /\ page'.draft = text
      /\ page'.asking = page.asking /\ page'.loading = page.loading
      /\ page'.completing = page.completing
      /\ page'.completed = page.completed
  BY <1>1, <1>2, OpenParts DEF Pages
<1>5. /\ draft \in StoredDrafts /\ draft.source = page.source
      /\ draft.fence = page.head /\ draft.text = text
  BY <1>2, OpenParts DEF Pages, StoredDrafts
<1> HIDE DEF draft
<1>6. /\ stored' \in StoredDrafts \cup {NoDraft}
      /\ stored' # NoDraft =>
           stored'.source = page.source /\ stored'.fence = page.head
      /\ wanted' \in Drafts \cup {NoText}
  BY <1>1, <1>2, <1>5
<1>7. DraftInv'
  <2>1. CASE dirty
    <3>1. /\ stored' # NoDraft /\ stored'.text = text /\ wanted' = text
          /\ stored'.source = page.source
      BY <1>1, <1>5, <2>1, EditingAssumption
    <3>2. TextOf(stored.source)' # wanted'
      BY <1>1, <2>1, <3>1 DEF TextOf
    <3> QED BY <1>1, <1>4, <3>1, <3>2 DEF DraftInv, TextOf
  <2>2. CASE ~dirty BY <1>1, <2>2 DEF DraftInv
  <2> QED BY <2>1, <2>2
<1>8. /\ page.source \in Known /\ page.head \in Known
      /\ {page.asking, page.loading} \subseteq {0} \cup Known
  BY DEF EditingInv, KnownInv
<1> HIDE DEF dirty
<1> QED
  BY <1>1, <1>3, <1>4, <1>6, <1>7, <1>8, OpenParts, WorkbenchKeeps

LEMMA DiscardKeeps ==
  ASSUME EditingInv, Discard, UNCHANGED scenario PROVE EditingInv'
<1>1. /\ page.open /\ ~dialog.open /\ page.loading = 0
      /\ page' = [page EXCEPT !.draft = TextOf(page.source), !.asking = 0]
      /\ stored' = NoDraft /\ wanted' = NoText
      /\ machine' = Superseded(machine)
      /\ UNCHANGED <<history, requests, dialog, saves, visits, troubles>>
  BY DEF Discard, Discarded, Editable
<1>2. machine' \in Machines /\ Resting(machine, machine')
  BY <1>1, OpenParts, SupersededRests
<1>3. /\ page' \in Pages /\ page'.open /\ page'.head = page.head
      /\ page'.source = page.source /\ page'.asking = 0
      /\ page'.loading = page.loading
      /\ page'.completing = page.completing
      /\ page'.completed = page.completed
  BY <1>1, OpenParts DEF Pages
<1>4. DraftInv' BY <1>1 DEF DraftInv
<1>5. page.source \in Known /\ page.loading \in {0} \cup Known
  BY DEF EditingInv, KnownInv
<1> QED
  BY <1>1, <1>2, <1>3, <1>4, <1>5, OpenParts, WorkbenchKeeps

(* A draft that the user has typed differs from its source.                *)
LEMMA CleanIsNotWanted ==
  ASSUME EditingInv, page.open, page.draft = TextOf(page.source)
  PROVE  wanted = NoText
BY DEF EditingInv, DraftInv

LEMMA SourceKeeps ==
  ASSUME EditingInv, page.open, ~dialog.open,
         NEW asking \in {0} \cup Known, NEW loading \in {0} \cup Known,
         page' = [page EXCEPT !.asking = asking, !.loading = loading],
         wanted' = NoText \/ (wanted' = wanted /\ loading = 0),
         troubles' \in 0..MaxTroubles,
         UNCHANGED <<history, requests, stored, machine, dialog, saves,
                     visits, scenario>>
  PROVE  EditingInv'
<1>1. {asking, loading} \subseteq {0} \cup Numbers
  BY HistoryIs DEF EditingInv, Known
<1>2. /\ page' \in Pages /\ page'.open /\ page'.head = page.head
      /\ page'.source = page.source /\ page'.draft = page.draft
      /\ page'.asking = asking /\ page'.loading = loading
      /\ page'.completing = page.completing
      /\ page'.completed = page.completed
  BY <1>1, OpenParts DEF Pages
<1>3. DraftInv' BY <1>2 DEF EditingInv, DraftInv, TextOf
<1>4. /\ page.source \in Known
      /\ stored # NoDraft => {stored.source, stored.fence} \subseteq Known
  BY DEF EditingInv, KnownInv
<1> QED BY <1>2, <1>3, <1>4, OpenParts, Rests, WorkbenchKeeps

LEMMA RequestSourceKeeps ==
  ASSUME EditingInv, NEW v \in Numbers, RequestSource(v),
         UNCHANGED scenario
  PROVE  EditingInv'
<1>1. /\ page.open /\ ~dialog.open /\ page.loading = 0 /\ v \in Known
      /\ UNCHANGED <<history, requests, stored, machine, dialog, wanted,
                     saves, visits, troubles>>
  BY DEF RequestSource, Known
<1>2. troubles' \in 0..MaxTroubles BY <1>1, OpenParts
<1>3. CASE page.draft = TextOf(page.source)
  <2>1. page' = [page EXCEPT !.asking = 0, !.loading = v]
    BY <1>3, OpenParts DEF RequestSource, Pages
  <2>2. wanted' = NoText BY <1>1, <1>3, CleanIsNotWanted
  <2> QED BY <1>1, <1>2, <2>1, <2>2, SourceKeeps
<1>4. CASE page.draft # TextOf(page.source)
  <2>1. page' = [page EXCEPT !.asking = v, !.loading = 0]
    BY <1>1, <1>4, OpenParts DEF RequestSource, Pages
  <2> QED BY <1>1, <1>2, <2>1, SourceKeeps
<1> QED BY <1>3, <1>4

LEMMA ResolveKeeps ==
  ASSUME EditingInv, Resolve(TRUE) \/ Resolve(FALSE), UNCHANGED scenario
  PROVE  EditingInv'
<1>1. /\ page.asking # 0 /\ ~dialog.open
      /\ UNCHANGED <<history, requests, stored, machine, dialog, saves,
                     visits, troubles>>
  BY DEF Resolve
<1>2. page.open /\ page.asking \in {0} \cup Known
  BY <1>1, OpenParts DEF EditingInv, KnownInv
<1>3. troubles' \in 0..MaxTroubles BY <1>1, OpenParts
<1>4. CASE Resolve(TRUE)
  <2>1. /\ page' = [page EXCEPT !.asking = 0, !.loading = page.asking]
        /\ wanted' = NoText
    BY <1>4 DEF Resolve
  <2> QED BY <1>1, <1>2, <1>3, <2>1, SourceKeeps
<1>5. CASE Resolve(FALSE)
  <2>1. /\ page' = [page EXCEPT !.asking = 0, !.loading = 0]
        /\ wanted' = wanted
    BY <1>5 DEF Resolve
  <2> QED BY <1>1, <1>2, <1>3, <2>1, SourceKeeps
<1> QED BY <1>4, <1>5

LEMMA SourceFailsKeeps ==
  ASSUME EditingInv, SourceFails, UNCHANGED scenario PROVE EditingInv'
<1>1. /\ page.loading # 0 /\ Trouble
      /\ page' = [page EXCEPT !.loading = 0]
      /\ UNCHANGED <<history, requests, stored, machine, dialog, wanted,
                     saves, visits>>
  BY DEF SourceFails
<1>2. page.open /\ troubles' \in 0..MaxTroubles
  BY <1>1, OpenParts, TroubleIs DEF EditingInv
<1>3. page' = [page EXCEPT !.asking = page.asking, !.loading = 0]
  BY <1>1, OpenParts DEF Pages
<1>4. page.asking \in {0} \cup Known BY DEF EditingInv, KnownInv
<1>5. ~dialog.open BY <1>1 DEF EditingInv, SessionInv
<1> QED BY <1>1, <1>2, <1>3, <1>4, <1>5, SourceKeeps

LEMMA SourceLoadedKeeps ==
  ASSUME EditingInv, SourceLoaded, UNCHANGED scenario PROVE EditingInv'
<1> DEFINE v == page.loading
<1>1. /\ v # 0 /\ stored' = NoDraft
      /\ page' = [page EXCEPT !.source = v, !.loading = 0,
                              !.draft = TextOf(v)]
      /\ machine' = machine \/ machine' = Superseded(machine)
      /\ UNCHANGED <<history, requests, dialog, wanted, saves, visits,
                     troubles>>
  BY DEF SourceLoaded
<1>2. page.open /\ wanted = NoText
  BY <1>1, OpenParts DEF EditingInv, DraftInv
<1>3. v \in Known /\ v \in Numbers /\ TextOf(v) \in Drafts
  BY <1>1, HistoryIs DEF EditingInv, KnownInv, Known
<1>4. machine' \in Machines /\ Resting(machine, machine')
  BY <1>1, OpenParts, SupersededRests, Rests
<1>5. /\ page' \in Pages /\ page'.open /\ page'.head = page.head
      /\ page'.source = v /\ page'.loading = 0
      /\ page'.asking = page.asking
      /\ page'.completing = page.completing
      /\ page'.completed = page.completed
  BY <1>1, <1>2, <1>3, OpenParts DEF Pages
<1>6. DraftInv' BY <1>1, <1>2 DEF DraftInv
<1>7. page.asking \in {0} \cup Known BY DEF EditingInv, KnownInv
<1> HIDE DEF v
<1> QED
  BY <1>1, <1>2, <1>3, <1>4, <1>5, <1>6, <1>7, OpenParts, WorkbenchKeeps

-----------------------------------------------------------------------------
(* The save machine.                                                       *)

(* Steps that leave the draft alone.                                       *)
LEMMA SessionKeeps ==
  ASSUME EditingInv, page.open, page'.open,
         machine' \in Machines, dialog' \in Dialogs, page' \in Pages,
         UNCHANGED <<history, wanted, saves, visits, scenario>>,
         stored' \in StoredDrafts \cup {NoDraft},
         \/ stored' = stored
         \/ /\ stored' # NoDraft /\ stored'.source = stored.source
            /\ stored'.text = stored.text,
         requests' \subseteq Sent, troubles' \in 0..MaxTroubles,
         machine'.retry \in Sent \cup {NoAttempt},
         machine'.flight \in Sent \cup {NoAttempt},
         KnownInv', ReplyInv', SessionInv', ReviewInv',
         page'.draft = page.draft, page'.source = page.source,
         page'.loading = page.loading,
         page'.completing = "reading" /\ wanted # NoText =>
           TextOf(page'.completed) = wanted
  PROVE  EditingInv'
<1>1. Sent' \subseteq Sent BY DEF Sent
<1>2. requests' \subseteq Attempts
  BY DEF Sent, EditingInv, EditingTypeOK, Machines
<1>3. DraftInv' BY DEF EditingInv, DraftInv, TextOf
<1> QED BY <1>1, <1>2, <1>3, PageSteps DEF EditingInv, EditingTypeOK

LEMMA KnownSame ==
  ASSUME UNCHANGED history PROVE Newest' = Newest /\ Known' = Known
BY DEF Newest, Known

LEMMA SettledIs ==
  ASSUME EditingInv
  PROVE  /\ Settled \in Dialogs /\ Settled.open = dialog.open
         /\ Settled.review = dialog.review
         /\ Settled.reloaded = dialog.reloaded
         /\ Settled.operation = "none"
BY OpenParts DEF Settled, Dialogs

LEMMA InSent ==
  /\ requests \subseteq Sent
  /\ machine.retry \in Sent \cup {NoAttempt}
  /\ machine.flight \in Sent \cup {NoAttempt}
BY DEF Sent

LEMMA FailedKeeps ==
  ASSUME EditingInv, Failed, UNCHANGED scenario PROVE EditingInv'
<1>1. /\ machine.flight # NoAttempt /\ Trouble /\ dialog' = Settled
      /\ machine' = [machine EXCEPT !.state = "error",
                        !.flight = NoAttempt, !.reply = NoReply]
      /\ UNCHANGED <<history, requests, stored, page, wanted, saves, visits>>
  BY DEF Failed
<1>2. page.open /\ troubles' \in 0..MaxTroubles
  BY <1>1, OpenWhileSent, TroubleIs DEF EditingInv
<1>3. /\ machine' \in Machines /\ machine'.fence = machine.fence
      /\ machine'.retry = machine.retry /\ machine'.flight = NoAttempt
      /\ machine'.reload = machine.reload /\ machine'.check = machine.check
      /\ machine'.reply = NoReply
  BY <1>1, OpenParts DEF Machines
<1>4. KnownInv'
  BY <1>1, <1>3, KnownSame, SettledIs DEF EditingInv, KnownInv
<1>5. ReplyInv' BY <1>3 DEF ReplyInv
<1>6. SessionInv'
  BY <1>1, <1>2, <1>3, SettledIs
     DEF EditingInv, SessionInv, Stands, Checking
<1>7. ReviewInv'
  BY <1>1, <1>3, SettledIs
     DEF EditingInv, SessionInv, ReviewInv, Display, Checking, Covered
<1>8. page.completing = "reading" /\ wanted # NoText =>
        TextOf(page.completed) = wanted
  BY DEF EditingInv, DraftInv
<1> QED
  BY <1>1, <1>2, <1>3, <1>4, <1>5, <1>6, <1>7, <1>8, OpenParts, SettledIs,
     InSent, SessionKeeps

(* A step of a verification, which leaves page and dialog as they are.     *)
LEMMA CheckKeeps ==
  ASSUME EditingInv, page.open, machine' \in Machines,
         UNCHANGED <<history, requests, stored, page, dialog, wanted, saves,
                     visits, scenario>>,
         troubles' \in 0..MaxTroubles,
         machine'.fence = machine.fence, machine'.flight = machine.flight,
         machine'.reply = machine.reply, machine'.reload = machine.reload,
         machine'.watched = machine.watched,
         machine'.retry \in {machine.retry, NoAttempt},
         machine.flight # NoAttempt =>
           machine'.retry = machine.retry /\ machine'.state = machine.state,
         machine'.check # NoCheck =>
           /\ machine.flight = NoAttempt /\ machine.reload = 0
           /\ machine'.check.kind # "reconcile"
           /\ machine'.check.expected \in Known
           /\ machine'.check.from \in Known
  PROVE  EditingInv'
<1>1. KnownInv' BY KnownSame DEF EditingInv, KnownInv
<1>2. ReplyInv' BY DEF EditingInv, ReplyInv
<1>3. SessionInv' BY DEF EditingInv, SessionInv, Stands, Checking
<1>4. ReviewInv'
  BY DEF EditingInv, ReviewInv, Display, Checking, Covered
<1>5. page.completing = "reading" /\ wanted # NoText =>
        TextOf(page.completed) = wanted
  BY DEF EditingInv, DraftInv
<1> QED
  BY <1>1, <1>2, <1>3, <1>4, <1>5, OpenParts, InSent, SessionKeeps

LEMMA VerifyKeeps ==
  ASSUME EditingInv, Verify, UNCHANGED scenario PROVE EditingInv'
<1> DEFINE c == [kind |-> "verify", expected |-> machine.fence,
                 from |-> Newest, fresh |-> TRUE]
<1>1. /\ page.open /\ machine' = [machine EXCEPT !.check = c]
      /\ machine.flight = NoAttempt /\ machine.reload = 0
      /\ UNCHANGED <<history, requests, stored, page, dialog, wanted, saves,
                     visits, troubles>>
  BY DEF Verify, Busy
<1>2. machine.fence \in Known /\ Newest \in Known /\ Newest \in Numbers
  BY HistoryIs DEF EditingInv, KnownInv, Known
<1>3. /\ c \in Checks /\ c.kind = "verify" /\ c.expected \in Known
      /\ c.from \in Known
  BY <1>2, OpenParts DEF Checks, Machines
<1> HIDE DEF c
<1>4. /\ machine' \in Machines /\ machine'.check = c
      /\ machine'.fence = machine.fence /\ machine'.flight = machine.flight
      /\ machine'.reply = machine.reply /\ machine'.reload = machine.reload
      /\ machine'.watched = machine.watched
      /\ machine'.retry = machine.retry /\ machine'.state = machine.state
  BY <1>1, <1>3, OpenParts DEF Machines
<1> QED BY <1>1, <1>3, <1>4, OpenParts, CheckKeeps

LEMMA OpenWhileChecked ==
  ASSUME EditingInv, machine.check # NoCheck PROVE page.open
BY DEF EditingInv, SessionInv, NewMachine

(* What any verification leaves of the machine.                            *)
LEMMA CheckEnds ==
  ASSUME EditingInv, UNCHANGED scenario, Checking("verify"),
         NEW state \in {"idle", "saving", "saved", "unchanged", "stale",
                        "error", "unverified"},
         NEW retry \in {machine.retry, NoAttempt},
         retry # machine.retry \/ state # machine.state =>
           machine.check.fresh,
         machine' = [machine EXCEPT !.check = NoCheck, !.state = state,
                                    !.retry = retry],
         UNCHANGED <<history, requests, stored, page, dialog, wanted, saves,
                     visits>>,
         troubles' \in 0..MaxTroubles
  PROVE  EditingInv'
<1>1. page.open /\ machine.check # NoCheck
  BY OpenWhileChecked DEF Checking
<1>2. /\ machine' \in Machines /\ machine'.check = NoCheck
      /\ machine'.fence = machine.fence /\ machine'.flight = machine.flight
      /\ machine'.reply = machine.reply /\ machine'.reload = machine.reload
      /\ machine'.watched = machine.watched
      /\ machine'.retry = retry /\ machine'.state = state
  BY OpenParts DEF Machines
<1>3. machine.flight # NoAttempt => ~machine.check.fresh
  BY <1>1 DEF EditingInv, SessionInv, Stands
<1> QED BY <1>1, <1>2, <1>3, CheckKeeps

LEMMA VerifiedKeeps ==
  ASSUME EditingInv, Verified, UNCHANGED scenario PROVE EditingInv'
<1>1. /\ Checking("verify") /\ machine \in Machines
      /\ UNCHANGED <<history, requests, stored, page, dialog, wanted, saves,
                     visits, troubles>>
      /\ troubles' \in 0..MaxTroubles
  BY OpenParts DEF Verified
<1>2. PICK v : machine' = IF machine.check.fresh THEN Verdict(machine, v)
                          ELSE [machine EXCEPT !.check = NoCheck]
  BY DEF Verified
<1>3. CASE ~machine.check.fresh
  <2>1. machine' = [machine EXCEPT !.check = NoCheck,
                       !.state = machine.state, !.retry = machine.retry]
    BY <1>1, <1>2, <1>3 DEF Machines
  <2> QED BY <1>1, <2>1, CheckEnds DEF Machines
<1>4. CASE machine.check.fresh /\ v # machine.check.expected
  <2>1. machine' = [machine EXCEPT !.check = NoCheck, !.state = "stale",
                                   !.retry = NoAttempt]
    BY <1>2, <1>4 DEF Verdict
  <2> QED BY <1>1, <1>4, <2>1, CheckEnds
<1>5. CASE machine.check.fresh /\ v = machine.check.expected
  <2> DEFINE state == IF machine.state = "unverified" THEN "idle"
                      ELSE machine.state
  <2>1. machine' = [machine EXCEPT !.check = NoCheck, !.state = state]
    BY <1>2, <1>5 DEF Verdict
  <2>2. state \in {"idle", "saving", "saved", "unchanged", "stale", "error",
                   "unverified"}
    BY <1>1 DEF Machines
  <2> HIDE DEF state
  <2>3. machine' = [machine EXCEPT !.check = NoCheck, !.state = state,
                                   !.retry = machine.retry]
    BY <1>1, <2>1 DEF Machines
  <2> QED BY <1>1, <1>5, <2>2, <2>3, CheckEnds
<1> QED BY <1>3, <1>4, <1>5

LEMMA VerifyFailsKeeps ==
  ASSUME EditingInv, VerifyFails, UNCHANGED scenario PROVE EditingInv'
<1> DEFINE state == IF machine.check.fresh THEN "unverified"
                    ELSE machine.state
<1>1. /\ Checking("verify") /\ Trouble /\ machine \in Machines
      /\ machine' = [machine EXCEPT !.check = NoCheck, !.state = state]
      /\ UNCHANGED <<history, requests, stored, page, dialog, wanted, saves,
                     visits>>
  BY OpenParts DEF VerifyFails
<1>2. state \in {"idle", "saving", "saved", "unchanged", "stale", "error",
                 "unverified"}
      /\ (state # machine.state => machine.check.fresh)
  BY <1>1 DEF Machines
<1> HIDE DEF state
<1>3. machine' = [machine EXCEPT !.check = NoCheck, !.state = state,
                                 !.retry = machine.retry]
  BY <1>1 DEF Machines
<1>4. troubles' \in 0..MaxTroubles
  BY <1>1, TroubleIs DEF EditingInv
<1> QED BY <1>1, <1>2, <1>3, <1>4, CheckEnds

-----------------------------------------------------------------------------
(* The answer to a save.                                                   *)

LEMMA LaterIs ==
  ASSUME NEW a \in Nat, NEW b \in Nat
  PROVE  Later(a, b) \in {a, b} /\ Later(a, b) >= a /\ Later(a, b) >= b
BY DEF Later

LEMMA SentIs ==
  ASSUME EditingInv, NEW a \in Sent
  PROVE  /\ a \in Attempts /\ a # NoAttempt /\ a.key # 0 /\ a.key \in Nat
         /\ a.body \in Drafts /\ a.body # Gone /\ a.shown \in Nat
         /\ a.expected \in Nat /\ a.expected <= Newest
<1>1. a \in Attempts BY DEF Sent, EditingInv, EditingTypeOK, Machines
<1> QED
  BY <1>1, NumbersAre, EditingAssumption DEF Attempts, EditingInv, KeysInv

(* The version that a save is told of is the one that it wrote.            *)
LEMMA CreatedIsOwn ==
  ASSUME EditingInv, machine.flight # NoAttempt, machine.reply # NoReply,
         machine.reply.kind = "created"
  PROVE  /\ machine.reply.version \in 1..Newest
         /\ TextOf(machine.reply.version) = machine.flight.body
         /\ Covered(machine.flight.shown, machine.reply.version)
<1> DEFINE f == machine.flight
           v == machine.reply.version
<1>1. f \in Sent BY DEF Sent
<1>2. v \in 1..Newest BY DEF EditingInv, KnownInv, Known
<1>3. history[v].key = f.key BY DEF EditingInv, ReplyInv
<1>4. history[v].body = f.body /\ history[v].shown = f.shown
  BY <1>1, <1>2, <1>3 DEF EditingInv, KeysInv
<1>5. /\ f.key # 0 /\ f.body # Gone /\ f.shown \in Nat
  BY <1>1, SentIs
<1>6. TextOf(v) = f.body BY <1>4, <1>5 DEF TextOf
<1>7. \A u \in (f.shown + 1)..(v - 1) : history[u].key # 0
  BY <1>2, <1>3, <1>4, <1>5 DEF EditingInv, NothingOverwrittenUnseen
<1>8. \A u \in (f.shown + 1)..v : u = v \/ u \in (f.shown + 1)..(v - 1)
  BY <1>2, <1>5
<1> HIDE DEF f, v
<1>9. Covered(f.shown, v)
  BY <1>3, <1>5, <1>7, <1>8 DEF Covered
<1> QED BY <1>2, <1>6, <1>9 DEF f, v

LEMMA CompletingIs ==
  ASSUME EditingInv, NEW v \in Numbers, NEW q, q = Completing(v)
  PROVE  /\ q \in Pages /\ q.open = page.open /\ q.head = page.head
         /\ q.source = page.source /\ q.draft = page.draft
         /\ q.asking = page.asking /\ q.loading = page.loading
         /\ \/ q = page
            \/ /\ q.completing = "reading" /\ q.completed = v /\ dialog.open
               /\ page.completing = "no"
<1>1. CASE q = page BY <1>1, OpenParts
<1>2. CASE q # page
  <2>1. /\ dialog.operation # "none" /\ page.completing = "no"
        /\ q = [page EXCEPT !.completing = "reading", !.completed = v]
    BY <1>2 DEF Completing
  <2>2. dialog.open BY <2>1 DEF EditingInv, SessionInv
  <2> QED BY <2>1, <2>2, OpenParts DEF Pages
<1> QED BY <1>1, <1>2

(* The end of a save, of whatever outcome.                                 *)
LEMMA SaveEnds ==
  ASSUME EditingInv, UNCHANGED scenario, machine.flight # NoAttempt,
         machine' \in Machines, dialog' = Settled,
         machine'.flight = NoAttempt, machine'.retry = NoAttempt,
         machine'.reply = NoReply, machine'.reload = machine.reload,
         machine'.fence \in 1..Newest,
         dialog.open /\ Covered(Display, machine.fence) =>
           Covered(Display, machine'.fence),
         machine'.check = machine.check
           \/ /\ machine'.check # NoCheck /\ machine.check # NoCheck
              /\ machine'.check.kind = machine.check.kind
              /\ ~machine'.check.fresh
              /\ machine'.check.expected = machine.check.expected
              /\ machine'.check.from = machine.check.from,
         page' \in Pages, page'.open = page.open, page'.head = page.head,
         page'.source = page.source, page'.draft = page.draft,
         page'.asking = page.asking, page'.loading = page.loading,
         page' = page
           \/ /\ page'.completing = "reading" /\ page'.completed \in 1..Newest
              /\ dialog.open /\ page.completing = "no"
              /\ (wanted # NoText => TextOf(page'.completed) = wanted),
         UNCHANGED <<history, requests, stored, wanted, saves, visits,
                     troubles>>
  PROVE  EditingInv'
<1>1. page.open /\ page'.open /\ dialog'.open = dialog.open
      /\ dialog'.operation = "none" /\ machine.reload = 0
      /\ ~Checking("reconcile") /\ ~Stands
  BY OpenWhileSent, SettledIs DEF EditingInv, SessionInv
<1>2. ~Checking("reconcile")' /\ ~Stands'
  BY <1>1 DEF Checking, Stands, Resting
<1>3. KnownInv'
  BY KnownSame, SettledIs DEF EditingInv, KnownInv, Known, Resting
<1>4. ReplyInv' BY DEF ReplyInv
<1>5. dialog.open \/ page.completing = "refreshing"
  BY <1>1 DEF EditingInv, SessionInv
<1>6. SessionInv'
  BY <1>1, <1>2, <1>5 DEF EditingInv, SessionInv
<1>7. ReviewInv'
  <2>1. Display' = Display BY SettledIs DEF Display
  <2>2. dialog.open => Covered(Display, machine'.fence)
    BY DEF EditingInv, ReviewInv
  <2>3. dialog.open => Covered(Display, machine.fence)'
    BY <2>1, <2>2 DEF Covered
  <2> QED BY <1>1, <1>2, <2>1, <2>3 DEF EditingInv, ReviewInv
<1>8. page'.completing = "reading" /\ wanted # NoText =>
        TextOf(page'.completed) = wanted
  BY DEF EditingInv, DraftInv
<1> QED
  BY <1>1, <1>3, <1>4, <1>6, <1>7, <1>8, OpenParts, SettledIs, InSent,
     SessionKeeps

LEMMA AnsweredKeeps ==
  ASSUME EditingInv, Answered, UNCHANGED scenario PROVE EditingInv'
<1> DEFINE f == machine.flight
           v == machine.reply.version
           done == [machine EXCEPT !.flight = NoAttempt, !.reply = NoReply,
                                   !.retry = NoAttempt]
<1>1. /\ machine.flight # NoAttempt /\ machine.reply # NoReply
      /\ dialog' = Settled
      /\ UNCHANGED <<history, requests, stored, wanted, saves, visits,
                     troubles>>
  BY DEF Answered
<1>2. machine.reply.kind \in {"created", "stale", "refused"}
  BY <1>1, OpenParts DEF Machines, Replies
<1>3. /\ done \in Machines /\ done.fence = machine.fence
      /\ done.retry = NoAttempt /\ done.flight = NoAttempt
      /\ done.reply = NoReply /\ done.reload = machine.reload
      /\ done.check = machine.check
  BY OpenParts DEF Machines
<1>4. machine.fence \in 1..Newest BY DEF EditingInv, KnownInv, Known
<1>5. CASE machine.reply.kind # "created"
  <2>1. /\ page' = page
        /\ \/ machine' = [done EXCEPT !.state = "stale"]
           \/ machine' = [done EXCEPT !.state = "error"]
    BY <1>2, <1>5 DEF Answered
  <2> HIDE DEF done
  <2>2. /\ machine' \in Machines /\ machine'.fence = machine.fence
        /\ machine'.retry = NoAttempt /\ machine'.flight = NoAttempt
        /\ machine'.reply = NoReply /\ machine'.reload = machine.reload
        /\ machine'.check = machine.check
    BY <1>3, <2>1 DEF Machines
  <2> QED BY <1>1, <1>4, <2>1, <2>2, OpenParts, SaveEnds
<1>6. CASE machine.reply.kind = "created"
  <2> DEFINE m == Superseded(done)
             fence == Later(v, done.fence)
  <2>1. /\ machine' = [m EXCEPT !.state = "saved", !.fence = fence]
        /\ page' = Completing(v)
    BY <1>6 DEF Answered
  <2>2. /\ v \in 1..Newest /\ TextOf(v) = f.body /\ Covered(f.shown, v)
    BY <1>1, <1>6, CreatedIsOwn
  <2>3. /\ v \in Numbers /\ v \in Nat /\ machine.fence \in Nat
        /\ machine.fence \in Numbers
    BY <1>4, <2>2, HistoryIs, NumbersAre DEF EditingInv
  <2>4. fence \in {v, machine.fence} BY <1>3, <2>3, LaterIs
  <2>5. m \in Machines /\ Resting(done, m)
    BY <1>3, SupersededRests
  <2> HIDE DEF done, m, fence
  <2>6. /\ machine' \in Machines /\ machine'.fence = fence
        /\ machine'.retry = NoAttempt /\ machine'.flight = NoAttempt
        /\ machine'.reply = NoReply /\ machine'.reload = machine.reload
        /\ machine'.check = m.check
    BY <1>3, <2>1, <2>3, <2>4, <2>5 DEF Machines, Resting
  <2>7. \/ machine'.check = machine.check
        \/ /\ machine'.check # NoCheck /\ machine.check # NoCheck
           /\ machine'.check.kind = machine.check.kind
           /\ ~machine'.check.fresh
           /\ machine'.check.expected = machine.check.expected
           /\ machine'.check.from = machine.check.from
    BY <1>3, <2>5, <2>6 DEF Resting
  <2>8. dialog.open =>
          f.shown = Display /\ (wanted # NoText => f.body = wanted)
    BY <1>1 DEF EditingInv, SessionInv, ReviewInv
  <2>9. dialog.open /\ Covered(Display, machine.fence) =>
          Covered(Display, fence)
    BY <2>2, <2>4, <2>8
  <2>10. /\ page' \in Pages /\ page'.open = page.open
         /\ page'.head = page.head /\ page'.source = page.source
         /\ page'.draft = page.draft /\ page'.asking = page.asking
         /\ page'.loading = page.loading
         /\ \/ page' = page
            \/ /\ page'.completing = "reading" /\ page'.completed = v
               /\ dialog.open /\ page.completing = "no"
    BY <2>1, <2>3, CompletingIs
  <2>11. fence \in 1..Newest BY <1>4, <2>2, <2>4
  <2> HIDE DEF f, v
  <2> QED
    BY <1>1, <1>6, <2>2, <2>6, <2>7, <2>8, <2>9, <2>10, <2>11, SaveEnds
<1> QED BY <1>5, <1>6

-----------------------------------------------------------------------------
(* The dialog.                                                             *)

LEMMA OpenDialogKeeps ==
  ASSUME EditingInv, OpenDialog, UNCHANGED scenario PROVE EditingInv'
<1>1. /\ page.open /\ ~dialog.open /\ page.loading = 0
      /\ page.completing = "no"
      /\ dialog' = [NoDialog EXCEPT !.open = TRUE, !.review = page.head]
      /\ UNCHANGED <<history, requests, stored, page, machine, wanted, saves,
                     visits, troubles>>
  BY DEF OpenDialog, Editable
<1>2. page.head \in Known /\ page.head \in Numbers
  BY OpenParts DEF EditingInv, KnownInv, Pages
<1>3. /\ dialog' \in Dialogs /\ dialog'.open /\ dialog'.review = page.head
      /\ dialog'.reloaded = 0 /\ dialog'.operation = "none"
  BY <1>1, <1>2 DEF Dialogs, NoDialog
<1>4. /\ machine.fence = page.head /\ machine.retry = NoAttempt
      /\ machine.reload = 0 /\ ~Checking("reconcile")
  BY <1>1 DEF EditingInv, SessionInv
<1>5. KnownInv' BY <1>1, <1>2, <1>3, KnownSame DEF EditingInv, KnownInv
<1>6. ReplyInv' BY <1>1 DEF EditingInv, ReplyInv
<1>7. SessionInv'
  BY <1>1, <1>3 DEF EditingInv, SessionInv, Stands, Checking
<1>8. ReviewInv'
  <2>1. Display' = page.head /\ page' = page /\ machine' = machine
    BY <1>1, <1>3 DEF Display
  <2>2. page.head \in Nat BY <1>2, NumbersAre
  <2>3. Covered(Display, machine.fence)'
    BY <1>4, <2>1, <2>2 DEF Covered
  <2>4. ~Checking("reconcile")' BY <1>4, <2>1 DEF Checking
  <2> QED BY <1>4, <2>1, <2>2, <2>3, <2>4 DEF ReviewInv
<1> QED
  BY <1>1, <1>3, <1>5, <1>6, <1>7, <1>8, OpenParts, InSent, SessionKeeps

(* A session that begins anew, in a dialog that stays or goes.             *)
LEMMA ResetKeeps ==
  ASSUME EditingInv, Quiet, ~Busy, machine' = Reset(machine, page.head),
         dialog' = dialog \/ (dialog' = NoDialog /\ page.completing = "no"),
         UNCHANGED <<history, requests, saves, visits, troubles, scenario>>,
         \/ UNCHANGED <<page, stored, wanted>>
         \/ Discarded /\ page.completing = "no"
  PROVE  EditingInv'
<1>1. /\ dialog.open /\ page.open /\ page.completing # "refreshing"
      /\ page.loading = 0 /\ machine.flight = NoAttempt
      /\ machine.reload = 0 /\ machine.check = NoCheck
  BY DEF Quiet, Busy, EditingInv, SessionInv
<1>2. page.head \in Known /\ page.head \in Numbers /\ page.head \in Nat
  BY OpenParts, NumbersAre DEF EditingInv, KnownInv, Pages
<1>3. /\ machine' \in Machines /\ machine'.fence = page.head
      /\ machine'.retry = NoAttempt /\ machine'.flight = NoAttempt
      /\ machine'.reload = 0 /\ machine'.check = NoCheck
      /\ machine'.reply = machine.reply
  BY <1>1, <1>2, OpenParts DEF Reset, Machines
<1>4. /\ page' \in Pages /\ page'.open /\ page'.head = page.head
      /\ page'.source = page.source /\ page'.loading = 0
      /\ page'.asking \in {0, page.asking}
      /\ page'.completing = page.completing
      /\ page'.completed = page.completed
      /\ stored' \in {stored, NoDraft} /\ wanted' \in {wanted, NoText}
      /\ \/ page'.draft = page.draft /\ stored' = stored
         \/ wanted' = NoText
  BY <1>1, OpenParts DEF Discarded, Pages
<1>5. NoDialog \in Dialogs /\ 1 \in Known
  BY NumbersAre, HistoryIs DEF NoDialog, Dialogs, EditingInv, Known
<1>6. Sent' \subseteq Sent BY <1>3 DEF Sent
<1>7. KnownInv'
  BY <1>2, <1>3, <1>4, <1>5, KnownSame DEF EditingInv, KnownInv, NoDialog
<1>8. ReplyInv'
  <2>1. CASE machine.reply = NoReply BY <1>3, <2>1 DEF ReplyInv
  <2>2. CASE machine.reply # NoReply
    BY <1>1, <1>3, <2>2 DEF EditingInv, ReplyInv
  <2> QED BY <2>1, <2>2
<1>9. SessionInv'
  BY <1>1, <1>3, <1>4 DEF EditingInv, SessionInv, Stands, Checking, NoDialog
<1>10. ReviewInv'
  <2>1. CASE dialog' = NoDialog BY <2>1 DEF ReviewInv, NoDialog
  <2>2. CASE dialog' = dialog
    <3>1. page.head <= Display /\ Display \in Nat
      BY <1>1, NumbersAre, OpenParts
         DEF EditingInv, ReviewInv, Display, Dialogs
    <3>2. Display' = Display BY <2>2 DEF Display
    <3>3. Covered(Display, machine.fence)'
      BY <1>2, <1>3, <3>1, <3>2 DEF Covered
    <3> QED
      BY <1>3, <1>4, <3>1, <3>2, <3>3 DEF ReviewInv, Checking
  <2> QED BY <2>1, <2>2
<1>11. DraftInv'
  <2>1. CASE wanted' = NoText BY <2>1 DEF DraftInv
  <2>2. CASE wanted' # NoText
    BY <1>4, <2>2 DEF EditingInv, DraftInv, TextOf, Discarded
  <2> QED BY <2>1, <2>2
<1> QED
  BY <1>3, <1>4, <1>5, <1>6, <1>7, <1>8, <1>9, <1>10, <1>11, OpenParts,
     PageSteps DEF EditingInv, EditingTypeOK

LEMMA CloseKeeps ==
  ASSUME EditingInv, Close \/ CloseAndDiscard, UNCHANGED scenario
  PROVE  EditingInv'
BY ResetKeeps DEF Close, CloseAndDiscard

LEMMA RetryKeeps ==
  ASSUME EditingInv, Retry, UNCHANGED scenario PROVE EditingInv'
<1> DEFINE a == machine.retry
           m == Superseded(machine)
<1>1. /\ dialog.open /\ dialog.operation = "none" /\ a # NoAttempt
      /\ machine.flight = NoAttempt /\ machine.reload = 0
      /\ machine' = [m EXCEPT !.state = "saving", !.retry = a, !.flight = a,
                              !.reply = NoReply]
      /\ requests' = requests \cup {a}
      /\ dialog' = [dialog EXCEPT !.operation = "retry"]
      /\ UNCHANGED <<history, stored, page, wanted, saves, visits, troubles>>
  BY DEF Retry, Quiet, Run
<1>2. a \in Sent /\ a \in Attempts
  BY <1>1, OpenParts DEF Sent, Machines
<1>3. /\ m \in Machines /\ Resting(machine, m)
      /\ m.check = NoCheck \/ ~m.check.fresh
  BY OpenParts, SupersededRests, SupersededIs
<1> HIDE DEF m
<1>4. /\ machine' \in Machines /\ machine'.fence = machine.fence
      /\ machine'.retry = a /\ machine'.flight = a
      /\ machine'.reload = 0 /\ machine'.check = m.check
      /\ machine'.reply = NoReply /\ machine'.state = "saving"
  BY <1>1, <1>2, <1>3 DEF Machines, Resting
<1>5. /\ dialog' \in Dialogs /\ dialog'.open
      /\ dialog'.review = dialog.review
      /\ dialog'.reloaded = dialog.reloaded
      /\ dialog'.operation = "retry"
  BY <1>1, OpenParts DEF Dialogs
<1>6. page.open BY <1>1 DEF EditingInv, SessionInv
<1>7. ~Checking("reconcile")
  BY <1>1 DEF EditingInv, ReviewInv
<1>8. ~Checking("reconcile")' /\ ~Stands'
  BY <1>3, <1>4, <1>7 DEF Checking, Stands, Resting
<1>9. KnownInv'
  BY <1>1, <1>3, <1>4, <1>5, KnownSame DEF EditingInv, KnownInv, Resting
<1>10. ReplyInv' BY <1>4 DEF ReplyInv
<1>11. SessionInv'
  BY <1>1, <1>4, <1>5, <1>6, <1>8 DEF EditingInv, SessionInv
<1>12. ReviewInv'
  <2>1. Display' = Display BY <1>5 DEF Display
  <2>2. Covered(Display, machine.fence)'
    BY <1>1, <1>4, <2>1 DEF EditingInv, ReviewInv, Covered
  <2> QED
    BY <1>1, <1>4, <1>8, <2>1, <2>2 DEF EditingInv, ReviewInv
<1>13. page.completing = "reading" /\ wanted # NoText =>
         TextOf(page.completed) = wanted
  BY DEF EditingInv, DraftInv
<1>14. requests' \subseteq Sent BY <1>1, <1>2, InSent
<1> HIDE DEF a
<1> QED
  BY <1>1, <1>2, <1>4, <1>5, <1>6, <1>9, <1>10, <1>11, <1>12, <1>13, <1>14,
     OpenParts, SessionKeeps

(* A save with a key of its own, as expected as the dialog can show.       *)
LEMMA SaveKeeps ==
  ASSUME EditingInv, dialog.open, machine.flight = NoAttempt,
         machine.reload = 0, NEW m \in Machines, Resting(machine, m)
           \/ m = [machine EXCEPT !.check = NoCheck],
         m.check = NoCheck \/ ~Checking("reconcile"), Save(m),
         UNCHANGED <<history, stored, page, wanted, visits, troubles,
                     scenario>>
  PROVE  EditingInv'
<1> DEFINE a == [key |-> saves + 1, body |-> page.draft,
                 expected |-> m.fence, shown |-> Display]
           n == Superseded(m)
<1>1. /\ saves < scenario.saves /\ saves' = saves + 1
      /\ requests' = requests \cup {a}
      /\ machine' = [n EXCEPT !.state = "saving", !.retry = a, !.flight = a,
                              !.reply = NoReply]
      /\ dialog' = [dialog EXCEPT !.operation = "save"]
  BY DEF Save, Run
<1>2. /\ m.fence = machine.fence /\ m.reload = 0
      /\ m.check # NoCheck =>
           /\ machine.check # NoCheck
           /\ m.check.kind = machine.check.kind
           /\ m.check.expected = machine.check.expected
           /\ m.check.from = machine.check.from
  BY OpenParts DEF Resting, Machines
<1>3. /\ page.open /\ page.completing # "refreshing" /\ page.loading = 0
      /\ page.head <= Display /\ Covered(Display, machine.fence)
  BY DEF EditingInv, SessionInv, ReviewInv
<1>4. /\ saves \in Nat /\ saves' \in 1..MaxSaves
      /\ machine.fence \in Numbers /\ machine.fence <= Newest
  <2>1. saves \in 0..MaxSaves /\ scenario.saves \in 0..MaxSaves
    BY ScenarioIs DEF EditingInv, EditingTypeOK
  <2>2. saves \in Nat /\ saves' \in 1..MaxSaves
    BY <1>1, <2>1, NumbersAre
  <2>3. machine.fence \in 1..Newest /\ machine.fence \in Numbers
    BY OpenParts DEF EditingInv, KnownInv, Known, Machines
  <2>4. Newest \in Nat BY HistoryIs DEF EditingInv
  <2> QED BY <2>2, <2>3, <2>4
<1>5. Display \in Numbers /\ page.draft \in Drafts
  BY OpenParts DEF Display, Dialogs, Pages
<1>6. a \in Attempts BY <1>1, <1>2, <1>4, <1>5 DEF Attempts
<1>7. /\ a.key = saves + 1 /\ a.body = page.draft
      /\ a.expected = machine.fence /\ a.shown = Display
  BY <1>2
<1>8. /\ n \in Machines /\ Resting(m, n)
      /\ n.check = NoCheck \/ ~n.check.fresh
  BY SupersededRests, SupersededIs
<1> HIDE DEF a, n
<1>9. /\ machine' \in Machines /\ machine'.fence = machine.fence
      /\ machine'.retry = a /\ machine'.flight = a
      /\ machine'.reload = 0 /\ machine'.check = n.check
      /\ machine'.reply = NoReply /\ machine'.state = "saving"
  BY <1>1, <1>2, <1>6, <1>8 DEF Machines, Resting
<1>10. /\ dialog' \in Dialogs /\ dialog'.open
       /\ dialog'.review = dialog.review
       /\ dialog'.reloaded = dialog.reloaded
       /\ dialog'.operation = "save"
  BY <1>1, OpenParts DEF Dialogs
<1>11. ~Checking("reconcile")' /\ ~Stands'
  BY <1>2, <1>8, <1>9 DEF Checking, Stands, Resting
<1>12. EditingTypeOK'
  BY <1>1, <1>4, <1>6, <1>9, <1>10, NumbersAre
     DEF EditingInv, EditingTypeOK
<1>13. KnownInv'
  <2>1. machine'.check # NoCheck =>
          machine'.check.expected \in Known /\ machine'.check.from \in Known
    BY <1>2, <1>8, <1>9 DEF EditingInv, KnownInv, Resting
  <2> QED
    BY <1>9, <1>10, <2>1, KnownSame DEF EditingInv, KnownInv
<1>14. KeysInv'
  <2>1. Sent' \subseteq Sent \cup {a} BY <1>1, <1>9 DEF Sent
  <2>2. Newest' = Newest BY KnownSame
  <2>3. \A b \in Sent : b.key <= saves /\ b.key \in Nat
    BY SentIs DEF EditingInv, KeysInv
  <2>4. \A b \in Sent' : b.key <= saves' /\ b.expected <= Newest
    BY <1>1, <1>4, <1>7, <2>1, <2>3 DEF EditingInv, KeysInv
  <2>5. \A b \in Sent' : Covered(b.shown, b.expected)
    BY <1>3, <1>7, <2>1 DEF EditingInv, KeysInv
  <2>6. \A b, c \in Sent' : b.key = c.key => b = c
    BY <1>4, <1>7, <2>1, <2>3 DEF EditingInv, KeysInv
  <2>7. \A v \in 1..Newest : history[v].key <= saves /\ history[v].key \in Nat
    BY HistoryIs DEF EditingInv, KeysInv
  <2>8. \A v \in 1..Newest : history[v].key <= saves'
    BY <1>1, <1>4, <2>7
  <2>9. \A v \in 1..Newest : history[v].key # a.key
    BY <1>4, <1>7, <2>7
  <2>10. \A b \in Sent', v \in 1..Newest :
           history[v].key = b.key =>
             history[v].body = b.body /\ history[v].shown = b.shown
    BY <2>1, <2>9 DEF EditingInv, KeysInv
  <2>11. \A b \in Sent' : Covered(b.shown, b.expected)'
    BY <2>5 DEF Covered
  <2> QED BY <2>2, <2>4, <2>6, <2>8, <2>10, <2>11 DEF KeysInv
<1>15. ReplyInv' BY <1>9 DEF ReplyInv
<1>16. SessionInv'
  BY <1>3, <1>9, <1>10, <1>11 DEF EditingInv, SessionInv
<1>17. ReviewInv'
  <2>1. Display' = Display BY <1>10 DEF Display
  <2>2. Covered(Display, machine.fence)'
    BY <1>3, <1>9, <2>1 DEF Covered
  <2>3. wanted # NoText => page.draft = wanted
    BY <1>3 DEF EditingInv, DraftInv
  <2> QED
    BY <1>3, <1>7, <1>9, <1>11, <2>1, <2>2, <2>3 DEF ReviewInv
<1>18. DraftInv' BY DEF EditingInv, DraftInv, TextOf
<1>19. NothingOverwrittenUnseen' BY NothingKept DEF EditingInv
<1> QED
  BY <1>12, <1>13, <1>14, <1>15, <1>16, <1>17, <1>18, <1>19 DEF EditingInv

LEMMA ConfirmKeeps ==
  ASSUME EditingInv, Confirm, UNCHANGED scenario PROVE EditingInv'
<1> DEFINE c == [kind |-> "reconcile", expected |-> machine.fence,
                 from |-> Newest, fresh |-> TRUE]
<1>1. /\ dialog.open /\ dialog.operation = "none"
      /\ machine.state = "idle"
      /\ UNCHANGED <<history, stored, page, wanted, visits, troubles>>
  BY DEF Confirm, Quiet
<1>2. /\ page.open /\ page.completing # "refreshing" /\ page.loading = 0
      /\ machine.flight = NoAttempt /\ machine.reload = 0
      /\ ~Checking("reconcile")
  BY <1>1 DEF EditingInv, SessionInv, ReviewInv
<1>3. CASE Busy
  BY <1>1, <1>2, <1>3, OpenParts, Rests, SaveKeeps DEF Confirm
<1>4. CASE ~Busy
  <2>1. /\ machine' = [machine EXCEPT !.check = c]
        /\ dialog' = [dialog EXCEPT !.operation = "reconcile"]
        /\ UNCHANGED <<requests, saves>>
    BY <1>4 DEF Confirm
  <2>2. machine.fence \in Known /\ Newest \in Known /\ Newest \in Numbers
    BY HistoryIs DEF EditingInv, KnownInv, Known
  <2>3. c \in Checks /\ c.expected \in Known /\ c.from \in Known
    BY <2>2, OpenParts DEF Checks, Machines
  <2> HIDE DEF c
  <2>4. /\ machine' \in Machines /\ machine'.fence = machine.fence
        /\ machine'.retry = machine.retry /\ machine'.flight = NoAttempt
        /\ machine'.reload = 0 /\ machine'.check = c
        /\ machine'.reply = machine.reply
    BY <1>2, <2>1, <2>3, OpenParts DEF Machines
  <2>5. /\ dialog' \in Dialogs /\ dialog'.open
        /\ dialog'.review = dialog.review
        /\ dialog'.reloaded = dialog.reloaded
        /\ dialog'.operation = "reconcile"
    BY <1>1, <2>1, OpenParts DEF Dialogs
  <2>6. KnownInv'
    BY <1>1, <2>3, <2>4, <2>5, KnownSame DEF EditingInv, KnownInv
  <2>7. ReplyInv' BY <1>1, <1>2, <2>4 DEF EditingInv, ReplyInv
  <2>8. SessionInv'
    BY <1>1, <1>2, <2>4, <2>5 DEF EditingInv, SessionInv
  <2>9. ReviewInv'
    <3>1. Display' = Display BY <2>5 DEF Display
    <3> QED
      BY <1>1, <2>4, <2>5, <3>1 DEF EditingInv, ReviewInv, Covered
  <2>10. page.completing = "reading" /\ wanted # NoText =>
           TextOf(page.completed) = wanted
    BY DEF EditingInv, DraftInv
  <2> QED
    BY <1>1, <1>2, <2>1, <2>4, <2>5, <2>6, <2>7, <2>8, <2>9, <2>10,
       OpenParts, InSent, SessionKeeps
<1> QED BY <1>3, <1>4

LEMMA ReconciledKeeps ==
  ASSUME EditingInv, Reconciled, UNCHANGED scenario PROVE EditingInv'
<1> DEFINE c == machine.check
           m == [machine EXCEPT !.check = NoCheck]
<1>1. /\ c # NoCheck /\ c.kind = "reconcile" /\ page.open
      /\ UNCHANGED <<history, stored, wanted, visits, troubles>>
  BY OpenWhileChecked DEF Reconciled, Checking
<1>2. /\ m \in Machines /\ m.check = NoCheck /\ m.fence = machine.fence
      /\ m.retry = machine.retry /\ m.flight = machine.flight
      /\ m.reply = machine.reply /\ m.reload = machine.reload
      /\ m.state = machine.state /\ m.watched = machine.watched
  BY OpenParts DEF Machines
<1>3. machine.flight = NoAttempt
  BY <1>1 DEF EditingInv, SessionInv, Checking
<1>4. c.expected \in 1..Newest /\ c.expected \in Numbers
  BY <1>1, HistoryIs DEF EditingInv, KnownInv, Known
<1>5. dialog.open => dialog.operation = "reconcile" /\ machine.reload = 0
  BY <1>1 DEF EditingInv, ReviewInv, Checking
<1>6. ~dialog.open => page.completing = "refreshing"
  BY <1>1 DEF EditingInv, SessionInv, Checking
<1>7. page.completing = "reading" /\ wanted # NoText =>
        TextOf(page.completed) = wanted
  BY DEF EditingInv, DraftInv
<1>8. CASE c.fresh /\ SameAs(c.expected)
  <2>1. /\ machine' = [m EXCEPT !.state = "unchanged", !.retry = NoAttempt]
        /\ page' = Completing(c.expected) /\ dialog' = Settled
        /\ UNCHANGED <<requests, saves>>
    BY <1>8 DEF Reconciled
  <2>2. machine.reload = 0 BY <1>1, <1>8 DEF EditingInv, SessionInv, Stands
  <2> HIDE DEF m
  <2>3. /\ machine' \in Machines /\ machine'.check = NoCheck
        /\ machine'.fence = machine.fence /\ machine'.retry = NoAttempt
        /\ machine'.flight = NoAttempt /\ machine'.reload = 0
        /\ machine'.reply = machine.reply
    BY <1>2, <1>3, <2>1, <2>2 DEF Machines
  <2>4. /\ page' \in Pages /\ page'.open /\ page'.head = page.head
        /\ page'.source = page.source /\ page'.draft = page.draft
        /\ page'.asking = page.asking /\ page'.loading = page.loading
        /\ \/ page' = page
           \/ /\ page'.completing = "reading"
              /\ page'.completed = c.expected /\ dialog.open
    BY <1>1, <1>4, <2>1, CompletingIs
  <2>5. wanted # NoText => TextOf(c.expected) = wanted
    <3>1. wanted # NoText => page.draft = wanted
      BY <1>1 DEF EditingInv, DraftInv
    <3>2. page.draft # Gone /\ page.draft = history[c.expected].body
      BY <1>8, OpenParts, EditingAssumption DEF SameAs, Pages
    <3> HIDE DEF c
    <3> QED BY <3>1, <3>2 DEF TextOf
  <2>6. page'.completing = "reading" /\ wanted # NoText =>
          TextOf(page'.completed) = wanted
    BY <1>7, <2>4, <2>5
  <2>7. KnownInv'
    <3>1. page'.completed \in Known
      BY <1>4, <2>4 DEF EditingInv, KnownInv, Known
    <3> HIDE DEF c
    <3> QED
      BY <1>1, <2>1, <2>3, <2>4, <3>1, KnownSame, SettledIs
         DEF EditingInv, KnownInv
  <2>8. ReplyInv' BY <1>1, <1>3, <2>3 DEF EditingInv, ReplyInv
  <2>9. SessionInv'
    BY <1>1, <1>6, <2>1, <2>3, <2>4, SettledIs
       DEF EditingInv, SessionInv, Stands, Checking
  <2>10. ReviewInv'
    <3>1. Display' = Display BY <2>1, SettledIs DEF Display
    <3> QED
      BY <1>1, <2>1, <2>3, <2>4, <3>1, SettledIs
         DEF EditingInv, ReviewInv, Covered, Checking
  <2> QED
    BY <1>1, <2>1, <2>3, <2>4, <2>6, <2>7, <2>8, <2>9, <2>10, OpenParts,
       SettledIs, InSent, SessionKeeps
<1>9. CASE /\ ~(c.fresh /\ SameAs(c.expected))
           /\ c.fresh /\ dialog.operation = "reconcile"
  <2>1. Save(m) /\ page' = page BY <1>9 DEF Reconciled
  <2>2. dialog.open /\ machine.reload = 0
    BY <1>5, <1>9 DEF EditingInv, SessionInv
  <2>3. m = [machine EXCEPT !.check = NoCheck] OBVIOUS
  <2> HIDE DEF m
  <2> QED BY <1>1, <1>2, <1>3, <2>1, <2>2, <2>3, SaveKeeps
<1>10. CASE /\ ~(c.fresh /\ SameAs(c.expected))
            /\ ~(c.fresh /\ dialog.operation = "reconcile")
  <2>1. /\ machine' = m /\ dialog' = Settled
        /\ UNCHANGED <<requests, page, saves>>
    BY <1>10 DEF Reconciled
  <2> HIDE DEF m
  <2>2. KnownInv'
    BY <1>1, <1>2, <2>1, KnownSame, SettledIs DEF EditingInv, KnownInv
  <2>3. ReplyInv' BY <1>1, <1>2, <2>1 DEF EditingInv, ReplyInv
  <2>4. SessionInv'
    BY <1>1, <1>2, <2>1, SettledIs
       DEF EditingInv, SessionInv, Stands, Checking
  <2>5. ReviewInv'
    <3>1. Display' = Display BY <2>1, SettledIs DEF Display
    <3> QED
      BY <1>1, <1>2, <1>5, <2>1, <3>1, SettledIs
         DEF EditingInv, ReviewInv, Covered, Checking
  <2> QED
    BY <1>1, <1>2, <1>7, <2>1, <2>2, <2>3, <2>4, <2>5, OpenParts,
       SettledIs, InSent, SessionKeeps
<1> QED BY <1>8, <1>9, <1>10

LEMMA ReloadKeeps ==
  ASSUME EditingInv, Reload, UNCHANGED scenario PROVE EditingInv'
<1> DEFINE n == Superseded(machine)
<1>1. /\ dialog.open /\ dialog.operation = "none"
      /\ machine.state = "stale" /\ machine.reload = 0
      /\ machine' = [n EXCEPT !.retry = NoAttempt, !.reload = Newest,
                              !.watched = TRUE]
      /\ dialog' = [dialog EXCEPT !.operation = "reload"]
      /\ UNCHANGED <<history, requests, stored, page, wanted, saves, visits,
                     troubles>>
  BY DEF Reload, Quiet
<1>2. /\ page.open /\ machine.flight = NoAttempt /\ ~Checking("reconcile")
  BY <1>1 DEF EditingInv, SessionInv, ReviewInv
<1>3. /\ Newest \in Known /\ Newest \in Numbers /\ machine.fence <= Newest
      /\ page.head <= Newest
  BY HistoryIs DEF EditingInv, KnownInv, Known
<1>4. /\ n \in Machines /\ Resting(machine, n)
      /\ n.check = NoCheck \/ ~n.check.fresh
  BY OpenParts, SupersededRests, SupersededIs
<1> HIDE DEF n
<1>5. /\ machine' \in Machines /\ machine'.fence = machine.fence
      /\ machine'.retry = NoAttempt /\ machine'.flight = NoAttempt
      /\ machine'.reload = Newest /\ machine'.watched
      /\ machine'.reply = machine.reply /\ machine'.check = n.check
  BY <1>1, <1>2, <1>3, <1>4 DEF Machines, Resting
<1>6. /\ dialog' \in Dialogs /\ dialog'.open
      /\ dialog'.review = dialog.review
      /\ dialog'.reloaded = dialog.reloaded
      /\ dialog'.operation = "reload"
  BY <1>1, OpenParts DEF Dialogs
<1>7. ~Checking("reconcile")' /\ ~Stands'
  BY <1>2, <1>4, <1>5 DEF Checking, Stands, Resting
<1>8. KnownInv'
  BY <1>1, <1>3, <1>4, <1>5, <1>6, KnownSame
     DEF EditingInv, KnownInv, Resting
<1>9. ReplyInv' BY <1>1, <1>2, <1>5 DEF EditingInv, ReplyInv
<1>10. SessionInv'
  BY <1>1, <1>2, <1>5, <1>6, <1>7 DEF EditingInv, SessionInv
<1>11. ReviewInv'
  <2>1. Display' = Display BY <1>6 DEF Display
  <2> QED
    BY <1>1, <1>3, <1>5, <1>6, <1>7, <2>1
       DEF EditingInv, ReviewInv, Covered
<1>12. page.completing = "reading" /\ wanted # NoText =>
         TextOf(page.completed) = wanted
  BY DEF EditingInv, DraftInv
<1> QED
  BY <1>1, <1>2, <1>5, <1>6, <1>8, <1>9, <1>10, <1>11, <1>12, OpenParts,
     InSent, SessionKeeps

LEMMA ReloadedKeeps ==
  ASSUME EditingInv, Reloaded, UNCHANGED scenario PROVE EditingInv'
<1> DEFINE n == Superseded(machine)
<1>1. /\ machine.reload # 0
      /\ UNCHANGED <<history, requests, wanted, saves, visits, troubles>>
  BY DEF Reloaded
<1>2. PICK v \in machine.reload..Newest :
        /\ machine' = [n EXCEPT !.state = "idle",
                                !.fence = Later(v, machine.fence),
                                !.reload = 0, !.watched = FALSE]
        /\ page' = [page EXCEPT !.head = Later(v, page.head)]
        /\ stored' = IF stored # NoDraft /\ v >= page.head
                     THEN [stored EXCEPT !.fence = v] ELSE stored
        /\ dialog' = IF machine.watched
                     THEN [Settled EXCEPT !.reloaded = v] ELSE dialog
  BY DEF Reloaded
<1>3. machine.reload \in 1..Newest
  BY <1>1 DEF EditingInv, KnownInv, Known
<1>4. v \in 1..Newest /\ v >= machine.reload /\ v \in Nat
  BY <1>3
<1>5. v \in Numbers /\ Newest \in Nat
  BY <1>4, HistoryIs DEF EditingInv
<1>6. machine.fence \in 1..Newest /\ page.head \in 1..Newest
  BY DEF EditingInv, KnownInv, Known
<1>7. machine.fence \in Nat /\ page.head \in Nat BY <1>6
<1> DEFINE fence == Later(v, machine.fence)
           head == Later(v, page.head)
<1>8. /\ fence \in {v, machine.fence} /\ fence >= machine.fence
      /\ head \in {v, page.head} /\ head >= page.head
  BY <1>4, <1>7, LaterIs
<1>9. /\ n \in Machines /\ Resting(machine, n)
      /\ n.check = NoCheck \/ ~n.check.fresh
  BY OpenParts, SupersededRests, SupersededIs
<1>10. /\ page.open /\ machine.flight = NoAttempt
       /\ machine.retry = NoAttempt
  BY <1>1 DEF EditingInv, SessionInv, NewMachine
<1>11. dialog.open => /\ machine.watched /\ machine.fence <= v
                      /\ page.head <= v /\ ~Checking("reconcile")
  BY <1>1, <1>3, <1>4, <1>7 DEF EditingInv, ReviewInv
<1>12. dialog.open => fence = v /\ head = v
  BY <1>4, <1>7, <1>11 DEF Later
<1>13. ~dialog.open => page.completing = "refreshing"
  BY <1>1, <1>10 DEF EditingInv, SessionInv
<1>14. /\ machine.fence \in Numbers /\ page.head \in Numbers
       /\ machine \in Machines /\ page \in Pages
  BY OpenParts DEF Machines, Pages
<1> HIDE DEF n, fence, head
<1>15. /\ machine' \in Machines /\ machine'.fence = fence
       /\ machine'.retry = NoAttempt /\ machine'.flight = NoAttempt
       /\ machine'.reload = 0 /\ machine'.check = n.check
       /\ machine'.reply = machine.reply
  <2>1. /\ machine' = [n EXCEPT !.state = "idle", !.fence = fence,
                          !.reload = 0, !.watched = FALSE]
        /\ fence \in Numbers
    BY <1>2, <1>5, <1>8, <1>14 DEF fence
  <2> QED BY <1>9, <1>10, <2>1 DEF Machines, Resting
<1>16. /\ page' \in Pages /\ page'.open = page.open /\ page'.head = head
       /\ page'.source = page.source /\ page'.draft = page.draft
       /\ page'.asking = page.asking /\ page'.loading = page.loading
       /\ page'.completing = page.completing
       /\ page'.completed = page.completed
  <2>1. page' = [page EXCEPT !.head = head] /\ head \in Numbers
    BY <1>2, <1>5, <1>8, <1>14 DEF head
  <2> QED BY <1>14, <2>1 DEF Pages
<1>17. /\ dialog' \in Dialogs /\ dialog'.open = dialog.open
       /\ dialog'.review = dialog.review
       /\ dialog'.reloaded \in {v, dialog.reloaded}
       /\ ~dialog.open => dialog'.operation = "none"
       /\ dialog.open => dialog'.reloaded = v
  <2>1. CASE machine.watched
    <3>1. /\ dialog' = [Settled EXCEPT !.reloaded = v]
          /\ Settled \in Dialogs /\ Settled.open = dialog.open
          /\ Settled.review = dialog.review
          /\ Settled.operation = "none"
      BY <1>2, <2>1, SettledIs
    <3> QED BY <1>5, <3>1 DEF Dialogs
  <2>2. CASE ~machine.watched
    BY <1>2, <1>11, <2>2, OpenParts DEF EditingInv, SessionInv
  <2> QED BY <2>1, <2>2
<1>18. /\ stored' \in StoredDrafts \cup {NoDraft}
       /\ \/ stored' = stored
          \/ /\ stored # NoDraft /\ stored' # NoDraft
             /\ stored'.source = stored.source /\ stored'.text = stored.text
             /\ stored'.fence = v
  BY <1>2, <1>5, EditingAssumption DEF EditingInv, EditingTypeOK, StoredDrafts
<1>19. KnownInv'
  <2>1. v \in Known /\ fence \in Known /\ head \in Known
    BY <1>4, <1>6, <1>8 DEF Known
  <2>2. machine'.check # NoCheck =>
          machine'.check.expected \in Known /\ machine'.check.from \in Known
    BY <1>9, <1>15 DEF EditingInv, KnownInv, Resting
  <2>3. dialog'.review \in Known /\ dialog'.reloaded \in {0} \cup Known
    BY <1>17, <2>1 DEF EditingInv, KnownInv
  <2>4. /\ stored' # NoDraft => {stored'.source, stored'.fence} \subseteq Known
        /\ page'.source \in Known /\ page'.completed \in Known
        /\ {page'.asking, page'.loading} \subseteq {0} \cup Known
        /\ machine'.reply # NoReply => machine'.reply.version \in Known
    BY <1>15, <1>16, <1>18, <2>1 DEF EditingInv, KnownInv
  <2> QED
    BY <1>1, <1>15, <1>16, <2>1, <2>2, <2>3, <2>4, KnownSame DEF KnownInv
<1>20. ReplyInv' BY <1>1, <1>10, <1>15 DEF EditingInv, ReplyInv
<1>21. SessionInv'
  BY <1>10, <1>13, <1>15, <1>16, <1>17 DEF EditingInv, SessionInv
<1>22. ReviewInv'
  <2>1. CASE dialog.open
    <3>1. Display' = v BY <1>3, <1>4, <1>17, <2>1 DEF Display
    <3>2. Covered(Display, machine.fence)'
      BY <1>4, <1>12, <1>15, <2>1, <3>1 DEF Covered
    <3>3. ~Checking("reconcile")'
      BY <1>9, <1>11, <1>15, <2>1 DEF Checking, Resting
    <3> QED
      BY <1>4, <1>12, <1>15, <1>16, <2>1, <3>1, <3>2, <3>3 DEF ReviewInv
  <2>2. CASE ~dialog.open BY <1>17, <2>2 DEF ReviewInv
  <2> QED BY <2>1, <2>2
<1>23. page'.completing = "reading" /\ wanted # NoText =>
         TextOf(page'.completed) = wanted
  BY <1>16 DEF EditingInv, DraftInv
<1> QED
  BY <1>1, <1>10, <1>15, <1>16, <1>17, <1>18, <1>19, <1>20, <1>21, <1>22,
     <1>23, OpenParts, InSent, SessionKeeps

LEMMA ReloadFailsKeeps ==
  ASSUME EditingInv, ReloadFails, UNCHANGED scenario PROVE EditingInv'
<1>1. /\ machine.reload # 0 /\ Trouble
      /\ machine' = [machine EXCEPT !.state = "error", !.reload = 0,
                                    !.watched = FALSE]
      /\ dialog' = IF machine.watched THEN Settled ELSE dialog
      /\ UNCHANGED <<history, requests, stored, page, wanted, saves, visits>>
  BY DEF ReloadFails
<1>2. /\ page.open /\ machine.flight = NoAttempt
      /\ machine.retry = NoAttempt
  BY <1>1 DEF EditingInv, SessionInv, NewMachine
<1>3. dialog.open => ~Checking("reconcile")
  BY <1>1 DEF EditingInv, ReviewInv
<1>4. ~dialog.open => page.completing = "refreshing"
  BY <1>1, <1>2 DEF EditingInv, SessionInv
<1>5. /\ machine' \in Machines /\ machine'.fence = machine.fence
      /\ machine'.retry = NoAttempt /\ machine'.flight = NoAttempt
      /\ machine'.reload = 0 /\ machine'.check = machine.check
      /\ machine'.reply = machine.reply
  BY <1>1, <1>2, OpenParts DEF Machines
<1>6. /\ dialog' \in Dialogs /\ dialog'.open = dialog.open
      /\ dialog'.review = dialog.review
      /\ dialog'.reloaded = dialog.reloaded
      /\ ~dialog.open => dialog'.operation = "none"
  BY <1>1, OpenParts, SettledIs DEF EditingInv, SessionInv
<1>7. troubles' \in 0..MaxTroubles
  BY <1>1, TroubleIs DEF EditingInv
<1>8. KnownInv' BY <1>1, <1>5, <1>6, KnownSame DEF EditingInv, KnownInv
<1>9. ReplyInv' BY <1>1, <1>2, <1>5 DEF EditingInv, ReplyInv
<1>10. SessionInv'
  BY <1>1, <1>2, <1>4, <1>5, <1>6 DEF EditingInv, SessionInv
<1>11. ReviewInv'
  <2>1. Display' = Display BY <1>6 DEF Display
  <2> QED
    BY <1>1, <1>3, <1>5, <1>6, <2>1
       DEF EditingInv, ReviewInv, Covered, Checking
<1>12. page.completing = "reading" /\ wanted # NoText =>
         TextOf(page.completed) = wanted
  BY DEF EditingInv, DraftInv
<1> QED
  BY <1>1, <1>2, <1>5, <1>6, <1>7, <1>8, <1>9, <1>10, <1>11, <1>12,
     OpenParts, InSent, SessionKeeps

-----------------------------------------------------------------------------
(* The completion of a save.                                               *)

LEMMA AdoptFailsKeeps ==
  ASSUME EditingInv, AdoptFails, UNCHANGED scenario PROVE EditingInv'
<1>1. /\ page.completing = "reading" /\ Trouble
      /\ page' = [page EXCEPT !.completing = "no"]
      /\ UNCHANGED <<history, requests, stored, machine, dialog, wanted,
                     saves, visits>>
  BY DEF AdoptFails
<1>2. page.open /\ dialog.open
  BY <1>1 DEF EditingInv, SessionInv, NoPage
<1>3. /\ page' \in Pages /\ page'.open /\ page'.head = page.head
      /\ page'.source = page.source /\ page'.draft = page.draft
      /\ page'.asking = page.asking /\ page'.loading = page.loading
      /\ page'.completing = "no" /\ page'.completed = page.completed
  BY <1>1, <1>2, OpenParts DEF Pages
<1>4. troubles' \in 0..MaxTroubles
  BY <1>1, TroubleIs DEF EditingInv
<1>5. KnownInv' BY <1>1, <1>3, KnownSame DEF EditingInv, KnownInv
<1>6. ReplyInv' BY <1>1 DEF EditingInv, ReplyInv
<1>7. SessionInv'
  BY <1>1, <1>2, <1>3 DEF EditingInv, SessionInv, Stands, Checking
<1>8. ReviewInv'
  BY <1>1, <1>3 DEF EditingInv, ReviewInv, Display, Covered, Checking
<1> QED
  BY <1>1, <1>2, <1>3, <1>4, <1>5, <1>6, <1>7, <1>8, OpenParts, InSent,
     SessionKeeps

LEMMA AdoptKeeps ==
  ASSUME EditingInv, Adopt, UNCHANGED scenario PROVE EditingInv'
<1> DEFINE v == page.completed
           m == IF Busy THEN machine ELSE Reset(machine, page.head)
           n == Superseded(m)
           fence == Later(v, m.fence)
<1>1. /\ page.completing = "reading" /\ dialog' = NoDialog
      /\ UNCHANGED <<history, requests, saves, visits, troubles>>
  BY DEF Adopt
<1>2. page.open BY <1>1 DEF EditingInv, SessionInv, NoPage
<1>3. /\ v \in Known /\ v \in Numbers /\ TextOf(v) \in Drafts
      /\ page.head \in Known /\ page.head \in Numbers
      /\ machine.fence \in Known
  BY HistoryIs DEF EditingInv, KnownInv, Known
<1>4. /\ m \in Machines /\ m.fence \in {machine.fence, page.head}
      /\ m.flight = machine.flight /\ m.reply = machine.reply
      /\ m.reload = machine.reload /\ m.check = machine.check
      /\ m.retry \in {machine.retry, NoAttempt}
      /\ m.flight # NoAttempt => m = machine
  <2>1. CASE Busy BY <2>1, OpenParts
  <2>2. CASE ~Busy
    <3>1. m = [machine EXCEPT !.state = "idle", !.fence = page.head,
                              !.retry = NoAttempt]
      BY <2>2 DEF Reset
    <3>2. machine.flight = NoAttempt BY <2>2 DEF Busy
    <3> HIDE DEF m
    <3> QED BY <1>3, <3>1, <3>2, OpenParts DEF Machines
  <2> QED BY <2>1, <2>2
<1> HIDE DEF m
<1>5. n \in Machines /\ Resting(m, n) BY <1>4, SupersededRests
<1>6. v \in Nat /\ m.fence \in Nat /\ m.fence \in Known
  BY <1>3, <1>4, NumbersAre DEF Known
<1>7. fence \in {v, m.fence} BY <1>6, LaterIs
<1>8. /\ \/ machine' = [m EXCEPT !.watched = FALSE]
         \/ machine' = [n EXCEPT !.fence = fence, !.watched = FALSE]
      /\ \/ /\ v >= page.head
            /\ stored' = NoDraft
            /\ wanted' = IF wanted = TextOf(v) THEN NoText ELSE wanted
            /\ page' = [page EXCEPT !.head = v, !.source = v,
                          !.draft = TextOf(v), !.asking = 0, !.loading = 0,
                          !.completing = "refreshing"]
         \/ /\ stored' = stored /\ wanted' = wanted
            /\ page' = [page EXCEPT !.asking = 0,
                                    !.completing = "refreshing"]
  BY DEF Adopt, m
<1> HIDE DEF n, fence
<1>9. /\ machine' \in Machines /\ machine'.fence \in {v, m.fence}
      /\ machine'.flight = machine.flight /\ machine'.reply = machine.reply
      /\ machine'.reload = machine.reload /\ machine'.retry = m.retry
      /\ machine'.state = m.state
      /\ machine'.check = m.check \/ machine'.check = n.check
  <2>1. fence \in Numbers
    BY <1>3, <1>4, <1>7 DEF Machines
  <2>2. CASE machine' = [m EXCEPT !.watched = FALSE]
    BY <1>4, <2>2 DEF Machines
  <2>3. CASE machine' = [n EXCEPT !.fence = fence, !.watched = FALSE]
    BY <1>4, <1>5, <1>7, <2>1, <2>3 DEF Machines, Resting
  <2> QED BY <1>8, <2>2, <2>3
<1>10. /\ page' \in Pages /\ page'.open /\ page'.head \in Known
       /\ page'.source \in Known /\ page'.completed \in Known
       /\ page'.asking = 0 /\ page'.loading \in {0, page.loading}
       /\ page'.completing = "refreshing"
  <2>1. /\ page \in Pages /\ page.source \in Known /\ page.head \in Known
        /\ page.loading \in {0} \cup Numbers
    BY OpenParts DEF EditingInv, KnownInv, Pages
  <2> HIDE DEF v
  <2>2. v \in Known /\ page.completed = v BY <1>3 DEF v
  <2> QED BY <1>2, <1>3, <1>8, <2>1, <2>2 DEF Pages
<1>11. machine'.check # NoCheck =>
         /\ machine.check # NoCheck
         /\ machine'.check.kind = machine.check.kind
         /\ machine'.check.expected = machine.check.expected
         /\ machine'.check.from = machine.check.from
         /\ machine'.check.fresh => machine.check.fresh
  BY <1>4, <1>5, <1>9 DEF Resting
<1>12. Sent' \subseteq Sent BY <1>1, <1>4, <1>9 DEF Sent
<1>13. KnownInv'
  <2>1. machine'.check # NoCheck =>
          machine'.check.expected \in Known /\ machine'.check.from \in Known
    BY <1>11 DEF EditingInv, KnownInv
  <2>2. machine'.fence \in Known /\ 1 \in Known
    <3>1. machine'.fence \in Known BY <1>3, <1>6, <1>9
    <3>2. 1 \in Known BY HistoryIs DEF EditingInv, Known
    <3> QED BY <3>1, <3>2
  <2>3. stored' # NoDraft => {stored'.source, stored'.fence} \subseteq Known
    BY <1>8 DEF EditingInv, KnownInv
  <2>4. /\ page'.loading \in {0} \cup Known
        /\ machine'.reload \in {0} \cup Known
        /\ machine'.reply # NoReply => machine'.reply.version \in Known
    BY <1>9, <1>10 DEF EditingInv, KnownInv
  <2>5. dialog'.review = 1 /\ dialog'.reloaded = 0 BY <1>1 DEF NoDialog
  <2> QED
    BY <1>1, <1>10, <2>1, <2>2, <2>3, <2>4, <2>5, KnownSame DEF KnownInv
<1>14. ReplyInv' BY <1>1, <1>9 DEF EditingInv, ReplyInv
<1>15. SessionInv'
  <2>1. ~dialog'.open /\ dialog'.operation = "none"
    BY <1>1 DEF NoDialog
  <2>2. machine'.flight # NoAttempt =>
          /\ machine'.retry = machine'.flight /\ machine'.reload = 0
          /\ machine'.state = "saving" /\ ~Stands' /\ ~Checking("reconcile")'
    BY <1>4, <1>9, <1>11 DEF EditingInv, SessionInv, Stands, Checking
  <2>3. machine'.reload # 0 => machine'.retry = NoAttempt /\ ~Stands'
    BY <1>4, <1>9, <1>11 DEF EditingInv, SessionInv, Stands
  <2> QED BY <1>10, <2>1, <2>2, <2>3 DEF SessionInv
<1>16. ReviewInv' BY <1>1 DEF ReviewInv, NoDialog
<1>17. DraftInv'
  <2>1. CASE wanted' = NoText BY <2>1 DEF DraftInv
  <2>2. CASE wanted' # NoText
    <3>1. wanted # NoText => wanted = TextOf(v)
      BY <1>1 DEF EditingInv, DraftInv
    <3>2. /\ stored' = stored /\ wanted' = wanted
          /\ page' = [page EXCEPT !.asking = 0, !.completing = "refreshing"]
      BY <1>8, <2>2, <3>1
    <3>3. /\ page'.draft = page.draft /\ page'.source = page.source
          /\ page'.loading = page.loading
      BY <3>2, OpenParts DEF Pages
    <3> QED
      BY <1>1, <1>2, <1>10, <2>2, <3>2, <3>3 DEF EditingInv, DraftInv, TextOf
  <2> QED BY <2>1, <2>2
<1>18. /\ stored' \in StoredDrafts \cup {NoDraft}
       /\ wanted' \in Drafts \cup {NoText}
  BY <1>8, OpenParts
<1>19. NoDialog \in Dialogs BY NumbersAre DEF NoDialog, Dialogs
<1> QED
  BY <1>1, <1>9, <1>10, <1>12, <1>13, <1>14, <1>15, <1>16, <1>17, <1>18,
     <1>19, PageSteps DEF EditingInv, EditingTypeOK

-----------------------------------------------------------------------------
LEMMA NextKeeps ==
  ASSUME EditingInv, [Next]_vars PROVE EditingInv'
<1>1. CASE UNCHANGED vars
  BY <1>1
     DEF vars, EditingInv, EditingTypeOK, KnownInv, Known, KeysInv, Sent,
         Covered, ReplyInv, SessionInv, Stands, Checking, ReviewInv, Display,
         DraftInv, TextOf, NothingOverwrittenUnseen, Newest
<1>2. CASE Next
  <2>1. UNCHANGED scenario BY <1>2 DEF Next
  <2>2. CASE ServerStep
    BY <2>1, <2>2, ElsewhereKeeps, PutKeeps, RefuseKeeps DEF ServerStep
  <2>3. CASE WorkbenchStep
    <3>1. CASE \E v \in {0} \cup Numbers : Visit(v)
      BY <2>1, <3>1, VisitKeeps
    <3>2. CASE Leave BY <2>1, <3>2, AwayKeeps DEF Leave
    <3>3. CASE Discard BY <2>1, <3>3, DiscardKeeps
    <3>4. CASE \E t \in Texts : Type(t) BY <2>1, <3>4, TypeKeeps
    <3>5. CASE \E v \in Numbers : RequestSource(v)
      BY <2>1, <3>5, RequestSourceKeeps
    <3>6. CASE \E c \in BOOLEAN : Resolve(c)
      <4>1. Resolve(TRUE) \/ Resolve(FALSE) BY <3>6
      <4> QED BY <2>1, <4>1, ResolveKeeps
    <3>7. CASE SourceLoaded BY <2>1, <3>7, SourceLoadedKeeps
    <3>8. CASE SourceFails BY <2>1, <3>8, SourceFailsKeeps
    <3> QED
      BY <2>3, <3>1, <3>2, <3>3, <3>4, <3>5, <3>6, <3>7, <3>8
         DEF WorkbenchStep
  <2>4. CASE MachineStep
    BY <2>1, <2>4, AnsweredKeeps, FailedKeeps, VerifyKeeps, VerifiedKeeps,
       VerifyFailsKeeps DEF MachineStep
  <2>5. CASE DialogStep
    BY <2>1, <2>5, OpenDialogKeeps, CloseKeeps, ConfirmKeeps,
       ReconciledKeeps, RetryKeeps, ReloadKeeps, ReloadedKeeps,
       ReloadFailsKeeps DEF DialogStep
  <2>6. CASE CompletionStep
    BY <2>1, <2>6, AdoptKeeps, AdoptFailsKeeps, AwayKeeps
       DEF CompletionStep, Refreshed
  <2> QED BY <1>2, <2>2, <2>3, <2>4, <2>5, <2>6 DEF Next
<1> QED BY <1>1, <1>2

LEMMA EditingHolds == Spec => []EditingInv
<1>1. Init => EditingInv BY InitHolds
<1>2. EditingInv /\ [Next]_vars => EditingInv' BY NextKeeps
<1> QED BY <1>1, <1>2, PTL DEF Spec

(* Every snapshot of the workbench, the save machine and the dialog is of  *)
(* the shape that the hooks declare.                                       *)
THEOREM EditingTypes == Spec => []EditingTypeOK
<1>1. EditingInv => EditingTypeOK BY DEF EditingInv
<1> QED BY <1>1, EditingHolds, PTL

(* However answers and clicks interleave, no save covers a version of      *)
(* somebody else that its user was not shown.                              *)
THEOREM NothingIsCovered == Spec => []NothingOverwrittenUnseen
<1>1. EditingInv => NothingOverwrittenUnseen BY DEF EditingInv
<1> QED BY <1>1, EditingHolds, PTL

(* What was typed is in the editor, or waits in the tab's storage, until   *)
(* it is saved, given up, or refused by a later visit (canRestoreDraft).   *)
THEOREM TypedTextStays == Spec => []TypedTextIsKept
<1>1. EditingInv => TypedTextIsKept
  BY DEF EditingInv, DraftInv, TypedTextIsKept
<1> QED BY <1>1, EditingHolds, PTL

(* What becomes of typed text in a step while the page is away.            *)
StaysAway ==
  ~page.open /\ wanted # NoText =>
    \/ wanted' = wanted
    \/ stored.source > stored.fence
    \/ page'.source # stored.source

LEMMA AwayFromPage ==
  ASSUME EditingInv, ~page.open, Next,
         \A v \in {0} \cup Numbers : ~Visit(v)
  PROVE  wanted' = wanted
<1>1. page = NoPage /\ machine = NewMachine(1) /\ dialog = NoDialog
  BY DEF EditingInv, SessionInv
<1>2. /\ page.asking = 0 /\ page.loading = 0 /\ page.completing = "no"
      /\ machine.flight = NoAttempt /\ machine.check = NoCheck
      /\ machine.reload = 0 /\ ~dialog.open
  BY <1>1 DEF NoPage, NewMachine, NoDialog
<1>3. CASE ServerStep BY <1>3 DEF ServerStep, Elsewhere, Put, Refuse
<1>4. CASE WorkbenchStep
  BY <1>2, <1>4
     DEF WorkbenchStep, Leave, Discard, Type, Editable, RequestSource,
         Resolve, SourceLoaded, SourceFails
<1>5. CASE MachineStep
  BY <1>5 DEF MachineStep, Answered, Failed, Verify, Verified, VerifyFails
<1>6. CASE DialogStep
  BY <1>2, <1>6
     DEF DialogStep, OpenDialog, Close, CloseAndDiscard, Quiet, Confirm,
         Reconciled, Retry, Reload, Reloaded, ReloadFails
<1>7. CASE CompletionStep
  BY <1>2, <1>7 DEF CompletionStep, Adopt, AdoptFails, Refreshed
<1> QED BY <1>3, <1>4, <1>5, <1>6, <1>7 DEF Next

(* While the page is away nothing takes typed text from the storage, but a *)
(* visit that refuses it: the source was newer than the head that the page *)
(* knew when the text was stored, or another source is asked for.          *)
THEOREM OnlyARefusalLosesText == Spec => [][StaysAway]_vars
<1>1. EditingInv /\ [Next]_vars => [StaysAway]_vars
  <2> SUFFICES ASSUME EditingInv, Next, ~page.open, wanted # NoText
               PROVE  \/ wanted' = wanted
                      \/ stored.source > stored.fence
                      \/ page'.source # stored.source
    BY DEF StaysAway
  <2>1. CASE \E v \in {0} \cup Numbers : Visit(v)
    <3>1. PICK v \in {0} \cup Numbers : Visit(v) BY <2>1
    <3>2. v \in {0} \cup Known
      BY <3>1, NumbersAre, HistoryIs DEF EditingInv, Known, Visit
    <3>3. CASE Restorable(v) BY <3>1, <3>3 DEF Visit
    <3>4. CASE ~Restorable(v)
      <4>1. v \notin {0, stored.source} \/ ~(stored.source <= stored.fence)
        BY <3>2, <3>4, RefusedForItsSource
      <4>2. stored.source \in Nat /\ stored.fence \in Nat
        BY HistoryIs DEF EditingInv, DraftInv, KnownInv, Known
      <4>3. CASE v \notin {0, stored.source}
        <5>1. page' = [NoPage EXCEPT !.open = TRUE, !.head = Newest,
                        !.source = v, !.draft = TextOf(v)]
          BY <3>1, <3>4, <4>3 DEF Visit
        <5>2. page'.source = v BY <5>1 DEF NoPage
        <5> QED BY <4>3, <5>2
      <4>4. CASE ~(stored.source <= stored.fence) BY <4>2, <4>4
      <4> QED BY <4>1, <4>3, <4>4
    <3> QED BY <3>3, <3>4
  <2>2. CASE \A v \in {0} \cup Numbers : ~Visit(v)
    BY <2>2, AwayFromPage
  <2> QED BY <2>1, <2>2
<1> QED BY <1>1, EditingHolds, PTL DEF Spec
=============================================================================
