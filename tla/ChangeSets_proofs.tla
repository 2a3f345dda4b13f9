------------------------- MODULE ChangeSets_proofs --------------------------
(***************************************************************************)
(* Change sets for any number of requests, writers, paths and instants:    *)
(* decisions are final, each is one commit, and fences outlive the review. *)
(***************************************************************************)
EXTENDS ChangeSets, StashTables_proofs

(* Where a request of each kind can be, between its arrival and its end.   *)
Creating == {"replay", "fence", "stage", "insert", "created", "rereplay",
             "refence"}
Approving == {"row", "entries", "newest", "claim", "won", "rerow",
              "reentries", "renewest"}
Rejecting == {"reject", "rejected", "unrejected"}
Reviewing == {"entries", "newest", "claim", "reentries", "renewest"}
Minted == {"created", "rereplay", "refence", "done"}
Submitted == {"won", "rerow", "reentries", "renewest", "done"}

(* What staging keeps of a well-formed list of entries.                    *)
Sensible(es) ==
  /\ DistinctPaths(es)
  /\ \A i \in DOMAIN es :
       /\ es[i].op = "put" => es[i].content \in Contents
       /\ es[i].op \in {"copy", "rollback"} <=> es[i].fromVersion > 0
       /\ es[i].op = "delete" => es[i].expected > 0

(* A request with entries es may be at this place.                         *)
Fits(r, place, es) ==
  /\ place \in Places
  /\ request[r] \in Calls[r]
  /\ request[r].call = "create" => es # <<>>
  /\ place \in Creating => request[r].call = "create"
  /\ place \in Approving => request[r].call = "approve"
  /\ place \in Rejecting => request[r].call = "reject"
  /\ place \in Reviewing => /\ es = sets[Target(r)].entries
                            /\ sets[Target(r)].status # "absent"
  /\ sets[r].status # "absent" => place \in Minted
  /\ Committed(r) => place \in Submitted

RequestsFit ==
  \A r \in Requests :
    /\ pc[r] # "idle" => Fits(r, pc[r], entries[r])
    /\ pc[r] = "idle" => sets[r].status = "absent" /\ ~Committed(r)

EntriesInv ==
  /\ \A r \in Requests : /\ Sensible(entries[r])
                         /\ todo[r] \subseteq DOMAIN entries[r]
  /\ \A s \in Requests :
       /\ Sensible(sets[s].entries)
       /\ sets[s].status # "absent" => sets[s].entries # <<>>

DecisionsInv ==
  /\ \A s \in Requests : IsApplied(s) =>
       /\ sets[s].commit \in Requests
       /\ Committed(sets[s].commit)
       /\ Target(sets[s].commit) = s
       /\ sets[s].decided < sets[s].expires
  /\ \A r \in Requests : Committed(r) =>
       /\ Target(r) \in Requests
       /\ IsApplied(Target(r))
       /\ sets[Target(r)].commit = r

SetsInv ==
  /\ SetsTypeOK
  /\ TablesInv
  /\ RequestsFit
  /\ EntriesInv
  /\ DecisionsInv

(* The call of a request that has arrived is one of those it may make.     *)
LEMMA CallOf ==
  ASSUME SetsInv, NEW r \in Requests, pc[r] # "idle"
  PROVE  /\ request[r] \in Calls[r] /\ request[r] \in Call
         /\ WellFormed(request[r])
         /\ request[r].call # "create" => Target(r) \in Requests
<1>1. request[r] \in Calls[r]
  BY DEF SetsInv, RequestsFit, Fits
<1>2. request[r] \in Call /\ WellFormed(request[r])
  BY <1>1, ChangeSetsAssumption
<1>3. request[r].call # "create" => Target(r) \in Requests
  BY <1>2 DEF WellFormed, Call, Target
<1> QED BY <1>1, <1>2, <1>3

(* A step of one request that changes neither tables nor change sets keeps *)
(* the invariant when the request fits the place it goes to.               *)
LEMMA MoveKeeps ==
  ASSUME SetsInv, NEW r \in Requests, pc[r] # "idle",
         NEW place, NEW es \in Seq(Entry), NEW t \in SUBSET Nat,
         Fits(r, place, es), Sensible(es), t \subseteq DOMAIN es,
         place # "idle",
         pc' = [pc EXCEPT ![r] = place],
         entries' = [entries EXCEPT ![r] = es],
         todo' = [todo EXCEPT ![r] = t],
         conflicts' \in [Requests -> SUBSET Paths],
         answer' \in [Requests -> Answer], thrown' \subseteq Requests,
         UNCHANGED <<tables, sets, clock, request, now, lifecycle>>
  PROVE  SetsInv'
<1>1. UNCHANGED <<tables, sets, clock, request, now, lifecycle>>
        /\ pc' = [pc EXCEPT ![r] = place]
        /\ entries' = [entries EXCEPT ![r] = es]
        /\ todo' = [todo EXCEPT ![r] = t]
  OBVIOUS
<1>2. place \in Places
  BY DEF Fits
<1>3. TablesInv'
  BY <1>1, OthersKeepTables DEF SetsInv
<1>4. SetsTypeOK'
  BY <1>1, <1>2, <1>3 DEF SetsInv, SetsTypeOK, TablesInv
<1>5. \A q \in Requests : entries'[q] = IF q = r THEN es ELSE entries[q]
  BY <1>1 DEF SetsInv, SetsTypeOK
<1>6. \A q \in Requests : pc'[q] = IF q = r THEN place ELSE pc[q]
  BY <1>1 DEF SetsInv, SetsTypeOK
<1>7. \A q \in Requests : todo'[q] = IF q = r THEN t ELSE todo[q]
  BY <1>1 DEF SetsInv, SetsTypeOK
<1>8. RequestsFit'
  BY <1>1, <1>5, <1>6 DEF SetsInv, RequestsFit, Fits, Target, Committed, tables
<1>9. EntriesInv'
  BY <1>1, <1>5, <1>7 DEF SetsInv, EntriesInv
<1>10. DecisionsInv'
  BY <1>1 DEF SetsInv, DecisionsInv, IsApplied, Target, Committed, tables
<1> QED BY <1>3, <1>4, <1>8, <1>9, <1>10 DEF SetsInv

LEMMA GotoKeeps ==
  ASSUME SetsInv, NEW r \in Requests, pc[r] # "idle", NEW place,
         Fits(r, place, entries[r]), place # "idle", Goto(r, place)
  PROVE  SetsInv'
<1>1. /\ entries[r] \in Seq(Entry) /\ Sensible(entries[r])
      /\ todo[r] \in SUBSET Nat /\ todo[r] \subseteq DOMAIN entries[r]
      /\ entries = [entries EXCEPT ![r] = entries[r]]
      /\ todo = [todo EXCEPT ![r] = todo[r]]
  BY DEF SetsInv, SetsTypeOK, EntriesInv
<1>2. /\ entries' = [entries EXCEPT ![r] = entries[r]]
      /\ todo' = [todo EXCEPT ![r] = todo[r]]
      /\ conflicts' \in [Requests -> SUBSET Paths]
      /\ answer' \in [Requests -> Answer] /\ thrown' \subseteq Requests
      /\ UNCHANGED <<tables, sets, clock, request, now, lifecycle>>
      /\ pc' = [pc EXCEPT ![r] = place]
  BY <1>1 DEF Goto, SetsInv, SetsTypeOK
<1> QED BY <1>1, <1>2, MoveKeeps

LEMMA ReplyKeeps ==
  ASSUME SetsInv, NEW r \in Requests, pc[r] # "idle", NEW a \in Answer,
         Reply(r, a)
  PROVE  SetsInv'
<1>1. /\ entries[r] \in Seq(Entry) /\ Sensible(entries[r])
      /\ todo[r] \in SUBSET Nat /\ todo[r] \subseteq DOMAIN entries[r]
      /\ entries = [entries EXCEPT ![r] = entries[r]]
      /\ todo = [todo EXCEPT ![r] = todo[r]]
  BY DEF SetsInv, SetsTypeOK, EntriesInv
<1>2. /\ entries' = [entries EXCEPT ![r] = entries[r]]
      /\ todo' = [todo EXCEPT ![r] = todo[r]]
      /\ conflicts' \in [Requests -> SUBSET Paths]
      /\ answer' \in [Requests -> Answer] /\ thrown' \subseteq Requests
      /\ UNCHANGED <<tables, sets, clock, request, now, lifecycle>>
      /\ pc' = [pc EXCEPT ![r] = "done"]
  BY <1>1 DEF Reply, SetsInv, SetsTypeOK
<1>3. Fits(r, "done", entries[r])
  BY DEF SetsInv, RequestsFit, Fits, Places, Creating, Approving, Rejecting,
         Reviewing, Minted, Submitted
<1> QED BY <1>1, <1>2, <1>3, MoveKeeps

LEMMA AnswerTypes ==
  /\ \A code \in Codes : Refusal(code) \in Answer
  /\ \A s \in Requests, c \in Requests \cup {NoRequest} :
       Success(s, c) \in Answer
BY DEF Refusal, Success, Answer, Codes

-----------------------------------------------------------------------------
(* The steps of requests that only read.                                   *)

LEMMA ArriveKeeps ==
  ASSUME SetsInv, NEW r \in Requests, Arrive(r)
  PROVE  SetsInv'
<1>1. PICK c \in Calls[r] :
        /\ request' = [request EXCEPT ![r] = c]
        /\ entries' = [entries EXCEPT ![r] = c.entries]
        /\ todo' = [todo EXCEPT ![r] = DOMAIN c.entries]
  BY DEF Arrive
<1>2. /\ pc[r] = "idle" /\ pc' = [pc EXCEPT ![r] = "live"]
      /\ now' = [now EXCEPT ![r] = clock]
      /\ UNCHANGED <<tables, sets, clock, conflicts, answer, thrown, lifecycle>>
  BY DEF Arrive
<1>3. c \in Call /\ WellFormed(c)
  BY ChangeSetsAssumption
<1>4. c.entries \in Seq(Entry) /\ DOMAIN c.entries \in SUBSET Nat
  BY <1>3 DEF Call
<1>5. Sensible(c.entries)
  BY <1>3 DEF WellFormed, WellFormedEntry, Sensible
<1>6. TablesInv'
  BY <1>2, OthersKeepTables DEF SetsInv
<1>7. SetsTypeOK'
  <2>1. request' \in [Requests -> Call \cup {NoRequest}]
    BY <1>1, <1>3 DEF SetsInv, SetsTypeOK
  <2>2. /\ pc' \in [Requests -> Places] /\ now' \in [Requests -> Nat]
        /\ entries' \in [Requests -> Seq(Entry)]
        /\ todo' \in [Requests -> SUBSET Nat]
    BY <1>1, <1>2, <1>4 DEF SetsInv, SetsTypeOK, Places
  <2> QED BY <1>2, <1>6, <2>1, <2>2 DEF SetsInv, SetsTypeOK, TablesInv
<1>8. \A q \in Requests :
        /\ request'[q] = IF q = r THEN c ELSE request[q]
        /\ entries'[q] = IF q = r THEN c.entries ELSE entries[q]
        /\ todo'[q] = IF q = r THEN DOMAIN c.entries ELSE todo[q]
        /\ pc'[q] = IF q = r THEN "live" ELSE pc[q]
  BY <1>1, <1>2 DEF SetsInv, SetsTypeOK
<1>9. RequestsFit'
  <2>1. Fits(r, "live", c.entries)'
    BY <1>2, <1>3, <1>8
       DEF SetsInv, RequestsFit, Fits, WellFormed, Places, Creating, Approving,
           Rejecting, Reviewing, Committed, tables
  <2>2. ASSUME NEW q \in Requests, q # r, pc[q] # "idle"
        PROVE  Fits(q, pc[q], entries[q])'
    BY <1>2, <1>8, <2>2 DEF SetsInv, RequestsFit, Fits, Target, Committed, tables
  <2>3. ASSUME NEW q \in Requests, q # r, pc[q] = "idle"
        PROVE  sets'[q].status = "absent" /\ ~Committed(q)'
    BY <1>2, <2>3 DEF SetsInv, RequestsFit, Committed, tables
  <2> QED BY <1>8, <2>1, <2>2, <2>3 DEF RequestsFit
<1>10. EntriesInv'
  BY <1>2, <1>5, <1>8 DEF SetsInv, EntriesInv
<1>11. DecisionsInv'
  <2>1. \A q \in Requests : Committed(q) => q # r
    BY <1>2 DEF SetsInv, RequestsFit
  <2>2. \A q \in Requests : q # r => Target(q)' = Target(q)
    BY <1>8 DEF Target
  <2> QED BY <1>2, <2>1, <2>2
        DEF SetsInv, DecisionsInv, IsApplied, Committed, tables
<1> QED BY <1>6, <1>7, <1>9, <1>10, <1>11 DEF SetsInv

LEMMA CreationReadsKeep ==
  ASSUME SetsInv, NEW r \in Requests,
         \/ CheckLive(r) \/ CheckReplay(r) \/ CheckFence(r)
         \/ LoseInsert(r) \/ ReadBack(r) \/ ExplainInsert(r)
  PROVE  SetsInv'
<1> USE AnswerTypes, ReplyKeeps, GotoKeeps DEF Codes
<1>1. pc[r] # "idle"
  BY DEF CheckLive, CheckReplay, CheckFence, LoseInsert, ReadBack, ExplainInsert
<1>2. Fits(r, pc[r], entries[r])
  BY <1>1 DEF SetsInv, RequestsFit
<1>3. /\ pc[r] = "live" => Fits(r, FirstRead(request[r]), entries[r])
      /\ FirstRead(request[r]) # "idle"
  BY <1>1, <1>2, CallOf
     DEF Fits, FirstRead, Call, Places, Creating, Approving, Rejecting,
         Reviewing, Minted, Submitted
<1>4. CASE CheckLive(r)
  BY <1>1, <1>3, <1>4 DEF CheckLive
<1>5. CASE CheckReplay(r)
  <2>1. pc[r] \in {"replay", "rereplay"}
    BY <1>5 DEF CheckReplay
  <2>2. Fits(r, IF pc[r] = "replay" THEN "fence" ELSE "refence", entries[r])
    BY <1>2, <2>1 DEF Fits, Places, Creating, Approving, Rejecting, Reviewing,
       Minted, Submitted
  <2>3. \A s \in Requests : Replay(r, s) \in Answer
    BY DEF Replay
  <2>4. CASE Goto(r, IF pc[r] = "replay" THEN "fence" ELSE "refence")
    BY <1>1, <2>2, <2>4
  <2>5. ASSUME NEW s \in Keyed(request[r].key), Reply(r, Replay(r, s))
        PROVE  SetsInv'
    BY <1>1, <2>3, <2>5 DEF Keyed
  <2> QED BY <1>5, <2>4, <2>5 DEF CheckReplay
<1>6. CASE CheckFence(r)
  <2>1. pc[r] = "fence"
    BY <1>6 DEF CheckFence
  <2>2. Fits(r, "stage", entries[r])
    BY <1>2, <2>1 DEF Fits, Places, Creating, Approving, Rejecting, Reviewing,
       Minted, Submitted
  <2> QED BY <1>1, <1>6, <2>2 DEF CheckFence
<1>7. AfterLostInsert(r) \in {"refence", "rereplay"}
  BY DEF AfterLostInsert
<1>8. CASE LoseInsert(r)
  <2>1. pc[r] = "insert"
    BY <1>8 DEF LoseInsert
  <2>2. Fits(r, AfterLostInsert(r), entries[r])
    BY <1>2, <1>7, <2>1 DEF Fits, Places, Creating, Approving, Rejecting,
       Reviewing, Minted, Submitted
  <2> QED BY <1>1, <1>7, <1>8, <2>2 DEF LoseInsert
<1>9. CASE ReadBack(r)
  <2>1. pc[r] = "created"
    BY <1>9 DEF ReadBack
  <2>2. Fits(r, AfterLostInsert(r), entries[r])
    BY <1>2, <1>7, <2>1 DEF Fits, Places, Creating, Approving, Rejecting,
       Reviewing, Minted, Submitted
  <2> QED BY <1>1, <1>7, <1>9, <2>2 DEF ReadBack
<1>10. CASE ExplainInsert(r)
  BY <1>1, <1>10 DEF ExplainInsert
<1> QED BY <1>4, <1>5, <1>6, <1>8, <1>9, <1>10

LEMMA StageKeeps ==
  ASSUME SetsInv, NEW r \in Requests, Stage(r)
  PROVE  SetsInv'
<1>1. pc[r] = "stage" /\ Fits(r, pc[r], entries[r])
  BY DEF Stage, SetsInv, RequestsFit
<1>2. PICK i \in todo[r] :
        \/ Reply(r, Refusal("validation"))
        \/ /\ entries' = [entries EXCEPT ![r][i] = Staged(entries[r][i])]
           /\ todo' = [todo EXCEPT ![r] = @ \ {i}]
           /\ pc' = [pc EXCEPT ![r] = IF todo[r] = {i} THEN "insert"
                                      ELSE "stage"]
           /\ Stageable(entries[r][i])
           /\ UNCHANGED <<tables, sets, clock, request, now, conflicts,
                          answer, thrown, lifecycle>>
  BY DEF Stage
<1>3. CASE Reply(r, Refusal("validation"))
  BY <1>1, <1>3, AnswerTypes, ReplyKeeps DEF Codes
<1>4. CASE /\ entries' = [entries EXCEPT ![r][i] = Staged(entries[r][i])]
           /\ todo' = [todo EXCEPT ![r] = @ \ {i}]
           /\ pc' = [pc EXCEPT ![r] = IF todo[r] = {i} THEN "insert"
                                      ELSE "stage"]
           /\ Stageable(entries[r][i])
           /\ UNCHANGED <<tables, sets, clock, request, now, conflicts,
                          answer, thrown, lifecycle>>
  <2> DEFINE old == entries[r]
             e == old[i]
             es == [old EXCEPT ![i] = Staged(e)]
             t == todo[r] \ {i}
             place == IF todo[r] = {i} THEN "insert" ELSE "stage"
  <2>1. /\ old \in Seq(Entry) /\ Sensible(old) /\ old # <<>>
        /\ i \in DOMAIN old /\ t \in SUBSET Nat /\ t \subseteq DOMAIN old
    BY <1>1 DEF SetsInv, SetsTypeOK, EntriesInv, Fits, Creating
  <2>2. e \in Entry
    BY <2>1
  <2>3. /\ Staged(e) \in Entry
        /\ Staged(e).path = e.path /\ Staged(e).op = e.op
        /\ Staged(e).fromVersion = e.fromVersion
        /\ Staged(e).expected = e.expected
        /\ e.op = "put" => Staged(e) = e
    <3>1. CASE e.op \in {"copy", "rollback"}
      <4>1. PICK v \in RowsAt(e.fromPath, e.fromVersion) : TRUE
        BY <1>4, <3>1 DEF Stageable, Restorable
      <4>2. ContentAt(e.fromPath, e.fromVersion) \in Contents \cup {Tombstone}
        BY <4>1
           DEF ContentAt, RowsAt, SetsInv, SetsTypeOK, TablesTypeOK, VersionRow
      <4> QED BY <2>2, <3>1, <4>2 DEF Staged, Entry
    <3>2. CASE e.op \notin {"copy", "rollback"}
      BY <2>2, <3>2 DEF Staged
    <3> QED BY <3>1, <3>2
  <2>4. /\ es \in Seq(Entry) /\ DOMAIN es = DOMAIN old
        /\ \A j \in DOMAIN old : es[j] = IF j = i THEN Staged(e) ELSE old[j]
    BY <2>1, <2>3
  <2>5. Sensible(es)
    BY <2>1, <2>3, <2>4 DEF Sensible, DistinctPaths
  <2>6. es # <<>>
    BY <2>1, <2>4
  <2>7. Fits(r, place, es)
    BY <1>1, <2>6 DEF Fits, Places, Creating, Approving, Rejecting, Reviewing,
       Minted, Submitted
  <2>8. /\ entries' = [entries EXCEPT ![r] = es]
        /\ todo' = [todo EXCEPT ![r] = t]
        /\ conflicts' \in [Requests -> SUBSET Paths]
        /\ answer' \in [Requests -> Answer] /\ thrown' \subseteq Requests
    BY <1>4 DEF SetsInv, SetsTypeOK
  <2>9. place # "idle" /\ t \subseteq DOMAIN es
    BY <2>1, <2>4
  <2> HIDE DEF es, t, place
  <2> QED BY <1>1, <1>4, <2>1, <2>4, <2>5, <2>7, <2>8, <2>9, MoveKeeps DEF place
<1> QED BY <1>2, <1>3, <1>4

LEMMA AppliedType ==
  ASSUME SetsInv, NEW s \in Requests, IsApplied(s)
  PROVE  Applied(s) \in Answer
BY AnswerTypes DEF Applied, SetsInv, DecisionsInv, Codes

LEMMA ReadRowKeeps ==
  ASSUME SetsInv, NEW r \in Requests, ReadRow(r)
  PROVE  SetsInv'
<1> USE AnswerTypes, ReplyKeeps DEF Codes
<1> DEFINE s == Target(r)
           place == IF pc[r] = "row" THEN "entries" ELSE "reentries"
<1>1. pc[r] \in {"row", "rerow"}
  BY DEF ReadRow
<1>2. s \in Requests /\ Fits(r, pc[r], entries[r])
  BY <1>1, CallOf DEF SetsInv, RequestsFit, Fits, Approving
<1>3. CASE \E code \in Codes : Reply(r, Refusal(code))
  BY <1>1, <1>3
<1>4. CASE sets[s].status = "applied" /\ Reply(r, Applied(s))
  BY <1>1, <1>2, <1>4, AppliedType DEF IsApplied
<1>5. CASE /\ sets[s].status = "open"
           /\ entries' = [entries EXCEPT ![r] = sets[s].entries]
           /\ todo' = [todo EXCEPT ![r] = DOMAIN sets[s].entries]
           /\ pc' = [pc EXCEPT ![r] = place]
           /\ UNCHANGED <<tables, sets, clock, request, now, conflicts, answer,
                          thrown, lifecycle>>
  <2> DEFINE es == sets[s].entries
             t == DOMAIN es
  <2>1. es \in Seq(Entry) /\ Sensible(es) /\ es # <<>>
    BY <1>2, <1>5 DEF SetsInv, SetsTypeOK, SetRow, EntriesInv
  <2>2. t \in SUBSET Nat /\ t \subseteq DOMAIN es
    BY <2>1
  <2>3. Fits(r, place, es)
    BY <1>1, <1>2, <1>5, <2>1
       DEF Fits, Places, Creating, Approving, Rejecting, Reviewing, Minted,
           Submitted
  <2>4. /\ conflicts' \in [Requests -> SUBSET Paths]
        /\ answer' \in [Requests -> Answer] /\ thrown' \subseteq Requests
        /\ place # "idle"
    BY <1>5 DEF SetsInv, SetsTypeOK
  <2> HIDE DEF es, place
  <2> QED BY <1>1, <1>5, <2>1, <2>2, <2>3, <2>4, MoveKeeps DEF es
<1> QED BY <1>3, <1>4, <1>5 DEF ReadRow

LEMMA CheckEntryKeeps ==
  ASSUME SetsInv, NEW r \in Requests, CheckEntry(r)
  PROVE  SetsInv'
<1> USE AnswerTypes, ReplyKeeps, GotoKeeps DEF Codes
<1>1. pc[r] \in {"entries", "reentries"}
  BY DEF CheckEntry
<1>2. Fits(r, pc[r], entries[r])
  BY <1>1 DEF SetsInv, RequestsFit
<1>3. PICK i \in todo[r] :
        LET e == entries[r][i]
            found == conflicts[r] \cup IF GateAccepts(e) THEN {} ELSE {e.path}
        IN IF todo[r] # {i}
           THEN /\ todo' = [todo EXCEPT ![r] = @ \ {i}]
                /\ conflicts' = [conflicts EXCEPT ![r] = found]
                /\ UNCHANGED <<tables, sets, clock, pc, request, now,
                               entries, answer, thrown, lifecycle>>
           ELSE IF found # {} THEN Reply(r, ConflictAnswer(r, found))
           ELSE Goto(r, IF pc[r] = "entries" THEN "newest" ELSE "renewest")
  BY DEF CheckEntry
<1> DEFINE es == entries[r]
           e == es[i]
           found == conflicts[r] \cup IF GateAccepts(e) THEN {} ELSE {e.path}
           t == todo[r] \ {i}
           place == IF pc[r] = "entries" THEN "newest" ELSE "renewest"
<1>4. CASE Reply(r, ConflictAnswer(r, found))
  <2>1. ConflictAnswer(r, found) \in Answer
    BY DEF ConflictAnswer
  <2> QED BY <1>1, <1>4, <2>1
<1>5. CASE Goto(r, place)
  <2>1. Fits(r, place, es)
    BY <1>1, <1>2 DEF Fits, Places, Creating, Approving, Rejecting, Reviewing,
       Minted, Submitted
  <2> QED BY <1>1, <1>5, <2>1
<1>6. CASE /\ todo' = [todo EXCEPT ![r] = @ \ {i}]
           /\ conflicts' = [conflicts EXCEPT ![r] = found]
           /\ UNCHANGED <<tables, sets, clock, pc, request, now, entries,
                          answer, thrown, lifecycle>>
  <2>1. /\ es \in Seq(Entry) /\ Sensible(es) /\ i \in DOMAIN es
        /\ t \in SUBSET Nat /\ t \subseteq DOMAIN es
    BY DEF SetsInv, SetsTypeOK, EntriesInv
  <2>2. e.path \in Paths
    <3>1. e \in Entry
      BY <2>1
    <3> QED BY <3>1 DEF Entry
  <2>3. conflicts' \in [Requests -> SUBSET Paths]
    BY <1>6, <2>2 DEF SetsInv, SetsTypeOK
  <2>4. /\ pc' = [pc EXCEPT ![r] = pc[r]]
        /\ entries' = [entries EXCEPT ![r] = es]
        /\ todo' = [todo EXCEPT ![r] = t]
        /\ answer' \in [Requests -> Answer] /\ thrown' \subseteq Requests
    BY <1>6 DEF SetsInv, SetsTypeOK
  <2> HIDE DEF es, t
  <2> QED BY <1>1, <1>2, <1>6, <2>1, <2>3, <2>4, MoveKeeps DEF es
<1> QED BY <1>3, <1>4, <1>5, <1>6

LEMMA DecisionReadsKeep ==
  ASSUME SetsInv, NEW r \in Requests,
         \/ CheckNewest(r) \/ LoseClaim(r) \/ Respond(r)
         \/ LoseReject(r) \/ AnswerReject(r)
  PROVE  SetsInv'
<1> USE AnswerTypes, ReplyKeeps, GotoKeeps DEF Codes
<1>1. pc[r] # "idle" /\ pc[r] \in Approving \cup Rejecting
  BY DEF CheckNewest, LoseClaim, Respond, LoseReject, AnswerReject, Approving,
         Rejecting
<1>2. Fits(r, pc[r], entries[r])
  BY <1>1 DEF SetsInv, RequestsFit
<1>3. Target(r) \in Requests
  BY <1>1, <1>2, CallOf DEF Fits
<1>4. CASE CheckNewest(r)
  <2>1. pc[r] = "newest" => Fits(r, "claim", entries[r])
    BY <1>2 DEF Fits, Places, Creating, Approving, Rejecting, Reviewing,
       Minted, Submitted
  <2> QED BY <1>1, <1>4, <2>1 DEF CheckNewest
<1>5. CASE LoseClaim(r)
  <2>1. pc[r] = "claim"
    BY <1>5 DEF LoseClaim
  <2>2. Fits(r, "rerow", entries[r])
    BY <1>2, <2>1 DEF Fits, Places, Creating, Approving, Rejecting, Reviewing,
       Minted, Submitted
  <2> QED BY <1>1, <1>5, <2>2 DEF LoseClaim
<1>6. CASE Respond(r)
  <2>1. CASE Reply(r, Refusal("internal"))
    BY <1>1, <2>1
  <2>2. CASE IsApplied(Target(r)) /\ Reply(r, Applied(Target(r)))
    BY <1>1, <1>3, <2>2, AppliedType
  <2> QED BY <1>6, <2>1, <2>2 DEF Respond, IsApplied
<1>7. CASE LoseReject(r)
  <2>1. pc[r] = "reject"
    BY <1>7 DEF LoseReject
  <2>2. Fits(r, "unrejected", entries[r])
    BY <1>2, <2>1 DEF Fits, Places, Creating, Approving, Rejecting, Reviewing,
       Minted, Submitted
  <2> QED BY <1>1, <1>7, <2>2 DEF LoseReject
<1>8. CASE AnswerReject(r)
  <2>1. Success(Target(r), NoRequest) \in Answer
    BY <1>3
  <2> QED BY <1>1, <1>8, <2>1 DEF AnswerReject
<1> QED BY <1>4, <1>5, <1>6, <1>7, <1>8

-----------------------------------------------------------------------------
(* The steps that change a change set: creation, rejection and approval.   *)
(* Each finds the change set absent or open, so no decision is touched.    *)

LEMMA CreateKeeps ==
  ASSUME SetsInv, NEW r \in Requests, NEW place \in {"created", "refence", "rereplay"},
         pc[r] = "insert", CreateSet(r),
         pc' = [pc EXCEPT ![r] = place], thrown' \subseteq Requests,
         answer' \in [Requests -> Answer],
         UNCHANGED <<clock, request, now, entries, todo, conflicts, lifecycle>>
  PROVE  SetsInv'
<1>1. /\ pc[r] = "insert" /\ pc' = [pc EXCEPT ![r] = place]
      /\ sets' = [sets EXCEPT ![r] = NewSet(r)]
      /\ UNCHANGED <<tables, clock, request, now, entries, todo, conflicts,
                     lifecycle>>
  BY DEF CreateSet
<1>2. Fits(r, "insert", entries[r])
  BY <1>1 DEF SetsInv, RequestsFit
<1>3. /\ sets[r].status = "absent" /\ ~Committed(r)
      /\ request[r].call = "create" /\ entries[r] # <<>>
  BY <1>2 DEF Fits, Creating, Minted, Submitted
<1>4. request[r] \in Call
  BY <1>1, CallOf
<1>5. NewSet(r) \in SetRow
  <2>1. Body(request[r]) \in Call
    BY <1>4 DEF Body, Call
  <2>2. entries[r] \in Seq(Entry) /\ now[r] \in Nat
    BY DEF SetsInv, SetsTypeOK
  <2>3. now[r] + TimeToLive \in Nat
    BY <2>2, ChangeSetsAssumption
  <2> QED BY <1>4, <2>1, <2>2, <2>3
        DEF NewSet, NoSet, SetRow, Statuses, Call
<1>6. /\ NewSet(r).entries = entries[r] /\ NewSet(r).status = "open"
  BY DEF NewSet, NoSet
<1>7. \A q \in Requests : /\ sets'[q] = IF q = r THEN NewSet(r) ELSE sets[q]
                          /\ pc'[q] = IF q = r THEN place ELSE pc[q]
  BY <1>1 DEF SetsInv, SetsTypeOK
<1>8. TablesInv'
  BY <1>1, OthersKeepTables DEF SetsInv
<1>9. SetsTypeOK'
  BY <1>1, <1>5, <1>8 DEF SetsInv, SetsTypeOK, TablesInv, Places
<1>10. RequestsFit'
  <2>1. Fits(r, place, entries[r])'
    BY <1>1, <1>2, <1>3
       DEF Fits, Places, Creating, Approving, Rejecting, Reviewing, Minted,
           Submitted, Committed, tables
  <2>2. ASSUME NEW q \in Requests, q # r, pc[q] # "idle"
        PROVE  Fits(q, pc[q], entries[q])'
    <3>1. Fits(q, pc[q], entries[q])
      BY <2>2 DEF SetsInv, RequestsFit
    <3>2. CASE pc[q] \in Reviewing
      <4>1. Target(q) \in Requests
        BY <2>2, <3>1, <3>2, CallOf DEF Fits, Reviewing, Approving
      <4>2. Target(q) # r
        BY <1>3, <3>1, <3>2 DEF Fits
      <4> QED BY <1>1, <1>7, <2>2, <3>1, <3>2, <4>1, <4>2
            DEF Fits, Target, Committed, tables
    <3>3. CASE pc[q] \notin Reviewing
      BY <1>1, <1>7, <2>2, <3>1, <3>3 DEF Fits, Target, Committed, tables
    <3> QED BY <3>2, <3>3
  <2>3. ASSUME NEW q \in Requests, q # r, pc[q] = "idle"
        PROVE  sets'[q].status = "absent" /\ ~Committed(q)'
    BY <1>1, <1>7, <2>3 DEF SetsInv, RequestsFit, Committed, tables
  <2>4. place # "idle"
    OBVIOUS
  <2> QED BY <1>1, <1>7, <2>1, <2>2, <2>3, <2>4 DEF RequestsFit
<1>11. EntriesInv'
  BY <1>1, <1>3, <1>6, <1>7 DEF SetsInv, EntriesInv
<1>12. DecisionsInv'
  <2>1. \A s \in Requests : IsApplied(s)' => s # r /\ IsApplied(s) /\ sets'[s] = sets[s]
    BY <1>6, <1>7 DEF IsApplied
  <2>2. \A q \in Requests : Committed(q)' => Committed(q)
    BY <1>1 DEF Committed, tables
  <2>3. \A q \in Requests : Committed(q) => Target(q) # r
    BY <1>3 DEF SetsInv, DecisionsInv, IsApplied
  <2> QED BY <1>1, <1>7, <2>1, <2>2, <2>3
        DEF SetsInv, DecisionsInv, IsApplied, Target, Committed, tables
<1> QED BY <1>8, <1>9, <1>10, <1>11, <1>12 DEF SetsInv

LEMMA RejectKeeps ==
  ASSUME SetsInv, NEW r \in Requests, NEW place \in {"rejected", "done"},
         pc[r] = "reject", RejectSet(r),
         pc' = [pc EXCEPT ![r] = place], thrown' \subseteq Requests,
         answer' \in [Requests -> Answer],
         UNCHANGED <<clock, request, now, entries, todo, conflicts, lifecycle>>
  PROVE  SetsInv'
<1> DEFINE s == Target(r)
           row == [sets[s] EXCEPT !.status = "rejected", !.commit = NoRequest,
                                  !.decided = now[r]]
<1>1. /\ pc[r] = "reject" /\ pc' = [pc EXCEPT ![r] = place]
      /\ sets[s].status = "open" /\ s \in Requests
      /\ UNCHANGED <<tables, clock, request, now, entries, todo, conflicts,
                     lifecycle>>
  BY DEF RejectSet, Rejectable, Visible
<1>2. Fits(r, "reject", entries[r])
  BY <1>1 DEF SetsInv, RequestsFit
<1>3. sets[s] \in SetRow /\ now[r] \in Nat
  BY <1>1 DEF SetsInv, SetsTypeOK
<1>4. /\ row \in SetRow /\ row.entries = sets[s].entries
      /\ row.status = "rejected"
  BY <1>3 DEF SetRow, Statuses
<1>5. sets' = [sets EXCEPT ![s] = row]
  BY <1>3 DEF RejectSet, SetRow, SetsInv, SetsTypeOK
<1> HIDE DEF row, s
<1>6. \A q \in Requests : /\ sets'[q] = IF q = s THEN row ELSE sets[q]
                          /\ pc'[q] = IF q = r THEN place ELSE pc[q]
  BY <1>1, <1>5 DEF SetsInv, SetsTypeOK
<1>7. TablesInv'
  BY <1>1, OthersKeepTables DEF SetsInv
<1>8. SetsTypeOK'
  BY <1>1, <1>4, <1>5, <1>7 DEF SetsInv, SetsTypeOK, TablesInv, Places
<1>9. \A q \in Requests : /\ sets'[q].entries = sets[q].entries
                          /\ sets'[q].status = "absent" <=> sets[q].status = "absent"
  BY <1>1, <1>4, <1>6
<1>10. RequestsFit'
  <2>1. Fits(r, place, entries[r])'
    BY <1>1, <1>2, <1>9
       DEF Fits, Places, Creating, Approving, Rejecting, Reviewing, Minted,
           Submitted, Committed, tables
  <2>2. ASSUME NEW q \in Requests, q # r, pc[q] # "idle"
        PROVE  Fits(q, pc[q], entries[q])'
    <3>1. Fits(q, pc[q], entries[q])
      BY <2>2 DEF SetsInv, RequestsFit
    <3>2. pc[q] \in Reviewing => Target(q) \in Requests
      BY <2>2, <3>1, CallOf DEF Fits, Reviewing, Approving
    <3> QED BY <1>1, <1>6, <1>9, <2>2, <3>1, <3>2
          DEF Fits, Target, Committed, tables
  <2>3. ASSUME NEW q \in Requests, q # r, pc[q] = "idle"
        PROVE  sets'[q].status = "absent" /\ ~Committed(q)'
    BY <1>1, <1>9, <2>3 DEF SetsInv, RequestsFit, Committed, tables
  <2>4. place # "idle"
    OBVIOUS
  <2> QED BY <1>1, <1>6, <2>1, <2>2, <2>3, <2>4 DEF RequestsFit
<1>11. EntriesInv'
  BY <1>1, <1>9 DEF SetsInv, EntriesInv
<1>12. DecisionsInv'
  <2>1. \A q \in Requests : IsApplied(q)' => q # s /\ IsApplied(q) /\ sets'[q] = sets[q]
    BY <1>4, <1>6 DEF IsApplied
  <2>2. \A q \in Requests : Committed(q)' => Committed(q)
    BY <1>1 DEF Committed, tables
  <2>3. \A q \in Requests : Committed(q) => Target(q) # s
    BY <1>1 DEF SetsInv, DecisionsInv, IsApplied
  <2> QED BY <1>1, <1>6, <2>1, <2>2, <2>3
        DEF SetsInv, DecisionsInv, IsApplied, Target, Committed, tables
<1> QED BY <1>7, <1>8, <1>10, <1>11, <1>12 DEF SetsInv

(* The claim of an approval is a batch of the kind the tables allow.       *)
LEMMA ClaimBatchFits ==
  ASSUME SetsInv, NEW r \in Requests, pc[r] = "claim"
  PROVE  /\ ClaimBatch(r) \in Batch
         /\ ClaimBatch(r).id = r /\ ClaimBatch(r).entries = entries[r]
         /\ ClaimBatch(r).since = sets[Target(r)].since
         /\ ClaimBatch(r).whole = sets[Target(r)].whole
         /\ ClaimBatch(r).scope = sets[Target(r)].scope
         /\ OncePerPath(ClaimBatch(r)) /\ EntriesMakeSense(ClaimBatch(r))
         /\ ~Committed(r) /\ Target(r) \in Requests /\ Target(r) # r
<1>1. Fits(r, "claim", entries[r])
  BY DEF SetsInv, RequestsFit
<1>2. Target(r) \in Requests
  BY <1>1, CallOf DEF Fits, Approving
<1>3. /\ entries[r] = sets[Target(r)].entries
      /\ sets[Target(r)].status # "absent"
      /\ sets[r].status = "absent" /\ ~Committed(r)
  BY <1>1 DEF Fits, Reviewing, Minted, Submitted
<1>4. entries[r] \in EntryLists /\ Sensible(entries[r])
  BY <1>2, <1>3 DEF SetsInv, SetsTypeOK, EntriesInv, EntryLists
<1>5. ClaimBatch(r).id = r /\ ClaimBatch(r).entries = entries[r]
  BY DEF ClaimBatch
<1>6. sets[Target(r)] \in SetRow
  BY <1>2 DEF SetsInv, SetsTypeOK
<1>7. /\ ClaimBatch(r).since = sets[Target(r)].since
      /\ ClaimBatch(r).whole = sets[Target(r)].whole
      /\ ClaimBatch(r).scope = sets[Target(r)].scope
  BY DEF ClaimBatch
<1>8. ClaimBatch(r) \in Batch
  BY <1>4, <1>6, ChangeSetsAssumption DEF ClaimBatch, Batch, SetRow
<1>9. OncePerPath(ClaimBatch(r)) /\ EntriesMakeSense(ClaimBatch(r))
  BY <1>4, <1>5 DEF Sensible, DistinctPaths, OncePerPath, EntriesMakeSense
<1> QED BY <1>2, <1>3, <1>5, <1>7, <1>8, <1>9

(* After a winning batch its commit is there, and so are the earlier ones. *)
LEMMA BatchCommits ==
  ASSUME NEW b, CommitBatch(b)
  PROVE  \A c : Committed(c)' <=> Committed(c) \/ c = b.id
<1>1. commits' = commits \cup {NewCommit(b)} /\ NewCommit(b).id = b.id
  BY DEF CommitBatch, NewCommit
<1> QED BY <1>1 DEF Committed

LEMMA ApplyKeeps ==
  ASSUME SetsInv, NEW r \in Requests, NEW place \in {"won", "rerow"},
         pc[r] = "claim", ApplySet(r),
         pc' = [pc EXCEPT ![r] = place], thrown' \subseteq Requests,
         answer' \in [Requests -> Answer],
         UNCHANGED <<clock, request, now, entries, todo, conflicts, lifecycle>>
  PROVE  SetsInv'
<1> DEFINE s == Target(r)
           row == [sets[s] EXCEPT !.status = "applied", !.commit = r,
                                  !.decided = now[r]]
<1>1. /\ pc[r] = "claim" /\ pc' = [pc EXCEPT ![r] = place]
      /\ UNCHANGED <<clock, request, now, entries, todo, conflicts, lifecycle>>
  OBVIOUS
<1>2. /\ sets[s].status = "open" /\ ~(sets[s].expires <= now[r])
      /\ CommitBatch(ClaimBatch(r))
  BY DEF ApplySet, Claimable, Expired
<1>3. /\ ClaimBatch(r) \in Batch /\ ClaimBatch(r).id = r
      /\ OncePerPath(ClaimBatch(r)) /\ EntriesMakeSense(ClaimBatch(r))
      /\ ~Committed(r) /\ s \in Requests /\ s # r
  BY ClaimBatchFits
<1>4. Fits(r, "claim", entries[r])
  BY <1>1 DEF SetsInv, RequestsFit
<1>5. /\ sets[s] \in SetRow /\ now[r] \in Nat
      /\ sets[s].expires \in Nat
  BY <1>3 DEF SetsInv, SetsTypeOK, SetRow
<1>6. /\ row \in SetRow /\ row.entries = sets[s].entries
      /\ row.status = "applied" /\ row.commit = r
      /\ row.decided < row.expires
  <2>1. /\ row \in SetRow /\ row.entries = sets[s].entries
        /\ row.status = "applied" /\ row.commit = r
        /\ row.decided = now[r] /\ row.expires = sets[s].expires
    BY <1>5 DEF SetRow, Statuses
  <2>2. now[r] < sets[s].expires
    BY <1>2, <1>5
  <2> HIDE DEF row
  <2> QED BY <2>1, <2>2
<1>7. sets' = [sets EXCEPT ![s] = row]
  BY <1>5 DEF ApplySet, SetRow, SetsInv, SetsTypeOK
<1> HIDE DEF row
<1>8. \A q \in Requests : /\ sets'[q] = IF q = s THEN row ELSE sets[q]
                          /\ pc'[q] = IF q = r THEN place ELSE pc[q]
  BY <1>1, <1>7 DEF SetsInv, SetsTypeOK
<1>9. \A q \in Requests :
        /\ Committed(q)' <=> Committed(q) \/ q = r
        /\ Target(q)' = Target(q)
  BY <1>1, <1>2, <1>3, BatchCommits DEF Target
<1>10. TablesInv'
  BY <1>2, <1>3, BatchKeepsTables DEF SetsInv
<1>11. SetsTypeOK'
  BY <1>1, <1>3, <1>6, <1>7, <1>10 DEF SetsInv, SetsTypeOK, TablesInv, Places
<1>12. \A q \in Requests : /\ sets'[q].entries = sets[q].entries
                           /\ sets'[q].status = "absent" <=> sets[q].status = "absent"
  BY <1>2, <1>6, <1>8
<1>13. RequestsFit'
  <2>1. Fits(r, place, entries[r])'
    BY <1>1, <1>3, <1>4, <1>12
       DEF Fits, Places, Creating, Approving, Rejecting, Reviewing, Minted,
           Submitted
  <2>2. ASSUME NEW q \in Requests, q # r, pc[q] # "idle"
        PROVE  Fits(q, pc[q], entries[q])'
    <3>1. Fits(q, pc[q], entries[q])
      BY <2>2 DEF SetsInv, RequestsFit
    <3>2. pc[q] \in Reviewing => Target(q) \in Requests
      BY <2>2, <3>1, CallOf DEF Fits, Reviewing, Approving
    <3> HIDE DEF s
    <3> QED BY <1>1, <1>8, <1>9, <1>12, <2>2, <3>1, <3>2 DEF Fits
  <2>3. ASSUME NEW q \in Requests, q # r, pc[q] = "idle"
        PROVE  sets'[q].status = "absent" /\ ~Committed(q)'
    BY <1>9, <1>12, <2>3 DEF SetsInv, RequestsFit
  <2>4. place # "idle"
    OBVIOUS
  <2> QED BY <1>1, <1>8, <2>1, <2>2, <2>3, <2>4 DEF RequestsFit
<1>14. EntriesInv'
  BY <1>1, <1>12 DEF SetsInv, EntriesInv
<1>15. DecisionsInv'
  <2>1. ASSUME NEW q \in Requests, IsApplied(q)'
        PROVE  /\ sets'[q].commit \in Requests
               /\ Committed(sets[q].commit)'
               /\ Target(sets[q].commit)' = q
               /\ sets'[q].decided < sets'[q].expires
    <3>1. CASE q = s
      BY <1>3, <1>6, <1>8, <1>9, <3>1
    <3>2. CASE q # s
      <4>1. sets'[q] = sets[q] /\ IsApplied(q)
        BY <1>8, <2>1, <3>2 DEF IsApplied
      <4> QED BY <1>9, <4>1 DEF SetsInv, DecisionsInv
    <3> QED BY <3>1, <3>2
  <2>2. ASSUME NEW q \in Requests, Committed(q)'
        PROVE  /\ Target(q)' \in Requests
               /\ IsApplied(Target(q))'
               /\ sets[Target(q)]'.commit = q
    <3>1. CASE q = r
      <4>1. Target(q)' = s /\ sets'[s] = row
        BY <1>3, <1>8, <1>9, <3>1
      <4> QED BY <1>3, <1>6, <3>1, <4>1 DEF IsApplied
    <3>2. CASE q # r
      <4>1. /\ Committed(q) /\ Target(q)' = Target(q)
            /\ Target(q) \in Requests /\ IsApplied(Target(q))
            /\ sets[Target(q)].commit = q
        BY <1>9, <2>2, <3>2 DEF SetsInv, DecisionsInv
      <4>2. Target(q) # s
        BY <1>2, <4>1 DEF IsApplied
      <4>3. sets'[Target(q)] = sets[Target(q)]
        BY <1>8, <4>1, <4>2
      <4> QED BY <4>1, <4>3 DEF IsApplied
    <3> QED BY <3>1, <3>2
  <2> QED BY <2>1, <2>2 DEF DecisionsInv
<1> QED BY <1>10, <1>11, <1>13, <1>14, <1>15 DEF SetsInv

LEMMA ChangesKeep ==
  ASSUME SetsInv, NEW r \in Requests,
         Insert(r) \/ Claim(r) \/ Reject(r) \/ Throw(r)
  PROVE  SetsInv'
<1> USE AnswerTypes DEF Codes
<1>1. answer \in [Requests -> Answer] /\ thrown \subseteq Requests
  BY DEF SetsInv, SetsTypeOK
<1>2. CASE Insert(r)
  BY <1>1, <1>2, CreateKeeps DEF Insert
<1>3. CASE Claim(r)
  BY <1>1, <1>3, ApplyKeeps DEF Claim
<1>4. CASE Reject(r)
  BY <1>1, <1>4, RejectKeeps DEF Reject
<1>5. CASE Throw(r)
  <2>1. /\ thrown' \subseteq Requests /\ answer' \in [Requests -> Answer]
        /\ UNCHANGED <<clock, request, now, entries, todo, conflicts, lifecycle>>
    BY <1>1, <1>5 DEF Throw
  <2>2. AfterLostInsert(r) \in {"refence", "rereplay"}
    BY DEF AfterLostInsert
  <2>3. PICK place \in {"refence", "rereplay", "rerow", "done"} :
          /\ pc' = [pc EXCEPT ![r] = place]
          /\ pc[r] = "insert" => place \in {"refence", "rereplay"}
          /\ pc[r] = "claim" => place = "rerow"
          /\ pc[r] = "reject" => place = "done"
    BY <1>5, <2>2 DEF Throw
  <2>4. CASE pc[r] = "insert" /\ CreateSet(r)
    BY <2>1, <2>3, <2>4, CreateKeeps
  <2>5. CASE pc[r] = "claim" /\ ApplySet(r)
    BY <2>1, <2>3, <2>5, ApplyKeeps
  <2>6. CASE pc[r] = "reject" /\ RejectSet(r)
    BY <2>1, <2>3, <2>6, RejectKeeps
  <2>7. CASE UNCHANGED <<tables, sets>> /\ pc[r] \in {"insert", "claim", "reject"}
    <3>1. Fits(r, pc[r], entries[r])
      BY <2>7 DEF SetsInv, RequestsFit
    <3>2. Fits(r, place, entries[r]) /\ place # "idle"
      BY <2>3, <2>7, <3>1
         DEF Fits, Places, Creating, Approving, Rejecting, Reviewing, Minted,
             Submitted
    <3>3. /\ entries[r] \in Seq(Entry) /\ Sensible(entries[r])
          /\ todo[r] \in SUBSET Nat /\ todo[r] \subseteq DOMAIN entries[r]
          /\ entries = [entries EXCEPT ![r] = entries[r]]
          /\ todo = [todo EXCEPT ![r] = todo[r]]
          /\ conflicts \in [Requests -> SUBSET Paths]
      BY DEF SetsInv, SetsTypeOK, EntriesInv
    <3>4. /\ entries' = [entries EXCEPT ![r] = entries[r]]
          /\ todo' = [todo EXCEPT ![r] = todo[r]]
          /\ conflicts' \in [Requests -> SUBSET Paths]
          /\ UNCHANGED <<tables, sets, clock, request, now, lifecycle>>
          /\ pc' = [pc EXCEPT ![r] = place]
      BY <2>1, <2>3, <2>7, <3>3
    <3> QED BY <2>1, <2>7, <3>2, <3>3, <3>4, MoveKeeps
  <2> QED BY <1>5, <2>4, <2>5, <2>6, <2>7 DEF Throw
<1> QED BY <1>2, <1>3, <1>4, <1>5

-----------------------------------------------------------------------------
(* The rest of the service.                                                *)

(* What only the requests and their change sets look at is left alone.     *)
LEMMA OthersKeep ==
  ASSUME SetsInv, TablesInv', UNCHANGED <<sets, control>>,
         clock' \in Nat, lifecycle' \in Nat,
         \A r \in Requests : Committed(r)' <=> Committed(r)
  PROVE  SetsInv'
<1>1. SetsTypeOK'
  BY DEF SetsInv, SetsTypeOK, TablesInv, control
<1>2. RequestsFit'
  <2>1. \A r \in Requests : Fits(r, pc[r], entries[r]) => Fits(r, pc[r], entries[r])'
    BY DEF Fits, Target, control
  <2> QED BY <2>1 DEF SetsInv, RequestsFit, control
<1>3. EntriesInv'
  BY DEF SetsInv, EntriesInv, control
<1>4. DecisionsInv'
  <2>1. \A s \in Requests : IsApplied(s)' <=> IsApplied(s)
    BY DEF IsApplied
  <2>2. \A r \in Requests : Target(r)' = Target(r)
    BY DEF Target, control
  <2> QED BY <2>1, <2>2 DEF SetsInv, DecisionsInv
<1> QED BY <1>1, <1>2, <1>3, <1>4 DEF SetsInv

LEMMA WriteKeeps ==
  ASSUME SetsInv, Write
  PROVE  SetsInv'
<1>1. PICK b \in Writes : ~Committed(b.id) /\ CommitBatch(b)
  BY DEF Write
<1>2. /\ b \in Batch /\ b.id \notin Requests
      /\ OncePerPath(b) /\ EntriesMakeSense(b)
  BY ChangeSetsAssumption
     DEF DistinctPaths, WellFormedEntry, OncePerPath, EntriesMakeSense
<1>3. TablesInv'
  BY <1>1, <1>2, BatchKeepsTables DEF SetsInv
<1>4. \A r \in Requests : Committed(r)' <=> Committed(r)
  BY <1>1, <1>2, BatchCommits
<1>5. UNCHANGED <<sets, clock, control, lifecycle>>
  BY DEF Write
<1>6. clock' \in Nat /\ lifecycle' \in Nat
  BY <1>5 DEF SetsInv, SetsTypeOK
<1> QED BY <1>3, <1>4, <1>5, <1>6, OthersKeep

LEMMA TimeKeeps ==
  ASSUME SetsInv, Lifecycle \/ Tick \/ UNCHANGED vars
  PROVE  SetsInv'
<1>1. UNCHANGED <<sets, control, commits>>
  BY DEF Lifecycle, DeleteStash, RestoreStash, Tick, vars, tables
<1>2. clock' \in Nat /\ lifecycle' \in Nat
  BY DEF SetsInv, SetsTypeOK, Lifecycle, Tick, vars
<1>3. TablesInv'
  BY OthersKeepTables DEF SetsInv, Lifecycle, Tick, vars
<1>4. \A r \in Requests : Committed(r)' <=> Committed(r)
  BY <1>1 DEF Committed
<1> QED BY <1>1, <1>2, <1>3, <1>4, OthersKeep

LEMMA CollectKeeps ==
  ASSUME SetsInv, Collect
  PROVE  SetsInv'
<1>1. PICK s \in Requests :
        /\ sets[s].status \in {"open", "rejected"}
        /\ sets' = [sets EXCEPT ![s].status = "collected"]
  BY DEF Collect, Collectible
<1>2. UNCHANGED <<tables, clock, control, lifecycle>>
  BY DEF Collect
<1> DEFINE row == [sets[s] EXCEPT !.status = "collected"]
<1>3. sets[s] \in SetRow
  BY DEF SetsInv, SetsTypeOK
<1>4. /\ row \in SetRow /\ row.entries = sets[s].entries
      /\ row.status = "collected"
  BY <1>3 DEF SetRow, Statuses
<1>5. sets' = [sets EXCEPT ![s] = row]
  BY <1>1
<1> HIDE DEF row
<1>6. \A q \in Requests : sets'[q] = IF q = s THEN row ELSE sets[q]
  BY <1>5 DEF SetsInv, SetsTypeOK
<1>7. TablesInv'
  BY <1>2, OthersKeepTables DEF SetsInv
<1>8. SetsTypeOK'
  BY <1>2, <1>4, <1>5, <1>7 DEF SetsInv, SetsTypeOK, TablesInv, control
<1>9. \A q \in Requests : /\ sets'[q].entries = sets[q].entries
                          /\ sets'[q].status = "absent" <=> sets[q].status = "absent"
  BY <1>1, <1>4, <1>6
<1>10. RequestsFit'
  <2>1. ASSUME NEW q \in Requests, pc[q] # "idle"
        PROVE  Fits(q, pc[q], entries[q])'
    <3>1. Fits(q, pc[q], entries[q])
      BY <2>1 DEF SetsInv, RequestsFit
    <3>2. pc[q] \in Reviewing => Target(q) \in Requests
      BY <2>1, <3>1, CallOf DEF Fits, Reviewing, Approving
    <3> QED BY <1>2, <1>9, <2>1, <3>1, <3>2
          DEF Fits, Target, Committed, tables, control
  <2>2. ASSUME NEW q \in Requests, pc[q] = "idle"
        PROVE  sets'[q].status = "absent" /\ ~Committed(q)'
    BY <1>2, <1>9, <2>2 DEF SetsInv, RequestsFit, Committed, tables
  <2> QED BY <1>2, <2>1, <2>2 DEF RequestsFit, control
<1>11. EntriesInv'
  BY <1>2, <1>9 DEF SetsInv, EntriesInv, control
<1>12. DecisionsInv'
  <2>1. \A q \in Requests : IsApplied(q)' => q # s /\ IsApplied(q) /\ sets'[q] = sets[q]
    BY <1>4, <1>6 DEF IsApplied
  <2>2. \A q \in Requests : Committed(q)' => Committed(q)
    BY <1>2 DEF Committed, tables
  <2>3. \A q \in Requests : Committed(q) => Target(q) # s
    BY <1>1 DEF SetsInv, DecisionsInv, IsApplied
  <2> QED BY <1>2, <1>6, <2>1, <2>2, <2>3
        DEF SetsInv, DecisionsInv, IsApplied, Target, Committed, tables, control
<1> QED BY <1>7, <1>8, <1>10, <1>11, <1>12 DEF SetsInv

-----------------------------------------------------------------------------
LEMMA InitialSetsInv == Init => SetsInv
<1> SUFFICES ASSUME Init PROVE SetsInv
  OBVIOUS
<1>1. TablesInv
  BY EmptyTables DEF Init
<1>2. Unanswered \in Answer
  BY AnswerTypes DEF Unanswered, Codes
<1>3. NoSet \in SetRow
  BY DEF NoSet, SetRow, Statuses
<1>4. SetsTypeOK
  BY <1>1, <1>2, <1>3 DEF Init, SetsTypeOK, TablesInv, Places
<1>5. RequestsFit
  BY DEF Init, TablesInit, RequestsFit, NoSet, Committed
<1>6. EntriesInv
  BY DEF Init, EntriesInv, NoSet, Sensible, DistinctPaths
<1>7. DecisionsInv
  BY DEF Init, TablesInit, DecisionsInv, IsApplied, NoSet, Committed
<1> QED BY <1>1, <1>4, <1>5, <1>6, <1>7 DEF SetsInv

(* SetsInv is inductive.                                                   *)
LEMMA StepKeepsSetsInv == SetsInv /\ [Next]_vars => SetsInv'
<1> SUFFICES ASSUME SetsInv, [Next]_vars PROVE SetsInv'
  OBVIOUS
<1>1. ASSUME NEW r \in Requests, Step(r) PROVE SetsInv'
  BY <1>1, ArriveKeeps, CreationReadsKeep, StageKeeps, ReadRowKeeps,
     CheckEntryKeeps, DecisionReadsKeep, ChangesKeep
     DEF Step
<1>2. CASE Write \/ Lifecycle \/ Tick \/ Collect \/ UNCHANGED vars
  BY <1>2, WriteKeeps, TimeKeeps, CollectKeeps
<1> QED BY <1>1, <1>2 DEF Next

(* Every reachable state has well-typed requests, change sets and tables.  *)
THEOREM SetsTypeCorrect == Spec => []SetsTypeOK
<1>1. SetsInv => SetsTypeOK
  BY DEF SetsInv
<1> QED BY <1>1, InitialSetsInv, StepKeepsSetsInv, PTL DEF Spec

(* However approvals and rejections race, expire and fail, an applied      *)
(* change set and the commit of one approval of it go together, one to one.*)
THEOREM AppliedOnce == Spec => []AppliedByOneCommit
<1>1. SetsInv => AppliedByOneCommit
  BY DEF SetsInv, DecisionsInv, AppliedByOneCommit
<1> QED BY <1>1, InitialSetsInv, StepKeepsSetsInv, PTL DEF Spec

-----------------------------------------------------------------------------
(* What any step does to a change set: nothing, or it opens an absent one, *)
(* decides an open one, or removes one that is open or rejected.           *)
LEMMA StepsOfSets ==
  ASSUME SetsInv, [Next]_vars, NEW s \in Requests, sets'[s] # sets[s]
  PROVE  \/ sets[s].status \in {"absent", "open"}
         \/ /\ sets[s].status = "rejected"
            /\ sets'[s] = [sets[s] EXCEPT !.status = "collected"]
<1> USE DEF SetsInv, SetsTypeOK
<1>1. CASE Collect
  BY <1>1 DEF Collect, Collectible
<1>2. CASE Write \/ Lifecycle \/ Tick \/ UNCHANGED vars
  BY <1>2 DEF Write, Lifecycle, Tick, vars
<1>3. ASSUME NEW r \in Requests, Step(r)
      PROVE  sets[s].status \in {"absent", "open"}
  <2>1. CASE UNCHANGED sets
    BY <2>1
  <2>2. CASE pc[r] = "insert" /\ CreateSet(r)
    <3>1. sets[r].status = "absent"
      BY <2>2 DEF RequestsFit, Fits, Minted
    <3> QED BY <2>2, <3>1 DEF CreateSet
  <2>3. CASE pc[r] = "claim" /\ ApplySet(r)
    BY <2>3 DEF ApplySet, Claimable
  <2>4. CASE pc[r] = "reject" /\ RejectSet(r)
    BY <2>4 DEF RejectSet, Rejectable
  <2> QED BY <1>3, <2>1, <2>2, <2>3, <2>4
        DEF Step, Arrive, CheckLive, CheckReplay, CheckFence, Stage, Insert,
            LoseInsert, ReadBack, ExplainInsert, ReadRow, CheckEntry,
            CheckNewest, Claim, LoseClaim, Respond, Reject, LoseReject,
            AnswerReject, Throw, Goto, Reply
<1> QED BY <1>1, <1>2, <1>3 DEF Next

(* Once decided, always decided, and in the same way: no race, no retry    *)
(* after an ambiguous failure and no collector undoes a decision.          *)
THEOREM DecisionsAreFinal == Spec => DecisionIsFinal
<1> DEFINE Final ==
      \A s \in Requests :
        /\ IsApplied(s) => sets'[s] = sets[s]
        /\ sets[s].status = "rejected" =>
             sets'[s] \in {sets[s], [sets[s] EXCEPT !.status = "collected"]}
<1>1. SetsInv /\ [Next]_vars => Final
  BY StepsOfSets DEF IsApplied
<1>2. SetsInv /\ [Next]_vars => [Final]_vars
  BY <1>1
<1> QED BY <1>2, InitialSetsInv, StepKeepsSetsInv, PTL DEF Spec, DecisionIsFinal

-----------------------------------------------------------------------------
(* A batch only adds versions after those of every earlier commit.         *)
LEMMA BatchComesLater ==
  ASSUME TablesInv, NEW b \in Batch, OncePerPath(b), CommitBatch(b)
  PROVE  /\ \A c \in commits : c \in commits' /\ c.first <= lastChange
         /\ \A v \in versions' : v \in versions \/ v.id > lastChange
         /\ \E c \in commits' : c.id = b.id /\ c.first = lastChange + 1
<1>1. lastChange \in Nat /\ versions \subseteq VersionRow
        /\ commits \subseteq CommitRow
  BY DEF TablesInv, TablesTypeOK
<1>2. ASSUME NEW c \in commits PROVE c.first <= lastChange
  <2>1. c.first \in Nat /\ c.count \in Nat \ {0} /\ c.last = c.first + c.count - 1
    BY <1>1 DEF CommitRow, TablesInv, CommitsWhole
  <2>2. c.first \in c.first..c.last
    BY <2>1
  <2>3. PICK v \in RowsOf(c.id) : v.id = c.first
    BY <2>2 DEF TablesInv, CommitsWhole
  <2>4. v \in versions
    BY DEF RowsOf
  <2> QED BY <2>3, <2>4 DEF TablesInv, FeedFollowsHistory
<1>3. \A v \in versions' : v \in versions \/ v.id > lastChange
  <2>1. \A i \in DOMAIN b.entries : NewRow(b, i).id = lastChange + i /\ i \in Nat \ {0}
    BY BatchStep DEF TablesInv
  <2>2. versions' = versions \cup {NewRow(b, i) : i \in DOMAIN b.entries}
    BY BatchStep DEF TablesInv
  <2> QED BY <1>1, <2>1, <2>2
<1>4. commits' = commits \cup {NewCommit(b)}
  BY DEF CommitBatch
<1>5. NewCommit(b).id = b.id /\ NewCommit(b).first = lastChange + 1
  BY DEF NewCommit
<1> QED BY <1>2, <1>3, <1>4, <1>5

(* The changes a change set's fence excludes.                              *)
Fenced(s, v) == /\ v.id > sets[s].since
                /\ sets[s].whole \/ v.path \in sets[s].scope

(* An applied change set keeps its fence when a batch adds versions.       *)
LEMMA BatchKeepsFence ==
  ASSUME SetsInv, FenceOutlivesReview,
         NEW b \in Batch, OncePerPath(b), CommitBatch(b),
         NEW s \in Requests, IsApplied(s), NEW v \in versions', Fenced(s, v)
  PROVE  \E c \in commits' : c.id = sets[s].commit /\ v.id >= c.first
<1>1. TablesInv
  BY DEF SetsInv
<1>2. CASE v \in versions
  <2>1. PICK c \in commits : c.id = sets[s].commit /\ v.id >= c.first
    BY <1>2 DEF FenceOutlivesReview, Fenced
  <2> QED BY <1>1, <2>1, BatchComesLater
<1>3. CASE v.id > lastChange /\ v \notin versions
  <2>1. PICK c \in commits : c.id = sets[s].commit
    BY DEF SetsInv, DecisionsInv, Committed
  <2>2. c \in commits' /\ c.first <= lastChange
    BY <1>1, BatchComesLater
  <2>3. c.first \in Nat /\ lastChange \in Nat
    BY DEF SetsInv, SetsTypeOK, TablesTypeOK, CommitRow
  <2>4. v.id \in Nat
    <3>1. TablesTypeOK'
      BY <1>1, BatchKeepsTypes DEF TablesInv
    <3> QED BY <3>1 DEF TablesTypeOK, VersionRow
  <2> QED BY <1>3, <2>1, <2>2, <2>3, <2>4
<1> QED BY <1>1, <1>2, <1>3, BatchComesLater

(* Approval: the gate has just seen that nothing excluded was written.     *)
LEMMA ApplyKeepsFence ==
  ASSUME SetsInv, FenceOutlivesReview, SetsInv',
         NEW r \in Requests, pc[r] = "claim", ApplySet(r)
  PROVE  FenceOutlivesReview'
<1> DEFINE s == Target(r)
           b == ClaimBatch(r)
<1>1. /\ b \in Batch /\ b.id = r /\ OncePerPath(b) /\ s \in Requests
      /\ b.since = sets[s].since /\ b.whole = sets[s].whole
      /\ b.scope = sets[s].scope
  BY ClaimBatchFits
<1>2. CommitBatch(b) /\ TablesInv
  BY DEF ApplySet, SetsInv
<1>3. sets[s] \in SetRow
  BY <1>1 DEF SetsInv, SetsTypeOK
<1>4. /\ sets'[s].since = sets[s].since /\ sets'[s].whole = sets[s].whole
      /\ sets'[s].scope = sets[s].scope /\ sets'[s].commit = r
      /\ \A q \in Requests : q # s => sets'[q] = sets[q]
  BY <1>1, <1>3 DEF ApplySet, SetRow, SetsInv, SetsTypeOK
<1>5. GateFence(b)
  BY <1>2 DEF CommitBatch, Wins, Gate
<1>6. ASSUME NEW v \in versions PROVE ~Fenced(s, v)
  <2>1. v.path \in Paths
    BY DEF SetsInv, SetsTypeOK, TablesTypeOK, VersionRow
  <2> QED BY <1>1, <1>5, <2>1 DEF GateFence, IsNewestChange, ChangedSince, Fenced
<1>7. ASSUME NEW v \in versions', Fenced(s, v)
      PROVE  \E c \in commits' : c.id = r /\ v.id >= c.first
  <2>1. v.id > lastChange
    BY <1>1, <1>2, <1>6, <1>7, BatchComesLater
  <2>2. PICK c \in commits' : c.id = r /\ c.first = lastChange + 1
    BY <1>1, <1>2, BatchComesLater
  <2>3. v.id \in Nat /\ lastChange \in Nat
    BY DEF SetsInv, SetsTypeOK, TablesTypeOK, VersionRow
  <2> QED BY <2>1, <2>2, <2>3
<1>8. ASSUME NEW q \in Requests, IsApplied(q)', NEW v \in versions',
             v.id > sets'[q].since, sets'[q].whole \/ v.path \in sets'[q].scope
      PROVE  \E c \in commits' : c.id = sets'[q].commit /\ v.id >= c.first
  <2>1. CASE q = s
    <3>1. Fenced(s, v)
      BY <1>4, <1>8, <2>1 DEF Fenced
    <3> QED BY <1>4, <1>7, <2>1, <3>1
  <2>2. CASE q # s
    <3>1. sets'[q] = sets[q]
      BY <1>4, <2>2
    <3>2. IsApplied(q) /\ Fenced(q, v)
      BY <1>8, <3>1 DEF IsApplied, Fenced
    <3> HIDE DEF s, b
    <3> QED BY <1>1, <1>2, <3>1, <3>2, BatchKeepsFence
  <2> QED BY <2>1, <2>2
<1> QED BY <1>8 DEF FenceOutlivesReview

LEMMA WriteKeepsFence ==
  ASSUME SetsInv, FenceOutlivesReview, Write
  PROVE  FenceOutlivesReview'
<1>1. PICK b \in Writes : CommitBatch(b)
  BY DEF Write
<1>2. b \in Batch /\ OncePerPath(b) /\ UNCHANGED sets
  BY ChangeSetsAssumption DEF Write, DistinctPaths, OncePerPath
<1>3. ASSUME NEW s \in Requests, IsApplied(s)', NEW v \in versions',
             v.id > sets'[s].since, sets'[s].whole \/ v.path \in sets'[s].scope
      PROVE  \E c \in commits' : c.id = sets'[s].commit /\ v.id >= c.first
  <2>1. IsApplied(s) /\ Fenced(s, v)
    BY <1>2, <1>3 DEF IsApplied, Fenced
  <2> QED BY <1>1, <1>2, <2>1, BatchKeepsFence
<1> QED BY <1>3 DEF FenceOutlivesReview

LEMMA OthersKeepFence ==
  ASSUME SetsInv, FenceOutlivesReview, UNCHANGED <<versions, commits>>,
         \A s \in Requests : IsApplied(s)' => IsApplied(s) /\ sets'[s] = sets[s]
  PROVE  FenceOutlivesReview'
BY DEF FenceOutlivesReview

LEMMA StepKeepsFence ==
  SetsInv /\ FenceOutlivesReview /\ [Next]_vars => FenceOutlivesReview'
<1> SUFFICES ASSUME SetsInv, FenceOutlivesReview, [Next]_vars
             PROVE  FenceOutlivesReview'
  OBVIOUS
<1>1. SetsInv'
  BY StepKeepsSetsInv
<1>2. CASE Write
  BY <1>2, WriteKeepsFence
<1>3. CASE Lifecycle \/ Tick \/ UNCHANGED vars
  BY <1>3, OthersKeepFence
     DEF Lifecycle, DeleteStash, RestoreStash, Tick, vars, tables, IsApplied
<1>4. CASE Collect
  <2>1. UNCHANGED <<versions, commits>>
    BY <1>4 DEF Collect, tables
  <2>2. \A s \in Requests : IsApplied(s)' => IsApplied(s) /\ sets'[s] = sets[s]
    BY <1>4 DEF Collect, IsApplied, SetsInv, SetsTypeOK, SetRow
  <2> QED BY <2>1, <2>2, OthersKeepFence
<1>5. ASSUME NEW r \in Requests, Step(r)
      PROVE  FenceOutlivesReview'
  <2>1. CASE pc[r] = "claim" /\ ApplySet(r)
    BY <1>1, <2>1, ApplyKeepsFence
  <2>2. CASE UNCHANGED <<tables, sets>>
    BY <2>2, OthersKeepFence DEF tables, IsApplied
  <2>3. CASE CreateSet(r)
    <3>1. UNCHANGED <<versions, commits>>
      BY <2>3 DEF CreateSet, tables
    <3>2. \A s \in Requests : IsApplied(s)' => IsApplied(s) /\ sets'[s] = sets[s]
      BY <2>3 DEF CreateSet, NewSet, NoSet, IsApplied, SetsInv, SetsTypeOK
    <3> QED BY <3>1, <3>2, OthersKeepFence
  <2>4. CASE RejectSet(r)
    <3>1. UNCHANGED <<versions, commits>>
      BY <2>4 DEF RejectSet, tables
    <3>2. \A s \in Requests : IsApplied(s)' => IsApplied(s) /\ sets'[s] = sets[s]
      BY <2>4 DEF RejectSet, IsApplied, SetsInv, SetsTypeOK, SetRow
    <3> QED BY <3>1, <3>2, OthersKeepFence
  <2> QED BY <1>5, <2>1, <2>2, <2>3, <2>4
        DEF Step, Arrive, CheckLive, CheckReplay, CheckFence, Stage, Insert,
            LoseInsert, ReadBack, ExplainInsert, ReadRow, CheckEntry,
            CheckNewest, Claim, LoseClaim, Respond, Reject, LoseReject,
            AnswerReject, Throw, Goto, Reply
<1> QED BY <1>2, <1>3, <1>4, <1>5 DEF Next

(* No change that its fence excludes lies between the cursor of a change   *)
(* set and its commit, however long the review took and whoever wrote.     *)
THEOREM FencesOutliveReviews == Spec => []FenceOutlivesReview
<1>1. Init => FenceOutlivesReview
  BY DEF Init, TablesInit, FenceOutlivesReview
<1>2. Init => SetsInv /\ FenceOutlivesReview
  BY <1>1, InitialSetsInv
<1>3. SetsInv /\ FenceOutlivesReview /\ [Next]_vars
        => (SetsInv /\ FenceOutlivesReview)'
  BY StepKeepsSetsInv, StepKeepsFence
<1> QED BY <1>2, <1>3, PTL DEF Spec

-----------------------------------------------------------------------------
(* What the requests and the change sets know, and what clients are told.  *)

(* The fence of a creation or a change set is broken, for ever.            *)
FenceLost(x) ==
  \/ x.whole /\ ChangedSince(x.since, Paths)
  \/ ChangedSince(x.since, x.scope)

(* The cursor of a fence is the id of a change, or 0.                      *)
Anchored(x) == x.whole => x.since = 0 \/ \E v \in versions : v.id = x.since

(* What staging finds out of an entry, which no later write takes back.    *)
Grounded(e) ==
  /\ e.expected <= files[e.path].version
  /\ e.op \in {"copy", "rollback"} =>
       /\ Restorable(e.fromPath, e.fromVersion)
       /\ e.content = ContentAt(e.fromPath, e.fromVersion)

Bare(es) == \A i \in DOMAIN es : es[i].op = "delete" => es[i].content = Tombstone

(* Some entry of the change set is refused by the gate.                    *)
Stale(s) == \E i \in DOMAIN sets[s].entries : ~GateAccepts(sets[s].entries[i])

Refusable(s) == FenceLost(sets[s]) \/ Stale(s)

(* Only after these is a client told "internal".                           *)
Excused(r) ==
  \/ r \in thrown
  \/ lifecycle > 0
  \/ \E s \in Requests : sets[s].status = "collected"

(* What a change set says of the creation that made it.                    *)
SetFaithful(s) ==
  /\ sets[s].key = request[s].key /\ sets[s].body = Body(request[s])
  /\ Anchored(sets[s]) /\ Bare(sets[s].entries)
  /\ \A i \in DOMAIN sets[s].entries : Grounded(sets[s].entries[i])

KeysUnique ==
  \A s, t \in Requests :
    /\ Present(s) /\ Present(t)
    /\ sets[s].key # NoKey /\ sets[s].key = sets[t].key
    => s = t

(* What a request has found out, wherever it is.                           *)
Sound(r) ==
  /\ request[r].call = "create" =>
       /\ Bare(entries[r])
       /\ \A i \in DOMAIN entries[r] \ todo[r] : Grounded(entries[r][i])
  /\ request[r].call # "create" =>
       /\ sets[Target(r)].status # "absent"
       /\ conflicts[r] # {} => request[r].call = "approve" /\ Stale(Target(r))

(* What a request knows at one place of its handler.                       *)
Knows(r, place) ==
  LET s == Target(r) IN
  /\ place \in {"stage", "insert"} => Anchored(request[r])
  /\ place = "insert" => todo[r] = {}
  /\ place = "created" => sets[r].status # "absent"
  /\ place \in {"rereplay", "refence"} =>
       \/ Excused(r) \/ FenceLost(request[r])
       \/ place = "rereplay" /\ Keyed(request[r].key) # {}
  /\ place \in {"entries", "newest", "claim"} => ~Expired(s, now[r])
  /\ place = "rerow" => Excused(r) \/ sets[s].status # "open" \/ Refusable(s)
  /\ place = "reentries" =>
       \/ Excused(r) \/ FenceLost(sets[s]) \/ conflicts[r] # {}
       \/ \E i \in todo[r] : ~GateAccepts(entries[r][i])
  /\ place = "renewest" => Excused(r) \/ FenceLost(sets[s])
  /\ place = "won" => IsApplied(s)
  /\ place = "rejected" => sets[s].status \in {"rejected", "collected"}
  /\ place = "unrejected" => \/ sets[s].status # "open"
                             \/ ~live \/ lifecycle > 1

(* What a request may be told.                                             *)
Told(r, reply) ==
  LET s == Target(r) IN
  /\ reply.code = "internal" => Excused(r)
  /\ reply.code = "ok" =>
       /\ request[r].call = "approve" =>
            IsApplied(s) /\ reply = Success(s, sets[s].commit)
       /\ request[r].call = "reject" =>
            sets[s].status \in {"rejected", "collected"}
       /\ request[r].call = "create" =>
            /\ reply.set \in Requests /\ sets[reply.set].status # "absent"
            /\ sets[reply.set].body = Body(request[r])
            /\ sets[reply.set].key = request[r].key
  /\ reply.code = "change-set-closed" =>
       /\ request[r].call # "create"
       /\ \/ sets[s].status \in {"rejected", "collected"}
          \/ request[r].call = "reject" /\ (IsApplied(s) \/ lifecycle > 1)
  /\ reply.code = "commit-conflict" /\ request[r].call = "approve" =>
       Refusable(s)

RequestKnows(r) ==
  /\ pc[r] # "done" => answer[r] = Unanswered
  /\ pc[r] = "idle" => conflicts[r] = {}
  /\ pc[r] # "idle" => Sound(r) /\ Knows(r, pc[r]) /\ Told(r, answer[r])

SetsKnow ==
  /\ KeysUnique
  /\ ~live => lifecycle > 0
  /\ \A s \in Requests : sets[s].status # "absent" => SetFaithful(s)

ReviewInv ==
  /\ AppliedAsReviewed
  /\ SetsKnow
  /\ \A r \in Requests : RequestKnows(r)

(* What a step keeps of a change set that is there.                        *)
SetStays(s) ==
  sets[s].status # "absent" =>
    /\ sets'[s].status # "absent"
    /\ sets'[s].entries = sets[s].entries /\ sets'[s].body = sets[s].body
    /\ sets'[s].key = sets[s].key /\ sets'[s].expires = sets[s].expires
    /\ sets'[s].since = sets[s].since /\ sets'[s].whole = sets[s].whole
    /\ sets'[s].scope = sets[s].scope
    /\ sets[s].status = "applied" => sets'[s] = sets[s]
    /\ sets[s].status = "rejected" =>
         sets'[s].status \in {"rejected", "collected"}
    /\ sets[s].status = "collected" => sets'[s].status = "collected"
    /\ sets[s].status # "open" => sets'[s].status # "open"

(* What every step keeps of all that is known.                             *)
Forward ==
  /\ TablesInv /\ TablesInv' /\ Grows
  /\ \A s \in Requests : SetStays(s)
  /\ lifecycle \in Nat /\ lifecycle' \in Nat /\ lifecycle <= lifecycle'
  /\ live' => live \/ lifecycle' > 1
  /\ thrown \subseteq thrown'

(* A step either leaves the change sets alone, or does one of these.       *)
LEMMA SetChanges ==
  ASSUME SetsInv, [Next]_vars
  PROVE  \/ UNCHANGED <<sets, files, versions, commits>>
         \/ UNCHANGED <<sets, control>> /\ Write
         \/ UNCHANGED tables /\ Collect
         \/ \E r \in Requests : pc[r] = "insert" /\ CreateSet(r)
         \/ \E r \in Requests : pc[r] = "claim" /\ ApplySet(r)
         \/ \E r \in Requests : pc[r] = "reject" /\ RejectSet(r)
<1>1. CASE Write
  BY <1>1 DEF Write
<1>2. CASE Lifecycle \/ Tick \/ UNCHANGED vars
  BY <1>2 DEF Lifecycle, DeleteStash, RestoreStash, Tick, vars, tables
<1>3. CASE Collect
  BY <1>3 DEF Collect
<1>4. ASSUME NEW r \in Requests, Step(r)
      PROVE  \/ UNCHANGED <<sets, files, versions, commits>>
             \/ pc[r] = "insert" /\ CreateSet(r)
             \/ pc[r] = "claim" /\ ApplySet(r)
             \/ pc[r] = "reject" /\ RejectSet(r)
  <2> USE DEF tables
  <2>1. CASE Arrive(r) \/ CheckLive(r) \/ CheckReplay(r) \/ CheckFence(r)
               \/ Stage(r)
    BY <2>1 DEF Arrive, CheckLive, CheckReplay, CheckFence, Stage, Goto, Reply
  <2>2. CASE Insert(r) \/ Claim(r) \/ Reject(r) \/ Throw(r)
    BY <2>2 DEF Insert, Claim, Reject, Throw
  <2>3. CASE LoseInsert(r) \/ ReadBack(r) \/ ExplainInsert(r) \/ ReadRow(r)
               \/ CheckEntry(r) \/ CheckNewest(r)
    BY <2>3 DEF LoseInsert, ReadBack, ExplainInsert, ReadRow, CheckEntry,
                CheckNewest, Goto, Reply
  <2>4. CASE LoseClaim(r) \/ Respond(r) \/ LoseReject(r) \/ AnswerReject(r)
    BY <2>4 DEF LoseClaim, Respond, LoseReject, AnswerReject, Goto, Reply
  <2> QED BY <1>4, <2>1, <2>2, <2>3, <2>4 DEF Step
<1> QED BY <1>1, <1>2, <1>3, <1>4 DEF Next

(* Rows are only added, by the batches of others and of approvals.         *)
LEMMA StepGrows ==
  ASSUME SetsInv, [Next]_vars
  PROVE  Grows
<1>1. TablesTypeOK
  BY DEF SetsInv, SetsTypeOK
<1>2. CASE Write
  <2>1. PICK b \in Writes : ~Committed(b.id) /\ CommitBatch(b)
    BY <1>2 DEF Write
  <2>2. b \in Batch /\ OncePerPath(b)
    BY ChangeSetsAssumption DEF DistinctPaths, OncePerPath
  <2> QED BY <1>1, <2>1, <2>2, BatchGrows
<1>3. ASSUME NEW r \in Requests, pc[r] = "claim", ApplySet(r)
      PROVE  Grows
  BY <1>1, <1>3, ClaimBatchFits, BatchGrows DEF ApplySet
<1>4. CASE UNCHANGED <<files, versions, commits>>
  BY <1>1, <1>4, OthersGrow
<1> QED BY <1>2, <1>3, <1>4, SetChanges DEF CreateSet, RejectSet, tables

LEMMA StepSetStays ==
  ASSUME SetsInv, [Next]_vars, NEW s \in Requests
  PROVE  SetStays(s)
<1>1. sets \in [Requests -> SetRow]
  BY DEF SetsInv, SetsTypeOK
<1>2. CASE UNCHANGED sets
  BY <1>1, <1>2 DEF SetStays
<1>3. CASE Collect
  BY <1>1, <1>3 DEF Collect, Collectible, SetStays, SetRow
<1>4. ASSUME NEW r \in Requests, pc[r] = "insert", CreateSet(r)
      PROVE  SetStays(s)
  <2>1. sets[r].status = "absent"
    BY <1>4 DEF SetsInv, RequestsFit, Fits, Minted
  <2> QED BY <1>1, <1>4, <2>1 DEF CreateSet, SetStays
<1>5. ASSUME NEW r \in Requests, pc[r] = "claim", ApplySet(r)
      PROVE  SetStays(s)
  BY <1>1, <1>5 DEF ApplySet, Claimable, SetStays, SetRow
<1>6. ASSUME NEW r \in Requests, pc[r] = "reject", RejectSet(r)
      PROVE  SetStays(s)
  BY <1>1, <1>6 DEF RejectSet, Rejectable, SetStays, SetRow
<1> QED BY <1>2, <1>3, <1>4, <1>5, <1>6, SetChanges

LEMMA OnlyLifecycleDeletes ==
  ASSUME [Next]_vars, ~Lifecycle
  PROVE  UNCHANGED <<live, lifecycle>> /\ thrown \subseteq thrown'
<1>1. CASE Write \/ Tick \/ Collect \/ UNCHANGED vars
  BY <1>1 DEF Write, CommitBatch, Tick, Collect, vars, tables, control
<1>2. ASSUME NEW r \in Requests, Step(r)
      PROVE  UNCHANGED <<live, lifecycle>> /\ thrown \subseteq thrown'
  <2> USE DEF tables
  <2>1. CASE Arrive(r) \/ CheckLive(r) \/ CheckReplay(r) \/ CheckFence(r)
               \/ Stage(r)
    BY <2>1 DEF Arrive, CheckLive, CheckReplay, CheckFence, Stage, Goto, Reply
  <2>2. CASE Insert(r) \/ Claim(r) \/ Reject(r) \/ Throw(r)
    BY <2>2 DEF Insert, Claim, Reject, Throw, CreateSet, ApplySet, RejectSet,
                CommitBatch
  <2>3. CASE LoseInsert(r) \/ ReadBack(r) \/ ExplainInsert(r) \/ ReadRow(r)
               \/ CheckEntry(r) \/ CheckNewest(r)
    BY <2>3 DEF LoseInsert, ReadBack, ExplainInsert, ReadRow, CheckEntry,
                CheckNewest, Goto, Reply
  <2>4. CASE LoseClaim(r) \/ Respond(r) \/ LoseReject(r) \/ AnswerReject(r)
    BY <2>4 DEF LoseClaim, Respond, LoseReject, AnswerReject, Goto, Reply
  <2> QED BY <1>2, <2>1, <2>2, <2>3, <2>4 DEF Step
<1> QED BY <1>1, <1>2 DEF Next

LEMMA StepForward ==
  ASSUME SetsInv, SetsKnow, [Next]_vars
  PROVE  Forward
<1>1. TablesInv /\ TablesInv'
  BY StepKeepsSetsInv DEF SetsInv
<1>2. lifecycle \in Nat
  BY DEF SetsInv, SetsTypeOK
<1>3. CASE Lifecycle
  BY <1>1, <1>2, <1>3, StepGrows, StepSetStays
     DEF Lifecycle, DeleteStash, RestoreStash, SetsKnow, Forward, control
<1>4. CASE ~Lifecycle
  BY <1>1, <1>2, <1>4, StepGrows, StepSetStays, OnlyLifecycleDeletes DEF Forward
<1> QED BY <1>3, <1>4

-----------------------------------------------------------------------------
(* What is known once stays true.                                          *)

LEMMA GroundedStays ==
  ASSUME Forward, NEW e, e.path \in Paths, e.expected \in Nat, Grounded(e)
  PROVE  /\ Grounded(e)'
         /\ ~GateAccepts(e) => ~GateAccepts(e)'
<1>1. /\ files[e.path].version \in Nat /\ files'[e.path].version \in Nat
      /\ files[e.path].version <= files'[e.path].version
      /\ files'[e.path].version = files[e.path].version
           => files'[e.path] = files[e.path]
  BY DEF Forward, Grows, TablesInv, TablesTypeOK, FileRow
<1>2. ASSUME e.op \in {"copy", "rollback"}
      PROVE  /\ Restorable(e.fromPath, e.fromVersion)'
             /\ e.content = ContentAt(e.fromPath, e.fromVersion)'
             /\ Restorable(e.fromPath, e.fromVersion)
  <2>1. Restorable(e.fromPath, e.fromVersion)
    BY <1>2 DEF Grounded
  <2>2. RowsAt(e.fromPath, e.fromVersion) # {}
    BY <2>1 DEF Restorable
  <2>3. HistoryContiguous' /\ versions \subseteq versions'
    BY DEF Forward, Grows, TablesInv
  <2> QED BY <1>2, <2>1, <2>2, <2>3, RowsAtStay DEF Grounded
<1>3. Grounded(e)'
  BY <1>1, <1>2 DEF Grounded
<1>4. ~GateAccepts(e) => ~GateAccepts(e)'
  BY <1>1, <1>2 DEF Grounded, GateAccepts
<1> QED BY <1>3, <1>4

LEMMA FenceStays ==
  ASSUME Forward, NEW x
  PROVE  /\ FenceLost(x) => FenceLost(x)'
         /\ Anchored(x) => Anchored(x)'
BY DEF Forward, Grows, FenceLost, Anchored, ChangedSince

(* The gate refuses a fence that is lost, and one that was anchored only   *)
(* if it is lost.                                                          *)
LEMMA FenceAtGate ==
  ASSUME TablesInv, NEW x, Anchored(x)
  PROVE  GateFence(x) <=> ~FenceLost(x)
BY DEF GateFence, FenceLost, Anchored, IsNewestChange

LEMMA ExcusedStays ==
  ASSUME Forward, NEW r, Excused(r)
  PROVE  Excused(r)'
BY DEF Forward, SetStays, Excused

(* What holds of a change set that is there.                               *)
LEMMA SetKnown ==
  ASSUME SetsInv, SetsKnow, Forward, NEW s \in Requests,
         sets[s].status # "absent"
  PROVE  /\ sets'[s].status # "absent"
         /\ Stale(s) => Stale(s)'
         /\ FenceLost(sets[s]) => FenceLost(sets[s])'
         /\ Refusable(s) => Refusable(s)'
         /\ request'[s] = request[s] => SetFaithful(s)'
<1>1. /\ sets'[s].status # "absent"
      /\ sets'[s].entries = sets[s].entries /\ sets'[s].body = sets[s].body
      /\ sets'[s].key = sets[s].key
      /\ sets'[s].since = sets[s].since /\ sets'[s].whole = sets[s].whole
      /\ sets'[s].scope = sets[s].scope
  BY DEF Forward, SetStays
<1>2. SetFaithful(s)
  BY DEF SetsKnow
<1>3. sets[s].entries \in Seq(Entry)
  BY DEF SetsInv, SetsTypeOK, SetRow
<1>4. ASSUME NEW i \in DOMAIN sets[s].entries
      PROVE  /\ Grounded(sets[s].entries[i])'
             /\ ~GateAccepts(sets[s].entries[i])
                  => ~GateAccepts(sets[s].entries[i])'
  <2>1. sets[s].entries[i] \in Entry /\ Grounded(sets[s].entries[i])
    BY <1>2, <1>3 DEF SetFaithful
  <2>2. PICK e : e = sets[s].entries[i]
    OBVIOUS
  <2>3. e.path \in Paths /\ e.expected \in Nat /\ Grounded(e)
    BY <2>1, <2>2 DEF Entry
  <2>4. Grounded(e)' /\ (~GateAccepts(e) => ~GateAccepts(e)')
    BY <2>3, GroundedStays
  <2>5. sets'[s].entries[i] = e
    BY <1>1, <2>2
  <2> QED BY <2>2, <2>4, <2>5
        DEF Grounded, GateAccepts, Restorable, ContentAt, RowsAt
<1>5. Stale(s) => Stale(s)'
  BY <1>1, <1>4 DEF Stale
<1>6. FenceLost(sets[s]) => FenceLost(sets[s])'
  BY <1>1 DEF Forward, Grows, FenceLost, ChangedSince
<1>7. Anchored(sets[s])'
  BY <1>1, <1>2 DEF Forward, Grows, SetFaithful, Anchored
<1>8. Bare(sets[s].entries)'
  BY <1>1, <1>2 DEF SetFaithful, Bare
<1>9. request'[s] = request[s] => SetFaithful(s)'
  BY <1>1, <1>2, <1>4, <1>7, <1>8 DEF SetFaithful, Body
<1> QED BY <1>1, <1>5, <1>6, <1>9 DEF Refusable

(* The request of another step: nothing of its own changes.                *)
Unmoved(q) ==
  /\ pc'[q] = pc[q] /\ request'[q] = request[q] /\ now'[q] = now[q]
  /\ entries'[q] = entries[q] /\ todo'[q] = todo[q]
  /\ conflicts'[q] = conflicts[q] /\ answer'[q] = answer[q]

LEMMA EntriesStayGrounded ==
  ASSUME SetsInv, Forward, NEW q \in Requests, entries'[q] = entries[q],
         NEW i \in DOMAIN entries[q], Grounded(entries[q][i])
  PROVE  /\ Grounded(entries[q][i])'
         /\ ~GateAccepts(entries[q][i]) => ~GateAccepts(entries[q][i])'
<1>1. entries[q] \in Seq(Entry)
  BY DEF SetsInv, SetsTypeOK
<1>2. entries[q][i] \in Entry
  BY <1>1
<1>3. PICK e : e = entries[q][i]
  OBVIOUS
<1>4. e.path \in Paths /\ e.expected \in Nat /\ Grounded(e)
  BY <1>2, <1>3 DEF Entry
<1>5. Grounded(e)' /\ (~GateAccepts(e) => ~GateAccepts(e)')
  BY <1>4, GroundedStays
<1>6. entries'[q][i] = e
  BY <1>3
<1> QED BY <1>3, <1>5, <1>6
      DEF Grounded, GateAccepts, Restorable, ContentAt, RowsAt

LEMMA SoundStays ==
  ASSUME SetsInv, SetsKnow, Forward, NEW q \in Requests, pc[q] # "idle",
         request'[q] = request[q], entries'[q] = entries[q],
         todo'[q] = todo[q], conflicts'[q] = conflicts[q], Sound(q)
  PROVE  Sound(q)'
<1>1. CASE request[q].call = "create"
  <2>1. Bare(entries[q])'
    BY <1>1 DEF Sound, Bare
  <2>2. \A i \in DOMAIN entries[q] \ todo[q] : Grounded(entries[q][i])'
    BY <1>1, EntriesStayGrounded DEF Sound
  <2>3. \A i \in DOMAIN entries'[q] \ todo'[q] : Grounded(entries[q][i])'
    BY <2>2
  <2> QED BY <1>1, <2>1, <2>3 DEF Sound
<1>2. CASE request[q].call # "create"
  <2>1. Target(q) \in Requests /\ sets[Target(q)].status # "absent"
    BY <1>2, CallOf DEF Sound
  <2>2. PICK s \in Requests : s = Target(q)
    BY <2>1
  <2>3. sets'[s].status # "absent" /\ (Stale(s) => Stale(s)')
    BY <2>1, <2>2, SetKnown
  <2>4. Target(q)' = s
    BY <2>2 DEF Target
  <2> QED BY <1>2, <2>2, <2>3, <2>4 DEF Sound, Stale
<1> QED BY <1>1, <1>2

LEMMA ToldStays ==
  ASSUME SetsInv, SetsKnow, Forward, NEW q \in Requests, pc[q] # "idle",
         request'[q] = request[q], Sound(q), NEW reply, Told(q, reply)
  PROVE  Told(q, reply)'
<1>1. /\ request[q].call # "create" =>
           Target(q) \in Requests /\ sets[Target(q)].status # "absent"
      /\ request[q].call \in {"create", "approve", "reject"}
      /\ Target(q)' = Target(q)
  BY CallOf DEF Sound, Call, Target
<1>2. PICK s : s = Target(q)
  OBVIOUS
<1>3. Target(q)' = s
  BY <1>1, <1>2
<1>4. Excused(q) => Excused(q)'
  BY ExcusedStays
<1>5. CASE request[q].call = "create"
  <2>1. Body(request[q])' = Body(request[q])
    BY DEF Body
  <2>2. \A x \in Requests : sets[x].status # "absent" =>
          /\ sets'[x].status # "absent" /\ sets'[x].body = sets[x].body
          /\ sets'[x].key = sets[x].key
    BY DEF Forward, SetStays
  <2>3. reply.code = "ok" =>
          /\ reply.set \in Requests /\ sets'[reply.set].status # "absent"
          /\ sets'[reply.set].body = Body(request[q])
          /\ sets'[reply.set].key = request[q].key
    BY <1>5, <2>2 DEF Told
  <2>4. reply.code # "change-set-closed"
    BY <1>5 DEF Told
  <2> QED BY <1>3, <1>4, <1>5, <2>1, <2>3, <2>4 DEF Told
<1>6. CASE request[q].call # "create"
  <2>1. s \in Requests /\ sets[s].status # "absent"
    BY <1>1, <1>2, <1>6
  <2>2. Refusable(s) => Refusable(s)'
    BY <2>1, SetKnown
  <2>3. /\ IsApplied(s) => IsApplied(s)' /\ sets'[s] = sets[s]
        /\ sets[s].status \in {"rejected", "collected"}
             => sets'[s].status \in {"rejected", "collected"}
        /\ lifecycle > 1 => lifecycle' > 1
    BY <2>1 DEF Forward, SetStays, IsApplied
  <2>4. Refusable(Target(q)) => Refusable(Target(q))'
    BY <1>2, <1>3, <2>2 DEF Refusable, Stale
  <2>5. IsApplied(Target(q)) => IsApplied(Target(q))'
    BY <1>2, <1>3, <2>3 DEF IsApplied
  <2> QED BY <1>2, <1>3, <1>4, <1>6, <2>3, <2>4, <2>5 DEF Told, Success
<1> QED BY <1>5, <1>6

LEMMA KnowsStays ==
  ASSUME SetsInv, SetsInv', SetsKnow, Forward, NEW q \in Requests, pc[q] # "idle",
         Unmoved(q), Sound(q), Knows(q, pc[q])
  PROVE  Knows(q, pc[q])'
<1>1. /\ pc'[q] = pc[q] /\ request'[q] = request[q] /\ now'[q] = now[q]
      /\ entries'[q] = entries[q] /\ todo'[q] = todo[q]
      /\ conflicts'[q] = conflicts[q]
  BY DEF Unmoved
<1>2. Fits(q, pc[q], entries[q])
  BY DEF SetsInv, RequestsFit
<1>3. Excused(q) => Excused(q)'
  BY ExcusedStays
<1>4. CASE pc[q] \in Creating
  <2>1. Anchored(request[q]) => Anchored(request[q])'
    BY <1>1 DEF Forward, Grows, Anchored
  <2>2. FenceLost(request[q]) => FenceLost(request[q])'
    BY <1>1 DEF Forward, Grows, FenceLost, ChangedSince
  <2>3. sets[q].status # "absent" => sets'[q].status # "absent"
    BY DEF Forward, SetStays
  <2>4. Keyed(request[q].key) # {}
          => Keyed(request[q].key)' # {} \/ Excused(q)'
    <3>1. ASSUME NEW x \in Keyed(request[q].key)
          PROVE  \/ x \in Keyed(request[q].key)'
                 \/ sets'[x].status = "collected"
      <4>1. /\ x \in Requests /\ Present(x) /\ request[q].key # NoKey
            /\ sets[x].key = request[q].key
        BY <3>1 DEF Keyed
      <4>2. sets[x].status # "absent"
        BY <4>1 DEF Present
      <4>3. sets'[x].status # "absent" /\ sets'[x].key = sets[x].key
        BY <4>1, <4>2 DEF Forward, SetStays
      <4>4. sets' \in [Requests -> SetRow]
        BY DEF SetsInv, SetsTypeOK
      <4>5. sets'[x] \in SetRow
        BY <4>1, <4>4
      <4>6. sets'[x].status \in Statuses
        BY <4>5 DEF SetRow
      <4> QED BY <1>1, <4>1, <4>3, <4>6 DEF Keyed, Present, Statuses
    <3> QED BY <3>1 DEF Excused, Keyed
  <2>5. pc[q] \notin {"entries", "newest", "claim", "rerow", "reentries",
                      "renewest", "won", "rejected", "unrejected"}
    BY <1>4 DEF Creating
  <2> QED BY <1>1, <1>3, <2>1, <2>2, <2>3, <2>4, <2>5 DEF Knows
<1>5. CASE pc[q] \in Approving \cup Rejecting
  <2>1. request[q].call # "create" /\ Target(q) \in Requests
    BY <1>2, <1>5, CallOf DEF Fits
  <2>2. PICK s \in Requests : s = Target(q)
    BY <2>1
  <2>3. Target(q)' = s /\ sets[s].status # "absent"
    BY <1>1, <2>1, <2>2 DEF Target, Sound
  <2>4. /\ FenceLost(sets[s]) => FenceLost(sets[s])'
        /\ Refusable(s) => Refusable(s)'
    BY <2>3, SetKnown
  <2>5. ASSUME pc[q] = "reentries", NEW i \in todo[q],
               ~GateAccepts(entries[q][i])
        PROVE  ~GateAccepts(entries[q][i])'
    <3>1. i \in DOMAIN entries[q]
      BY DEF SetsInv, EntriesInv
    <3>2. entries[q] = sets[s].entries
      BY <1>2, <2>2, <2>5 DEF Fits, Reviewing
    <3>3. Grounded(entries[q][i])
      BY <2>3, <3>1, <3>2 DEF SetsKnow, SetFaithful
    <3> QED BY <1>1, <2>5, <3>1, <3>3, EntriesStayGrounded
  <2>6. /\ sets'[s].expires = sets[s].expires
        /\ sets[s].status # "open" => sets'[s].status # "open"
        /\ sets[s].status = "applied" => sets'[s].status = "applied"
        /\ sets[s].status \in {"rejected", "collected"}
             => sets'[s].status \in {"rejected", "collected"}
        /\ ~live => ~live' \/ lifecycle' > 1
        /\ lifecycle > 1 => lifecycle' > 1
    BY <2>3 DEF Forward, SetStays
  <2>7. pc[q] \notin {"stage", "insert", "created", "rereplay", "refence"}
    BY <1>5 DEF Approving, Rejecting
  <2>8. CASE pc[q] \in {"entries", "newest", "claim", "won", "rejected",
                        "unrejected"}
    BY <1>1, <2>2, <2>3, <2>6, <2>7, <2>8 DEF Knows, Expired, IsApplied
  <2>9. CASE pc[q] = "rerow"
    <3>1. Refusable(Target(q)) => Refusable(Target(q))'
      BY <2>2, <2>3, <2>4 DEF Refusable, Stale
    <3> QED BY <1>1, <1>3, <2>2, <2>3, <2>6, <2>9, <3>1 DEF Knows
  <2>10. CASE pc[q] = "renewest"
    <3>1. FenceLost(sets[Target(q)]) => FenceLost(sets[Target(q)])'
      BY <2>2, <2>3, <2>4 DEF FenceLost
    <3> QED BY <1>1, <1>3, <2>10, <3>1 DEF Knows
  <2>11. CASE pc[q] = "reentries"
    <3>1. FenceLost(sets[Target(q)]) => FenceLost(sets[Target(q)])'
      BY <2>2, <2>3, <2>4 DEF FenceLost
    <3> QED BY <1>1, <1>3, <2>5, <2>11, <3>1 DEF Knows
  <2>12. CASE pc[q] \in {"row", "reject"}
    BY <1>1, <2>12 DEF Knows
  <2> QED BY <1>5, <2>8, <2>9, <2>10, <2>11, <2>12 DEF Approving, Rejecting
<1>6. CASE pc[q] \in {"live", "done"}
  BY <1>1, <1>6 DEF Knows
<1>7. pc[q] \in Creating \cup Approving \cup Rejecting \cup {"live", "done"}
  BY <1>2 DEF Fits, Places, Creating, Approving, Rejecting
<1> QED BY <1>4, <1>5, <1>6, <1>7

LEMMA UnmovedKnows ==
  ASSUME SetsInv, SetsInv', ReviewInv, Forward, NEW q \in Requests, Unmoved(q)
  PROVE  RequestKnows(q)'
<1>1. SetsKnow /\ RequestKnows(q)
  BY DEF ReviewInv
<1>2. CASE pc[q] = "idle"
  BY <1>1, <1>2 DEF RequestKnows, Unmoved, Unanswered, Refusal
<1>3. CASE pc[q] # "idle"
  <2>1. Sound(q) /\ Knows(q, pc[q]) /\ Told(q, answer[q])
    BY <1>1, <1>3 DEF RequestKnows
  <2>2. Sound(q)' /\ Knows(q, pc[q])'
    BY <1>1, <1>3, <2>1, SoundStays, KnowsStays DEF Unmoved
  <2>3. PICK reply : reply = answer[q]
    OBVIOUS
  <2>4. Told(q, reply)'
    BY <1>1, <1>3, <2>1, <2>3, ToldStays DEF Unmoved
  <2>5. Told(q, answer[q])'
    BY <2>3, <2>4 DEF Told, Unmoved
  <2> QED BY <1>1, <1>3, <2>2, <2>5
        DEF RequestKnows, Unmoved, Unanswered, Refusal
<1> QED BY <1>2, <1>3

-----------------------------------------------------------------------------
(* The change sets and their commits.                                      *)

(* A request that has arrived stays the same call.                         *)
LEMMA RequestStays ==
  ASSUME SetsInv, [Next]_vars, NEW q \in Requests, pc[q] # "idle"
  PROVE  request'[q] = request[q]
<1>1. CASE Write \/ Lifecycle \/ Tick \/ Collect \/ UNCHANGED vars
  BY <1>1 DEF Write, Lifecycle, Tick, Collect, vars, control
<1>2. ASSUME NEW r \in Requests, Step(r)
      PROVE  request'[q] = request[q]
  <2>1. CASE Arrive(r)
    BY <2>1 DEF Arrive, SetsInv, SetsTypeOK
  <2>2. CASE CheckLive(r) \/ CheckReplay(r) \/ CheckFence(r) \/ Stage(r)
    BY <2>2 DEF CheckLive, CheckReplay, CheckFence, Stage, Goto, Reply
  <2>3. CASE Insert(r) \/ Claim(r) \/ Reject(r) \/ Throw(r)
    BY <2>3 DEF Insert, Claim, Reject, Throw
  <2>4. CASE LoseInsert(r) \/ ReadBack(r) \/ ExplainInsert(r) \/ ReadRow(r)
               \/ CheckEntry(r) \/ CheckNewest(r)
    BY <2>4 DEF LoseInsert, ReadBack, ExplainInsert, ReadRow, CheckEntry,
                CheckNewest, Goto, Reply
  <2>5. CASE LoseClaim(r) \/ Respond(r) \/ LoseReject(r) \/ AnswerReject(r)
    BY <2>5 DEF LoseClaim, Respond, LoseReject, AnswerReject, Goto, Reply
  <2> QED BY <1>2, <2>1, <2>2, <2>3, <2>4, <2>5 DEF Step
<1> QED BY <1>1, <1>2 DEF Next

(* Only its own creation makes a change set.                               *)
LEMMA OnlyCreationMakesSets ==
  ASSUME SetsInv, [Next]_vars, NEW s \in Requests,
         sets[s].status = "absent", sets'[s].status # "absent"
  PROVE  pc[s] = "insert" /\ CreateSet(s)
<1>1. sets \in [Requests -> SetRow]
  BY DEF SetsInv, SetsTypeOK
<1>2. CASE UNCHANGED sets
  BY <1>2
<1>3. CASE Collect
  BY <1>1, <1>3 DEF Collect, Collectible
<1>4. ASSUME NEW r \in Requests, pc[r] = "claim", ApplySet(r)
      PROVE  FALSE
  BY <1>1, <1>4 DEF ApplySet, Claimable
<1>5. ASSUME NEW r \in Requests, pc[r] = "reject", RejectSet(r)
      PROVE  FALSE
  BY <1>1, <1>5 DEF RejectSet, Rejectable
<1>6. ASSUME NEW r \in Requests, pc[r] = "insert", CreateSet(r)
      PROVE  r = s
  BY <1>1, <1>6 DEF CreateSet
<1> QED BY <1>2, <1>3, <1>4, <1>5, <1>6, SetChanges

LEMMA NewSetFields ==
  ASSUME SetsInv, NEW r \in Requests, pc[r] = "insert", CreateSet(r)
  PROVE  /\ sets' = [sets EXCEPT ![r] = NewSet(r)] /\ sets'[r] = NewSet(r)
         /\ NewSet(r).status = "open" /\ NewSet(r).entries = entries[r]
         /\ NewSet(r).since = request[r].since
         /\ NewSet(r).whole = request[r].whole
         /\ NewSet(r).scope = request[r].scope
         /\ NewSet(r).key = request[r].key
         /\ NewSet(r).body = Body(request[r])
         /\ request[r].call = "create"
         /\ UNCHANGED tables
<1>1. request[r].call = "create"
  BY DEF SetsInv, RequestsFit, Fits, Creating
<1>2. sets' = [sets EXCEPT ![r] = NewSet(r)] /\ UNCHANGED tables
  BY DEF CreateSet
<1>3. sets'[r] = NewSet(r)
  BY <1>2 DEF SetsInv, SetsTypeOK
<1> QED BY <1>1, <1>2, <1>3 DEF NewSet, NoSet

LEMMA NewSetFaithful ==
  ASSUME SetsInv, ReviewInv, [Next]_vars,
         NEW r \in Requests, pc[r] = "insert", CreateSet(r)
  PROVE  SetFaithful(r)'
<1>1. /\ sets'[r] = NewSet(r) /\ UNCHANGED tables
      /\ NewSet(r).entries = entries[r] /\ NewSet(r).body = Body(request[r])
      /\ NewSet(r).since = request[r].since
      /\ NewSet(r).whole = request[r].whole
      /\ NewSet(r).key = request[r].key /\ request[r].call = "create"
  BY NewSetFields
<1>2. request'[r] = request[r]
  BY RequestStays
<1>3. Sound(r) /\ Knows(r, "insert")
  BY DEF ReviewInv, RequestKnows
<1>4. /\ Bare(entries[r]) /\ Anchored(request[r])
      /\ \A i \in DOMAIN entries[r] : Grounded(entries[r][i])
  BY <1>1, <1>3 DEF Sound, Knows
<1> HIDE DEF NewSet
<1>5. Anchored(sets[r])' /\ Bare(sets[r].entries)'
  BY <1>1, <1>4 DEF Anchored, Bare, tables
<1>6. \A i \in DOMAIN sets'[r].entries : Grounded(sets[r].entries[i])'
  BY <1>1, <1>4 DEF Grounded, Restorable, ContentAt, RowsAt, tables
<1> QED BY <1>1, <1>2, <1>5, <1>6 DEF SetFaithful, Body

LEMMA StepKeepsSetsKnow ==
  ASSUME SetsInv, SetsInv', ReviewInv, Forward, [Next]_vars
  PROVE  SetsKnow'
<1>1. SetsKnow
  BY DEF ReviewInv
<1>2. ASSUME NEW s \in Requests, sets'[s].status # "absent"
      PROVE  SetFaithful(s)'
  <2>1. CASE sets[s].status = "absent"
    BY <1>2, <2>1, OnlyCreationMakesSets, NewSetFaithful
  <2>2. CASE sets[s].status # "absent"
    <3>1. pc[s] # "idle"
      BY <2>2 DEF SetsInv, RequestsFit
    <3> QED BY <1>1, <2>2, <3>1, RequestStays, SetKnown
  <2> QED BY <2>1, <2>2
<1>3. ASSUME NEW s \in Requests, sets[s].status # "absent", Present(s)'
      PROVE  Present(s) /\ sets'[s].key = sets[s].key
  <2>1. sets[s] \in SetRow
    BY DEF SetsInv, SetsTypeOK
  <2>2. sets[s].status \in Statuses
    BY <2>1 DEF SetRow
  <2> QED BY <1>3, <2>2 DEF Forward, SetStays, Present, Statuses
<1>4. ASSUME NEW s \in Requests, sets[s].status = "absent", Present(s)'
      PROVE  /\ Keyed(sets'[s].key) = {}
             /\ \A t \in Requests : t # s => sets'[t] = sets[t]
  <2>1. pc[s] = "insert" /\ CreateSet(s)
    BY <1>4, OnlyCreationMakesSets DEF Present
  <2>2. sets'[s].key = request[s].key
    BY <2>1, NewSetFields
  <2> QED BY <2>1, <2>2 DEF CreateSet, InsertWins, SetsInv, SetsTypeOK
<1>5. KeysUnique'
  <2> SUFFICES ASSUME NEW s \in Requests, NEW t \in Requests,
                      Present(s)', Present(t)', sets'[s].key # NoKey,
                      sets'[s].key = sets'[t].key, s # t
               PROVE  FALSE
    BY DEF KeysUnique
  <2>1. ASSUME NEW x \in Requests, NEW y \in Requests, x # y,
               Present(x)', Present(y)', sets'[x].key # NoKey,
               sets'[x].key = sets'[y].key, sets[x].status = "absent"
        PROVE  FALSE
    <3>1. Keyed(sets'[x].key) = {} /\ sets'[y] = sets[y]
      BY <1>4, <2>1
    <3>2. Present(y) /\ sets[y].key = sets'[x].key
      BY <2>1, <3>1 DEF Present
    <3> QED BY <2>1, <3>1, <3>2 DEF Keyed
  <2>2. CASE sets[s].status # "absent" /\ sets[t].status # "absent"
    <3>1. /\ Present(s) /\ sets'[s].key = sets[s].key
          /\ Present(t) /\ sets'[t].key = sets[t].key
      BY <1>3, <2>2
    <3> QED BY <1>1, <3>1 DEF SetsKnow, KeysUnique
  <2> QED BY <2>1, <2>2
<1>6. ~live' => lifecycle' > 0
  <2>1. CASE Lifecycle
    BY <2>1 DEF Lifecycle, Forward
  <2>2. CASE UNCHANGED <<live, lifecycle>>
    BY <1>1, <2>2 DEF SetsKnow
  <2>3. ~Lifecycle => UNCHANGED <<live, lifecycle>>
    BY OnlyLifecycleDeletes
  <2> QED BY <2>1, <2>2, <2>3
<1> QED BY <1>2, <1>5, <1>6 DEF SetsKnow

(* The rows of an approval are the entries that were shown.                *)
LEMMA RowsOfApproval ==
  ASSUME SetsInv, ReviewInv, NEW r \in Requests, pc[r] = "claim", ApplySet(r)
  PROVE  {<<v.path, v.version, v.content>> : v \in {w \in versions' : w.commit = r}}
           = {<<e.path, e.expected + 1, e.content>> :
                e \in {sets[Target(r)].entries[i] :
                         i \in DOMAIN sets[Target(r)].entries}}
<1> DEFINE b == ClaimBatch(r)
           es == sets[Target(r)].entries
<1>1. /\ b \in Batch /\ b.id = r /\ b.entries = entries[r] /\ OncePerPath(b)
      /\ ~Committed(r) /\ Target(r) \in Requests
  BY ClaimBatchFits
<1>2. entries[r] = es /\ sets[Target(r)].status # "absent"
  BY DEF SetsInv, RequestsFit, Fits, Reviewing
<1>3. CommitBatch(b) /\ TablesTypeOK
  BY DEF ApplySet, SetsInv, SetsTypeOK
<1>4. /\ versions' = versions \cup {NewRow(b, i) : i \in DOMAIN b.entries}
      /\ \A i \in DOMAIN b.entries : NewRow(b, i).commit = r
  BY <1>1, <1>3, BatchStep
<1>5. \A v \in versions : v.commit # r
  BY <1>1 DEF SetsInv, TablesInv, CommitsWhole
<1>6. {w \in versions' : w.commit = r} = {NewRow(b, i) : i \in DOMAIN es}
  BY <1>1, <1>2, <1>4, <1>5
<1>7. ASSUME NEW i \in DOMAIN es
      PROVE  /\ NewRow(b, i).path = es[i].path
             /\ NewRow(b, i).version = es[i].expected + 1
             /\ NewRow(b, i).content = es[i].content
  <2>1. SetFaithful(Target(r))
    BY <1>1, <1>2 DEF ReviewInv, SetsKnow
  <2>2. es \in Seq(Entry)
    BY <1>1 DEF SetsInv, SetsTypeOK, SetRow
  <2>3. es[i] \in Entry
    BY <2>2
  <2>4. ContentOf(es[i]) = es[i].content
    BY <2>1, <2>3 DEF SetFaithful, Bare, Grounded, ContentOf, Entry
  <2>5. b.entries[i] = es[i]
    BY <1>1, <1>2
  <2> HIDE DEF b, es
  <2> QED BY <2>4, <2>5 DEF NewRow, NextVersion
<1> HIDE DEF b, es
<1>8. {<<v.path, v.version, v.content>> : v \in {NewRow(b, i) : i \in DOMAIN es}}
        = {<<e.path, e.expected + 1, e.content>> : e \in {es[i] : i \in DOMAIN es}}
  BY <1>7
<1> QED BY <1>6, <1>8 DEF es

LEMMA StepKeepsReviewed ==
  ASSUME SetsInv, SetsInv', ReviewInv, Forward, [Next]_vars
  PROVE  AppliedAsReviewed'
<1> DEFINE Shown(es) == {<<e.path, e.expected + 1, e.content>> :
                           e \in {es[i] : i \in DOMAIN es}}
           Rows(c) == {<<v.path, v.version, v.content>> :
                         v \in {w \in versions : w.commit = c}}
           RowsThen(c) == {<<v.path, v.version, v.content>> :
                             v \in {w \in versions' : w.commit = c}}
<1>1. ASSUME NEW s \in Requests, IsApplied(s)'
      PROVE  RowsThen(sets'[s].commit) = Shown(sets'[s].entries)
  <2>1. CASE IsApplied(s)
    <3>1. sets'[s] = sets[s]
      BY <2>1 DEF Forward, SetStays, IsApplied
    <3>2. Committed(sets[s].commit)
      BY <2>1 DEF SetsInv, DecisionsInv
    <3>3. {w \in versions' : w.commit = sets[s].commit}
            = {w \in versions : w.commit = sets[s].commit}
      <4>1. PICK c : c = sets[s].commit
        OBVIOUS
      <4>2. RowsOf(c)' = RowsOf(c)
        BY <3>2, <4>1 DEF Forward, Grows
      <4> QED BY <4>1, <4>2 DEF RowsOf
    <3>4. Rows(sets[s].commit) = Shown(sets[s].entries)
      BY <2>1 DEF ReviewInv, AppliedAsReviewed, RowsOf
    <3> QED BY <3>1, <3>3, <3>4
  <2>2. CASE ~IsApplied(s)
    <3>1. PICK r \in Requests : pc[r] = "claim" /\ ApplySet(r) /\ Target(r) = s
      <4>1. sets \in [Requests -> SetRow]
        BY DEF SetsInv, SetsTypeOK
      <4>2. ~UNCHANGED sets
        BY <1>1, <2>2 DEF IsApplied
      <4>3. ~Collect
        BY <1>1, <2>2, <4>1 DEF Collect, IsApplied, SetRow
      <4>4. ASSUME NEW r \in Requests, pc[r] = "insert", CreateSet(r)
            PROVE  FALSE
        BY <1>1, <2>2, <4>1, <4>4, NewSetFields DEF IsApplied
      <4>5. ASSUME NEW r \in Requests, pc[r] = "reject", RejectSet(r)
            PROVE  FALSE
        BY <1>1, <2>2, <4>1, <4>5 DEF RejectSet, IsApplied
      <4>6. PICK r \in Requests : pc[r] = "claim" /\ ApplySet(r)
        BY <4>2, <4>3, <4>4, <4>5, SetChanges
      <4>7. Target(r) = s
        BY <1>1, <2>2, <4>1, <4>6 DEF ApplySet, IsApplied
      <4> QED BY <4>6, <4>7
    <3>2. sets'[s].commit = r /\ sets'[s].entries = sets[s].entries
      BY <3>1 DEF ApplySet, SetsInv, SetsTypeOK, SetRow
    <3>3. RowsThen(r) = Shown(sets[s].entries)
      BY <3>1, RowsOfApproval
    <3> HIDE DEF RowsThen, Shown
    <3> QED BY <3>2, <3>3
  <2> QED BY <2>1, <2>2
<1> QED BY <1>1 DEF AppliedAsReviewed, RowsOf

-----------------------------------------------------------------------------
(* What the steps of a request let it know.                                *)

Stepping == SetsInv /\ SetsInv' /\ ReviewInv /\ Forward /\ [Next]_vars

(* A step of r leaves the other requests alone, and r knows what it says.  *)
Learns(r) ==
  /\ \A q \in Requests : q # r => Unmoved(q)
  /\ RequestKnows(r)'

LEMMA Known ==
  ASSUME Stepping, NEW r \in Requests, pc[r] # "idle"
  PROVE  /\ Sound(r) /\ Knows(r, pc[r]) /\ Told(r, answer[r])
         /\ pc[r] # "done" => answer[r] = Unanswered
         /\ Fits(r, pc[r], entries[r])
         /\ request[r].call \in {"create", "approve", "reject"}
         /\ request[r].call # "create" =>
              Target(r) \in Requests /\ sets[Target(r)].status # "absent"
<1>1. Sound(r) /\ Knows(r, pc[r]) /\ Told(r, answer[r])
        /\ (pc[r] # "done" => answer[r] = Unanswered)
  BY DEF Stepping, ReviewInv, RequestKnows
<1> QED BY <1>1, CallOf DEF Stepping, SetsInv, RequestsFit, Sound, Call

(* As long as nothing changes but the place.                               *)
LEMMA KnowsAlike ==
  ASSUME NEW r, NEW place, Knows(r, place),
         UNCHANGED <<tables, sets, request, now, entries, todo, conflicts,
                     thrown, lifecycle>>
  PROVE  Knows(r, place)'
<1>1. /\ Target(r)' = Target(r)
      /\ sets' = sets /\ request' = request /\ now' = now /\ todo' = todo
      /\ entries' = entries /\ conflicts' = conflicts /\ live' = live
      /\ versions' = versions /\ files' = files /\ lifecycle' = lifecycle
      /\ thrown' = thrown
  BY DEF tables, Target
<1>2. \A x : /\ FenceLost(x)' <=> FenceLost(x)
             /\ Anchored(x)' <=> Anchored(x)
             /\ GateAccepts(x)' <=> GateAccepts(x)
  BY <1>1 DEF FenceLost, ChangedSince, Anchored, GateAccepts, Restorable, RowsAt
<1>3. /\ FenceLost(request[r])' <=> FenceLost(request[r])
      /\ FenceLost(sets[Target(r)])' <=> FenceLost(sets[Target(r)])
      /\ Anchored(request[r])' <=> Anchored(request[r])
  BY <1>1, <1>2 DEF FenceLost, ChangedSince, Anchored
<1>4. Excused(r)' <=> Excused(r)
  BY <1>1 DEF Excused
<1>5. Stale(Target(r))' <=> Stale(Target(r))
  BY <1>1 DEF Stale, GateAccepts, Restorable, RowsAt
<1>6. Refusable(Target(r))' <=> Refusable(Target(r))
  BY <1>3, <1>5 DEF Refusable
<1>7. Keyed(request[r].key)' = Keyed(request[r].key)
  BY <1>1 DEF Keyed, Present
<1>8. \A i : GateAccepts(entries[r][i])' <=> GateAccepts(entries[r][i])
  BY <1>1 DEF GateAccepts, Restorable, RowsAt
<1>9. IsApplied(Target(r))' <=> IsApplied(Target(r))
  BY <1>1 DEF IsApplied
<1>10. Expired(Target(r), now[r])' <=> Expired(Target(r), now[r])
  BY <1>1 DEF Expired
<1> HIDE DEF Refusable, Excused
<1> QED BY <1>1, <1>3, <1>4, <1>6, <1>7, <1>8, <1>9, <1>10 DEF Knows

LEMMA GotoLearns ==
  ASSUME Stepping, NEW r \in Requests, pc[r] \notin {"idle", "done"},
         NEW place, place \notin {"idle", "done"}, Knows(r, place),
         Goto(r, place)
  PROVE  Learns(r)
<1>1. /\ pc' = [pc EXCEPT ![r] = place]
      /\ UNCHANGED <<tables, sets, clock, request, now, entries, todo,
                     conflicts, answer, thrown, lifecycle>>
  BY DEF Goto
<1>2. Knows(r, place)'
  BY <1>1, KnowsAlike
<1>3. pc \in [Requests -> Places]
  BY DEF Stepping, SetsInv, SetsTypeOK
<1>4. pc'[r] = place /\ \A q \in Requests : q # r => Unmoved(q)
  BY <1>1, <1>3 DEF Unmoved
<1>5. Sound(r)'
  BY <1>1, Known, SoundStays DEF Stepping, ReviewInv
<1>6. answer'[r] = Unanswered
  BY <1>1, Known
<1>7. Told(r, answer[r])'
  BY <1>6 DEF Told, Unanswered, Refusal
<1>8. Unanswered' = Unanswered
  BY DEF Unanswered, Refusal
<1>9. Knows(r, pc[r])'
  BY <1>2, <1>4 DEF Knows
<1> QED BY <1>4, <1>5, <1>6, <1>7, <1>8, <1>9 DEF Learns, RequestKnows

LEMMA ReplyLearns ==
  ASSUME Stepping, NEW r \in Requests, pc[r] # "idle", NEW a, Told(r, a),
         Reply(r, a)
  PROVE  Learns(r)
<1>1. /\ pc' = [pc EXCEPT ![r] = "done"] /\ answer' = [answer EXCEPT ![r] = a]
      /\ UNCHANGED <<tables, sets, clock, request, now, entries, todo,
                     conflicts, thrown, lifecycle>>
  BY DEF Reply
<1>2. pc \in [Requests -> Places] /\ answer \in [Requests -> Answer]
  BY DEF Stepping, SetsInv, SetsTypeOK
<1>3. /\ pc'[r] = "done" /\ answer'[r] = a
      /\ \A q \in Requests : q # r => Unmoved(q)
  BY <1>1, <1>2 DEF Unmoved
<1>4. Sound(r)'
  BY <1>1, Known, SoundStays DEF Stepping, ReviewInv
<1>5. Told(r, a)'
  BY <1>1, Known, ToldStays DEF Stepping, ReviewInv
<1>6. Told(r, answer[r])'
  BY <1>3, <1>5 DEF Told
<1>7. Knows(r, pc[r])'
  BY <1>3 DEF Knows
<1> QED BY <1>3, <1>4, <1>6, <1>7 DEF Learns, RequestKnows

(* An answer that promises nothing.                                        *)
LEMMA PlainAnswer ==
  ASSUME NEW r, NEW code,
         code \notin {"ok", "internal", "change-set-closed", "commit-conflict"}
  PROVE  Told(r, Refusal(code))
BY DEF Told, Refusal

LEMMA ArriveLearns ==
  ASSUME Stepping, NEW r \in Requests, Arrive(r)
  PROVE  Learns(r)
<1>1. PICK c \in Calls[r] :
        /\ c.call # "create" => sets[c.set].status # "absent"
        /\ request' = [request EXCEPT ![r] = c]
        /\ entries' = [entries EXCEPT ![r] = c.entries]
        /\ todo' = [todo EXCEPT ![r] = DOMAIN c.entries]
  BY DEF Arrive
<1>2. /\ pc[r] = "idle" /\ pc' = [pc EXCEPT ![r] = "live"]
      /\ now' = [now EXCEPT ![r] = clock]
      /\ UNCHANGED <<tables, sets, clock, conflicts, answer, thrown, lifecycle>>
  BY DEF Arrive
<1>3. c \in Call /\ WellFormed(c)
  BY ChangeSetsAssumption
<1>4. SetsTypeOK
  BY DEF Stepping, SetsInv
<1>5. /\ request'[r] = c /\ entries'[r] = c.entries
      /\ todo'[r] = DOMAIN c.entries /\ pc'[r] = "live"
      /\ \A q \in Requests : q # r => Unmoved(q)
  BY <1>1, <1>2, <1>4 DEF SetsTypeOK, Unmoved
<1>6. conflicts'[r] = {} /\ answer'[r] = Unanswered
  BY <1>2 DEF Stepping, ReviewInv, RequestKnows
<1>7. Bare(c.entries)
  <2>1. c.entries \in Seq(Entry)
    BY <1>3 DEF Call
  <2>2. ASSUME NEW i \in DOMAIN c.entries, c.entries[i].op = "delete"
        PROVE  c.entries[i].content = Tombstone
    <3>1. c.entries[i] \in Entry /\ WellFormedEntry(c.entries[i])
      BY <1>3, <2>1 DEF WellFormed
    <3> QED BY <2>2, <3>1 DEF Entry, WellFormedEntry
  <2> QED BY <2>2 DEF Bare
<1>8. Sound(r)'
  BY <1>1, <1>2, <1>5, <1>6, <1>7 DEF Sound, Target, Bare
<1>9. Knows(r, pc[r])'
  BY <1>5 DEF Knows
<1>10. Told(r, answer[r])'
  BY <1>6 DEF Told, Unanswered, Refusal
<1> QED BY <1>5, <1>6, <1>8, <1>9, <1>10
      DEF Learns, RequestKnows, Unanswered, Refusal

LEMMA FirstReadsLearn ==
  ASSUME Stepping, NEW r \in Requests, CheckLive(r) \/ CheckFence(r)
  PROVE  Learns(r)
<1>1. pc[r] \in {"live", "fence"}
  BY DEF CheckLive, CheckFence
<1>2. request[r].call \in {"create", "approve", "reject"}
        /\ Fits(r, pc[r], entries[r])
  BY <1>1, Known
<1>3. CASE CheckLive(r)
  <2>1. CASE Reply(r, Refusal("not-found"))
    BY <1>1, <2>1, PlainAnswer, ReplyLearns
  <2>2. FirstRead(request[r]) \in {"row", "reject", "fence", "replay"}
    BY <1>2 DEF FirstRead
  <2>3. Knows(r, FirstRead(request[r]))
    BY <2>2 DEF Knows
  <2> QED BY <1>1, <1>3, <2>1, <2>2, <2>3, GotoLearns DEF CheckLive
<1>4. CASE CheckFence(r)
  <2>1. pc[r] = "fence" /\ request[r].call = "create"
    BY <1>2, <1>4 DEF CheckFence, Fits, Creating
  <2>2. CASE Reply(r, Refusal("validation"))
    BY <1>1, <2>2, PlainAnswer, ReplyLearns
  <2>3. CASE Reply(r, Refusal("commit-conflict"))
    <3>1. Told(r, Refusal("commit-conflict"))
      BY <2>1 DEF Told, Refusal
    <3> QED BY <1>1, <2>3, <3>1, ReplyLearns
  <2>4. CASE GateFence(request[r]) /\ Goto(r, "stage")
    <3>1. Anchored(request[r])
      BY <2>4 DEF GateFence, IsNewestChange, Anchored
    <3>2. Knows(r, "stage")
      BY <3>1 DEF Knows
    <3> QED BY <1>1, <2>4, <3>2, GotoLearns
  <2> QED BY <1>4, <2>2, <2>3, <2>4 DEF CheckFence
<1> QED BY <1>3, <1>4

(* A hidden change set of the key: its stash is deleted.                   *)
LEMMA CheckReplayLearns ==
  ASSUME Stepping, NEW r \in Requests, CheckReplay(r)
  PROVE  Learns(r)
<1>1. pc[r] \in {"replay", "rereplay"}
  BY DEF CheckReplay
<1>2. /\ Knows(r, pc[r]) /\ request[r].call = "create"
  BY <1>1, Known DEF Fits, Creating
<1>3. ASSUME NEW s \in Keyed(request[r].key), Reply(r, Replay(r, s))
      PROVE  Learns(r)
  <2>1. /\ s \in Requests /\ sets[s].status # "absent"
        /\ sets[s].key = request[r].key
    BY DEF Keyed, Present
  <2>2. Told(r, Replay(r, s))
    BY <1>2, <2>1 DEF Told, Replay, Success, Refusal
  <2> QED BY <1>1, <1>3, <2>2, ReplyLearns
<1>4. CASE pc[r] = "replay" /\ Goto(r, "fence")
  BY <1>4, GotoLearns DEF Knows
<1>5. CASE /\ pc[r] = "rereplay" /\ Goto(r, "refence")
           /\ \A s \in Keyed(request[r].key) : ~Visible(s)
  <2>1. Keyed(request[r].key) # {} => Excused(r)
    <3>1. ASSUME NEW s \in Keyed(request[r].key) PROVE ~live
      BY <1>5 DEF Keyed, Visible
    <3> QED BY <3>1 DEF Stepping, ReviewInv, SetsKnow, Excused
  <2>2. Knows(r, "refence")
    BY <1>2, <1>5, <2>1 DEF Knows
  <2> QED BY <1>5, <2>2, GotoLearns
<1> QED BY <1>1, <1>3, <1>4, <1>5 DEF CheckReplay

LEMMA StagedGrounded ==
  ASSUME TablesInv, NEW e \in Entry, Stageable(e)
  PROVE  /\ Grounded(Staged(e)) /\ Staged(e).op = e.op
         /\ e.op = "delete" => Staged(e) = e
<1>1. /\ Staged(e).path = e.path /\ Staged(e).op = e.op
      /\ Staged(e).fromPath = e.fromPath
      /\ Staged(e).fromVersion = e.fromVersion
      /\ Staged(e).expected = e.expected
      /\ e.op \in {"copy", "rollback"} =>
           Staged(e).content = ContentAt(e.fromPath, e.fromVersion)
      /\ e.op \notin {"copy", "rollback"} => Staged(e) = e
  BY DEF Staged, Entry
<1>2. e.expected \in Nat /\ files[e.path].version \in Nat
  BY DEF Entry, TablesInv, TablesTypeOK, FileRow
<1>3. e.expected <= files[e.path].version
  <2>1. CASE e.expected = 0
    BY <1>2, <2>1
  <2>2. CASE e.expected # 0
    <3>1. PICK v \in versions : v.path = e.path /\ v.version = e.expected
      BY <2>2 DEF Stageable, RowsAt
    <3> QED BY <3>1 DEF TablesInv, HistoryContiguous
  <2> QED BY <2>1, <2>2
<1>4. e.op \in {"copy", "rollback"} => Restorable(e.fromPath, e.fromVersion)
  BY DEF Stageable
<1> QED BY <1>1, <1>3, <1>4 DEF Grounded

LEMMA StageLearns ==
  ASSUME Stepping, NEW r \in Requests, Stage(r)
  PROVE  Learns(r)
<1>1. pc[r] = "stage"
  BY DEF Stage
<1>2. /\ Sound(r) /\ Knows(r, "stage") /\ answer[r] = Unanswered
      /\ request[r].call = "create"
  BY <1>1, Known DEF Fits, Creating
<1>3. PICK i \in todo[r] :
        \/ Reply(r, Refusal("validation"))
        \/ /\ entries' = [entries EXCEPT ![r][i] = Staged(entries[r][i])]
           /\ todo' = [todo EXCEPT ![r] = @ \ {i}]
           /\ pc' = [pc EXCEPT ![r] = IF todo[r] = {i} THEN "insert"
                                      ELSE "stage"]
           /\ Stageable(entries[r][i])
           /\ UNCHANGED <<tables, sets, clock, request, now, conflicts,
                          answer, thrown, lifecycle>>
  BY DEF Stage
<1>4. CASE Reply(r, Refusal("validation"))
  BY <1>1, <1>4, PlainAnswer, ReplyLearns
<1>5. CASE /\ entries' = [entries EXCEPT ![r][i] = Staged(entries[r][i])]
           /\ todo' = [todo EXCEPT ![r] = @ \ {i}]
           /\ pc' = [pc EXCEPT ![r] = IF todo[r] = {i} THEN "insert"
                                      ELSE "stage"]
           /\ Stageable(entries[r][i])
           /\ UNCHANGED <<tables, sets, clock, request, now, conflicts,
                          answer, thrown, lifecycle>>
  <2> DEFINE old == entries[r]
             es == [old EXCEPT ![i] = Staged(old[i])]
             place == IF todo[r] = {i} THEN "insert" ELSE "stage"
  <2>1. SetsTypeOK /\ TablesInv /\ i \in DOMAIN old
    BY DEF Stepping, SetsInv, EntriesInv
  <2>2. old \in Seq(Entry)
    BY <2>1 DEF SetsTypeOK
  <2>3. old[i] \in Entry
    BY <2>1, <2>2
  <2>4. /\ entries'[r] = es /\ todo'[r] = todo[r] \ {i} /\ pc'[r] = place
        /\ \A q \in Requests : q # r => Unmoved(q)
    BY <1>5, <2>1 DEF SetsTypeOK, Unmoved
  <2>5. /\ DOMAIN es = DOMAIN old /\ es[i] = Staged(old[i])
        /\ \A j \in DOMAIN old : j # i => es[j] = old[j]
    BY <2>1, <2>2
  <2>6. Bare(old) /\ \A j \in DOMAIN old \ todo[r] : Grounded(old[j])
    BY <1>2 DEF Sound
  <2>7. /\ Grounded(es[i]) /\ es[i].op = old[i].op
        /\ old[i].op = "delete" => es[i] = old[i]
    BY <1>5, <2>1, <2>3, <2>5, StagedGrounded
  <2> HIDE DEF es, place, old
  <2>8. Bare(es)
    BY <2>1, <2>5, <2>6, <2>7 DEF Bare
  <2>9. \A j \in DOMAIN es \ todo'[r] : Grounded(es[j])
    BY <2>4, <2>5, <2>6, <2>7
  <2>10. Bare(entries[r])'
    BY <2>4, <2>8 DEF Bare
  <2>11. \A j \in DOMAIN entries'[r] \ todo'[r] : Grounded(entries[r][j])'
    BY <1>5, <2>4, <2>9 DEF Grounded, Restorable, ContentAt, RowsAt, tables
  <2>12. Sound(r)'
    BY <1>2, <1>5, <2>10, <2>11 DEF Sound
  <2>13. Anchored(request[r])'
    BY <1>2, <1>5 DEF Knows, Anchored, tables
  <2>14. Knows(r, pc[r])'
    BY <2>4, <2>13 DEF Knows, place
  <2>15. answer'[r] = Unanswered /\ request'[r] = request[r]
    BY <1>2, <1>5
  <2>16. Told(r, answer[r])'
    BY <2>15 DEF Told, Unanswered, Refusal
  <2>17. pc'[r] \notin {"idle", "done"}
    BY <2>4 DEF place
  <2> QED BY <2>4, <2>12, <2>14, <2>15, <2>16, <2>17
          DEF Learns, RequestKnows, Unanswered, Refusal
<1> QED BY <1>3, <1>4, <1>5

LEMMA BatchLearns ==
  ASSUME Stepping, NEW r \in Requests, pc[r] # "idle", NEW place, NEW a,
         pc' = [pc EXCEPT ![r] = place], answer' = [answer EXCEPT ![r] = a],
         UNCHANGED <<request, now, entries, todo, conflicts>>,
         place # "idle", place # "done" => a = Unanswered,
         Knows(r, place)', Told(r, a)'
  PROVE  Learns(r)
<1>1. pc \in [Requests -> Places] /\ answer \in [Requests -> Answer]
  BY DEF Stepping, SetsInv, SetsTypeOK
<1>2. /\ pc'[r] = place /\ answer'[r] = a
      /\ \A q \in Requests : q # r => Unmoved(q)
  BY <1>1 DEF Unmoved
<1>3. Sound(r)'
  BY Known, SoundStays DEF Stepping, ReviewInv
<1>4. Knows(r, pc[r])' /\ Told(r, answer[r])'
  BY <1>2 DEF Knows, Told
<1>5. Unanswered' = Unanswered
  BY DEF Unanswered, Refusal
<1> QED BY <1>2, <1>3, <1>4, <1>5 DEF Learns, RequestKnows

(* A batch whose request goes on.                                          *)
LEMMA BatchGoesOn ==
  ASSUME Stepping, NEW r \in Requests, pc[r] \notin {"idle", "done"}, NEW place,
         pc' = [pc EXCEPT ![r] = place],
         UNCHANGED <<request, now, entries, todo, conflicts, answer>>,
         place \notin {"idle", "done"}, Knows(r, place)'
  PROVE  Learns(r)
<1>1. answer[r] = Unanswered
  BY Known
<1>2. answer \in [Requests -> Answer]
  BY DEF Stepping, SetsInv, SetsTypeOK
<1>3. PICK a : a = answer[r]
  OBVIOUS
<1>4. answer' = [answer EXCEPT ![r] = a] /\ a.code = "none"
  BY <1>1, <1>2, <1>3 DEF Unanswered, Refusal
<1>5. Told(r, a)'
  BY <1>4 DEF Told
<1> QED BY <1>1, <1>3, <1>4, <1>5, BatchLearns

LEMMA InsertLearns ==
  ASSUME Stepping, NEW r \in Requests, Insert(r)
  PROVE  Learns(r)
<1>1. /\ pc[r] = "insert" /\ CreateSet(r)
      /\ pc' = [pc EXCEPT ![r] = "created"]
      /\ UNCHANGED <<request, now, entries, todo, conflicts, answer>>
  BY DEF Insert
<1>2. sets'[r].status = "open"
  BY <1>1, NewSetFields DEF Stepping
<1>3. Knows(r, "created")'
  BY <1>2 DEF Knows
<1> QED BY <1>1, <1>3, BatchGoesOn

LEMMA LostInsertsLearn ==
  ASSUME Stepping, NEW r \in Requests,
         LoseInsert(r) \/ ReadBack(r) \/ ExplainInsert(r)
  PROVE  Learns(r)
<1>1. pc[r] \in {"insert", "created", "refence"}
  BY DEF LoseInsert, ReadBack, ExplainInsert
<1>2. /\ Sound(r) /\ Knows(r, pc[r]) /\ request[r].call = "create"
      /\ pc[r] \notin {"idle", "done"}
  BY <1>1, Known DEF Fits, Creating
<1>3. /\ SetsKnow /\ SetsInv /\ TablesInv
  BY DEF Stepping, ReviewInv, SetsInv
<1>4. ASSUME \/ Excused(r) \/ FenceLost(request[r])
             \/ Keyed(request[r].key) # {},
             Goto(r, AfterLostInsert(r))
      PROVE  Learns(r)
  <2>1. request[r].key = NoKey => Keyed(request[r].key) = {}
    BY DEF Keyed
  <2>2. Knows(r, AfterLostInsert(r))
    BY <1>4, <2>1 DEF AfterLostInsert, Knows
  <2>3. AfterLostInsert(r) \notin {"idle", "done"}
    BY DEF AfterLostInsert
  <2> QED BY <1>2, <1>4, <2>2, <2>3, GotoLearns
<1>5. CASE LoseInsert(r)
  <2>1. pc[r] = "insert" /\ ~InsertWins(r) /\ Goto(r, AfterLostInsert(r))
    BY <1>5 DEF LoseInsert
  <2>2. Anchored(request[r])
    BY <1>2, <2>1 DEF Knows
  <2>3. ~live => Excused(r)
    BY <1>3 DEF SetsKnow, Excused
  <2>4. GateFence(request[r]) <=> ~FenceLost(request[r])
    BY <1>3, <2>2, FenceAtGate
  <2> QED BY <1>4, <2>1, <2>3, <2>4 DEF InsertWins
<1>6. CASE ReadBack(r)
  <2>1. pc[r] = "created" /\ sets[r].status # "absent"
    BY <1>2, <1>6 DEF ReadBack, Knows
  <2>2. CASE Visible(r) /\ Reply(r, Success(r, NoRequest))
    <3>1. SetFaithful(r)
      BY <1>3, <2>1 DEF SetsKnow
    <3>2. Told(r, Success(r, NoRequest))
      BY <1>2, <2>1, <3>1 DEF Told, Success, SetFaithful
    <3> QED BY <1>2, <2>2, <3>2, ReplyLearns
  <2>3. CASE ~Visible(r) /\ Goto(r, AfterLostInsert(r))
    <3>1. sets[r] \in SetRow
      BY <1>3 DEF SetsInv, SetsTypeOK
    <3>2. sets[r].status \in Statuses
      BY <3>1 DEF SetRow
    <3>3. ~live \/ sets[r].status = "collected"
      BY <2>1, <2>3, <3>2 DEF Visible, Present, Statuses
    <3>4. Excused(r)
      BY <1>3, <3>3 DEF SetsKnow, Excused
    <3> QED BY <1>4, <2>3, <3>4
  <2> QED BY <1>6, <2>2, <2>3 DEF ReadBack
<1>7. CASE ExplainInsert(r)
  <2>1. pc[r] = "refence"
    BY <1>7 DEF ExplainInsert
  <2>2. Excused(r) \/ FenceLost(request[r])
    BY <1>2, <2>1 DEF Knows
  <2>3. CASE Reply(r, Refusal("commit-conflict"))
    <3>1. Told(r, Refusal("commit-conflict"))
      BY <1>2 DEF Told, Refusal
    <3> QED BY <1>2, <2>3, <3>1, ReplyLearns
  <2>4. CASE /\ ~((request[r].whole \/ request[r].scope # {})
                   /\ ~IsNewestChange(request[r].since))
             /\ Reply(r, Refusal("internal"))
    <3>1. \A v \in versions : v.path \in Paths
      BY <1>3 DEF TablesInv, TablesTypeOK, VersionRow
    <3>2. ~FenceLost(request[r])
      BY <2>4, <3>1 DEF FenceLost, IsNewestChange, ChangedSince
    <3>3. Told(r, Refusal("internal"))
      BY <2>2, <3>2 DEF Told, Refusal
    <3> QED BY <1>2, <2>4, <3>3, ReplyLearns
  <2> QED BY <1>7, <2>3, <2>4 DEF ExplainInsert
<1> QED BY <1>5, <1>6, <1>7

LEMMA ReadRowLearns ==
  ASSUME Stepping, NEW r \in Requests, ReadRow(r)
  PROVE  Learns(r)
<1> DEFINE s == Target(r)
<1>1. pc[r] \in {"row", "rerow"}
  BY DEF ReadRow
<1>2. /\ Knows(r, pc[r]) /\ request[r].call = "approve"
      /\ s \in Requests /\ sets[s].status # "absent"
      /\ pc[r] \notin {"idle", "done"} /\ Sound(r) /\ answer[r] = Unanswered
  BY <1>1, Known DEF Fits, Approving
<1>3. CASE Reply(r, Refusal("not-found")) \/ Reply(r, Refusal("change-set-expired"))
  BY <1>2, <1>3, PlainAnswer, ReplyLearns
<1>4. CASE IsApplied(s) /\ Reply(r, Applied(s))
  <2>1. Applied(s) = Success(s, sets[s].commit)
    BY <1>2, <1>4 DEF Applied, Stepping, SetsInv, DecisionsInv
  <2>2. Told(r, Applied(s))
    BY <1>2, <1>4, <2>1 DEF Told, Success
  <2> QED BY <1>2, <1>4, <2>2, ReplyLearns
<1>5. CASE /\ Visible(s) /\ sets[s].status \notin {"applied", "open"}
           /\ Reply(r, Refusal("change-set-closed"))
  <2>1. sets[s].status = "rejected"
    BY <1>5 DEF Visible, Present
  <2>2. Told(r, Refusal("change-set-closed"))
    BY <1>2, <2>1 DEF Told, Refusal
  <2> QED BY <1>2, <1>5, <2>2, ReplyLearns
<1>6. CASE /\ sets[s].status = "open" /\ ~(pc[r] = "row" /\ Expired(s, now[r]))
           /\ entries' = [entries EXCEPT ![r] = sets[s].entries]
           /\ todo' = [todo EXCEPT ![r] = DOMAIN sets[s].entries]
           /\ pc' = [pc EXCEPT ![r] = IF pc[r] = "row" THEN "entries"
                                      ELSE "reentries"]
           /\ UNCHANGED <<tables, sets, clock, request, now, conflicts, answer,
                          thrown, lifecycle>>
  <2>1. SetsTypeOK
    BY DEF Stepping, SetsInv
  <2>2. /\ entries'[r] = sets[s].entries /\ todo'[r] = DOMAIN sets[s].entries
        /\ pc'[r] = IF pc[r] = "row" THEN "entries" ELSE "reentries"
        /\ \A q \in Requests : q # r => Unmoved(q)
    BY <1>6, <2>1 DEF SetsTypeOK, Unmoved
  <2>3. Target(r)' = s /\ request'[r] = request[r] /\ conflicts'[r] = conflicts[r]
    BY <1>6 DEF Target
  <2>4. Stale(Target(r))' <=> Stale(s)
    BY <1>6, <2>3 DEF Stale, GateAccepts, Restorable, RowsAt, tables
  <2>5. Sound(r)'
    BY <1>2, <1>6, <2>3, <2>4 DEF Sound
  <2>6. CASE pc[r] = "row"
    <3>1. ~Expired(Target(r), now[r])'
      BY <1>6, <2>3, <2>6 DEF Expired
    <3> QED BY <1>2, <1>6, <2>2, <2>5, <2>6, <3>1
          DEF Learns, RequestKnows, Knows, Told, Unanswered, Refusal
  <2>7. CASE pc[r] = "rerow"
    <3>1. Excused(r) \/ FenceLost(sets[s]) \/ Stale(s)
      BY <1>2, <1>6, <2>7 DEF Knows, Refusable
    <3>2. Excused(r) => Excused(r)'
      BY <1>6 DEF Excused
    <3>3. FenceLost(sets[s]) => FenceLost(sets[Target(r)])'
      BY <1>6, <2>3 DEF FenceLost, ChangedSince, tables
    <3>4. Stale(s) => \E i \in todo'[r] : ~GateAccepts(entries[r][i])'
      <4>1. ASSUME NEW i \in DOMAIN sets[s].entries,
                   ~GateAccepts(sets[s].entries[i])
            PROVE  i \in todo'[r] /\ ~GateAccepts(entries[r][i])'
        <5>1. PICK e : e = sets[s].entries[i]
          OBVIOUS
        <5>2. i \in todo'[r] /\ entries'[r][i] = e /\ ~GateAccepts(e)
          BY <2>2, <4>1, <5>1
        <5>3. UNCHANGED <<files, versions>>
          BY <1>6 DEF tables
        <5> QED BY <5>2, <5>3 DEF GateAccepts, Restorable, RowsAt
      <4> QED BY <4>1 DEF Stale
    <3>5. Knows(r, "reentries")'
      BY <3>1, <3>2, <3>3, <3>4 DEF Knows
    <3>6. pc'[r] = "reentries"
      BY <2>2, <2>7
    <3>7. Knows(r, pc[r])'
      BY <3>5, <3>6 DEF Knows
    <3> QED BY <1>2, <1>6, <2>2, <2>5, <3>6, <3>7
          DEF Learns, RequestKnows, Told, Unanswered, Refusal
  <2> QED BY <1>1, <2>6, <2>7
<1> QED BY <1>3, <1>4, <1>5, <1>6 DEF ReadRow, IsApplied

LEMMA CheckEntryLearns ==
  ASSUME Stepping, NEW r \in Requests, CheckEntry(r)
  PROVE  Learns(r)
<1> DEFINE s == Target(r)
<1>1. pc[r] \in {"entries", "reentries"}
  BY DEF CheckEntry
<1>2. /\ Knows(r, pc[r]) /\ request[r].call = "approve"
      /\ s \in Requests /\ sets[s].status # "absent"
      /\ pc[r] \notin {"idle", "done"} /\ Sound(r) /\ answer[r] = Unanswered
      /\ entries[r] = sets[s].entries
  BY <1>1, Known DEF Fits, Approving, Reviewing
<1>3. PICK i \in todo[r] :
        LET e == entries[r][i]
            found == conflicts[r] \cup IF GateAccepts(e) THEN {} ELSE {e.path}
        IN IF todo[r] # {i}
           THEN /\ todo' = [todo EXCEPT ![r] = @ \ {i}]
                /\ conflicts' = [conflicts EXCEPT ![r] = found]
                /\ UNCHANGED <<tables, sets, clock, pc, request, now,
                               entries, answer, thrown, lifecycle>>
           ELSE IF found # {} THEN Reply(r, ConflictAnswer(r, found))
           ELSE Goto(r, IF pc[r] = "entries" THEN "newest" ELSE "renewest")
  BY DEF CheckEntry
<1> DEFINE e == entries[r][i]
           found == conflicts[r] \cup IF GateAccepts(e) THEN {} ELSE {e.path}
<1>4. i \in DOMAIN entries[r]
  BY DEF Stepping, SetsInv, EntriesInv
<1>5. found # {} => Stale(s)
  <2>1. conflicts[r] # {} => Stale(s)
    BY <1>2 DEF Sound
  <2>2. ~GateAccepts(e) => Stale(s)
    BY <1>2, <1>4 DEF Stale
  <2> QED BY <2>1, <2>2
<1>6. CASE found # {} /\ Reply(r, ConflictAnswer(r, found))
  <2>1. ConflictAnswer(r, found) \in {Refusal("not-found"),
                                      Refusal("commit-conflict")}
    BY DEF ConflictAnswer
  <2>2. Told(r, Refusal("commit-conflict"))
    BY <1>2, <1>5, <1>6 DEF Told, Refusal, Refusable
  <2> QED BY <1>2, <1>6, <2>1, <2>2, PlainAnswer, ReplyLearns
<1>7. CASE /\ todo[r] = {i} /\ found = {}
           /\ Goto(r, IF pc[r] = "entries" THEN "newest" ELSE "renewest")
  <2>1. conflicts[r] = {} /\ GateAccepts(entries[r][i])
    BY <1>7
  <2>2. Knows(r, IF pc[r] = "entries" THEN "newest" ELSE "renewest")
    BY <1>1, <1>2, <1>7, <2>1 DEF Knows
  <2> QED BY <1>2, <1>7, <2>2, GotoLearns
<1>8. CASE /\ todo' = [todo EXCEPT ![r] = @ \ {i}]
           /\ conflicts' = [conflicts EXCEPT ![r] = found]
           /\ UNCHANGED <<tables, sets, clock, pc, request, now, entries,
                          answer, thrown, lifecycle>>
  <2>1. SetsTypeOK
    BY DEF Stepping, SetsInv
  <2>2. /\ todo'[r] = todo[r] \ {i} /\ conflicts'[r] = found
        /\ \A q \in Requests : q # r => Unmoved(q)
    BY <1>8, <2>1 DEF SetsTypeOK, Unmoved
  <2>3. Target(r)' = s
    BY <1>8 DEF Target
  <2>4. Stale(Target(r))' <=> Stale(s)
    BY <1>8, <2>3 DEF Stale, GateAccepts, Restorable, RowsAt, tables
  <2> HIDE DEF found
  <2>5. Sound(r)'
    BY <1>2, <1>5, <1>8, <2>2, <2>3, <2>4 DEF Sound
  <2>6. CASE pc[r] = "entries"
    <3>1. ~Expired(Target(r), now[r])'
      BY <1>2, <1>8, <2>3, <2>6 DEF Expired, Knows
    <3> QED BY <1>2, <1>8, <2>2, <2>5, <2>6, <3>1
          DEF Learns, RequestKnows, Knows, Told, Unanswered, Refusal
  <2>7. CASE pc[r] = "reentries"
    <3>1. \/ Excused(r) \/ FenceLost(sets[s]) \/ conflicts[r] # {}
          \/ \E j \in todo[r] : ~GateAccepts(entries[r][j])
      BY <1>2, <2>7 DEF Knows
    <3>2. Excused(r) => Excused(r)'
      BY <1>8 DEF Excused
    <3>3. FenceLost(sets[s]) => FenceLost(sets[Target(r)])'
      BY <1>8, <2>3 DEF FenceLost, ChangedSince, tables
    <3>4. conflicts[r] # {} => conflicts'[r] # {}
      BY <2>2 DEF found
    <3>5. ASSUME NEW j \in todo[r], ~GateAccepts(entries[r][j])
          PROVE  \/ conflicts'[r] # {}
                 \/ \E k \in todo'[r] : ~GateAccepts(entries[r][k])'
      <4>1. CASE j = i
        BY <2>2, <3>5, <4>1 DEF found
      <4>2. CASE j # i
        BY <1>8, <2>2, <3>5, <4>2 DEF GateAccepts, Restorable, RowsAt, tables
      <4> QED BY <4>1, <4>2
    <3>6. Knows(r, "reentries")'
      BY <3>1, <3>2, <3>3, <3>4, <3>5 DEF Knows
    <3>7. pc'[r] = "reentries"
      BY <1>8, <2>7
    <3>8. Knows(r, pc[r])'
      BY <3>6, <3>7 DEF Knows
    <3> QED BY <1>2, <1>8, <2>2, <2>5, <3>7, <3>8
          DEF Learns, RequestKnows, Told, Unanswered, Refusal
  <2> QED BY <1>1, <2>6, <2>7
<1> QED BY <1>3, <1>6, <1>7, <1>8

(* What the claim of an approval can lose to.                              *)
LEMMA LostClaim ==
  ASSUME Stepping, NEW r \in Requests, pc[r] = "claim",
         ~(Claimable(r) /\ Wins(ClaimBatch(r)))
  PROVE  Excused(r) \/ sets[Target(r)].status # "open" \/ Refusable(Target(r))
<1> DEFINE s == Target(r)
           b == ClaimBatch(r)
<1>1. /\ b \in Batch /\ b.entries = entries[r] /\ b.since = sets[s].since
      /\ b.whole = sets[s].whole /\ b.scope = sets[s].scope
      /\ OncePerPath(b) /\ EntriesMakeSense(b) /\ s \in Requests
  BY ClaimBatchFits DEF Stepping
<1>2. /\ entries[r] = sets[s].entries /\ sets[s].status # "absent"
      /\ Knows(r, "claim")
  BY Known DEF Fits, Reviewing
<1>3. TablesInv /\ SetsKnow
  BY DEF Stepping, SetsInv, ReviewInv
<1>4. CASE ~Claimable(r)
  BY <1>2, <1>4 DEF Claimable, Knows
<1>5. CASE ~Wins(b)
  <2>1. KeysFree(b)
    BY DEF KeysFree, ClaimBatch
  <2> HIDE DEF b
  <2>2. ~Gate(b)
    BY <1>1, <1>3, <1>5, <2>1, GateSuffices DEF Wins
  <2>3. CASE ~live
    BY <1>3, <2>3 DEF SetsKnow, Excused
  <2>4. CASE ~GateFence(b)
    <3>1. Anchored(sets[s])
      BY <1>1, <1>2, <1>3 DEF SetsKnow, SetFaithful
    <3>2. GateFence(sets[s]) <=> ~FenceLost(sets[s])
      BY <1>3, <3>1, FenceAtGate
    <3>3. GateFence(sets[s]) <=> GateFence(b)
      BY <1>1 DEF GateFence
    <3> QED BY <2>4, <3>2, <3>3 DEF Refusable
  <2>5. CASE \E i \in DOMAIN b.entries : ~GateAccepts(b.entries[i])
    BY <1>1, <1>2, <2>5 DEF Refusable, Stale
  <2> QED BY <2>2, <2>3, <2>4, <2>5 DEF Gate
<1> QED BY <1>4, <1>5

LEMMA ApprovalsLearn ==
  ASSUME Stepping, NEW r \in Requests,
         CheckNewest(r) \/ Claim(r) \/ LoseClaim(r) \/ Respond(r)
  PROVE  Learns(r)
<1> DEFINE s == Target(r)
<1>1. pc[r] \in {"newest", "renewest", "claim", "won"}
  BY DEF CheckNewest, Claim, LoseClaim, Respond
<1>2. /\ Knows(r, pc[r]) /\ request[r].call = "approve"
      /\ s \in Requests /\ sets[s].status # "absent"
      /\ pc[r] \notin {"idle", "done"}
  BY <1>1, Known DEF Fits, Approving
<1>3. TablesInv /\ SetsKnow
  BY DEF Stepping, SetsInv, ReviewInv
<1>4. CASE CheckNewest(r)
  <2>1. pc[r] \in {"newest", "renewest"}
    BY <1>4 DEF CheckNewest
  <2>2. Anchored(sets[s])
    BY <1>2, <1>3 DEF SetsKnow, SetFaithful
  <2>3. GateFence(sets[s]) <=> ~FenceLost(sets[s])
    BY <1>3, <2>2, FenceAtGate
  <2>4. CASE ~GateFence(sets[s]) /\ Reply(r, Refusal("commit-conflict"))
    <3>1. Told(r, Refusal("commit-conflict"))
      BY <2>3, <2>4 DEF Told, Refusal, Refusable
    <3> QED BY <1>2, <2>4, <3>1, ReplyLearns
  <2>5. CASE pc[r] = "newest" /\ Goto(r, "claim")
    <3>1. Knows(r, "claim")
      BY <1>2, <2>5 DEF Knows
    <3> QED BY <1>2, <2>5, <3>1, GotoLearns
  <2>6. CASE pc[r] = "renewest" /\ GateFence(sets[s])
               /\ Reply(r, Refusal("internal"))
    <3>1. Told(r, Refusal("internal"))
      BY <1>2, <2>3, <2>6 DEF Told, Refusal, Knows
    <3> QED BY <1>2, <2>6, <3>1, ReplyLearns
  <2> QED BY <1>4, <2>1, <2>4, <2>5, <2>6 DEF CheckNewest
<1>5. CASE Claim(r)
  <2>1. /\ pc[r] = "claim" /\ ApplySet(r) /\ pc' = [pc EXCEPT ![r] = "won"]
        /\ UNCHANGED <<request, now, entries, todo, conflicts, answer>>
    BY <1>5 DEF Claim
  <2>2. IsApplied(Target(r))'
    BY <1>2, <2>1
       DEF ApplySet, IsApplied, Target, Stepping, SetsInv, SetsTypeOK, SetRow
  <2>3. Knows(r, "won")'
    BY <2>2 DEF Knows
  <2> QED BY <1>2, <2>1, <2>3, BatchGoesOn
<1>6. CASE LoseClaim(r)
  <2>1. /\ pc[r] = "claim" /\ ~(Claimable(r) /\ Wins(ClaimBatch(r)))
        /\ Goto(r, "rerow")
    BY <1>6 DEF LoseClaim
  <2>2. Knows(r, "rerow")
    BY <2>1, LostClaim DEF Knows
  <2> QED BY <1>2, <2>1, <2>2, GotoLearns
<1>7. CASE Respond(r)
  <2>1. IsApplied(s)
    BY <1>2, <1>7 DEF Respond, Knows
  <2>2. CASE Reply(r, Applied(s))
    <3>1. Applied(s) = Success(s, sets[s].commit)
      BY <1>2, <2>1 DEF Applied, Stepping, SetsInv, DecisionsInv
    <3>2. Told(r, Applied(s))
      BY <1>2, <2>1, <3>1 DEF Told, Success
    <3> QED BY <1>2, <2>2, <3>2, ReplyLearns
  <2>3. CASE ~Visible(s) /\ Reply(r, Refusal("internal"))
    <3>1. ~live
      BY <1>2, <2>1, <2>3 DEF Visible, Present, IsApplied
    <3>2. Excused(r)
      BY <1>3, <3>1 DEF SetsKnow, Excused
    <3>3. Told(r, Refusal("internal"))
      BY <3>2 DEF Told, Refusal
    <3> QED BY <1>2, <2>3, <3>3, ReplyLearns
  <2> QED BY <1>7, <2>1, <2>2, <2>3 DEF Respond, IsApplied
<1> QED BY <1>4, <1>5, <1>6, <1>7

LEMMA RejectionsLearn ==
  ASSUME Stepping, NEW r \in Requests,
         Reject(r) \/ LoseReject(r) \/ AnswerReject(r)
  PROVE  Learns(r)
<1> DEFINE s == Target(r)
<1>1. pc[r] \in {"reject", "rejected", "unrejected"}
  BY DEF Reject, LoseReject, AnswerReject
<1>2. /\ Knows(r, pc[r]) /\ request[r].call = "reject"
      /\ s \in Requests /\ sets[s].status # "absent"
      /\ pc[r] \notin {"idle", "done"}
  BY <1>1, Known DEF Fits, Rejecting
<1>3. CASE Reject(r)
  <2>1. /\ RejectSet(r) /\ pc' = [pc EXCEPT ![r] = "rejected"]
        /\ UNCHANGED <<request, now, entries, todo, conflicts, answer>>
    BY <1>3 DEF Reject
  <2>2. sets'[Target(r)].status = "rejected" /\ Target(r)' = Target(r)
    BY <1>2, <2>1
       DEF RejectSet, Target, Stepping, SetsInv, SetsTypeOK, SetRow
  <2>3. Knows(r, "rejected")'
    BY <2>2 DEF Knows
  <2> QED BY <1>2, <2>1, <2>3, BatchGoesOn
<1>4. CASE LoseReject(r)
  <2>1. ~Rejectable(s) /\ Goto(r, "unrejected")
    BY <1>4 DEF LoseReject
  <2>2. sets[s].status # "open" \/ ~live
    BY <1>2, <2>1 DEF Rejectable, Visible, Present
  <2>3. Knows(r, "unrejected")
    BY <2>2 DEF Knows
  <2> QED BY <1>2, <2>1, <2>3, GotoLearns
<1>5. CASE AnswerReject(r)
  <2>1. CASE Reply(r, Refusal("not-found"))
    BY <1>2, <2>1, PlainAnswer, ReplyLearns
  <2>2. CASE pc[r] = "rejected" /\ Reply(r, Success(s, NoRequest))
    <3>1. Told(r, Success(s, NoRequest))
      BY <1>2, <2>2 DEF Told, Success, Knows
    <3> QED BY <1>2, <2>2, <3>1, ReplyLearns
  <2>3. CASE /\ pc[r] = "unrejected" /\ Visible(s)
             /\ Reply(r, Refusal("change-set-closed"))
    <3>1. sets[s].status \in {"applied", "rejected"} \/ lifecycle > 1
      BY <1>2, <2>3 DEF Knows, Visible, Present
    <3>2. Told(r, Refusal("change-set-closed"))
      BY <1>2, <3>1 DEF Told, Refusal, IsApplied
    <3> QED BY <1>2, <2>3, <3>2, ReplyLearns
  <2> QED BY <1>1, <1>5, <2>1, <2>2, <2>3 DEF AnswerReject
<1> QED BY <1>3, <1>4, <1>5

(* After the call of its batch has failed, a request is excused.           *)
LEMMA ThrowLearns ==
  ASSUME Stepping, NEW r \in Requests, Throw(r)
  PROVE  Learns(r)
<1>1. /\ pc[r] \in {"insert", "claim", "reject"} /\ thrown' = thrown \cup {r}
      /\ pc' = [pc EXCEPT ![r] = CASE pc[r] = "insert" -> AfterLostInsert(r)
                                   [] pc[r] = "claim" -> "rerow"
                                   [] pc[r] = "reject" -> "done"]
      /\ answer' = [answer EXCEPT ![r] = IF pc[r] = "reject"
                                         THEN Refusal("internal") ELSE @]
      /\ UNCHANGED <<request, now, entries, todo, conflicts>>
  BY DEF Throw
<1>2. Excused(r)'
  BY <1>1 DEF Excused
<1>3. AfterLostInsert(r) \in {"rereplay", "refence"}
  BY DEF AfterLostInsert
<1>4. answer \in [Requests -> Answer]
  BY DEF Stepping, SetsInv, SetsTypeOK
<1>5. ASSUME pc[r] # "reject",
             NEW place \in {"rereplay", "refence", "rerow"},
             pc' = [pc EXCEPT ![r] = place]
      PROVE  Learns(r)
  <2>1. Knows(r, place)'
    BY <1>2 DEF Knows
  <2>2. UNCHANGED answer
    BY <1>1, <1>4, <1>5
  <2> QED BY <1>1, <1>5, <2>1, <2>2, BatchGoesOn
<1>6. CASE pc[r] = "reject"
  <2>1. Knows(r, "done")'
    BY DEF Knows
  <2>2. Told(r, Refusal("internal"))'
    BY <1>2 DEF Told, Refusal
  <2>3. PICK a : a = Refusal("internal")
    OBVIOUS
  <2>4. Told(r, a)'
    BY <2>2, <2>3 DEF Told, Refusal
  <2> QED BY <1>1, <1>6, <2>1, <2>3, <2>4, BatchLearns
<1> QED BY <1>1, <1>3, <1>5, <1>6

-----------------------------------------------------------------------------
(* ReviewInv is inductive, relative to SetsInv.                            *)

LEMMA InitialReviewInv == Init => ReviewInv
BY DEF Init, TablesInit, ReviewInv, AppliedAsReviewed, IsApplied, NoSet,
       SetsKnow, KeysUnique, Present, RequestKnows

LEMMA StepKeepsReviewInv ==
  ASSUME SetsInv, ReviewInv, [Next]_vars
  PROVE  ReviewInv'
<1>1. SetsInv'
  BY StepKeepsSetsInv
<1>2. Forward
  BY StepForward DEF ReviewInv
<1>3. Stepping
  BY <1>1, <1>2 DEF Stepping
<1>4. AppliedAsReviewed' /\ SetsKnow'
  BY <1>1, <1>2, StepKeepsReviewed, StepKeepsSetsKnow
<1>5. ASSUME NEW q \in Requests
      PROVE  RequestKnows(q)'
  <2>1. CASE Write \/ Lifecycle \/ Tick \/ Collect \/ UNCHANGED vars
    <3>1. UNCHANGED control
      BY <2>1 DEF Write, Lifecycle, Tick, Collect, vars, control
    <3>2. Unmoved(q)
      BY <3>1 DEF Unmoved, control
    <3> QED BY <1>1, <1>2, <3>2, UnmovedKnows
  <2>2. ASSUME NEW r \in Requests, Step(r)
        PROVE  RequestKnows(q)'
    <3>1. Learns(r)
      BY <1>3, <2>2, ArriveLearns, FirstReadsLearn, CheckReplayLearns,
         StageLearns, InsertLearns, LostInsertsLearn, ReadRowLearns,
         CheckEntryLearns, ApprovalsLearn, RejectionsLearn, ThrowLearns
         DEF Step
    <3>2. CASE q = r
      BY <3>1, <3>2 DEF Learns
    <3>3. CASE q # r
      BY <1>1, <1>2, <3>1, <3>3, UnmovedKnows DEF Learns
    <3> QED BY <3>2, <3>3
  <2> QED BY <2>1, <2>2 DEF Next
<1> QED BY <1>4, <1>5 DEF ReviewInv

LEMMA ReviewInvHolds == Spec => [](SetsInv /\ ReviewInv)
<1>1. Init => SetsInv /\ ReviewInv
  BY InitialSetsInv, InitialReviewInv
<1>2. SetsInv /\ ReviewInv /\ [Next]_vars => (SetsInv /\ ReviewInv)'
  BY StepKeepsSetsInv, StepKeepsReviewInv
<1> QED BY <1>1, <1>2, PTL DEF Spec

(* What is applied is what the reviewers saw, path by path, on the base    *)
(* versions that were proposed, whoever writes and copies meanwhile.       *)
THEOREM AppliedIsReviewed == Spec => []AppliedAsReviewed
<1>1. ReviewInv => AppliedAsReviewed
  BY DEF ReviewInv
<1> QED BY <1>1, ReviewInvHolds, PTL

(* What the client of a change set is told stays true: successes are       *)
(* found in the tables, and conflicts never turn into successes.           *)
THEOREM AnswersAreTrue == Spec => []AnswersStayTrue
<1>1. SetsInv /\ ReviewInv => AnswersStayTrue
  <2> SUFFICES ASSUME SetsInv, ReviewInv PROVE AnswersStayTrue
    OBVIOUS
  <2> SUFFICES ASSUME NEW r \in Requests
               PROVE  LET s == Target(r) IN
                 /\ request[r] # NoRequest /\ answer[r].code = "ok" =>
                      CASE request[r].call = "approve" ->
                             IsApplied(s) /\ answer[r] = Success(s, sets[s].commit)
                        [] request[r].call = "reject" ->
                             sets[s].status \in {"rejected", "collected"}
                        [] request[r].call = "create" ->
                             sets[answer[r].set].body = Body(request[r])
                 /\ answer[r].code = "change-set-closed" =>
                      \/ sets[s].status \in {"rejected", "collected"}
                      \/ request[r].call = "reject"
                           /\ (IsApplied(s) \/ lifecycle > 1)
                 /\ answer[r].code = "commit-conflict"
                      /\ request[r].call = "approve" => ConflictPersists(s)
    BY DEF AnswersStayTrue
  <2>1. RequestKnows(r) /\ SetsKnow
    BY DEF ReviewInv
  <2>2. CASE pc[r] = "idle"
    <3>1. answer[r].code = "none"
      BY <2>1, <2>2 DEF RequestKnows, Unanswered, Refusal
    <3> QED BY <3>1
  <2>3. CASE pc[r] # "idle"
    <3>1. Told(r, answer[r]) /\ Sound(r)
      BY <2>1, <2>3 DEF RequestKnows
    <3>2. /\ request[r].call \in {"create", "approve", "reject"}
          /\ request[r].call # "create" => Target(r) \in Requests
      BY <2>3, CallOf DEF Call
    <3>3. request[r].call = "approve" /\ Refusable(Target(r))
            => ConflictPersists(Target(r))
      <4>1. \A v \in versions : v.path \in Paths
        BY DEF SetsInv, SetsTypeOK, TablesTypeOK, VersionRow
      <4> QED BY <4>1
            DEF Refusable, ConflictPersists, Stale, FenceLost, GateFence,
                IsNewestChange
    <3> QED BY <3>1, <3>2, <3>3 DEF Told
  <2> QED BY <2>2, <2>3
<1> QED BY <1>1, ReviewInvHolds, PTL

(* However often and ambiguously a creation is repeated under its key, at  *)
(* most one of the change sets its clients were given is still there.      *)
THEOREM KeyNamesOne == Spec => []KeyNamesOneSet
<1>1. SetsInv /\ ReviewInv => KeyNamesOneSet
  <2> SUFFICES ASSUME SetsInv, ReviewInv, NEW q \in Requests, NEW r \in Requests,
                      answer[q].code = "ok", answer[r].code = "ok",
                      request[q].call = "create", request[r].call = "create",
                      request[q].key # NoKey, request[q].key = request[r].key,
                      answer[q].set # answer[r].set
               PROVE  \E s \in {answer[q].set, answer[r].set} :
                        sets[s].status = "collected"
    BY DEF KeyNamesOneSet
  <2>1. ASSUME NEW x \in {q, r}
        PROVE  /\ answer[x].set \in Requests
               /\ sets[answer[x].set].key = request[q].key
               /\ \/ Present(answer[x].set)
                  \/ sets[answer[x].set].status = "collected"
    <3>1. x \in Requests /\ RequestKnows(x)
      BY DEF ReviewInv
    <3>2. pc[x] # "idle"
      BY <3>1 DEF RequestKnows, Unanswered, Refusal
    <3>3. Told(x, answer[x])
      BY <3>1, <3>2 DEF RequestKnows
    <3>4. /\ answer[x].set \in Requests
          /\ sets[answer[x].set].status # "absent"
          /\ sets[answer[x].set].key = request[x].key
      BY <3>3 DEF Told
    <3>5. sets[answer[x].set] \in SetRow
      BY <3>4 DEF SetsInv, SetsTypeOK
    <3>6. sets[answer[x].set].status \in Statuses
      BY <3>5 DEF SetRow
    <3> QED BY <3>4, <3>6 DEF Present, Statuses
  <2> QED BY <2>1 DEF ReviewInv, SetsKnow, KeysUnique
<1> QED BY <1>1, ReviewInvHolds, PTL

(* Without a failed call, a deletion or a collected change set, every race *)
(* of creations, approvals and rejections is explained to its loser.       *)
THEOREM RacesAreExplained == Spec => []InternalOnlyAfterFault
<1>1. ReviewInv => InternalOnlyAfterFault
  BY DEF ReviewInv, RequestKnows, Told, Excused, InternalOnlyAfterFault,
         Unanswered, Refusal
<1> QED BY <1>1, ReviewInvHolds, PTL
=============================================================================
