-------------------------- MODULE Collection_proofs --------------------------
(***************************************************************************)
(* For any number of writers, collectors, contents and failures: what is   *)
(* needed is never collected if writers and queries keep within the        *)
(* minimum age, and the stored cursors form a chain.                       *)
(***************************************************************************)
EXTENDS Collection, TLAPS

LEMMA PhaseAfterType ==
  ASSUME NEW k \in Kinds, NEW p \in Phases(k)
  PROVE  PhaseAfter(p) \in CursorsOf(k)
<1>1. CASE k = "r2-orphans"
  BY <1>1 DEF Phases, PhaseAfter, CursorsOf, NoCursor
<1>2. CASE k = "content"
  BY <1>2 DEF Phases, PhaseAfter, CursorsOf, NoCursor
<1>3. CASE k = "change-sets"
  BY <1>3 DEF Phases, PhaseAfter, CursorsOf, NoCursor
<1> QED BY <1>1, <1>2, <1>3 DEF Kinds

LEMMA FirstPhaseType ==
  ASSUME NEW k \in Kinds
  PROVE  FirstPhase(k) \in Phases(k)
BY DEF Kinds, FirstPhase, Phases

LEMMA CursorsType ==
  ASSUME NEW k \in Kinds
  PROVE  /\ CursorsOf(k) \subseteq Cursors
         /\ NoCursor \in CursorsOf(k) /\ NoCursor \in Cursors
BY DEF Cursors, CursorsOf

LEMMA KindType ==
  ASSUME CollectionTypeOK, NEW c \in Collectors
  PROVE  Kind(c) \in Kinds
BY DEF CollectionTypeOK, Plan, Kind

LEMMA DecodedType ==
  ASSUME CollectionTypeOK, NEW c \in Collectors
  PROVE  Decoded(c) \in [phase : Phases(Kind(c)), after : {0} \cup Items]
<1>1. Kind(c) \in Kinds
  BY KindType
<1>2. from[c] \in CursorsOf(Kind(c))
  BY DEF CollectionTypeOK
<1>3. FirstPhase(Kind(c)) \in Phases(Kind(c))
  BY <1>1, FirstPhaseType
<1> QED BY <1>2, <1>3 DEF Decoded, CursorsOf

LEMMA PageType ==
  ASSUME CollectionTypeOK, NEW c \in Collectors
  PROVE  /\ Page(c) \subseteq Items
         /\ Kind(c) = "r2-orphans" => \A w \in Page(c) : w \in Writers /\ Stored(w)
<1>1. Kind(c) \in Kinds /\ Decoded(c).phase \in Phases(Kind(c))
  BY KindType, DecodedType
<1>2. Listed(Decoded(c).phase) \subseteq Items
  <2>1. CASE Decoded(c).phase = "objects"
    BY <2>1 DEF Listed, Items
  <2>2. CASE Decoded(c).phase = "blobs"
    BY <2>2, CollectionAssumption DEF Listed, Items
  <2>3. CASE Decoded(c).phase = "byte_blobs"
    BY <2>3 DEF Listed, Items
  <2>4. CASE Decoded(c).phase = "expired"
    BY <2>4 DEF Listed, Items
  <2>5. CASE Decoded(c).phase = "rejected"
    BY <2>5 DEF Listed, Items
  <2> QED BY <1>1, <2>1, <2>2, <2>3, <2>4, <2>5 DEF Kinds, Phases
<1>3. Kind(c) = "r2-orphans" => Listed(Decoded(c).phase) = {w \in Writers : Stored(w)}
  BY <1>1 DEF Phases, Listed
<1> QED BY <1>2, <1>3 DEF Page, Rest

LEMMA AfterPageType ==
  ASSUME CollectionTypeOK, NEW c \in Collectors
  PROVE  AfterPage(c) \subseteq CursorsOf(Kind(c))
<1>1. Kind(c) \in Kinds
  BY KindType
<1>2. Decoded(c).phase \in Phases(Kind(c))
  BY DecodedType
<1>3. Last(Page(c)) \subseteq Items
  BY PageType DEF Last
<1>4. PhaseAfter(Decoded(c).phase) \in CursorsOf(Kind(c))
  BY <1>1, <1>2, PhaseAfterType
<1>5. [phase : {Decoded(c).phase}, after : Last(Page(c))] \subseteq CursorsOf(Kind(c))
  BY <1>2, <1>3 DEF CursorsOf
<1> QED BY <1>4, <1>5 DEF AfterPage

-----------------------------------------------------------------------------
(* Types, part by part: what writers and pages do to them.                 *)

StoreTypeOK ==
  /\ row \in [Contents -> Writers \cup {Nobody}]
  /\ aged \subseteq Contents /\ versions \subseteq Contents
  /\ proposal \in [Writers -> Statuses]
  /\ session \in [Writers -> {"none", "open", "held", "ended"}]
  /\ object \in [Writers -> Ages \cup {NoObject}]
  /\ place \in [Writers -> {"idle", "stored", "done"}]

PagesTypeOK ==
  /\ owner \in [Kinds -> Collectors \cup {Nobody, Gone}]
  /\ lapsed \subseteq Kinds
  /\ at \in [Collectors -> {"idle", "start", "page", "references", "cutoff",
                            "heartbeat", "delete", "finish", "error", "over"}]
  /\ waited \in [Collectors -> 0..QueryTime]
  /\ cursor \in [Kinds -> Cursors] /\ \A k \in Kinds : cursor[k] \in CursorsOf(k)
  /\ found \in [Collectors -> SUBSET Items]
  /\ from \in [Collectors -> Cursors] /\ next \in [Collectors -> Cursors]
  /\ \A c \in Collectors :
       from[c] \in CursorsOf(Kind(c)) /\ next[c] \in CursorsOf(Kind(c))

FixedTypeOK ==
  /\ ask \in [Writers -> [mode : Modes, content : Contents]]
  /\ plan \in [Collectors -> Plan]
  /\ \A c \in Collectors : plan[c].cursor \in CursorsOf(Kind(c))

LEMMA TypeParts ==
  CollectionTypeOK <=> /\ StoreTypeOK /\ PagesTypeOK /\ troubles \in Nat
                       /\ ask \in [Writers -> [mode : Modes, content : Contents]]
                       /\ plan \in [Collectors -> Plan]
BY DEF CollectionTypeOK, StoreTypeOK, PagesTypeOK

LEMMA ContentType ==
  ASSUME FixedTypeOK, NEW w \in Writers
  PROVE  ask[w].content \in Contents /\ ask[w].mode \in Modes
BY DEF FixedTypeOK

LEMMA WriterTypes ==
  ASSUME StoreTypeOK, FixedTypeOK, NEW w \in Writers, WriterStep(w)
  PROVE  StoreTypeOK'
<1>1. ask[w].content \in Contents
  BY ContentType
<1>2. ASSUME KeepRow(w)
      PROVE  row' \in [Contents -> Writers \cup {Nobody}] /\ aged' \subseteq Contents
  BY <1>1, <1>2 DEF KeepRow, StoreTypeOK
<1>3. CASE Store(w)
  BY <1>3, CollectionAssumption DEF Store, StoreTypeOK, Ages
<1>4. CASE Write(w)
  BY <1>1, <1>2, <1>4 DEF Write, Finished, StoreTypeOK
<1>5. CASE Propose(w)
  BY <1>2, <1>5 DEF Propose, Finished, StoreTypeOK, Statuses
<1>6. CASE Record(w)
  BY <1>6 DEF Record, Finished, StoreTypeOK
<1>7. CASE GiveUp(w)
  BY <1>7 DEF GiveUp, Finished, StoreTypeOK
<1>8. CASE Approve(w)
  BY <1>1, <1>8 DEF Approve, StoreTypeOK, Statuses
<1>9. CASE Reject(w)
  BY <1>9 DEF Reject, StoreTypeOK, Statuses
<1>10. CASE OpenSession(w)
  BY <1>10 DEF OpenSession, StoreTypeOK
<1>11. CASE Assemble(w)
  BY <1>11, CollectionAssumption DEF Assemble, Finished, StoreTypeOK, Ages
<1>12. CASE Finalize(w)
  BY <1>1, <1>2, <1>12 DEF Finalize, StoreTypeOK
<1>13. CASE EndSession(w)
  BY <1>13 DEF EndSession, StoreTypeOK
<1> QED
  BY <1>3, <1>4, <1>5, <1>6, <1>7, <1>8, <1>9, <1>10, <1>11, <1>12, <1>13
     DEF WriterStep, Settle

LEMMA DeletionTypes ==
  ASSUME StoreTypeOK, CollectionTypeOK, NEW c \in Collectors, NEW some,
         Deletion(c, some), UNCHANGED <<versions, session, place>>
  PROVE  StoreTypeOK'
<1>1. Kind(c) \in Kinds
  BY KindType
<1>2. CASE Kind(c) = "r2-orphans"
  BY <1>2 DEF Deletion, StoreTypeOK
<1>3. CASE Kind(c) = "content"
  BY <1>3 DEF Deletion, StoreTypeOK
<1>4. CASE Kind(c) = "change-sets"
  BY <1>4 DEF Deletion, StoreTypeOK, Statuses
<1> QED BY <1>1, <1>2, <1>3, <1>4 DEF Kinds

LEMMA EndedTypes ==
  ASSUME CollectionTypeOK, NEW c \in Collectors, Ended(c),
         owner' \in [Kinds -> Collectors \cup {Nobody, Gone}],
         lapsed' \subseteq Kinds, cursor' \in [Kinds -> Cursors],
         \A k \in Kinds : cursor'[k] \in CursorsOf(k), UNCHANGED plan
  PROVE  PagesTypeOK'
<1>1. Kind(c) \in Kinds /\ \A d \in Collectors : Kind(d)' = Kind(d)
  BY KindType DEF Kind
<1>2. NoCursor \in CursorsOf(Kind(c)) /\ NoCursor \in Cursors
  BY <1>1, CursorsType
<1> QED
  BY <1>1, <1>2, CollectionAssumption DEF Ended, Goto, CollectionTypeOK, PagesTypeOK

LEMMA LeavesTypes ==
  ASSUME CollectionTypeOK, NEW c \in Collectors, Leaves(c), UNCHANGED plan
  PROVE  PagesTypeOK'
<1>1. owner' \in [Kinds -> Collectors \cup {Nobody, Gone}]
  BY DEF Leaves, CollectionTypeOK
<1>2. lapsed' \subseteq Kinds /\ cursor' \in [Kinds -> Cursors]
        /\ \A k \in Kinds : cursor'[k] \in CursorsOf(k)
  BY DEF Leaves, CollectionTypeOK
<1> QED BY <1>1, <1>2, EndedTypes DEF Leaves

LEMMA PageTypes ==
  ASSUME CollectionTypeOK, FixedTypeOK, NEW c \in Collectors, PageStep(c),
         UNCHANGED plan
  PROVE  PagesTypeOK'
<1>1. Kind(c) \in Kinds /\ \A d \in Collectors : Kind(d)' = Kind(d)
  BY KindType DEF Kind
<1>2. CASE Acquire(c)
  <2>1. cursor[Kind(c)] \in CursorsOf(Kind(c)) /\ plan[c].cursor \in CursorsOf(Kind(c))
    BY <1>1 DEF CollectionTypeOK, FixedTypeOK
  <2>2. from'[c] \in CursorsOf(Kind(c)) /\ from'[c] \in Cursors
    BY <1>1, <1>2, <2>1, CursorsType DEF Acquire, CollectionTypeOK
  <2> QED
    BY <1>1, <1>2, <2>2 DEF Acquire, Goto, CollectionTypeOK, PagesTypeOK
<1>3. CASE StartRun(c)
  <2>1. CASE Holds(c)
    BY <1>1, <1>3, <2>1 DEF StartRun, Goto, jobs, CollectionTypeOK, PagesTypeOK
  <2>2. CASE ~Holds(c)
    BY <1>3, <2>2, LeavesTypes DEF StartRun
  <2> QED BY <2>1, <2>2
<1>4. CASE ReadPage(c)
  <2>1. PICK cur \in AfterPage(c) : next' = [next EXCEPT ![c] = cur]
    BY <1>4 DEF ReadPage
  <2>2. cur \in CursorsOf(Kind(c)) /\ cur \in Cursors
    BY <1>1, AfterPageType, CursorsType
  <2>3. Page(c) \subseteq Items
    BY PageType
  <2> QED
    BY <1>1, <1>4, <2>1, <2>2, <2>3
       DEF ReadPage, Goto, jobs, CollectionTypeOK, PagesTypeOK
<1>5. CASE ReadReferences(c)
  BY <1>1, <1>5 DEF ReadReferences, Goto, jobs, CollectionTypeOK, PagesTypeOK
<1>6. CASE ReadCutoff(c)
  BY <1>1, <1>6, CollectionAssumption
     DEF ReadCutoff, Goto, jobs, CollectionTypeOK, PagesTypeOK
<1>7. CASE Heartbeat(c)
  <2>1. CASE Holds(c)
    BY <1>1, <1>7, <2>1 DEF Heartbeat, Goto, CollectionTypeOK, PagesTypeOK
  <2>2. CASE ~Holds(c)
    BY <1>7, <2>2, LeavesTypes DEF Heartbeat
  <2> QED BY <2>1, <2>2
<1>8. CASE Finish(c)
  <2>1. CASE Holds(c)
    <3>1. next[c] \in CursorsOf(Kind(c)) /\ next[c] \in Cursors
      BY DEF CollectionTypeOK
    <3>2. cursor' \in [Kinds -> Cursors]
            /\ \A k \in Kinds : cursor'[k] \in CursorsOf(k)
      BY <1>8, <2>1, <3>1 DEF Finish, CollectionTypeOK
    <3>3. owner' \in [Kinds -> Collectors \cup {Nobody, Gone}] /\ lapsed' \subseteq Kinds
      BY <1>8, <2>1 DEF Finish, CollectionTypeOK
    <3> QED BY <1>8, <2>1, <3>2, <3>3, EndedTypes DEF Finish
  <2>2. CASE ~Holds(c)
    BY <1>8, <2>2, LeavesTypes DEF Finish
  <2> QED BY <2>1, <2>2
<1>9. CASE FinishError(c)
  <2>1. CASE Holds(c)
    <3>1. owner' \in [Kinds -> Collectors \cup {Nobody, Gone}] /\ lapsed' \subseteq Kinds
            /\ cursor' = cursor
      BY <1>9, <2>1 DEF FinishError, CollectionTypeOK
    <3> QED BY <1>9, <2>1, <3>1, EndedTypes DEF FinishError, CollectionTypeOK
  <2>2. CASE ~Holds(c)
    BY <1>9, <2>2, LeavesTypes DEF FinishError
  <2> QED BY <2>1, <2>2
<1> QED
  BY <1>2, <1>3, <1>4, <1>5, <1>6, <1>7, <1>8, <1>9 DEF PageStep

LEMMA TypesInductive ==
  ASSUME CollectionTypeOK, FixedTypeOK, [Next]_vars
  PROVE  CollectionTypeOK' /\ FixedTypeOK'
<1> USE DEF store, jobs, pages, fixed
<1>1. StoreTypeOK /\ PagesTypeOK /\ troubles \in Nat
  BY TypeParts
<1>2. SUFFICES /\ StoreTypeOK' /\ PagesTypeOK' /\ troubles' \in Nat
               /\ UNCHANGED fixed
  BY <1>1 DEF CollectionTypeOK, FixedTypeOK, StoreTypeOK, PagesTypeOK, Kind
<1>3. ASSUME UNCHANGED store
      PROVE  StoreTypeOK'
  BY <1>1, <1>3 DEF StoreTypeOK
<1>4. ASSUME UNCHANGED <<jobs, pages, fixed>>
      PROVE  PagesTypeOK'
  BY <1>1, <1>4 DEF PagesTypeOK, Kind
<1>5. ASSUME NEW w \in Writers, WriterStep(w)
      PROVE  /\ StoreTypeOK' /\ PagesTypeOK' /\ troubles' \in Nat
             /\ UNCHANGED fixed
  BY <1>1, <1>4, <1>5, WriterTypes DEF WriterStep
<1>6. ASSUME NEW c \in Collectors, CollectorStep(c)
      PROVE  /\ StoreTypeOK' /\ PagesTypeOK' /\ troubles' \in Nat
             /\ UNCHANGED fixed
  <2>1. CASE PageStep(c) /\ UNCHANGED store
    BY <1>1, <1>3, <1>6, <2>1, PageTypes DEF CollectorStep
  <2>2. CASE Delete(c)
    <3>1. StoreTypeOK'
      BY <1>1, <2>2, DeletionTypes DEF Delete
    <3>2. PagesTypeOK'
      BY <1>1, <1>6, <2>2 DEF CollectorStep, Delete, Goto, PagesTypeOK, Kind
    <3> QED BY <1>1, <1>6, <3>1, <3>2 DEF CollectorStep
  <2> QED BY <1>6, <2>1, <2>2 DEF CollectorStep
<1>7. CASE Passing
  <2>1. CASE \E w \in Writers : ProposalAges(w)
    BY <1>1, <1>4, <2>1 DEF ProposalAges, StoreTypeOK, Statuses
  <2>2. CASE \E h \in Contents : RowAges(h)
    BY <1>1, <1>4, <2>2 DEF RowAges, StoreTypeOK
  <2>3. CASE \E k \in Kinds : Lapse(k)
    BY <1>1, <1>3, <2>3 DEF Lapse, PagesTypeOK, Kind
  <2> QED BY <1>7, <2>1, <2>2, <2>3 DEF Passing
<1>8. CASE Tick
  <2>1. \A w \in Writers : object[w] <= OrphanAge => object[w] + 1 \in Ages
    BY <1>1, CollectionAssumption DEF StoreTypeOK, Ages, NoObject
  <2>2. StoreTypeOK'
    BY <1>1, <1>8, <2>1 DEF Tick, StoreTypeOK
  <2>3. \A c \in Collectors : at[c] = "cutoff" => waited[c] + 1 \in 0..QueryTime
    BY <1>1, <1>8, CollectionAssumption DEF Tick, PagesTypeOK
  <2>4. PagesTypeOK'
    BY <1>1, <1>8, <2>3 DEF Tick, PagesTypeOK, Kind
  <2> QED BY <1>1, <1>8, <2>2, <2>4 DEF Tick
<1>9. CASE Trouble
  <2>1. troubles' \in Nat /\ UNCHANGED fixed
    BY <1>1, <1>9 DEF Trouble
  <2>2. ASSUME NEW c \in Collectors, CallFails(c)
        PROVE  StoreTypeOK' /\ PagesTypeOK'
    <3>1. CASE at[c] # "delete"
      <4>1. UNCHANGED <<store, jobs, from, next, found>>
              /\ at' = [at EXCEPT ![c] = "error"]
              /\ waited' = [waited EXCEPT ![c] = 0]
        BY <2>2, <3>1 DEF CallFails, Goto
      <4>2. waited' \in [Collectors -> 0..QueryTime]
        BY <1>1, <4>1, CollectionAssumption DEF PagesTypeOK
      <4> QED
        BY <1>1, <1>3, <2>1, <4>1, <4>2 DEF PagesTypeOK, Kind
    <3>2. CASE at[c] = "delete"
      <4>1. PICK some \in SUBSET found[c] : Deletion(c, some)
        BY <2>2, <3>2 DEF CallFails
      <4>2. StoreTypeOK'
        BY <1>1, <2>2, <3>2, <4>1, DeletionTypes DEF CallFails
      <4>3. PagesTypeOK'
        BY <1>1, <2>1, <2>2, <3>2 DEF CallFails, Goto, PagesTypeOK, Kind
      <4> QED BY <4>2, <4>3
    <3> QED BY <3>1, <3>2
  <2>3. ASSUME NEW c \in Collectors, Dies(c)
        PROVE  StoreTypeOK' /\ PagesTypeOK'
    BY <1>3, <2>1, <2>3, LeavesTypes DEF Dies
  <2>4. ASSUME NEW k \in Kinds, Slow(k)
        PROVE  StoreTypeOK' /\ PagesTypeOK'
    BY <1>1, <1>3, <2>1, <2>4 DEF Slow, PagesTypeOK, Kind
  <2> QED BY <1>9, <2>1, <2>2, <2>3, <2>4 DEF Trouble
<1>10. CASE UNCHANGED vars
  BY <1>1, <1>3, <1>4, <1>10 DEF vars
<1> QED BY <1>5, <1>6, <1>7, <1>8, <1>9, <1>10 DEF Next

LEMMA InitTypes ==
  ASSUME Init
  PROVE  CollectionTypeOK /\ FixedTypeOK
<1>1. PICK s \in Scenarios : ask = s.ask /\ plan = s.plan /\ troubles = s.troubles
  BY DEF Init
<1>2. s \in Scenario /\ \A c \in Collectors : s.plan[c].cursor \in CursorsOf(s.plan[c].kind)
  BY CollectionAssumption
<1>3. FixedTypeOK /\ troubles \in Nat
  BY <1>1, <1>2, CollectionAssumption DEF Scenario, FixedTypeOK, Kind
<1>4. StoreTypeOK
  BY <1>3, CollectionAssumption
     DEF Init, StoreTypeOK, Statuses, Ages, NoObject
<1>5. \A c \in Collectors : Kind(c) \in Kinds
  BY <1>3 DEF FixedTypeOK, Plan, Kind
<1>6. PagesTypeOK
  BY <1>5, CursorsType, CollectionAssumption DEF Init, PagesTypeOK
<1> QED BY <1>3, <1>4, <1>6, TypeParts DEF FixedTypeOK

(* The variables keep their types, and every stored cursor is one that the *)
(* next page of its kind can decode.                                       *)
THEOREM CollectionTypes == Spec => []CollectionTypeOK
<1>1. Init => CollectionTypeOK /\ FixedTypeOK
  BY InitTypes
<1>2. CollectionTypeOK /\ FixedTypeOK /\ [Next]_vars
        => (CollectionTypeOK /\ FixedTypeOK)'
  BY TypesInductive
<1> QED BY <1>1, <1>2, PTL DEF Spec

-----------------------------------------------------------------------------
(* Nothing that is needed is collected.                                    *)

(* What the modes of writers allow, and which objects are in flight.       *)
WritersInv ==
  \A w \in Writers :
    /\ place[w] = "idle" => ~Stored(w)
    /\ place[w] = "stored" => Stored(w) /\ object[w] <= WriteTime
    /\ session[w] = "held" /\ place[w] # "done" => ask[w].mode = "multipart"
    /\ place[w] = "stored" => ask[w].mode # "multipart"
    /\ session[w] = "held" /\ place[w] = "done" => Stored(w)

(* Rows name objects that are there, of writers that are done.             *)
RowsInv ==
  /\ \A h \in versions : row[h] # Nobody
  /\ \A h \in Contents :
       row[h] # Nobody => Stored(row[h]) /\ place[row[h]] = "done"
  /\ \A w \in Writers :
       proposal[w] \in {"open", "expired"} => row[ask[w].content] # Nobody

(* No one will refer to the object of w any more.                          *)
Garbage(w) == place[w] = "done" /\ ~Referenced(w)

(* What a collector of objects holds against its candidates.               *)
CandidatesInv ==
  \A c \in Collectors, w \in Writers :
    Kind(c) = "r2-orphans" /\ w \in found[c] =>
      /\ at[c] = "references" => place[w] # "idle"
      /\ at[c] = "cutoff" =>
           /\ place[w] # "idle"
           /\ Garbage(w) \/ (Stored(w) => object[w] <= WriteTime + waited[c])
      /\ at[c] \in {"heartbeat", "delete"} => Garbage(w)

CollectionInv ==
  CollectionTypeOK /\ FixedTypeOK /\ WritersInv /\ RowsInv /\ CandidatesInv

LEMMA InvImpliesNeeded == CollectionInv => NothingNeededIsCollected
BY DEF CollectionInv, RowsInv, WritersInv, NothingNeededIsCollected

LEMMA KeepRowKeeps ==
  ASSUME CollectionInv, NEW w \in Writers, KeepRow(w)
  PROVE  /\ row'[ask[w].content] # Nobody
         /\ \A h \in Contents : row[h] # Nobody => row'[h] = row[h]
         /\ \A h \in Contents : row'[h] \in {row[h], w}
<1>1. row \in [Contents -> Writers \cup {Nobody}] /\ ask[w].content \in Contents
  BY ContentType DEF CollectionInv, CollectionTypeOK
<1> QED BY <1>1, CollectionAssumption DEF KeepRow

(* A writer whose place is not idle gets no new object, and one that is    *)
(* done is never referred to anew.                                         *)
LEMMA WriterKeepsGarbage ==
  ASSUME CollectionInv, NEW w \in Writers, WriterStep(w), NEW v \in Writers
  PROVE  /\ place[v] # "idle" => place'[v] # "idle"
         /\ Garbage(v) => Garbage(v)'
         /\ place[v] # "idle" => object'[v] \in {object[v], NoObject}
<1>1. /\ place \in [Writers -> {"idle", "stored", "done"}]
      /\ session \in [Writers -> {"none", "open", "held", "ended"}]
      /\ object \in [Writers -> Ages \cup {NoObject}]
  BY DEF CollectionInv, CollectionTypeOK
<1>2. \A h \in Contents : KeepRow(w) => row'[h] \in {row[h], w}
  BY KeepRowKeeps
<1>3. CASE Store(w)
  BY <1>1, <1>3 DEF Store, Garbage, Referenced
<1>4. CASE Write(w)
  BY <1>1, <1>2, <1>4 DEF Write, Finished, Garbage, Referenced
<1>5. CASE Propose(w)
  BY <1>1, <1>2, <1>5 DEF Propose, Finished, Garbage, Referenced
<1>6. CASE Record(w)
  BY <1>1, <1>6 DEF Record, Finished, Garbage, Referenced
<1>7. CASE GiveUp(w)
  BY <1>1, <1>7 DEF GiveUp, Finished, Garbage, Referenced
<1>8. CASE Approve(w)
  BY <1>8 DEF Approve, Garbage, Referenced
<1>9. CASE Reject(w)
  BY <1>9 DEF Reject, Garbage, Referenced
<1>10. CASE OpenSession(w)
  BY <1>1, <1>10 DEF OpenSession, Garbage, Referenced
<1>11. CASE Assemble(w)
  BY <1>1, <1>11 DEF Assemble, Finished, Garbage, Referenced
<1>12. CASE Finalize(w)
  BY <1>1, <1>2, <1>12 DEF Finalize, Garbage, Referenced
<1>13. CASE EndSession(w)
  BY <1>1, <1>13 DEF EndSession, Garbage, Referenced
<1> QED
  BY <1>3, <1>4, <1>5, <1>6, <1>7, <1>8, <1>9, <1>10, <1>11, <1>12, <1>13
     DEF WriterStep, Settle

LEMMA WriterKeepsWriters ==
  ASSUME CollectionInv, NEW w \in Writers, WriterStep(w)
  PROVE  WritersInv'
<1>1. /\ place \in [Writers -> {"idle", "stored", "done"}]
      /\ session \in [Writers -> {"none", "open", "held", "ended"}]
      /\ object \in [Writers -> Ages \cup {NoObject}]
      /\ 0 # NoObject /\ 0 <= WriteTime
  BY CollectionAssumption DEF CollectionInv, CollectionTypeOK, NoObject
<1>2. WritersInv /\ UNCHANGED ask
  BY DEF CollectionInv, WriterStep, fixed
<1> USE DEF WritersInv, Stored
<1>3. CASE Store(w)
  BY <1>1, <1>2, <1>3 DEF Store
<1>4. CASE Write(w)
  BY <1>1, <1>2, <1>4 DEF Write, Finished
<1>5. CASE Propose(w)
  BY <1>1, <1>2, <1>5 DEF Propose, Finished
<1>6. CASE Record(w)
  BY <1>1, <1>2, <1>6 DEF Record, Finished
<1>7. CASE GiveUp(w)
  BY <1>1, <1>2, <1>7 DEF GiveUp, Finished
<1>8. CASE Approve(w)
  BY <1>2, <1>8 DEF Approve
<1>9. CASE Reject(w)
  BY <1>2, <1>9 DEF Reject
<1>10. CASE OpenSession(w)
  BY <1>1, <1>2, <1>10 DEF OpenSession
<1>11. CASE Assemble(w)
  BY <1>1, <1>2, <1>11 DEF Assemble, Finished
<1>12. CASE Finalize(w)
  BY <1>1, <1>2, <1>12 DEF Finalize
<1>13. CASE EndSession(w)
  BY <1>1, <1>2, <1>13 DEF EndSession
<1> QED
  BY <1>3, <1>4, <1>5, <1>6, <1>7, <1>8, <1>9, <1>10, <1>11, <1>12, <1>13
     DEF WriterStep, Settle

(* A row of another writer stays where it is, and its object too.          *)
LEMMA WriterKeepsRows ==
  ASSUME CollectionInv, NEW w \in Writers, WriterStep(w)
  PROVE  RowsInv'
<1>1. /\ place \in [Writers -> {"idle", "stored", "done"}]
      /\ object \in [Writers -> Ages \cup {NoObject}]
      /\ proposal \in [Writers -> Statuses]
      /\ row \in [Contents -> Writers \cup {Nobody}]
      /\ versions \subseteq Contents
      /\ ask[w].content \in Contents /\ UNCHANGED ask
  BY ContentType DEF CollectionInv, CollectionTypeOK, WriterStep, fixed
<1>2. \A v \in Writers : ask[v].content \in Contents
  BY ContentType DEF CollectionInv
<1>3. RowsInv /\ WritersInv
  BY DEF CollectionInv
<1>4. ASSUME KeepRow(w)
      PROVE  /\ row'[ask[w].content] # Nobody
             /\ \A h \in Contents : row[h] # Nobody => row'[h] = row[h]
             /\ \A h \in Contents : row'[h] \in {row[h], w}
  BY <1>4, KeepRowKeeps
<1> USE DEF RowsInv, Stored
<1>5. CASE Store(w)
  BY <1>1, <1>3, <1>5, CollectionAssumption DEF Store
<1>6. CASE Write(w)
  BY <1>1, <1>2, <1>3, <1>4, <1>6 DEF Write, Finished, WritersInv
<1>7. CASE Propose(w)
  BY <1>1, <1>2, <1>3, <1>4, <1>7 DEF Propose, Finished, WritersInv
<1>8. CASE Record(w)
  BY <1>1, <1>3, <1>8 DEF Record, Finished
<1>9. CASE GiveUp(w)
  BY <1>1, <1>3, <1>9 DEF GiveUp, Finished
<1>10. CASE Approve(w)
  BY <1>1, <1>3, <1>10 DEF Approve
<1>11. CASE Reject(w)
  BY <1>1, <1>3, <1>11 DEF Reject
<1>12. CASE OpenSession(w)
  BY <1>1, <1>3, <1>12 DEF OpenSession
<1>13. CASE Assemble(w)
  BY <1>1, <1>3, <1>13, CollectionAssumption DEF Assemble, Finished
<1>14. CASE Finalize(w)
  BY <1>1, <1>2, <1>3, <1>4, <1>14 DEF Finalize, WritersInv
<1>15. CASE EndSession(w)
  BY <1>1, <1>3, <1>15 DEF EndSession
<1> QED
  BY <1>5, <1>6, <1>7, <1>8, <1>9, <1>10, <1>11, <1>12, <1>13, <1>14, <1>15
     DEF WriterStep, Settle

LEMMA WriterKeepsCandidates ==
  ASSUME CollectionInv, NEW w \in Writers, WriterStep(w)
  PROVE  CandidatesInv'
<1>1. UNCHANGED <<plan, at, found, waited>>
  BY DEF WriterStep, pages, fixed
<1>2. \A v \in Writers :
        /\ place[v] # "idle" => place'[v] # "idle"
        /\ Garbage(v) => Garbage(v)'
        /\ place[v] # "idle" => object'[v] \in {object[v], NoObject}
  BY WriterKeepsGarbage
<1> QED
  BY <1>1, <1>2 DEF CollectionInv, CandidatesInv, Kind, Stored

(* A deletion removes only what CandidatesInv or the predicate in the      *)
(* statement allows.                                                       *)
LEMMA DeletionKeeps ==
  ASSUME CollectionInv, NEW c \in Collectors, at[c] = "delete",
         NEW some \in SUBSET found[c], Deletion(c, some),
         UNCHANGED <<versions, session, place, ask>>
  PROVE  /\ WritersInv' /\ RowsInv'
         /\ \A v \in Writers :
              /\ object'[v] \in {object[v], NoObject}
              /\ Garbage(v) => Garbage(v)'
<1>1. /\ object \in [Writers -> Ages \cup {NoObject}]
      /\ proposal \in [Writers -> Statuses]
      /\ row \in [Contents -> Writers \cup {Nobody}]
      /\ versions \subseteq Contents
      /\ WritersInv /\ RowsInv
      /\ \A v \in Writers : ask[v].content \in Contents
      /\ Kind(c) \in Kinds
  BY ContentType, KindType DEF CollectionInv, CollectionTypeOK
<1>2. CASE Kind(c) = "r2-orphans"
  <2>1. \A v \in Writers : v \in some => Garbage(v)
    BY <1>2 DEF CollectionInv, CandidatesInv
  <2>2. UNCHANGED <<row, proposal>> /\ \A v \in Writers :
          object'[v] = IF v \in some THEN NoObject ELSE object[v]
    BY <1>2 DEF Deletion
  <2>3. \A h \in Contents : row[h] # Nobody => row[h] \notin some
    BY <1>1, <2>1 DEF Garbage, Referenced
  <2>4. RowsInv'
    BY <1>1, <2>2, <2>3 DEF RowsInv, Stored
  <2>5. WritersInv'
    BY <1>1, <2>1, <2>2 DEF WritersInv, Stored, Garbage, Referenced
  <2> QED BY <2>2, <2>4, <2>5 DEF Garbage, Referenced
<1>3. CASE Kind(c) = "content"
  <2> DEFINE gone == {h \in some : Holds(c) /\ Collectable(h)}
  <2>1. /\ UNCHANGED <<object, proposal>>
        /\ \A h \in Contents : row'[h] = IF h \in gone THEN Nobody ELSE row[h]
    BY <1>3 DEF Deletion
  <2>2. \A h \in gone : h \notin versions
    BY DEF Collectable
  <2>3. \A v \in Writers : proposal[v] \in {"open", "expired"}
          => ask[v].content \notin gone
    BY DEF Collectable
  <2> HIDE DEF gone
  <2>4. RowsInv'
    BY <1>1, <2>1, <2>2, <2>3 DEF RowsInv, Stored
  <2>5. WritersInv'
    BY <1>1, <2>1 DEF WritersInv, Stored
  <2>6. \A h \in Contents : row'[h] \in {row[h], Nobody}
    BY <2>1
  <2> QED
    BY <2>1, <2>4, <2>5, <2>6, CollectionAssumption DEF Garbage, Referenced
<1>4. CASE Kind(c) = "change-sets"
  <2>1. /\ UNCHANGED <<object, row>>
        /\ \A v \in Writers : proposal'[v] \in {proposal[v], "collected"}
    BY <1>4 DEF Deletion
  <2>2. WritersInv' /\ RowsInv'
    BY <1>1, <2>1 DEF WritersInv, RowsInv, Stored
  <2> QED BY <2>1, <2>2 DEF Garbage, Referenced
<1> QED BY <1>1, <1>2, <1>3, <1>4 DEF Kinds

(* A page step selects candidates with care.                               *)
LEMMA PageKeepsCandidates ==
  ASSUME CollectionInv, NEW c \in Collectors, PageStep(c),
         UNCHANGED <<store, fixed>>
  PROVE  CandidatesInv'
<1>1. /\ UNCHANGED <<row, session, object, place, plan>>
      /\ \A d \in Collectors : Kind(d)' = Kind(d)
      /\ \A w \in Writers : Garbage(w)' = Garbage(w) /\ Stored(w)' = Stored(w)
  BY DEF store, fixed, Kind, Garbage, Referenced, Stored
<1>2. /\ at \in [Collectors -> {"idle", "start", "page", "references", "cutoff",
                            "heartbeat", "delete", "finish", "error", "over"}]
      /\ waited \in [Collectors -> 0..QueryTime]
      /\ found \in [Collectors -> SUBSET Items]
      /\ object \in [Writers -> Ages \cup {NoObject}]
      /\ place \in [Writers -> {"idle", "stored", "done"}]
      /\ WritersInv /\ CandidatesInv
  BY DEF CollectionInv, CollectionTypeOK
<1>3. ASSUME Ended(c)
      PROVE  CandidatesInv'
  <2>1. /\ at'[c] \in {"idle", "over"}
        /\ \A d \in Collectors \ {c} :
             at'[d] = at[d] /\ found'[d] = found[d] /\ waited'[d] = waited[d]
    BY <1>2, <1>3 DEF Ended, Goto
  <2> QED BY <1>1, <1>2, <2>1 DEF CandidatesInv
<1>4. CASE Acquire(c)
  BY <1>1, <1>2, <1>4 DEF Acquire, Goto, CandidatesInv
<1>5. CASE StartRun(c)
  BY <1>1, <1>2, <1>3, <1>5 DEF StartRun, Leaves, Goto, CandidatesInv
<1>6. CASE ReadPage(c)
  <2>1. Kind(c) = "r2-orphans" => \A w \in Page(c) : w \in Writers /\ Stored(w)
    BY PageType DEF CollectionInv
  <2>2. /\ at'[c] = IF Kind(c) = "r2-orphans" THEN "references" ELSE "heartbeat"
        /\ found'[c] = Page(c) /\ waited' = waited
        /\ \A d \in Collectors \ {c} : at'[d] = at[d] /\ found'[d] = found[d]
    BY <1>2, <1>6 DEF ReadPage, Goto
  <2> QED BY <1>1, <1>2, <2>1, <2>2 DEF CandidatesInv, WritersInv
<1>7. CASE ReadReferences(c)
  <2>1. /\ at'[c] = "cutoff" /\ at[c] = "references" /\ waited' = waited
        /\ found'[c] = {w \in found[c] : ~Referenced(w)}
        /\ \A d \in Collectors \ {c} : at'[d] = at[d] /\ found'[d] = found[d]
    BY <1>2, <1>7 DEF ReadReferences, Goto
  <2>2. ASSUME NEW w \in Writers, Kind(c) = "r2-orphans", w \in found'[c]
        PROVE  place[w] # "idle"
                 /\ (Garbage(w) \/ (Stored(w) => object[w] <= WriteTime + waited[c]))
    <3>1. place[w] \in {"stored", "done"} /\ ~Referenced(w)
      BY <1>2, <2>1, <2>2 DEF CandidatesInv
    <3>2. CASE place[w] = "done"
      BY <3>1, <3>2 DEF Garbage
    <3>3. CASE place[w] = "stored"
      <4>1. object[w] <= WriteTime /\ Stored(w)
        BY <1>2, <3>3 DEF WritersInv
      <4>2. object[w] \in Nat /\ waited[c] \in Nat /\ WriteTime \in Nat
        BY <1>2, <4>1, CollectionAssumption DEF Ages, Stored
      <4> QED BY <3>3, <4>1, <4>2
    <3> QED BY <3>1, <3>2, <3>3
  <2> QED BY <1>1, <1>2, <2>1, <2>2 DEF CandidatesInv
<1>8. CASE ReadCutoff(c)
  <2>1. /\ at'[c] = "heartbeat" /\ at[c] = "cutoff"
        /\ found'[c] = {w \in found[c] : Old(w)}
        /\ \A d \in Collectors \ {c} :
             at'[d] = at[d] /\ found'[d] = found[d] /\ waited'[d] = waited[d]
    BY <1>2, <1>8 DEF ReadCutoff, Goto
  <2>2. ASSUME NEW w \in Writers, Kind(c) = "r2-orphans", w \in found'[c]
        PROVE  Garbage(w)
    <3>1. Garbage(w) \/ object[w] <= WriteTime + waited[c]
      BY <1>2, <2>1, <2>2 DEF CandidatesInv, Old
    <3>2. object[w] > OrphanAge /\ object[w] \in Nat
      BY <1>2, <2>1, <2>2, CollectionAssumption DEF Old, Ages, Stored
    <3>3. WriteTime + waited[c] <= OrphanAge
      BY <1>2, CollectionAssumption
    <3> QED BY <1>2, <3>1, <3>2, <3>3, CollectionAssumption
  <2> QED BY <1>1, <1>2, <2>1, <2>2 DEF CandidatesInv
<1>9. CASE Heartbeat(c)
  <2>1. CASE Holds(c)
    <3>1. /\ at'[c] \in {"delete", "finish"} /\ at[c] = "heartbeat"
          /\ UNCHANGED <<found, waited>>
          /\ \A d \in Collectors \ {c} : at'[d] = at[d]
      BY <1>2, <1>9, <2>1 DEF Heartbeat, Goto
    <3> QED BY <1>1, <1>2, <3>1 DEF CandidatesInv
  <2>2. CASE ~Holds(c)
    BY <1>3, <1>9, <2>2 DEF Heartbeat, Leaves
  <2> QED BY <2>1, <2>2
<1>10. CASE Finish(c)
  BY <1>3, <1>10 DEF Finish, Leaves
<1>11. CASE FinishError(c)
  BY <1>3, <1>11 DEF FinishError, Leaves
<1> QED
  BY <1>4, <1>5, <1>6, <1>7, <1>8, <1>9, <1>10, <1>11 DEF PageStep

LEMMA CollectionInductive ==
  ASSUME CollectionInv, [Next]_vars
  PROVE  CollectionInv'
<1>1. CollectionTypeOK' /\ FixedTypeOK'
  BY TypesInductive DEF CollectionInv
<1>2. SUFFICES WritersInv' /\ RowsInv' /\ CandidatesInv'
  BY <1>1 DEF CollectionInv
<1>3. /\ at \in [Collectors -> {"idle", "start", "page", "references", "cutoff",
                            "heartbeat", "delete", "finish", "error", "over"}]
      /\ waited \in [Collectors -> 0..QueryTime]
      /\ object \in [Writers -> Ages \cup {NoObject}]
      /\ row \in [Contents -> Writers \cup {Nobody}]
      /\ proposal \in [Writers -> Statuses]
      /\ \A v \in Writers : ask[v].content \in Contents
      /\ WritersInv /\ RowsInv /\ CandidatesInv
  BY ContentType DEF CollectionInv, CollectionTypeOK
<1>4. ASSUME UNCHANGED <<store, fixed>>
      PROVE  WritersInv' /\ RowsInv'
                /\ \A v \in Writers : Garbage(v)' = Garbage(v)
  BY <1>3, <1>4
     DEF store, fixed, WritersInv, RowsInv, Stored, Garbage, Referenced
<1>5. ASSUME NEW w \in Writers, WriterStep(w)
      PROVE  WritersInv' /\ RowsInv' /\ CandidatesInv'
  BY <1>5, WriterKeepsWriters, WriterKeepsRows, WriterKeepsCandidates
<1>6. ASSUME NEW c \in Collectors, at[c] = "delete",
             NEW some \in SUBSET found[c], Deletion(c, some),
             UNCHANGED <<versions, session, place, fixed, found, waited>>,
             at'[c] \in {"finish", "error"},
             \A d \in Collectors \ {c} : at'[d] = at[d]
      PROVE  WritersInv' /\ RowsInv' /\ CandidatesInv'
  <2>1. WritersInv' /\ RowsInv'
        /\ \A v \in Writers : object'[v] \in {object[v], NoObject}
                               /\ (Garbage(v) => Garbage(v)')
    BY <1>6, DeletionKeeps DEF fixed
  <2>2. CandidatesInv'
    BY <1>3, <1>6, <2>1 DEF CandidatesInv, Kind, Stored, fixed
  <2> QED BY <2>1, <2>2
<1>7. ASSUME NEW c \in Collectors, CollectorStep(c)
      PROVE  WritersInv' /\ RowsInv' /\ CandidatesInv'
  <2>1. CASE PageStep(c) /\ UNCHANGED store
    BY <1>4, <1>7, <2>1, PageKeepsCandidates DEF CollectorStep
  <2>2. CASE Delete(c)
    BY <1>3, <1>6, <1>7, <2>2 DEF CollectorStep, Delete, Goto
  <2> QED BY <1>7, <2>1, <2>2 DEF CollectorStep
<1>8. CASE Passing
  <2>1. CASE \E w \in Writers : ProposalAges(w)
    <3>1. UNCHANGED <<row, versions, session, object, place, ask, plan, at,
                      found, waited>>
            /\ \A v \in Writers : proposal'[v] \in {"open", "expired"}
                  => proposal[v] \in {"open", "expired"}
      BY <1>3, <2>1 DEF ProposalAges, pages, fixed
    <3> QED
      BY <1>3, <3>1
         DEF WritersInv, RowsInv, CandidatesInv, Kind, Stored, Garbage, Referenced
  <2>2. CASE \E h \in Contents : RowAges(h)
    <3>1. UNCHANGED <<row, versions, proposal, session, object, place, ask, plan,
                      at, found, waited>>
      BY <2>2 DEF RowAges, pages, fixed
    <3> QED
      BY <1>3, <3>1
         DEF WritersInv, RowsInv, CandidatesInv, Kind, Stored, Garbage, Referenced
  <2>3. CASE \E k \in Kinds : Lapse(k)
    <3>1. UNCHANGED <<row, versions, proposal, session, object, place, ask, plan,
                      at, found, waited>>
      BY <2>3 DEF Lapse, pages, fixed, store
    <3> QED
      BY <1>3, <3>1
         DEF WritersInv, RowsInv, CandidatesInv, Kind, Stored, Garbage, Referenced
  <2> QED BY <1>8, <2>1, <2>2, <2>3 DEF Passing
<1>9. CASE Tick
  <2>1. /\ UNCHANGED <<row, versions, proposal, session, place, ask, plan, at,
                       found>>
        /\ \A w \in Writers : place[w] = "stored" => object[w] < WriteTime
        /\ \A w \in Writers :
             object'[w] = IF object[w] <= OrphanAge THEN object[w] + 1
                          ELSE object[w]
        /\ \A c \in Collectors : at[c] = "cutoff" => waited'[c] = waited[c] + 1
    BY <1>3, <1>9 DEF Tick, fixed
  <2>2. \A w \in Writers : Stored(w)' <=> Stored(w)
    BY <1>3, <2>1, CollectionAssumption DEF Stored, NoObject, Ages
  <2>3. WritersInv'
    BY <1>3, <2>1, <2>2, CollectionAssumption DEF WritersInv, Ages, NoObject, Stored
  <2>4. RowsInv'
    BY <1>3, <2>1, <2>2 DEF RowsInv
  <2>5. \A w \in Writers : Garbage(w)' = Garbage(w)
    BY <2>1 DEF Garbage, Referenced
  <2>6. ASSUME NEW c \in Collectors, NEW w \in Writers, at[c] = "cutoff",
               Stored(w), object[w] <= WriteTime + waited[c]
        PROVE  object'[w] <= WriteTime + waited'[c]
    <3>1. object[w] \in Nat /\ waited[c] \in Nat
      BY <1>3, <2>6, CollectionAssumption DEF Stored, Ages
    <3> QED BY <2>1, <2>6, <3>1, CollectionAssumption
  <2>7. CandidatesInv'
    BY <1>3, <2>1, <2>2, <2>5, <2>6 DEF CandidatesInv, Kind
  <2> QED BY <2>3, <2>4, <2>7
<1>10. CASE Trouble
  <2>1. ASSUME NEW c \in Collectors, CallFails(c)
        PROVE  WritersInv' /\ RowsInv' /\ CandidatesInv'
    <3>1. CASE at[c] # "delete"
      <4>1. /\ UNCHANGED <<store, fixed, found>> /\ at'[c] = "error"
            /\ \A d \in Collectors \ {c} :
                 at'[d] = at[d] /\ waited'[d] = waited[d]
        BY <1>3, <1>10, <2>1, <3>1 DEF CallFails, Goto, Trouble
      <4>2. CandidatesInv'
        BY <1>3, <1>4, <4>1 DEF CandidatesInv, Kind, Stored, store, fixed
      <4> QED BY <1>4, <4>1, <4>2
    <3>2. CASE at[c] = "delete"
      BY <1>3, <1>6, <1>10, <2>1, <3>2 DEF CallFails, Goto, Trouble
    <3> QED BY <3>1, <3>2
  <2>2. ASSUME NEW c \in Collectors, Dies(c)
        PROVE  WritersInv' /\ RowsInv' /\ CandidatesInv'
    <3>1. /\ UNCHANGED <<store, fixed>> /\ found'[c] = {}
          /\ \A d \in Collectors \ {c} :
               at'[d] = at[d] /\ waited'[d] = waited[d] /\ found'[d] = found[d]
      BY <1>3, <1>10, <2>2 DEF Dies, Leaves, Ended, Goto, Trouble, CollectionInv,
                             CollectionTypeOK
    <3>2. CandidatesInv'
      BY <1>3, <1>4, <3>1 DEF CandidatesInv, Kind, Stored, store, fixed
    <3> QED BY <1>4, <3>1, <3>2
  <2>3. ASSUME NEW k \in Kinds, Slow(k)
        PROVE  WritersInv' /\ RowsInv' /\ CandidatesInv'
    <3>1. UNCHANGED <<store, fixed, at, found, waited>>
      BY <1>10, <2>3 DEF Slow, Trouble, pages
    <3>2. CandidatesInv'
      BY <1>3, <1>4, <3>1 DEF CandidatesInv, Kind, Stored, store, fixed
    <3> QED BY <1>4, <3>1, <3>2
  <2> QED BY <1>10, <2>1, <2>2, <2>3 DEF Trouble
<1>11. CASE UNCHANGED vars
  <2>1. UNCHANGED <<store, fixed, at, found, waited>>
    BY <1>11 DEF vars, pages
  <2>2. CandidatesInv'
    BY <1>3, <1>4, <2>1 DEF CandidatesInv, Kind, Stored, store, fixed
  <2> QED BY <1>4, <2>1, <2>2
<1> QED BY <1>5, <1>7, <1>8, <1>9, <1>10, <1>11 DEF Next

LEMMA CollectionStarts == Init => CollectionInv
<1> SUFFICES ASSUME Init PROVE WritersInv /\ RowsInv /\ CandidatesInv
  BY InitTypes DEF CollectionInv
<1>2. /\ row = [h \in Contents |-> Nobody] /\ versions = {}
      /\ proposal = [w \in Writers |-> "none"]
      /\ session = [w \in Writers |-> "none"]
      /\ at = [c \in Collectors |-> "idle"]
  BY DEF Init
<1>3. \A w \in Writers :
        \/ place[w] = "idle" /\ object[w] = NoObject
        \/ place[w] = "done"
  BY DEF Init
<1>4. WritersInv
  BY <1>2, <1>3 DEF WritersInv, Stored
<1>5. RowsInv
  BY <1>2 DEF RowsInv
<1>6. CandidatesInv
  BY <1>2 DEF CandidatesInv
<1> QED BY <1>4, <1>5, <1>6

(* The bytes of every version, of every change set that may be approved    *)
(* and of every session that may be completed stay, however slow, dead or  *)
(* many the collectors are.                                                *)
THEOREM NeededStays == Spec => []NothingNeededIsCollected
<1>1. Init => CollectionInv
  BY CollectionStarts
<1>2. CollectionInv /\ [Next]_vars => CollectionInv'
  BY CollectionInductive
<1>3. CollectionInv => NothingNeededIsCollected
  BY InvImpliesNeeded
<1> QED BY <1>1, <1>2, <1>3, PTL DEF Spec

-----------------------------------------------------------------------------
(* The stored cursors form a chain.                                        *)

(* Whoever holds a lease works on the page that the stored cursor begins.  *)
HoldersInv ==
  \A c \in Collectors :
    /\ \A k \in Kinds : owner[k] = c => Kind(c) = k /\ at[c] \notin {"idle", "over"}
    /\ Holds(c) /\ plan[c].sort # "manual" => from[c] = cursor[Kind(c)]

ChainInv == CollectionTypeOK /\ FixedTypeOK /\ HoldersInv

LEMMA LeavesKeepsHolders ==
  ASSUME ChainInv, NEW c \in Collectors, Leaves(c), UNCHANGED fixed
  PROVE  HoldersInv'
<1>1. /\ \A d \in Collectors : Kind(d) \in Kinds /\ Kind(d)' = Kind(d)
      /\ at \in [Collectors -> {"idle", "start", "page", "references", "cutoff",
                            "heartbeat", "delete", "finish", "error", "over"}]
      /\ owner \in [Kinds -> Collectors \cup {Nobody, Gone}]
      /\ from \in [Collectors -> Cursors] /\ HoldersInv /\ UNCHANGED plan
  BY KindType DEF ChainInv, CollectionTypeOK, fixed, Kind
<1>2. /\ owner' = [k \in Kinds |-> IF owner[k] = c THEN Gone ELSE owner[k]]
      /\ UNCHANGED cursor
      /\ \A d \in Collectors \ {c} : at'[d] = at[d] /\ from'[d] = from[d]
  BY <1>1 DEF Leaves, Ended, Goto
<1> QED BY <1>1, <1>2, CollectionAssumption DEF HoldersInv, Holds

(* A holder that finishes releases what it holds.                          *)
LEMMA ReleaseKeepsHolders ==
  ASSUME ChainInv, NEW c \in Collectors, Holds(c), Ended(c), UNCHANGED fixed,
         owner' = [owner EXCEPT ![Kind(c)] = Nobody],
         NEW cur, cursor' = [cursor EXCEPT ![Kind(c)] = cur]
  PROVE  HoldersInv'
<1>1. /\ \A d \in Collectors : Kind(d) \in Kinds /\ Kind(d)' = Kind(d)
      /\ at \in [Collectors -> {"idle", "start", "page", "references", "cutoff",
                            "heartbeat", "delete", "finish", "error", "over"}]
      /\ owner \in [Kinds -> Collectors \cup {Nobody, Gone}]
      /\ cursor \in [Kinds -> Cursors]
      /\ from \in [Collectors -> Cursors] /\ HoldersInv /\ UNCHANGED plan
  BY KindType DEF ChainInv, CollectionTypeOK, fixed, Kind
<1>2. \A d \in Collectors \ {c} : at'[d] = at[d] /\ from'[d] = from[d]
  BY <1>1 DEF Ended, Goto
<1>3. \A k \in Kinds : owner'[k] # c
  BY <1>1, CollectionAssumption DEF HoldersInv
<1>4. \A d \in Collectors \ {c}, k \in Kinds :
        owner'[k] = d => owner[k] = d /\ k # Kind(c) /\ cursor'[k] = cursor[k]
  BY <1>1, CollectionAssumption DEF Holds
<1> QED BY <1>1, <1>2, <1>3, <1>4 DEF HoldersInv, Holds

LEMMA ChainInductive ==
  ASSUME ChainInv, [Next]_vars
  PROVE  ChainInv'
<1> USE DEF jobs, pages, fixed
<1>1. /\ \A d \in Collectors : Kind(d) \in Kinds
      /\ at \in [Collectors -> {"idle", "start", "page", "references", "cutoff",
                            "heartbeat", "delete", "finish", "error", "over"}]
      /\ owner \in [Kinds -> Collectors \cup {Nobody, Gone}]
      /\ cursor \in [Kinds -> Cursors]
      /\ from \in [Collectors -> Cursors] /\ HoldersInv
      /\ UNCHANGED fixed
      /\ \A d \in Collectors : Kind(d)' = Kind(d)
  <2>1. UNCHANGED fixed
    BY DEF Next, WriterStep, CollectorStep, Passing, ProposalAges, RowAges, Lapse,
           Tick, Trouble, vars
  <2> QED BY <2>1, KindType DEF ChainInv, CollectionTypeOK, Kind
<1>2. SUFFICES HoldersInv'
  BY TypesInductive DEF ChainInv
<1>3. ASSUME UNCHANGED <<owner, cursor, from>>,
             \A d \in Collectors : at'[d] \in {"idle", "over"}
                                   => at[d] \in {"idle", "over"}
      PROVE  HoldersInv'
  BY <1>1, <1>3 DEF HoldersInv, Holds
<1>4. ASSUME NEW c \in Collectors, PageStep(c)
      PROVE  HoldersInv'
  <2>1. CASE Acquire(c)
    <3>1. /\ at'[c] = "start" /\ \A d \in Collectors \ {c} : at'[d] = at[d]
          /\ owner'[Kind(c)] = c /\ UNCHANGED cursor
          /\ \A k \in Kinds \ {Kind(c)} : owner'[k] = owner[k]
          /\ from'[c] = IF plan[c].sort = "manual" THEN plan[c].cursor
                        ELSE cursor[Kind(c)]
          /\ \A d \in Collectors \ {c} : from'[d] = from[d]
          /\ \A k \in Kinds : owner[k] # c
      BY <1>1, <2>1 DEF Acquire, Goto, HoldersInv
    <3> QED BY <1>1, <3>1 DEF HoldersInv, Holds
  <2>2. CASE StartRun(c) \/ Heartbeat(c)
    <3>1. CASE Holds(c)
      BY <1>1, <1>3, <2>2, <3>1 DEF StartRun, Heartbeat, Goto
    <3>2. CASE ~Holds(c)
      BY <1>1, <2>2, <3>2, LeavesKeepsHolders DEF StartRun, Heartbeat
    <3> QED BY <3>1, <3>2
  <2>3. CASE ReadPage(c) \/ ReadReferences(c) \/ ReadCutoff(c)
    BY <1>1, <1>3, <2>3 DEF ReadPage, ReadReferences, ReadCutoff, Goto
  <2>4. CASE Finish(c)
    <3>1. CASE Holds(c)
      <4>1. PICK cur : cursor' = [cursor EXCEPT ![Kind(c)] = cur]
        BY <1>1, <2>4, <3>1 DEF Finish
      <4> QED BY <1>1, <2>4, <3>1, <4>1, ReleaseKeepsHolders DEF Finish
    <3>2. CASE ~Holds(c)
      BY <1>1, <2>4, <3>2, LeavesKeepsHolders DEF Finish
    <3> QED BY <3>1, <3>2
  <2>5. CASE FinishError(c)
    <3>1. CASE Holds(c)
      <4>1. cursor' = [cursor EXCEPT ![Kind(c)] = cursor[Kind(c)]]
        BY <1>1, <2>5, <3>1 DEF FinishError
      <4> QED BY <1>1, <2>5, <3>1, <4>1, ReleaseKeepsHolders DEF FinishError
    <3>2. CASE ~Holds(c)
      BY <1>1, <2>5, <3>2, LeavesKeepsHolders DEF FinishError
    <3> QED BY <3>1, <3>2
  <2> QED BY <1>4, <2>1, <2>2, <2>3, <2>4, <2>5 DEF PageStep
<1>5. CASE \E w \in Writers : WriterStep(w)
  BY <1>3, <1>5 DEF WriterStep
<1>6. CASE \E c \in Collectors : CollectorStep(c)
  <2>1. PICK c \in Collectors : CollectorStep(c)
    BY <1>6
  <2>2. CASE Delete(c)
    BY <1>1, <1>3, <2>2 DEF Delete, Goto
  <2> QED BY <1>4, <2>1, <2>2 DEF CollectorStep
<1>7. CASE Passing
  <2>1. CASE \E k \in Kinds : Lapse(k)
    BY <1>3, <2>1 DEF Lapse
  <2> QED BY <1>3, <1>7, <2>1 DEF Passing, ProposalAges, RowAges
<1>8. CASE Tick
  BY <1>3, <1>8 DEF Tick
<1>9. CASE Trouble
  <2>1. ASSUME NEW c \in Collectors, CallFails(c)
        PROVE  HoldersInv'
    BY <1>1, <1>3, <2>1 DEF CallFails, Goto
  <2>2. ASSUME NEW c \in Collectors, Dies(c)
        PROVE  HoldersInv'
    BY <1>1, <2>2, LeavesKeepsHolders DEF Dies
  <2>3. ASSUME NEW k \in Kinds, Slow(k)
        PROVE  HoldersInv'
    BY <1>3, <2>3 DEF Slow
  <2> QED BY <1>9, <2>1, <2>2, <2>3 DEF Trouble
<1>10. CASE UNCHANGED vars
  BY <1>3, <1>10 DEF vars
<1> QED BY <1>5, <1>6, <1>7, <1>8, <1>9, <1>10 DEF Next

ChainStep ==
  \A k \in Kinds : cursor'[k] # cursor[k] =>
    \E c \in Collectors :
      /\ Kind(c) = k /\ at[c] = "finish" /\ at'[c] # "finish" /\ ~Dry(c)
      /\ plan[c].sort = "manual" \/ from[c] = cursor[k]
      /\ cursor'[k] = next[c]

LEMMA StepsExtendChain ==
  ASSUME ChainInv, [Next]_vars
  PROVE  ChainStep
<1> USE DEF jobs, pages, fixed
<1>1. SUFFICES ASSUME cursor' # cursor PROVE ChainStep
  BY DEF ChainStep
<1>2. PICK c \in Collectors : Finish(c) /\ Holds(c)
  BY <1>1
     DEF Next, WriterStep, CollectorStep, PageStep, Passing, Tick, Trouble, vars,
         Acquire, StartRun, ReadPage, ReadReferences, ReadCutoff, Heartbeat,
         Finish, FinishError, Leaves, Delete, ProposalAges, RowAges, Lapse,
         CallFails, Dies, Slow
<1>3. /\ cursor \in [Kinds -> Cursors] /\ HoldersInv /\ Kind(c) \in Kinds
      /\ at \in [Collectors -> {"idle", "start", "page", "references", "cutoff",
                            "heartbeat", "delete", "finish", "error", "over"}]
  BY KindType DEF ChainInv, CollectionTypeOK
<1>4. /\ cursor' = [cursor EXCEPT ![Kind(c)] = IF Dry(c) THEN @ ELSE next[c]]
      /\ at[c] = "finish" /\ at'[c] \in {"idle", "over"}
  BY <1>2, <1>3 DEF Finish, Ended, Goto
<1>5. plan[c].sort = "manual" \/ from[c] = cursor[Kind(c)]
  BY <1>2, <1>3 DEF HoldersInv
<1> QED BY <1>3, <1>4, <1>5 DEF ChainStep

(* A stored cursor is replaced only by the successor of the page that      *)
(* began at it: a late collector neither skips pages nor repeats them.     *)
THEOREM CursorsChain == Spec => PagesFormAChain
<1>1. Init => ChainInv
  <2> SUFFICES ASSUME Init PROVE HoldersInv
    BY InitTypes DEF ChainInv
  <2>1. owner = [k \in Kinds |-> Nobody] /\ \A c \in Collectors : Kind(c) \in Kinds
    BY InitTypes, KindType DEF Init
  <2> QED BY <2>1, CollectionAssumption DEF HoldersInv, Holds
<1>2. ChainInv /\ [Next]_vars => ChainInv'
  BY ChainInductive
<1>3. ChainInv /\ [Next]_vars => [ChainStep]_vars
  BY StepsExtendChain
<1> QED BY <1>1, <1>2, <1>3, PTL DEF Spec, PagesFormAChain, ChainStep
=============================================================================
