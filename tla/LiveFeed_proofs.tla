--------------------------- MODULE LiveFeed_proofs ---------------------------
(***************************************************************************)
(* For any number of changes and troubles and any sizes of the pages and   *)
(* queues: the hook's cursor never passes a change that the page lacks,    *)
(* and a connected page at rest that met no trouble shows every change.    *)
(***************************************************************************)
EXTENDS LiveFeed, TLAPS, SequenceTheorems

(* A checkpoint that travels, in a frame, an event or a task, was read     *)
(* from the feed, so it is at most the newest change.                      *)
Sent(n) ==
  {f \in Frame : f.id <= n /\ (f.type = "change" => f.id \in Changes)}

StreamInv ==
  /\ stream.cursor <= head /\ stream.checkpoint <= head
  /\ stream.phase = "replaying" => stream.pages < MaxReplayPages
  /\ stream.prefix \in Seq(Sent(head)) /\ stream.live \in Seq(Sent(head))

TasksInv ==
  /\ slot.task \in Marks => slot.task <= head
  /\ slot.trailing \in Marks => slot.trailing <= head

(* What a finished refresh has read reaches from the hook's cursor to the  *)
(* checkpoint that it confirms.                                            *)
RefreshInv ==
  slot.step = "read" =>
    /\ slot.since = hook.consumer /\ slot.upto <= head
    /\ slot.task \in Marks => slot.task <= slot.upto

FeedInv ==
  /\ LiveTypeOK
  /\ scenario \in Scenarios
  /\ unpublished \subseteq 1..head
  /\ client.checkpoint <= head /\ hook.consumer <= head
  /\ inbox \in Seq(Sent(head))
  /\ StreamInv /\ TasksInv /\ RefreshInv
  /\ NothingSkipped

-----------------------------------------------------------------------------
LEMMA MarksAre ==
  /\ Marks = 0..MaxChanges
  /\ NoMark \notin Marks /\ NoTask \notin Marks
BY LiveFeedAssumption DEF Marks, Changes

LEMMA ScenarioIs ==
  ASSUME scenario \in Scenarios
  PROVE  /\ scenario.start \in 0..MaxChanges /\ scenario.last \in 0..MaxChanges
         /\ scenario.troubles \in 0..MaxTroubles
BY LiveFeedAssumption DEF Scenario

LEMMA SentIs ==
  ASSUME NEW n \in Marks
  PROVE  /\ Sent(n) \subseteq Frame /\ ReconnectFrame \in Sent(n)
         /\ \A i \in Marks, own \in BOOLEAN :
              i <= n => ReadyFrame(i) \in Sent(n)
         /\ \A i \in Changes, own \in BOOLEAN :
              i <= n => ChangeFrame(i, own) \in Sent(n)
         /\ \A m \in Marks : n <= m => Sent(n) \subseteq Sent(m)
BY MarksAre, LiveFeedAssumption
   DEF Sent, Frame, ReconnectFrame, ReadyFrame, ChangeFrame, Marks

LEMMA NoStreamIs ==
  /\ NoStream \in Streams
  /\ NoStream.cursor = 0 /\ NoStream.checkpoint = 0 /\ NoStream.pages = 0
  /\ NoStream.prefix = <<>> /\ NoStream.live = <<>>
  /\ NoStream.phase = "none"
BY LiveFeedAssumption DEF NoStream, FrameSeqs, Marks, Streams

LEMMA InitFeed == Init => FeedInv
<1> SUFFICES ASSUME Init PROVE FeedInv
  OBVIOUS
<1>1. /\ scenario \in Scenarios /\ head = scenario.start /\ unpublished = {}
      /\ stream = NoStream /\ client = NewClient(head) /\ inbox = <<>>
      /\ hook = [visible |-> TRUE, awaiting |-> TRUE, consumer |-> head]
      /\ slot = Idle /\ known = 1..head /\ troubles = scenario.troubles
  BY DEF Init
<1>2. head \in Marks /\ troubles \in 0..MaxTroubles
  BY <1>1, MarksAre, ScenarioIs
<1>3. LiveTypeOK
  BY <1>1, <1>2, NoStreamIs, MarksAre, LiveFeedAssumption
     DEF LiveTypeOK, Clients, NewClient, Idle, Tasks, Changes, FrameSeqs
<1>4. StreamInv
  BY <1>1, <1>2, NoStreamIs, MarksAre DEF StreamInv
<1>5. TasksInv /\ RefreshInv
  BY <1>1, MarksAre DEF TasksInv, RefreshInv, Idle
<1>6. NothingSkipped
  BY <1>1, <1>2, MarksAre DEF NothingSkipped, Changes
<1>7. client.checkpoint <= head /\ hook.consumer <= head
  BY <1>1, <1>2, MarksAre DEF NewClient
<1>8. unpublished \subseteq 1..head /\ inbox \in Seq(Sent(head))
  BY <1>1
<1> QED
  BY <1>1, <1>3, <1>4, <1>5, <1>6, <1>7, <1>8 DEF FeedInv

-----------------------------------------------------------------------------
(* The steps, by who takes them.                                           *)

LEMMA FeedFacts ==
  ASSUME FeedInv
  PROVE  /\ head \in Marks /\ head \in Nat /\ MaxChanges \in Nat
         /\ Marks = 0..MaxChanges /\ Changes = 1..MaxChanges
         /\ stream.prefix \in Seq(Sent(head))
         /\ stream.live \in Seq(Sent(head))
         /\ stream.cursor \in Marks /\ stream.cursor <= head
         /\ stream.checkpoint \in Marks /\ stream.checkpoint <= head
         /\ stream.phase \in {"none", "replaying", "heading", "answered"}
         /\ stream.cut \in BOOLEAN
         /\ client.checkpoint \in Marks /\ client.checkpoint <= head
         /\ hook.consumer \in Marks /\ hook.consumer <= head
BY MarksAre, LiveFeedAssumption
   DEF FeedInv, LiveTypeOK, StreamInv, Changes, Streams, Clients

LEMMA CommitFeed ==
  ASSUME FeedInv, Commit
  PROVE  FeedInv'
<1>1. /\ head' = head + 1 /\ unpublished' = unpublished \cup {head + 1}
      /\ known \subseteq known' /\ known' \subseteq known \cup {head + 1}
      /\ UNCHANGED <<scenario, stream, client, inbox, hook, slot, troubles>>
  BY DEF Commit
<1>2. head' \in Marks /\ head' \in Changes /\ head <= head' /\ head \in Marks
  BY <1>1, FeedFacts, ScenarioIs DEF Commit, FeedInv
<1>3. Sent(head) \subseteq Sent(head')
  BY <1>2, SentIs
<1>4. LiveTypeOK'
  BY <1>1, <1>2 DEF FeedInv, LiveTypeOK, Tasks, FrameSeqs
<1>5. /\ stream.prefix \in Seq(Sent(head')) /\ stream.live \in Seq(Sent(head'))
      /\ inbox \in Seq(Sent(head'))
  BY <1>3, SeqMonotonic DEF FeedInv, StreamInv
<1>6. StreamInv'
  BY <1>1, <1>2, <1>5, FeedFacts DEF FeedInv, StreamInv
<1>7. TasksInv'
  BY <1>1, FeedFacts DEF FeedInv, TasksInv
<1>8. RefreshInv'
  <2>1. slot.upto \in Marks
    BY DEF FeedInv, LiveTypeOK
  <2> QED BY <1>1, <2>1, FeedFacts DEF FeedInv, RefreshInv
<1>9. NothingSkipped'
  BY <1>1 DEF FeedInv, NothingSkipped
<1>10. unpublished' \subseteq 1..head'
  <2>1. unpublished \subseteq 1..head /\ head \in Nat
    BY FeedFacts DEF FeedInv
  <2>2. 1..head \subseteq 1..(head + 1) /\ head + 1 \in 1..(head + 1)
    BY <2>1
  <2> QED BY <1>1, <2>1, <2>2
<1> QED
  BY <1>1, <1>4, <1>5, <1>6, <1>7, <1>8, <1>9, <1>10, FeedFacts DEF FeedInv

(* A step that only changes the stream.                                    *)
LEMMA StreamSteps ==
  ASSUME FeedInv, StreamInv', unpublished' \subseteq unpublished,
         stream' \in Streams,
         troubles' \in 0..MaxTroubles,
         UNCHANGED <<scenario, head, client, inbox, hook, slot, known>>
  PROVE  FeedInv'
<1>1. LiveTypeOK'
  BY DEF FeedInv, LiveTypeOK, Tasks, FrameSeqs
<1>2. TasksInv' /\ RefreshInv' /\ NothingSkipped'
  BY DEF FeedInv, TasksInv, RefreshInv, NothingSkipped
<1> QED BY <1>1, <1>2 DEF FeedInv

LEMMA SentSeqs ==
  ASSUME NEW n \in Marks
  PROVE  \A s \in Seq(Sent(n)) : s \in FrameSeqs
BY SentIs, SeqMonotonic DEF FrameSeqs

LEMMA DeliverFeed ==
  ASSUME FeedInv, NEW i \in Changes, Deliver(i)
  PROVE  FeedInv'
<1> DEFINE frame == ChangeFrame(i, i \in Own)
<1>1. frame \in Sent(head)
  <2>1. i <= head /\ (i \in Own) \in BOOLEAN
    BY FeedFacts DEF FeedInv, Deliver
  <2> QED BY <2>1, FeedFacts, SentIs
<1>2. stream' = Offered(stream, frame)
  BY DEF Deliver
<1> HIDE DEF frame
<1>3. stream \in Streams
  BY DEF FeedInv, LiveTypeOK
<1>4. \/ stream' = stream
      \/ /\ Len(stream.live) >= LiveLimit
         /\ stream' = [stream EXCEPT !.live = <<Head(stream.live)>>, !.cut = TRUE]
      \/ stream' = [stream EXCEPT !.live = Append(stream.live, frame)]
  BY <1>2 DEF Offered
<1>5. Len(stream.live) >= LiveLimit => <<Head(stream.live)>> \in Seq(Sent(head))
  <2> SUFFICES ASSUME Len(stream.live) >= LiveLimit
               PROVE  Head(stream.live) \in Sent(head)
    OBVIOUS
  <2>1. stream.live # <<>>
    BY LiveFeedAssumption
  <2> QED BY <2>1, FeedFacts
<1>6. Append(stream.live, frame) \in Seq(Sent(head))
  BY <1>1, FeedFacts
<1>7. /\ Len(stream.live) >= LiveLimit => <<Head(stream.live)>> \in FrameSeqs
      /\ Append(stream.live, frame) \in FrameSeqs
  BY <1>5, <1>6, SentSeqs, FeedFacts
<1>8. StreamInv' /\ stream' \in Streams
  <2>1. CASE stream' = stream
    BY <1>3, <2>1 DEF FeedInv, StreamInv, Deliver
  <2>2. ASSUME NEW l \in Seq(Sent(head)), l \in FrameSeqs, NEW cut \in BOOLEAN,
               stream' = [stream EXCEPT !.live = l, !.cut = cut]
        PROVE  StreamInv' /\ stream' \in Streams
    <3>1. /\ stream' \in Streams /\ stream'.live = l
          /\ stream'.prefix = stream.prefix /\ stream'.cursor = stream.cursor
          /\ stream'.checkpoint = stream.checkpoint
          /\ stream'.phase = stream.phase /\ stream'.pages = stream.pages
      BY <1>3, <2>2 DEF Streams
    <3> QED BY <3>1 DEF FeedInv, StreamInv, Deliver
  <2>3. CASE /\ Len(stream.live) >= LiveLimit
             /\ stream' = [stream EXCEPT !.live = <<Head(stream.live)>>,
                                         !.cut = TRUE]
    BY <1>5, <1>7, <2>2, <2>3
  <2>4. CASE stream' = [stream EXCEPT !.live = Append(stream.live, frame)]
    <3>1. stream' = [stream EXCEPT !.live = Append(stream.live, frame),
                                   !.cut = stream.cut]
      BY <1>3, <2>4 DEF Streams
    <3> QED BY <1>6, <1>7, <2>2, <3>1, FeedFacts
  <2> QED BY <1>4, <2>1, <2>3, <2>4
<1>9. troubles' \in 0..MaxTroubles
  BY DEF Deliver, FeedInv, LiveTypeOK
<1> QED BY <1>8, <1>9, StreamSteps DEF Deliver

LEMMA TroubleType ==
  ASSUME FeedInv, Trouble
  PROVE  troubles' \in 0..MaxTroubles
BY LiveFeedAssumption DEF FeedInv, LiveTypeOK, Trouble

LEMMA LoseFeed ==
  ASSUME FeedInv, NEW i \in Changes, Lose(i)
  PROVE  FeedInv'
<1>1. troubles' \in 0..MaxTroubles
  BY TroubleType DEF Lose
<1>2. StreamInv'
  BY DEF Lose, FeedInv, StreamInv
<1> QED BY <1>1, <1>2, StreamSteps DEF Lose, FeedInv, LiveTypeOK

(* A stream of frames that were sent, with its replay done.                *)
LEMMA AnsweredFeed ==
  ASSUME FeedInv, NEW p \in Seq(Sent(head)), NEW l \in Seq(Sent(head)),
         NEW f \in Sent(head), NEW cut \in BOOLEAN,
         stream' = Answered(p, f, l, cut), head' = head
  PROVE  /\ StreamInv'
         /\ stream' \in Streams
<1>1. /\ stream'.phase = "answered" /\ stream'.cursor = 0
      /\ stream'.checkpoint = 0 /\ stream'.pages = 0
      /\ stream'.prefix = Append(p, f) /\ stream'.live = l /\ stream'.cut = cut
  BY DEF Answered, NoStream
<1>2. Append(p, f) \in Seq(Sent(head))
  OBVIOUS
<1>3. Append(p, f) \in FrameSeqs /\ l \in FrameSeqs
  BY <1>2, SentSeqs, FeedFacts
<1>4. StreamInv'
  BY <1>1, <1>2, FeedFacts DEF StreamInv
<1>5. stream' = [NoStream EXCEPT !.phase = "answered", !.prefix = Append(p, f),
                                 !.live = l, !.cut = cut]
  BY DEF Answered
<1> QED BY <1>3, <1>4, <1>5, NoStreamIs DEF Streams

LEMMA SubscribeFeed ==
  ASSUME FeedInv, Subscribe
  PROVE  FeedInv'
<1> DEFINE phase == IF client.checkpoint = 0 THEN "heading" ELSE "replaying"
<1>1. PICK full \in BOOLEAN :
        stream' =
          [NoStream EXCEPT
            !.phase = phase,
            !.cursor = client.checkpoint, !.checkpoint = client.checkpoint,
            !.live = IF full THEN <<ReconnectFrame>> ELSE <<>>, !.cut = full]
  BY DEF Subscribe
<1> DEFINE live == IF full THEN <<ReconnectFrame>> ELSE <<>>
<1>2. live \in Seq(Sent(head)) /\ live \in FrameSeqs
  <2>1. ReconnectFrame \in Sent(head)
    BY SentIs, FeedFacts
  <2>2. live \in Seq(Sent(head))
    BY <2>1
  <2> QED BY <2>2, SentSeqs, FeedFacts
<1>3. phase \in {"replaying", "heading"}
  OBVIOUS
<1>4. stream' = [NoStream EXCEPT
                   !.phase = phase, !.cursor = client.checkpoint,
                   !.checkpoint = client.checkpoint,
                   !.live = live, !.cut = full]
  BY <1>1
<1> HIDE DEF live, phase
<1>5. /\ stream'.cursor = client.checkpoint
      /\ stream'.checkpoint = client.checkpoint
      /\ stream'.pages = 0 /\ stream'.prefix = <<>> /\ stream'.live = live
      /\ stream' \in Streams
  BY <1>2, <1>3, <1>4, NoStreamIs, FeedFacts DEF Streams
<1>6. StreamInv'
  <2>1. <<>> \in Seq(Sent(head)) /\ 0 < MaxReplayPages /\ head' = head
    BY LiveFeedAssumption DEF Subscribe
  <2> QED BY <1>2, <1>5, <2>1, FeedFacts DEF StreamInv
<1> QED
  BY <1>5, <1>6, StreamSteps DEF Subscribe, FeedInv, LiveTypeOK

LEMMA ReplayPageFeed ==
  ASSUME FeedInv, ReplayPage
  PROVE  FeedInv'
<1> DEFINE last == Lesser(head, stream.cursor + PageSize)
           page == [k \in 1..(last - stream.cursor) |->
                      ChangeFrame(stream.cursor + k, FALSE)]
           frames == stream.prefix \o page
           more == stream.pages + 1
           read == [stream EXCEPT !.prefix = frames, !.checkpoint = last,
                                  !.cursor = last, !.pages = more]
<1>1. /\ last \in Marks /\ last <= head /\ stream.cursor <= last
      /\ stream.cursor \in Nat /\ last \in Nat
  BY FeedFacts, LiveFeedAssumption DEF Lesser
<1>2. page \in Seq(Sent(head))
  <2>1. \A k \in 1..(last - stream.cursor) :
          ChangeFrame(stream.cursor + k, FALSE) \in Sent(head)
    <3> SUFFICES ASSUME NEW k \in 1..(last - stream.cursor)
                 PROVE  ChangeFrame(stream.cursor + k, FALSE) \in Sent(head)
      OBVIOUS
    <3>1. stream.cursor + k \in Changes /\ stream.cursor + k <= head
      BY <1>1, FeedFacts
    <3>2. FALSE \in BOOLEAN
      OBVIOUS
    <3> QED BY <3>1, <3>2, SentIs, FeedFacts
  <2> DEFINE n == last - stream.cursor
  <2>2. n \in Nat
    BY <1>1
  <2>3. page \in [1..n -> Sent(head)]
    BY <2>1
  <2> HIDE DEF n, page
  <2> QED BY <2>2, <2>3, SeqDef
<1> HIDE DEF page
<1>3. frames \in Seq(Sent(head))
  BY <1>2, FeedFacts, ConcatProperties
<1>4. frames \in FrameSeqs
  BY <1>3, SentSeqs, FeedFacts
<1>5. stream \in Streams /\ more \in 0..MaxReplayPages
  BY LiveFeedAssumption
     DEF FeedInv, LiveTypeOK, StreamInv, ReplayPage, Streams
<1> HIDE DEF last, frames, more
<1>6. /\ read.cursor = last /\ read.checkpoint = last
      /\ read.prefix = frames /\ read.live = stream.live
      /\ read.pages = more /\ read.phase = stream.phase
      /\ read \in Streams
  BY <1>1, <1>4, <1>5 DEF Streams
<1> HIDE DEF read
<1>7. \/ stream' = [read EXCEPT !.phase = "heading"]
      \/ read.pages < MaxReplayPages /\ stream' = read
      \/ stream' = Answered(read.prefix, ReconnectFrame, <<>>, TRUE)
  BY DEF ReplayPage, last, page, frames, more, read
<1>8. StreamInv' /\ stream' \in Streams
  <2>1. CASE stream' = [read EXCEPT !.phase = "heading"]
    <3>1. stream' \in Streams /\ stream'.cursor = last /\ stream'.phase = "heading"
          /\ stream'.checkpoint = last /\ stream'.prefix = frames
          /\ stream'.live = stream.live
      BY <1>6, <2>1 DEF Streams
    <3> QED BY <1>1, <1>3, <3>1, FeedFacts DEF StreamInv, ReplayPage
  <2>2. CASE read.pages < MaxReplayPages /\ stream' = read
    BY <1>1, <1>3, <1>6, <2>2, FeedFacts DEF StreamInv, ReplayPage
  <2>3. CASE stream' = Answered(read.prefix, ReconnectFrame, <<>>, TRUE)
    <3>1. ReconnectFrame \in Sent(head) /\ <<>> \in Seq(Sent(head))
      BY SentIs, FeedFacts
    <3> QED BY <1>3, <1>6, <2>3, <3>1, AnsweredFeed DEF ReplayPage
  <2> QED BY <1>7, <2>1, <2>2, <2>3
<1> QED
  BY <1>8, StreamSteps DEF ReplayPage, FeedInv, LiveTypeOK

LEMMA ReadHeadFeed ==
  ASSUME FeedInv, ReadHead
  PROVE  FeedInv'
<1> DEFINE mark == IF client.checkpoint = 0 THEN head ELSE stream.checkpoint
<1>1. ReadyFrame(mark) \in Sent(head)
  <2>1. mark \in Marks /\ mark <= head
    BY FeedFacts
  <2> QED BY <2>1, SentIs, FeedFacts
<1>2. StreamInv' /\ stream' \in Streams
  BY <1>1, FeedFacts, AnsweredFeed DEF ReadHead
<1> QED
  BY <1>2, StreamSteps DEF ReadHead, FeedInv, LiveTypeOK

LEMMA ExpireFeed ==
  ASSUME FeedInv, Expire
  PROVE  FeedInv'
<1>1. ReconnectFrame \in Sent(head) /\ <<>> \in Seq(Sent(head))
  BY SentIs, FeedFacts
<1>2. StreamInv' /\ stream' \in Streams
  <2>1. CASE stream' = Answered(<<>>, ReconnectFrame, <<>>, TRUE)
    BY <1>1, <2>1, AnsweredFeed DEF Expire
  <2>2. CASE stream' = [stream EXCEPT !.live = Append(@, ReconnectFrame),
                                      !.cut = TRUE]
    <3>1. Append(stream.live, ReconnectFrame) \in Seq(Sent(head))
      BY <1>1, FeedFacts
    <3>2. Append(stream.live, ReconnectFrame) \in FrameSeqs
      BY <3>1, SentSeqs, FeedFacts
    <3>3. stream \in Streams
      BY DEF FeedInv, LiveTypeOK
    <3> QED BY <2>2, <3>1, <3>2, <3>3 DEF Streams, StreamInv, FeedInv, Expire
  <2> QED BY <2>1, <2>2 DEF Expire
<1>3. troubles' \in 0..MaxTroubles
  BY TroubleType DEF Expire, FeedInv, LiveTypeOK
<1> QED BY <1>2, <1>3, StreamSteps DEF Expire

LEMMA HeadFrame ==
  ASSUME FeedInv, Frames # <<>>
  PROVE  Head(Frames) \in Sent(head)
<1>1. Frames \in Seq(Sent(head))
  BY FeedFacts, ConcatProperties DEF Frames
<1> QED BY <1>1

LEMMA PoppedFeed ==
  ASSUME FeedInv, Frames # <<>>, stream' = Popped, head' = head
  PROVE  StreamInv' /\ stream' \in Streams
<1>1. stream \in Streams
  BY DEF FeedInv, LiveTypeOK
<1>2. CASE stream.prefix # <<>>
  <2>1. Tail(stream.prefix) \in Seq(Sent(head))
    BY <1>2, FeedFacts
  <2>2. Tail(stream.prefix) \in FrameSeqs
    BY <2>1, SentSeqs, FeedFacts
  <2>3. stream' = [stream EXCEPT !.prefix = Tail(@)]
    BY <1>2 DEF Popped
  <2> QED BY <1>1, <2>1, <2>2, <2>3 DEF Streams, StreamInv, FeedInv
<1>3. CASE stream.prefix = <<>>
  <2>1. stream.live # <<>>
    BY <1>3 DEF Frames
  <2>2. Tail(stream.live) \in Seq(Sent(head))
    BY <2>1, FeedFacts
  <2>3. Tail(stream.live) \in FrameSeqs
    BY <2>2, SentSeqs, FeedFacts
  <2>4. stream' = [stream EXCEPT !.live = Tail(@)]
    BY <1>3 DEF Popped
  <2> QED BY <1>1, <2>2, <2>3, <2>4 DEF Streams, StreamInv, FeedInv
<1> QED BY <1>2, <1>3

LEMMA AfterFrameType ==
  ASSUME FeedInv, NEW frame \in Sent(head)
  PROVE  /\ AfterFrame(frame) \in Clients
         /\ AfterFrame(frame).checkpoint <= head
<1>1. /\ frame.type \in {"change", "ready", "reconnect"}
      /\ frame.id \in Marks /\ frame.id <= head
      /\ frame.type = "change" => frame.id \in Changes
  BY DEF Sent, Frame
<1>2. client \in Clients
  BY DEF FeedInv, LiveTypeOK
<1>3. CASE frame.type = "change"
  <2> DEFINE mark == IF client.ready THEN client.checkpoint ELSE frame.id
             seen == client.seen \cup {frame.id}
  <2>1. AfterFrame(frame) = [client EXCEPT !.checkpoint = mark, !.seen = seen]
    BY <1>3 DEF AfterFrame
  <2>2. seen \in SUBSET Changes
    BY <1>1, <1>2, <1>3 DEF Clients
  <2>3. mark \in Marks /\ mark <= head
    BY <1>1, FeedFacts
  <2> HIDE DEF mark, seen
  <2> QED BY <1>2, <2>1, <2>2, <2>3 DEF Clients
<1>4. CASE frame.type = "ready"
  <2>1. AfterFrame(frame) = [client EXCEPT !.checkpoint = frame.id,
                                           !.ready = TRUE, !.failures = 0]
    BY <1>4 DEF AfterFrame
  <2>2. 0 \in 0..PollAfter /\ TRUE \in BOOLEAN
    BY LiveFeedAssumption
  <2>3. AfterFrame(frame) \in Clients
    BY <1>1, <1>2, <2>1, <2>2 DEF Clients
  <2>4. AfterFrame(frame).checkpoint = frame.id
    BY <1>2, <2>1 DEF Clients
  <2> QED BY <1>1, <2>3, <2>4
<1>5. CASE frame.type = "reconnect"
  <2>1. AfterFrame(frame) = [client EXCEPT !.state = "ending"]
    BY <1>5 DEF AfterFrame
  <2> QED BY <1>2, <2>1, FeedFacts DEF Clients
<1> QED BY <1>1, <1>3, <1>4, <1>5

LEMMA ReadFrameFeed ==
  ASSUME FeedInv, ReadFrame
  PROVE  FeedInv'
<1>1. /\ Head(Frames) \in Sent(head) /\ StreamInv' /\ stream' \in Streams
      /\ client' = AfterFrame(Head(Frames))
      /\ inbox' \in {inbox, Append(inbox, Head(Frames))}
      /\ UNCHANGED <<scenario, head, unpublished, hook, slot, known, troubles>>
  BY HeadFrame, PoppedFeed DEF ReadFrame
<1>2. inbox' \in Seq(Sent(head)) /\ inbox' \in FrameSeqs
  <2>1. inbox' \in Seq(Sent(head))
    BY <1>1 DEF FeedInv
  <2> QED BY <2>1, SentSeqs, FeedFacts
<1>3. LiveTypeOK'
  BY <1>1, <1>2, AfterFrameType DEF FeedInv, LiveTypeOK, Tasks
<1>4. client'.checkpoint <= head'
  BY <1>1, AfterFrameType
<1>5. TasksInv' /\ RefreshInv' /\ NothingSkipped'
  BY <1>1 DEF FeedInv, TasksInv, RefreshInv, NothingSkipped
<1> QED BY <1>1, <1>2, <1>3, <1>4, <1>5 DEF FeedInv

(* Whoever drops the stream, with a new or changed client.                 *)
LEMMA NoStreamFeed ==
  ASSUME FeedInv, stream' = NoStream, head' = head
  PROVE  StreamInv' /\ stream' \in Streams
BY NoStreamIs, FeedFacts DEF StreamInv

LEMMA ReconnectingFeed ==
  ASSUME FeedInv, NEW n \in 0..PollAfter, Reconnecting(n)
  PROVE  FeedInv'
<1>1. StreamInv' /\ stream' \in Streams
  BY NoStreamFeed DEF Reconnecting
<1>2. /\ client' \in Clients
      /\ client'.checkpoint = client.checkpoint
      /\ hook' \in [visible : BOOLEAN, awaiting : BOOLEAN, consumer : Marks]
      /\ hook'.consumer = hook.consumer
  BY DEF Reconnecting, FeedInv, LiveTypeOK, Clients
<1>3. LiveTypeOK'
  BY <1>1, <1>2 DEF Reconnecting, FeedInv, LiveTypeOK, Tasks, FrameSeqs
<1>4. TasksInv' /\ RefreshInv' /\ NothingSkipped'
  BY <1>2
     DEF Reconnecting, FeedInv, TasksInv, RefreshInv, NothingSkipped
<1> QED BY <1>1, <1>2, <1>3, <1>4 DEF FeedInv, Reconnecting

LEMMA EndsFeed ==
  ASSUME FeedInv, StreamEnds \/ ConnectionFails
  PROVE  FeedInv'
<1>1. client.failures \in 0..PollAfter /\ PollAfter \in Nat
  BY LiveFeedAssumption DEF FeedInv, LiveTypeOK, Clients
<1>2. Lesser(client.failures + 1, PollAfter) \in 0..PollAfter
  BY <1>1 DEF Lesser
<1> QED BY <1>1, <1>2, ReconnectingFeed DEF StreamEnds, ConnectionFails

(* A step that only changes the slot of the scheduler, and what the hook   *)
(* and its queue keep beside the cursor.                                   *)
LEMMA SlotSteps ==
  ASSUME FeedInv, TasksInv', RefreshInv',
         slot' \in [step : {"idle", "queued", "read"},
               task : Tasks \cup {NoTask}, since : Marks, upto : Marks,
               trailing : Tasks \cup {NoTask}],
         (slot'.step = "idle") = (slot'.task = NoTask),
         hook' \in [visible : BOOLEAN, awaiting : BOOLEAN, consumer : Marks],
         hook'.consumer = hook.consumer,
         inbox' \in Seq(Sent(head)), troubles' \in 0..MaxTroubles,
         UNCHANGED <<scenario, head, unpublished, stream, client, known>>
  PROVE  FeedInv'
<1>1. inbox' \in FrameSeqs
  BY SentSeqs, FeedFacts
<1>2. LiveTypeOK'
  BY <1>1 DEF FeedInv, LiveTypeOK, Tasks
<1>3. StreamInv' /\ NothingSkipped'
  BY DEF FeedInv, StreamInv, NothingSkipped
<1> QED BY <1>2, <1>3 DEF FeedInv

LEMMA SlotFacts ==
  ASSUME FeedInv
  PROVE  /\ slot \in [step : {"idle", "queued", "read"},
               task : Tasks \cup {NoTask}, since : Marks, upto : Marks,
               trailing : Tasks \cup {NoTask}]
         /\ (slot.step = "idle") = (slot.task = NoTask)
         /\ hook \in [visible : BOOLEAN, awaiting : BOOLEAN, consumer : Marks]
         /\ inbox \in Seq(Sent(head)) /\ troubles \in 0..MaxTroubles
         /\ TasksInv /\ RefreshInv
BY DEF FeedInv, LiveTypeOK

LEMMA ScheduledFeed ==
  ASSUME FeedInv, NEW task \in Tasks, task \in Marks => task <= head,
         slot' = Scheduled(slot, task), head' = head,
         hook'.consumer = hook.consumer
  PROVE  /\ TasksInv' /\ RefreshInv'
         /\ slot' \in [step : {"idle", "queued", "read"},
               task : Tasks \cup {NoTask}, since : Marks, upto : Marks,
               trailing : Tasks \cup {NoTask}]
         /\ (slot'.step = "idle") = (slot'.task = NoTask)
<1>1. task # NoTask
  BY MarksAre, LiveFeedAssumption DEF Tasks
<1>2. CASE slot.step = "idle"
  <2>1. slot' = [slot EXCEPT !.step = "queued", !.task = task]
    BY <1>2 DEF Scheduled
  <2> QED BY <1>1, <2>1, SlotFacts DEF TasksInv, RefreshInv
<1>3. CASE slot.step # "idle"
  <2>1. slot' = [slot EXCEPT !.trailing = task]
    BY <1>3 DEF Scheduled
  <2> QED BY <2>1, SlotFacts DEF TasksInv, RefreshInv
<1> QED BY <1>2, <1>3

LEMMA ReleasedFeed ==
  ASSUME FeedInv, slot' = Released, head' = head
  PROVE  /\ TasksInv' /\ RefreshInv'
         /\ slot' \in [step : {"idle", "queued", "read"},
               task : Tasks \cup {NoTask}, since : Marks, upto : Marks,
               trailing : Tasks \cup {NoTask}]
         /\ (slot'.step = "idle") = (slot'.task = NoTask)
<1>1. CASE slot.trailing = NoTask
  BY <1>1, MarksAre DEF Released, Idle, TasksInv, RefreshInv, Marks
<1>2. CASE slot.trailing # NoTask
  <2>1. slot' = [Idle EXCEPT !.step = "queued", !.task = slot.trailing]
    BY <1>2 DEF Released
  <2> QED BY <1>2, <2>1, MarksAre, SlotFacts DEF Idle, TasksInv, RefreshInv, Marks
<1> QED BY <1>1, <1>2

LEMMA TakeEventFeed ==
  ASSUME FeedInv, TakeEvent
  PROVE  FeedInv'
<1> DEFINE event == Head(inbox)
<1>1. event \in Sent(head) /\ Tail(inbox) \in Seq(Sent(head))
  BY SlotFacts DEF TakeEvent
<1>2. /\ hook' = [hook EXCEPT
                    !.awaiting = CASE event.type = "ready" -> FALSE
                                   [] event.type = "reconnect" -> TRUE
                                   [] event.type = "change" -> @]
      /\ inbox' = Tail(inbox)
      /\ UNCHANGED <<scenario, head, unpublished, stream, client, known,
                     troubles>>
      /\ \/ slot' = slot
         \/ slot' = Scheduled(slot, IF event.type = "ready" THEN event.id
                                    ELSE NoMark)
  BY DEF TakeEvent
<1> HIDE DEF event
<1>3. /\ event.type \in {"change", "ready", "reconnect"}
      /\ event.id \in Marks /\ event.id <= head
  BY <1>1 DEF Sent, Frame
<1>4. /\ hook' \in [visible : BOOLEAN, awaiting : BOOLEAN, consumer : Marks]
      /\ hook'.consumer = hook.consumer
  <2> DEFINE a == CASE event.type = "ready" -> FALSE
                    [] event.type = "reconnect" -> TRUE
                    [] event.type = "change" -> hook.awaiting
  <2>1. hook.awaiting \in BOOLEAN
    BY SlotFacts
  <2>2. a \in BOOLEAN
    BY <1>3, <2>1
  <2>3. hook' = [hook EXCEPT !.awaiting = a]
    BY <1>2
  <2> HIDE DEF a
  <2> QED BY <2>2, <2>3, SlotFacts
<1>5. CASE slot' = slot
  <2>1. TasksInv' /\ RefreshInv'
    BY <1>2, <1>4, <1>5, SlotFacts DEF TasksInv, RefreshInv
  <2> QED BY <1>1, <1>2, <1>4, <1>5, <2>1, SlotFacts, SlotSteps
<1>6. CASE slot' = Scheduled(slot, IF event.type = "ready" THEN event.id
                                   ELSE NoMark)
  <2> DEFINE task == IF event.type = "ready" THEN event.id ELSE NoMark
  <2>1. task \in Tasks /\ (task \in Marks => task <= head)
    BY <1>3, MarksAre DEF Tasks
  <2>2. slot' = Scheduled(slot, task)
    BY <1>6
  <2> HIDE DEF task
  <2> QED BY <1>1, <1>2, <1>4, <2>1, <2>2, ScheduledFeed, SlotFacts, SlotSteps
<1> QED BY <1>2, <1>5, <1>6

LEMMA FocusFeed ==
  ASSUME FeedInv, Focus
  PROVE  FeedInv'
<1>1. /\ slot' = Scheduled(slot, NoMark)
      /\ UNCHANGED <<scenario, head, unpublished, stream, client, inbox, hook,
                     known, troubles>>
  BY DEF Focus
<1>2. NoMark \in Tasks /\ NoMark \notin Marks
  BY MarksAre DEF Tasks
<1> QED BY <1>1, <1>2, ScheduledFeed, SlotFacts, SlotSteps

LEMMA HideFeed ==
  ASSUME FeedInv, Hide
  PROVE  FeedInv'
<1>1. StreamInv' /\ stream' \in Streams
  BY NoStreamFeed DEF Hide
<1>2. client' \in Clients /\ client'.checkpoint = client.checkpoint
  BY DEF Hide, FeedInv, LiveTypeOK, Clients
<1>3. /\ hook' \in [visible : BOOLEAN, awaiting : BOOLEAN, consumer : Marks]
      /\ hook'.consumer = hook.consumer
  BY SlotFacts DEF Hide
<1>4. troubles' \in 0..MaxTroubles
  BY TroubleType DEF Hide
<1>5. LiveTypeOK'
  BY <1>1, <1>2, <1>3, <1>4
     DEF Hide, Idle, FeedInv, LiveTypeOK, Tasks, FrameSeqs, Marks
<1>6. TasksInv' /\ RefreshInv'
  BY MarksAre DEF Hide, Idle, TasksInv, RefreshInv
<1>7. NothingSkipped'
  BY <1>3 DEF Hide, FeedInv, NothingSkipped
<1> QED BY <1>1, <1>2, <1>3, <1>5, <1>6, <1>7 DEF FeedInv, Hide

LEMMA ShowFeed ==
  ASSUME FeedInv, Show
  PROVE  FeedInv'
<1>1. /\ hook' \in [visible : BOOLEAN, awaiting : BOOLEAN, consumer : Marks]
      /\ hook'.consumer = hook.consumer
  BY SlotFacts DEF Show
<1>2. client' \in Clients /\ client'.checkpoint = hook.consumer
  BY FeedFacts, LiveFeedAssumption DEF Show, NewClient, Clients
<1>3. NoMark \in Tasks /\ NoMark \notin Marks
  BY MarksAre DEF Tasks
<1>4. /\ TasksInv' /\ RefreshInv'
      /\ slot' \in [step : {"idle", "queued", "read"},
               task : Tasks \cup {NoTask}, since : Marks, upto : Marks,
               trailing : Tasks \cup {NoTask}]
      /\ (slot'.step = "idle") = (slot'.task = NoTask)
  BY <1>1, <1>3, ScheduledFeed DEF Show
<1>5. LiveTypeOK'
  BY <1>1, <1>2, <1>4 DEF Show, FeedInv, LiveTypeOK, Tasks
<1>6. StreamInv' /\ NothingSkipped'
  BY <1>1 DEF Show, FeedInv, StreamInv, NothingSkipped
<1> QED BY <1>1, <1>2, <1>4, <1>5, <1>6, FeedFacts DEF FeedInv, Show

LEMMA ReadFeedFeed ==
  ASSUME FeedInv, ReadFeed
  PROVE  FeedInv'
<1>1. /\ slot' = [slot EXCEPT !.step = "read", !.since = hook.consumer,
                              !.upto = head]
      /\ slot.step = "queued"
      /\ UNCHANGED <<scenario, head, unpublished, stream, client, inbox, hook,
                     known, troubles>>
  BY DEF ReadFeed
<1>2. /\ slot' \in [step : {"idle", "queued", "read"},
               task : Tasks \cup {NoTask}, since : Marks, upto : Marks,
               trailing : Tasks \cup {NoTask}]
      /\ (slot'.step = "idle") = (slot'.task = NoTask)
  BY <1>1, SlotFacts, FeedFacts
<1>3. TasksInv' /\ RefreshInv'
  BY <1>1, SlotFacts, FeedFacts DEF TasksInv, RefreshInv
<1> QED BY <1>1, <1>2, <1>3, SlotFacts, SlotSteps

LEMMA RefreshFailsFeed ==
  ASSUME FeedInv, RefreshFails
  PROVE  FeedInv'
<1>1. /\ slot' = Released
      /\ UNCHANGED <<scenario, head, unpublished, stream, client, inbox, hook,
                     known>>
      /\ troubles' \in 0..MaxTroubles
  BY TroubleType DEF RefreshFails
<1> QED BY <1>1, ReleasedFeed, SlotFacts, SlotSteps

LEMMA AdoptFeed ==
  ASSUME FeedInv, Adopt
  PROVE  FeedInv'
<1>1. /\ slot.step = "read" /\ known' = known \cup (slot.since + 1)..slot.upto
      /\ hook' = IF slot.task = NoMark THEN hook
                 ELSE [hook EXCEPT !.consumer = slot.task]
      /\ slot' = Released
      /\ UNCHANGED <<scenario, head, unpublished, stream, client, inbox,
                     troubles>>
  BY DEF Adopt
<1>2. /\ slot.since = hook.consumer /\ slot.upto <= head
      /\ slot.task \in Marks => slot.task <= slot.upto
      /\ slot.upto \in Marks /\ slot.since \in Marks
      /\ slot.task \in Tasks
  BY <1>1, SlotFacts DEF RefreshInv
<1>3. known' \subseteq Changes
  BY <1>1, <1>2, FeedFacts DEF FeedInv, LiveTypeOK
<1>4. /\ hook' \in [visible : BOOLEAN, awaiting : BOOLEAN, consumer : Marks]
      /\ \/ hook'.consumer = hook.consumer
         \/ hook'.consumer \in Marks /\ hook'.consumer <= slot.upto
  BY <1>1, <1>2, SlotFacts DEF Tasks
<1>5. NothingSkipped'
  <2> SUFFICES ASSUME NEW i \in Changes, i <= hook'.consumer
               PROVE  i \in known'
    BY DEF NothingSkipped
  <2>1. CASE i <= hook.consumer
    BY <1>1, <2>1 DEF FeedInv, NothingSkipped
  <2>2. CASE ~(i <= hook.consumer)
    BY <1>1, <1>2, <1>4, <2>2, FeedFacts
  <2> QED BY <2>1, <2>2
<1>6. TasksInv' /\ RefreshInv'
      /\ slot' \in [step : {"idle", "queued", "read"},
               task : Tasks \cup {NoTask}, since : Marks, upto : Marks,
               trailing : Tasks \cup {NoTask}]
      /\ (slot'.step = "idle") = (slot'.task = NoTask)
  BY <1>1, ReleasedFeed
<1>7. LiveTypeOK'
  BY <1>1, <1>3, <1>4, <1>6 DEF FeedInv, LiveTypeOK, Tasks
<1>8. hook'.consumer <= head /\ StreamInv'
  BY <1>1, <1>2, <1>4, FeedFacts DEF FeedInv, StreamInv
<1> QED BY <1>1, <1>5, <1>6, <1>7, <1>8 DEF FeedInv

LEMMA PollFeed ==
  ASSUME FeedInv, Poll
  PROVE  FeedInv'
<1>1. /\ known' = known \cup 1..head
      /\ UNCHANGED <<scenario, head, unpublished, stream, client, inbox, hook,
                     slot, troubles>>
  BY DEF Poll
<1>2. LiveTypeOK'
  <2>1. 1..head \subseteq 1..MaxChanges
    BY FeedFacts
  <2>2. known \subseteq Changes
    BY DEF FeedInv, LiveTypeOK
  <2>3. known' \subseteq Changes
    BY <1>1, <2>1, <2>2, FeedFacts
  <2> QED BY <1>1, <2>3 DEF FeedInv, LiveTypeOK
<1>3. StreamInv' /\ TasksInv' /\ RefreshInv' /\ NothingSkipped'
  BY <1>1 DEF FeedInv, StreamInv, TasksInv, RefreshInv, NothingSkipped
<1> QED BY <1>1, <1>2, <1>3 DEF FeedInv

-----------------------------------------------------------------------------
LEMMA FeedInductive == FeedInv /\ [Next]_vars => FeedInv'
<1> SUFFICES ASSUME FeedInv, [Next]_vars PROVE FeedInv'
  OBVIOUS
<1>1. CASE Commit
  BY <1>1, CommitFeed
<1>2. CASE Publication
  BY <1>2, DeliverFeed, LoseFeed DEF Publication
<1>3. CASE RouteStep
  BY <1>3, SubscribeFeed, ReplayPageFeed, ReadHeadFeed DEF RouteStep
<1>4. CASE Expire
  BY <1>4, ExpireFeed
<1>5. CASE ClientStep
  BY <1>5, ReadFrameFeed, EndsFeed DEF ClientStep
<1>6. CASE TakeEvent
  BY <1>6, TakeEventFeed
<1>7. CASE Focus \/ Hide \/ Show
  BY <1>7, FocusFeed, HideFeed, ShowFeed
<1>8. CASE RefreshStep
  BY <1>8, ReadFeedFeed, AdoptFeed, RefreshFailsFeed DEF RefreshStep
<1>9. CASE Poll
  BY <1>9, PollFeed
<1>10. CASE UNCHANGED vars
  <2>1. LiveTypeOK'
    BY <1>10 DEF vars, FeedInv, LiveTypeOK, Tasks
  <2>2. StreamInv' /\ TasksInv' /\ RefreshInv' /\ NothingSkipped'
    BY <1>10
       DEF vars, FeedInv, StreamInv, TasksInv, RefreshInv, NothingSkipped
  <2> QED BY <1>10, <2>1, <2>2 DEF vars, FeedInv
<1> QED
  BY <1>1, <1>2, <1>3, <1>4, <1>5, <1>6, <1>7, <1>8, <1>9, <1>10 DEF Next

THEOREM FeedHolds == Spec => []FeedInv
BY InitFeed, FeedInductive, PTL DEF Spec

(* Types of the feed, for every size of its pages, queues and limits.      *)
THEOREM LiveTypes == Spec => []LiveTypeOK
<1>1. FeedInv => LiveTypeOK
  BY DEF FeedInv
<1> QED BY <1>1, FeedHolds, PTL

(* The hook's cursor never passes a change that the page has not adopted,  *)
(* however many publications are lost and refreshes fail.                  *)
THEOREM CursorConfirms == Spec => []NothingSkipped
<1>1. FeedInv => NothingSkipped
  BY DEF FeedInv
<1> QED BY <1>1, FeedHolds, PTL

-----------------------------------------------------------------------------
(* A page at rest.  Nothing but the troubles that a scenario counts takes  *)
(* a change off its way to the page.                                       *)

Untroubled == troubles = scenario.troubles

(* A change that will be, or is, among the frames of the subscription.     *)
OnTheWay(i) ==
  \/ i \in unpublished
  \/ \E k \in DOMAIN stream.live : stream.live[k].id = i

AllChanges(frames) == \A k \in DOMAIN frames : frames[k].type = "change"

(* What the subscription does not bring is in the replay, or at or before  *)
(* the checkpoint that "ready" announces.                                  *)
Replaying == AllChanges(stream.prefix)

Heading ==
  /\ AllChanges(stream.prefix)
  /\ client.checkpoint # 0 =>
       \A i \in 1..head : i <= stream.checkpoint \/ OnTheWay(i)

Announcing ==
  LET n == Len(stream.prefix) IN
  /\ n > 0 /\ stream.prefix[n].type = "ready"
  /\ \A k \in 1..(n - 1) : stream.prefix[k].type = "change"
  /\ \A i \in 1..head : i <= stream.prefix[n].id \/ OnTheWay(i)

Told ==
  /\ stream.prefix = <<>>
  /\ \A i \in 1..head :
       i <= client.checkpoint \/ i \in client.seen \/ OnTheWay(i)

(* Until it takes the events behind a "ready", the hook holds changes back,*)
(* and no later event makes it do so as long as the connection lasts.      *)
Undisturbed(events) == \A k \in DOMAIN events : events[k].type # "reconnect"

Listening ==
  \/ ~hook.awaiting /\ Undisturbed(inbox)
  \/ \E k \in DOMAIN inbox :
       /\ inbox[k].type = "ready"
       /\ \A l \in DOMAIN inbox : l > k => inbox[l].type # "reconnect"

(* A refresh that is still to read the feed, or that has read change i.    *)
Refreshing(i) ==
  \/ slot.step = "queued"
  \/ slot.step = "read" /\ (i <= slot.upto \/ slot.trailing # NoTask)

(* An event that makes a hook which listens refresh.                       *)
Rouses(event) ==
  event.type = "ready" \/ (event.type = "change" /\ ~event.own)

Showing ==
  \A i \in 1..head :
    \/ i \in known \/ Refreshing(i)
    \/ \E k \in DOMAIN inbox : Rouses(inbox[k])
    \/ i \notin client.seen /\ OnTheWay(i)

OpenInv ==
  /\ AllChanges(stream.live)
  /\ \A k \in DOMAIN stream.live :
       stream.live[k].own => stream.live[k].id \in Own
  /\ stream.phase = "replaying" => Replaying
  /\ stream.phase = "heading" => Heading
  /\ stream.phase = "answered" /\ ~client.ready => Announcing
  /\ client.ready => Told
  /\ client.ready => Listening /\ Showing

CalmInv ==
  /\ hook.visible
  /\ client.ready => stream.phase = "answered"
  /\ ~stream.cut => OpenInv

KnownInv ==
  /\ known \subseteq 1..head /\ client.seen \subseteq 1..head
  /\ \A i \in Own : i <= head => i \in known

RestInv ==
  /\ troubles <= scenario.troubles
  /\ KnownInv
  /\ Untroubled => CalmInv

LEMMA RestFacts ==
  ASSUME FeedInv
  PROVE  /\ head \in Nat /\ Changes = 1..MaxChanges
         /\ stream.prefix \in Seq(Frame) /\ stream.live \in Seq(Frame)
         /\ inbox \in Seq(Frame) /\ client.checkpoint \in Nat
         /\ client.ready \in BOOLEAN /\ client.seen \subseteq Changes
         /\ stream.checkpoint \in Nat /\ stream.cut \in BOOLEAN
         /\ slot.upto \in Nat /\ slot.step \in {"idle", "queued", "read"}
         /\ troubles \in Nat /\ scenario.troubles \in Nat
         /\ \A f \in Frame : f.id \in Nat
<1>1. /\ stream \in Streams /\ client \in Clients /\ inbox \in Seq(Frame)
      /\ scenario \in Scenarios /\ troubles \in 0..MaxTroubles
      /\ MaxTroubles \in Nat
  BY LiveFeedAssumption DEF FeedInv, LiveTypeOK, FrameSeqs
<1>2. stream.prefix \in Seq(Frame) /\ stream.live \in Seq(Frame)
      /\ client.ready \in BOOLEAN /\ client.seen \subseteq Changes
  BY <1>1 DEF Streams, Clients, FrameSeqs
<1>3. slot.upto \in Marks /\ slot.step \in {"idle", "queued", "read"}
  BY DEF FeedInv, LiveTypeOK
<1>4. scenario.troubles \in Nat /\ troubles \in Nat
  BY <1>1, ScenarioIs
<1>5. \A f \in Frame : f.id \in Marks
  BY DEF Frame
<1> QED BY <1>1, <1>2, <1>3, <1>4, <1>5, FeedFacts

(* A trouble leaves nothing to show.                                       *)
LEMMA TroubledRests ==
  ASSUME FeedInv, RestInv, Trouble, scenario' = scenario, KnownInv'
  PROVE  RestInv'
BY RestFacts DEF RestInv, Trouble, Untroubled

LEMMA CalmRests ==
  ASSUME FeedInv, RestInv, UNCHANGED <<scenario, troubles>>, KnownInv',
         CalmInv => CalmInv'
  PROVE  RestInv'
BY DEF RestInv, Untroubled

LEMMA KnownStays ==
  ASSUME KnownInv, UNCHANGED <<head, known>>, client'.seen = client.seen
  PROVE  KnownInv'
BY DEF KnownInv

LEMMA InitRest == Init => RestInv
<1> SUFFICES ASSUME Init PROVE RestInv
  OBVIOUS
<1>1. /\ scenario \in Scenarios /\ head = scenario.start /\ unpublished = {}
      /\ stream = NoStream /\ client = NewClient(head) /\ inbox = <<>>
      /\ hook = [visible |-> TRUE, awaiting |-> TRUE, consumer |-> head]
      /\ known = 1..head /\ troubles = scenario.troubles
  BY DEF Init
<1>2. head \in Nat /\ troubles \in Nat
  BY <1>1, ScenarioIs
<1>3. KnownInv
  BY <1>1, <1>2, LiveFeedAssumption DEF KnownInv, Changes, NewClient
<1>4. ~client.ready /\ stream.phase = "none" /\ stream.live = <<>>
  BY <1>1, NoStreamIs DEF NewClient
<1>5. CalmInv
  BY <1>1, <1>4 DEF CalmInv, OpenInv, AllChanges
<1> QED BY <1>1, <1>2, <1>3, <1>5 DEF RestInv

(* What the object brings and what the hook does concern the same change   *)
(* in different places.                                                    *)
StreamPart ==
  /\ AllChanges(stream.live)
  /\ \A k \in DOMAIN stream.live :
       stream.live[k].own => stream.live[k].id \in Own
  /\ stream.phase = "replaying" => Replaying
  /\ stream.phase = "heading" => Heading
  /\ stream.phase = "answered" /\ ~client.ready => Announcing
  /\ client.ready => Told

LEMMA OpenParts ==
  OpenInv <=> StreamPart /\ (client.ready => Listening /\ Showing)
BY DEF OpenInv, StreamPart

LEMMA OpenPartsNext ==
  ASSUME StreamPart', client'.ready => Listening' /\ Showing'
  PROVE  OpenInv'
BY DEF OpenInv, StreamPart

(* No change is taken off the way.                                         *)
LEMMA StreamPartStays ==
  ASSUME FeedInv, StreamPart, head' = head,
         stream'.prefix = stream.prefix, stream'.phase = stream.phase,
         stream'.checkpoint = stream.checkpoint,
         client'.checkpoint = client.checkpoint, client'.ready = client.ready,
         client'.seen = client.seen,
         AllChanges(stream'.live),
         \A k \in DOMAIN stream'.live :
           stream'.live[k].own => stream'.live[k].id \in Own,
         \A i \in 1..head : OnTheWay(i) => OnTheWay(i)'
  PROVE  StreamPart'
<1>1. Heading => Heading'
  BY DEF Heading, AllChanges
<1>2. Announcing => Announcing'
  BY DEF Announcing
<1>3. Told => Told'
  BY DEF Told
<1>4. Replaying => Replaying'
  BY DEF Replaying, AllChanges
<1> QED BY <1>1, <1>2, <1>3, <1>4 DEF StreamPart, AllChanges

-----------------------------------------------------------------------------
(* The commit and its publication.                                         *)

LEMMA CommitRest ==
  ASSUME FeedInv, RestInv, Commit
  PROVE  RestInv'
<1>0. PICK n \in Nat : n = head + 1
  BY RestFacts
<1>1. /\ head' = n /\ unpublished' = unpublished \cup {n}
      /\ known' = IF n \in Own THEN known \cup {n} ELSE known
      /\ UNCHANGED <<scenario, stream, client, inbox, hook, slot, troubles>>
  BY <1>0 DEF Commit
<1>2. head \in Nat /\ \A i \in 1..head' : i \in 1..head \/ i = n
  BY <1>0, <1>1, RestFacts
<1>3. KnownInv'
  <2>1. Own \subseteq Nat
    BY LiveFeedAssumption DEF Changes
  <2> QED BY <1>0, <1>1, <1>2, <2>1, RestFacts DEF RestInv, KnownInv
<1>4. \A i \in 1..head : OnTheWay(i) => OnTheWay(i)'
  BY <1>1 DEF OnTheWay
<1>5. OnTheWay(n)'
  BY <1>1 DEF OnTheWay
<1>6. ASSUME CalmInv, ~stream.cut PROVE OpenInv'
  <2>1. OpenInv
    BY <1>6 DEF CalmInv
  <2>2. Heading => Heading'
    BY <1>1, <1>2, <1>4, <1>5 DEF Heading, AllChanges
  <2>3. Announcing => Announcing'
    BY <1>1, <1>2, <1>4, <1>5 DEF Announcing
  <2>4. Told => Told'
    BY <1>1, <1>2, <1>4, <1>5 DEF Told
  <2>5. ASSUME Showing, client.ready PROVE Showing'
    <3>1. \A i \in 1..head : Refreshing(i) => Refreshing(i)'
      BY <1>1 DEF Refreshing
    <3>2. n \notin client.seen
      BY <1>0, RestFacts DEF RestInv, KnownInv
    <3> QED BY <1>1, <1>2, <1>4, <1>5, <2>5, <3>1, <3>2 DEF Showing
  <2>6. Listening => Listening'
    BY <1>1 DEF Listening, Undisturbed
  <2> QED BY <1>1, <2>1, <2>2, <2>3, <2>4, <2>5, <2>6
          DEF OpenInv, Replaying, AllChanges
<1>7. CalmInv => CalmInv'
  BY <1>1, <1>6 DEF CalmInv
<1> QED BY <1>1, <1>3, <1>7, CalmRests

LEMMA AppendFacts ==
  ASSUME NEW s \in Seq(Frame), NEW f \in Frame
  PROVE  /\ Append(s, f)[Len(s) + 1] = f
         /\ Len(s) + 1 \in DOMAIN Append(s, f)
         /\ \A k \in DOMAIN s : k \in DOMAIN Append(s, f) /\ Append(s, f)[k] = s[k]
         /\ \A k \in DOMAIN Append(s, f) : k \in DOMAIN s \/ k = Len(s) + 1
OBVIOUS

LEMMA TailFacts ==
  ASSUME NEW s \in Seq(Frame), s # <<>>
  PROVE  /\ Tail(s) \in Seq(Frame) /\ Len(Tail(s)) = Len(s) - 1
         /\ Len(s) \in Nat \ {0} /\ Head(s) = s[1] /\ s[1] \in Frame
         /\ DOMAIN s = 1..Len(s) /\ DOMAIN Tail(s) = 1..(Len(s) - 1)
         /\ \A k \in 1..(Len(s) - 1) : Tail(s)[k] = s[k + 1]
OBVIOUS

LEMMA DeliverRest ==
  ASSUME FeedInv, RestInv, NEW i \in Changes, Deliver(i)
  PROVE  RestInv'
<1> DEFINE frame == ChangeFrame(i, i \in Own)
           l == stream.live
<1>1. /\ i \in unpublished /\ unpublished' = unpublished \ {i}
      /\ stream' = Offered(stream, frame)
      /\ UNCHANGED <<scenario, head, client, inbox, hook, slot, known,
                     troubles>>
  BY DEF Deliver
<1>2. KnownInv'
  BY <1>1, KnownStays DEF RestInv
<1>3. frame.type = "change" /\ frame.id = i /\ (frame.own => i \in Own)
      /\ frame \in Frame
  <2>1. i <= head /\ (i \in Own) \in BOOLEAN
    BY <1>1, FeedFacts DEF FeedInv
  <2>2. frame \in Frame
    BY <2>1, FeedFacts, SentIs
  <2>3. frame.type = "change" /\ frame.id = i /\ frame.own = (i \in Own)
    BY DEF ChangeFrame
  <2> HIDE DEF frame
  <2> QED BY <2>2, <2>3
<1> HIDE DEF frame
<1>4. stream'.phase = stream.phase
  BY <1>1, RestFacts DEF Offered, FeedInv, LiveTypeOK, Streams
<1>5. CASE stream'.cut = TRUE
  <2>1. CalmInv => CalmInv'
    BY <1>1, <1>4, <1>5 DEF CalmInv
  <2> QED BY <1>1, <1>2, <2>1, CalmRests
<1>6. CASE stream.phase = "none" /\ stream' = stream
  <2>1. CalmInv => CalmInv'
    BY <1>1, <1>6 DEF CalmInv, OpenInv, AllChanges
  <2> QED BY <1>1, <1>2, <2>1, CalmRests
<1>7. CASE stream' = [stream EXCEPT !.live = Append(l, frame)]
  <2>1. /\ stream'.live = Append(l, frame) /\ stream'.cut = stream.cut
        /\ stream'.prefix = stream.prefix
        /\ stream'.checkpoint = stream.checkpoint
    BY <1>7 DEF FeedInv, LiveTypeOK, Streams
  <2>2. l \in Seq(Frame)
    BY RestFacts
  <2>3. /\ \A k \in DOMAIN l :
             k \in DOMAIN stream'.live /\ stream'.live[k] = l[k]
        /\ \A k \in DOMAIN stream'.live :
             \/ k \in DOMAIN l /\ stream'.live[k] = l[k]
             \/ stream'.live[k] = frame
        /\ \E k \in DOMAIN stream'.live : stream'.live[k] = frame
    <3> HIDE DEF l
    <3> QED BY <1>3, <2>1, <2>2, AppendFacts
  <2>4. ASSUME CalmInv, ~stream.cut PROVE OpenInv'
    <3>1. OpenInv
      BY <2>4 DEF CalmInv
    <3>2. AllChanges(stream'.live)
            /\ \A k \in DOMAIN stream'.live :
                 stream'.live[k].own => stream'.live[k].id \in Own
      BY <1>3, <2>3, <3>1 DEF OpenInv, AllChanges
    <3>3. \A j \in 1..head : OnTheWay(j) => OnTheWay(j)'
      BY <1>1, <1>3, <2>3 DEF OnTheWay
    <3>4. StreamPart'
      BY <1>1, <1>4, <2>1, <3>1, <3>2, <3>3, OpenParts, StreamPartStays
    <3>5. Showing => Showing'
      <4>1. \A j \in 1..head : Refreshing(j) => Refreshing(j)'
        BY <1>1 DEF Refreshing
      <4> QED BY <1>1, <3>3, <4>1 DEF Showing
    <3>6. Listening => Listening'
      BY <1>1 DEF Listening, Undisturbed
    <3> QED BY <1>1, <3>1, <3>4, <3>5, <3>6, OpenParts, OpenPartsNext
  <2>5. CalmInv => CalmInv'
    BY <1>1, <1>4, <2>1, <2>4 DEF CalmInv
  <2> QED BY <1>1, <1>2, <2>5, CalmRests
<1>8. CASE stream.phase # "none" /\ stream.cut /\ stream' = stream
  <2>1. CalmInv => CalmInv'
    BY <1>1, <1>8 DEF CalmInv
  <2> QED BY <1>1, <1>2, <2>1, CalmRests
<1>9. stream \in Streams
  BY DEF FeedInv, LiveTypeOK
<1>10. CASE stream' = [stream EXCEPT !.live = <<Head(stream.live)>>, !.cut = TRUE]
  BY <1>5, <1>9, <1>10 DEF Streams
<1> QED BY <1>1, <1>6, <1>7, <1>8, <1>10 DEF Offered

LEMMA LoseRest ==
  ASSUME FeedInv, RestInv, NEW i \in Changes, Lose(i)
  PROVE  RestInv'
BY KnownStays, TroubledRests DEF Lose, RestInv

-----------------------------------------------------------------------------
(* The route.                                                              *)

(* A response that is not answered yet has no client that is ready.        *)
LEMMA RouteRests ==
  ASSUME FeedInv, RestInv,
         UNCHANGED <<scenario, head, unpublished, client, inbox, hook, slot,
                     known, troubles>>,
         stream.phase # "answered",
         CalmInv /\ ~client.ready /\ ~stream'.cut => StreamPart'
  PROVE  RestInv'
<1>1. KnownInv'
  BY KnownStays DEF RestInv
<1>2. CalmInv => CalmInv'
  BY OpenPartsNext DEF CalmInv
<1> QED BY <1>1, <1>2, CalmRests

LEMMA SubscribeRest ==
  ASSUME FeedInv, RestInv, Subscribe
  PROVE  RestInv'
<1> DEFINE phase == IF client.checkpoint = 0 THEN "heading" ELSE "replaying"
<1>1. PICK full \in BOOLEAN :
        stream' =
          [NoStream EXCEPT
            !.phase = phase,
            !.cursor = client.checkpoint, !.checkpoint = client.checkpoint,
            !.live = IF full THEN <<ReconnectFrame>> ELSE <<>>, !.cut = full]
  BY DEF Subscribe
<1>2. /\ stream'.phase = phase /\ stream'.prefix = <<>> /\ stream'.cut = full
      /\ ~full => stream'.live = <<>>
  BY <1>1 DEF NoStream
<1>3. ~client.ready /\ ~stream'.cut => StreamPart'
  BY <1>2 DEF StreamPart, AllChanges, Replaying, Heading, Subscribe
<1> QED BY <1>3, RouteRests DEF Subscribe

LEMMA ReplayPageRest ==
  ASSUME FeedInv, RestInv, ReplayPage
  PROVE  RestInv'
<1> DEFINE last == Lesser(head, stream.cursor + PageSize)
           page == [k \in 1..(last - stream.cursor) |->
                      ChangeFrame(stream.cursor + k, FALSE)]
           frames == stream.prefix \o page
           more == stream.pages + 1
           read == [stream EXCEPT !.prefix = frames, !.checkpoint = last,
                                  !.cursor = last, !.pages = more]
<1>1. /\ last \in Nat /\ stream.cursor \in Nat /\ stream.cursor <= last
      /\ stream \in Streams
  <2>1. stream \in Streams
    BY DEF FeedInv, LiveTypeOK
  <2> QED BY <2>1, FeedFacts, LiveFeedAssumption DEF Lesser
<1>2. \A k \in DOMAIN page : page[k].type = "change"
  BY DEF ChangeFrame
<1>3. page \in Seq(Frame)
  <2> DEFINE n == last - stream.cursor
  <2>1. n \in Nat
    BY <1>1
  <2>2. \A k \in 1..n : ChangeFrame(stream.cursor + k, FALSE) \in Frame
    <3> SUFFICES ASSUME NEW k \in 1..n
                 PROVE  ChangeFrame(stream.cursor + k, FALSE) \in Frame
      OBVIOUS
    <3>1. stream.cursor + k \in Marks
      BY <1>1, FeedFacts DEF Lesser
    <3> QED BY <3>1 DEF ChangeFrame, Frame
  <2>3. page \in [1..n -> Frame]
    BY <2>2
  <2> HIDE DEF n, page
  <2> QED BY <2>1, <2>3, SeqDef
<1>4. AllChanges(stream.prefix) => AllChanges(frames)
  <2> DEFINE p == stream.prefix
  <2>1. p \in Seq(Frame)
    BY RestFacts
  <2> HIDE DEF p, page
  <2>2. \A k \in DOMAIN (p \o page) :
          \/ k \in DOMAIN p /\ (p \o page)[k] = p[k]
          \/ k - Len(p) \in DOMAIN page /\ (p \o page)[k] = page[k - Len(p)]
    BY <1>3, <2>1, ConcatProperties
  <2> QED BY <1>2, <2>2 DEF AllChanges, p
<1> HIDE DEF page, frames, more
<1>5. /\ read.checkpoint = last /\ read.prefix = frames
      /\ read.live = stream.live /\ read.phase = stream.phase
      /\ read.cut = stream.cut
      /\ [read EXCEPT !.phase = "heading"].checkpoint = last
      /\ [read EXCEPT !.phase = "heading"].prefix = frames
      /\ [read EXCEPT !.phase = "heading"].live = stream.live
      /\ [read EXCEPT !.phase = "heading"].phase = "heading"
      /\ [read EXCEPT !.phase = "heading"].cut = stream.cut
  BY <1>1 DEF Streams
<1> HIDE DEF last, read
<1>6. /\ stream.phase = "replaying"
      /\ \/ head = last /\ stream' = [read EXCEPT !.phase = "heading"]
         \/ stream' = read
         \/ stream' = Answered(read.prefix, ReconnectFrame, <<>>, TRUE)
      /\ UNCHANGED <<scenario, head, unpublished, client, inbox, hook, slot,
                     known, troubles>>
  BY DEF ReplayPage, last, page, frames, more, read
<1>7. ASSUME CalmInv, ~client.ready, ~stream'.cut PROVE StreamPart'
  <2>1. Answered(read.prefix, ReconnectFrame, <<>>, TRUE).cut = TRUE
    BY DEF Answered, NoStream
  <2>2. /\ stream'.live = stream.live /\ stream'.prefix = frames
        /\ ~stream.cut
        /\ \/ head = last /\ stream'.phase = "heading"
                /\ stream'.checkpoint = last
           \/ stream'.phase = "replaying"
    BY <1>5, <1>6, <1>7, <2>1
  <2>3. /\ AllChanges(stream.live) /\ AllChanges(frames)
        /\ \A k \in DOMAIN stream.live :
             stream.live[k].own => stream.live[k].id \in Own
    BY <1>4, <1>6, <1>7, <2>2 DEF CalmInv, OpenInv, Replaying
  <2>4. stream'.phase = "heading" => Heading'
    BY <1>1, <1>6, <2>2, <2>3 DEF Heading, AllChanges
  <2> QED BY <1>6, <1>7, <2>2, <2>3, <2>4 DEF StreamPart, Replaying, AllChanges
<1> QED BY <1>6, <1>7, RouteRests

LEMMA ReadHeadRest ==
  ASSUME FeedInv, RestInv, ReadHead
  PROVE  RestInv'
<1> DEFINE mark == IF client.checkpoint = 0 THEN head ELSE stream.checkpoint
           p == stream.prefix
<1>1. /\ stream' = Answered(p, ReadyFrame(mark), stream.live, stream.cut)
      /\ stream.phase = "heading"
      /\ UNCHANGED <<scenario, head, unpublished, client, inbox, hook, slot,
                     known, troubles>>
  BY DEF ReadHead
<1>2. /\ stream'.phase = "answered" /\ stream'.live = stream.live
      /\ stream'.cut = stream.cut
      /\ stream'.prefix = Append(p, ReadyFrame(mark))
  BY <1>1 DEF Answered, NoStream
<1>3. ASSUME CalmInv, ~client.ready, ~stream'.cut PROVE StreamPart'
  <2>1. OpenInv
    BY <1>2, <1>3 DEF CalmInv
  <2>2. Heading
    BY <1>1, <2>1 DEF OpenInv
  <2>3. \A i \in 1..head : OnTheWay(i) => OnTheWay(i)'
    BY <1>1, <1>2 DEF OnTheWay
  <2>4. \A i \in 1..head : i <= mark \/ OnTheWay(i)'
    BY <2>2, <2>3, RestFacts DEF Heading
  <2>5. ReadyFrame(mark).type = "ready" /\ ReadyFrame(mark).id = mark
    BY DEF ReadyFrame
  <2>6. p \in Seq(Frame) /\ ReadyFrame(mark) \in Frame
    BY RestFacts, FeedFacts DEF ReadyFrame, Frame
  <2> DEFINE q == Append(p, ReadyFrame(mark))
  <2>7. /\ Len(q) > 0 /\ q[Len(q)] = ReadyFrame(mark)
        /\ \A k \in 1..(Len(q) - 1) : k \in DOMAIN p /\ q[k] = p[k]
    <3> HIDE DEF p, mark
    <3> QED BY <2>6
  <2> HIDE DEF q, mark, p
  <2>8. Announcing'
    BY <1>1, <1>2, <2>2, <2>4, <2>5, <2>7
       DEF Announcing, Heading, AllChanges, q, p
  <2> QED BY <1>1, <1>2, <1>3, <2>1, <2>8 DEF StreamPart, OpenInv, AllChanges
<1> QED BY <1>1, <1>3, RouteRests

LEMMA ExpireRest ==
  ASSUME FeedInv, RestInv, Expire
  PROVE  RestInv'
<1>1. stream'.cut = TRUE /\ stream'.phase = "answered"
      /\ UNCHANGED <<scenario, head, client, hook, known>>
  BY DEF Expire, Answered, NoStream, FeedInv, LiveTypeOK, Streams
<1>2. KnownInv'
  BY <1>1, KnownStays DEF RestInv
<1>3. CASE Trouble
  BY <1>1, <1>2, <1>3, TroubledRests
<1>4. CASE UNCHANGED troubles
  <2>1. CalmInv => CalmInv'
    BY <1>1 DEF CalmInv
  <2> QED BY <1>1, <1>2, <1>4, <2>1, CalmRests
<1> QED BY <1>3, <1>4 DEF Expire

-----------------------------------------------------------------------------
(* The client's stream.                                                    *)

LEMMA NextFrame ==
  ASSUME FeedInv, ReadFrame
  PROVE  /\ Head(Frames) = IF stream.prefix # <<>> THEN stream.prefix[1]
                           ELSE stream.live[1]
         /\ stream.prefix = <<>> => stream.live # <<>>
         /\ Head(Frames) \in Frame
<1> DEFINE p == stream.prefix
           l == stream.live
<1>1. p \in Seq(Frame) /\ l \in Seq(Frame) /\ p \o l # <<>>
  BY RestFacts DEF ReadFrame, Frames
<1> HIDE DEF p, l
<1>2. /\ Head(p \o l) = IF p # <<>> THEN p[1] ELSE l[1]
      /\ p = <<>> => l # <<>>
  BY <1>1
<1>3. Head(p \o l) \in Frame
  BY <1>1, <1>2
<1> QED BY <1>2, <1>3 DEF Frames, p, l

(* What reading a frame changes.                                           *)
LEMMA ReadFrameFields ==
  ASSUME FeedInv, ReadFrame
  PROVE  /\ UNCHANGED <<scenario, head, unpublished, hook, slot, known,
                        troubles>>
         /\ stream.phase = "answered" /\ stream'.phase = "answered"
         /\ stream'.cut = stream.cut
         /\ stream'.prefix = IF stream.prefix # <<>> THEN Tail(stream.prefix)
                             ELSE stream.prefix
         /\ stream'.live = IF stream.prefix # <<>> THEN stream.live
                           ELSE Tail(stream.live)
         /\ client' = AfterFrame(Head(Frames))
         /\ inbox' = IF /\ Head(Frames).type = "change"
                        /\ Head(Frames).id \in client.seen
                     THEN inbox ELSE Append(inbox, Head(Frames))
<1>1. stream \in Streams
  BY DEF FeedInv, LiveTypeOK
<1>2. stream' = IF stream.prefix # <<>>
                THEN [stream EXCEPT !.prefix = Tail(@)]
                ELSE [stream EXCEPT !.live = Tail(@)]
  BY DEF ReadFrame, Popped
<1> QED BY <1>1, <1>2 DEF ReadFrame, Streams

LEMMA AfterFrameFields ==
  ASSUME FeedInv, NEW frame \in Frame
  PROVE  /\ frame.type = "change" =>
              /\ AfterFrame(frame).ready = client.ready
              /\ client.ready =>
                   AfterFrame(frame).checkpoint = client.checkpoint
         /\ frame.type = "ready" =>
              /\ AfterFrame(frame).ready = TRUE
              /\ AfterFrame(frame).checkpoint = frame.id
         /\ frame.type = "reconnect" => AfterFrame(frame).ready = client.ready
         /\ AfterFrame(frame).seen = IF frame.type = "change"
                                     THEN client.seen \cup {frame.id}
                                     ELSE client.seen
<1>1. client \in Clients
  BY DEF FeedInv, LiveTypeOK
<1>2. frame.type \in {"change", "ready", "reconnect"}
  BY DEF Frame
<1>3. CASE frame.type = "change"
  <2> DEFINE mark == IF client.ready THEN client.checkpoint ELSE frame.id
             seen == client.seen \cup {frame.id}
  <2>1. AfterFrame(frame) = [client EXCEPT !.checkpoint = mark, !.seen = seen]
    BY <1>3 DEF AfterFrame
  <2> QED BY <1>1, <1>3, <2>1 DEF Clients
<1>4. CASE frame.type = "ready"
  <2>1. AfterFrame(frame) = [client EXCEPT !.checkpoint = frame.id,
                                           !.ready = TRUE, !.failures = 0]
    BY <1>4 DEF AfterFrame
  <2> QED BY <1>1, <1>4, <2>1 DEF Clients
<1>5. CASE frame.type = "reconnect"
  <2>1. AfterFrame(frame) = [client EXCEPT !.state = "ending"]
    BY <1>5 DEF AfterFrame
  <2> QED BY <1>1, <1>5, <2>1 DEF Clients
<1> QED BY <1>2, <1>3, <1>4, <1>5

(* A frame of the replay, and the "ready" behind it.                       *)
LEMMA ReplayedFrameRests ==
  ASSUME FeedInv, ReadFrame, OpenInv, ~client.ready
  PROVE  OpenInv'
<1> DEFINE p == stream.prefix
           n == Len(p)
           frame == Head(Frames)
<1>1. Announcing
  BY ReadFrameFields DEF OpenInv
<1>2. p \in Seq(Frame) /\ p # <<>> /\ inbox \in Seq(Frame)
  BY <1>1, RestFacts DEF Announcing
<1>3. /\ frame = p[1] /\ frame \in Frame /\ client' = AfterFrame(frame)
      /\ stream'.prefix = Tail(p) /\ stream'.live = stream.live
      /\ UNCHANGED <<head, unpublished, hook, slot, known>>
      /\ stream'.phase = "answered"
  BY <1>2, NextFrame, ReadFrameFields
<1>4. \A i \in 1..head : OnTheWay(i) => OnTheWay(i)'
  BY <1>3 DEF OnTheWay
<1>5. /\ AllChanges(stream'.live)
      /\ \A k \in DOMAIN stream'.live :
           stream'.live[k].own => stream'.live[k].id \in Own
  BY <1>3 DEF OpenInv, AllChanges
<1>6. CASE n = 1
  <2>1. frame.type = "ready"
    BY <1>1, <1>3, <1>6 DEF Announcing
  <2>2. client'.ready = TRUE /\ client'.checkpoint = frame.id
    BY <1>3, <2>1, AfterFrameFields
  <2>3. stream'.prefix = <<>>
    <3> HIDE DEF p
    <3> QED BY <1>2, <1>3, <1>6
  <2>4. Told'
    BY <1>1, <1>3, <1>4, <1>6, <2>2, <2>3 DEF Announcing, Told
  <2>5. inbox' = Append(inbox, frame)
    BY <2>1, ReadFrameFields
  <2>6. PICK k \in DOMAIN inbox' :
          inbox'[k] = frame /\ \A l \in DOMAIN inbox' : ~(l > k)
    <3>1. Len(inbox) \in Nat /\ DOMAIN inbox = 1..Len(inbox)
      BY <1>2
    <3> QED BY <1>2, <1>3, <2>5, <3>1, AppendFacts
  <2>7. Listening'
    BY <2>1, <2>6 DEF Listening
  <2>8. Showing'
    BY <2>1, <2>6 DEF Showing, Rouses
  <2>9. StreamPart'
    BY <1>3, <1>5, <2>2, <2>4 DEF StreamPart, AllChanges
  <2> QED BY <2>7, <2>8, <2>9, OpenPartsNext
<1>7. CASE n # 1
  <2>1. n \in Nat /\ n > 1 /\ Len(Tail(p)) = n - 1
        /\ \A k \in 1..(n - 1) : Tail(p)[k] = p[k + 1]
    <3>1. n # 1
      BY <1>7
    <3> HIDE DEF p
    <3>2. /\ Len(Tail(p)) = Len(p) - 1 /\ Len(p) \in Nat \ {0}
          /\ \A k \in 1..(Len(p) - 1) : Tail(p)[k] = p[k + 1]
      BY <1>2, TailFacts
    <3> QED BY <3>1, <3>2
  <2>2. frame.type = "change"
    BY <1>1, <1>3, <2>1 DEF Announcing
  <2>3. ~client'.ready
    BY <1>3, <2>2, AfterFrameFields
  <2>4. Announcing'
    <3>1. stream'.prefix[n - 1] = p[n] /\ Len(stream'.prefix) = n - 1
      BY <1>3, <2>1
    <3>2. \A k \in 1..(n - 1 - 1) : stream'.prefix[k].type = "change"
      BY <1>1, <1>3, <2>1 DEF Announcing
    <3>3. \A i \in 1..head' : i <= p[n].id \/ OnTheWay(i)'
      BY <1>1, <1>3, <1>4 DEF Announcing
    <3> QED BY <1>1, <2>1, <3>1, <3>2, <3>3 DEF Announcing
  <2>5. StreamPart'
    BY <1>3, <1>5, <2>3, <2>4 DEF StreamPart, AllChanges
  <2> QED BY <2>3, <2>5, OpenPartsNext
<1> QED BY <1>6, <1>7

(* A live frame of a connection that is ready.                             *)
LEMMA LiveFrameRests ==
  ASSUME FeedInv, KnownInv, ReadFrame, OpenInv, client.ready
  PROVE  OpenInv'
<1> DEFINE l == stream.live
           frame == Head(Frames)
<1>1. Told /\ Listening /\ Showing /\ AllChanges(l)
      /\ \A k \in DOMAIN l : l[k].own => l[k].id \in Own
  BY DEF OpenInv
<1>2. l \in Seq(Frame) /\ l # <<>> /\ inbox \in Seq(Frame)
  BY <1>1, NextFrame, RestFacts DEF Told
<1>3. /\ frame = l[1] /\ frame \in Frame /\ client' = AfterFrame(frame)
      /\ stream'.prefix = <<>> /\ stream'.live = Tail(l)
      /\ UNCHANGED <<head, unpublished, hook, slot, known>>
      /\ stream'.phase = "answered"
  BY <1>1, NextFrame, ReadFrameFields DEF Told
<1>4. /\ DOMAIN l = 1..Len(l) /\ Len(l) \in Nat \ {0}
      /\ DOMAIN Tail(l) = 1..(Len(l) - 1)
      /\ \A k \in 1..(Len(l) - 1) : Tail(l)[k] = l[k + 1]
  <2> HIDE DEF l
  <2> QED BY <1>2, TailFacts
<1>5. frame.type = "change" /\ (frame.own => frame.id \in Own)
  BY <1>1, <1>3, <1>4 DEF AllChanges
<1>6. /\ client'.ready = TRUE /\ client'.checkpoint = client.checkpoint
      /\ client'.seen = client.seen \cup {frame.id}
  BY <1>3, <1>5, AfterFrameFields
<1>7. \A i \in 1..head : OnTheWay(i) => i = frame.id \/ OnTheWay(i)'
  <2> SUFFICES ASSUME NEW i \in 1..head, OnTheWay(i), i # frame.id
               PROVE  OnTheWay(i)'
    OBVIOUS
  <2>1. CASE i \in unpublished
    BY <1>3, <2>1 DEF OnTheWay
  <2>2. CASE \E k \in DOMAIN l : l[k].id = i
    <3>1. PICK k \in DOMAIN l : l[k].id = i
      BY <2>2
    <3>2. k - 1 \in DOMAIN Tail(l) /\ Tail(l)[k - 1] = l[k]
      BY <1>3, <1>4, <3>1
    <3> QED BY <1>3, <3>1, <3>2 DEF OnTheWay
  <2> QED BY <2>1, <2>2 DEF OnTheWay
<1>8. \A k \in DOMAIN stream'.live : k + 1 \in DOMAIN l
                                       /\ stream'.live[k] = l[k + 1]
  BY <1>3, <1>4
<1>9. StreamPart'
  <2>1. Told'
    BY <1>1, <1>3, <1>6, <1>7 DEF Told
  <2> QED BY <1>1, <1>3, <1>6, <1>8, <2>1 DEF StreamPart, AllChanges
<1>10. /\ \A k \in DOMAIN inbox : k \in DOMAIN inbox' /\ inbox'[k] = inbox[k]
       /\ \A k \in DOMAIN inbox' : k \in DOMAIN inbox \/ inbox'[k] = frame
       /\ frame.id \notin client.seen =>
            \E k \in DOMAIN inbox' : inbox'[k] = frame
  BY <1>2, <1>3, ReadFrameFields, AppendFacts
<1>11. Listening'
  BY <1>1, <1>3, <1>5, <1>10 DEF Listening, Undisturbed
<1>12. Showing'
  <2> SUFFICES ASSUME NEW i \in 1..head
               PROVE  \/ i \in known' \/ Refreshing(i)'
                      \/ \E k \in DOMAIN inbox' : Rouses(inbox'[k])
                      \/ i \notin client'.seen /\ OnTheWay(i)'
    BY <1>3 DEF Showing, Rouses
  <2>1. CASE i \in known
    BY <1>3, <2>1
  <2>2. CASE Refreshing(i)
    BY <1>3, <2>2 DEF Refreshing
  <2>3. CASE \E k \in DOMAIN inbox : Rouses(inbox[k])
    BY <1>10, <2>3
  <2>4. CASE i \notin client.seen /\ OnTheWay(i) /\ i # frame.id
    BY <1>6, <1>7, <2>4
  <2>5. CASE i \notin client.seen /\ i = frame.id /\ ~frame.own
    BY <1>5, <1>10, <2>5 DEF Rouses
  <2>6. CASE i = frame.id /\ frame.own
    BY <1>3, <1>5, <2>6 DEF KnownInv
  <2> QED BY <1>1, <2>1, <2>2, <2>3, <2>4, <2>5, <2>6 DEF Showing
<1> QED BY <1>9, <1>11, <1>12, OpenPartsNext

LEMMA ReadFrameRest ==
  ASSUME FeedInv, RestInv, ReadFrame
  PROVE  RestInv'
<1>1. /\ UNCHANGED <<scenario, head, hook, known, troubles>>
      /\ stream'.phase = "answered" /\ stream'.cut = stream.cut
  BY ReadFrameFields
<1>2. KnownInv'
  <2>1. Head(Frames) \in Sent(head) /\ Head(Frames) \in Frame
    BY HeadFrame, NextFrame DEF ReadFrame
  <2>2. Head(Frames).type = "change" => Head(Frames).id \in 1..head
    BY <2>1, RestFacts DEF Sent
  <2>3. client'.seen \subseteq client.seen \cup 1..head
    BY <2>1, <2>2, AfterFrameFields, ReadFrameFields
  <2> QED BY <1>1, <2>3 DEF RestInv, KnownInv
<1>3. CalmInv => CalmInv'
  BY <1>1, ReplayedFrameRests, LiveFrameRests DEF CalmInv, RestInv
<1> QED BY <1>1, <1>2, <1>3, CalmRests

LEMMA EndsRest ==
  ASSUME FeedInv, RestInv, StreamEnds \/ ConnectionFails
  PROVE  RestInv'
<1>1. PICK n : Reconnecting(n)
  BY DEF StreamEnds, ConnectionFails
<1>2. /\ stream' = NoStream /\ ~client'.ready /\ client'.seen = client.seen
      /\ hook'.visible = hook.visible
      /\ UNCHANGED <<scenario, head, unpublished, known, troubles>>
  BY <1>1 DEF Reconnecting, FeedInv, LiveTypeOK, Clients
<1>3. KnownInv'
  BY <1>2, KnownStays DEF RestInv
<1>4. CalmInv => CalmInv'
  BY <1>2, NoStreamIs DEF CalmInv, OpenInv, AllChanges
<1> QED BY <1>2, <1>3, <1>4, CalmRests

-----------------------------------------------------------------------------
(* The hook, its scheduler and the refreshes.                              *)

(* A refresh that is scheduled will read the feed as it is then.           *)
LEMMA ScheduledRefreshes ==
  ASSUME FeedInv, NEW task \in Tasks, slot' = Scheduled(slot, task), NEW i
  PROVE  Refreshing(i)'
<1>1. task # NoTask
  BY MarksAre, LiveFeedAssumption DEF Tasks
<1>2. CASE slot.step = "idle"
  BY <1>2, SlotFacts DEF Scheduled, Refreshing
<1>3. CASE slot.step # "idle"
  BY <1>1, <1>3, SlotFacts DEF Scheduled, Refreshing
<1> QED BY <1>2, <1>3

(* A step of the page that leaves stream and client alone.                 *)
LEMMA PageRests ==
  ASSUME FeedInv, RestInv, KnownInv',
         UNCHANGED <<scenario, head, unpublished, stream, client, troubles>>,
         hook'.visible = hook.visible,
         OpenInv /\ client.ready => Listening' /\ Showing'
  PROVE  RestInv'
<1>1. ASSUME OpenInv PROVE OpenInv'
  <2>1. \A i \in 1..head : OnTheWay(i) => OnTheWay(i)'
    BY DEF OnTheWay
  <2>2. StreamPart'
    BY <1>1, <2>1, StreamPartStays DEF StreamPart, OpenInv, AllChanges
  <2> QED BY <1>1, <2>2, OpenPartsNext
<1>2. CalmInv => CalmInv'
  BY <1>1 DEF CalmInv
<1> QED BY <1>2, CalmRests

LEMMA TakeEventRest ==
  ASSUME FeedInv, RestInv, TakeEvent
  PROVE  RestInv'
<1> DEFINE event == Head(inbox)
           quiet == event.type = "change" /\ (event.own \/ hook.awaiting)
<1>1. /\ inbox \in Seq(Frame) /\ inbox # <<>> /\ inbox' = Tail(inbox)
      /\ UNCHANGED <<scenario, head, unpublished, stream, client, known,
                     troubles>>
      /\ hook'.visible = hook.visible
      /\ event.type = "ready" => hook'.awaiting = FALSE
      /\ event.type = "change" => hook'.awaiting = hook.awaiting
      /\ slot' = IF event.type = "reconnect" \/ quiet THEN slot
                 ELSE Scheduled(slot, IF event.type = "ready" THEN event.id
                                      ELSE NoMark)
  BY RestFacts, SlotFacts DEF TakeEvent
<1>2. /\ DOMAIN inbox = 1..Len(inbox) /\ Len(inbox) \in Nat \ {0}
      /\ DOMAIN inbox' = 1..(Len(inbox) - 1)
      /\ \A k \in 1..(Len(inbox) - 1) : inbox'[k] = inbox[k + 1]
      /\ event = inbox[1] /\ event \in Frame
  BY <1>1, TailFacts
<1> HIDE DEF event
<1>3. event.type \in {"change", "ready", "reconnect"} /\ event.id \in Marks
  BY <1>2 DEF Frame
<1>4. \A k \in DOMAIN inbox : k # 1 =>
        k - 1 \in DOMAIN inbox' /\ inbox'[k - 1] = inbox[k]
  BY <1>2
<1>5. ASSUME OpenInv, client.ready PROVE Listening'
  <2>1. CASE ~hook.awaiting /\ Undisturbed(inbox)
    <3>1. event.type # "reconnect"
      BY <1>2, <2>1 DEF Undisturbed
    <3>2. ~hook'.awaiting
      BY <1>1, <1>3, <2>1, <3>1
    <3>3. \A k \in DOMAIN inbox' : k + 1 \in DOMAIN inbox
                                     /\ inbox'[k] = inbox[k + 1]
      BY <1>2
    <3> QED BY <2>1, <3>2, <3>3 DEF Listening, Undisturbed
  <2>2. ASSUME NEW k \in DOMAIN inbox, inbox[k].type = "ready",
               \A m \in DOMAIN inbox : m > k => inbox[m].type # "reconnect"
        PROVE  Listening'
    <3>1. CASE k = 1
      <4>1. ~hook'.awaiting
        BY <1>1, <1>2, <2>2, <3>1
      <4>2. \A m \in DOMAIN inbox' : m + 1 \in DOMAIN inbox /\ m + 1 > 1
                                       /\ inbox'[m] = inbox[m + 1]
        BY <1>2
      <4> QED BY <2>2, <3>1, <4>1, <4>2 DEF Listening, Undisturbed
    <3>2. CASE k # 1
      <4>1. k - 1 \in DOMAIN inbox' /\ inbox'[k - 1].type = "ready"
        BY <1>4, <2>2, <3>2
      <4>2. \A m \in DOMAIN inbox' : m > k - 1 =>
              /\ m + 1 \in DOMAIN inbox /\ m + 1 > k
              /\ inbox'[m] = inbox[m + 1]
        BY <1>2, <2>2
      <4> QED BY <2>2, <4>1, <4>2 DEF Listening
    <3> QED BY <3>1, <3>2
  <2> QED BY <1>5, <2>1, <2>2 DEF OpenInv, Listening
<1>6. ASSUME OpenInv, client.ready PROVE Showing'
  <2>1. CASE ~(event.type = "reconnect" \/ quiet)
    <3> DEFINE task == IF event.type = "ready" THEN event.id ELSE NoMark
    <3>1. task \in Tasks /\ slot' = Scheduled(slot, task)
      BY <1>1, <1>3, <2>1 DEF Tasks
    <3>2. \A i : Refreshing(i)'
      BY <3>1, ScheduledRefreshes
    <3> QED BY <3>2 DEF Showing
  <2>2. CASE event.type = "reconnect" \/ quiet
    <3>1. slot' = slot
      BY <1>1, <2>2
    <3>2. \A i \in 1..head : Refreshing(i) => Refreshing(i)'
      BY <3>1 DEF Refreshing
    <3>3. \A i \in 1..head : OnTheWay(i) => OnTheWay(i)'
      BY <1>1 DEF OnTheWay
    <3>4. ASSUME NEW k \in DOMAIN inbox, Rouses(inbox[k])
          PROVE  \E m \in DOMAIN inbox' : Rouses(inbox'[m])
      <4>1. CASE k # 1
        BY <1>4, <3>4, <4>1
      <4>2. CASE k = 1
        <5>1. event.type = "change" /\ hook.awaiting
          BY <1>2, <2>2, <3>4, <4>2 DEF Rouses
        <5>2. PICK m \in DOMAIN inbox : inbox[m].type = "ready"
          BY <1>6, <5>1 DEF OpenInv, Listening
        <5>3. m # 1
          BY <1>2, <5>1, <5>2
        <5> QED BY <1>4, <5>2, <5>3 DEF Rouses
      <4> QED BY <4>1, <4>2
    <3>5. Showing
      BY <1>6 DEF OpenInv
    <3> QED BY <1>1, <3>2, <3>3, <3>4, <3>5 DEF Showing, Rouses
  <2> QED BY <2>1, <2>2
<1>7. KnownInv'
  BY <1>1, KnownStays DEF RestInv
<1> QED BY <1>1, <1>5, <1>6, <1>7, PageRests

LEMMA FocusRest ==
  ASSUME FeedInv, RestInv, Focus
  PROVE  RestInv'
<1>1. slot' = Scheduled(slot, NoMark) /\ NoMark \in Tasks
      /\ UNCHANGED <<scenario, head, unpublished, stream, client, inbox,
                     hook, known, troubles>>
  BY DEF Focus, Tasks
<1>2. KnownInv'
  BY <1>1, KnownStays DEF RestInv
<1>3. ASSUME OpenInv, client.ready PROVE Listening' /\ Showing'
  <2>1. \A i : Refreshing(i)'
    BY <1>1, ScheduledRefreshes
  <2> QED BY <1>1, <1>3, <2>1 DEF OpenInv, Listening, Undisturbed, Showing
<1> QED BY <1>1, <1>2, <1>3, PageRests

LEMMA HideRest ==
  ASSUME FeedInv, RestInv, Hide
  PROVE  RestInv'
<1>1. Trouble /\ UNCHANGED <<scenario, head, known>>
      /\ client'.seen = client.seen
  BY DEF Hide, FeedInv, LiveTypeOK, Clients
<1> QED BY <1>1, KnownStays, TroubledRests DEF RestInv

(* A page out of view has met a trouble: it was hidden.                    *)
LEMMA ShowRest ==
  ASSUME FeedInv, RestInv, Show
  PROVE  RestInv'
<1>1. ~hook.visible /\ client'.seen = {}
      /\ UNCHANGED <<scenario, head, known, troubles>>
  BY DEF Show, NewClient
<1>2. KnownInv'
  BY <1>1 DEF RestInv, KnownInv
<1>3. ~CalmInv
  BY <1>1 DEF CalmInv
<1> QED BY <1>1, <1>2, <1>3, CalmRests

LEMMA ReadFeedRest ==
  ASSUME FeedInv, RestInv, ReadFeed
  PROVE  RestInv'
<1>1. slot'.step = "read" /\ slot'.upto = head
      /\ UNCHANGED <<scenario, head, unpublished, stream, client, inbox,
                     hook, known, troubles>>
  BY DEF ReadFeed, FeedInv, LiveTypeOK
<1>2. KnownInv'
  BY <1>1, KnownStays DEF RestInv
<1>3. ASSUME OpenInv, client.ready PROVE Listening' /\ Showing'
  <2>1. \A i \in 1..head : Refreshing(i)'
    BY <1>1, RestFacts DEF Refreshing
  <2> QED BY <1>1, <1>3, <2>1 DEF OpenInv, Listening, Undisturbed, Showing
<1> QED BY <1>1, <1>2, <1>3, PageRests

LEMMA RefreshFailsRest ==
  ASSUME FeedInv, RestInv, RefreshFails
  PROVE  RestInv'
<1>1. Trouble /\ UNCHANGED <<scenario, head, known, client>>
  BY DEF RefreshFails
<1> QED BY <1>1, KnownStays, TroubledRests DEF RestInv

(* What a refresh has read is shown; what it may have missed is read by    *)
(* the task that follows it.                                               *)
LEMMA AdoptRest ==
  ASSUME FeedInv, RestInv, Adopt
  PROVE  RestInv'
<1>1. /\ slot.step = "read" /\ known' = known \cup (slot.since + 1)..slot.upto
      /\ hook'.visible = hook.visible /\ hook'.awaiting = hook.awaiting
      /\ slot' = Released
      /\ UNCHANGED <<scenario, head, unpublished, stream, client, inbox,
                     troubles>>
  BY DEF Adopt, FeedInv, LiveTypeOK
<1>2. /\ slot.since = hook.consumer /\ slot.upto <= head
      /\ slot.since \in Nat /\ slot.upto \in Nat
      /\ head \in Nat /\ 1..head \subseteq Changes
  <2>1. slot.since \in Marks /\ head \in Marks
    BY DEF FeedInv, LiveTypeOK
  <2> QED BY <1>1, <2>1, RestFacts, MarksAre, LiveFeedAssumption
          DEF FeedInv, RefreshInv
<1>3. KnownInv'
  <2>1. known' \subseteq 1..head
    <3>1. (slot.since + 1)..slot.upto \subseteq 1..head
      <4>1. \A a, b, h \in Nat : b <= h => (a + 1)..b \subseteq 1..h
        OBVIOUS
      <4> QED BY <1>2, <4>1
    <3> QED BY <1>1, <3>1 DEF RestInv, KnownInv
  <2> QED BY <1>1, <2>1 DEF RestInv, KnownInv
<1>4. \A i \in 1..head : i <= slot.upto => i \in known'
  <2> SUFFICES ASSUME NEW i \in 1..head, i <= slot.upto PROVE i \in known'
    OBVIOUS
  <2>1. CASE i <= hook.consumer
    BY <1>1, <1>2, <2>1 DEF FeedInv, NothingSkipped
  <2>2. CASE ~(i <= hook.consumer)
    BY <1>1, <1>2, <2>2
  <2> QED BY <2>1, <2>2
<1>5. slot.trailing # NoTask => slot'.step = "queued"
  BY <1>1 DEF Released, Idle
<1>6. ASSUME OpenInv, client.ready PROVE Listening' /\ Showing'
  <2>1. \A i \in 1..head : Refreshing(i) => i \in known' \/ Refreshing(i)'
    BY <1>1, <1>4, <1>5 DEF Refreshing
  <2>2. \A i \in 1..head : OnTheWay(i) => OnTheWay(i)'
    BY <1>1 DEF OnTheWay
  <2>3. Showing'
    BY <1>1, <1>6, <2>1, <2>2 DEF OpenInv, Showing
  <2> QED BY <1>1, <1>6, <2>3 DEF OpenInv, Listening, Undisturbed
<1> QED BY <1>1, <1>3, <1>6, PageRests

LEMMA PollRest ==
  ASSUME FeedInv, RestInv, Poll
  PROVE  RestInv'
<1>1. known' = known \cup 1..head
      /\ UNCHANGED <<scenario, head, unpublished, stream, client, inbox,
                     hook, slot, troubles>>
  BY DEF Poll
<1>2. KnownInv'
  BY <1>1 DEF RestInv, KnownInv
<1>3. ASSUME OpenInv, client.ready PROVE Listening' /\ Showing'
  BY <1>1, <1>3 DEF OpenInv, Listening, Undisturbed, Showing
<1> QED BY <1>1, <1>2, <1>3, PageRests

LEMMA StillRest ==
  ASSUME FeedInv, RestInv, UNCHANGED vars
  PROVE  RestInv'
<1>1. UNCHANGED <<scenario, head, unpublished, stream, client, inbox, hook,
                  slot, known, troubles>>
  BY DEF vars
<1>2. KnownInv'
  BY <1>1, KnownStays DEF RestInv
<1>3. ASSUME OpenInv, client.ready PROVE Listening' /\ Showing'
  BY <1>1, <1>3
     DEF OpenInv, Listening, Undisturbed, Showing, Refreshing, OnTheWay
<1> QED BY <1>1, <1>2, <1>3, PageRests

-----------------------------------------------------------------------------
LEMMA RestInductive == FeedInv /\ RestInv /\ [Next]_vars => RestInv'
<1> SUFFICES ASSUME FeedInv, RestInv, [Next]_vars PROVE RestInv'
  OBVIOUS
<1>1. CASE Commit
  BY <1>1, CommitRest
<1>2. CASE Publication
  BY <1>2, DeliverRest, LoseRest DEF Publication
<1>3. CASE RouteStep
  BY <1>3, SubscribeRest, ReplayPageRest, ReadHeadRest DEF RouteStep
<1>4. CASE Expire
  BY <1>4, ExpireRest
<1>5. CASE ClientStep
  BY <1>5, ReadFrameRest, EndsRest DEF ClientStep
<1>6. CASE TakeEvent
  BY <1>6, TakeEventRest
<1>7. CASE Focus \/ Hide \/ Show
  BY <1>7, FocusRest, HideRest, ShowRest
<1>8. CASE RefreshStep
  BY <1>8, ReadFeedRest, AdoptRest, RefreshFailsRest DEF RefreshStep
<1>9. CASE Poll
  BY <1>9, PollRest
<1>10. CASE UNCHANGED vars
  BY <1>10, StillRest
<1> QED
  BY <1>1, <1>2, <1>3, <1>4, <1>5, <1>6, <1>7, <1>8, <1>9, <1>10 DEF Next

(* At rest nothing is left that could still show a change.                 *)
LEMMA RestShows == FeedInv /\ RestInv => RestIsCurrent
<1> SUFFICES ASSUME FeedInv, RestInv, AtRest, troubles = scenario.troubles
             PROVE  /\ \A i \in 1..head :
                         i <= client.checkpoint \/ i \in client.seen
                    /\ known = 1..head
  BY DEF RestIsCurrent
<1>1. client.ready /\ inbox = <<>> /\ slot.step = "idle" /\ unpublished = {}
      /\ Frames = <<>> /\ ~stream.cut
  BY DEF AtRest, Idle
<1>2. OpenInv /\ Told /\ Showing
  BY <1>1 DEF RestInv, Untroubled, CalmInv, OpenInv
<1>3. stream.live = <<>>
  BY <1>1, <1>2, RestFacts DEF Told, Frames
<1>4. \A i : ~OnTheWay(i) /\ ~Refreshing(i)
  BY <1>1, <1>3 DEF OnTheWay, Refreshing
<1>5. \A i \in 1..head : i <= client.checkpoint \/ i \in client.seen
  BY <1>2, <1>4 DEF Told
<1>6. 1..head \subseteq known
  BY <1>1, <1>2, <1>4 DEF Showing
<1> QED BY <1>5, <1>6 DEF RestInv, KnownInv

(* A connected page at rest, which met no trouble, was told of every       *)
(* change and shows the newest one: the subscription that precedes the     *)
(* replay leaves no gap, and neither do echoes, duplicates, frames held    *)
(* back before "ready" and refreshes that replace each other, in whatever  *)
(* order publications arrive and however short the buffers are.            *)
THEOREM RestShowsAll == Spec => []RestIsCurrent
<1>1. Init => FeedInv /\ RestInv
  BY InitFeed, InitRest
<1>2. FeedInv /\ RestInv /\ [Next]_vars => FeedInv' /\ RestInv'
  BY FeedInductive, RestInductive
<1>3. FeedInv /\ RestInv => RestIsCurrent
  BY RestShows
<1> QED BY <1>1, <1>2, <1>3, PTL DEF Spec
=============================================================================
