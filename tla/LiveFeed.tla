------------------------------ MODULE LiveFeed ------------------------------
(***************************************************************************)
(* How a page learns of the changes of its stash: the Durable Object that  *)
(* fans frames out, the route that puts a replay of the change feed before *)
(* the live frames, the client's stream that reconnects from a checkpoint, *)
(* and the hook that turns events into refreshes of the Viewer.            *)
(*                                                                         *)
(* Publication is advisory: it happens after the commit, in no order, and  *)
(* may fail.  What a page shows rests on the refreshes, each of which      *)
(* reads the feed from the hook's cursor; the two checkpoints (the         *)
(* client's, for the next connection, and the hook's, for the next         *)
(* refresh) advance at different moments.                                  *)
(*                                                                         *)
(* A change is its number in the feed.  Commit frames and those of change  *)
(* sets, which only ask for a refresh, and the paths that events carry,    *)
(* which are hints, are left out.  The feed only grows at its end, so a    *)
(* refresh of several pages reads what the last page finds.                *)
(***************************************************************************)
EXTENDS Naturals, Sequences

CONSTANTS
  MaxChanges,    \* bound: how many changes there are at the end
  Scenarios,
  Own,           \* those this page's client makes
  PageSize, MaxReplayPages,  \* REPLAY_PAGE_SIZE, MAX_REPLAY_PAGES
  LiveLimit,     \* MAX_BUFFERED_BYTES, in frames
  QueueCapacity, \* EVENT_QUEUE_CAPACITY
  PollAfter,     \* failures in a row until the hook says "polling"
  NoMark, NoTask,
  MaxTroubles    \* bound: the troubles of any scenario

Changes == 1..MaxChanges    \* by their numbers in the feed

(* `start': the changes that the page has adopted, and the hook's cursor,  *)
(* at first: 0 of a page just opened, more of one that comes back into     *)
(* view.  `last': where the commits end.  `troubles': lost publications,   *)
(* failed refreshes, streams that expire before they are ready, hidings.   *)
Scenario == [start : 0..MaxChanges, last : 0..MaxChanges,
             troubles : 0..MaxTroubles]

ASSUME LiveFeedAssumption ==
  /\ MaxChanges \in Nat /\ MaxTroubles \in Nat /\ Scenarios \subseteq Scenario
  /\ Own \subseteq Changes
  /\ {PageSize, MaxReplayPages, LiveLimit, QueueCapacity, PollAfter}
       \subseteq Nat \ {0}
  /\ NoMark \notin Nat /\ NoTask \notin Nat /\ NoMark # NoTask

VARIABLES
  head,        \* the newest change; 0 of an empty stash
  unpublished, \* changes whose publication has not reached the object
  stream,      \* the open response: what the route has read and buffered
  client,      \* the client's stream of events
  inbox,       \* its queue to the hook
  hook,
  slot,        \* of the hook's refresh scheduler
  known,       \* the changes that the page has adopted
  scenario, troubles

vars == <<head, unpublished, stream, client, inbox, hook, slot, known,
          scenario, troubles>>

(* A checkpoint; 0 for none, undefined or null.                            *)
Marks == {0} \cup Changes

Frame == [type : {"change", "ready", "reconnect"}, id : Marks, own : BOOLEAN]
ChangeFrame(i, own) == [type |-> "change", id |-> i, own |-> own]
ReadyFrame(checkpoint) == [type |-> "ready", id |-> checkpoint, own |-> FALSE]
ReconnectFrame == [type |-> "reconnect", id |-> 0, own |-> FALSE]

(* `cursor', `pages': of the replay; `prefix': its frames and what follows *)
(* them; `live': frames of the object not read yet; `cut': no more come.   *)
NoStream == [phase |-> "none", cursor |-> 0, pages |-> 0, checkpoint |-> 0,
             prefix |-> <<>>, live |-> <<>>, cut |-> FALSE]

NewClient(since) ==
  [state |-> "connecting", checkpoint |-> since, ready |-> FALSE,
   failures |-> 0, seen |-> {}]

(* A task is the checkpoint that its success confirms, or NoMark.          *)
Tasks == Marks \cup {NoMark}
Idle == [step |-> "idle", task |-> NoTask, since |-> 0, upto |-> 0,
         trailing |-> NoTask]

Lesser(a, b) == IF a <= b THEN a ELSE b

Init ==
  /\ scenario \in Scenarios
  /\ troubles = scenario.troubles
  /\ head = scenario.start /\ unpublished = {}
  /\ stream = NoStream
  /\ client = NewClient(scenario.start)
  /\ inbox = <<>>
  /\ hook = [visible |-> TRUE, awaiting |-> TRUE, consumer |-> scenario.start]
  /\ slot = Idle
  /\ known = 1..scenario.start

Trouble == troubles > 0 /\ troubles' = troubles - 1

-----------------------------------------------------------------------------
(* A commit, and the publication that its request leaves to waitUntil.     *)

Commit ==
  /\ head < scenario.last
  /\ head' = head + 1
  /\ unpublished' = unpublished \cup {head + 1}
  /\ known' = IF head + 1 \in Own THEN known \cup {head + 1} ELSE known
  /\ UNCHANGED <<scenario, stream, client, inbox, hook, slot, troubles>>

(* Subscriber.offer: a subscriber past its limit is closed, with what it   *)
(* has queued; the chunk that its controller holds can still be read.      *)
Offered(s, frame) ==
  IF s.phase = "none" \/ s.cut THEN s
  ELSE IF Len(s.live) >= LiveLimit
       THEN [s EXCEPT !.live = <<Head(s.live)>>, !.cut = TRUE]
       ELSE [s EXCEPT !.live = Append(s.live, frame)]

Deliver(i) ==
  /\ i \in unpublished
  /\ unpublished' = unpublished \ {i}
  /\ stream' = Offered(stream, ChangeFrame(i, i \in Own))
  /\ UNCHANGED <<scenario, head, client, inbox, hook, slot, known, troubles>>

(* deliverEvents fails; publishEvents only logs it.                        *)
Lose(i) ==
  /\ i \in unpublished
  /\ unpublished' = unpublished \ {i}
  /\ Trouble
  /\ UNCHANGED <<scenario, head, stream, client, inbox, hook, slot, known>>

-----------------------------------------------------------------------------
(* subscribeToStashEvents.                                                 *)

(* The subscription comes first.  A full object, 256 subscribers, answers  *)
(* a stream that only tells the client to reconnect.                       *)
Subscribe ==
  /\ client.state = "connecting" /\ hook.visible /\ stream.phase = "none"
  /\ \E full \in BOOLEAN :
       stream' =
         [NoStream EXCEPT
            !.phase = IF client.checkpoint = 0 THEN "heading" ELSE "replaying",
            !.cursor = client.checkpoint, !.checkpoint = client.checkpoint,
            !.live = IF full THEN <<ReconnectFrame>> ELSE <<>>, !.cut = full]
  /\ UNCHANGED <<scenario, head, unpublished, client, inbox, hook, slot,
                 known, troubles>>

(* What is left of the request is the response that the client reads.      *)
Answered(prefix, last, live, cut) ==
  [NoStream EXCEPT !.phase = "answered", !.prefix = Append(prefix, last),
                   !.live = live, !.cut = cut]

(* A page of the replay; past the last one that is allowed the client has  *)
(* to come back.                                                           *)
ReplayPage ==
  /\ stream.phase = "replaying"
  /\ LET last == Lesser(head, stream.cursor + PageSize)
         page == [k \in 1..(last - stream.cursor) |->
                    ChangeFrame(stream.cursor + k, FALSE)]
         read == [stream EXCEPT !.prefix = @ \o page, !.checkpoint = last,
                                !.cursor = last, !.pages = @ + 1]
     IN stream' =
          IF head = last THEN [read EXCEPT !.phase = "heading"]
          ELSE IF read.pages < MaxReplayPages THEN read
          ELSE Answered(read.prefix, ReconnectFrame, <<>>, TRUE)
  /\ UNCHANGED <<scenario, head, unpublished, client, inbox, hook, slot,
                 known, troubles>>

(* Mutant: the subscription only counts from the read of the head on.      *)
ReadHeadFirst ==
  /\ stream.phase = "heading"
  /\ stream' =
       Answered(stream.prefix,
                ReadyFrame(IF client.checkpoint = 0 THEN head
                           ELSE stream.checkpoint), <<>>, stream.cut)
  /\ UNCHANGED <<scenario, head, unpublished, client, inbox, hook, slot,
                 known, troubles>>

(* The newest change is read last and ends the prefix.                     *)
ReadHead ==
  /\ stream.phase = "heading"
  /\ stream' =
       Answered(stream.prefix,
                ReadyFrame(IF client.checkpoint = 0 THEN head
                           ELSE stream.checkpoint), stream.live, stream.cut)
  /\ UNCHANGED <<scenario, head, unpublished, client, inbox, hook, slot,
                 known, troubles>>

(* The lifetime ends: the route's deadline drops what it still holds, the  *)
(* object's timer flushes its queue first.                                 *)
Expire ==
  /\ stream.phase # "none" /\ ~stream.cut
  /\ IF client.ready THEN UNCHANGED troubles ELSE Trouble
  /\ \/ stream' = Answered(<<>>, ReconnectFrame, <<>>, TRUE)
     \/ /\ stream.phase = "answered" /\ stream.prefix = <<>>
        /\ stream' = [stream EXCEPT !.live = Append(@, ReconnectFrame),
                                    !.cut = TRUE]
  /\ UNCHANGED <<scenario, head, unpublished, client, inbox, hook, slot,
                 known>>

-----------------------------------------------------------------------------
(* createStashEventStream: the loop of connections.                        *)

(* The loop waits for room in the queue before it reads on: one event is   *)
(* queued, another may wait for admission.                                 *)
Roomy == Len(inbox) <= QueueCapacity

Frames == stream.prefix \o stream.live

Popped ==
  IF stream.prefix # <<>> THEN [stream EXCEPT !.prefix = Tail(@)]
  ELSE [stream EXCEPT !.live = Tail(@)]

(* Mutant: a replayed change does not advance the checkpoint.              *)
AfterFrameStill(frame) ==
  CASE frame.type = "change" ->
         [client EXCEPT !.seen = @ \cup {frame.id}]
    [] frame.type = "ready" ->
         [client EXCEPT !.checkpoint = frame.id, !.ready = TRUE,
                        !.failures = 0]
    [] frame.type = "reconnect" -> [client EXCEPT !.state = "ending"]

(* Live changes never move the checkpoint; replayed ones do, seen or not.  *)
AfterFrame(frame) ==
  CASE frame.type = "change" ->
         [client EXCEPT
            !.checkpoint = IF client.ready THEN @ ELSE frame.id,
            !.seen = @ \cup {frame.id}]
    [] frame.type = "ready" ->
         [client EXCEPT !.checkpoint = frame.id, !.ready = TRUE,
                        !.failures = 0]
    [] frame.type = "reconnect" -> [client EXCEPT !.state = "ending"]

ReadFrame ==
  /\ client.state = "connecting" /\ Roomy
  /\ stream.phase = "answered" /\ Frames # <<>>
  /\ LET frame == Head(Frames)
         skip == frame.type = "change" /\ frame.id \in client.seen
     IN /\ client' = AfterFrame(frame)
        /\ inbox' = IF skip THEN inbox ELSE Append(inbox, frame)
  /\ stream' = Popped
  /\ UNCHANGED <<scenario, head, unpublished, hook, slot, known, troubles>>

Reconnecting(failures) ==
  /\ client' = [client EXCEPT !.state = "connecting", !.ready = FALSE,
                              !.failures = failures]
  /\ stream' = NoStream
  /\ hook' = [hook EXCEPT !.awaiting = TRUE]
  /\ UNCHANGED <<scenario, head, unpublished, inbox, slot, known, troubles>>

(* The response ends, after a reconnect frame or without one.              *)
StreamEnds ==
  /\ Roomy
  /\ \/ client.state = "ending"
     \/ client.state = "connecting" /\ stream.cut
          /\ stream.phase = "answered" /\ Frames = <<>>
  /\ Reconnecting(client.failures)

(* The connection cannot be made, or breaks.                               *)
ConnectionFails ==
  /\ client.state = "connecting" /\ hook.visible /\ Roomy
  /\ Reconnecting(Lesser(client.failures + 1, PollAfter))

-----------------------------------------------------------------------------
(* useLiveChanges and its scheduler.                                       *)

(* A busy slot keeps only the newest task to follow.                       *)
Scheduled(s, task) ==
  IF s.step = "idle" THEN [s EXCEPT !.step = "queued", !.task = task]
  ELSE [s EXCEPT !.trailing = task]

TakeEvent ==
  /\ inbox # <<>>
  /\ inbox' = Tail(inbox)
  /\ LET event == Head(inbox)
         quiet == event.type = "change" /\ (event.own \/ hook.awaiting)
     IN /\ hook' = [hook EXCEPT
                       !.awaiting = CASE event.type = "ready" -> FALSE
                                      [] event.type = "reconnect" -> TRUE
                                      [] event.type = "change" -> @]
        /\ slot' = IF event.type = "reconnect" \/ quiet THEN slot
                   ELSE Scheduled(slot, IF event.type = "ready" THEN event.id
                                        ELSE NoMark)
  /\ UNCHANGED <<scenario, head, unpublished, stream, client, known, troubles>>

Focus ==
  /\ hook.visible
  /\ slot' = Scheduled(slot, NoMark)
  /\ UNCHANGED <<scenario, head, unpublished, stream, client, inbox, hook,
                 known, troubles>>

(* A hidden page closes its stream and aborts its refreshes.               *)
Hide ==
  /\ hook.visible
  /\ Trouble
  /\ hook' = [hook EXCEPT !.visible = FALSE]
  /\ client' = [client EXCEPT !.state = "closed"]
  /\ stream' = NoStream
  /\ inbox' = <<>>
  /\ slot' = Idle
  /\ UNCHANGED <<scenario, head, unpublished, known>>

(* Back in view: a refresh, and a stream from the hook's own cursor.       *)
Show ==
  /\ ~hook.visible
  /\ hook' = [hook EXCEPT !.visible = TRUE, !.awaiting = TRUE]
  /\ client' = NewClient(hook.consumer)
  /\ slot' = Scheduled(slot, NoMark)
  /\ UNCHANGED <<scenario, head, unpublished, stream, inbox, known, troubles>>

-----------------------------------------------------------------------------
(* The scheduler's task and the Viewer's authoritative refresh.            *)

(* The request names the hook's cursor, which only a task's end moves.     *)
ReadFeed ==
  /\ slot.step = "queued"
  /\ slot' = [slot EXCEPT !.step = "read", !.since = hook.consumer,
                          !.upto = head]
  /\ UNCHANGED <<scenario, head, unpublished, stream, client, inbox, hook,
                 known, troubles>>

Released ==
  IF slot.trailing = NoTask THEN Idle
  ELSE [Idle EXCEPT !.step = "queued", !.task = slot.trailing]

(* Mutant: the cursor takes the last checkpoint that the server announced. *)
AdoptAnnounced ==
  /\ slot.step = "read"
  /\ known' = known \cup (slot.since + 1)..slot.upto
  /\ hook' = [hook EXCEPT !.consumer = client.checkpoint]
  /\ slot' = Released
  /\ UNCHANGED <<scenario, head, unpublished, stream, client, inbox, troubles>>

(* The page adopts what was read; then the hook's cursor may advance.      *)
Adopt ==
  /\ slot.step = "read"
  /\ known' = known \cup (slot.since + 1)..slot.upto
  /\ hook' = IF slot.task = NoMark THEN hook
             ELSE [hook EXCEPT !.consumer = slot.task]
  /\ slot' = Released
  /\ UNCHANGED <<scenario, head, unpublished, stream, client, inbox, troubles>>

RefreshFails ==
  /\ slot.step = "read"
  /\ Trouble
  /\ slot' = Released
  /\ UNCHANGED <<scenario, head, unpublished, stream, client, inbox, hook,
                 known>>

(* The Viewer polls while the hook says so; its refreshes queue up behind  *)
(* the scheduler's, read from the beginning, and confirm nothing.          *)
Poll ==
  /\ hook.visible /\ client.failures = PollAfter
  /\ slot.step # "read"
  /\ known' = known \cup 1..head
  /\ UNCHANGED <<scenario, head, unpublished, stream, client, inbox, hook,
                 slot, troubles>>

-----------------------------------------------------------------------------
RouteStep == Subscribe \/ ReplayPage \/ ReadHead
ClientStep == ReadFrame \/ StreamEnds \/ ConnectionFails
RefreshStep == ReadFeed \/ Adopt \/ RefreshFails
Publication == \E i \in Changes : Deliver(i) \/ Lose(i)

Next ==
  \/ Commit \/ Publication
  \/ RouteStep \/ Expire \/ ClientStep
  \/ TakeEvent \/ Focus \/ Hide \/ Show
  \/ RefreshStep \/ Poll

Spec == Init /\ [][Next]_vars

(* Requests and refreshes come to an end, streams have a lifetime, and the *)
(* page is looked at again.  Nothing says that a connection ever succeeds. *)
Fairness ==
  /\ WF_vars(RouteStep \/ ClientStep) /\ WF_vars(Expire)
  /\ WF_vars(TakeEvent) /\ WF_vars(RefreshStep) /\ WF_vars(Poll)
  /\ WF_vars(Show)

FairSpec == Spec /\ Fairness

-----------------------------------------------------------------------------
(* Properties.                                                             *)

FrameSeqs == Seq(Frame)
Streams ==
  [phase : {"none", "replaying", "heading", "answered"},
   cursor : Marks, pages : 0..MaxReplayPages, checkpoint : Marks,
   prefix : FrameSeqs, live : FrameSeqs, cut : BOOLEAN]
Clients ==
  [state : {"connecting", "ending", "closed"}, checkpoint : Marks,
   ready : BOOLEAN, failures : 0..PollAfter, seen : SUBSET Changes]

(* Types of the variables; a slot of the scheduler exists as long as it    *)
(* has a task (refresh-scheduler.ts).                                      *)
LiveTypeOK ==
  /\ head \in Marks /\ unpublished \subseteq Changes
  /\ stream \in Streams
  /\ client \in Clients
  /\ inbox \in FrameSeqs
  /\ hook \in [visible : BOOLEAN, awaiting : BOOLEAN, consumer : Marks]
  /\ slot \in [step : {"idle", "queued", "read"},
               task : Tasks \cup {NoTask}, since : Marks, upto : Marks,
               trailing : Tasks \cup {NoTask}]
  /\ (slot.step = "idle") = (slot.task = NoTask)
  /\ known \subseteq Changes
  /\ scenario \in Scenarios /\ troubles \in 0..MaxTroubles

(* Refreshes read strictly after the hook's cursor, so no change at or     *)
(* before it may be one the page has not adopted: whatever is lost,        *)
(* reordered, skipped or cut off, the cursor confirms only what a          *)
(* finished refresh has read (use-live-changes.ts, consumerCheckpoint).    *)
NothingSkipped == \A i \in Changes : i <= hook.consumer => i \in known

(* Once a connected client and its page are at rest, with nothing lost on  *)
(* the way, the client has been told of every change, by a checkpoint or a *)
(* frame, and the page shows the newest one: no change falls between the   *)
(* replay and the live frames (subscribe.ts subscribes before it reads     *)
(* D1), and skipped echoes, duplicates, frames held back until "ready" and *)
(* refreshes that replace each other leave none behind.                    *)
AtRest ==
  /\ hook.visible /\ client.ready /\ client.state = "connecting"
  /\ stream.phase = "answered" /\ Frames = <<>> /\ ~stream.cut
  /\ inbox = <<>> /\ slot = Idle /\ unpublished = {}
RestIsCurrent ==
  AtRest /\ troubles = scenario.troubles =>
    /\ \A i \in 1..head : i <= client.checkpoint \/ i \in client.seen
    /\ known = 1..head

(* Every change reaches the page: publications lost, buffers overrun,      *)
(* subscribers refused, refreshes failed, replays too long for one         *)
(* connection, even a stream that never connects (then by polling) only    *)
(* delay it.                                                               *)
CatchesUp == []<>(known = 1..head)
=============================================================================
