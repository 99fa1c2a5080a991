----------------------------- MODULE Collaboration -----------------------------
(***************************************************************************)
(* The collaboration log: its two tables (CollaborationStore), the bridge  *)
(* to a Matrix room (MatrixObserver), and the three coroutines of the      *)
(* workbench around them -- send_message(), poll_matrix() and the event    *)
(* stream of a page -- while the MCP process submits hand-offs to the same *)
(* database and the workbench may die and be started again.                *)
(***************************************************************************)
EXTENDS Naturals, Sequences, FiniteSets

CONSTANTS
  Request,        \* BOUND: the texts that the human sends
  Chat,           \* BOUND: what others put into the room: messages of the workers,
                  \*   and events of other types (members, reactions, names)
  Handoff,        \* BOUND: the events that the workers submit
  PollLimit,      \* matrix.messages(limit=100)
  SnapshotLimit,  \* list_events(limit=500), when a stream is opened
  StreamLimit,    \* list_events(limit=100), in each of its rounds
  MaxCrashes      \* BOUND

ASSUME LimitAssumption ==
  /\ IsFiniteSet(Request) /\ IsFiniteSet(Handoff) /\ Request \cap Handoff = {}
  /\ {PollLimit, SnapshotLimit, StreamLimit, MaxCrashes} \subseteq Nat
  /\ StreamLimit <= SnapshotLimit

VARIABLES
  room,      \* the room's timeline on the homeserver, oldest first
  onTheWay,  \* requests whose PUT has left and may still reach the homeserver
  pc,        \* where send_message() is, for each request
  named,     \* matrix_message_id of a request's event
  messages,  \* table matrix_messages: its keys
  created,   \* created_at of each event: its place in time, 0 before
  events,    \* table collaboration_events: its keys
  poll,      \* {} or {the batch that matrix.messages() returned}
  open,      \* is a stream open
  sent,      \* its set sent
  batch,     \* what it has read and not yet looked at
  before,    \* HISTORY: the events in the table when it was opened
  streamed,  \* HISTORY: the events it has sent to the page
  crashes

sender == <<pc, named>>
stream == <<open, sent, batch, before, streamed>>
vars == <<room, onTheWay, sender, messages, created, events, poll, stream, crashes>>

Event == Request \cup Handoff

RoomId(x) == <<"room", x>>    \* the homeserver's event_id
WebId(r) == <<"web", r>>      \* `$web-{uuid}`

Message == ({"room"} \X (Request \cup Chat)) \cup ({"web"} \X Request)

OtherId(x) == <<"other", x>>  \* an event whose type is not m.room.message

Timeline == Message \cup ({"other"} \X Chat)

InRoom == {room[i] : i \in 1..Len(room)}

\* `dir=b`: the newest first, at most as many as asked for.  What is no message
\* takes up places and is thrown away afterwards.
NewestInRoom == {room[i] : i \in {j \in 1..Len(room) : j + PollLimit > Len(room)}} \cap Message

Newer(e) == {f \in events : created[f] > created[e]}

\* `ORDER BY created_at DESC LIMIT ?`
Newest(limit) == {e \in events : Cardinality(Newer(e)) < limit}

-----------------------------------------------------------------------------

Init ==
  /\ room = <<>> /\ onTheWay = {}
  /\ pc = [r \in Request |-> "idle"]
  /\ named = [r \in Request |-> WebId(r)]
  /\ messages = {}
  /\ created = [e \in Event |-> 0]
  /\ events = {}
  /\ poll = {}
  /\ open = FALSE /\ sent = {} /\ batch = {} /\ before = {} /\ streamed = {}
  /\ crashes = 0

Unused(x) == RoomId(x) \notin InRoom /\ OtherId(x) \notin InRoom

\* A worker writes a message.
Chatter(x) ==
  /\ Unused(x)
  /\ room' = Append(room, RoomId(x))
  /\ UNCHANGED <<onTheWay, sender, messages, created, events, poll, stream, crashes>>

\* Someone joins, reacts, or changes the room.
Unspoken(x) ==
  /\ Unused(x)
  /\ room' = Append(room, OtherId(x))
  /\ UNCHANGED <<onTheWay, sender, messages, created, events, poll, stream, crashes>>

\* send_message(): `await asyncio.to_thread(matrix.send_text, ...)`
Send(r) ==
  /\ pc[r] = "idle"
  /\ pc' = [pc EXCEPT ![r] = "put"]
  /\ onTheWay' = onTheWay \cup {r}
  /\ UNCHANGED <<room, named, messages, created, events, poll, stream, crashes>>

\* The homeserver takes the message, whether or not the sender still waits.
Take(r) ==
  /\ r \in onTheWay
  /\ onTheWay' = onTheWay \ {r}
  /\ room' = Append(room, RoomId(r))
  /\ UNCHANGED <<sender, messages, created, events, poll, stream, crashes>>

Drop(r) ==
  /\ r \in onTheWay
  /\ onTheWay' = onTheWay \ {r}
  /\ UNCHANGED <<room, sender, messages, created, events, poll, stream, crashes>>

\* The time at which an event is made: later than all that were made before.
Now == Cardinality({e \in Event : created[e] > 0}) + 1

\* FAULTY VARIANTS, here and below: no specification uses them, they stand in
\* for a definition when the properties are tested for what they can detect.
RowOnlyIfLocal(m) == IF m[1] = "web" THEN messages \cup {m} ELSE messages

\* `INSERT OR IGNORE INTO matrix_messages`
Inserted(m) == messages \cup {m}

\* The coroutine goes on with message m: append_message(), and the event is
\* made that append_event() is to insert.
Resume(r, m) ==
  /\ messages' = Inserted(m)
  /\ named' = [named EXCEPT ![r] = m]
  /\ created' = [created EXCEPT ![r] = Now]
  /\ pc' = [pc EXCEPT ![r] = "event"]
  /\ UNCHANGED <<room, onTheWay, events, poll, stream, crashes>>

Answered(r) == pc[r] = "put" /\ RoomId(r) \in InRoom /\ Resume(r, RoomId(r))

\* send_text() raised: refused, unreachable, or the answer came too late.
Failed(r) == pc[r] = "put" /\ Resume(r, WebId(r))

AppendEvent(r) ==
  /\ pc[r] = "event"
  /\ events' = events \cup {r}
  /\ pc' = [pc EXCEPT ![r] = "done"]
  /\ UNCHANGED <<room, onTheWay, named, messages, created, poll, stream, crashes>>

-----------------------------------------------------------------------------
\* The MCP process: submitter() makes the event, then inserts it.

Make(h) ==
  /\ created[h] = 0
  /\ created' = [created EXCEPT ![h] = Now]
  /\ UNCHANGED <<room, onTheWay, sender, messages, events, poll, stream, crashes>>

Submit(h) ==
  /\ created[h] > 0 /\ h \notin events
  /\ events' = events \cup {h}
  /\ UNCHANGED <<room, onTheWay, sender, messages, created, poll, stream, crashes>>

-----------------------------------------------------------------------------
\* poll_matrix(), every two seconds.

OldestInRoom == {room[i] : i \in {j \in 1..Len(room) : j <= PollLimit}} \cap Message

Polled == NewestInRoom

PollFetch ==
  /\ poll = {}
  /\ poll' = {Polled}
  /\ UNCHANGED <<room, onTheWay, sender, messages, created, events, stream, crashes>>

PollStore ==
  /\ poll # {}
  /\ messages' = messages \cup UNION poll
  /\ poll' = {}
  /\ UNCHANGED <<room, onTheWay, sender, created, events, stream, crashes>>

-----------------------------------------------------------------------------
\* generate() of collaboration_stream().

SnapshotShort == Newest(SnapshotLimit - 1)

\* What a new stream takes as already sent.
Snapshot == Newest(SnapshotLimit)

StreamOpen ==
  /\ open' = TRUE
  /\ sent' = Snapshot
  /\ batch' = {}
  /\ before' = events /\ streamed' = {}
  /\ UNCHANGED <<room, onTheWay, sender, messages, created, events, poll, crashes>>

StreamClose ==
  /\ open
  /\ open' = FALSE
  /\ sent' = {} /\ batch' = {} /\ before' = {} /\ streamed' = {}
  /\ UNCHANGED <<room, onTheWay, sender, messages, created, events, poll, crashes>>

LaterThanSent ==
  {e \in Newest(StreamLimit) : \A f \in sent : created[e] > created[f]}

\* `if event.event_id in sent: continue`
Unsent == Newest(StreamLimit) \ sent

StreamRead ==
  /\ open /\ batch = {}
  /\ batch' = Unsent
  /\ UNCHANGED <<room, onTheWay, sender, messages, created, events, poll, open, sent, before,
                 streamed, crashes>>

StreamSend(e) ==
  /\ e \in batch /\ \A f \in batch : created[e] <= created[f]
  /\ batch' = batch \ {e}
  /\ sent' = sent \cup {e}
  /\ streamed' = streamed \cup {e}
  /\ UNCHANGED <<room, onTheWay, sender, messages, created, events, poll, open, before, crashes>>

\* The workbench dies: its coroutines are gone, the tables stay.
Crash ==
  /\ crashes < MaxCrashes
  /\ crashes' = crashes + 1
  /\ pc' = [r \in Request |-> IF pc[r] = "idle" THEN "idle" ELSE "done"]
  /\ poll' = {}
  /\ open' = FALSE
  /\ sent' = {} /\ batch' = {} /\ before' = {} /\ streamed' = {}
  /\ UNCHANGED <<room, onTheWay, named, messages, created, events>>

Workbench ==
  \/ PollFetch \/ PollStore \/ StreamRead
  \/ \E r \in Request : Answered(r) \/ Failed(r) \/ AppendEvent(r)
  \/ \E e \in Event : StreamSend(e)

Next ==
  \/ Workbench \/ StreamOpen \/ StreamClose \/ Crash
  \/ \E r \in Request : Send(r) \/ Take(r) \/ Drop(r)
  \/ \E x \in Chat : Chatter(x) \/ Unspoken(x)
  \/ \E h \in Handoff : Make(h) \/ Submit(h)

Fairness ==
  /\ WF_vars(PollFetch) /\ WF_vars(PollStore) /\ WF_vars(StreamRead)
  /\ WF_vars(\E e \in Event : StreamSend(e))

Spec == Init /\ [][Next]_vars /\ Fairness

-----------------------------------------------------------------------------
\* Properties

TypeOK ==
  /\ room \in Seq(Timeline)
  /\ onTheWay \subseteq Request
  /\ pc \in [Request -> {"idle", "put", "event", "done"}]
  /\ named \in [Request -> Message]
  /\ messages \subseteq Message
  /\ created \in [Event -> Nat]
  /\ events \subseteq Event
  /\ poll \subseteq SUBSET Message /\ Cardinality(poll) <= 1
  /\ open \in BOOLEAN
  /\ sent \subseteq Event /\ batch \subseteq Event
  /\ before \subseteq Event /\ streamed \subseteq Event
  /\ crashes \in 0..MaxCrashes

\* An event of the log that names a message names one that is stored, even if
\* the workbench dies half-way through send_message(): the page joins the two.
EventsNameMessages == \A r \in Request \cap events : named[r] \in messages

\* "SSE only carries events created after this connection" (workbench.py:508):
\* an event that was in the table when the stream was opened is never sent on
\* it, although the stream starts from a window and reads another.
OnlyNewEventsStreamed == streamed \cap before = {}

\* An event inserted while the stream is open is sent on it, even if it was
\* made before others that were sent, unless more than a window of newer ones
\* came first or the stream is closed or opened again.
NewEventsStreamed ==
  \A e \in Event :
    (open /\ e \in events \ before)
      ~> (e \in streamed \/ ~open \/ e \in before \/ e \notin Newest(StreamLimit))

\* A message of the room is stored in the end, whoever wrote it and whether or
\* not the sender heard of it, unless more than a batch of newer events of the
\* timeline, messages or not, came between two polls.
RoomStored ==
  \A m \in Message : m \in InRoom ~> (m \in messages \/ m \notin NewestInRoom)

=============================================================================
