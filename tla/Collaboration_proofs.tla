------------------------- MODULE Collaboration_proofs -------------------------
(***************************************************************************)
(* Theorems about Collaboration, for any numbers of requests and hand-offs *)
(* and any limits that LimitAssumption allows.                             *)
(***************************************************************************)
EXTENDS Collaboration, FiniteSetTheorems, TLAPS

\* An event is in the table only when its handler is done with it, and what a
\* handler that is about to insert it has named is stored.
SenderInv ==
  \A r \in Request :
    /\ r \in events => pc[r] = "done" /\ named[r] \in messages
    /\ pc[r] = "event" => named[r] \in messages /\ created[r] > 0

\* An event of the table keeps its place in time.
CreatedInv == \A e \in events : created[e] > 0

\* What a stream found in the table and does not take as sent has a window of
\* newer events before it, and so is never read.
StreamInv ==
  /\ before \subseteq events
  /\ \A e \in before \ sent : StreamLimit <= Cardinality(Newer(e))
  /\ batch \cap before = {}
  /\ OnlyNewEventsStreamed

IInv == TypeOK /\ SenderInv /\ CreatedInv /\ StreamInv

-----------------------------------------------------------------------------

\* How many events are newer is a number, and does not fall when the table
\* grows and the events of the table keep their times.
LEMMA NewerFinite ==
  ASSUME TypeOK, NEW e
  PROVE  Cardinality(Newer(e)) \in Nat /\ IsFiniteSet(Newer(e))
<1>1. IsFiniteSet(Event)  BY LimitAssumption, FS_Union DEF Event
<1>2. Newer(e) \subseteq Event  BY DEF Newer, TypeOK
<1>. QED  BY <1>1, <1>2, FS_Subset, FS_CardinalityType

LEMMA NewerGrows ==
  ASSUME TypeOK, TypeOK', events \subseteq events', \A f \in events : created'[f] = created[f],
         NEW e \in events
  PROVE  Cardinality(Newer(e)) <= Cardinality(Newer(e)')
<1>1. Newer(e) \subseteq Newer(e)'  BY DEF Newer
<1>2. IsFiniteSet(Event)  BY LimitAssumption, FS_Union DEF Event
<1>3. IsFiniteSet(Newer(e)')
  <2>1. Newer(e)' \subseteq Event  BY DEF Newer, TypeOK
  <2>. QED  BY <1>2, <2>1, FS_Subset
<1>. QED  BY <1>1, <1>3, FS_Subset

LEMMA NowType == ASSUME TypeOK PROVE Now \in Nat \ {0}
<1>1. IsFiniteSet({e \in Event : created[e] > 0})
  <2>1. IsFiniteSet(Event)  BY LimitAssumption, FS_Union DEF Event
  <2>. QED  BY <2>1, FS_Subset
<1>2. Cardinality({e \in Event : created[e] > 0}) \in Nat  BY <1>1, FS_CardinalityType
<1>. QED  BY <1>2 DEF Now

-----------------------------------------------------------------------------

LEMMA TypeKept ==
  ASSUME TypeOK, [Next]_vars
  PROVE  TypeOK'
<1>. USE DEF TypeOK
<1>1. Cardinality({}) = 0 /\ \A x : Cardinality({x}) = 1
  BY FS_EmptySet, FS_Singleton
<1>2. Now \in Nat  BY NowType
<1>3. \A r \in Request : RoomId(r) \in Message /\ WebId(r) \in Message
  BY DEF RoomId, WebId, Message
<1>4. \A x \in Chat : RoomId(x) \in Timeline /\ OtherId(x) \in Timeline
  BY DEF RoomId, OtherId, Message, Timeline
<1>5. \A limit : Newest(limit) \subseteq Event  BY DEF Newest
<1>6. ASSUME NEW r \in Request, Send(r)  PROVE TypeOK'
  BY <1>6 DEF Send, stream
<1>7. ASSUME NEW r \in Request, Take(r)  PROVE TypeOK'
  <2>1. RoomId(r) \in Timeline  BY <1>3 DEF Timeline
  <2>2. room' \in Seq(Timeline)  BY <1>7, <2>1 DEF Take
  <2>. QED  BY <1>7, <2>2 DEF Take, sender, stream
<1>8. ASSUME NEW r \in Request, Drop(r)  PROVE TypeOK'
  BY <1>8 DEF Drop, sender, stream
<1>9. ASSUME NEW r \in Request, NEW m \in Message, Resume(r, m)  PROVE TypeOK'
  <2>1. r \in Event  BY DEF Event
  <2>2. created' \in [Event -> Nat]  BY <1>2, <1>9, <2>1 DEF Resume
  <2>3. messages' \subseteq Message  BY <1>9 DEF Resume, Inserted
  <2>4. pc' \in [Request -> {"idle", "put", "event", "done"}] /\ named' \in [Request -> Message]
    BY <1>9 DEF Resume
  <2>. QED  BY <1>9, <2>2, <2>3, <2>4 DEF Resume, stream
<1>10. ASSUME NEW r \in Request, AppendEvent(r)  PROVE TypeOK'
  <2>1. r \in Event  BY DEF Event
  <2>. QED  BY <1>10, <2>1 DEF AppendEvent, stream
<1>11. ASSUME NEW x \in Chat, Chatter(x) \/ Unspoken(x)  PROVE TypeOK'
  <2>1. \E m \in Timeline : room' = Append(room, m)  BY <1>4, <1>11 DEF Chatter, Unspoken
  <2>2. room' \in Seq(Timeline)  BY <2>1
  <2>. QED  BY <1>11, <2>2 DEF Chatter, Unspoken, sender, stream
<1>12. ASSUME NEW h \in Handoff, Make(h)  PROVE TypeOK'
  <2>1. created' \in [Event -> Nat]  BY <1>2, <1>12 DEF Make, Event
  <2>. QED  BY <1>12, <2>1 DEF Make, sender, stream
<1>13. ASSUME NEW h \in Handoff, Submit(h)  PROVE TypeOK'
  <2>1. h \in Event  BY DEF Event
  <2>. QED  BY <1>13, <2>1 DEF Submit, sender, stream
<1>14. CASE PollFetch
  <2>1. Polled \subseteq Message  BY DEF Polled, NewestInRoom
  <2>2. poll' \subseteq SUBSET Message  BY <1>14, <2>1 DEF PollFetch
  <2>3. Cardinality(poll') = 1  BY <1>1, <1>14 DEF PollFetch
  <2>. QED  BY <1>14, <2>2, <2>3 DEF PollFetch, sender, stream
<1>15. CASE PollStore
  <2>1. messages' \subseteq Message  BY <1>15 DEF PollStore
  <2>. QED  BY <1>1, <1>15, <2>1 DEF PollStore, sender, stream
<1>16. CASE StreamOpen
  <2>1. sent' \subseteq Event  BY <1>5, <1>16 DEF StreamOpen, Snapshot
  <2>2. before' \subseteq Event /\ batch' \subseteq Event /\ streamed' \subseteq Event
    BY <1>16 DEF StreamOpen
  <2>3. open' \in BOOLEAN  BY <1>16 DEF StreamOpen
  <2>4. UNCHANGED <<room, onTheWay, pc, named, messages, created, events, poll, crashes>>
    BY <1>16 DEF StreamOpen, sender
  <2>. QED  BY <2>1, <2>2, <2>3, <2>4
<1>17. CASE StreamClose
  BY <1>17 DEF StreamClose, sender
<1>18. CASE StreamRead
  BY <1>5, <1>18 DEF StreamRead, Unsent, sender
<1>19. ASSUME NEW e \in Event, StreamSend(e)  PROVE TypeOK'
  BY <1>19 DEF StreamSend, sender
<1>20. CASE Crash
  <2>1. pc' \in [Request -> {"idle", "put", "event", "done"}]  BY <1>20 DEF Crash
  <2>2. crashes' \in 0..MaxCrashes  BY <1>20, LimitAssumption DEF Crash
  <2>3. poll' \subseteq SUBSET Message /\ Cardinality(poll') <= 1  BY <1>1, <1>20 DEF Crash
  <2>4. /\ open' \in BOOLEAN /\ sent' \subseteq Event /\ batch' \subseteq Event
        /\ before' \subseteq Event /\ streamed' \subseteq Event
    BY <1>20 DEF Crash
  <2>5. UNCHANGED <<room, onTheWay, named, messages, created, events>>  BY <1>20 DEF Crash
  <2>. QED  BY <2>1, <2>2, <2>3, <2>4, <2>5
<1>21. CASE UNCHANGED vars
  BY <1>21 DEF vars, sender, stream
<1>. QED
  BY <1>3, <1>6, <1>7, <1>8, <1>9, <1>10, <1>11, <1>12, <1>13, <1>14, <1>15, <1>16, <1>17, <1>18,
     <1>19, <1>20, <1>21 DEF Next, Workbench, Answered, Failed

LEMMA SenderKept ==
  ASSUME TypeOK, SenderInv, [Next]_vars
  PROVE  SenderInv'
<1>. USE DEF SenderInv
<1>1. Now > 0 /\ Now \in Nat  BY NowType
<1>2. messages \subseteq messages'
  BY DEF Next, Workbench, PollFetch, PollStore, StreamRead, Answered, Failed, Resume, Inserted,
         AppendEvent, StreamSend, StreamOpen, StreamClose, Crash, Send, Take, Drop, Chatter, Unspoken,
         Make, Submit, vars
<1>3. ASSUME NEW r \in Request, NEW m, Resume(r, m), pc[r] = "put"  PROVE SenderInv'
  <2>1. r \notin events  BY <1>3
  <2>2. /\ pc' = [pc EXCEPT ![r] = "event"] /\ named' = [named EXCEPT ![r] = m]
        /\ created' = [created EXCEPT ![r] = Now]
        /\ m \in messages' /\ events' = events
    BY <1>3 DEF Resume, Inserted
  <2>3. r \in Event /\ Request \subseteq Event  BY DEF Event
  <2>. QED  BY <1>1, <1>2, <2>1, <2>2, <2>3 DEF TypeOK
<1>4. ASSUME NEW r \in Request, AppendEvent(r)  PROVE SenderInv'
  BY <1>4 DEF AppendEvent, TypeOK
<1>5. ASSUME NEW r \in Request, Send(r)  PROVE SenderInv'
  BY <1>5 DEF Send, TypeOK
<1>6. ASSUME NEW h \in Handoff, Make(h)  PROVE SenderInv'
  <2>1. created[h] = 0 /\ created' = [created EXCEPT ![h] = Now]  BY <1>6 DEF Make
  <2>2. UNCHANGED <<pc, named, messages, events>>  BY <1>6 DEF Make, sender
  <2>3. Request \subseteq Event  BY DEF Event
  <2>. QED  BY <1>1, <2>1, <2>2, <2>3 DEF TypeOK
<1>7. ASSUME NEW h \in Handoff, Submit(h)  PROVE SenderInv'
  <2>1. events' = events \cup {h} /\ UNCHANGED <<pc, named, messages, created>>
    BY <1>7 DEF Submit, sender
  <2>2. h \notin Request  BY LimitAssumption
  <2>. QED  BY <2>1, <2>2
<1>8. CASE Crash
  BY <1>8 DEF Crash, TypeOK
<1>9. ASSUME UNCHANGED <<pc, named, created, events>>  PROVE SenderInv'
  BY <1>2, <1>9
<1>. QED
  BY <1>3, <1>4, <1>5, <1>6, <1>7, <1>8, <1>9
  DEF Next, Workbench, PollFetch, PollStore, StreamRead, Answered, Failed, StreamSend, StreamOpen,
      StreamClose, Take, Drop, Chatter, Unspoken, vars, sender

\* What an event's place in time is worth: no step moves an event of the table.
LEMMA CreatedKept ==
  ASSUME TypeOK, SenderInv, CreatedInv, [Next]_vars
  PROVE  /\ CreatedInv'
         /\ events \subseteq events'
         /\ \A e \in events : created'[e] = created[e]
<1>. DEFINE Kept == /\ CreatedInv'
                   /\ events \subseteq events'
                   /\ \A e \in events : created'[e] = created[e]
<1>. USE DEF SenderInv, CreatedInv
<1>1. Now > 0 /\ Now \in Nat  BY NowType
<1>2. ASSUME NEW r \in Request, NEW m, Resume(r, m), pc[r] = "put"  PROVE Kept
  <2>1. r \notin events  BY <1>2
  <2>2. created' = [created EXCEPT ![r] = Now] /\ events' = events  BY <1>2 DEF Resume
  <2>. QED  BY <1>1, <2>1, <2>2 DEF TypeOK
<1>3. ASSUME NEW h \in Handoff, Make(h)  PROVE Kept
  <2>1. h \notin events  BY <1>3 DEF Make
  <2>2. created' = [created EXCEPT ![h] = Now] /\ events' = events  BY <1>3 DEF Make
  <2>. QED  BY <1>1, <2>1, <2>2 DEF TypeOK
<1>4. ASSUME NEW r \in Request, AppendEvent(r)  PROVE Kept
  BY <1>4 DEF AppendEvent
<1>5. ASSUME NEW h \in Handoff, Submit(h)  PROVE Kept
  BY <1>5 DEF Submit
<1>6. ASSUME UNCHANGED <<created, events>>  PROVE Kept
  BY <1>6
<1>. QED
  BY <1>2, <1>3, <1>4, <1>5, <1>6
  DEF Next, Workbench, PollFetch, PollStore, StreamRead, Answered, Failed, StreamSend, StreamOpen,
      StreamClose, Crash, Send, Take, Drop, Chatter, Unspoken, vars

LEMMA StreamKept ==
  ASSUME IInv, [Next]_vars, TypeOK'
  PROVE  StreamInv'
<1>. USE DEF IInv, StreamInv, OnlyNewEventsStreamed
<1>1. events \subseteq events' /\ \A e \in events : created'[e] = created[e]
  BY CreatedKept
<1>2. \A e \in events : Cardinality(Newer(e)) <= Cardinality(Newer(e)')
  BY <1>1, NewerGrows
<1>3. \A e : Cardinality(Newer(e)) \in Nat /\ Cardinality(Newer(e)') \in Nat
  <2>1. \A e : Cardinality(Newer(e)) \in Nat  BY NewerFinite
  <2>2. \A e : IsFiniteSet(Newer(e)')
    <3>1. IsFiniteSet(Event)  BY LimitAssumption, FS_Union DEF Event
    <3>2. \A e : Newer(e)' \subseteq Event  BY DEF Newer, TypeOK
    <3>. QED  BY <3>1, <3>2, FS_Subset
  <2>. QED  BY <2>1, <2>2, FS_CardinalityType
<1>4. StreamLimit \in Nat /\ SnapshotLimit \in Nat /\ StreamLimit <= SnapshotLimit
  BY LimitAssumption
<1>5. ASSUME before' = before, sent \subseteq sent'
      PROVE  /\ before' \subseteq events'
             /\ \A e \in before' \ sent' : StreamLimit <= Cardinality(Newer(e)')
  <2>1. before' \subseteq events'  BY <1>1, <1>5
  <2>2. ASSUME NEW e \in before' \ sent'  PROVE StreamLimit <= Cardinality(Newer(e)')
    <3>1. e \in before \ sent /\ e \in events  BY <1>5, <2>2
    <3>. QED  BY <1>2, <1>3, <1>4, <3>1
  <2>. QED  BY <2>1, <2>2
<1>6. CASE StreamOpen
  <2>1. before' = events /\ events' = events /\ sent' = Newest(SnapshotLimit)
        /\ batch' = {} /\ streamed' = {} /\ created' = created
    BY <1>6 DEF StreamOpen, Snapshot
  <2>2. ASSUME NEW e \in before' \ sent'  PROVE StreamLimit <= Cardinality(Newer(e)')
    <3>1. ~(Cardinality(Newer(e)) < SnapshotLimit)  BY <2>1, <2>2 DEF Newest
    <3>2. Newer(e)' = Newer(e)  BY <2>1 DEF Newer
    <3>. QED  BY <1>3, <1>4, <3>1, <3>2
  <2>. QED  BY <2>1, <2>2
<1>7. CASE StreamRead
  <2>1. before' = before /\ sent' = sent /\ streamed' = streamed
        /\ batch' = Newest(StreamLimit) \ sent
    BY <1>7 DEF StreamRead, Unsent
  <2>2. batch' \cap before' = {}
    <3>1. SUFFICES ASSUME NEW e \in before, e \in Newest(StreamLimit), e \notin sent  PROVE FALSE
      BY <2>1
    <3>2. StreamLimit <= Cardinality(Newer(e))  BY <3>1
    <3>3. Cardinality(Newer(e)) < StreamLimit  BY <3>1 DEF Newest
    <3>. QED  BY <1>3, <1>4, <3>2, <3>3
  <2>. QED  BY <1>5, <2>1, <2>2
<1>8. ASSUME NEW e \in Event, StreamSend(e)  PROVE StreamInv'
  <2>1. /\ before' = before /\ sent' = sent \cup {e} /\ streamed' = streamed \cup {e}
        /\ batch' = batch \ {e} /\ e \in batch
    BY <1>8 DEF StreamSend
  <2>. QED  BY <1>5, <2>1
<1>9. CASE StreamClose \/ Crash
  BY <1>9 DEF StreamClose, Crash
<1>10. ASSUME UNCHANGED stream  PROVE StreamInv'
  BY <1>5, <1>10 DEF stream
<1>. QED
  BY <1>6, <1>7, <1>8, <1>9, <1>10
  DEF Next, Workbench, PollFetch, PollStore, Answered, Failed, Resume, AppendEvent, Send, Take,
      Drop, Chatter, Unspoken, Make, Submit, vars

-----------------------------------------------------------------------------

LEMMA Inductive == Spec => []IInv
<1>1. Init => IInv
  <2>1. ASSUME Init PROVE TypeOK
    <3>1. Cardinality({}) = 0  BY FS_EmptySet
    <3>2. \A r \in Request : WebId(r) \in Message  BY DEF WebId, Message
    <3>3. <<>> \in Seq(Timeline)  OBVIOUS
    <3>4. 0 \in 0..MaxCrashes  BY LimitAssumption
    <3>5. /\ pc \in [Request -> {"idle", "put", "event", "done"}]
          /\ named \in [Request -> Message]
          /\ created \in [Event -> Nat]
      BY <2>1, <3>2 DEF Init
    <3>6. poll \subseteq SUBSET Message /\ Cardinality(poll) <= 1
      BY <2>1, <3>1 DEF Init
    <3>7. /\ room \in Seq(Timeline) /\ onTheWay \subseteq Request /\ messages \subseteq Message
          /\ events \subseteq Event /\ open \in BOOLEAN /\ crashes \in 0..MaxCrashes
          /\ sent \subseteq Event /\ batch \subseteq Event /\ before \subseteq Event
          /\ streamed \subseteq Event
      BY <2>1, <3>3, <3>4 DEF Init
    <3>. QED  BY <3>5, <3>6, <3>7 DEF TypeOK
  <2>2. ASSUME Init PROVE SenderInv /\ CreatedInv /\ StreamInv
    BY <2>2 DEF Init, SenderInv, CreatedInv, StreamInv, OnlyNewEventsStreamed
  <2>. QED  BY <2>1, <2>2 DEF IInv
<1>2. IInv /\ [Next]_vars => IInv'
  <2>1. SUFFICES ASSUME IInv, [Next]_vars PROVE IInv'  OBVIOUS
  <2>2. TypeOK'  BY <2>1, TypeKept DEF IInv
  <2>3. SenderInv'  BY <2>1, SenderKept DEF IInv
  <2>4. CreatedInv'  BY <2>1, CreatedKept DEF IInv
  <2>5. StreamInv'  BY <2>1, <2>2, StreamKept
  <2>. QED  BY <2>2, <2>3, <2>4, <2>5 DEF IInv
<1>. QED  BY <1>1, <1>2, PTL DEF Spec

\* The state is well-typed.
THEOREM TypeCorrect == Spec => []TypeOK
<1>1. IInv => TypeOK  BY DEF IInv
<1>. QED  BY <1>1, Inductive, PTL

\* However often the workbench dies, an event that names a message
\* (send_message()'s two appends) names one that is stored.
THEOREM MessagesNamed == Spec => []EventsNameMessages
<1>1. IInv => EventsNameMessages  BY DEF IInv, SenderInv, EventsNameMessages
<1>. QED  BY <1>1, Inductive, PTL

\* Whatever the two windows of collaboration_stream() are, as long as the first
\* is at least the second, a stream sends no event that was there before it.
THEOREM OnlyNew == Spec => []OnlyNewEventsStreamed
<1>1. IInv => OnlyNewEventsStreamed  BY DEF IInv, StreamInv
<1>. QED  BY <1>1, Inductive, PTL

-----------------------------------------------------------------------------
\* The stream loses nothing and repeats nothing: the safety half of
\* NewEventsStreamed.

\* What a stream takes as sent was there before it or has been sent by it; what
\* it has read it has not sent.
SentInv ==
  /\ sent \subseteq before \cup streamed
  /\ streamed \subseteq sent
  /\ batch \cap sent = {}

LEMMA SentKept ==
  ASSUME IInv, SentInv, [Next]_vars
  PROVE  SentInv'
<1>. USE DEF SentInv
<1>1. CASE StreamOpen
  BY <1>1 DEF StreamOpen, Snapshot, Newest
<1>2. CASE StreamRead
  BY <1>2 DEF StreamRead, Unsent
<1>3. ASSUME NEW e \in Event, StreamSend(e)  PROVE SentInv'
  BY <1>3 DEF StreamSend
<1>4. CASE StreamClose \/ Crash
  BY <1>4 DEF StreamClose, Crash
<1>5. ASSUME UNCHANGED stream  PROVE SentInv'
  BY <1>5 DEF stream
<1>. QED
  BY <1>1, <1>2, <1>3, <1>4, <1>5
  DEF Next, Workbench, PollFetch, PollStore, Answered, Failed, Resume, AppendEvent, Send, Take,
      Drop, Chatter, Unspoken, Make, Submit, vars

\* A round of the stream picks up every new event of its window that it has not
\* sent, and what it has picked up it goes on to send, unless the stream ends.
StreamLosesNothing ==
  [][\A e \in events \ before :
       /\ StreamRead /\ e \in Newest(StreamLimit) => e \in streamed \cup batch'
       /\ e \in batch => e \in batch' \cup streamed' \/ StreamOpen \/ StreamClose \/ Crash]_vars

\* A stream sends no event twice, although its windows overlap.
SentOnce == [][\A e \in Event : StreamSend(e) => e \notin streamed]_vars

\* Whenever the handlers insert, and in whatever order: an event that is new to
\* a stream is never taken as sent before it was.
THEOREM NothingLost == Spec => StreamLosesNothing /\ SentOnce
<1> DEFINE Kept == \A e \in events \ before :
             /\ StreamRead /\ e \in Newest(StreamLimit) => e \in streamed \cup batch'
             /\ e \in batch => e \in batch' \cup streamed' \/ StreamOpen \/ StreamClose \/ Crash
           Once == \A e \in Event : StreamSend(e) => e \notin streamed
<1>1. Init => SentInv
  BY DEF Init, SentInv
<1>2. IInv /\ SentInv /\ [Next]_vars => SentInv'
  BY SentKept
<1>3. SentInv => Once
  BY DEF SentInv, StreamSend
<1>4. SentInv /\ [Next]_vars => [Kept]_vars
  <2>. SUFFICES ASSUME SentInv, Next  PROVE Kept
    OBVIOUS
  <2>1. ASSUME StreamRead, NEW e \in Newest(StreamLimit), e \notin before
        PROVE  e \in streamed \cup batch'
    BY <2>1 DEF StreamRead, Unsent, SentInv
  <2>2. ASSUME NEW e \in batch, ~StreamOpen, ~StreamClose, ~Crash
        PROVE  e \in batch' \cup streamed'
    <3>1. CASE \E f \in Event : StreamSend(f)
      BY <2>2, <3>1 DEF StreamSend
    <3>2. CASE UNCHANGED stream
      BY <2>2, <3>2 DEF stream
    <3>3. ~StreamRead  BY <2>2 DEF StreamRead
    <3>. QED
      BY <2>2, <3>1, <3>2, <3>3
      DEF Next, Workbench, PollFetch, PollStore, Answered, Failed, Resume, AppendEvent, Send, Take,
          Drop, Chatter, Unspoken, Make, Submit
  <2>. QED  BY <2>1, <2>2
<1>. QED
  BY <1>1, <1>2, <1>3, <1>4, Inductive, PTL DEF Spec, StreamLosesNothing, SentOnce

-----------------------------------------------------------------------------
\* The bridge to the room invents nothing and drops nothing.

\* The room only grows at its end.
LEMMA RoomGrows ==
  ASSUME TypeOK, [Next]_vars
  PROVE  InRoom \subseteq InRoom'
<1>1. ASSUME NEW m, room' = Append(room, m)  PROVE InRoom \subseteq InRoom'
  <2>1. \A i \in 1..Len(room) : i \in 1..Len(room') /\ room'[i] = room[i]
    BY <1>1 DEF TypeOK
  <2>. QED  BY <2>1 DEF InRoom
<1>2. CASE UNCHANGED room
  BY <1>2 DEF InRoom
<1>3. UNCHANGED room \/ \E m : room' = Append(room, m)
  BY DEF Next, Workbench, PollFetch, PollStore, StreamRead, Answered, Failed, Resume, AppendEvent,
         StreamSend, StreamOpen, StreamClose, Crash, Send, Take, Drop, Chatter, Unspoken,
         Make, Submit, vars
<1>. QED  BY <1>1, <1>2, <1>3

\* What the workbench holds of the room is in the room; a message of its own
\* naming is that of a request whose PUT it has given up on.
BridgeInv ==
  /\ \A m \in messages \cup UNION poll :
       m \in InRoom \/ \E r \in Request : m = WebId(r) /\ pc[r] \in {"event", "done"}
  /\ UNION poll \subseteq InRoom

LEMMA BridgeKept ==
  ASSUME IInv, BridgeInv, [Next]_vars
  PROVE  BridgeInv'
<1>. USE DEF BridgeInv
<1>1. InRoom \subseteq InRoom'  BY RoomGrows DEF IInv
<1>2. \A r \in Request : pc[r] \in {"event", "done"} => pc'[r] \in {"event", "done"}
  BY DEF Next, Workbench, PollFetch, PollStore, StreamRead, Answered, Failed, Resume, AppendEvent,
         StreamSend, StreamOpen, StreamClose, Crash, Send, Take, Drop, Chatter, Unspoken,
         Make, Submit, vars,
         sender, IInv, TypeOK
<1>3. ASSUME messages' \subseteq messages \cup UNION poll, UNION poll' \subseteq InRoom
      PROVE  BridgeInv'
  BY <1>1, <1>2, <1>3
<1>4. ASSUME NEW r \in Request, Answered(r)  PROVE BridgeInv'
  BY <1>1, <1>2, <1>4 DEF Answered, Resume, Inserted
<1>5. ASSUME NEW r \in Request, Failed(r)  PROVE BridgeInv'
  <2>1. messages' = messages \cup {WebId(r)} /\ poll' = poll /\ pc'[r] = "event"
    BY <1>5 DEF Failed, Resume, Inserted, IInv, TypeOK
  <2>. QED  BY <1>1, <1>2, <2>1
<1>6. CASE PollFetch
  <2>1. NewestInRoom \subseteq InRoom  BY DEF NewestInRoom, InRoom
  <2>. QED  BY <1>3, <1>6, <2>1 DEF PollFetch, Polled
<1>7. CASE PollStore \/ Crash
  <2>1. messages' \subseteq messages \cup UNION poll /\ poll' = {}
    BY <1>7 DEF PollStore, Crash
  <2>. QED  BY <1>3, <2>1
<1>8. ASSUME UNCHANGED <<messages, poll>>  PROVE BridgeInv'
  BY <1>3, <1>8
<1>. QED
  BY <1>4, <1>5, <1>6, <1>7, <1>8
  DEF Next, Workbench, StreamRead, AppendEvent, StreamSend, StreamOpen, StreamClose, Send, Take,
      Drop, Chatter, Unspoken, Make, Submit, vars

\* A stored message of the room is in the room, and one the workbench has named
\* itself is that of a request whose PUT it has given up on.
StoredIsReal ==
  \A m \in messages :
    m \in InRoom \/ \E r \in Request : m = WebId(r) /\ pc[r] \in {"event", "done"}

\* No stored message is lost, and a poll stores every message it has fetched,
\* unless the workbench dies between the two.
FetchedIsStored ==
  [][/\ messages \subseteq messages'
     /\ UNION poll \subseteq messages' \cup UNION poll' \/ Crash]_vars

\* Whatever is lost or late on the way to the homeserver, and wherever the
\* workbench dies: the safety half of RoomStored.
THEOREM BridgeSafe == Spec => []StoredIsReal /\ FetchedIsStored
<1> DEFINE Stored == /\ messages \subseteq messages'
                     /\ UNION poll \subseteq messages' \cup UNION poll' \/ Crash
<1>1. Init => BridgeInv
  BY DEF Init, BridgeInv
<1>2. IInv /\ BridgeInv /\ [Next]_vars => BridgeInv'
  BY BridgeKept
<1>3. BridgeInv => StoredIsReal
  BY DEF BridgeInv, StoredIsReal
<1>4. [Next]_vars => [Stored]_vars
  <2>. SUFFICES ASSUME Next  PROVE Stored
    OBVIOUS
  <2>1. CASE PollFetch
    BY <2>1 DEF PollFetch
  <2>2. CASE PollStore
    BY <2>2 DEF PollStore
  <2>3. CASE Crash
    BY <2>3 DEF Crash
  <2>4. ASSUME messages \subseteq messages', poll' = poll  PROVE Stored
    BY <2>4
  <2>. QED
    BY <2>1, <2>2, <2>3, <2>4
    DEF Next, Workbench, StreamRead, Answered, Failed, Resume, Inserted, AppendEvent, StreamSend,
        StreamOpen, StreamClose, Send, Take, Drop, Chatter, Unspoken, Make, Submit
<1>. QED
  BY <1>1, <1>2, <1>3, <1>4, Inductive, PTL DEF Spec, FetchedIsStored

=============================================================================
