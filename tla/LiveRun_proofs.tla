---------------------------- MODULE LiveRun_proofs ----------------------------
(***************************************************************************)
(* Theorems about LiveRun, for any number of workers, terminals and runs,  *)
(* any window and any events.                                              *)
(***************************************************************************)
EXTENDS LiveRun, FiniteSetTheorems, TLAPS

\* What a report says is so: if it names the seven, they have handed off.
DocOK(d) ==
  /\ d.endToEnd => d.seven
  /\ d.seven => \A w \in Worker : HandedOff(w, d.run, d.after)

\* What a terminal has found is so, and a run it asks for has begun.
SessionOK(s) ==
  /\ s.pc = "idle" => s = Idle
  /\ s.pc = "ask" => s.run # None /\ began[s.run] # None
  /\ s.seven => \A w \in Worker : HandedOff(w, s.run, s.after)
  /\ s.pc = "status" => s.document \in Report /\ DocOK(s.document)

SessionInv == \A t \in Terminal : SessionOK(session[t])

ReportInv == report \in Report => DocOK(report)

\* Only runs that have begun are asked for, so a hand-off is never older than its run.
RunInv ==
  /\ \A r \in Run : began[r] # None => began[r] <= clock
  /\ \A r \in asked : began[r] # None
  /\ \A i \in DOMAIN events : events[i].live =>
       /\ events[i].sender \in Worker
       /\ events[i].run \in Run /\ began[events[i].run] # None
       /\ events[i].created.second >= began[events[i].run]

IInv == TypeOK /\ SessionInv /\ ReportInv /\ RunInv /\ CertifiedByOwnRun

-----------------------------------------------------------------------------
\* A step forgets no run and no hand-off

LEMMA BeganKept ==
  ASSUME TypeOK, [Next]_vars, NEW r \in Run, began[r] # None
  PROVE  began'[r] = began[r]
BY DEF TypeOK, Next, vars, Tick, HandOff, OtherEvent, Insert, StartDemo, Ask, Verify,
       StartVerify, Look, Deadline, Open, Write, CloudReport, ReadDocuments, Certify, Abort

LEMMA EventsGrow ==
  ASSUME TypeOK, [Next]_vars
  PROVE  events' = events \/ \E e \in Event : events' = Append(events, e)
<1>1. ASSUME NEW s \in Worker \cup {None}, NEW r \in Run \cup {None}, NEW l \in BOOLEAN,
             NEW f \in {0, 1}, Insert(s, r, l, f)
      PROVE  \E e \in Event : events' = Append(events, e)
  <2>1. [second |-> clock, fraction |-> f] \in Time
    BY DEF TypeOK, Time
  <2> QED
    BY <1>1, <2>1 DEF Insert, Event
<1>2. CASE \E w \in Worker, r \in Run : HandOff(w, r)
  BY <1>1, <1>2 DEF HandOff
<1>3. CASE OtherEvent
  BY <1>1, <1>3 DEF OtherEvent
<1>4. CASE Tick \/ UNCHANGED vars
  BY <1>4 DEF Tick, vars
<1>5. ASSUME NEW t \in Terminal,
             StartDemo(t) \/ Ask(t) \/ Verify(t) \/ CloudReport(t) \/ Abort(t)
      PROVE  events' = events
  BY <1>5 DEF StartDemo, Ask, Verify, StartVerify, Look, Deadline, Open, Write,
              CloudReport, ReadDocuments, Certify, Abort
<1> QED
  BY <1>2, <1>3, <1>4, <1>5 DEF Next

LEMMA EventsKept ==
  ASSUME TypeOK, [Next]_vars, NEW i \in DOMAIN events
  PROVE  i \in DOMAIN events' /\ events'[i] = events[i]
<1>1. events' = events \/ \E e \in Event : events' = Append(events, e)
  BY EventsGrow
<1> QED
  BY <1>1 DEF TypeOK

LEMMA HandedOffKept ==
  ASSUME TypeOK, [Next]_vars, NEW w \in Worker, NEW r, NEW s, HandedOff(w, r, s)
  PROVE  HandedOff(w, r, s)'
<1>1. PICK i \in DOMAIN events :
        /\ events[i].live /\ events[i].sender = w
        /\ r # None => events[i].run = r
        /\ s # None => events[i].created.second >= s
  BY DEF HandedOff
<1>2. i \in DOMAIN events' /\ events'[i] = events[i]
  BY EventsKept
<1> QED
  BY <1>1, <1>2 DEF HandedOff

LEMMA DocKept ==
  ASSUME TypeOK, [Next]_vars, NEW d \in Report, DocOK(d)
  PROVE  DocOK(d)'
<1>1. ASSUME d.seven, NEW w \in Worker  PROVE HandedOff(w, d.run, d.after)'
  BY <1>1, HandedOffKept DEF DocOK
<1> QED
  BY <1>1 DEF DocOK

LEMMA SessionKept ==
  ASSUME TypeOK, [Next]_vars, NEW s \in Session, SessionOK(s)
  PROVE  SessionOK(s)'
<1>1. ASSUME s.pc = "ask"  PROVE began'[s.run] # None
  <2>1. s.run \in Run /\ began[s.run] # None
    BY <1>1 DEF Session, SessionOK
  <2> QED
    BY <2>1, BeganKept
<1>2. ASSUME s.seven, NEW w \in Worker  PROVE HandedOff(w, s.run, s.after)'
  BY <1>2, HandedOffKept DEF SessionOK
<1>3. ASSUME s.pc = "status"  PROVE s.document \in Report /\ DocOK(s.document)'
  BY <1>3, DocKept DEF SessionOK
<1> QED
  BY <1>1, <1>2, <1>3 DEF SessionOK

-----------------------------------------------------------------------------
\* The event table and the senders found in it

LEMMA SendersHandedOff ==
  ASSUME TypeOK, NEW r, NEW after \in 0 .. MaxSecond \cup {None}, NEW w \in Senders(r, after)
  PROVE  HandedOff(w, r, after)
<1>1. PICK i \in DOMAIN events :
        /\ events[i].live /\ w = events[i].sender
        /\ after # None => NotBefore(events[i].created, after)
        /\ r # None => events[i].run = r
  BY DEF Senders, Listed
<1>2. events[i].created.second \in Int
  <2>1. events[i] \in Event
    BY DEF TypeOK
  <2> QED
    BY <2>1 DEF Event, Time
<1>3. after # None => events[i].created.second >= after
  BY <1>1, <1>2, LiveAssumption DEF NotBefore
<1> QED
  BY <1>1, <1>3 DEF HandedOff

\* RunInv when no event is inserted and no run begins.
LEMMA RunFrame ==
  ASSUME TypeOK, RunInv, UNCHANGED <<began, events>>,
         clock' \in Nat, clock' >= clock, \A r \in asked' \ asked : began[r] # None
  PROVE  RunInv'
BY LiveAssumption DEF RunInv, TypeOK

LEMMA SessionStep ==
  ASSUME TypeOK, SessionInv, [Next]_vars, NEW t \in Terminal, NEW s,
         session' = [session EXCEPT ![t] = s], SessionOK(s)'
  PROVE  SessionInv'
<1> SUFFICES ASSUME NEW u \in Terminal  PROVE SessionOK(session[u])'
  BY DEF SessionInv
<1>1. CASE u = t
  <2>1. session'[u] = s
    BY <1>1 DEF TypeOK
  <2> QED
    BY <2>1 DEF SessionOK
<1>2. CASE u # t
  <2>1. PICK k \in Session : k = session[u]
    BY DEF TypeOK
  <2>2. SessionOK(k)'
    BY <2>1, SessionKept DEF SessionInv
  <2>3. session'[u] = k
    BY <1>2, <2>1 DEF TypeOK
  <2> QED
    BY <2>2, <2>3 DEF SessionOK
<1> QED
  BY <1>1, <1>2

LEMMA SessionFrame ==
  ASSUME TypeOK, SessionInv, [Next]_vars, UNCHANGED session
  PROVE  SessionInv'
<1> SUFFICES ASSUME NEW u \in Terminal  PROVE SessionOK(session[u])'
  BY DEF SessionInv
<1>1. PICK k \in Session : k = session[u]
  BY DEF TypeOK
<1>2. SessionOK(k)'
  BY <1>1, SessionKept DEF SessionInv
<1> QED
  BY <1>1, <1>2 DEF SessionOK

LEMMA IdleOK == SessionOK(Idle)' /\ Idle \in Session
BY LiveAssumption DEF SessionOK, Idle, Session

LEMMA ReportFrame ==
  ASSUME TypeOK, ReportInv, [Next]_vars, UNCHANGED report
  PROVE  ReportInv'
<1> SUFFICES ASSUME report \in Report  PROVE DocOK(report)'
  BY DEF ReportInv
<1>1. PICK d \in Report : d = report
  OBVIOUS
<1>2. DocOK(d)'
  BY <1>1, DocKept DEF ReportInv
<1> QED
  BY <1>1, <1>2 DEF DocOK

LEMMA CloudFrame ==
  ASSUME TypeOK, CertifiedByOwnRun, [Next]_vars, UNCHANGED cloud
  PROVE  CertifiedByOwnRun'
<1> SUFFICES ASSUME cloud # None  PROVE CertifiedByOwnRun'
  BY DEF CertifiedByOwnRun
<1>1. PICK c \in Certificate : c = cloud
  BY DEF TypeOK
<1>2. ASSUME NEW w \in Worker  PROVE HandedOff(w, c.run, c.since)'
  BY <1>1, HandedOffKept DEF CertifiedByOwnRun
<1> QED
  BY <1>1, <1>2 DEF CertifiedByOwnRun, HandedOff

-----------------------------------------------------------------------------
\* One lemma for each kind of step

LEMMA Initially == Init => IInv
<1> SUFFICES ASSUME Init  PROVE IInv
  OBVIOUS
<1>1. Idle \in Session /\ 0 \in 0 .. MaxSecond
  BY LiveAssumption DEF Idle, Session
<1>2. TypeOK
  BY <1>1, LiveAssumption DEF Init, TypeOK
<1>3. SessionInv
  BY DEF Init, SessionInv, SessionOK, Idle
<1> QED
  BY <1>2, <1>3, NoReportAssumption DEF Init, IInv, ReportInv, RunInv, CertifiedByOwnRun

LEMMA TickStep ==
  ASSUME IInv, [Next]_vars, Tick
  PROVE  IInv'
<1>1. TypeOK'
  BY LiveAssumption DEF IInv, TypeOK, Tick
<1>2. RunInv'
  BY RunFrame, LiveAssumption DEF IInv, TypeOK, Tick
<1> QED
  BY <1>1, <1>2, SessionFrame, ReportFrame, CloudFrame DEF IInv, Tick

LEMMA InsertStep ==
  ASSUME IInv, [Next]_vars, NEW s, NEW r, NEW l, NEW f \in {0, 1}, Insert(s, r, l, f),
         \/ s \in Worker /\ r \in asked /\ l = TRUE
         \/ s = None /\ r = None /\ l = FALSE
  PROVE  IInv'
<1> DEFINE e == [sender |-> s, run |-> r, live |-> l,
                 created |-> [second |-> clock, fraction |-> f]]
<1>1. e \in Event /\ e.live = l /\ e.run = r /\ e.sender = s /\ e.created.second = clock
  BY DEF IInv, TypeOK, Event, Time
<1>2. events' = Append(events, e)
      /\ UNCHANGED <<clock, began, asked, session, report, cloud>>
  BY DEF Insert
<1> HIDE DEF e
<1>3. TypeOK'
  BY <1>1, <1>2 DEF IInv, TypeOK
<1>4. RunInv'
  <2>1. ASSUME NEW i \in DOMAIN events', events'[i].live
        PROVE  /\ events'[i].sender \in Worker
               /\ events'[i].run \in Run /\ began[events'[i].run] # None
               /\ events'[i].created.second >= began[events'[i].run]
    <3>1. CASE i \in DOMAIN events
      BY <1>2, <2>1, <3>1 DEF IInv, TypeOK, RunInv
    <3>2. CASE i \notin DOMAIN events
      <4>1. events'[i] = e
        BY <1>1, <1>2, <3>2 DEF IInv, TypeOK
      <4>2. s \in Worker /\ r \in asked
        BY <1>1, <2>1, <4>1
      <4>3. r \in Run /\ began[r] # None /\ began[r] <= clock /\ clock \in Nat
        BY <4>2 DEF IInv, TypeOK, RunInv
      <4>4. began[r] \in Nat
        BY <4>3 DEF IInv, TypeOK
      <4> QED
        BY <1>1, <4>1, <4>2, <4>3, <4>4
    <3> QED
      BY <3>1, <3>2
  <2> QED
    BY <1>2, <2>1 DEF IInv, RunInv
<1> QED
  BY <1>2, <1>3, <1>4, SessionFrame, ReportFrame, CloudFrame DEF IInv

\* A step of terminal t that changes only its session.
LEMMA SessionOnly ==
  ASSUME IInv, [Next]_vars, NEW t \in Terminal, NEW s \in Session,
         session' = [session EXCEPT ![t] = s], SessionOK(s)',
         UNCHANGED <<clock, began, asked, events, report, cloud>>
  PROVE  IInv'
<1>1. TypeOK'
  BY DEF IInv, TypeOK
<1>2. SessionInv'
  BY SessionStep DEF IInv
<1>3. RunInv'
  BY RunFrame, LiveAssumption DEF IInv, TypeOK
<1> QED
  BY <1>1, <1>2, <1>3, ReportFrame, CloudFrame DEF IInv

LEMMA DemoStep ==
  ASSUME IInv, [Next]_vars, NEW t \in Terminal, StartDemo(t)
  PROVE  IInv'
<1>1. PICK r \in Run :
        /\ began[r] = None
        /\ began' = [began EXCEPT ![r] = clock]
        /\ session' = [session EXCEPT ![t] =
             [Idle EXCEPT !.pc = "ask", !.run = r, !.after = clock, !.waits = TRUE]]
  BY DEF StartDemo
<1>2. PICK k : k = [Idle EXCEPT !.pc = "ask", !.run = r, !.after = clock, !.waits = TRUE]
  OBVIOUS
<1>3. clock \in 0 .. MaxSecond /\ began'[r] = clock /\ clock # None
  <2>1. clock \in 0 .. MaxSecond /\ began'[r] = clock
    BY <1>1 DEF IInv, TypeOK
  <2> QED
    BY <2>1, LiveAssumption
<1>4. k \in Session
  <2>1. k = [pc |-> "ask", run |-> r, after |-> clock, waits |-> TRUE, seven |-> FALSE,
             document |-> None]
    BY <1>2 DEF Idle
  <2> QED
    BY <1>3, <2>1, LiveAssumption DEF Session
<1>5. SessionOK(k)'
  BY <1>2, <1>3, LiveAssumption DEF SessionOK, Idle
<1>6. TypeOK'
  BY <1>1, <1>2, <1>3, <1>4 DEF IInv, TypeOK, StartDemo
<1>7. SessionInv'
  BY <1>1, <1>2, <1>5, SessionStep DEF IInv
<1>8. RunInv'
  BY <1>1, <1>3, LiveAssumption DEF IInv, TypeOK, RunInv, StartDemo
<1> QED
  BY <1>6, <1>7, <1>8, ReportFrame, CloudFrame DEF IInv, StartDemo

LEMMA AskStep ==
  ASSUME IInv, [Next]_vars, NEW t \in Terminal, Ask(t)
  PROVE  IInv'
<1>1. PICK k : k = [session[t] EXCEPT !.pc = "wait"]
  OBVIOUS
<1>2. session[t] \in Session /\ session[t].pc = "ask" /\ SessionOK(session[t])
  BY DEF IInv, TypeOK, SessionInv, Ask, At
<1>3. k \in Session /\ SessionOK(k)
  BY <1>1, <1>2 DEF Session, SessionOK
<1>4. SessionOK(k)'
  BY <1>3, SessionKept DEF IInv
<1>5. session' = [session EXCEPT ![t] = k] \/ session' = [session EXCEPT ![t] = Idle]
  BY <1>1 DEF Ask, IInv, TypeOK
<1>6. session[t].run \in Run /\ began[session[t].run] # None
  BY <1>2 DEF Session, SessionOK
<1>7. TypeOK'
  BY <1>3, <1>5, <1>6, IdleOK DEF IInv, TypeOK, Ask
<1>8. SessionInv'
  BY <1>4, <1>5, IdleOK, SessionStep DEF IInv
<1>9. RunInv'
  BY <1>6, RunFrame, LiveAssumption DEF IInv, TypeOK, Ask
<1> QED
  BY <1>7, <1>8, <1>9, ReportFrame, CloudFrame DEF IInv, Ask

LEMMA VerifyStep ==
  ASSUME IInv, [Next]_vars, NEW t \in Terminal, StartVerify(t)
  PROVE  IInv'
<1>1. PICK c \in Call :
        session' = [session EXCEPT ![t] =
          [Idle EXCEPT !.pc = IF c.waits THEN "wait" ELSE "open",
                       !.run = c.run, !.after = c.after, !.waits = c.waits]]
  BY DEF StartVerify
<1>2. PICK k : k = [Idle EXCEPT !.pc = IF c.waits THEN "wait" ELSE "open",
                                !.run = c.run, !.after = c.after, !.waits = c.waits]
  OBVIOUS
<1>3. k = [pc |-> IF c.waits THEN "wait" ELSE "open", run |-> c.run, after |-> c.after,
           waits |-> c.waits, seven |-> FALSE, document |-> None]
  BY <1>2 DEF Idle
<1>4. c \in Arguments
  BY CallAssumption
<1>5. k \in Session
  BY <1>3, <1>4 DEF Session, Arguments
<1>6. SessionOK(k)
  BY <1>3 DEF SessionOK
<1>7. SessionOK(k)'
  BY <1>5, <1>6, SessionKept DEF IInv
<1> QED
  BY <1>1, <1>2, <1>5, <1>7, SessionOnly DEF StartVerify

\* The steps that give up waiting, or end what the terminal executes.
LEMMA EndStep ==
  ASSUME IInv, [Next]_vars, NEW t \in Terminal, Deadline(t) \/ Abort(t)
  PROVE  IInv'
<1>1. session[t] \in Session /\ SessionOK(session[t])
  BY DEF IInv, TypeOK, SessionInv
<1>2. CASE Deadline(t)
  <2>1. PICK k : k = [session[t] EXCEPT !.pc = "open"]
    OBVIOUS
  <2>2. k \in Session /\ SessionOK(k)
    BY <1>1, <2>1 DEF Session, SessionOK
  <2>3. SessionOK(k)'
    BY <2>2, SessionKept DEF IInv
  <2>4. session' = [session EXCEPT ![t] = k]
    BY <1>2, <2>1 DEF Deadline, IInv, TypeOK
  <2> QED
    BY <1>2, <2>2, <2>3, <2>4, SessionOnly DEF Deadline
<1>3. CASE Abort(t)
  BY <1>3, IdleOK, SessionOnly DEF Abort
<1> QED
  BY <1>2, <1>3

LEMMA LookStep ==
  ASSUME IInv, [Next]_vars, NEW t \in Terminal, Look(t)
  PROVE  IInv'
<1>1. PICK r, after : r = session[t].run /\ after = session[t].after
  OBVIOUS
<1>2. PICK F : F = Complete(Senders(r, after))
  OBVIOUS
<1>3. PICK k : k = [session[t] EXCEPT !.seven = F, !.pc = IF F THEN "open" ELSE "wait"]
  OBVIOUS
<1>4. session[t] \in Session /\ session[t].pc = "wait" /\ SessionOK(session[t])
  BY DEF IInv, TypeOK, SessionInv, Look, At
<1>5. F \in BOOLEAN /\ after \in 0 .. MaxSecond \cup {None}
  BY <1>1, <1>2, <1>4 DEF Complete, Session
<1>6. ASSUME F, NEW w \in Worker  PROVE HandedOff(w, r, after)
  <2>1. w \in Senders(r, after)
    BY <1>2, <1>6 DEF Complete
  <2> QED
    BY <1>5, <2>1, SendersHandedOff DEF IInv
<1>7. k \in Session
  BY <1>3, <1>4, <1>5 DEF Session
<1>8. k.run = r /\ k.after = after /\ k.seven = F /\ k.pc \in {"open", "wait"}
  BY <1>1, <1>3, <1>4 DEF Session
<1>9. SessionOK(k)
  BY <1>6, <1>8 DEF SessionOK
<1>10. SessionOK(k)'
  BY <1>7, <1>9, SessionKept DEF IInv
<1>11. session' = [session EXCEPT ![t] = k]
  BY <1>1, <1>2, <1>3 DEF Look, IInv, TypeOK
<1> QED
  BY <1>7, <1>10, <1>11, SessionOnly DEF Look

LEMMA OpenStep ==
  ASSUME IInv, [Next]_vars, NEW t \in Terminal, Open(t)
  PROVE  IInv'
<1>1. PICK k : k = [session[t] EXCEPT !.pc = "write"]
  OBVIOUS
<1>2. session[t] \in Session /\ session[t].pc = "open" /\ SessionOK(session[t])
  BY DEF IInv, TypeOK, SessionInv, Open, At
<1>3. k \in Session /\ SessionOK(k)
  BY <1>1, <1>2 DEF Session, SessionOK
<1>4. SessionOK(k)'
  BY <1>3, SessionKept DEF IInv
<1>5. session' = [session EXCEPT ![t] = k]
  BY <1>1 DEF Open, IInv, TypeOK
<1>6. TypeOK'
  BY <1>3, <1>5 DEF IInv, TypeOK, Open
<1>7. SessionInv'
  BY <1>4, <1>5, SessionStep DEF IInv
<1>8. RunInv'
  BY RunFrame, LiveAssumption DEF IInv, TypeOK, Open
<1>9. ReportInv'
  BY NoReportAssumption DEF ReportInv, Open
<1> QED
  BY <1>6, <1>7, <1>8, <1>9, CloudFrame DEF IInv, Open

LEMMA WriteStep ==
  ASSUME IInv, [Next]_vars, NEW t \in Terminal, Write(t)
  PROVE  IInv'
<1>1. session[t] \in Session /\ SessionOK(session[t])
  BY DEF IInv, TypeOK, SessionInv
<1>2. ASSUME NEW ready \in BOOLEAN
      PROVE  ReportOf(t, ready) \in Report /\ DocOK(ReportOf(t, ready))
  <2>1. PICK d : d = ReportOf(t, ready)
    OBVIOUS
  <2>2. d \in Report
    BY <1>1, <2>1 DEF ReportOf, Report, Session
  <2>3. /\ d.run = session[t].run /\ d.after = session[t].after
        /\ d.seven = session[t].seven /\ (d.endToEnd => d.seven)
    BY <1>1, <2>1 DEF ReportOf, Session
  <2>4. DocOK(d)
    BY <1>1, <2>3 DEF SessionOK, DocOK
  <2> QED
    BY <2>1, <2>2, <2>4
<1>3. session' = [session EXCEPT ![t] = Idle]
      /\ UNCHANGED <<clock, began, asked, events, cloud>>
  BY DEF Write
<1>4. report' = Torn \/ \E ready \in BOOLEAN : report' = ReportOf(t, ready)
  BY DEF Write
<1>5. report' = Torn \/ (report' \in Report /\ DocOK(report'))
  BY <1>2, <1>4
<1>6. TypeOK'
  BY <1>3, <1>5, IdleOK DEF IInv, TypeOK
<1>7. SessionInv'
  BY <1>3, IdleOK, SessionStep DEF IInv
<1>8. RunInv'
  BY <1>3, RunFrame, LiveAssumption DEF IInv, TypeOK
<1>9. ReportInv'
  BY <1>3, <1>5, NoReportAssumption DEF ReportInv, DocOK, HandedOff
<1> QED
  BY <1>3, <1>6, <1>7, <1>8, <1>9, CloudFrame DEF IInv

LEMMA ReadStep ==
  ASSUME IInv, [Next]_vars, NEW t \in Terminal, ReadDocuments(t)
  PROVE  IInv'
<1>1. session[t] = Idle /\ report \in Report /\ DocOK(report)
  BY DEF IInv, SessionInv, SessionOK, ReportInv, ReadDocuments, At
<1>2. PICK k : k = [Idle EXCEPT !.pc = "status", !.document = report]
  OBVIOUS
<1>3. k = [pc |-> "status", run |-> None, after |-> None, waits |-> FALSE, seven |-> FALSE,
           document |-> report]
  BY <1>2 DEF Idle
<1>4. k \in Session /\ SessionOK(k)
  BY <1>1, <1>3 DEF Session, SessionOK
<1>5. SessionOK(k)'
  BY <1>4, SessionKept DEF IInv
<1>6. session' = [session EXCEPT ![t] = k]
  BY <1>1, <1>2 DEF ReadDocuments, IInv, TypeOK
<1> QED
  BY <1>4, <1>5, <1>6, SessionOnly DEF ReadDocuments

LEMMA CertifyStep ==
  ASSUME IInv, [Next]_vars, NEW t \in Terminal, Certify(t)
  PROVE  IInv'
<1>1. PICK d : d = session[t].document
  OBVIOUS
<1>2. d \in Report /\ DocOK(d)
  BY <1>1 DEF IInv, SessionInv, SessionOK, Certify, At
<1>3. clock \in 0 .. MaxSecond
  BY DEF IInv, TypeOK
<1>4. session' = [session EXCEPT ![t] = Idle]
      /\ UNCHANGED <<clock, began, asked, events, report>>
  BY DEF Certify
<1>5. \/ cloud' = None
      \/ \E since \in 0 .. clock :
           /\ cloud' = [run |-> d.run, since |-> since]
           /\ d.endToEnd /\ HandedOffCurrently(d) /\ AfterCloudStart(d, since)
  BY <1>1 DEF Certify
<1>6. ASSUME cloud' = None  PROVE TypeOK' /\ CertifiedByOwnRun'
  <2>1. TypeOK'
    BY <1>4, <1>6, IdleOK DEF IInv, TypeOK
  <2> QED
    BY <1>6, <2>1 DEF CertifiedByOwnRun
<1>7. ASSUME NEW since \in 0 .. clock, cloud' = [run |-> d.run, since |-> since],
             d.endToEnd, HandedOffCurrently(d), AfterCloudStart(d, since)
      PROVE  TypeOK' /\ CertifiedByOwnRun'
  <2>1. d.run \in Run /\ d.seven /\ since \in 0 .. MaxSecond
    BY <1>2, <1>3, <1>7, LiveAssumption DEF HandedOffCurrently, Report
  <2>2. d.after \in 0 .. MaxSecond /\ d.after >= since /\ d.after # None
    BY <1>2, <1>7 DEF AfterCloudStart, Report
  <2>3. ASSUME NEW w \in Worker  PROVE HandedOff(w, d.run, since)
    <3>1. PICK i \in DOMAIN events :
            /\ events[i].live /\ events[i].sender = w
            /\ d.run # None => events[i].run = d.run
            /\ events[i].created.second >= d.after
      BY <1>2, <2>1, <2>2 DEF DocOK, HandedOff
    <3>2. events[i].created.second \in Int
      <4>1. events[i] \in Event
        BY DEF IInv, TypeOK
      <4> QED
        BY <4>1 DEF Event, Time
    <3>3. events[i].created.second >= since
      BY <2>1, <2>2, <3>1, <3>2, LiveAssumption
    <3> QED
      BY <3>1, <3>3 DEF HandedOff
  <2>4. cloud'.run = d.run /\ cloud'.since = since /\ cloud' \in Certificate
    BY <1>7, <2>1 DEF Certificate
  <2>5. TypeOK'
    BY <1>4, <2>4, IdleOK DEF IInv, TypeOK
  <2>6. CertifiedByOwnRun'
    BY <1>4, <2>3, <2>4 DEF CertifiedByOwnRun, HandedOff
  <2> QED
    BY <2>5, <2>6
<1>8. SessionInv'
  BY <1>4, IdleOK, SessionStep DEF IInv
<1>9. RunInv'
  BY <1>4, RunFrame, LiveAssumption DEF IInv, TypeOK
<1> QED
  BY <1>4, <1>5, <1>6, <1>7, <1>8, <1>9, ReportFrame DEF IInv

-----------------------------------------------------------------------------
\* The theorems

\* The inductive invariant: every document, in a file or in memory, and every set of
\* senders found so far is true of the run that it names.
THEOREM Invariance == Spec => []IInv
<1>1. IInv /\ [Next]_vars => IInv'
  <2> SUFFICES ASSUME IInv, [Next]_vars  PROVE IInv'
    OBVIOUS
  <2>1. ASSUME NEW w \in Worker, NEW r \in Run, HandOff(w, r)  PROVE IInv'
    BY <2>1, InsertStep DEF HandOff
  <2>2. CASE OtherEvent
    BY <2>2, InsertStep DEF OtherEvent
  <2>3. CASE Tick
    BY <2>3, TickStep
  <2>4. ASSUME NEW t \in Terminal,
               StartDemo(t) \/ Ask(t) \/ Verify(t) \/ CloudReport(t) \/ Abort(t)
        PROVE  IInv'
    BY <2>4, DemoStep, AskStep, VerifyStep, EndStep, LookStep, OpenStep, WriteStep, ReadStep,
       CertifyStep DEF Verify, CloudReport
  <2>5. CASE UNCHANGED vars
    BY <2>5 DEF vars, IInv, TypeOK, SessionInv, SessionOK, ReportInv, RunInv, DocOK,
                CertifiedByOwnRun, HandedOff
  <2> QED
    BY <2>1, <2>2, <2>3, <2>4, <2>5 DEF Next
<1> QED
  BY <1>1, Initially, PTL DEF Spec

\* The tables, the files and what the terminals hold keep their types.
THEOREM TypeCorrect == Spec => []TypeOK
<1>1. IInv => TypeOK
  BY DEF IInv
<1> QED
  BY <1>1, Invariance, PTL

\* However late workers answer, however many commands write the report and whatever
\* arguments they are given: where it says end to end, all workers have handed off in
\* the run and since the second it names.
THEOREM EndToEndSafe == Spec => []EndToEndMeansHandedOff
<1>1. IInv => EndToEndMeansHandedOff
  BY DEF IInv, ReportInv, DocOK, EndToEndMeansHandedOff
<1> QED
  BY <1>1, Invariance, PTL

\* A deployment is certified only by a run in which all handed off after it began.
THEOREM CertifiedSafe == Spec => []CertifiedByOwnRun
<1>1. IInv => CertifiedByOwnRun
  BY DEF IInv
<1> QED
  BY <1>1, Invariance, PTL

\* A look of the script misses a hand-off of its run only for the two reasons that the
\* text of the query and of the comparison give, for every order of stamps and rows: no
\* hand-off is older than its run, because only runs that have begun are asked for.
THEOREM MissesSafe == Spec => []MissesOnlyUnlisted
<1>1. ASSUME IInv, NEW t \in Terminal, NEW r, NEW after,
             r = session[t].run, after = session[t].after,
             r # None, after # None, after = began[r],
             NEW i \in DOMAIN events, events[i].live, events[i].run = r,
             ~(Cardinality(Newer(i)) >= Window),
             events[i].created # [second |-> after, fraction |-> 1]
      PROVE  events[i].sender \in Senders(r, after)
  <2>1. session[t] \in Session
    BY <1>1 DEF IInv, TypeOK
  <2>2. events[i].created.second >= after
    BY <1>1 DEF IInv, RunInv
  <2>3. PICK c : c = events[i].created
    OBVIOUS
  <2>4. c \in Time /\ after \in 0 .. MaxSecond
    <3>1. events[i] \in Event
      BY <1>1 DEF IInv, TypeOK
    <3> QED
      BY <1>1, <2>1, <2>3, <3>1 DEF Event, Session
  <2>5. NotBefore(c, after)
    <3>1. c.second = after => c.fraction = 0
      BY <1>1, <2>3, <2>4 DEF Time
    <3> QED
      BY <2>2, <2>3, <2>4, <3>1, LiveAssumption DEF NotBefore, Time
  <2>6. i \in Listed
    <3>1. Len(events) \in Int /\ Newer(i) \subseteq 1 .. Len(events)
      BY <1>1 DEF IInv, TypeOK, Newer
    <3>2. IsFiniteSet(Newer(i))
      <4>1. IsFiniteSet(1 .. Len(events))
        BY <3>1, FS_Interval
      <4> QED
        BY <3>1, <4>1, FS_Subset
    <3>3. Cardinality(Newer(i)) \in Nat
      BY <3>2, FS_CardinalityType
    <3> QED
      BY <1>1, <3>3, LiveAssumption DEF Listed
  <2> QED
    BY <1>1, <2>3, <2>5, <2>6 DEF Senders
<1>2. IInv => MissesOnlyUnlisted
  BY <1>1 DEF MissesOnlyUnlisted
<1> QED
  BY <1>2, Invariance, PTL

===============================================================================
