-------------------------------- MODULE LiveRun --------------------------------
(***************************************************************************)
(* How a live run of the seven workers is proved to have taken place:      *)
(* demo_agentteams.sh asks for a run in the Team Room, the workers hand    *)
(* off through the MCP server, verify_agentteams.py looks for the          *)
(* hand-offs of that run in the event table until a deadline and writes a  *)
(* report, the workbench shows the report, and cloud_e2e.py certifies a    *)
(* deployment from the report and from what the workbench shows.           *)
(*                                                                         *)
(* Terminals run these commands beside each other and again, each may be   *)
(* interrupted, workers answer late, twice, for an earlier run or not at   *)
(* all, and the report is one file that every command overwrites.          *)
(***************************************************************************)
EXTENDS Naturals, Sequences, FiniteSets

CONSTANTS
  Worker,     \* the seven senders, WORKERS and EXPECTED_SENDERS
  Terminal,   \* the shells in which the commands are run
  Run,        \* run ids: each names a second and a process, none is part of another
  None,       \* no value
  Torn,       \* what a file holds while it is being written
  Call,       \* the arguments with which verify_agentteams is called by hand
  Window,     \* how many events list_events() answers at most
  MaxEvents,  \* BOUND on the rows of the event table
  MaxSecond   \* BOUND on the time

ASSUME LiveAssumption ==
  /\ Window \in Nat /\ MaxEvents \in Nat /\ MaxSecond \in Nat
  /\ None \notin Run /\ None \notin Nat

VARIABLES
  clock,    \* the time, in seconds
  began,    \* for each run the second its script began in, None if it did not
  asked,    \* the runs whose task message is in the Team Room
  events,   \* table collaboration_events of the project, as inserted
  session,  \* what each terminal executes, see Idle
  report,   \* evidence/agentteams-runtime-verification.json
  cloud     \* evidence/cloud-studio-e2e.json, None unless it says "verified"

vars == <<clock, began, asked, events, session, report, cloud>>

\* utcnow() has a fraction of the second, `date` has none.  In ISO format a zero
\* fraction is left out, and the others are not told apart.
Time == [second: 0 .. MaxSecond, fraction: {0, 1}]

\* live: it has the id prefix of submit_handoff, one of the two types and data_mode
\* REAL; run: the run id in its task_id.
Event == [sender: Worker \cup {None}, run: Run \cup {None}, live: BOOLEAN, created: Time]

\* Of the structured_handoffs, seven: whether `senders` are the seven workers; and
\* complete.  endToEnd: end_to_end_verified.
Report == [run: Run \cup {None}, after: 0 .. MaxSecond \cup {None},
           seven: BOOLEAN, complete: BOOLEAN, endToEnd: BOOLEAN]

ASSUME NoReportAssumption == None \notin Report /\ Torn \notin Report

\* --run-id, --after and whether --wait-events is positive: each may be left out.
Arguments == [run: Run \cup {None}, after: 0 .. MaxSecond \cup {None}, waits: BOOLEAN]

ASSUME CallAssumption == Call \subseteq Arguments

Idle == [pc |-> "idle", run |-> None, after |-> None, waits |-> FALSE, seven |-> FALSE,
         document |-> None]

Session == [pc: {"idle", "ask", "wait", "open", "write", "status"},
            run: Run \cup {None}, after: 0 .. MaxSecond \cup {None}, waits: BOOLEAN,
            seven: BOOLEAN, document: Report \cup {None}]

Certificate == [run: Run, since: 0 .. MaxSecond]

Init ==
  /\ clock = 0
  /\ began = [r \in Run |-> None]
  /\ asked = {}
  /\ events = <<>>
  /\ session = [t \in Terminal |-> Idle]
  /\ report = None
  /\ cloud = None

At(t, pc) == session[t].pc = pc

-----------------------------------------------------------------------------
\* Time, the workers and whoever else writes to the event table

Tick ==
  /\ clock < MaxSecond
  /\ clock' = clock + 1
  /\ UNCHANGED <<began, asked, events, session, report, cloud>>

\* append_event(), within the second in which the caller has stamped the event: rows
\* need not come in the order of their times.
Insert(sender, run, live, fraction) ==
  /\ Len(events) < MaxEvents
  /\ events' = Append(events, [sender |-> sender, run |-> run, live |-> live,
                               created |-> [second |-> clock, fraction |-> fraction]])
  /\ UNCHANGED <<clock, began, asked, session, report, cloud>>

\* A worker calls collaboration.submit_handoff for a run it was asked for.
HandOff(w, r) == r \in asked /\ \E f \in {0, 1} : Insert(w, r, TRUE, f)

\* A pipeline, the workbench, or a worker that names no run or is not REAL.
OtherEvent == Insert(None, None, FALSE, 1)

-----------------------------------------------------------------------------
\* demo_agentteams.sh and make agentteams-verify

StartDemo(t) ==
  /\ At(t, "idle")
  /\ \E r \in Run :
       /\ began[r] = None
       /\ began' = [began EXCEPT ![r] = clock]
       /\ session' = [session EXCEPT ![t] =
            [Idle EXCEPT !.pc = "ask", !.run = r, !.after = clock, !.waits = TRUE]]
  /\ UNCHANGED <<clock, asked, events, report, cloud>>

\* The message is in the room; its sender may have been told that it is not, and
\* ends then.
Ask(t) ==
  /\ At(t, "ask")
  /\ asked' = asked \cup {session[t].run}
  /\ session' \in {[session EXCEPT ![t].pc = "wait"], [session EXCEPT ![t] = Idle]}
  /\ UNCHANGED <<clock, began, events, report, cloud>>

\* make agentteams-verify gives no argument; a human may give any of them.
StartVerify(t) ==
  /\ At(t, "idle")
  /\ \E c \in Call :
       session' = [session EXCEPT ![t] =
         [Idle EXCEPT !.pc = IF c.waits THEN "wait" ELSE "open",
                      !.run = c.run, !.after = c.after, !.waits = c.waits]]
  /\ UNCHANGED <<clock, began, asked, events, report, cloud>>

\* `created_at >= after` compares texts, and "." comes before "Z": in the second
\* of `after` only a time without a fraction is not before it.
NotBefore(created, after) ==
  created.second > after \/ (created.second = after /\ created.fraction = 0)

\* ORDER BY created_at compares texts, too; times that are not told apart go by row.
Newer(i) ==
  {j \in DOMAIN events :
     LET c == events[i].created
         d == events[j].created
     IN \/ NotBefore(d, c.second) /\ ~NotBefore(c, d.second)
        \/ c = d /\ i < j}

\* FAULTY VARIANTS, here and below: no specification uses them, they stand in
\* for a definition when the properties are tested for what they can detect.
OldestListed == {i \in DOMAIN events : i <= Window}
AnyRunsSenders(run, after) ==
  {events[i].sender :
     i \in {j \in DOMAIN events : /\ Cardinality(Newer(j)) < Window
                                  /\ events[j].live
                                  /\ after # None => NotBefore(events[j].created, after)}}

\* list_events(): the newest rows.
Listed == {i \in DOMAIN events : Cardinality(Newer(i)) < Window}

\* _runtime_handoffs(after, run_id): who sent them.  What is not given is not asked.
Senders(run, after) ==
  {events[i].sender :
     i \in {j \in Listed : /\ events[j].live
                           /\ after # None => NotBefore(events[j].created, after)
                           /\ run # None => events[j].run = run}}

Complete(senders) == Worker \subseteq senders

\* One round of the loop.  A look that does not find all seven leaves nothing behind
\* that is read again but who is missing, which is reported and not asked for.
Look(t) ==
  LET complete == Complete(Senders(session[t].run, session[t].after)) IN
  /\ At(t, "wait")
  /\ session' = [session EXCEPT ![t].seven = complete,
                                ![t].pc = IF complete THEN "open" ELSE "wait"]
  /\ UNCHANGED <<clock, began, asked, events, report, cloud>>

Deadline(t) ==
  /\ At(t, "wait")
  /\ session' = [session EXCEPT ![t].pc = "open"]
  /\ UNCHANGED <<clock, began, asked, events, report, cloud>>

\* write_text() empties the file before it writes.
Open(t) ==
  /\ At(t, "open")
  /\ report' = Torn
  /\ session' = [session EXCEPT ![t].pc = "write"]
  /\ UNCHANGED <<clock, began, asked, events, cloud>>

\* ready: the containers, the seven workers, the team and the observer were looked
\* up before the loop.  What they answered is the cluster's, and is used only here.
ReportOf(t, ready) ==
  LET complete == session[t].waits => session[t].seven
  IN [run |-> session[t].run, after |-> session[t].after, seven |-> session[t].seven,
      complete |-> complete, endToEnd |-> ready /\ session[t].waits /\ complete]

\* Of two reports written at once the longer one's end may stay.
Write(t) ==
  /\ At(t, "write")
  /\ \/ \E ready \in BOOLEAN : report' = ReportOf(t, ready)
     \/ report' = Torn /\ \E u \in Terminal \ {t} : At(u, "write")
     \/ report' = Torn /\ report \in Report
  /\ session' = [session EXCEPT ![t] = Idle]
  /\ UNCHANGED <<clock, began, asked, events, cloud>>

-----------------------------------------------------------------------------
\* cloud_deploy.sh and cloud_e2e.py

\* A file that is not whole raises.
ReadDocuments(t) ==
  /\ At(t, "idle")
  /\ report \in Report
  /\ session' = [session EXCEPT ![t].pc = "status", ![t].document = report]
  /\ UNCHANGED <<clock, began, asked, events, report, cloud>>

\* /api/status: the workbench reads the report anew; one that is not there or not
\* whole counts as empty.
Status ==
  IF report \in Report
  THEN [run |-> report.run, verified |-> report.endToEnd]
  ELSE [run |-> None, verified |-> FALSE]

HandedOffCurrently(d) == d.complete /\ d.seven /\ d.run # None

AfterAnything(d, since) == d.after # None

AfterCloudStart(d, since) == d.after # None /\ d.after >= since

\* What is verified has seven senders, so at least seven events are counted.
ShownLive(d) == Status.verified /\ Status.run = d.run

\* build_report() on the document read before, and main(), which writes whatever
\* comes out.  since: CLOUD_RUN_STARTED_AT, which cloud_deploy.sh took as it began, or
\* a human set for make cloud-e2e-report; it is read here only, and chosen here.  The
\* checks of files that no command here writes may fail, too.
Certify(t) ==
  LET d == session[t].document
      Verified(since) == /\ d.endToEnd /\ HandedOffCurrently(d)
                         /\ AfterCloudStart(d, since) /\ ShownLive(d)
  IN /\ At(t, "status")
     /\ \/ \E since \in 0 .. clock : Verified(since) /\ cloud' = [run |-> d.run, since |-> since]
        \/ cloud' = None
     /\ session' = [session EXCEPT ![t] = Idle]
     /\ UNCHANGED <<clock, began, asked, events, report>>

\* A command is interrupted, or one of its calls raises.
Abort(t) ==
  /\ ~At(t, "idle")
  /\ session' = [session EXCEPT ![t] = Idle]
  /\ UNCHANGED <<clock, began, asked, events, report, cloud>>

-----------------------------------------------------------------------------

Verify(t) == StartVerify(t) \/ Look(t) \/ Deadline(t) \/ Open(t) \/ Write(t)

CloudReport(t) == ReadDocuments(t) \/ Certify(t)

Next ==
  \/ Tick
  \/ \E w \in Worker, r \in Run : HandOff(w, r)
  \/ OtherEvent
  \/ \E t \in Terminal : StartDemo(t) \/ Ask(t) \/ Verify(t) \/ CloudReport(t) \/ Abort(t)

Spec == Init /\ [][Next]_vars

-----------------------------------------------------------------------------
\* Properties

TypeOK ==
  /\ clock \in 0 .. MaxSecond
  /\ began \in [Run -> 0 .. MaxSecond \cup {None}]
  /\ asked \subseteq Run
  /\ events \in Seq(Event)
  /\ session \in [Terminal -> Session]
  /\ report \in Report \cup {None, Torn}
  /\ cloud \in Certificate \cup {None}

\* Worker w has submitted a REAL hand-off, for run r and not before second s where
\* these are given.
HandedOff(w, r, s) ==
  \E i \in DOMAIN events :
    /\ events[i].live /\ events[i].sender = w
    /\ r # None => events[i].run = r
    /\ s # None => events[i].created.second >= s

\* A report says end to end only if all seven workers have handed off, in the very
\* run and since the very second it names: replayed events, late answers to an
\* earlier run, repeated answers of a few workers and the message alone never add up
\* (README.md:68).  One that names no run says only that each has handed off once.
EndToEndMeansHandedOff ==
  report \in Report /\ report.endToEnd =>
    \A w \in Worker : HandedOff(w, report.run, report.after)

\* A deployment is certified only by a run in which all seven handed off after the
\* deployment began, although the report is read twice, other commands may replace it
\* before, between and after, and one called by hand may name any run and second
\* (cloud_e2e.py:52-109).
CertifiedByOwnRun ==
  cloud # None => \A w \in Worker : HandedOff(w, cloud.run, cloud.since)

\* While the script waits for its run, a look at any moment finds every worker that
\* has handed off in the run, whatever else is inserted in which order, but for a
\* hand-off with 500 newer events or one made in the very second in which the script
\* began: the texts compare that way (verify_agentteams.py:32-40).
MissesOnlyUnlisted ==
  \A t \in Terminal :
    LET s == session[t] IN
    At(t, "wait") /\ s.run # None /\ s.after # None /\ s.after = began[s.run] =>
      \A i \in DOMAIN events :
        events[i].live /\ events[i].run = s.run =>
          \/ events[i].sender \in Senders(s.run, s.after)
          \/ Cardinality(Newer(i)) >= Window
          \/ events[i].created = [second |-> s.after, fraction |-> 1]

=============================================================================
