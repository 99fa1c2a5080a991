------------------------------- MODULE Pipeline -------------------------------
(***************************************************************************)
(* The offline decision pipelines (NapPillowPipeline, NewCategoryPipeline) *)
(* over the task and artifact stores.  A run is straight-line code made of *)
(* a few helper calls: _task() creates and starts a task, _commit() stores *)
(* an artifact, _finish_task() submits and accepts a task.  What the       *)
(* helpers do is here; the sequence of calls is the constant Program, and  *)
(* NapPillow and NewCategory give it.                                      *)
(*                                                                         *)
(* A run may be interrupted before any call: killed, or one of its calls   *)
(* raises ("database is locked"; ConcurrencyError when the MCP server      *)
(* committed to the project after the run read its revision).  Its rows    *)
(* stay, its memory is lost, and the command is simply started again: the  *)
(* fixed ids and idempotency keys make a rerun pick up the rows it finds.  *)
(* Each call of the stores is one step, which TaskStore and ArtifactStore  *)
(* justify for one process.                                                *)
(***************************************************************************)
EXTENDS Naturals, Sequences, FiniteSets

CONSTANTS
  Task, Artifact,  \* the tasks and artifacts of the project
  Mode,            \* the data modes the command is started with on one database
  Program,         \* the calls of a run in each mode
  Depends,         \* depends_on of each task
  LinksInputs,     \* whether the commit helper also records edges from the inputs
  Decision,        \* the task that ends in the decision
  Approval,        \* the artifact that records a human approval
  MaxCrashes       \* BOUND on interruptions

None == "none"

NoState == "NONE"

Verdict == {"ACCEPTED", "REVISE", None}

Step == [op: {"begin", "commit", "finish", "remedy"}, task: Task,
         artifact: Artifact \cup {None}, refs: Seq(Artifact), verdict: Verdict]

\* The calls a program is written with.
Begin(t) == [op |-> "begin", task |-> t, artifact |-> None, refs |-> <<>>, verdict |-> None]
Commit(t, a, refs) == [op |-> "commit", task |-> t, artifact |-> a, refs |-> refs, verdict |-> None]
Decide(t, v, refs) == [op |-> "finish", task |-> t, artifact |-> None, refs |-> refs, verdict |-> v]
Finish(t, refs) == Decide(t, "ACCEPTED", refs)
Remedy(t) == [op |-> "remedy", task |-> t, artifact |-> None, refs |-> <<>>, verdict |-> None]

ASSUME ProgramAssumption ==
  /\ Program \in [Mode -> Seq(Step)]
  /\ Depends \in [Task -> SUBSET Task]
  /\ None \notin Mode \cup Artifact
  /\ LinksInputs \in BOOLEAN
  /\ MaxCrashes \in Nat

VARIABLES
  task,      \* table tasks: task -> state, NoState without a row
  artifact,  \* table artifacts: artifact -> the mode of the run that stored it
  edges,     \* table artifact_edges (as a set: a rerun inserts its edges again)
  report,    \* run.json: the mode of the last run that came to its end
  mode,      \* the mode of the run in progress, None between runs
  at,        \* the call it is at
  phase,     \* how far inside that call
  nodes,     \* its in-memory ArtifactGraph: the nodes registered so far
  linked,    \* inside a commit: the number of inputs linked so far
  crashes

store == <<task, artifact, edges, report>>
run == <<mode, at, phase, nodes, linked>>
vars == <<store, run, crashes>>

Range_(s) == {s[i] : i \in 1..Len(s)}

Call == Program[mode][at]

Committed == {a \in Artifact : artifact[a] # None}

-----------------------------------------------------------------------------

Init ==
  /\ task = [t \in Task |-> NoState]
  /\ artifact = [a \in Artifact |-> None]
  /\ edges = {}
  /\ report = None
  /\ mode = None
  /\ at = 0
  /\ phase = "call"
  /\ nodes = {}
  /\ linked = 0
  /\ crashes = 0

\* The interpreter starts or exits with nothing in memory.
Memory(m, n) ==
  /\ mode' = m
  /\ at' = n
  /\ phase' = "call"
  /\ nodes' = {}
  /\ linked' = 0

Start(m) ==
  /\ mode = None
  /\ Memory(m, 1)
  /\ UNCHANGED <<store, crashes>>

\* The run is at a call of kind op and has got to phase p of it.
Inside(op, p) ==
  /\ mode # None
  /\ at <= Len(Program[mode])
  /\ Call.op = op
  /\ phase = p

Return ==
  /\ at' = at + 1
  /\ phase' = "call"
  /\ linked' = 0
  /\ UNCHANGED mode

Continue(p) ==
  /\ phase' = p
  /\ UNCHANGED <<mode, at, linked>>

SetTask(s) == task' = [task EXCEPT ![Call.task] = s]

-----------------------------------------------------------------------------
\* _task()

\* FAULTY VARIANTS, here and below: no specification uses them, they stand in
\* for a definition when the properties are tested for what they can detect.
NeverRestarted(s) == FALSE
AlwaysRestarted(s) == s \in {"PENDING", "REVISE"}

\* `if task.state == TaskState.PENDING`
NeedsStart(s) == s = "PENDING"

BeginNew ==
  /\ Inside("begin", "call")
  /\ task[Call.task] = NoState
  /\ SetTask("PENDING")
  /\ Continue("created")
  /\ UNCHANGED <<artifact, edges, report, nodes, crashes>>

\* create() answers with the row of an earlier run.
BeginAgain ==
  /\ Inside("begin", "call")
  /\ task[Call.task] # NoState
  /\ IF NeedsStart(task[Call.task]) THEN Continue("created") ELSE Return
  /\ UNCHANGED <<store, nodes, crashes>>

DependenciesIgnored(t) == TRUE

DependenciesAccepted(t) == \A d \in Depends[t] : task[d] = "ACCEPTED"

BeginReady ==
  /\ Inside("begin", "created")
  /\ DependenciesAccepted(Call.task)
  /\ SetTask("READY")
  /\ Continue("ready")
  /\ UNCHANGED <<artifact, edges, report, nodes, crashes>>

\* TaskNotReady ends the run.
BeginNotReady ==
  /\ Inside("begin", "created")
  /\ ~DependenciesAccepted(Call.task)
  /\ Memory(None, 0)
  /\ UNCHANGED <<store, crashes>>

BeginRunning ==
  /\ Inside("begin", "ready")
  /\ SetTask("RUNNING")
  /\ Return
  /\ UNCHANGED <<artifact, edges, report, nodes, crashes>>

-----------------------------------------------------------------------------
\* _commit() and _artifact()

\* commit() raises ArtifactNotFound, and the graph of the helper that links
\* inputs KeyError, for an input that is not there yet.
InputsPresent ==
  /\ Range_(Call.refs) \subseteq Committed
  /\ LinksInputs => Range_(Call.refs) \subseteq nodes

StoredAnew(a) == mode

\* Artifact a in the store after the call: what an earlier run stored stays.
Stored(a) == IF artifact[a] = None THEN mode ELSE artifact[a]

RegisteredWhenNew(a) == IF artifact[a] = None THEN nodes \cup {a} ELSE nodes

\* `self.graph.add_node(...)`, whether the artifact is new or not.
Registered(a) == nodes \cup {a}

LinkedWhenNew(a) == LinksInputs /\ artifact[a] = None

MustLink(a) == LinksInputs

CommitArtifact ==
  LET a == Call.artifact
  IN /\ Inside("commit", "call")
     /\ InputsPresent
     /\ artifact' = [artifact EXCEPT ![a] = Stored(a)]
     /\ nodes' = Registered(a)
     /\ IF MustLink(a) /\ Call.refs # <<>> THEN Continue("link") ELSE Return
     /\ UNCHANGED <<task, edges, report, crashes>>

\* `for parent in envelope.input_refs`: one add_edge() each.
CommitLink ==
  /\ Inside("commit", "link")
  /\ edges' = edges \cup {<<Call.refs[linked + 1], Call.artifact>>}
  /\ IF linked + 1 = Len(Call.refs)
     THEN Return
     ELSE /\ linked' = linked + 1
          /\ UNCHANGED <<mode, at, phase>>
  /\ UNCHANGED <<task, artifact, report, nodes, crashes>>

-----------------------------------------------------------------------------
\* _finish_task(), _finish() and the end of the decision task

FinishSubmit ==
  /\ Inside("finish", "call")
  /\ task[Call.task] = "RUNNING"
  /\ SetTask("SUBMITTED")
  /\ IF Call.verdict = None THEN Return ELSE Continue("submitted")
  /\ UNCHANGED <<artifact, edges, report, nodes, crashes>>

AlwaysAccepts ==
  /\ Inside("finish", "submitted")
  /\ SetTask("ACCEPTED")
  /\ Return
  /\ UNCHANGED <<artifact, edges, report, nodes, crashes>>

\* "acceptance-gate" accepts, or "gap2sku-reviewer" asks for a revision.
FinishJudge ==
  /\ Inside("finish", "submitted")
  /\ SetTask(Call.verdict)
  /\ Return
  /\ UNCHANGED <<artifact, edges, report, nodes, crashes>>

FinishRaises ==
  /\ Inside("finish", "call")
  /\ task[Call.task] # "RUNNING"
  /\ Memory(None, 0)
  /\ UNCHANGED <<store, crashes>>

\* `if current and current.state == TaskState.RUNNING`
FinishSkip ==
  /\ Inside("finish", "call")
  /\ task[Call.task] # "RUNNING"
  /\ Return
  /\ UNCHANGED <<store, nodes, crashes>>

-----------------------------------------------------------------------------
\* FailureLoopback.create_revision_tasks(), one create() per finding, and the
\* end of run()

CreateRemedy ==
  /\ Inside("remedy", "call")
  /\ task' = [task EXCEPT ![Call.task] = IF @ = NoState THEN "PENDING" ELSE @]
  /\ Return
  /\ UNCHANGED <<artifact, edges, report, nodes, crashes>>

\* run.json is written and the stores are closed.
End ==
  /\ mode # None
  /\ at = Len(Program[mode]) + 1
  /\ report' = mode
  /\ Memory(None, 0)
  /\ UNCHANGED <<task, artifact, edges, crashes>>

RolledBack == [a \in Artifact |-> None]

\* `self._conn.execute("COMMIT")`: commit() has ended its transaction when it
\* returns.
Survives == artifact

Crash ==
  /\ mode # None
  /\ crashes < MaxCrashes
  /\ crashes' = crashes + 1
  /\ artifact' = Survives
  /\ Memory(None, 0)
  /\ UNCHANGED <<task, edges, report>>

-----------------------------------------------------------------------------

Run ==
  \/ BeginNew \/ BeginAgain \/ BeginReady \/ BeginNotReady \/ BeginRunning
  \/ CommitArtifact \/ CommitLink
  \/ FinishSubmit \/ FinishJudge \/ FinishSkip
  \/ CreateRemedy \/ End

StartAny == \E m \in Mode : Start(m)

Next == StartAny \/ Run \/ Crash

Spec == Init /\ [][Next]_vars

-----------------------------------------------------------------------------
\* What the program says about a task or an artifact, for the properties.

Calls(m) == Range_(Program[m])

CommitCalls == [m \in Mode |-> {c \in Calls(m) : c.op = "commit"}]

FinishCalls == [m \in Mode |-> {c \in Calls(m) : c.op = "finish"}]

-----------------------------------------------------------------------------
\* Properties

\* What the two programs have in common, and the theorems about Pipeline
\* suppose: what a commit is derived from and what a task is submitted with is
\* committed by earlier calls; a commit comes after the _task() call of its
\* task; modes agree on the task of an artifact and on what a task submits.
WellOrdered ==
  /\ \A m \in Mode : \A i \in 1..Len(Program[m]) :
       /\ \A a \in Range_(Program[m][i].refs) : \E j \in 1..(i - 1) :
            Program[m][j].op = "commit" /\ Program[m][j].artifact = a
       /\ Program[m][i].op = "commit" =>
            /\ Program[m][i].artifact \in Artifact
            /\ \E j \in 1..(i - 1) :
                 Program[m][j].op = "begin" /\ Program[m][j].task = Program[m][i].task
  /\ \A m, n \in Mode : \A c \in CommitCalls[m], d \in CommitCalls[n] :
       c.artifact = d.artifact => c.task = d.task
  /\ \A m, n \in Mode : \A c \in FinishCalls[m], d \in FinishCalls[n] :
       c.task = d.task => c.refs = d.refs

\* What the theorems about reruns suppose besides: only a task that the run has
\* begun is finished; what a task depends on is finished before the task is
\* begun, and never but by its acceptance; a decision is accepted after the
\* call that records an approval.
FinishesBegun ==
  \A m \in Mode : \A i \in 1..Len(Program[m]) : Program[m][i].op = "finish" =>
    \E j \in 1..(i - 1) : Program[m][j].op = "begin" /\ Program[m][j].task = Program[m][i].task

Firm(t) == \A m \in Mode : \A c \in FinishCalls[m] : c.task = t => c.verdict = "ACCEPTED"

DependenciesFinished ==
  \A m \in Mode : \A i \in 1..Len(Program[m]) : Program[m][i].op = "begin" =>
    \A d \in Depends[Program[m][i].task] :
      /\ Firm(d)
      /\ \E j \in 1..(i - 1) : Program[m][j].op = "finish" /\ Program[m][j].task = d

ApprovedFirst ==
  \A m \in Mode : \A i \in 1..Len(Program[m]) :
    LET c == Program[m][i]
    IN c.op = "finish" /\ c.task = Decision /\ c.verdict = "ACCEPTED" =>
         \E j \in 1..(i - 1) : Program[m][j].op = "commit" /\ Program[m][j].artifact = Approval

TypeOK ==
  /\ task \in [Task -> {NoState, "PENDING", "READY", "RUNNING", "SUBMITTED", "ACCEPTED", "REVISE"}]
  /\ artifact \in [Artifact -> Mode \cup {None}]
  /\ edges \subseteq Artifact \X Artifact
  /\ report \in Mode \cup {None}
  /\ mode \in Mode \cup {None}
  /\ at \in 0..(IF mode = None THEN 0 ELSE Len(Program[mode]) + 1)
  /\ phase \in {"call", "created", "ready", "link", "submitted"}
  /\ nodes \subseteq Artifact
  /\ linked \in Nat
  /\ crashes \in 0..MaxCrashes

\* However often runs were interrupted and in whichever mode they ran, a run
\* never asks the stores for an input that is not there: no ArtifactNotFound
\* from commit() (store.py:253), no KeyError from the graph (graph.py:60).
InputsNeverMissing == Inside("commit", "call") => InputsPresent

\* A submitted, accepted or revised task named only artifacts that are in the
\* store (the artifact_refs of its events), whichever run stored them.
JudgedOnDelivery ==
  \A m \in Mode : \A c \in FinishCalls[m] :
    task[c.task] \in {"SUBMITTED", "ACCEPTED", "REVISE"} => Range_(c.refs) \subseteq Committed

\* What is in the store was made on accepted work: every task that the task of
\* an artifact depends on is ACCEPTED, whichever run stored the artifact and
\* however the runs before it ended.
BuiltOnAccepted ==
  \A m \in Mode : \A c \in CommitCalls[m] :
    artifact[c.artifact] # None => \A d \in Depends[c.task] : task[d] = "ACCEPTED"

\* A decision is ACCEPTED only when a recorded human approval is in the store
\* ("it is never auto-accepted", nap_pillow.py:525).
AcceptedDecisionIsApproved == task[Decision] = "ACCEPTED" => Approval \in Committed

\* After a run came to its end, running the command again in the same mode
\* changes no task and no artifact, also when the rerun is interrupted.
RerunChangesNothing ==
  [][report # None /\ mode = report => UNCHANGED <<task, artifact, edges>>]_vars

\* A task that was left between the two advance() calls that start it, or the
\* two that end it: no rerun moves it again.
Stuck(t) == task[t] \in {"READY", "SUBMITTED"}

\* A run is refused with TaskNotReady only behind a task that an interruption
\* left between two advance() calls.
RefusedOnlyBehindStuck ==
  Inside("begin", "created") /\ ~DependenciesAccepted(Call.task) =>
    crashes > 0 /\ \E d \in Depends[Call.task] : Stuck(d)

\* What a completed run leaves behind has all its edges, also those that an
\* interrupted run stored the artifact for but did not get to.
EdgesComplete ==
  report # None /\ LinksInputs =>
    \A c \in CommitCalls[report] :
      \A a \in Range_(c.refs) : <<a, c.artifact>> \in edges

\* Unless an interruption leaves a task stuck for good, the command comes to
\* its end however often it has to be started.
EndsUnlessStuck == <>(report # None) \/ <>[](\E t \in Task : Stuck(t))

-----------------------------------------------------------------------------
\* What the stores promise, kept by a run and its reruns

\* `f"{PROJECT_ID}-{name}-r001"` and `f"{PROJECT_ID}:{name}:r001"`, or a finding's own id and key:
\* a task has one of each.
TaskContract(t) == [id |-> t, key |-> t, depends |-> Depends[t], state |-> "PENDING"]

Board == INSTANCE TaskBoard
  WITH TaskId <- Task, Contract <- {TaskContract(t) : t \in Task}, NoContract <- None,
       state <- task,
       contract <- [t \in Task |-> IF task[t] = NoState THEN None ELSE TaskContract(t)]

\* The two programs and their interruptions drive the tasks as the task board
\* promises: a start behind its dependencies, a report, then one judgement.
ImplementsBoard == Board!Spec

\* The envelope a run in a mode commits as an artifact: its inputs and, as for
\* the payload, the mode of the run.  `f"{PROJECT_ID}:{artifact_id}:{version}"`
\* is its key, in every mode.
Envelope ==
  [m \in Mode |-> [a \in Artifact |->
     [id |-> a, project |-> "project", key |-> a, mode |-> m,
      refs |-> UNION {Range_(c.refs) : c \in {d \in CommitCalls[m] : d.artifact = a}}]]]

\* A run that commits an artifact again commits it with the same inputs.
CommitsOnce ==
  \A m \in Mode : \A c, d \in CommitCalls[m] : c.artifact = d.artifact => c.refs = d.refs

Entries == {[id |-> a, version |-> 1, call |-> Envelope[artifact[a]][a]] : a \in Committed}

Ledger == INSTANCE ArtifactLedger
  WITH ArtifactId <- Artifact, Project <- {"project"}, Version <- {1},
       Call <- {Envelope[m][a] : m \in Mode, a \in Artifact},
       ledger <- Entries,
       commits <- [p \in {"project"} |-> Cardinality(Committed)],
       stale <- {},
       answers <- {[key |-> a, ref |-> [id |-> a, version |-> 1]] : a \in Committed}

\* Artifacts are only appended, one at a time and behind their inputs, and what
\* one run stored is never rewritten by another, whatever its mode.
ImplementsLedger == Ledger!Spec

=============================================================================
