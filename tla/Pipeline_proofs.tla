--------------------------- MODULE Pipeline_proofs ---------------------------
(***************************************************************************)
(* Theorems about Pipeline, for every program that is WellOrdered, every   *)
(* set of modes sharing a database and any number of interruptions.  What  *)
(* is said of reruns, refusals and approvals supposes a little more of the *)
(* program; see the conditions beside WellOrdered.                         *)
(***************************************************************************)
EXTENDS Pipeline, FiniteSetTheorems, TLAPS

Started == {"READY", "RUNNING", "SUBMITTED", "ACCEPTED", "REVISE"}

Judged == {"SUBMITTED", "ACCEPTED", "REVISE"}

TaskStates == {NoState, "PENDING"} \cup Started

\* Between runs there is no memory; inside a call, the row the call works on
\* is as the call left it.
PhaseInv ==
  /\ mode = None => at = 0 /\ phase = "call"
  /\ mode # None => at >= 1
  /\ phase # "call" => at <= Len(Program[mode])
  /\ phase = "created" => Call.op = "begin" /\ task[Call.task] = "PENDING"
  /\ phase = "ready" => Call.op = "begin" /\ task[Call.task] = "READY"
  /\ phase = "submitted" =>
       Call.op = "finish" /\ task[Call.task] = "SUBMITTED" /\ Call.verdict # None
  /\ phase = "link" =>
       /\ Call.op = "commit"
       /\ Call.artifact \in Committed \cap nodes
       /\ linked < Len(Call.refs)
  /\ phase # "link" => linked = 0

\* What the calls a run has behind it have established.
RunInv ==
  mode # None => \A i \in 1..(at - 1) :
    /\ Program[mode][i].op = "commit" => Program[mode][i].artifact \in Committed \cap nodes
    /\ Program[mode][i].op = "begin" => task[Program[mode][i].task] \in Started

StartedInv == \A t \in Task : task[t] \in Started => DependenciesAccepted(t)

BuiltInv ==
  \A m \in Mode : \A c \in CommitCalls[m] : c.artifact \in Committed => task[c.task] \in Started

IInv == TypeOK /\ PhaseInv /\ RunInv /\ StartedInv /\ BuiltInv /\ JudgedOnDelivery

-----------------------------------------------------------------------------
\* The call a run is at.

LEMMA CallType ==
  ASSUME TypeOK, mode # None, at >= 1, at <= Len(Program[mode])
  PROVE  /\ mode \in Mode
         /\ Program[mode] \in Seq(Step)
         /\ at \in 1..Len(Program[mode])
         /\ Call \in Step
         /\ Call.task \in Task
         /\ Call.refs \in Seq(Artifact)
         /\ Call.verdict \in Verdict
<1>1. mode \in Mode  BY DEF TypeOK
<1>2. Program[mode] \in Seq(Step)  BY <1>1, ProgramAssumption
<1>3. at \in 1..Len(Program[mode])  BY <1>2 DEF TypeOK
<1>4. Call \in Step  BY <1>2, <1>3 DEF Call
<1>. QED  BY <1>1, <1>2, <1>3, <1>4 DEF Step

LEMMA StepType ==
  ASSUME NEW m \in Mode
  PROVE  /\ \A i \in 1..Len(Program[m]) : Program[m][i].task \in Task
         /\ \A c \in CommitCalls[m] \cup FinishCalls[m] : c.task \in Task
<1>1. Program[m] \in Seq(Step)  BY ProgramAssumption
<1>2. \A i \in 1..Len(Program[m]) : Program[m][i] \in Step  BY <1>1
<1>3. Calls(m) \subseteq Step  BY <1>2 DEF Calls, Range_
<1>4. CommitCalls[m] \cup FinishCalls[m] \subseteq Step  BY <1>3 DEF CommitCalls, FinishCalls
<1>. QED  BY <1>2, <1>4 DEF Step

\* What a call names was committed by earlier calls of the run.
LEMMA InputsThere ==
  ASSUME WellOrdered, IInv, mode # None, at <= Len(Program[mode])
  PROVE  InputsPresent
<1>1. at >= 1 /\ mode \in Mode /\ at \in 1..Len(Program[mode])
  BY CallType DEF IInv, PhaseInv
<1>2. ASSUME NEW a \in Range_(Call.refs)  PROVE a \in Committed \cap nodes
  <2>1. \A k \in 1..Len(Program[mode]) :
          \A b \in Range_(Program[mode][k].refs) : \E j \in 1..(k - 1) :
            Program[mode][j].op = "commit" /\ Program[mode][j].artifact = b
    BY <1>1, Zenon DEF WellOrdered
  <2>2. PICK j \in 1..(at - 1) :
          Program[mode][j].op = "commit" /\ Program[mode][j].artifact = a
    BY <1>1, <1>2, <2>1, Zenon DEF Call
  <2>. QED  BY <2>2 DEF IInv, RunInv
<1>. QED  BY <1>2 DEF InputsPresent

-----------------------------------------------------------------------------
\* Only four kinds of step write a task row, none of a started task but to a
\* started state, and none of an accepted task.

TaskWrite ==
  \E t \in Task, s \in TaskStates :
    /\ task' = [task EXCEPT ![t] = s]
    /\ task[t] \in Started => s \in Started
    /\ task[t] # "ACCEPTED"
    /\ s \in Started => task[t] \in Started \/ DependenciesAccepted(t)

TaskStep == UNCHANGED task \/ TaskWrite

LEMMA NextWritesTasks ==
  ASSUME IInv, [Next]_vars
  PROVE  TaskStep
<1>. USE DEF IInv
<1>1. CASE BeginNew
  <2>1. Call.task \in Task  BY <1>1, CallType DEF BeginNew, Inside, PhaseInv
  <2>2. task[Call.task] = NoState /\ task' = [task EXCEPT ![Call.task] = "PENDING"]
    BY <1>1 DEF BeginNew, SetTask
  <2>3. "PENDING" \in TaskStates \ Started /\ task[Call.task] \notin Started \cup {"ACCEPTED"}
    BY <2>2 DEF TaskStates, Started, NoState
  <2>. QED  BY <2>1, <2>2, <2>3 DEF TaskStep, TaskWrite
<1>2. CASE BeginReady
  <2>1. Call.task \in Task /\ task[Call.task] = "PENDING"
    BY <1>2, CallType DEF BeginReady, Inside, PhaseInv
  <2>2. DependenciesAccepted(Call.task) /\ task' = [task EXCEPT ![Call.task] = "READY"]
    BY <1>2 DEF BeginReady, SetTask
  <2>3. "READY" \in TaskStates /\ ~(task[Call.task] \in Started)  BY <2>1 DEF TaskStates, Started
  <2>4. TaskWrite  BY <2>1, <2>2, <2>3 DEF TaskWrite, Started
  <2>. QED  BY <2>4 DEF TaskStep
<1>3. CASE BeginRunning
  <2>1. Call.task \in Task /\ task[Call.task] = "READY"
    BY <1>3, CallType DEF BeginRunning, Inside, PhaseInv
  <2>. QED  BY <1>3, <2>1 DEF BeginRunning, SetTask, TaskStep, TaskWrite, TaskStates, Started
<1>4. CASE FinishSubmit
  <2>1. Call.task \in Task  BY <1>4, CallType DEF FinishSubmit, Inside, PhaseInv
  <2>. QED  BY <1>4, <2>1 DEF FinishSubmit, SetTask, TaskStep, TaskWrite, TaskStates, Started
<1>5. CASE FinishJudge
  <2>1. Call.task \in Task /\ task[Call.task] = "SUBMITTED"
        /\ Call.verdict \in {"ACCEPTED", "REVISE"}
    BY <1>5, CallType DEF FinishJudge, Inside, PhaseInv, Verdict
  <2>. QED  BY <1>5, <2>1 DEF FinishJudge, SetTask, TaskStep, TaskWrite, TaskStates, Started
<1>6. CASE CreateRemedy
  <2>1. Call.task \in Task  BY <1>6, CallType DEF CreateRemedy, Inside, PhaseInv
  <2>2. CASE task[Call.task] = NoState
    <3>1. task' = [task EXCEPT ![Call.task] = "PENDING"]
      BY <1>6, <2>1, <2>2 DEF CreateRemedy, TypeOK
    <3>2. "PENDING" \in TaskStates \ Started /\ task[Call.task] \notin Started \cup {"ACCEPTED"}
      BY <2>2 DEF TaskStates, Started, NoState
    <3>. QED  BY <2>1, <3>1, <3>2 DEF TaskStep, TaskWrite
  <2>3. CASE task[Call.task] # NoState
    <3>1. task' = task  BY <1>6, <2>1, <2>3 DEF CreateRemedy, TypeOK
    <3>. QED  BY <3>1 DEF TaskStep
  <2>. QED  BY <2>2, <2>3
<1>7. CASE BeginAgain \/ BeginNotReady \/ CommitArtifact \/ CommitLink \/ FinishSkip \/ End
           \/ StartAny \/ Crash \/ UNCHANGED vars
  BY <1>7 DEF BeginAgain, BeginNotReady, CommitArtifact, CommitLink, FinishSkip, End, StartAny,
              Start, Crash, TaskStep, store, vars
<1>. QED  BY <1>1, <1>2, <1>3, <1>4, <1>5, <1>6, <1>7 DEF Next, Run

\* So a started task stays started, and an accepted one accepted.
LEMMA TasksKept ==
  ASSUME TypeOK, TaskStep
  PROVE  /\ task' \in [Task -> TaskStates]
         /\ \A t \in Task : task[t] \in Started => task'[t] \in Started
         /\ \A t \in Task : task[t] = "ACCEPTED" => task'[t] = "ACCEPTED"
         /\ \A t \in Task : DependenciesAccepted(t) => DependenciesAccepted(t)'
<1>1. task \in [Task -> TaskStates]  BY DEF TypeOK, TaskStates, Started
<1>2. /\ task' \in [Task -> TaskStates]
      /\ \A t \in Task : task[t] \in Started => task'[t] \in Started
      /\ \A t \in Task : task[t] = "ACCEPTED" => task'[t] = "ACCEPTED"
  BY <1>1 DEF TaskStep, TaskWrite
<1>. QED  BY <1>2, ProgramAssumption DEF DependenciesAccepted

\* The one step that writes an artifact row is a commit.
LEMMA OnlyCommitWrites ==
  ASSUME [Next]_vars
  PROVE  CommitArtifact \/ UNCHANGED artifact
BY DEF Next, Run, BeginNew, BeginAgain, BeginReady, BeginNotReady, BeginRunning, CommitLink,
       FinishSubmit, FinishJudge, FinishSkip, CreateRemedy, End, StartAny, Start, Crash, Survives,
       vars, store

\* Artifacts are only added.
LEMMA ArtifactsKept ==
  ASSUME IInv, WellOrdered, [Next]_vars
  PROVE  /\ artifact' \in [Artifact -> Mode \cup {None}]
         /\ Committed \subseteq Committed'
         /\ \A a \in Committed' \ Committed :
              CommitArtifact /\ a = Call.artifact
<1>. USE DEF IInv
<1>1. CASE CommitArtifact
  <2>1. mode \in Mode /\ Call.artifact \in Artifact
    BY <1>1, CallType DEF CommitArtifact, Inside, PhaseInv, WellOrdered, Call
  <2>2. Stored(Call.artifact) \in Mode /\ (artifact[Call.artifact] # None =>
          Stored(Call.artifact) = artifact[Call.artifact])
    BY <2>1 DEF Stored, TypeOK
  <2>. QED  BY <1>1, <2>1, <2>2, ProgramAssumption DEF CommitArtifact, Committed, TypeOK
<1>2. CASE UNCHANGED artifact
  BY <1>2 DEF Committed, TypeOK
<1>. QED  BY <1>1, <1>2, OnlyCommitWrites

-----------------------------------------------------------------------------
\* Each part of the invariant over one step.

LEMMA TypeKept ==
  ASSUME IInv, WellOrdered, [Next]_vars
  PROVE  TypeOK'
<1>. USE DEF IInv
<1>1. task' \in [Task -> TaskStates] /\ artifact' \in [Artifact -> Mode \cup {None}]
  BY NextWritesTasks, TasksKept, ArtifactsKept
<1>2. /\ edges' \subseteq Artifact \X Artifact
      /\ report' \in Mode \cup {None}
      /\ mode' \in Mode \cup {None}
      /\ at' \in 0..(IF mode' = None THEN 0 ELSE Len(Program[mode']) + 1)
      /\ phase' \in {"call", "created", "ready", "link", "submitted"}
      /\ nodes' \subseteq Artifact
      /\ linked' \in Nat
      /\ crashes' \in 0..MaxCrashes
  <2>1. CASE mode # None /\ at <= Len(Program[mode]) /\ Run
    <3>1. /\ mode \in Mode /\ Call.task \in Task /\ Call.refs \in Seq(Artifact)
          /\ Program[mode] \in Seq(Step)
          /\ at \in 1..Len(Program[mode]) /\ at + 1 \in 0..(Len(Program[mode]) + 1)
      BY <2>1, CallType DEF PhaseInv
    <3>2. Call.op = "commit" => Call.artifact \in Artifact
      BY <3>1 DEF WellOrdered, Call
    <3>3. CASE CommitArtifact
      BY <3>1, <3>2, <3>3, ProgramAssumption
      DEF CommitArtifact, Registered, Inside, Continue, Return, TypeOK
    <3>4. CASE CommitLink
      <4>1. Call.artifact \in Artifact /\ Call.refs[linked + 1] \in Artifact
        BY <3>1, <3>2, <3>4 DEF CommitLink, Inside, PhaseInv, TypeOK
      <4>. QED
        BY <3>1, <3>4, <4>1, ProgramAssumption DEF CommitLink, Inside, Return, TypeOK
    <3>5. CASE BeginNew \/ BeginAgain \/ BeginReady \/ BeginRunning
      BY <3>1, <3>5, ProgramAssumption
      DEF BeginNew, BeginAgain, BeginReady, BeginRunning, Inside, Continue, Return, TypeOK, store
    <3>6. CASE FinishSubmit \/ FinishJudge \/ FinishSkip \/ CreateRemedy
      BY <3>1, <3>6, ProgramAssumption
      DEF FinishSubmit, FinishJudge, FinishSkip, CreateRemedy, Inside, Continue, Return, TypeOK,
          store
    <3>7. CASE BeginNotReady
      BY <3>7, ProgramAssumption DEF BeginNotReady, Memory, TypeOK, store
    <3>8. CASE End
      BY <3>1, <3>8, ProgramAssumption DEF End, Memory, TypeOK
    <3>. QED  BY <2>1, <3>3, <3>4, <3>5, <3>6, <3>7, <3>8 DEF Run
  <2>2. CASE mode # None /\ ~(at <= Len(Program[mode])) /\ Run
    <3>1. End
      BY <2>2 DEF Run, BeginNew, BeginAgain, BeginReady, BeginNotReady, BeginRunning,
                  CommitArtifact, CommitLink, FinishSubmit, FinishJudge, FinishSkip, CreateRemedy,
                  Inside
    <3>. QED  BY <3>1, ProgramAssumption DEF End, Memory, TypeOK
  <2>3. CASE Crash
    BY <2>3, ProgramAssumption DEF Crash, Survives, Memory, TypeOK, store
  <2>4. CASE StartAny
    <3>1. PICK m \in Mode : Start(m)  BY <2>4 DEF StartAny
    <3>2. Len(Program[m]) \in Nat /\ m # None  BY ProgramAssumption
    <3>. QED  BY <3>1, <3>2 DEF Start, Memory, TypeOK, store
  <2>5. CASE UNCHANGED vars
    BY <2>5 DEF vars, store, run, TypeOK
  <2>6. Run => mode # None
    BY DEF Run, BeginNew, BeginAgain, BeginReady, BeginNotReady, BeginRunning,
           CommitArtifact, CommitLink, FinishSubmit, FinishJudge, FinishSkip, CreateRemedy,
           Inside, End
  <2>. QED  BY <2>1, <2>2, <2>3, <2>4, <2>5, <2>6 DEF Next
<1>. QED  BY <1>1, <1>2 DEF TypeOK, TaskStates, Started

\* The program does not change, so a call that keeps its place keeps its text.
LEMMA PhaseKept ==
  ASSUME IInv, WellOrdered, [Next]_vars
  PROVE  PhaseInv'
<1>. USE DEF IInv
<1>1. CASE mode # None /\ at <= Len(Program[mode]) /\ Run
  <2>1. /\ mode \in Mode /\ Call.task \in Task /\ Call.refs \in Seq(Artifact)
        /\ at \in 1..Len(Program[mode]) /\ task \in [Task -> TaskStates]
    BY <1>1, CallType DEF PhaseInv, TypeOK, TaskStates, Started
  <2>2. CASE CommitArtifact
    <3>1. Call.artifact \in Artifact
      BY <2>1, <2>2 DEF WellOrdered, Call, CommitArtifact, Inside
    <3>2. Call.artifact \in Committed' \cap nodes'
      BY <2>1, <2>2, <3>1, ProgramAssumption
      DEF CommitArtifact, Registered, Stored, Committed, TypeOK
    <3>3. CASE MustLink(Call.artifact) /\ Call.refs # <<>>
      <4>1. linked = 0 /\ Len(Call.refs) > 0
        BY <2>1, <2>2, <3>3 DEF PhaseInv, CommitArtifact, Inside
      <4>2. mode' = mode /\ at' = at /\ phase' = "link" /\ linked' = linked /\ Call' = Call
        BY <2>2, <3>3 DEF CommitArtifact, Continue, Call
      <4>. QED  BY <2>1, <2>2, <3>2, <4>1, <4>2 DEF PhaseInv, CommitArtifact, Inside
    <3>4. CASE ~(MustLink(Call.artifact) /\ Call.refs # <<>>)
      BY <2>1, <2>2, <3>4 DEF CommitArtifact, Return, PhaseInv, Inside
    <3>. QED  BY <3>3, <3>4
  <2>3. CASE CommitLink
    <3>1. CASE linked + 1 = Len(Call.refs)
      BY <2>1, <2>3, <3>1 DEF CommitLink, Return, PhaseInv, Inside
    <3>2. CASE linked + 1 # Len(Call.refs)
      <4>1. mode' = mode /\ at' = at /\ phase' = phase /\ linked' = linked + 1 /\ Call' = Call
        BY <2>3, <3>2 DEF CommitLink, Call
      <4>2. Committed' = Committed /\ nodes' = nodes /\ task' = task /\ phase = "link"
        BY <2>3 DEF CommitLink, Committed, Inside
      <4>3. linked + 1 < Len(Call.refs)
        BY <2>1, <3>2, <4>2 DEF PhaseInv, TypeOK
      <4>. QED  BY <2>1, <4>1, <4>2, <4>3 DEF PhaseInv
    <3>. QED  BY <3>1, <3>2
  <2>4. CASE BeginNew \/ BeginReady \/ BeginAgain \/ FinishSubmit
    <3>1. CASE phase' = "call"
      BY <2>1, <2>4, <3>1
      DEF BeginNew, BeginReady, BeginAgain, FinishSubmit, Return, Continue, PhaseInv, Inside
    <3>2. CASE phase' # "call"
      <4>1. mode' = mode /\ at' = at /\ linked' = linked /\ Call' = Call /\ linked = 0
        BY <2>4, <3>2
        DEF BeginNew, BeginReady, BeginAgain, FinishSubmit, Return, Continue, Call, PhaseInv, Inside
      <4>2. \/ phase' = "created" /\ Call.op = "begin" /\ task'[Call.task] = "PENDING"
            \/ phase' = "ready" /\ Call.op = "begin" /\ task'[Call.task] = "READY"
            \/ /\ phase' = "submitted" /\ Call.op = "finish" /\ task'[Call.task] = "SUBMITTED"
               /\ Call.verdict # None
        BY <2>1, <2>4, <3>2
        DEF BeginNew, BeginReady, BeginAgain, FinishSubmit, SetTask, Return, Continue, Inside,
            NeedsStart, store
      <4>. QED  BY <2>1, <4>1, <4>2 DEF PhaseInv
    <3>. QED  BY <3>1, <3>2
  <2>5. CASE BeginRunning \/ FinishJudge \/ FinishSkip \/ CreateRemedy
    BY <2>1, <2>5
    DEF BeginRunning, FinishJudge, FinishSkip, CreateRemedy, Return, PhaseInv, Inside
  <2>6. CASE BeginNotReady
    BY <2>6, ProgramAssumption DEF BeginNotReady, Memory, PhaseInv
  <2>7. CASE End
    BY <2>7, ProgramAssumption DEF End, Memory, PhaseInv
  <2>. QED  BY <1>1, <2>2, <2>3, <2>4, <2>5, <2>6, <2>7 DEF Run
<1>2. CASE mode # None /\ ~(at <= Len(Program[mode])) /\ Run
  <2>1. End
    BY <1>2 DEF Run, BeginNew, BeginAgain, BeginReady, BeginNotReady, BeginRunning,
                CommitArtifact, CommitLink, FinishSubmit, FinishJudge, FinishSkip, CreateRemedy,
                Inside
  <2>. QED  BY <2>1 DEF End, Memory, PhaseInv
<1>3. CASE Crash
  BY <1>3 DEF Crash, Memory, PhaseInv
<1>4. CASE StartAny
  <2>1. PICK m \in Mode : Start(m)  BY <1>4 DEF StartAny
  <2>. QED  BY <2>1, ProgramAssumption DEF Start, Memory, PhaseInv
<1>5. CASE UNCHANGED vars
  BY <1>5 DEF vars, store, run, PhaseInv, Call, Committed
<1>6. Run => mode # None
  BY DEF Run, BeginNew, BeginAgain, BeginReady, BeginNotReady, BeginRunning,
         CommitArtifact, CommitLink, FinishSubmit, FinishJudge, FinishSkip, CreateRemedy,
         Inside, End
<1>. QED  BY <1>1, <1>2, <1>3, <1>4, <1>5, <1>6 DEF Next

LEMMA RunKept ==
  ASSUME IInv, WellOrdered, [Next]_vars
  PROVE  RunInv'
<1>. USE DEF IInv
<1>1. /\ Committed \subseteq Committed'
      /\ \A t \in Task : task[t] \in Started => task'[t] \in Started
  BY NextWritesTasks, TasksKept, ArtifactsKept
<1>2. CASE mode' = None
  BY <1>2 DEF RunInv
<1>3. CASE mode' # None /\ at' = 1
  <2>1. 1..(at' - 1) = {}  BY <1>3
  <2>. QED  BY <2>1 DEF RunInv
<1>4. CASE mode' = mode /\ mode # None /\ at' = at /\ nodes \subseteq nodes'
  <2>. SUFFICES ASSUME NEW i \in 1..(at - 1)
                PROVE  /\ Program[mode][i].op = "commit" =>
                            Program[mode][i].artifact \in Committed' \cap nodes'
                       /\ Program[mode][i].op = "begin" =>
                            task'[Program[mode][i].task] \in Started
    BY <1>4 DEF RunInv
  <2>1. mode \in Mode  BY <1>4 DEF TypeOK
  <2>2. Program[mode] \in Seq(Step) /\ at \in 0..(Len(Program[mode]) + 1)
    BY <1>4, <2>1, ProgramAssumption DEF TypeOK
  <2>3. i \in 1..Len(Program[mode])  BY <2>2
  <2>4. Program[mode][i].task \in Task  BY <2>1, <2>3, StepType
  <2>. QED  BY <1>1, <1>4, <2>4 DEF RunInv
<1>5. CASE mode' = mode /\ mode # None /\ at' = at + 1 /\ nodes \subseteq nodes'
           /\ at <= Len(Program[mode]) /\ Run
  <2>1. /\ mode \in Mode /\ Program[mode] \in Seq(Step) /\ at \in 1..Len(Program[mode])
        /\ Call.task \in Task /\ task \in [Task -> TaskStates] /\ Call \in Step
    BY <1>5, CallType DEF PhaseInv, TypeOK, TaskStates, Started
  <2>2. Call.op = "commit" => Call.artifact \in Committed' \cap nodes'
    <3>1. CASE CommitArtifact
      <4>1. Call.artifact \in Artifact
        BY <2>1, <3>1 DEF WellOrdered, Call, CommitArtifact, Inside
      <4>. QED
        BY <2>1, <3>1, <4>1, ProgramAssumption
        DEF CommitArtifact, Registered, Stored, Committed, TypeOK
    <3>2. CASE CommitLink
      BY <1>1, <1>5, <3>2 DEF CommitLink, Inside, PhaseInv
    <3>3. CASE ~(CommitArtifact \/ CommitLink)
      BY <1>5, <3>3
      DEF Run, BeginNew, BeginAgain, BeginReady, BeginNotReady, BeginRunning, FinishSubmit,
          FinishJudge, FinishSkip, CreateRemedy, Inside, End, Memory
    <3>. QED  BY <3>1, <3>2, <3>3
  <2>3. Call.op = "begin" => task'[Call.task] \in Started
    <3>1. CASE BeginRunning
      BY <2>1, <3>1 DEF BeginRunning, SetTask, Started
    <3>2. CASE BeginAgain
      BY <1>5, <2>1, <3>2
      DEF BeginAgain, NeedsStart, Continue, TaskStates, Started, store, NoState
    <3>3. CASE ~(BeginRunning \/ BeginAgain)
      BY <1>5, <2>1, <3>3
      DEF Run, BeginNew, BeginReady, BeginNotReady, CommitArtifact, CommitLink, FinishSubmit,
          FinishJudge, FinishSkip, CreateRemedy, Inside, End, Memory, Continue
    <3>. QED  BY <3>1, <3>2, <3>3
  <2>. SUFFICES ASSUME NEW i \in 1..at
                PROVE  /\ Program[mode][i].op = "commit" =>
                            Program[mode][i].artifact \in Committed' \cap nodes'
                       /\ Program[mode][i].op = "begin" =>
                            task'[Program[mode][i].task] \in Started
    BY <1>5, <2>1 DEF RunInv
  <2>4. CASE i = at
    BY <2>2, <2>3, <2>4 DEF Call
  <2>5. CASE i \in 1..(at - 1)
    <3>1. i \in 1..Len(Program[mode])  BY <2>1, <2>5
    <3>2. Program[mode][i].task \in Task  BY <2>1, <3>1, StepType
    <3>. QED  BY <1>1, <1>5, <2>5, <3>2 DEF RunInv
  <2>. QED  BY <2>1, <2>4, <2>5
<1>6. \/ mode' = None
      \/ mode' # None /\ at' = 1
      \/ mode' = mode /\ mode # None /\ at' = at /\ nodes \subseteq nodes'
      \/ /\ mode' = mode /\ mode # None /\ at' = at + 1 /\ nodes \subseteq nodes'
         /\ at <= Len(Program[mode]) /\ Run
  <2>1. CASE Run
    BY <2>1 DEF Run, BeginNew, BeginAgain, BeginReady, BeginNotReady, BeginRunning,
         CommitArtifact, CommitLink, FinishSubmit, FinishJudge, FinishSkip, CreateRemedy,
         Inside, End, Memory, Continue, Return, Registered
  <2>2. CASE ~Run
    BY <2>2 DEF Next, StartAny, Start, Crash, Memory, vars, run
  <2>. QED  BY <2>1, <2>2
<1>. QED  BY <1>2, <1>3, <1>4, <1>5, <1>6

LEMMA StartedKept ==
  ASSUME IInv, [Next]_vars
  PROVE  StartedInv'
<1>. USE DEF IInv
<1>1. TaskStep /\ \A t \in Task : DependenciesAccepted(t) => DependenciesAccepted(t)'
  BY NextWritesTasks, TasksKept
<1>2. task \in [Task -> TaskStates]  BY DEF TypeOK, TaskStates, Started
<1>3. ASSUME NEW t \in Task, task'[t] \in Started  PROVE task[t] \in Started \/ DependenciesAccepted(t)
  BY <1>1, <1>2, <1>3 DEF TaskStep, TaskWrite
<1>. QED  BY <1>1, <1>3 DEF StartedInv

LEMMA BuiltKept ==
  ASSUME IInv, WellOrdered, [Next]_vars
  PROVE  BuiltInv'
<1>. USE DEF IInv
<1>1. /\ \A t \in Task : task[t] \in Started => task'[t] \in Started
      /\ \A a \in Committed' \ Committed : CommitArtifact /\ a = Call.artifact
  BY NextWritesTasks, TasksKept, ArtifactsKept
<1>. SUFFICES ASSUME NEW m \in Mode, NEW c \in CommitCalls[m], c.artifact \in Committed'
              PROVE  task'[c.task] \in Started
  BY DEF BuiltInv
<1>2. c.task \in Task
  BY StepType
<1>3. CASE c.artifact \in Committed
  BY <1>1, <1>2, <1>3 DEF BuiltInv
<1>4. CASE c.artifact \notin Committed
  <2>1. CommitArtifact /\ c.artifact = Call.artifact  BY <1>1, <1>4
  <2>2. mode \in Mode /\ at \in 1..Len(Program[mode]) /\ Call.op = "commit"
    BY <2>1, CallType DEF CommitArtifact, Inside, PhaseInv
  <2>3. Call \in CommitCalls[mode]
    BY <2>2 DEF CommitCalls, Calls, Range_, Call
  <2>4. c.task = Call.task  BY <2>1, <2>2, <2>3 DEF WellOrdered
  <2>5. PICK j \in 1..(at - 1) : Program[mode][j].op = "begin" /\ Program[mode][j].task = Call.task
    <3>1. \A k \in 1..Len(Program[mode]) : Program[mode][k].op = "commit" =>
            \E j \in 1..(k - 1) :
              Program[mode][j].op = "begin" /\ Program[mode][j].task = Program[mode][k].task
      BY <2>2 DEF WellOrdered
    <3>. QED  BY <2>2, <3>1 DEF Call
  <2>6. task[Call.task] \in Started
    BY <2>1, <2>5 DEF RunInv, CommitArtifact, Inside
  <2>. QED  BY <1>1, <1>2, <2>4, <2>6
<1>. QED  BY <1>3, <1>4

\* Only the submission makes a task one that is to be judged.
LEMMA SubmittedHere ==
  ASSUME IInv, [Next]_vars, NEW t \in Task, task[t] \notin Judged, task'[t] \in Judged
  PROVE  FinishSubmit /\ t = Call.task
<1>. USE DEF IInv
<1>1. task \in [Task -> TaskStates]  BY DEF TypeOK, TaskStates, Started
<1>2. CASE FinishSubmit
  BY <1>1, <1>2 DEF FinishSubmit, SetTask
<1>3. CASE FinishJudge
  <2>1. task[Call.task] \in Judged  BY <1>3 DEF FinishJudge, Inside, PhaseInv, Judged
  <2>. QED  BY <1>1, <1>3, <2>1 DEF FinishJudge, SetTask
<1>4. CASE BeginNew \/ BeginReady \/ BeginRunning \/ CreateRemedy
  BY <1>1, <1>4
  DEF BeginNew, BeginReady, BeginRunning, CreateRemedy, SetTask, Judged
<1>5. CASE UNCHANGED task
  BY <1>5
<1>6. \/ FinishSubmit \/ FinishJudge \/ BeginNew \/ BeginReady \/ BeginRunning \/ CreateRemedy
      \/ UNCHANGED task
  BY DEF Next, Run, BeginAgain, BeginNotReady, CommitArtifact, CommitLink, FinishSkip, End,
         StartAny, Start, Crash, Survives, vars, store
<1>. QED  BY <1>2, <1>3, <1>4, <1>5, <1>6

LEMMA DeliveryKept ==
  ASSUME IInv, WellOrdered, [Next]_vars
  PROVE  JudgedOnDelivery'
<1>. USE DEF IInv
<1>1. Committed \subseteq Committed'
  BY ArtifactsKept
<1>. SUFFICES ASSUME NEW m \in Mode, NEW c \in FinishCalls[m], task'[c.task] \in Judged
              PROVE  Range_(c.refs) \subseteq Committed'
  BY DEF JudgedOnDelivery, Judged
<1>2. c.task \in Task
  BY StepType
<1>3. CASE task[c.task] \in Judged
  BY <1>1, <1>3 DEF JudgedOnDelivery, Judged
<1>4. CASE task[c.task] \notin Judged
  <2>1. FinishSubmit /\ c.task = Call.task  BY <1>2, <1>4, SubmittedHere
  <2>2. mode \in Mode /\ at \in 1..Len(Program[mode]) /\ Call.op = "finish" /\ mode # None
    BY <2>1, CallType DEF FinishSubmit, Inside, PhaseInv
  <2>3. Call \in FinishCalls[mode]
    BY <2>2 DEF FinishCalls, Calls, Range_, Call
  <2>4. c.refs = Call.refs  BY <2>1, <2>2, <2>3 DEF WellOrdered
  <2>5. InputsPresent  BY <2>1, InputsThere DEF FinishSubmit, Inside
  <2>. QED  BY <1>1, <2>4, <2>5 DEF InputsPresent
<1>. QED  BY <1>3, <1>4

LEMMA InitHolds == Init => IInv
<1>. SUFFICES ASSUME Init PROVE IInv  OBVIOUS
<1>1. Committed = {}  BY DEF Init, Committed
<1>2. TypeOK  BY ProgramAssumption DEF Init, TypeOK
<1>3. BuiltInv  BY <1>1 DEF BuiltInv
<1>4. StartedInv  BY DEF Init, StartedInv, Started, NoState
<1>5. JudgedOnDelivery
  <2>. SUFFICES ASSUME NEW m \in Mode, NEW c \in FinishCalls[m]
                PROVE  task[c.task] \notin Judged
    BY DEF JudgedOnDelivery, Judged
  <2>. QED  BY StepType DEF Init, Judged, NoState
<1>. QED  BY <1>2, <1>3, <1>4, <1>5 DEF Init, IInv, PhaseInv, RunInv

LEMMA InvariantHolds == WellOrdered => (Spec => []IInv)
<1>. SUFFICES ASSUME WellOrdered PROVE Spec => []IInv  OBVIOUS
<1>1. IInv /\ [Next]_vars => IInv'
  BY TypeKept, PhaseKept, RunKept, StartedKept, BuiltKept, DeliveryKept DEF IInv
<1>. QED  BY <1>1, InitHolds, PTL DEF Spec

-----------------------------------------------------------------------------

\* Every reachable state is well-typed; in particular a run never gets past
\* the end of its program.
THEOREM TypeCorrect == WellOrdered => (Spec => []TypeOK)
<1>. SUFFICES ASSUME WellOrdered PROVE Spec => []TypeOK  OBVIOUS
<1>1. IInv => TypeOK  BY DEF IInv
<1>. QED  BY <1>1, InvariantHolds, PTL

\* No interruption and no rerun, in whichever modes, makes commit() raise
\* ArtifactNotFound (store.py:253) or the graph KeyError (graph.py:60).
THEOREM InputsSafe == WellOrdered => (Spec => []InputsNeverMissing)
<1>. SUFFICES ASSUME WellOrdered PROVE Spec => []InputsNeverMissing  OBVIOUS
<1>1. IInv => InputsNeverMissing  BY InputsThere DEF InputsNeverMissing, Inside
<1>. QED  BY <1>1, InvariantHolds, PTL

\* What is in the store was made on accepted work, whichever run stored it.
THEOREM BuiltSafe == WellOrdered => (Spec => []BuiltOnAccepted)
<1>. SUFFICES ASSUME WellOrdered PROVE Spec => []BuiltOnAccepted  OBVIOUS
<1>1. IInv => BuiltOnAccepted
  <2>. SUFFICES ASSUME IInv, NEW m \in Mode, NEW c \in CommitCalls[m], artifact[c.artifact] # None
                PROVE  DependenciesAccepted(c.task)
    BY DEF BuiltOnAccepted, DependenciesAccepted
  <2>1. c.task \in Task  BY StepType
  <2>2. PICK i \in 1..Len(Program[m]) : c = Program[m][i] /\ c.op = "commit"
    BY DEF CommitCalls, Calls, Range_
  <2>3. c.artifact \in Committed  BY <2>2 DEF WellOrdered, Committed
  <2>. QED  BY <2>1, <2>3 DEF IInv, BuiltInv, StartedInv
<1>. QED  BY <1>1, InvariantHolds, PTL

\* A task is submitted and judged on artifacts that are there, whichever run
\* stored them and wherever the runs before were interrupted.
THEOREM DeliverySafe == WellOrdered => (Spec => []JudgedOnDelivery)
<1>. SUFFICES ASSUME WellOrdered PROVE Spec => []JudgedOnDelivery  OBVIOUS
<1>1. IInv => JudgedOnDelivery  BY DEF IInv
<1>. QED  BY <1>1, InvariantHolds, PTL

-----------------------------------------------------------------------------
\* A decision is accepted after its approval.

\* A verdict is written by the second half of a finish call.
LEMMA VerdictHere ==
  ASSUME IInv, [Next]_vars, NEW t \in Task, NEW v \in {"ACCEPTED", "REVISE"},
         task[t] # v, task'[t] = v
  PROVE  FinishJudge /\ t = Call.task /\ Call.verdict = v
<1>. USE DEF IInv
<1>1. task \in [Task -> TaskStates]  BY DEF TypeOK, TaskStates, Started
<1>2. CASE FinishJudge
  BY <1>1, <1>2 DEF FinishJudge, SetTask
<1>3. CASE FinishSubmit \/ BeginNew \/ BeginReady \/ BeginRunning \/ CreateRemedy
  BY <1>1, <1>3 DEF FinishSubmit, BeginNew, BeginReady, BeginRunning, CreateRemedy, SetTask
<1>4. CASE UNCHANGED task
  BY <1>4
<1>5. \/ FinishSubmit \/ FinishJudge \/ BeginNew \/ BeginReady \/ BeginRunning \/ CreateRemedy
      \/ UNCHANGED task
  BY DEF Next, Run, BeginAgain, BeginNotReady, CommitArtifact, CommitLink, FinishSkip, End,
         StartAny, Start, Crash, Survives, vars, store
<1>. QED  BY <1>2, <1>3, <1>4, <1>5

\* In whichever modes runs come and are interrupted, the decision is accepted
\* only when an approval is stored.
THEOREM ApprovalSafe ==
  ASSUME WellOrdered, ApprovedFirst, Decision \in Task
  PROVE  Spec => []AcceptedDecisionIsApproved
<1>1. Init => AcceptedDecisionIsApproved
  BY DEF Init, AcceptedDecisionIsApproved, NoState
<1>2. IInv /\ AcceptedDecisionIsApproved /\ [Next]_vars => AcceptedDecisionIsApproved'
  <2>. SUFFICES ASSUME IInv, AcceptedDecisionIsApproved, [Next]_vars, task'[Decision] = "ACCEPTED"
                PROVE  Approval \in Committed'
    BY DEF AcceptedDecisionIsApproved
  <2>1. Committed \subseteq Committed'  BY ArtifactsKept
  <2>2. CASE task[Decision] = "ACCEPTED"
    BY <2>1, <2>2 DEF AcceptedDecisionIsApproved
  <2>3. CASE task[Decision] # "ACCEPTED"
    <3>1. FinishJudge /\ Decision = Call.task /\ Call.verdict = "ACCEPTED"
      BY <2>3, VerdictHere
    <3>2. mode \in Mode /\ at \in 1..Len(Program[mode]) /\ Call.op = "finish" /\ mode # None
      BY <3>1, CallType DEF FinishJudge, Inside, IInv, PhaseInv
    <3>3. PICK j \in 1..(at - 1) :
            Program[mode][j].op = "commit" /\ Program[mode][j].artifact = Approval
      BY <3>1, <3>2 DEF ApprovedFirst, Call
    <3>. QED  BY <2>1, <3>2, <3>3 DEF IInv, RunInv
  <2>. QED  BY <2>2, <2>3
<1>. QED  BY <1>1, <1>2, InvariantHolds, PTL DEF Spec

-----------------------------------------------------------------------------
\* Reruns.  The calls that a run in progress has behind it, and all calls of
\* the last run that came to its end, are settled: the next run that gets to
\* one of them finds nothing to do there.

Behind == IF mode = None THEN {} ELSE {Program[mode][i] : i \in 1..(at - 1)}

Ended == IF report = None THEN {} ELSE Calls(report)

LinkedTo(c, n) == \A k \in 1..n : <<c.refs[k], c.artifact>> \in edges

Settled(c) ==
  /\ c.op = "begin" => task[c.task] \in Started
  /\ c.op = "commit" => c.artifact \in Committed /\ (LinksInputs => LinkedTo(c, Len(c.refs)))
  /\ c.op = "finish" => task[c.task] # "RUNNING"
  /\ c.op = "remedy" => task[c.task] # NoState

\* A task that is being started is not the task of a settled call.
RerunInv ==
  /\ \A c \in Behind \cup Ended : Settled(c)
  /\ phase = "ready" => \A c \in Behind \cup Ended : c.op = "begin" => c.task # Call.task
  /\ phase = "link" => LinksInputs /\ LinkedTo(Call, linked)
  /\ phase = "submitted" => mode # report

LEMMA BehindAndEnded ==
  ASSUME IInv, NEW c \in Behind \cup Ended
  PROVE  /\ c \in Step
         /\ FinishesBegun /\ c.op = "finish" =>
              \E b \in Behind \cup Ended : b.op = "begin" /\ b.task = c.task
<1>. USE DEF IInv
<1>1. CASE c \in Behind
  <2>1. mode # None /\ mode \in Mode /\ Program[mode] \in Seq(Step)
    BY <1>1, ProgramAssumption DEF Behind, TypeOK
  <2>2. PICK i \in 1..(at - 1) : c = Program[mode][i]
    BY <1>1, <2>1 DEF Behind
  <2>3. at \in 0..(Len(Program[mode]) + 1) /\ Len(Program[mode]) \in Nat
    BY <2>1 DEF TypeOK
  <2>4. i \in 1..Len(Program[mode])
    BY <2>2, <2>3
  <2>5. ASSUME FinishesBegun, c.op = "finish"
        PROVE  \E b \in Behind : b.op = "begin" /\ b.task = c.task
    <3>1. PICK j \in 1..(i - 1) :
            Program[mode][j].op = "begin" /\ Program[mode][j].task = Program[mode][i].task
      BY <2>1, <2>2, <2>4, <2>5 DEF FinishesBegun
    <3>2. j \in 1..(at - 1)  BY <2>2, <2>3
    <3>. QED  BY <2>1, <2>2, <3>1, <3>2 DEF Behind
  <2>. QED  BY <2>1, <2>2, <2>4, <2>5
<1>2. CASE c \in Ended
  <2>1. report # None /\ report \in Mode /\ Program[report] \in Seq(Step)
    BY <1>2, ProgramAssumption DEF Ended, TypeOK
  <2>2. PICK i \in 1..Len(Program[report]) : c = Program[report][i]
    BY <1>2, <2>1 DEF Ended, Calls, Range_
  <2>3. ASSUME FinishesBegun, c.op = "finish"
        PROVE  \E b \in Ended : b.op = "begin" /\ b.task = c.task
    <3>1. PICK j \in 1..(i - 1) :
            Program[report][j].op = "begin" /\ Program[report][j].task = Program[report][i].task
      BY <2>1, <2>2, <2>3 DEF FinishesBegun
    <3>2. j \in 1..Len(Program[report])  BY <2>1
    <3>. QED  BY <2>1, <2>2, <3>1, <3>2 DEF Ended, Calls, Range_
  <2>. QED  BY <2>1, <2>2, <2>3
<1>. QED  BY <1>1, <1>2

\* No task loses its row, no edge is taken back, and what is RUNNING was so
\* or is started by this step.
LEMMA RowsKept ==
  ASSUME IInv, [Next]_vars
  PROVE  /\ \A t \in Task : task[t] # NoState => task'[t] # NoState
         /\ \A t \in Task : task'[t] = "RUNNING" =>
              task[t] = "RUNNING" \/ (BeginRunning /\ t = Call.task)
         /\ edges \subseteq edges'
<1>. USE DEF IInv
<1>1. task \in [Task -> TaskStates]  BY DEF TypeOK, TaskStates, Started
<1>2. edges \subseteq edges'
  BY DEF Next, Run, BeginNew, BeginAgain, BeginReady, BeginNotReady, BeginRunning, CommitArtifact,
         CommitLink, FinishSubmit, FinishJudge, FinishSkip, CreateRemedy, End, StartAny, Start,
         Crash, vars, store
<1>3. CASE FinishJudge
  <2>1. Call.verdict # NoState /\ Call.verdict # "RUNNING"
    BY <1>3, CallType DEF FinishJudge, Inside, PhaseInv, Verdict, None, NoState
  <2>. QED  BY <1>1, <1>2, <1>3, <2>1 DEF FinishJudge, SetTask
<1>4. CASE FinishSubmit \/ BeginNew \/ BeginReady \/ BeginRunning
  BY <1>1, <1>2, <1>4 DEF FinishSubmit, BeginNew, BeginReady, BeginRunning, SetTask, NoState
<1>5. CASE CreateRemedy
  BY <1>1, <1>2, <1>5 DEF CreateRemedy, NoState
<1>6. CASE UNCHANGED task
  BY <1>2, <1>6
<1>7. \/ FinishSubmit \/ FinishJudge \/ BeginNew \/ BeginReady \/ BeginRunning \/ CreateRemedy
      \/ UNCHANGED task
  BY DEF Next, Run, BeginAgain, BeginNotReady, CommitArtifact, CommitLink, FinishSkip, End,
         StartAny, Start, Crash, Survives, vars, store
<1>. QED  BY <1>3, <1>4, <1>5, <1>6, <1>7

\* Where a run is after a step.
LEMMA Position ==
  ASSUME [Next]_vars
  PROVE  \/ mode' = None
         \/ mode' # None /\ at' = 1
         \/ mode' = mode /\ mode # None /\ at' = at
         \/ /\ mode' = mode /\ mode # None /\ at' = at + 1
            /\ at <= Len(Program[mode]) /\ Run /\ report' = report /\ phase' = "call"
<1>1. CASE Run
  BY <1>1 DEF Run, BeginNew, BeginAgain, BeginReady, BeginNotReady, BeginRunning,
       CommitArtifact, CommitLink, FinishSubmit, FinishJudge, FinishSkip, CreateRemedy,
       Inside, End, Memory, Continue, Return, store
<1>2. CASE ~Run
  BY <1>2 DEF Next, StartAny, Start, Crash, Memory, vars, run
<1>. QED  BY <1>1, <1>2

\* Only the end of a run settles the whole of it, and it is settled by then.
LEMMA EndSettles ==
  ASSUME IInv, [Next]_vars
  PROVE  Ended' \subseteq Behind \cup Ended
<1>. USE DEF IInv
<1>1. CASE End
  <2>1. mode \in Mode /\ Program[mode] \in Seq(Step)
    BY <1>1, ProgramAssumption DEF End, TypeOK
  <2>2. report' = mode /\ at - 1 = Len(Program[mode]) /\ mode # None
    BY <1>1, <2>1 DEF End
  <2>3. Ended' = Calls(mode)  BY <2>2 DEF Ended, Calls
  <2>4. Calls(mode) = Behind  BY <2>2 DEF Calls, Range_, Behind
  <2>. QED  BY <2>3, <2>4
<1>2. CASE report' = report
  BY <1>2 DEF Ended, Calls
<1>3. End \/ report' = report
  BY DEF Next, Run, BeginNew, BeginAgain, BeginReady, BeginNotReady, BeginRunning, CommitArtifact,
         CommitLink, FinishSubmit, FinishJudge, FinishSkip, CreateRemedy, StartAny, Start, Crash,
         vars, store
<1>. QED  BY <1>1, <1>2, <1>3

\* A step settles nothing but the call it returns from.
LEMMA BehindGrows ==
  ASSUME IInv, [Next]_vars
  PROVE  \A c \in Behind' : c \in Behind \/ (c = Call /\ Run /\ mode # None /\ at' = at + 1
                                             /\ at <= Len(Program[mode]) /\ phase' = "call")
<1>. USE DEF IInv
<1>1. CASE mode' = None
  BY <1>1 DEF Behind
<1>2. CASE mode' # None /\ at' = 1
  <2>1. 1..(at' - 1) = {}  BY <1>2
  <2>. QED  BY <1>2, <2>1 DEF Behind
<1>3. CASE mode' = mode /\ mode # None /\ at' = at
  BY <1>3 DEF Behind
<1>4. CASE /\ mode' = mode /\ mode # None /\ at' = at + 1
           /\ at <= Len(Program[mode]) /\ Run /\ phase' = "call"
  <2>1. at \in Nat /\ at >= 1
    BY <1>4, CallType DEF PhaseInv
  <2>2. \A i \in 1..(at' - 1) : i \in 1..(at - 1) \/ i = at
    BY <1>4, <2>1
  <2>. QED  BY <1>4, <2>2 DEF Behind, Call
<1>. QED  BY <1>1, <1>2, <1>3, <1>4, Position

\* What is settled stays so.
LEMMA SettledKept ==
  ASSUME IInv, WellOrdered, FinishesBegun, RerunInv, [Next]_vars, NEW c \in Behind \cup Ended
  PROVE  Settled(c)'
<1>. USE DEF IInv
<1>1. c \in Step /\ c.task \in Task /\ Settled(c)
  BY BehindAndEnded DEF Step, RerunInv
<1>2. /\ Committed \subseteq Committed'
      /\ \A t \in Task : task[t] \in Started => task'[t] \in Started
  BY NextWritesTasks, TasksKept, ArtifactsKept
<1>3. c.op = "finish" => task'[c.task] # "RUNNING"
  <2>. SUFFICES ASSUME c.op = "finish", task'[c.task] = "RUNNING"  PROVE FALSE
    OBVIOUS
  <2>1. BeginRunning /\ c.task = Call.task
    BY <1>1, RowsKept DEF Settled
  <2>2. PICK b \in Behind \cup Ended : b.op = "begin" /\ b.task = c.task
    BY BehindAndEnded
  <2>3. phase = "ready"  BY <2>1 DEF BeginRunning, Inside
  <2>. QED  BY <2>1, <2>2, <2>3 DEF RerunInv
<1>. QED  BY <1>1, <1>2, <1>3, RowsKept DEF Settled, LinkedTo

\* A call that returns leaves nothing to do.
LEMMA ReturnSettles ==
  ASSUME IInv, WellOrdered, RerunInv, Run, mode # None, at <= Len(Program[mode]), at' = at + 1,
         NEW c, c = Call
  PROVE  Settled(c)'
<1>. USE DEF IInv
<1>1. /\ at \in 1..Len(Program[mode]) /\ mode \in Mode /\ c.task \in Task
      /\ Call \in Step /\ c.refs \in Seq(Artifact)
      /\ task \in [Task -> TaskStates]
  BY CallType DEF PhaseInv, TypeOK, TaskStates, Started
<1>2. at' # at  BY <1>1
<1>3. CASE BeginAgain
  <2>1. /\ c.op = "begin" /\ task' = task
        /\ task[c.task] # NoState /\ task[c.task] # "PENDING"
    BY <1>2, <1>3 DEF BeginAgain, Inside, NeedsStart, Continue, store
  <2>. QED  BY <1>1, <2>1 DEF Settled, TaskStates
<1>4. CASE BeginRunning
  BY <1>1, <1>4 DEF BeginRunning, Inside, SetTask, Settled, Started
<1>5. CASE CommitArtifact
  <2>1. c.op = "commit" /\ (LinksInputs => c.refs = <<>>)
    BY <1>2, <1>5 DEF CommitArtifact, Inside, MustLink, Continue
  <2>2. c.artifact \in Artifact
    BY <1>1, <2>1 DEF WellOrdered, Call
  <2>3. artifact'[c.artifact] # None
    BY <1>1, <1>5, <2>2, ProgramAssumption DEF CommitArtifact, Stored, TypeOK
  <2>4. LinksInputs => 1..Len(c.refs) = {}
    BY <2>1
  <2>. QED  BY <2>1, <2>2, <2>3, <2>4 DEF Settled, LinkedTo, Committed
<1>6. CASE CommitLink
  <2>1. /\ c.op = "commit" /\ phase = "link" /\ linked + 1 = Len(c.refs) /\ artifact' = artifact
        /\ edges' = edges \cup {<<c.refs[linked + 1], c.artifact>>}
    BY <1>2, <1>6 DEF CommitLink, Inside
  <2>2. c.artifact \in Committed' /\ LinkedTo(c, linked) /\ linked \in Nat
    BY <2>1 DEF PhaseInv, RerunInv, Committed, TypeOK
  <2>3. \A k \in 1..Len(c.refs) : k \in 1..linked \/ k = linked + 1
    BY <2>1, <2>2
  <2>. QED  BY <2>1, <2>2, <2>3 DEF Settled, LinkedTo
<1>7. CASE FinishSubmit \/ FinishSkip
  BY <1>1, <1>7 DEF FinishSubmit, FinishSkip, Inside, SetTask, store, Settled
<1>8. CASE FinishJudge
  <2>1. c.verdict # "RUNNING" /\ c.op = "finish"
    BY <1>1, <1>8 DEF FinishJudge, Inside, PhaseInv, Step, Verdict, None
  <2>. QED  BY <1>1, <1>8, <2>1 DEF FinishJudge, SetTask, Settled
<1>9. CASE CreateRemedy
  BY <1>1, <1>9 DEF CreateRemedy, Inside, Settled, NoState
<1>10. ~End /\ ~BeginNew /\ ~BeginReady /\ ~BeginNotReady
  BY <1>1, <1>2 DEF End, Memory, BeginNew, BeginReady, BeginNotReady, Continue
<1>. QED  BY <1>3, <1>4, <1>5, <1>6, <1>7, <1>8, <1>9, <1>10 DEF Run

\* What starts each phase of a call.
LEMMA PhaseStarts ==
  ASSUME IInv, [Next]_vars
  PROVE  /\ phase' = "ready" => BeginReady \/ UNCHANGED vars
         /\ phase' = "link" => CommitArtifact \/ CommitLink \/ UNCHANGED vars
         /\ phase' = "submitted" => FinishSubmit \/ UNCHANGED vars
BY DEF Next, Run, BeginNew, BeginAgain, BeginNotReady, BeginRunning, CommitArtifact, BeginReady,
       CommitLink, FinishSubmit, FinishJudge, FinishSkip, CreateRemedy, End, StartAny, Start, Crash,
       Memory, Return, Continue, Inside

\* The call a run is at belongs to the run.
LEMMA CallEnded ==
  ASSUME TypeOK, mode # None, mode = report, at >= 1, at <= Len(Program[mode])
  PROVE  Call \in Ended
BY CallType DEF Ended, Calls, Range_, Call

LEMMA RerunKept ==
  ASSUME IInv, WellOrdered, FinishesBegun, RerunInv, [Next]_vars
  PROVE  RerunInv'
<1>. USE DEF IInv
<1>1. ASSUME NEW c \in (Behind \cup Ended)'  PROVE Settled(c)'
  <2>1. CASE c \in Behind \cup Ended
    BY <2>1, SettledKept
  <2>2. CASE c \notin Behind \cup Ended
    <3>1. /\ c = Call /\ Run /\ mode # None /\ at' = at + 1 /\ at <= Len(Program[mode])
      BY <1>1, <2>2, EndSettles, BehindGrows
    <3>. QED  BY <3>1, ReturnSettles
  <2>. QED  BY <2>1, <2>2
<1>2. ASSUME phase' = "ready", NEW c \in (Behind \cup Ended)', c.op = "begin"
      PROVE  c.task # (Call.task)'
  <2>1. CASE UNCHANGED vars
    BY <1>2, <2>1 DEF RerunInv, Behind, Ended, Calls, Call, vars, run, store
  <2>2. CASE BeginReady
    <3>1. /\ mode' = mode /\ at' = at /\ report' = report
          /\ phase = "created" /\ (Call.task)' = Call.task
      BY <2>2 DEF BeginReady, Inside, Continue, Call
    <3>2. c \in Behind \cup Ended
      BY <1>2, <3>1 DEF Behind, Ended, Calls
    <3>3. task[c.task] \in Started /\ task[Call.task] = "PENDING"
      BY <1>2, <3>1, <3>2 DEF RerunInv, Settled, PhaseInv
    <3>. QED  BY <3>1, <3>3 DEF Started
  <2>. QED  BY <1>2, <2>1, <2>2, PhaseStarts
<1>3. phase' = "link" => LinksInputs /\ LinkedTo(Call, linked)'
  <2>1. CASE UNCHANGED vars
    BY <2>1 DEF RerunInv, LinkedTo, Call, vars, run, store
  <2>2. CASE CommitArtifact /\ phase' = "link"
    <3>1. linked' = 0 /\ LinksInputs
      BY <2>2 DEF CommitArtifact, Inside, Continue, Return, PhaseInv, MustLink
    <3>. QED  BY <3>1 DEF LinkedTo
  <2>3. CASE CommitLink /\ phase' = "link"
    <3>1. /\ edges' = edges \cup {<<Call.refs[linked + 1], Call.artifact>>}
          /\ linked' = linked + 1 /\ Call' = Call /\ phase = "link"
      BY <2>3 DEF CommitLink, Inside, Return, Call
    <3>2. linked \in Nat /\ LinksInputs /\ LinkedTo(Call, linked)
      BY <3>1 DEF TypeOK, RerunInv
    <3>3. \A k \in 1..linked' : k \in 1..linked \/ k = linked + 1
      BY <3>1, <3>2
    <3>. QED  BY <3>1, <3>2, <3>3 DEF LinkedTo
  <2>. QED  BY <2>1, <2>2, <2>3, PhaseStarts
<1>4. phase' = "submitted" => mode' # report'
  <2>1. CASE UNCHANGED vars
    BY <2>1 DEF RerunInv, vars, run, store
  <2>2. CASE FinishSubmit
    <3>1. /\ Call.op = "finish" /\ task[Call.task] = "RUNNING"
          /\ mode # None /\ at <= Len(Program[mode]) /\ at >= 1
          /\ mode' = mode /\ report' = report
      BY <2>2 DEF FinishSubmit, Inside, Return, Continue, PhaseInv
    <3>2. Call \notin Ended
      BY <3>1 DEF RerunInv, Settled
    <3>. QED  BY <3>1, <3>2, CallEnded
  <2>. QED  BY <2>1, <2>2, PhaseStarts
<1>. QED  BY <1>1, <1>2, <1>3, <1>4 DEF RerunInv

LEMMA RerunInit == Init => RerunInv
<1>. SUFFICES ASSUME Init PROVE RerunInv  OBVIOUS
<1>1. Behind = {} /\ Ended = {}  BY DEF Init, Behind, Ended
<1>. QED  BY <1>1 DEF Init, RerunInv

LEMMA RerunHolds == WellOrdered /\ FinishesBegun => (Spec => [](IInv /\ RerunInv))
<1>. SUFFICES ASSUME WellOrdered, FinishesBegun PROVE Spec => [](IInv /\ RerunInv)  OBVIOUS
<1>1. IInv /\ RerunInv /\ [Next]_vars => RerunInv'
  BY RerunKept
<1>. QED  BY <1>1, RerunInit, InvariantHolds, PTL DEF Spec

\* A completed run has all its edges, also those of artifacts that a run
\* before it stored and did not get to link.
THEOREM EdgesSafe == WellOrdered /\ FinishesBegun => (Spec => []EdgesComplete)
<1>. SUFFICES ASSUME WellOrdered, FinishesBegun PROVE Spec => []EdgesComplete  OBVIOUS
<1>1. IInv /\ RerunInv => EdgesComplete
  <2>. SUFFICES ASSUME RerunInv, report # None, LinksInputs, NEW c \in CommitCalls[report],
                       NEW a \in Range_(c.refs), IInv
                PROVE  <<a, c.artifact>> \in edges
    BY DEF EdgesComplete
  <2>1. report \in Mode  BY DEF IInv, TypeOK
  <2>2. c \in Ended /\ c.op = "commit"  BY <2>1 DEF CommitCalls, Ended
  <2>3. LinkedTo(c, Len(c.refs))  BY <2>2 DEF RerunInv, Settled
  <2>. QED  BY <2>3 DEF LinkedTo, Range_
<1>. QED  BY <1>1, RerunHolds, PTL

\* Once a run in a mode has come to its end, no run in that mode, complete or
\* interrupted, changes a task, an artifact or an edge, whatever runs in other
\* modes did before it.
THEOREM RerunSafe == WellOrdered /\ FinishesBegun => (Spec => RerunChangesNothing)
<1>. SUFFICES ASSUME WellOrdered, FinishesBegun PROVE Spec => RerunChangesNothing  OBVIOUS
<1> DEFINE Same == report # None /\ mode = report => UNCHANGED <<task, artifact, edges>>
<1>1. IInv /\ RerunInv /\ [Next]_vars => [Same]_vars
  <2>. SUFFICES ASSUME IInv, RerunInv, Next, report # None, mode = report
                PROVE  UNCHANGED <<task, artifact, edges>>
    OBVIOUS
  <2>. USE DEF IInv
  <2>1. CASE BeginNotReady \/ BeginAgain \/ FinishSkip \/ End \/ StartAny \/ Crash
    BY <2>1 DEF BeginNotReady, BeginAgain, FinishSkip, End, StartAny, Start, Crash, Survives, store
  <2>2. CASE mode # None /\ at <= Len(Program[mode])
    <3>1. /\ Call \in Ended /\ Settled(Call) /\ mode \in Mode
          /\ Call.task \in Task /\ Call.refs \in Seq(Artifact)
      BY <2>2, CallEnded, CallType DEF PhaseInv, RerunInv
    <3>2. ~BeginNew /\ ~BeginReady
      BY <3>1 DEF BeginNew, BeginReady, Inside, PhaseInv, Settled, Started, NoState
    <3>3. ~BeginRunning
      BY <3>1 DEF BeginRunning, Inside, RerunInv
    <3>4. CASE CommitArtifact
      <4>1. Call.artifact \in Committed
        BY <3>1, <3>4 DEF CommitArtifact, Inside, Settled
      <4>. QED  BY <3>4, <4>1 DEF CommitArtifact, Stored, Committed, TypeOK
    <3>5. CASE CommitLink
      <4>1. LinksInputs
        BY <3>5 DEF CommitLink, Inside, RerunInv
      <4>2. linked \in Nat /\ linked < Len(Call.refs) /\ LinkedTo(Call, Len(Call.refs))
        BY <3>1, <3>5, <4>1 DEF CommitLink, Inside, PhaseInv, Settled, TypeOK
      <4>3. linked + 1 \in 1..Len(Call.refs)  BY <3>1, <4>2
      <4>. QED  BY <3>5, <4>2, <4>3 DEF CommitLink, LinkedTo
    <3>6. ~FinishSubmit /\ ~FinishJudge
      BY <2>2, <3>1 DEF FinishSubmit, FinishJudge, Inside, Settled, RerunInv
    <3>7. CASE CreateRemedy
      BY <3>1, <3>7 DEF CreateRemedy, Inside, Settled, TypeOK
    <3>. QED  BY <2>1, <3>2, <3>3, <3>4, <3>5, <3>6, <3>7 DEF Next, Run
  <2>3. CASE ~(mode # None /\ at <= Len(Program[mode]))
    BY <2>1, <2>3 DEF Next, Run, BeginNew, BeginReady, BeginRunning, CommitArtifact, CommitLink,
                      FinishSubmit, FinishJudge, CreateRemedy, Inside
  <2>. QED  BY <2>2, <2>3
<1>. QED  BY <1>1, RerunHolds, PTL DEF Spec, RerunChangesNothing

-----------------------------------------------------------------------------
\* What refuses a run.

\* What others depend on is never sent back, and without an interruption it is
\* between two advance() calls only while the run is there too.
RefusalInv ==
  \A t \in Task : Firm(t) =>
    /\ task[t] # "REVISE"
    /\ crashes = 0 /\ Stuck(t) => phase \in {"ready", "submitted"} /\ t = Call.task

LEMMA RefusalInit == Init => RefusalInv
BY DEF Init, RefusalInv, Stuck, NoState

LEMMA FinishIsFirm ==
  ASSUME IInv, mode # None, at <= Len(Program[mode]), Call.op = "finish", Firm(Call.task)
  PROVE  Call.verdict = "ACCEPTED"
<1>1. mode \in Mode /\ at \in 1..Len(Program[mode])
  BY CallType DEF IInv, PhaseInv
<1>2. Call \in FinishCalls[mode]
  BY <1>1 DEF FinishCalls, Calls, Range_, Call
<1>. QED  BY <1>1, <1>2 DEF Firm

LEMMA RefusalKept ==
  ASSUME IInv, RefusalInv, [Next]_vars
  PROVE  RefusalInv'
<1>. USE DEF IInv
<1>1. task \in [Task -> TaskStates] /\ crashes \in Nat
  BY ProgramAssumption DEF TypeOK, TaskStates, Started
<1>. SUFFICES ASSUME NEW t \in Task, Firm(t)
              PROVE  /\ task'[t] # "REVISE"
                     /\ crashes' = 0 /\ task'[t] \in {"READY", "SUBMITTED"} =>
                          phase' \in {"ready", "submitted"} /\ t = (Call.task)'
  BY DEF RefusalInv, Stuck, Firm, FinishCalls, Calls
<1>2. task'[t] # "REVISE"
  <2>. SUFFICES ASSUME task'[t] = "REVISE"  PROVE FALSE
    OBVIOUS
  <2>1. FinishJudge /\ t = Call.task /\ Call.verdict = "REVISE"
    BY VerdictHere DEF RefusalInv
  <2>. QED  BY <2>1, FinishIsFirm DEF FinishJudge, Inside
<1>. SUFFICES ASSUME crashes' = 0, task'[t] \in {"READY", "SUBMITTED"}
              PROVE  phase' \in {"ready", "submitted"} /\ t = (Call.task)'
  BY <1>2
<1>3. ~Crash
  BY <1>1 DEF Crash
<1>4. crashes = 0
  BY <1>3 DEF Next, Run, BeginNew, BeginAgain, BeginReady, BeginNotReady, BeginRunning,
       CommitArtifact, CommitLink, FinishSubmit, FinishJudge, FinishSkip, CreateRemedy, End,
       StartAny, Start, vars
<1>5. task[t] \in {"READY", "SUBMITTED"} => phase \in {"ready", "submitted"} /\ t = Call.task
  BY <1>4 DEF RefusalInv, Stuck
<1>6. CASE BeginReady
  BY <1>1, <1>5, <1>6 DEF BeginReady, Inside, SetTask, Continue, Call
<1>7. CASE FinishSubmit
  <2>1. t = Call.task
    BY <1>1, <1>5, <1>7 DEF FinishSubmit, Inside, SetTask
  <2>2. Call.verdict # None
    BY <1>7, <2>1, FinishIsFirm DEF FinishSubmit, Inside, None
  <2>. QED  BY <1>7, <2>1, <2>2 DEF FinishSubmit, Continue, Call
<1>8. CASE BeginRunning
  <2>1. task' = [task EXCEPT ![Call.task] = "RUNNING"]  BY <1>8 DEF BeginRunning, SetTask
  <2>. QED  BY <1>1, <1>5, <2>1
<1>9. CASE FinishJudge
  <2>1. task' = [task EXCEPT ![Call.task] = Call.verdict] /\ Call.verdict \in {"ACCEPTED", "REVISE"}
    BY <1>9, CallType DEF FinishJudge, SetTask, Inside, PhaseInv, Verdict
  <2>. QED  BY <1>1, <1>5, <2>1
<1>10. CASE BeginNew \/ CreateRemedy
  <2>1. task[t] \in {"READY", "SUBMITTED"}
    BY <1>1, <1>10 DEF BeginNew, CreateRemedy, SetTask
  <2>. QED  BY <1>5, <1>10, <2>1 DEF BeginNew, CreateRemedy, Inside
<1>11. CASE BeginAgain \/ BeginNotReady \/ CommitArtifact \/ CommitLink \/ FinishSkip
  <2>1. task' = task /\ phase \notin {"ready", "submitted"}
    BY <1>11 DEF BeginAgain, BeginNotReady, CommitArtifact, CommitLink, FinishSkip, Inside, store
  <2>. QED  BY <1>5, <2>1
<1>12. CASE End \/ StartAny
  <2>1. task' = task
    BY <1>12 DEF End, StartAny, Start, store
  <2>2. phase = "call"
    <3>1. CASE StartAny  BY <3>1 DEF StartAny, Start, PhaseInv
    <3>2. CASE End
      <4>1. mode \in Mode /\ at = Len(Program[mode]) + 1 /\ Len(Program[mode]) \in Nat
        BY <3>2, ProgramAssumption DEF End, TypeOK
      <4>. QED  BY <4>1 DEF PhaseInv
    <3>. QED  BY <1>12, <3>1, <3>2
  <2>. QED  BY <1>5, <2>1, <2>2
<1>13. CASE UNCHANGED vars
  BY <1>5, <1>13 DEF vars, store, run, Call
<1>. QED  BY <1>3, <1>6, <1>7, <1>8, <1>9, <1>10, <1>11, <1>12, <1>13 DEF Next, Run

\* A run is refused with TaskNotReady only behind a task that an interruption
\* left between two advance() calls.
THEOREM RefusalSafe ==
  ASSUME WellOrdered, FinishesBegun, DependenciesFinished
  PROVE  Spec => []RefusedOnlyBehindStuck
<1>1. IInv /\ RefusalInv /\ [Next]_vars => RefusalInv'
  BY RefusalKept
<1>2. IInv /\ RerunInv /\ RefusalInv => RefusedOnlyBehindStuck
  <2>. SUFFICES ASSUME IInv, RerunInv, RefusalInv, Inside("begin", "created"),
                       NEW d \in Depends[Call.task], task[d] # "ACCEPTED"
                PROVE  crashes > 0 /\ Stuck(d)
    BY DEF RefusedOnlyBehindStuck, DependenciesAccepted
  <2>. USE DEF IInv
  <2>1. /\ mode # None /\ mode \in Mode /\ at \in 1..Len(Program[mode])
        /\ Call.op = "begin" /\ phase = "created" /\ Call.task \in Task
    BY CallType DEF Inside, PhaseInv
  <2>2. d \in Task  BY <2>1, ProgramAssumption
  <2>3. PICK j \in 1..(at - 1) : Program[mode][j].op = "finish" /\ Program[mode][j].task = d
    BY <2>1 DEF DependenciesFinished, Call
  <2>4. Firm(d)  BY <2>1 DEF DependenciesFinished, Call
  <2>5. Program[mode][j] \in Behind  BY <2>1, <2>3 DEF Behind
  <2>6. PICK b \in Behind \cup Ended : b.op = "begin" /\ b.task = d
    BY <2>3, <2>5, BehindAndEnded
  <2>7. task[d] \in Started /\ task[d] # "RUNNING"
    BY <2>3, <2>5, <2>6 DEF RerunInv, Settled
  <2>8. Stuck(d)  BY <2>2, <2>4, <2>7 DEF RefusalInv, Stuck, Started
  <2>9. crashes # 0  BY <2>1, <2>2, <2>4, <2>8 DEF RefusalInv
  <2>. QED  BY <2>8, <2>9, ProgramAssumption DEF TypeOK
<1>. QED  BY <1>1, <1>2, RefusalInit, InvariantHolds, RerunHolds, PTL DEF Spec

-----------------------------------------------------------------------------
\* A run moves tasks as the task board promises.

\* Every write of a task row is one of the board's moves.
LEMMA TaskMoves ==
  ASSUME IInv, [Next]_vars, NEW t \in Task, NEW s, s # task[t], task' = [task EXCEPT ![t] = s]
  PROVE  \/ task[t] = NoState /\ s = "PENDING"
         \/ task[t] = "PENDING" /\ s = "READY" /\ DependenciesAccepted(t)
         \/ task[t] = "READY" /\ s = "RUNNING"
         \/ task[t] = "RUNNING" /\ s = "SUBMITTED"
         \/ task[t] = "SUBMITTED" /\ s \in {"ACCEPTED", "REVISE"}
<1>. USE DEF IInv
<1>1. task \in [Task -> TaskStates]  BY DEF TypeOK, TaskStates, Started
<1>2. task'[t] = s  BY <1>1
<1>3. CASE BeginNew
  BY <1>1, <1>2, <1>3 DEF BeginNew, SetTask
<1>4. CASE BeginReady
  BY <1>1, <1>2, <1>4 DEF BeginReady, SetTask, Inside, PhaseInv
<1>5. CASE BeginRunning
  BY <1>1, <1>2, <1>5 DEF BeginRunning, SetTask, Inside, PhaseInv
<1>6. CASE FinishSubmit
  BY <1>1, <1>2, <1>6 DEF FinishSubmit, SetTask
<1>7. CASE FinishJudge
  <2>1. Call.verdict \in {"ACCEPTED", "REVISE"} /\ task[Call.task] = "SUBMITTED"
    BY <1>7, CallType DEF FinishJudge, Inside, PhaseInv, Verdict
  <2>. QED  BY <1>1, <1>2, <1>7, <2>1 DEF FinishJudge, SetTask
<1>8. CASE CreateRemedy
  BY <1>1, <1>2, <1>8 DEF CreateRemedy
<1>9. UNCHANGED task \/ BeginNew \/ BeginReady \/ BeginRunning \/ FinishSubmit \/ FinishJudge
        \/ CreateRemedy
  BY DEF Next, Run, BeginAgain, BeginNotReady, CommitArtifact, CommitLink, FinishSkip, End, StartAny,
         Start, Crash, vars, store
<1>10. CASE UNCHANGED task
  BY <1>2, <1>10
<1>. QED  BY <1>3, <1>4, <1>5, <1>6, <1>7, <1>8, <1>9, <1>10

\* The contract a row was created with, as the refinement maps it.
Rows == [t \in Task |-> IF task[t] = NoState THEN None ELSE TaskContract(t)]

LEMMA BoardStep ==
  ASSUME IInv, [Next]_vars
  PROVE  [Board!Next]_(Board!vars)
<1>1. task \in [Task -> TaskStates]  BY DEF IInv, TypeOK, TaskStates, Started
<1>2. CASE UNCHANGED task
  BY <1>2 DEF Board!vars
<1>3. CASE TaskWrite
  <2>1. PICK t \in Task, s \in TaskStates : task' = [task EXCEPT ![t] = s]
    BY <1>3 DEF TaskWrite
  <2>2. CASE s = task[t]
    BY <1>1, <1>2, <2>1, <2>2
  <2>3. CASE s # task[t]
    <3>1. task[t] # NoState => Rows' = Rows /\ Rows[t] = TaskContract(t)
      <4>. SUFFICES ASSUME task[t] # NoState  PROVE Rows' = Rows /\ Rows[t] = TaskContract(t)
        OBVIOUS
      <4>1. s # NoState
        BY <2>1, <2>3, TaskMoves DEF NoState
      <4>2. \A u \in Task : task'[u] = NoState <=> task[u] = NoState
        BY <1>1, <2>1, <4>1
      <4>. QED  BY <4>2 DEF Rows
    <3>2. CASE task[t] = NoState /\ s = "PENDING"
      <4> DEFINE k == TaskContract(t)
      <4>1. k.id = t /\ k.key = t /\ k.state = "PENDING"  BY DEF TaskContract
      <4>2. Rows' = [Rows EXCEPT ![t] = k]
        <5>1. \A u \in Task : task'[u] = IF u = t THEN "PENDING" ELSE task[u]
          BY <1>1, <2>1, <3>2
        <5>. QED  BY <5>1 DEF Rows, NoState
      <4>3. \A u \in Task : task[u] # NoState => Rows[u].key # k.key
        BY <3>2, <4>1 DEF Rows, TaskContract
      <4>. HIDE DEF k
      <4>4. Board!Create(k)
        BY <2>1, <3>2, <4>1, <4>2, <4>3 DEF Board!Create, Rows
      <4>. QED  BY <3>2, <4>1, <4>4 DEF Board!Next, k
    <3>3. CASE task[t] = "PENDING" /\ s = "READY" /\ DependenciesAccepted(t)
      <4>1. Rows[t].depends = Depends[t]  BY <3>1, <3>3 DEF NoState, TaskContract
      <4>. QED
        BY <2>1, <3>1, <3>3, <4>1
        DEF Board!Next, Board!Start, Board!Move, Rows, DependenciesAccepted, NoState
    <3>4. CASE task[t] = "READY" /\ s = "RUNNING"
      BY <2>1, <3>1, <3>4 DEF Board!Next, Board!Run, Board!Move, Rows, NoState
    <3>5. CASE task[t] = "RUNNING" /\ s = "SUBMITTED"
      BY <2>1, <3>1, <3>5 DEF Board!Next, Board!Report, Board!Move, Rows, NoState
    <3>6. CASE task[t] = "SUBMITTED" /\ s \in {"ACCEPTED", "REVISE"}
      BY <2>1, <3>1, <3>6 DEF Board!Next, Board!Judge, Board!Move, Rows, NoState
    <3>. QED  BY <2>1, <2>3, <3>2, <3>3, <3>4, <3>5, <3>6, TaskMoves
  <2>. QED  BY <2>2, <2>3
<1>. QED  BY <1>2, <1>3, NextWritesTasks DEF TaskStep

\* The runs of any well-ordered program, interrupted and restarted in any mode,
\* drive the tasks as the task board promises: creates once, starts behind
\* accepted dependencies, reports, and judges what was reported.
THEOREM PipelineImplementsBoard == WellOrdered => (Spec => ImplementsBoard)
<1>. SUFFICES ASSUME WellOrdered PROVE Spec => ImplementsBoard  OBVIOUS
<1>1. Init => Board!Init
  BY DEF Init, Board!Init
<1>2. IInv /\ [Next]_vars => [Board!Next]_(Board!vars)
  BY BoardStep
<1>. QED  BY <1>1, <1>2, InvariantHolds, PTL DEF Spec, ImplementsBoard, Board!Spec

-----------------------------------------------------------------------------
\* A run appends to the artifacts as the ledger promises.

\* A commit of a program that commits once names the inputs of its envelope.
LEMMA EnvelopeRefs ==
  ASSUME CommitsOnce, NEW m \in Mode, NEW c \in CommitCalls[m], c.artifact \in Artifact
  PROVE  Envelope[m][c.artifact] =
           [id |-> c.artifact, project |-> "project", key |-> c.artifact, mode |-> m,
            refs |-> Range_(c.refs)]
<1> DEFINE same == {d \in CommitCalls[m] : d.artifact = c.artifact}
<1>1. c \in same /\ \A d \in same : d.refs = c.refs
  BY DEF CommitsOnce
<1>2. {Range_(d.refs) : d \in same} = {Range_(c.refs)}
  BY <1>1
<1>3. UNION {Range_(d.refs) : d \in same} = Range_(c.refs)
  BY <1>2
<1>. QED  BY <1>3 DEF Envelope

\* The first commit of an artifact appends its envelope; a later one, in
\* whichever mode, leaves the artifacts as they are.
LEMMA LedgerStep ==
  ASSUME IInv, WellOrdered, CommitsOnce, [Next]_vars, IsFiniteSet(Committed)
  PROVE  [Ledger!Next]_(Ledger!vars) /\ IsFiniteSet(Committed')
<1>. USE DEF IInv
<1>1. CASE UNCHANGED artifact
  <2>1. Committed' = Committed  BY <1>1 DEF Committed
  <2>. QED  BY <1>1, <2>1 DEF Ledger!vars, Entries
<1>2. CASE CommitArtifact /\ artifact' # artifact
  <2> DEFINE a == Call.artifact
             k == Envelope[mode][a]
  <2>1. /\ mode \in Mode /\ at \in 1..Len(Program[mode]) /\ a \in Artifact
        /\ Call \in CommitCalls[mode] /\ Range_(Call.refs) \subseteq Committed
    <3>1. mode \in Mode /\ at \in 1..Len(Program[mode])
      BY <1>2, CallType DEF CommitArtifact, Inside, PhaseInv
    <3>. QED
      BY <1>2, <3>1
      DEF WellOrdered, Call, CommitArtifact, Inside, InputsPresent, CommitCalls, Calls, Range_
  <2>2. k = [id |-> a, project |-> "project", key |-> a, mode |-> mode,
             refs |-> Range_(Call.refs)]
    BY <2>1, EnvelopeRefs
  <2>3. artifact[a] = None /\ artifact' = [artifact EXCEPT ![a] = mode] /\ mode # None
    BY <1>2, <2>1 DEF CommitArtifact, Stored, TypeOK, Inside
  <2>4. k \in {Envelope[m][b] : m \in Mode, b \in Artifact}
    BY <2>1
  <2>. HIDE DEF a, k
  <2>5. /\ Committed' = Committed \cup {a} /\ a \notin Committed
        /\ \A b \in Committed : artifact'[b] = artifact[b]
        /\ artifact'[a] = mode
    BY <2>1, <2>3 DEF Committed, TypeOK
  <2>6. /\ IsFiniteSet(Committed')
        /\ Cardinality(Committed') = Cardinality(Committed) + 1
    BY <2>5, FS_AddElement
  <2>7. Entries' = Entries \cup {[id |-> a, version |-> 1, call |-> k]}
    BY <2>5 DEF Entries, k
  <2>8. ASSUME NEW e \in Entries  PROVE e.id \in Committed /\ e.call.key = e.id
    <3>1. PICK b \in Committed : e = [id |-> b, version |-> 1, call |-> Envelope[artifact[b]][b]]
      BY Zenon DEF Entries
    <3>2. artifact[b] \in Mode /\ b \in Artifact  BY DEF Committed, TypeOK
    <3>3. Envelope[artifact[b]][b].key = b  BY <3>2 DEF Envelope
    <3>. QED  BY <3>1, <3>3
  <2>9. ASSUME NEW b \in Committed  PROVE \E e \in Entries : e.id = b
    <3>1. [id |-> b, version |-> 1, call |-> Envelope[artifact[b]][b]] \in Entries
      BY Zenon DEF Entries
    <3>. QED  BY <3>1
  <2>10. \A e \in Entries : e.call.key # k.key /\ e.id # k.id
    BY <2>2, <2>5, <2>8
  <2>11. \A b \in k.refs : \E e \in Entries : e.id = b
    BY <2>1, <2>2, <2>9
  <2>12. [p \in {"project"} |-> Cardinality(Committed')] =
           [[p \in {"project"} |-> Cardinality(Committed)]
              EXCEPT ![k.project] = @ + 1]
    BY <2>2, <2>6
  <2>13. {[key |-> b, ref |-> [id |-> b, version |-> 1]] : b \in Committed'} =
           {[key |-> b, ref |-> [id |-> b, version |-> 1]] : b \in Committed}
             \cup {[key |-> k.key, ref |-> [id |-> k.id, version |-> 1]]}
    BY <2>2, <2>5
  <2>14. Ledger!Append(k, 1)
    BY <2>2, <2>7, <2>10, <2>11, <2>12, <2>13 DEF Ledger!Append
  <2>. QED  BY <2>4, <2>6, <2>14 DEF Ledger!Next
<1>. QED  BY <1>1, <1>2, OnlyCommitWrites

\* If all commits of an artifact name the same inputs, the runs of a
\* well-ordered program keep the ledger's promise: artifacts appear one by one
\* behind their inputs, and no rerun, in whichever mode, rewrites one.
THEOREM PipelineImplementsLedger == WellOrdered /\ CommitsOnce => (Spec => ImplementsLedger)
<1>. SUFFICES ASSUME WellOrdered, CommitsOnce PROVE Spec => ImplementsLedger  OBVIOUS
<1>1. Init => Ledger!Init /\ IsFiniteSet(Committed)
  <2>. SUFFICES ASSUME Init PROVE Ledger!Init /\ IsFiniteSet(Committed)  OBVIOUS
  <2>1. Committed = {}  BY DEF Init, Committed
  <2>2. IsFiniteSet(Committed) /\ Cardinality(Committed) = 0  BY <2>1, FS_EmptySet
  <2>. QED  BY <2>1, <2>2 DEF Ledger!Init, Entries
<1>2. IInv /\ IsFiniteSet(Committed) /\ [Next]_vars =>
        [Ledger!Next]_(Ledger!vars) /\ IsFiniteSet(Committed)'
  BY LedgerStep
<1>. QED  BY <1>1, <1>2, InvariantHolds, PTL DEF Spec, ImplementsLedger, Ledger!Spec

-----------------------------------------------------------------------------
\* A run gets on.  The two theorems are the safety half of EndsUnlessStuck: what
\* remains of it is the fairness of the interpreter and of whoever restarts the
\* command, and that runs out of interruptions.

\* How far inside its call a run is.
Within == IF phase = "call" THEN 0 ELSE IF phase = "ready" THEN 2 ELSE 1 + linked

Advances ==
  /\ mode' = mode
  /\ \/ at' = at + 1 /\ at' <= Len(Program[mode]) + 1
     \/ at' = at /\ Within' > Within /\ Within' <= Len(Call.refs) + 2

\* Every step of a run takes it forward by a call or inside its call, both
\* bounded, so that a run is never longer than its program allows; else it is
\* the run's last: its end, an interruption, or TaskNotReady behind a task that
\* an interruption left between two advance() calls.
RunAdvances ==
  [][mode # None =>
       \/ Advances
       \/ mode' = None /\ report' = mode /\ at = Len(Program[mode]) + 1
       \/ mode' = None /\ crashes' = crashes + 1
       \/ mode' = None /\ crashes > 0 /\ \E d \in Depends[Call.task] : Stuck(d)]_vars

\* A run is never at a loss: in every state of a run one of its calls can go on,
\* each with what it needs.
RunNeverBlocked ==
  mode # None =>
    \/ Inside("begin", "call") \/ Inside("begin", "created") \/ Inside("begin", "ready")
    \/ Inside("commit", "call") /\ InputsPresent
    \/ Inside("commit", "link") /\ linked < Len(Call.refs)
    \/ Inside("finish", "call") \/ Inside("finish", "submitted")
    \/ Inside("remedy", "call")
    \/ at = Len(Program[mode]) + 1

LEMMA StepAdvances ==
  ASSUME IInv, WellOrdered, Run, ~BeginNotReady, ~End
  PROVE  Advances
<1>. USE DEF IInv
<1>1. mode # None /\ at <= Len(Program[mode])
  BY DEF Run, BeginNew, BeginAgain, BeginReady, BeginRunning, CommitArtifact, CommitLink,
         FinishSubmit, FinishJudge, FinishSkip, CreateRemedy, Inside
<1>2. /\ at \in 1..Len(Program[mode]) /\ Len(Program[mode]) \in Nat
      /\ Len(Call.refs) \in Nat /\ linked \in Nat
  BY <1>1, CallType DEF PhaseInv, TypeOK
<1>3. CASE at' = at + 1 /\ mode' = mode
  BY <1>2, <1>3 DEF Advances
<1>4. CASE ~(at' = at + 1 /\ mode' = mode)
  <2>1. \/ phase = "call" /\ phase' = "created" /\ mode' = mode /\ at' = at /\ linked' = linked
        \/ phase = "created" /\ phase' = "ready" /\ mode' = mode /\ at' = at /\ linked' = linked
        \/ phase = "call" /\ phase' = "submitted" /\ mode' = mode /\ at' = at /\ linked' = linked
        \/ phase = "call" /\ phase' = "link" /\ mode' = mode /\ at' = at /\ linked' = linked
        \/ /\ phase = "link" /\ phase' = "link" /\ mode' = mode /\ at' = at
           /\ linked' = linked + 1 /\ linked + 1 # Len(Call.refs)
    BY <1>2, <1>4
    DEF Run, BeginNew, BeginAgain, BeginReady, BeginRunning, CommitArtifact, CommitLink,
        FinishSubmit, FinishJudge, FinishSkip, CreateRemedy, Inside, Continue, Return
  <2>2. /\ phase # "link" => linked = 0
        /\ phase = "link" => linked < Len(Call.refs)
    BY DEF PhaseInv
  <2>. QED  BY <1>2, <2>1, <2>2 DEF Advances, Within
<1>. QED  BY <1>3, <1>4

\* Every run of such a program is finite, and ends as RunAdvances says.
THEOREM RunsAdvance ==
  ASSUME WellOrdered, FinishesBegun, DependenciesFinished
  PROVE  Spec => RunAdvances
<1> DEFINE Forward == mode # None =>
             \/ Advances
             \/ mode' = None /\ report' = mode /\ at = Len(Program[mode]) + 1
             \/ mode' = None /\ crashes' = crashes + 1
             \/ mode' = None /\ crashes > 0 /\ \E d \in Depends[Call.task] : Stuck(d)
<1>1. IInv /\ RefusedOnlyBehindStuck /\ [Next]_vars => [Forward]_vars
  <2>. SUFFICES ASSUME IInv, RefusedOnlyBehindStuck, Next, mode # None  PROVE Forward
    OBVIOUS
  <2>1. CASE End
    BY <2>1 DEF End, Memory
  <2>2. CASE Crash
    BY <2>2 DEF Crash, Memory
  <2>3. CASE BeginNotReady
    BY <2>3 DEF BeginNotReady, Memory, RefusedOnlyBehindStuck
  <2>4. CASE Run /\ ~BeginNotReady /\ ~End
    BY <2>4, StepAdvances
  <2>5. ~StartAny  BY DEF StartAny, Start
  <2>. QED  BY <2>1, <2>2, <2>3, <2>4, <2>5 DEF Next
<1>. QED  BY <1>1, InvariantHolds, RefusalSafe, PTL DEF Spec, RunAdvances

\* No state of a run leaves it without a call that can go on.
THEOREM RunsNeverBlock == WellOrdered => (Spec => []RunNeverBlocked)
<1>. SUFFICES ASSUME WellOrdered PROVE Spec => []RunNeverBlocked  OBVIOUS
<1>1. IInv => RunNeverBlocked
  <2>. SUFFICES ASSUME IInv, mode # None, at # Len(Program[mode]) + 1  PROVE RunNeverBlocked
    BY DEF RunNeverBlocked
  <2>. USE DEF IInv
  <2>1. mode \in Mode /\ Len(Program[mode]) \in Nat
    BY ProgramAssumption DEF TypeOK
  <2>2. at >= 1 /\ at <= Len(Program[mode])
    BY <2>1 DEF PhaseInv, TypeOK
  <2>3. Call.op \in {"begin", "commit", "finish", "remedy"}
    BY <2>2, CallType DEF Step
  <2>4. Call.op = "commit" => InputsPresent
    BY <2>2, InputsThere
  <2>. QED  BY <2>2, <2>3, <2>4 DEF RunNeverBlocked, PhaseInv, TypeOK, Inside
<1>. QED  BY <1>1, InvariantHolds, PTL

-----------------------------------------------------------------------------
\* What a completed run leaves behind.

\* Every artifact of a completed run is in the store, and every task it ends is
\* judged; a task that can only be accepted is accepted, unless an interruption
\* has left it between two advance() calls.
CompletedRunDelivers ==
  report # None =>
    /\ \A c \in CommitCalls[report] : c.artifact \in Committed
    /\ \A c \in FinishCalls[report] :
         /\ task[c.task] \in Judged \/ Stuck(c.task)
         /\ Firm(c.task) /\ task[c.task] # "ACCEPTED" => crashes > 0 /\ Stuck(c.task)

\* A task that is being judged was not finished by the run that ended last.
FlightInv == phase = "submitted" => \A c \in Ended : c.op = "finish" => c.task # Call.task

LEMMA FlightKept ==
  ASSUME IInv, RerunInv, FlightInv, [Next]_vars
  PROVE  FlightInv'
<1>. SUFFICES ASSUME phase' = "submitted", NEW c \in Ended', c.op = "finish"
              PROVE  c.task # (Call.task)'
  BY DEF FlightInv
<1>1. CASE UNCHANGED vars
  BY <1>1 DEF FlightInv, vars, store, run, Ended, Call, Calls
<1>2. CASE FinishSubmit
  <2>1. report' = report /\ mode' = mode /\ at' = at  BY <1>2 DEF FinishSubmit, Continue, Return
  <2>2. c \in Ended /\ (Call.task)' = Call.task  BY <2>1 DEF Ended, Calls, Call
  <2>3. task[c.task] # "RUNNING" /\ task[Call.task] = "RUNNING"
    BY <1>2, <2>2 DEF RerunInv, Settled, FinishSubmit
  <2>. QED  BY <2>2, <2>3
<1>. QED  BY <1>1, <1>2, PhaseStarts

\* Also after any number of interruptions and runs in other modes.
THEOREM CompletedRunsDeliver ==
  ASSUME WellOrdered, FinishesBegun
  PROVE  Spec => []CompletedRunDelivers
<1>1. Init => FlightInv
  BY DEF Init, FlightInv
<1>2. IInv /\ RerunInv /\ FlightInv /\ [Next]_vars => FlightInv'
  BY FlightKept
<1>3. IInv /\ RefusalInv /\ [Next]_vars => RefusalInv'
  BY RefusalKept
<1>4. IInv /\ RerunInv /\ FlightInv /\ RefusalInv => CompletedRunDelivers
  <2>. SUFFICES ASSUME IInv, RerunInv, FlightInv, RefusalInv, report # None
                PROVE  CompletedRunDelivers
    BY DEF CompletedRunDelivers
  <2>. USE DEF IInv
  <2>1. report \in Mode /\ Ended = Calls(report) /\ task \in [Task -> TaskStates]
    BY DEF TypeOK, Ended, TaskStates, Started
  <2>2. \A c \in CommitCalls[report] : c.artifact \in Committed
    BY <2>1 DEF RerunInv, Settled, CommitCalls
  <2>3. ASSUME NEW c \in FinishCalls[report]
        PROVE  /\ task[c.task] \in Judged \/ Stuck(c.task)
               /\ Firm(c.task) /\ task[c.task] # "ACCEPTED" => crashes > 0 /\ Stuck(c.task)
    <3>1. c \in Ended /\ c.op = "finish" /\ c.task \in Task
      BY <2>1, StepType DEF FinishCalls
    <3>2. PICK b \in Behind \cup Ended : b.op = "begin" /\ b.task = c.task
      BY <3>1, BehindAndEnded
    <3>3. task[c.task] \in Started /\ task[c.task] # "RUNNING"
      BY <3>1, <3>2 DEF RerunInv, Settled
    <3>4. task[c.task] \in Judged \/ Stuck(c.task)
      BY <3>3 DEF Started, Judged, Stuck
    <3>5. ASSUME Firm(c.task), task[c.task] # "ACCEPTED"  PROVE crashes > 0 /\ Stuck(c.task)
      <4>1. Stuck(c.task)  BY <3>1, <3>3, <3>5 DEF RefusalInv, Stuck, Started
      <4>2. ~(phase = "ready" /\ c.task = Call.task)
        BY <3>2 DEF RerunInv
      <4>3. ~(phase = "submitted" /\ c.task = Call.task)
        BY <3>1 DEF FlightInv
      <4>4. crashes # 0  BY <3>1, <3>5, <4>1, <4>2, <4>3 DEF RefusalInv
      <4>. QED  BY <4>1, <4>4, ProgramAssumption DEF TypeOK
    <3>. QED  BY <3>4, <3>5
  <2>. QED  BY <2>2, <2>3 DEF CompletedRunDelivers
<1>. QED
  BY <1>1, <1>2, <1>3, <1>4, RefusalInit, InvariantHolds, RerunHolds, PTL DEF Spec

=============================================================================
