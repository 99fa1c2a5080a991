------------------------------ MODULE TaskStore ------------------------------
(***************************************************************************)
(* The SQLite task store (tasking/store.py): task contracts, their states  *)
(* and the event log.                                                      *)
(*                                                                         *)
(* The connection is in autocommit mode: each statement of create() and    *)
(* advance() is a transaction of its own and is one step here.  What keeps *)
(* the statements of two calls apart is a lock of the TaskStore class, so  *)
(* it covers the threads of one process and nothing else: a process here   *)
(* is one interpreter that opened the database file (the workbench, the    *)
(* MCP server, a pipeline), with at most one call inside the lock.         *)
(***************************************************************************)
EXTENDS Naturals, FiniteSets

CONSTANTS
  Process,      \* the interpreters that share the database file
  TaskId,       \* task_id values
  Key,          \* idempotency_key values
  Agent,        \* the owners of tasks
  Actor,        \* who calls advance(): agents and the privileged actors
  Target,       \* BOUND on the states callers ask advance() for
  Request,      \* the contracts callers give create()
  Successor,    \* the task_id create_revision() derives from a task_id; NoTask
                \*   where the BOUND on revisions is reached
  RevisionKey,  \* the key it derives, "revision:<task_id>:<revision + 1>"
  MayFail       \* whether a statement may fail or a process be killed

TaskState == {"PENDING", "READY", "RUNNING", "SUBMITTED", "ACCEPTED", "REVISE",
              "BLOCKED", "FAILED", "CANCELLED"}

NoState == "NONE"

NoTask == "none"

Gate == "acceptance-gate"

Privileged == {Gate, "gap2sku-reviewer", "human-manager"}

\* The fields of a TaskContract that the store's behaviour depends on.  The
\* state is the one it is created with; the row's state is in `state`.
Contract == [id: TaskId, key: Key, owner: Agent, depends: SUBSET TaskId, state: TaskState]

ASSUME RequestAssumption == Request \subseteq Contract

ASSUME TargetAssumption == Target \subseteq TaskState

\* `task_id.rsplit('-r', 1)` may map two task ids to one successor, so
\* Successor need not be one-to-one; a key names the task it was derived from.
ASSUME RevisionAssumption ==
  /\ Successor \in [TaskId -> TaskId \cup {NoTask}]
  /\ RevisionKey \in [TaskId -> Key]
  /\ NoTask \notin TaskId

ASSUME FailAssumption == MayFail \in BOOLEAN

VARIABLES
  state,     \* table tasks, column state: task_id -> state, NoState without a row
  contract,  \* table tasks, the other columns, written once
  last,      \* table task_events: to_state of the newest event of each task
  pc,        \* where each process stands inside the lock
  job,       \* its call: the task as it read it, and the event to record
  todo,      \* the dependencies it has still to read
  accepted,  \* HISTORY: the tasks whose row ever said ACCEPTED
  admitted,  \* HISTORY: the tasks advance() ever made READY
  answers    \* HISTORY: the (key, task_id) pairs create() returned

tables == <<state, contract, last>>
locals == <<pc, job, todo>>
history == <<accepted, admitted, answers>>
vars == <<tables, locals, history>>

NoContract == [id |-> NoTask, key |-> "none", owner |-> "none", depends |-> {}, state |-> NoState]

\* A call of create() or advance(): the contract it holds in memory, the
\* states its event will name and who asked.
Job == [task: Contract, from: TaskState \cup {NoState}, to: TaskState,
        actor: Actor \cup {"system"}]

NoJob == [task |-> NoContract, from |-> NoState, to |-> NoState, actor |-> "none"]

Rows == {t \in TaskId : state[t] # NoState}

-----------------------------------------------------------------------------

Init ==
  /\ state = [t \in TaskId |-> NoState]
  /\ contract = [t \in TaskId |-> NoContract]
  /\ last = [t \in TaskId |-> NoState]
  /\ pc = [p \in Process |-> "idle"]
  /\ job = [p \in Process |-> NoJob]
  /\ todo = [p \in Process |-> {}]
  /\ accepted = {}
  /\ admitted = {}
  /\ answers = {}

\* The call returns or raises and the lock is released.
Release(p) ==
  /\ pc' = [pc EXCEPT ![p] = "idle"]
  /\ job' = [job EXCEPT ![p] = NoJob]
  /\ todo' = [todo EXCEPT ![p] = {}]

\* A row of `tasks` is written with state s.
SetState(t, s) ==
  /\ state' = [state EXCEPT ![t] = s]
  /\ accepted' = IF s = "ACCEPTED" THEN accepted \cup {t} ELSE accepted

-----------------------------------------------------------------------------
\* create()

KeyUsed(k) == \E t \in Rows : contract[t].key = k

\* FAULTY VARIANTS, here and below under names that say what they get wrong:
\* no specification uses them, they stand in for a definition when the
\* properties are tested for what they can detect.
KeyNotUnique(k) == state[k.id] # NoState

\* The key has a row: create() returns that task, whatever else was asked.
CreateReplay(p, k) ==
  /\ pc[p] = "idle"
  /\ \E t \in Rows :
       /\ contract[t].key = k.key
       /\ answers' = answers \cup {[key |-> k.key, id |-> t]}
  /\ UNCHANGED <<tables, locals, accepted, admitted>>

\* The SELECT on the key found nothing.
CreateLookup(p, k) ==
  /\ pc[p] = "idle"
  /\ ~KeyUsed(k.key)
  /\ job' = [job EXCEPT ![p] = [task |-> k, from |-> NoState, to |-> k.state, actor |-> "system"]]
  /\ pc' = [pc EXCEPT ![p] = "insert"]
  /\ UNCHANGED <<tables, todo, history>>

\* PRIMARY KEY(task_id) and UNIQUE(idempotency_key).
Conflict(k) == state[k.id] # NoState \/ KeyUsed(k.key)

\* The row says what the contract says: create() does not look at its state,
\* so task.create (mcp_server.py, mcp_official.py) may insert a task that is
\* started or ACCEPTED already, whatever its dependencies say.
CreateInsert(p) ==
  LET k == job[p].task
  IN /\ pc[p] = "insert"
     /\ ~Conflict(k)
     /\ SetState(k.id, k.state)
     /\ contract' = [contract EXCEPT ![k.id] = k]
     /\ pc' = [pc EXCEPT ![p] = "record"]
     /\ UNCHANGED <<last, job, todo, admitted, answers>>

\* sqlite3.IntegrityError
CreateConflict(p) ==
  /\ pc[p] = "insert"
  /\ Conflict(job[p].task)
  /\ Release(p)
  /\ UNCHANGED <<tables, history>>

\* create_revision() reads the prior task and creates its successor, PENDING,
\* with the prior's dependencies.  It reads outside the lock, but only columns
\* that are written once.
Revised(k, o) ==
  [k EXCEPT !.id = Successor[k.id], !.key = RevisionKey[k.id], !.owner = o, !.state = "PENDING"]

Revisions(o) == {Revised(contract[t], o) : t \in {r \in Rows : Successor[r] # NoTask}}

-----------------------------------------------------------------------------
\* advance()

TRANSITIONS ==
  [s \in TaskState |->
     CASE s = "PENDING"   -> {"READY", "CANCELLED"}
       [] s = "READY"     -> {"RUNNING", "CANCELLED"}
       [] s = "RUNNING"   -> {"SUBMITTED", "FAILED", "CANCELLED"}
       [] s = "SUBMITTED" -> {"ACCEPTED", "REVISE", "BLOCKED"}
       [] s = "REVISE"    -> {"READY", "CANCELLED"}
       [] s = "BLOCKED"   -> {"REVISE", "CANCELLED"}
       [] s = "FAILED"    -> {"REVISE", "CANCELLED"}
       [] OTHER           -> {}]

AcceptedReopens(s, to) == to \in TRANSITIONS[s] \/ (s = "ACCEPTED" /\ to = "REVISE")
DependenciesUnread(k, to) == {}
EventOfOldState(p) == [last EXCEPT ![job[p].task.id] = job[p].from]

LegalTransition(s, to) == to \in TRANSITIONS[s]

\* The owner and the privileged actors may advance a task; only the gate to
\* ACCEPTED.
MayAdvance(a, k, to) ==
  /\ a = k.owner \/ a \in Privileged
  /\ to = "ACCEPTED" => a = Gate

\* The dependencies advance() reads before it writes `to`.
ToRead(k, to) == IF to = "READY" THEN k.depends ELSE {}

\* advance() reads the row and passes every check but the dependencies'.
AdvanceRead(p, t, to, a) ==
  /\ pc[p] = "idle"
  /\ t \in Rows
  /\ LegalTransition(state[t], to)
  /\ MayAdvance(a, contract[t], to)
  /\ job' = [job EXCEPT ![p] = [task |-> contract[t], from |-> state[t], to |-> to, actor |-> a]]
  /\ todo' = [todo EXCEPT ![p] = ToRead(contract[t], to)]
  /\ pc' = [pc EXCEPT ![p] = "update"]
  /\ UNCHANGED <<tables, history>>

\* One SELECT per dependency.
DependencyAccepted(p, d) ==
  /\ pc[p] = "update"
  /\ d \in todo[p]
  /\ state[d] = "ACCEPTED"
  /\ todo' = [todo EXCEPT ![p] = @ \ {d}]
  /\ UNCHANGED <<tables, pc, job, history>>

\* TaskNotReady: a dependency is missing or not ACCEPTED.
DependencyMissing(p, d) ==
  /\ pc[p] = "update"
  /\ d \in todo[p]
  /\ state[d] # "ACCEPTED"
  /\ Release(p)
  /\ UNCHANGED <<tables, history>>

\* UPDATE tasks SET state=? WHERE task_id=?: whatever the row says by now.
AdvanceUpdate(p) ==
  /\ pc[p] = "update"
  /\ todo[p] = {}
  /\ SetState(job[p].task.id, job[p].to)
  /\ admitted' = IF job[p].to = "READY" THEN admitted \cup {job[p].task.id} ELSE admitted
  /\ pc' = [pc EXCEPT ![p] = "record"]
  /\ UNCHANGED <<contract, last, job, todo, answers>>

-----------------------------------------------------------------------------
\* _record(): the INSERT of the event, the last statement of both.

EventInserted(p) == [last EXCEPT ![job[p].task.id] = job[p].to]

Record(p) ==
  /\ pc[p] = "record"
  /\ last' = EventInserted(p)
  /\ answers' = IF job[p].from = NoState
                THEN answers \cup {[key |-> job[p].task.key, id |-> job[p].task.id]}
                ELSE answers
  /\ Release(p)
  /\ UNCHANGED <<state, contract, accepted, admitted>>

\* A statement raises ("database is locked") or the process is killed.
Fail(p) ==
  /\ MayFail
  /\ pc[p] # "idle"
  /\ Release(p)
  /\ UNCHANGED <<tables, history>>

-----------------------------------------------------------------------------

CreateStep(p) ==
  \/ \E k \in Request : CreateReplay(p, k) \/ CreateLookup(p, k)
  \/ \E o \in Agent : \E k \in Revisions(o) : CreateReplay(p, k) \/ CreateLookup(p, k)
  \/ CreateInsert(p)
  \/ CreateConflict(p)

AdvanceStep(p) ==
  \/ \E t \in TaskId, to \in Target, a \in Actor : AdvanceRead(p, t, to, a)
  \/ \E d \in TaskId : DependencyAccepted(p, d)
  \/ \E d \in TaskId : DependencyMissing(p, d)
  \/ AdvanceUpdate(p)

Next == \E p \in Process : CreateStep(p) \/ AdvanceStep(p) \/ Record(p) \/ Fail(p)

Spec == Init /\ [][Next]_vars

-----------------------------------------------------------------------------
\* Properties

TypeOK ==
  /\ state \in [TaskId -> TaskState \cup {NoState}]
  /\ contract \in [TaskId -> Contract \cup {NoContract}]
  /\ \A t \in TaskId : IF t \in Rows THEN contract[t] \in Contract /\ contract[t].id = t
                                    ELSE contract[t] = NoContract
  /\ last \in [TaskId -> TaskState \cup {NoState}]
  /\ pc \in [Process -> {"idle", "insert", "update", "record"}]
  /\ job \in [Process -> Job \cup {NoJob}]
  /\ \A p \in Process : pc[p] = "idle" <=> job[p] = NoJob
  /\ todo \in [Process -> SUBSET TaskId]
  /\ accepted \subseteq TaskId
  /\ admitted \subseteq Rows
  /\ answers \subseteq [key: Key, id: TaskId]

\* create() is idempotent however many processes race, fail and retry: a key
\* has at most one task, and every caller that used the key got that one.
OneTaskPerKey ==
  /\ \A t, u \in Rows : contract[t].key = contract[u].key => t = u
  /\ \A x \in answers : x.id \in Rows /\ contract[x.id].key = x.key

\* "only acceptance-gate may ACCEPT" (store.py:136): whatever the other calls
\* in flight, a row that exists becomes ACCEPTED only by a call the gate made
\* after it had read the task SUBMITTED; the only other way to a row that says
\* ACCEPTED is to create the task in that state.
OnlyGateAccepts ==
  [][\A t \in TaskId : state[t] # "ACCEPTED" /\ state'[t] = "ACCEPTED" =>
       \/ \E p \in Process : /\ pc[p] = "update" /\ job[p].task.id = t
                             /\ job[p].from = "SUBMITTED" /\ job[p].actor = Gate
       \/ state[t] = NoState /\ contract'[t].state = "ACCEPTED"]_vars

AtWork == {"READY", "RUNNING", "SUBMITTED", "ACCEPTED"}

\* The tasks whose dependencies advance() answers for: those it ever made
\* READY, and those that are at work although they were not created so.  A task
\* created at work is its caller's affair until a REVISE sends it back to READY.
Vouched(t) == t \in admitted \/ (state[t] \in AtWork /\ contract[t].state \notin AtWork)

\* A task that advance() put to work, now or at any time before, has
\* dependencies that were each ACCEPTED at some time, even when other processes
\* overwrite rows meanwhile and whatever states tasks are created in.
StartedAfterDependencies ==
  \A t \in Rows : Vouched(t) => contract[t].depends \subseteq accepted

\* ACCEPTED and CANCELLED have no transition (store.py:32-33), so a task that
\* others were started on stays as it was judged.
JudgedIsFinal ==
  [][\A t \in TaskId : state[t] \in {"ACCEPTED", "CANCELLED"} => state'[t] = state[t]]_vars

\* A task that advance() put to work, now or at any time before, rests on tasks
\* that are ACCEPTED now: what was checked at READY does not lapse later.
DependenciesStand ==
  \A t \in Rows : Vouched(t) => \A d \in contract[t].depends : state[d] = "ACCEPTED"

\* The event log explains the row: the newest event names the row's state,
\* or the call that wrote the state is about to insert an event that does and
\* that follows on from the newest one.
EventsExplainState ==
  \A t \in Rows : last[t] # state[t] =>
    \E p \in Process : pc[p] = "record" /\ job[p].task.id = t
                       /\ job[p].to = state[t] /\ job[p].from = last[t]

-----------------------------------------------------------------------------
\* Refinement: within one process, create() and advance() are atomic.

Board == INSTANCE TaskBoard

ImplementsBoard == Board!Spec

==============================================================================
