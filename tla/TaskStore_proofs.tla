--------------------------- MODULE TaskStore_proofs ---------------------------
(***************************************************************************)
(* Proofs about TaskStore.  What holds for any number of processes comes   *)
(* first; then what needs their calls to stay apart on each task, which    *)
(* the lock guarantees within one process (OneProcess).                    *)
(***************************************************************************)
EXTENDS TaskStore, TLAPS

\* The class-level lock covers every caller of the database file.
OneProcess == \A p, q \in Process : p = q

\* What the lock is needed for: no two processes are at once between the read
\* and the write of advance() on one task.
Apart ==
  \A p, q \in Process : p # q /\ pc[p] = "update" /\ pc[q] = "update" =>
    job[p].task.id # job[q].task.id

\* For the event log: nor while one has still to insert its event.
RecordedApart ==
  \A p, q \in Process :
    p # q /\ pc[p] \in {"update", "record"} /\ pc[q] \in {"update", "record"} =>
      job[p].task.id # job[q].task.id

\* A contract that create() may be given: a caller's, or a revision's.
Creatable(k) == k \in Contract /\ (k \in Request \/ k.state = "PENDING")

\* The steps of a process, one per action.
Step(p) ==
  \/ \E k \in Contract : Creatable(k) /\ CreateReplay(p, k)
  \/ \E k \in Contract : Creatable(k) /\ CreateLookup(p, k)
  \/ CreateInsert(p)
  \/ CreateConflict(p)
  \/ \E t \in TaskId, to \in TaskState, a \in Actor : AdvanceRead(p, t, to, a)
  \/ \E d \in TaskId : DependencyAccepted(p, d)
  \/ \E d \in TaskId : DependencyMissing(p, d)
  \/ AdvanceUpdate(p)
  \/ Record(p)
  \/ Fail(p)

\* A revision is a contract in its own right, created PENDING.
LEMMA RevisionIsCreatable ==
  ASSUME TypeOK, NEW o \in Agent, NEW k \in Revisions(o)
  PROVE  Creatable(k)
<1>1. PICK t \in Rows : Successor[t] # NoTask /\ k = Revised(contract[t], o)
  BY DEF Revisions
<1>2. t \in TaskId /\ contract[t] \in Contract /\ contract[t].id = t
  BY DEF TypeOK, Rows
<1>3. Successor[t] \in TaskId /\ RevisionKey[t] \in Key
  BY <1>1, <1>2, RevisionAssumption
<1> QED
  BY <1>1, <1>2, <1>3 DEF Revised, Creatable, Contract, TaskState

\* Every step is a step of one process.
LEMMA NextIsStep ==
  ASSUME TypeOK, Next
  PROVE  \E p \in Process : Step(p)
<1>1. PICK p \in Process : CreateStep(p) \/ AdvanceStep(p) \/ Record(p) \/ Fail(p)
  BY DEF Next
<1>2. CASE CreateStep(p)
  <2>1. CASE \E k \in Request : CreateReplay(p, k) \/ CreateLookup(p, k)
    BY <2>1, RequestAssumption DEF Step, Creatable
  <2>2. CASE \E o \in Agent : \E k \in Revisions(o) : CreateReplay(p, k) \/ CreateLookup(p, k)
    <3>1. PICK o \in Agent : \E k \in Revisions(o) : CreateReplay(p, k) \/ CreateLookup(p, k)
      BY <2>2
    <3>2. PICK k \in Revisions(o) : CreateReplay(p, k) \/ CreateLookup(p, k)
      BY <3>1
    <3> QED
      BY <3>2, RevisionIsCreatable DEF Step, Creatable
  <2> QED
    BY <1>2, <2>1, <2>2 DEF CreateStep, Step
<1>3. CASE AdvanceStep(p)
  BY <1>3, TargetAssumption DEF AdvanceStep, Step
<1> QED
  BY <1>1, <1>2, <1>3 DEF Step

-----------------------------------------------------------------------------
\* Type correctness

\* A call in flight holds a contract of its own; what it holds of a row that
\* exists is what the row says.
JobInv ==
  \A p \in Process :
    /\ pc[p] # "idle" => job[p] \in Job
    /\ pc[p] = "insert" => /\ job[p].from = NoState
                           /\ job[p].to = job[p].task.state
                           /\ Creatable(job[p].task)
    /\ pc[p] = "update" => /\ job[p].from \in TaskState
                           /\ job[p].to \in TRANSITIONS[job[p].from]
                           /\ MayAdvance(job[p].actor, job[p].task, job[p].to)
    /\ pc[p] \in {"update", "record"} => /\ job[p].task.id \in Rows
                                         /\ contract[job[p].task.id] = job[p].task
    /\ pc[p] # "update" => todo[p] = {}

Inv == TypeOK /\ JobInv

LEMMA TransitionsAreStates ==
  ASSUME NEW s \in TaskState
  PROVE  TRANSITIONS[s] \subseteq TaskState /\ NoState \notin TaskState
BY DEF TRANSITIONS, TaskState, NoState

LEMMA InvInit ==
  ASSUME Init
  PROVE  Inv
BY DEF Init, Inv, TypeOK, JobInv, Rows, NoState

LEMMA InvStep ==
  ASSUME Inv, [Next]_vars
  PROVE  Inv'
<1> USE DEF Inv
<1>1. CASE UNCHANGED vars
  BY <1>1 DEF vars, tables, locals, history, TypeOK, JobInv, Rows, Creatable, MayAdvance
<1>2. CASE Next
  <2>1. PICK p \in Process : Step(p)
    BY <1>2, NextIsStep
  <2>2. CASE \E k \in Contract : Creatable(k) /\ CreateReplay(p, k)
    <3>1. PICK k \in Contract : Creatable(k) /\ CreateReplay(p, k)
      BY <2>2
    <3> QED
      BY <3>1 DEF CreateReplay, tables, locals, TypeOK, JobInv, Rows, Creatable, MayAdvance, Contract
  <2>3. CASE \E k \in Contract : Creatable(k) /\ CreateLookup(p, k)
    <3>1. PICK k \in Contract : Creatable(k) /\ CreateLookup(p, k)
      BY <2>3
    <3>2. [task |-> k, from |-> NoState, to |-> k.state, actor |-> "system"] \in Job
      BY <3>1 DEF Job, Contract
    <3>3. TypeOK'
      BY <3>1, <3>2 DEF CreateLookup, tables, history, TypeOK, Rows, NoJob, NoContract, Contract, TaskState, NoState
    <3>4. JobInv'
      BY <3>1, <3>2 DEF CreateLookup, tables, history, TypeOK, JobInv, Rows, Creatable, MayAdvance
    <3> QED
      BY <3>3, <3>4
  <2>4. CASE CreateInsert(p)
    <3> DEFINE k == job[p].task
    <3>1. k \in Contract /\ Creatable(k) /\ state[k.id] = NoState /\ k.id \in TaskId /\ k.state \in TaskState
      BY <2>4 DEF CreateInsert, JobInv, Conflict, Creatable, Contract
    <3>2. Rows' = Rows \cup {k.id} /\ k.id \notin Rows
      BY <2>4, <3>1 DEF CreateInsert, SetState, Rows, TypeOK, TaskState, NoState
    <3>3. TypeOK'
      BY <2>4, <3>1, <3>2 DEF CreateInsert, SetState, TypeOK
    <3>4. JobInv'
      BY <2>4, <3>1, <3>2 DEF CreateInsert, SetState, TypeOK, JobInv, Creatable, MayAdvance
    <3> QED
      BY <3>3, <3>4
  <2>5. CASE CreateConflict(p)
    BY <2>5 DEF CreateConflict, Release, tables, history, TypeOK, JobInv, Rows, Creatable, MayAdvance
  <2>6. CASE \E t \in TaskId, to \in TaskState, a \in Actor : AdvanceRead(p, t, to, a)
    <3>1. PICK t \in TaskId, to \in TaskState, a \in Actor : AdvanceRead(p, t, to, a)
      BY <2>6
    <3>2. contract[t] \in Contract /\ contract[t].id = t /\ state[t] \in TaskState
      BY <3>1 DEF AdvanceRead, TypeOK, Rows
    <3>3. [task |-> contract[t], from |-> state[t], to |-> to, actor |-> a] \in Job
      BY <3>2 DEF Job
    <3>4. ToRead(contract[t], to) \in SUBSET TaskId
      BY <3>2 DEF ToRead, Contract
    <3>5. TypeOK'
      BY <3>1, <3>2, <3>3, <3>4 DEF AdvanceRead, tables, history, TypeOK, Rows, NoJob, NoContract, Contract, TaskState, NoState
    <3>6. JobInv'
      BY <3>1, <3>2, <3>3, <3>4 DEF AdvanceRead, tables, history, TypeOK, JobInv, Rows, Creatable, MayAdvance, LegalTransition
    <3> QED
      BY <3>5, <3>6
  <2>7. CASE \E d \in TaskId : DependencyAccepted(p, d)
    BY <2>7 DEF DependencyAccepted, tables, history, TypeOK, JobInv, Rows, Creatable, MayAdvance
  <2>8. CASE \E d \in TaskId : DependencyMissing(p, d)
    BY <2>8 DEF DependencyMissing, Release, tables, history, TypeOK, JobInv, Rows, Creatable, MayAdvance
  <2>9. CASE AdvanceUpdate(p)
    <3>1. job[p].task.id \in Rows /\ job[p].to \in TaskState
      BY <2>9, TransitionsAreStates DEF AdvanceUpdate, JobInv
    <3>2. Rows' = Rows
      BY <2>9, <3>1 DEF AdvanceUpdate, SetState, Rows, TypeOK, TaskState, NoState
    <3>3. TypeOK'
      BY <2>9, <3>1, <3>2 DEF AdvanceUpdate, SetState, TypeOK, Rows
    <3>4. JobInv'
      BY <2>9, <3>1, <3>2 DEF AdvanceUpdate, SetState, TypeOK, JobInv, Creatable, MayAdvance
    <3> QED
      BY <3>3, <3>4
  <2>10. CASE Record(p)
    <3>1. job[p] \in Job /\ job[p].task.id \in TaskId /\ job[p].task.key \in Key /\ job[p].to \in TaskState
      BY <2>10 DEF Record, JobInv, Job, Contract
    <3>2. TypeOK'
      BY <2>10, <3>1 DEF Record, EventInserted, Release, TypeOK, Rows
    <3>3. JobInv'
      BY <2>10, <3>1 DEF Record, Release, TypeOK, JobInv, Rows, Creatable, MayAdvance
    <3> QED
      BY <3>2, <3>3
  <2>11. CASE Fail(p)
    BY <2>11 DEF Fail, Release, tables, history, TypeOK, JobInv, Rows, Creatable, MayAdvance
  <2> QED
    BY <2>1, <2>2, <2>3, <2>4, <2>5, <2>6, <2>7, <2>8, <2>9, <2>10, <2>11 DEF Step
<1> QED
  BY <1>1, <1>2

LEMMA Invariance == Spec => []Inv
BY InvInit, InvStep, PTL DEF Spec

\* The rows, the log and the calls in flight keep their types.
THEOREM TypeCorrect == Spec => []TypeOK
<1>1. Inv => TypeOK
  BY DEF Inv
<1> QED
  BY <1>1, Invariance, PTL

-----------------------------------------------------------------------------
\* Idempotency of create(), for any number of processes

\* What create() is about to answer is what it inserted: its caller's key.
LEMMA KeysStep ==
  ASSUME Inv, OneTaskPerKey, [Next]_vars
  PROVE  OneTaskPerKey'
<1> USE DEF OneTaskPerKey
<1>1. CASE UNCHANGED vars
  BY <1>1 DEF vars, tables, history, Rows
<1>2. CASE Next
  <2>1. PICK p \in Process : Step(p)
    BY <1>2, NextIsStep DEF Inv
  <2>2. ASSUME NEW k \in Contract, CreateReplay(p, k) PROVE OneTaskPerKey'
    BY <2>2 DEF CreateReplay, tables, Rows
  <2>3. CASE CreateInsert(p)
    <3> DEFINE k == job[p].task
    <3>1. k.id \in TaskId /\ k.state \in TaskState /\ state[k.id] = NoState
      BY <2>3 DEF CreateInsert, Inv, JobInv, Conflict, Creatable, Contract
    <3>2. Rows' = Rows \cup {k.id} /\ k.id \notin Rows
      BY <2>3, <3>1 DEF CreateInsert, SetState, Rows, Inv, TypeOK, TaskState, NoState
    <3>3. \A t \in Rows : contract'[t] = contract[t] /\ contract[t].key # k.key
      BY <2>3, <3>2 DEF CreateInsert, Conflict, KeyUsed, Inv, TypeOK, Rows
    <3>4. contract'[k.id] = k
      BY <2>3, <3>1 DEF CreateInsert, Inv, TypeOK
    <3>5. answers' = answers
      BY <2>3 DEF CreateInsert
    <3> HIDE DEF k
    <3>6. \A t, u \in Rows' : contract'[t].key = contract'[u].key => t = u
      BY <3>2, <3>3, <3>4
    <3>7. \A x \in answers' : x.id \in Rows' /\ contract'[x.id].key = x.key
      BY <3>2, <3>3, <3>5
    <3> QED
      BY <3>6, <3>7
  <2>4. CASE AdvanceUpdate(p)
    <3>1. job[p].task.id \in Rows /\ job[p].to \in TaskState
      BY <2>4, TransitionsAreStates DEF AdvanceUpdate, Inv, JobInv
    <3>2. Rows' = Rows
      BY <2>4, <3>1 DEF AdvanceUpdate, SetState, Rows, Inv, TypeOK, TaskState, NoState
    <3> QED
      BY <2>4, <3>2 DEF AdvanceUpdate
  <2>5. CASE Record(p)
    BY <2>5 DEF Record, Rows, Inv, JobInv
  <2>6. CASE UNCHANGED <<tables, answers>>
    BY <2>6 DEF tables, Rows
  <2> QED
    BY <2>1, <2>2, <2>3, <2>4, <2>5, <2>6 DEF Step, CreateLookup, CreateConflict, AdvanceRead,
       DependencyAccepted, DependencyMissing, Fail, history
<1> QED
  BY <1>1, <1>2

\* A key has one task and one answer, whatever races, fails and is retried.
THEOREM KeysSafe == Spec => []OneTaskPerKey
<1>1. Init => OneTaskPerKey
  BY DEF Init, OneTaskPerKey, Rows
<1> QED
  BY <1>1, KeysStep, Invariance, PTL DEF Spec

-----------------------------------------------------------------------------
\* The gate, for any number of processes

\* What an UPDATE to ACCEPTED knows of its call.
LEMMA AcceptingCall ==
  ASSUME Inv, NEW p \in Process, pc[p] = "update", job[p].to = "ACCEPTED"
  PROVE  job[p].from = "SUBMITTED" /\ job[p].actor = Gate
<1>1. job[p].from \in TaskState /\ "ACCEPTED" \in TRANSITIONS[job[p].from]
  BY DEF Inv, JobInv
<1>2. job[p].from = "SUBMITTED"
  BY <1>1 DEF TRANSITIONS, TaskState
<1> QED
  BY <1>2 DEF Inv, JobInv, MayAdvance

\* Only the gate makes a task that exists ACCEPTED, and only one it read
\* SUBMITTED; whatever states tasks are created in.
THEOREM GateSafe == Spec => OnlyGateAccepts
<1> DEFINE OnlyGate ==
      \A t \in TaskId : state[t] # "ACCEPTED" /\ state'[t] = "ACCEPTED" =>
        \/ \E p \in Process : /\ pc[p] = "update" /\ job[p].task.id = t
                              /\ job[p].from = "SUBMITTED" /\ job[p].actor = Gate
        \/ state[t] = NoState /\ contract'[t].state = "ACCEPTED"
<1>1. Inv /\ [Next]_vars => [OnlyGate]_vars
  <2> SUFFICES ASSUME Inv, Next PROVE OnlyGate
    OBVIOUS
  <2>1. PICK p \in Process : Step(p)
    BY NextIsStep DEF Inv
  <2>2. CASE CreateInsert(p)
    <3> DEFINE k == job[p].task
    <3>1. k.id \in TaskId /\ state[k.id] = NoState
      BY <2>2 DEF CreateInsert, Inv, JobInv, Conflict, Creatable, Contract
    <3> HIDE DEF k
    <3>2. \A t \in TaskId : state'[t] = IF t = k.id THEN k.state ELSE state[t]
      BY <2>2, <3>1 DEF CreateInsert, SetState, Inv, TypeOK, k
    <3>3. contract'[k.id] = k
      BY <2>2, <3>1 DEF CreateInsert, Inv, TypeOK, k
    <3> QED
      BY <3>1, <3>2, <3>3
  <2>3. CASE AdvanceUpdate(p)
    BY <2>3, AcceptingCall DEF AdvanceUpdate, SetState, Inv, TypeOK
  <2>4. CASE UNCHANGED state
    BY <2>4
  <2> QED
    BY <2>1, <2>2, <2>3, <2>4 DEF Step, CreateReplay, CreateLookup, CreateConflict, AdvanceRead,
       DependencyAccepted, DependencyMissing, Record, Fail, tables
<1> QED
  BY <1>1, Invariance, PTL DEF Spec, OnlyGateAccepts

-----------------------------------------------------------------------------
\* Dependencies, for any number of processes

\* The calls of advance() that leave their task vouched for.
Vouching(k, to) == to = "READY" \/ (to \in AtWork /\ k.state \notin AtWork)

\* A call that does not read dependencies takes a task at work further.
LEMMA VouchedBefore ==
  ASSUME Inv, NEW t \in Rows, NEW to \in TRANSITIONS[state[t]], Vouching(contract[t], to), to # "READY"
  PROVE  Vouched(t)
<1>1. state[t] \in TaskState
  BY DEF Rows, Inv, TypeOK
<1>2. state[t] \in AtWork
  BY <1>1 DEF Vouching, AtWork, TRANSITIONS, TaskState
<1> QED
  BY <1>2 DEF Vouching, Vouched

\* What a call that is past its first read knows of the dependencies: those it
\* has not still to read were ACCEPTED, by it or by whoever started the task.
DependencyInv ==
  /\ StartedAfterDependencies
  /\ \A t \in TaskId : state[t] = "ACCEPTED" => t \in accepted
  /\ \A p \in Process : pc[p] = "update" /\ Vouching(job[p].task, job[p].to) =>
       job[p].task.depends \subseteq accepted \cup todo[p]

LEMMA DependencyStep ==
  ASSUME Inv, DependencyInv, [Next]_vars
  PROVE  DependencyInv'
<1> USE DEF DependencyInv, StartedAfterDependencies, Vouched, Vouching
<1>1. CASE UNCHANGED vars
  BY <1>1 DEF vars, tables, locals, history, Rows
<1>2. CASE Next
  <2>1. PICK p \in Process : Step(p)
    BY <1>2, NextIsStep DEF Inv
  <2>2. ASSUME NEW k \in Contract, CreateReplay(p, k) PROVE DependencyInv'
    BY <2>2 DEF CreateReplay, tables, locals, Rows
  <2>3. ASSUME NEW k \in Contract, CreateLookup(p, k) PROVE DependencyInv'
    BY <2>3 DEF CreateLookup, tables, history, Rows, Inv, TypeOK
  <2>4. CASE CreateInsert(p)
    <3> DEFINE k == job[p].task
    <3>1. k.id \in TaskId /\ state[k.id] = NoState /\ k.id \notin admitted
      BY <2>4 DEF CreateInsert, Inv, TypeOK, JobInv, Conflict, Creatable, Contract, Rows
    <3>2. /\ state' = [state EXCEPT ![k.id] = k.state] /\ admitted' = admitted
          /\ accepted \subseteq accepted' /\ (k.state = "ACCEPTED" => k.id \in accepted')
      BY <2>4, <3>1 DEF CreateInsert, SetState
    <3>3. \A t \in TaskId : t # k.id => contract'[t] = contract[t] /\ state'[t] = state[t]
      BY <2>4, <3>2 DEF CreateInsert, Inv, TypeOK
    <3>4. state'[k.id] = k.state /\ contract'[k.id] = k
      BY <2>4, <3>1, <3>2 DEF CreateInsert, Inv, TypeOK
    <3>5. /\ \A q \in Process : pc'[q] = "update" => pc[q] = "update"
          /\ job' = job /\ todo' = todo
      BY <2>4 DEF CreateInsert, Inv, TypeOK
    <3> HIDE DEF k
    <3> QED
      BY <3>1, <3>2, <3>3, <3>4, <3>5 DEF Rows
  <2>5. ASSUME NEW t \in TaskId, NEW to \in TaskState, NEW a \in Actor, AdvanceRead(p, t, to, a)
        PROVE  DependencyInv'
    <3>1. Vouching(contract[t], to) /\ to # "READY" => Vouched(t)
      BY <2>5, VouchedBefore DEF AdvanceRead, LegalTransition
    <3>2. t \in Rows
      BY <2>5 DEF AdvanceRead
    <3>3. Vouching(contract[t], to) => contract[t].depends \subseteq accepted \cup ToRead(contract[t], to)
      BY <3>1, <3>2 DEF ToRead
    <3> QED
      BY <2>5, <3>3 DEF AdvanceRead, tables, history, Rows, Inv, TypeOK
  <2>6. ASSUME NEW d \in TaskId, DependencyAccepted(p, d) PROVE DependencyInv'
    BY <2>6 DEF DependencyAccepted, tables, history, Rows, Inv, TypeOK
  <2>7. CASE AdvanceUpdate(p)
    <3> DEFINE t == job[p].task.id
    <3>1. t \in Rows /\ contract[t] = job[p].task /\ job[p].to \in TaskState
      BY <2>7, TransitionsAreStates DEF AdvanceUpdate, Inv, JobInv
    <3>2. Vouching(contract[t], job[p].to) => contract[t].depends \subseteq accepted
      BY <2>7, <3>1 DEF AdvanceUpdate
    <3>3. \A u \in TaskId : state'[u] = IF u = t THEN job[p].to ELSE state[u]
      BY <2>7 DEF AdvanceUpdate, SetState, Inv, TypeOK
    <3>4. /\ accepted \subseteq accepted' /\ (job[p].to = "ACCEPTED" => t \in accepted')
          /\ admitted' = admitted \/ (admitted' = admitted \cup {t} /\ job[p].to = "READY")
      BY <2>7 DEF AdvanceUpdate, SetState
    <3>5. /\ \A q \in Process : pc'[q] = "update" => pc[q] = "update"
          /\ job' = job /\ todo' = todo /\ contract' = contract
      BY <2>7 DEF AdvanceUpdate, Inv, TypeOK
    <3>6. Rows' = Rows
      BY <3>1, <3>3 DEF Rows, TaskState, NoState
    <3> HIDE DEF t
    <3> QED
      BY <3>1, <3>2, <3>3, <3>4, <3>5, <3>6 DEF Rows
  <2>8. CASE CreateConflict(p) \/ (\E d \in TaskId : DependencyMissing(p, d)) \/ Fail(p)
    BY <2>8 DEF CreateConflict, DependencyMissing, Fail, Release, tables, history, Rows, Inv, TypeOK
  <2>9. CASE Record(p)
    BY <2>9 DEF Record, Release, Rows, Inv, TypeOK
  <2> QED
    BY <2>1, <2>2, <2>3, <2>4, <2>5, <2>6, <2>7, <2>8, <2>9 DEF Step
<1> QED
  BY <1>1, <1>2

\* Whatever other processes overwrite and whatever states tasks are created in,
\* advance() puts no task to work before its dependencies were each ACCEPTED once.
THEOREM StartedSafe == Spec => []StartedAfterDependencies
<1>1. Init => DependencyInv
  BY DEF Init, DependencyInv, StartedAfterDependencies, Rows, NoState
<1>2. DependencyInv => StartedAfterDependencies
  BY DEF DependencyInv
<1>3. Inv /\ DependencyInv /\ [Next]_vars => DependencyInv'
  BY DependencyStep
<1> QED
  BY <1>1, <1>2, <1>3, Invariance, PTL DEF Spec

-----------------------------------------------------------------------------
\* Apart calls: what a call has read stays true until it writes.

CallReadsHold ==
  \A p \in Process :
    /\ pc[p] = "update" => state[job[p].task.id] = job[p].from
    /\ pc[p] = "update" /\ Vouching(job[p].task, job[p].to) =>
         \A d \in job[p].task.depends : d \in todo[p] \/ state[d] = "ACCEPTED"

SerialInv == DependenciesStand /\ CallReadsHold

\* One process has its calls apart, also until their events are inserted.
LEMMA OneProcessApart ==
  ASSUME OneProcess
  PROVE  Apart /\ RecordedApart
BY DEF OneProcess, Apart, RecordedApart

LEMMA RecordedIsApart ==
  ASSUME RecordedApart
  PROVE  Apart
BY DEF Apart, RecordedApart

LEMMA SerialStep ==
  ASSUME Apart, Inv, SerialInv, [Next]_vars
  PROVE  SerialInv'
<1> USE DEF SerialInv, DependenciesStand, CallReadsHold, Vouched, Vouching
<1>1. CASE UNCHANGED vars
  BY <1>1 DEF vars, tables, locals, history, Rows, Conflict, KeyUsed
<1>2. CASE Next
  <2>1. PICK p \in Process : Step(p)
    BY <1>2, NextIsStep DEF Inv
  <2>3. ASSUME NEW k \in Contract, CreateReplay(p, k) PROVE SerialInv'
    BY <2>3 DEF CreateReplay, tables, locals, Rows, Conflict, KeyUsed
  <2>4. ASSUME NEW k \in Contract, CreateLookup(p, k) PROVE SerialInv'
    BY <2>4 DEF CreateLookup, tables, history, Rows, Conflict, KeyUsed, Inv, TypeOK
  <2>5. CASE CreateInsert(p)
    <3> DEFINE k == job[p].task
    <3>1. k.id \in TaskId /\ state[k.id] = NoState /\ k.id \notin admitted
      BY <2>5 DEF CreateInsert, Inv, TypeOK, JobInv, Conflict, Creatable, Contract, Rows
    <3>2. state' = [state EXCEPT ![k.id] = k.state] /\ admitted' = admitted
      BY <2>5, <3>1 DEF CreateInsert, SetState
    <3>3. \A t \in TaskId : t # k.id => contract'[t] = contract[t] /\ state'[t] = state[t]
      BY <2>5, <3>2 DEF CreateInsert, Inv, TypeOK
    <3>4. state'[k.id] = k.state /\ contract'[k.id] = k
      BY <2>5, <3>1, <3>2 DEF CreateInsert, Inv, TypeOK
    <3>5. \A t \in Rows : contract[t].depends \subseteq TaskId
      BY DEF Inv, TypeOK, Contract, Rows
    <3>6. /\ pc'[p] = "record" /\ job' = job /\ todo' = todo
          /\ \A q \in Process : q # p => pc'[q] = pc[q]
      BY <2>5 DEF CreateInsert, Inv, TypeOK
    <3>7. ASSUME NEW q \in Process, pc'[q] = "update"
          PROVE  /\ state'[job[q].task.id] = job[q].from
                 /\ Vouching(job[q].task, job[q].to) =>
                      \A d \in job[q].task.depends : d \in todo[q] \/ state'[d] = "ACCEPTED"
      <4>1. pc[q] = "update"
        BY <3>6, <3>7
      <4>2. job[q].task.id \in Rows /\ job[q].task \in Contract
        BY <4>1 DEF Inv, JobInv, Job
      <4>3. job[q].task.id # k.id /\ job[q].task.id \in TaskId /\ job[q].task.depends \subseteq TaskId
        BY <3>1, <4>2 DEF Rows, Contract
      <4>4. \A d \in TaskId : state[d] = "ACCEPTED" => state'[d] = "ACCEPTED"
        BY <3>1, <3>3 DEF NoState
      <4> HIDE DEF k
      <4> QED
        BY <3>3, <4>1, <4>3, <4>4
    <3>8. CallReadsHold'
      BY <3>6, <3>7
    <3> HIDE DEF k
    <3>9. DependenciesStand'
      BY <3>1, <3>2, <3>3, <3>4, <3>5 DEF Rows, NoState
    <3> QED
      BY <3>8, <3>9
  <2>6. ASSUME NEW t \in TaskId, NEW to \in TaskState, NEW a \in Actor, AdvanceRead(p, t, to, a)
        PROVE  SerialInv'
    <3>1. contract[t] \in Contract /\ contract[t].id = t
      BY <2>6 DEF AdvanceRead, Inv, TypeOK
    <3>2. Vouching(contract[t], to) /\ to # "READY" => Vouched(t)
      BY <2>6, VouchedBefore DEF AdvanceRead, LegalTransition
    <3>3. Vouching(contract[t], to) => \A d \in contract[t].depends : d \in ToRead(contract[t], to) \/ state[d] = "ACCEPTED"
      BY <2>6, <3>2 DEF AdvanceRead, ToRead
    <3> QED
      BY <2>6, <3>1, <3>3 DEF AdvanceRead, tables, history, Rows, Inv, TypeOK
  <2>7. ASSUME NEW d \in TaskId, DependencyAccepted(p, d) PROVE SerialInv'
    BY <2>7 DEF DependencyAccepted, tables, history, Rows, Inv, TypeOK
  <2>8. CASE AdvanceUpdate(p)
    <3> DEFINE t == job[p].task.id
    <3>1. t \in Rows /\ contract[t] = job[p].task /\ job[p].to \in TaskState
          /\ job[p].from = state[t] /\ job[p].to \in TRANSITIONS[state[t]]
      BY <2>8, TransitionsAreStates DEF AdvanceUpdate, Inv, JobInv
    <3>2. state[t] # "ACCEPTED"
      BY <3>1 DEF TRANSITIONS, TaskState
    <3>3. Vouching(contract[t], job[p].to) => \A d \in contract[t].depends : state[d] = "ACCEPTED"
      BY <2>8, <3>1 DEF AdvanceUpdate
    <3>4. \A u \in TaskId : state'[u] = IF u = t THEN job[p].to ELSE state[u]
      BY <2>8 DEF AdvanceUpdate, SetState, Inv, TypeOK
    <3>5. admitted' = admitted \/ (admitted' = admitted \cup {t} /\ job[p].to = "READY")
      BY <2>8 DEF AdvanceUpdate
    <3>6. \A u \in Rows : contract[u].depends \subseteq TaskId
      BY DEF Inv, TypeOK, Contract, Rows
    <3>7. /\ Rows' = Rows /\ contract' = contract /\ pc'[p] = "record" /\ job' = job /\ todo' = todo
          /\ \A q \in Process : q # p => pc'[q] = pc[q]
      BY <2>8, <3>1, <3>4 DEF AdvanceUpdate, Rows, TaskState, NoState, Inv, TypeOK
    <3>8. ASSUME NEW q \in Process, pc'[q] = "update"
          PROVE  /\ state'[job[q].task.id] = job[q].from
                 /\ Vouching(job[q].task, job[q].to) =>
                      \A d \in job[q].task.depends : d \in todo[q] \/ state'[d] = "ACCEPTED"
      <4>1. pc[q] = "update" /\ q # p
        BY <3>7, <3>8
      <4>2. job[q].task.id # t
        BY <2>8, <4>1 DEF Apart, AdvanceUpdate
      <4>3. job[q].task.id \in TaskId /\ job[q].task.depends \subseteq TaskId
        BY <4>1 DEF Inv, JobInv, Job, Contract, Rows
      <4>4. \A d \in TaskId : state[d] = "ACCEPTED" => state'[d] = "ACCEPTED"
        BY <3>2, <3>4
      <4> HIDE DEF t
      <4> QED
        BY <3>4, <4>1, <4>2, <4>3, <4>4
    <3>9. CallReadsHold'
      BY <3>7, <3>8
    <3> HIDE DEF t
    <3>10. DependenciesStand'
      BY <3>1, <3>2, <3>3, <3>4, <3>5, <3>6, <3>7 DEF Rows
    <3> QED
      BY <3>9, <3>10
  <2>9. CASE CreateConflict(p) \/ (\E d \in TaskId : DependencyMissing(p, d)) \/ Fail(p)
    BY <2>9 DEF CreateConflict, DependencyMissing, Fail, Release, tables, history, Rows, Inv, TypeOK
  <2>10. CASE Record(p)
    BY <2>10 DEF Record, Release, Rows, Inv, TypeOK
  <2> QED
    BY <2>1, <2>3, <2>4, <2>5, <2>6, <2>7, <2>8, <2>9, <2>10 DEF Step
<1> QED
  BY <1>1, <1>2

LEMMA SerialInvariance == Spec /\ []Apart => []SerialInv
<1>1. Init => SerialInv
  BY DEF Init, SerialInv, DependenciesStand, CallReadsHold, Rows, NoState
<1>2. Apart /\ Inv /\ SerialInv /\ [Next]_vars => SerialInv'
  BY SerialStep
<1> QED
  BY <1>1, <1>2, Invariance, PTL DEF Spec

\* However many processes share the database: while no two are at once inside
\* advance() on one task, a task it put to work rests on tasks that are ACCEPTED
\* now.  Calls that overlap on different tasks, dependent ones too, do no harm.
THEOREM DependenciesApart == Spec /\ []Apart => []DependenciesStand
<1>1. SerialInv => DependenciesStand
  BY DEF SerialInv
<1> QED
  BY <1>1, SerialInvariance, PTL

\* Within one process a task advance() put to work rests on tasks that are ACCEPTED now.
THEOREM DependenciesSafe ==
  ASSUME OneProcess
  PROVE  Spec => []DependenciesStand
<1>1. Apart
  BY OneProcessApart
<1> QED
  BY <1>1, DependenciesApart, PTL

\* However many processes share the database: while no two are at once inside
\* advance() on one task, no step takes a task out of ACCEPTED or CANCELLED.
THEOREM JudgementsApart == Spec /\ []Apart => JudgedIsFinal
<1> DEFINE Final == \A t \in TaskId : state[t] \in {"ACCEPTED", "CANCELLED"} => state'[t] = state[t]
<1>1. Inv /\ SerialInv /\ [Next]_vars => [Final]_vars
  <2> SUFFICES ASSUME Inv, SerialInv, Next PROVE Final
    OBVIOUS
  <2>1. PICK p \in Process : Step(p)
    BY NextIsStep DEF Inv
  <2>2. CASE CreateInsert(p)
    BY <2>2 DEF CreateInsert, Conflict, SetState, NoState, Inv, TypeOK
  <2>3. CASE AdvanceUpdate(p)
    <3>1. state[job[p].task.id] = job[p].from /\ job[p].to \in TRANSITIONS[job[p].from]
          /\ job[p].from \in TaskState
      BY <2>3 DEF AdvanceUpdate, Inv, JobInv, SerialInv, CallReadsHold
    <3>2. job[p].from \notin {"ACCEPTED", "CANCELLED"}
      BY <3>1 DEF TRANSITIONS, TaskState
    <3> QED
      BY <2>3, <3>1, <3>2 DEF AdvanceUpdate, SetState, Inv, TypeOK
  <2>4. CASE UNCHANGED state
    BY <2>4
  <2> QED
    BY <2>1, <2>2, <2>3, <2>4 DEF Step, CreateReplay, CreateLookup, CreateConflict, AdvanceRead,
       DependencyAccepted, DependencyMissing, Record, Fail, tables
<1> QED
  BY <1>1, Invariance, SerialInvariance, PTL DEF Spec, JudgedIsFinal

\* Within one process no step takes a task out of ACCEPTED or CANCELLED.
THEOREM JudgementsSafe ==
  ASSUME OneProcess
  PROVE  Spec => JudgedIsFinal
<1>1. Apart
  BY OneProcessApart
<1> QED
  BY <1>1, JudgementsApart, PTL

\* With any number of processes, overlapping as they like and failing anywhere:
\* a task leaves ACCEPTED or CANCELLED only by a call that had read it before,
\* in a state whose transition was legal then.
LostUpdatesOnly ==
  [][\A t \in TaskId : state[t] \in {"ACCEPTED", "CANCELLED"} /\ state'[t] # state[t] =>
       \E p \in Process :
         /\ pc[p] = "update" /\ job[p].task.id = t
         /\ job[p].from \notin {"ACCEPTED", "CANCELLED"}
         /\ state'[t] = job[p].to /\ LegalTransition(job[p].from, job[p].to)]_vars

\* A judged task is never moved by a call that came after its judgement, even
\* when the lock does not cover the callers.
THEOREM OnlyLostUpdates == Spec => LostUpdatesOnly
<1> DEFINE Lost == \A t \in TaskId : state[t] \in {"ACCEPTED", "CANCELLED"} /\ state'[t] # state[t] =>
       \E p \in Process :
         /\ pc[p] = "update" /\ job[p].task.id = t
         /\ job[p].from \notin {"ACCEPTED", "CANCELLED"}
         /\ state'[t] = job[p].to /\ LegalTransition(job[p].from, job[p].to)
<1>1. Inv /\ [Next]_vars => [Lost]_vars
  <2> SUFFICES ASSUME Inv, Next PROVE Lost
    OBVIOUS
  <2>1. PICK p \in Process : Step(p)
    BY NextIsStep DEF Inv
  <2>2. CASE CreateInsert(p)
    BY <2>2 DEF CreateInsert, Conflict, SetState, NoState, Inv, TypeOK
  <2>3. CASE AdvanceUpdate(p)
    <3>1. job[p].to \in TRANSITIONS[job[p].from] /\ job[p].from \in TaskState
      BY <2>3 DEF AdvanceUpdate, Inv, JobInv
    <3>2. job[p].from \notin {"ACCEPTED", "CANCELLED"}
      BY <3>1 DEF TRANSITIONS, TaskState
    <3> QED
      BY <2>3, <3>1, <3>2 DEF AdvanceUpdate, SetState, Inv, TypeOK, LegalTransition
  <2>4. CASE UNCHANGED state
    BY <2>4
  <2> QED
    BY <2>1, <2>2, <2>3, <2>4 DEF Step, CreateReplay, CreateLookup, CreateConflict, AdvanceRead,
       DependencyAccepted, DependencyMissing, Record, Fail, tables
<1> QED
  BY <1>1, Invariance, PTL DEF Spec, LostUpdatesOnly

-----------------------------------------------------------------------------
\* The event log, while no call fails

\* A call that is about to insert its event wrote the state the event names.
LogInv ==
  /\ \A p \in Process : pc[p] = "record" =>
       /\ job[p].to = state[job[p].task.id]
       /\ job[p].from = last[job[p].task.id]
  /\ \A t \in TaskId : last[t] # state[t] =>
       \E p \in Process : pc[p] = "record" /\ job[p].task.id = t

\* A call in flight on a row that exists holds an id of its own.
LEMMA RecordedIds ==
  ASSUME Inv, NEW q \in Process, pc[q] = "record"
  PROVE  job[q].task.id \in Rows /\ job[q].task.id \in TaskId
BY DEF Inv, JobInv, Rows

LEMMA LogStep ==
  ASSUME RecordedApart, ~MayFail, Inv, SerialInv, LogInv, [Next]_vars
  PROVE  LogInv'
<1> USE DEF LogInv
<1>1. CASE UNCHANGED vars
  BY <1>1 DEF vars, tables, locals, history
<1>2. CASE Next
  <2>1. PICK p \in Process : Step(p)
    BY <1>2, NextIsStep DEF Inv
  <2>2. ASSUME UNCHANGED <<state, last>>,
               \A q \in Process : pc'[q] = "record" <=> pc[q] = "record",
               \A q \in Process : pc[q] = "record" => job'[q] = job[q]
        PROVE  LogInv'
    BY <2>2
  <2>3. ASSUME NEW k \in Contract, CreateReplay(p, k) PROVE LogInv'
    BY <2>3 DEF CreateReplay, tables, locals
  <2>4. ASSUME NEW k \in Contract, CreateLookup(p, k) PROVE LogInv'
    BY <2>2, <2>4 DEF CreateLookup, tables, history, Inv, TypeOK
  <2>5. ASSUME NEW t \in TaskId, t = job[p].task.id, last' = last, job' = job, pc[p] # "record",
               pc' = [pc EXCEPT ![p] = "record"], state' = [state EXCEPT ![t] = job[p].to],
               job[p].from = state[t], last[t] = state[t],
               \A q \in Process : pc[q] = "record" => job[q].task.id # t
        PROVE  LogInv'
    <3>1. /\ \A u \in TaskId : state'[u] = IF u = t THEN job[p].to ELSE state[u]
          /\ \A q \in Process : pc'[q] = IF q = p THEN "record" ELSE pc[q]
      BY <2>5 DEF Inv, TypeOK
    <3>2. ASSUME NEW q \in Process, pc'[q] = "record"
          PROVE  job'[q].to = state'[job'[q].task.id] /\ job'[q].from = last'[job'[q].task.id]
      <4>1. CASE q = p
        BY <2>5, <3>1, <4>1
      <4>2. CASE q # p
        <5>1. pc[q] = "record"
          BY <3>1, <3>2, <4>2
        <5>2. job[q].task.id \in TaskId /\ job[q].task.id # t
          BY <2>5, <5>1, RecordedIds
        <5> QED
          BY <2>5, <3>1, <5>1, <5>2
      <4> QED
        BY <4>1, <4>2
    <3>3. ASSUME NEW u \in TaskId, last'[u] # state'[u]
          PROVE  \E q \in Process : pc'[q] = "record" /\ job'[q].task.id = u
      <4>1. CASE u = t
        BY <2>5, <3>1, <4>1
      <4>2. CASE u # t
        <5>1. PICK q \in Process : pc[q] = "record" /\ job[q].task.id = u
          BY <2>5, <3>1, <3>3, <4>2
        <5> QED
          BY <2>5, <3>1, <5>1
      <4> QED
        BY <4>1, <4>2
    <3> QED
      BY <3>2, <3>3
  <2>6. CASE CreateInsert(p)
    <3> DEFINE t == job[p].task.id
    <3>1. t \in TaskId /\ state[t] = NoState /\ job[p].from = NoState /\ job[p].to = job[p].task.state
      BY <2>6 DEF CreateInsert, Inv, JobInv, Conflict, Creatable, Contract
    <3>2. \A q \in Process : pc[q] = "record" => job[q].task.id # t
      BY <3>1, RecordedIds DEF Rows
    <3>3. last[t] = state[t]
      BY <3>1, <3>2
    <3> QED
      BY <2>5, <2>6, <3>1, <3>2, <3>3 DEF CreateInsert, SetState
  <2>7. ASSUME NEW t \in TaskId, NEW to \in TaskState, NEW a \in Actor, AdvanceRead(p, t, to, a)
        PROVE  LogInv'
    BY <2>2, <2>7 DEF AdvanceRead, tables, history, Inv, TypeOK
  <2>8. ASSUME NEW d \in TaskId, DependencyAccepted(p, d) PROVE LogInv'
    BY <2>2, <2>8 DEF DependencyAccepted, tables, history, Inv, TypeOK
  <2>9. CASE AdvanceUpdate(p)
    <3> DEFINE t == job[p].task.id
    <3>1. t \in TaskId /\ state[t] = job[p].from /\ pc[p] = "update"
      BY <2>9 DEF AdvanceUpdate, Inv, JobInv, SerialInv, CallReadsHold, Rows
    <3>2. \A q \in Process : pc[q] = "record" => job[q].task.id # t
      BY <3>1 DEF RecordedApart
    <3>3. last[t] = state[t]
      BY <3>1, <3>2
    <3> QED
      BY <2>5, <2>9, <3>1, <3>2, <3>3 DEF AdvanceUpdate, SetState
  <2>10. CASE CreateConflict(p) \/ (\E d \in TaskId : DependencyMissing(p, d))
    BY <2>2, <2>10 DEF CreateConflict, DependencyMissing, Release, tables, history, Inv, TypeOK
  <2>11. CASE Record(p)
    <3> DEFINE t == job[p].task.id
    <3>1. t \in TaskId /\ job[p].to = state[t] /\ pc[p] = "record"
      BY <2>11, RecordedIds DEF Record
    <3>2. /\ state' = state
          /\ \A u \in TaskId : last'[u] = IF u = t THEN state[t] ELSE last[u]
          /\ \A q \in Process : q # p => pc'[q] = pc[q] /\ job'[q] = job[q]
          /\ pc'[p] = "idle"
      BY <2>11, <3>1 DEF Record, EventInserted, Release, Inv, TypeOK
    <3>3. \A q \in Process : q # p /\ pc[q] = "record" => job[q].task.id # t /\ job[q].task.id \in TaskId
      BY <3>1, RecordedIds DEF RecordedApart
    <3> HIDE DEF t
    <3>4. ASSUME NEW u \in TaskId, last'[u] # state'[u]
          PROVE  \E q \in Process : pc'[q] = "record" /\ job'[q].task.id = u
      <4>1. u # t /\ last[u] # state[u]
        BY <3>1, <3>2, <3>4
      <4>2. PICK q \in Process : pc[q] = "record" /\ job[q].task.id = u
        BY <4>1
      <4> QED
        BY <3>2, <4>1, <4>2 DEF t
    <3>5. ASSUME NEW q \in Process, pc'[q] = "record"
          PROVE  job'[q].to = state'[job'[q].task.id] /\ job'[q].from = last'[job'[q].task.id]
      BY <3>2, <3>3, <3>5
    <3> QED
      BY <3>4, <3>5
  <2> QED
    BY <2>1, <2>3, <2>4, <2>6, <2>7, <2>8, <2>9, <2>10, <2>11 DEF Step, Fail
<1> QED
  BY <1>1, <1>2

\* However many processes share the database: while no two are at once between
\* the read and the event of advance() on one task, and no call fails, the
\* newest event explains every row.
THEOREM EventsApart ==
  ASSUME ~MayFail
  PROVE  Spec /\ []RecordedApart => []EventsExplainState
<1>1. Init => LogInv
  BY DEF Init, LogInv
<1>2. RecordedApart /\ Inv /\ SerialInv /\ LogInv /\ [Next]_vars => LogInv'
  BY LogStep
<1>3. LogInv => EventsExplainState
  BY DEF LogInv, EventsExplainState, Rows
<1>4. RecordedApart => Apart
  BY RecordedIsApart
<1> QED
  BY <1>1, <1>2, <1>3, <1>4, Invariance, SerialInvariance, PTL DEF Spec

\* Between the statements of one process the newest event explains every row.
THEOREM EventsSafe ==
  ASSUME OneProcess, ~MayFail
  PROVE  Spec => []EventsExplainState
<1>1. RecordedApart
  BY OneProcessApart
<1> QED
  BY <1>1, EventsApart, PTL

-----------------------------------------------------------------------------
\* Refinement, of calls that fail or not

\* An UPDATE is the board's move for the transition that was checked.
LEMMA UpdateIsMove ==
  ASSUME Inv, SerialInv, NEW p \in Process, AdvanceUpdate(p)
  PROVE  Board!Next
<1> DEFINE t == job[p].task.id
           from == job[p].from
           to == job[p].to
<1>1. /\ t \in TaskId /\ contract[t] = job[p].task
      /\ state[t] = from /\ from \in TaskState /\ to \in TRANSITIONS[from]
  BY DEF AdvanceUpdate, Inv, JobInv, SerialInv, CallReadsHold, Rows
<1>2. state' = [state EXCEPT ![t] = to] /\ UNCHANGED contract
  BY DEF AdvanceUpdate, SetState
<1>3. to = "READY" => \A d \in contract[t].depends : state[d] = "ACCEPTED"
  BY <1>1 DEF AdvanceUpdate, SerialInv, CallReadsHold, Vouching
<1> HIDE DEF t, from, to
<1> USE <1>1, <1>2, <1>3
<1>4. CASE to = "CANCELLED"
  <2>1. from \in {"PENDING", "READY", "RUNNING", "REVISE", "BLOCKED", "FAILED"}
    BY <1>4 DEF TRANSITIONS, TaskState
  <2> QED
    BY <1>4, <2>1 DEF Board!Next, Board!Cancel, Board!Move
<1>5. CASE to = "READY"
  <2>1. from \in {"PENDING", "REVISE"}
    BY <1>5 DEF TRANSITIONS, TaskState
  <2> QED
    BY <1>5, <2>1 DEF Board!Next, Board!Start, Board!Move
<1>6. CASE to = "RUNNING"
  <2>1. from = "READY"
    BY <1>6 DEF TRANSITIONS, TaskState
  <2> QED
    BY <1>6, <2>1 DEF Board!Next, Board!Run, Board!Move
<1>7. CASE to \in {"SUBMITTED", "FAILED"}
  <2>1. from = "RUNNING"
    BY <1>7 DEF TRANSITIONS, TaskState
  <2> QED
    BY <1>7, <2>1 DEF Board!Next, Board!Report, Board!Move
<1>8. CASE to \in {"ACCEPTED", "BLOCKED"} \/ (to = "REVISE" /\ from = "SUBMITTED")
  <2>1. from = "SUBMITTED"
    BY <1>8 DEF TRANSITIONS, TaskState
  <2> QED
    BY <1>8, <2>1 DEF Board!Next, Board!Judge, Board!Move
<1>9. CASE to = "REVISE" /\ from # "SUBMITTED"
  <2>1. from \in {"BLOCKED", "FAILED"}
    BY <1>9 DEF TRANSITIONS, TaskState
  <2> QED
    BY <1>9, <2>1 DEF Board!Next, Board!Reconsider, Board!Move
<1>10. to \in {"READY", "RUNNING", "SUBMITTED", "ACCEPTED", "REVISE", "BLOCKED", "FAILED", "CANCELLED"}
  BY DEF TRANSITIONS, TaskState
<1> QED
  BY <1>4, <1>5, <1>6, <1>7, <1>8, <1>9, <1>10

\* However many processes share the database: while no two are at once inside
\* advance() on one task, every behaviour is one of the board's.  create() and
\* advance() are each one atomic step or none, wherever a process fails.
THEOREM ApartImplementsBoard == Spec /\ []Apart => ImplementsBoard
<1>1. Init => Board!Init
  BY DEF Init, Board!Init
<1>2. Inv /\ SerialInv /\ [Next]_vars => [Board!Next]_(Board!vars)
  <2> SUFFICES ASSUME Inv, SerialInv, [Next]_vars PROVE Board!Next \/ UNCHANGED Board!vars
    OBVIOUS
  <2>1. CASE UNCHANGED vars
    BY <2>1 DEF vars, tables, Board!vars
  <2>2. CASE Next
    <3>1. PICK p \in Process : Step(p)
      BY <2>2, NextIsStep DEF Inv
    <3>2. CASE CreateInsert(p)
      <4> DEFINE k == job[p].task
      <4>1. k \in Contract /\ k.id \in TaskId /\ state[k.id] = NoState /\ ~KeyUsed(k.key)
        BY <3>2 DEF CreateInsert, Inv, JobInv, Creatable, Conflict, Contract
      <4>2. state' = [state EXCEPT ![k.id] = k.state] /\ contract' = [contract EXCEPT ![k.id] = k]
        BY <3>2 DEF CreateInsert, SetState
      <4> HIDE DEF k
      <4>3. Board!Create(k)
        BY <4>1, <4>2 DEF Board!Create, KeyUsed, Rows
      <4> QED
        BY <4>1, <4>3 DEF Board!Next
    <3>3. CASE AdvanceUpdate(p)
      BY <3>3, UpdateIsMove
    <3>4. CASE UNCHANGED <<state, contract>>
      BY <3>4 DEF Board!vars
    <3> QED
      BY <3>1, <3>2, <3>3, <3>4 DEF Step, CreateReplay, CreateLookup, CreateConflict, AdvanceRead,
         DependencyAccepted, DependencyMissing, Record, Fail, tables
  <2> QED
    BY <2>1, <2>2
<1> QED
  BY <1>1, <1>2, Invariance, SerialInvariance, PTL DEF Spec, ImplementsBoard, Board!Spec

\* Every behaviour of one process is a behaviour of the board.
THEOREM StoreImplementsBoard ==
  ASSUME OneProcess
  PROVE  Spec => ImplementsBoard
<1>1. Apart
  BY OneProcessApart
<1> QED
  BY <1>1, ApartImplementsBoard, PTL

===============================================================================
