# Gap2SKU: a verification project

Gap2SKU turns a product idea into a decision. Seven agents (market, supply, prototype, compliance,
economics, review, leader) commit versioned artifacts to a SQLite store, move tasks through a state
machine, and a deterministic policy together with a human approval decides GO, REVISE or NO_GO. The
modules here model the parts whose correctness depends on the order of things: several threads and
processes on one database file, statements that are transactions of their own, crashes and reruns,
retried and replayed calls, values that are checked and used later; and the arithmetic and the rules
that decide.

Paths below are relative to `src/src/gap2sku/` unless they begin with `src/`. `PROJECT.json` maps
each definition to the lines it models.

Contents: [inventory](#inventory), [modules](#modules-and-how-they-correspond-to-the-code),
[runs](#runs-bounds-and-what-they-show), [fairness](#fairness), [proofs](#what-is-proved),
[disagreements found](#disagreements-between-code-and-documents), [limits](#what-is-not-modelled),
[plan](#plan).

## Inventory

| Component | State it keeps | Operations | What makes it hard | Correct when |
|---|---|---|---|---|
| Artifact store, `artifacts/store.py` | tables artifacts, artifact_meta, idempotency, project_revisions, artifact_edges | commit, mark_status, add_edge, reads | a revision read ahead of the commit; versions chosen from stale reads; retried calls; several processes | versions are unique, gapless and immutable; a key has one answer; nobody commits on an outdated view |
| Task store, `tasking/store.py` | tables tasks, task_events | create, create_revision, advance | every statement is a transaction; the lock covers one process | calls are atomic; judged tasks are final; a task that is put to work rests on accepted ones; the log explains the rows |
| Pipelines, `nap_pillow.py`, `new_category.py` | both stores, an in-memory graph, run.json | run | killed between any two calls, then started again; two modes on one database | a run that completed is not changed by another; what is stored rests on accepted work; no decision is accepted unapproved |
| Replanning, `replanning/`, `graph/` | a graph in memory, statuses in the store | apply_change, analyze, downstream | a search over any graph; get and mark are two calls | what derives from the change is marked, and nothing else |
| Collaboration, `collaboration/`, parts of `workbench.py` and `mcp_server.py` | tables matrix_messages, collaboration_events; a Matrix room | send_message, poll_matrix, event stream, hand-offs | answers lost after the server took the message; windows over growing tables; two processes | events name stored messages; a stream sends each new event and no old one; the room ends up in the table |
| Domain core, `pipeline.py`, `economics/`, `review/rules.py` | artifacts of one run in memory | the stages T1 to T8, review.run_rules | six roundings in a row; a filter and a check that use different costs; a review of a copy | what passes keeps the hard constraints by the exact figures and rests on traceable inputs |
| MCP servers, `mcp_server.py`, `mcp_official.py` | both stores | image_generate, rfq_import_response, task and hand-off tools, reads | handlers of several commits around a slow provider call; fallback; several servers | an answer names what it shows and is linked; the store keeps its contract |
| Live run, `cli/verify_agentteams.py`, `cli/cloud_e2e.py`, `src/scripts/` | event table, one report file, one certificate | ask for a run, wait for its hand-offs, report, certify | late, repeated and foreign hand-offs; a file overwritten while it is read twice | a report or certificate names a run in which all seven handed off |
| Governance, `governance/` | none of its own | DecisionEngine, FailureLoopback, approval_valid, AcceptanceGate | a result used in a later call | a decision follows from the evidence; an approval is of what was reviewed |
| Workbench, `workbench.py` | both stores, messages, Matrix cursor | pages, revision, approve, messages, status | see Collaboration and Live run | an approved spec is the reviewed one |
| Context, knowledge, evidence, story, contracts, observability, other commands | files, an FTS index, JSONL | select, import, search, render, trace, configure | mostly sequential I/O | |

Interaction. The pipelines, the MCP server and the workbench open the same `shared/nap_pillow.db`
(`src/docker-compose.yml` starts two of them as containers on one volume). They interact through the
tables only. The workbench also talks to a Matrix homeserver over HTTP; pages read its event stream.
Each pipeline builds one graph, which `apply_change()` later reads together with the store. The
commands of a live run read the event table that the MCP server fills, and meet the workbench once
more in the report file.

## Modules and how they correspond to the code

| Module | Models | Variables are |
|---|---|---|
| `ArtifactStore` | `artifacts/store.py` with the protocol its callers follow around `commit()` | the five tables, the locals of each client, two history variables |
| `ArtifactLedger` | what the store promises: an append-only ledger | entries, counts, stale marks, answers |
| `TaskStore` | `tasking/store.py`, statement by statement | the two tables, the call each process has inside the lock |
| `TaskBoard` | what the task store promises: every call is one step | state and contract of each task |
| `Pipeline` | `_task()`, `_commit()`, `_finish_task()` and their likes, interruptions, reruns | the stores, run.json, the memory of the run in progress |
| `NapPillow`, `NewCategory` | `run()` of `nap_pillow.py` and of `new_category.py`, as a sequence of those calls | none, and the mode of the database |
| `McpTools` | `image_generate()` and `rfq_import_response()` as whole calls, in several servers | the store's rows with payloads, revision, edges, each server's locals, the last answer |
| `LiveRun` | `demo_agentteams.sh`, `verify_agentteams.py`, `/api/status`, `cloud_e2e.py` | clock, event table, sessions, report file, certificate |
| `Replanning` | `apply_change()`, `analyze()`, `downstream()` beside other clients' commits | graph, search, plan, versions and statuses |
| `Collaboration` | message and event tables, room, `send_message()`, `poll_matrix()`, stream, `submitter()` | tables, room, requests on the way, locals of the coroutines |
| `Economics` | `economics/calculator.py` and `rounding.py` as operators | none |
| `DomainCore` | `DomainCorePipeline.run()`, the rules that can fail in it, `review.run_rules` | fixture and artifacts of a run |
| `*_proofs` | theorems of the module they are named after | |
| `MC*` | instances for TLC | |

**ArtifactStore.** A client is a thread or process. `ReadCurrent`, `ReadRevision`, `CommitReplay` /
`CommitReject` / `CommitInsert`, `LinkInput` and `LinkDone` are the steps of `_commit()`,
`_artifact()`, `image_generate()` and `rfq_import_response()`; `Crash` may come between any two.
`commit()` is one action because it is one `BEGIN IMMEDIATE` transaction, and its three actions are
its three exits. `MarkRead` and `MarkStale` are the two calls of `apply_change()`. Refinement: rows
without status are the ledger's entries, the STALE ones its marks, `project_revisions` its counts.

**TaskStore.** The connection autocommits, so the SELECT, each dependency's SELECT, the UPDATE and
the INSERT of the event are actions of their own. A `Process` has at most one call inside the
class-level lock; two processes interleave. `Fail` (under `MayFail`) is an exception or a kill
between statements. `Revisions` are the contracts `create_revision()` derives; two tasks may derive
one id, because `rsplit('-r', 1)` cuts at the last `-r` whatever follows. `create()` inserts the
state that the contract has, and `task.create` passes on any: requests may be in every state. So the
properties about dependencies speak of the tasks `advance()` answers for (`Vouched`): those it made
READY at any time, which the history variable `admitted` remembers, and those that are at work
though they were not created so. Refinement: `state` and `contract` as they are.

**Pipeline.** `Program[mode][at]` is the call a run is at, `phase` how far it is inside it. `Begin*`
is `_task()`, `CommitArtifact` and `CommitLink` are `_commit()` and its edges, `Finish*` is
`_finish_task()`, `CreateRemedy` one `create()` of `create_revision_tasks()`, `End` the writing of
run.json. `Crash` loses the memory and keeps the rows. A store call is one step, which is right for
one process by `StoreImplementsBoard` and `StoreImplementsLedger`. In return the runs keep what the
stores promise: the same two abstract specifications are instantiated here with the pipeline's tasks
(each with the contract `TaskContract` that `_task()` makes) and with its artifacts (each as the
`Envelope` of the mode that stored it). The programs list every task, artifact, reference and edge
of the two `run()` methods; payloads are left out because no call depends on them. In `NapPillow`,
`HardFailures` and `Recommendation` are `DecisionEngine.evaluate()` on the evidence of a mode;
`Approves` is the answer of `approve()`, where the hash of a spec and the `product_spec_hash` of a
review are told apart by the mode of the run that stored them.

**McpTools.** `AskByConcept` and `AskWithPayload` are the two ways into `image_generate()`, the
second committing the prompt if it is new. `Generated` and `Replayed` are what the provider call can
come to (`MODEL_DEGRADED` answers count as the replay they fall back to), `Compose` the envelope
made after it, `Link` the edge and the answer. `ImportQuotes` is `rfq_import_response()` of either
server, `official` being the one that insists on an RFQ. `ReadRevision` / `CommitReplay` /
`CommitInsert` are shared, as `project_revision()` and `commit()` are, and `Fail` may come between
any two. `PipelineCommit` is another process. `answer` holds the answer of the last step only, so
`AnsweredIsLinked` is about the moment of answering. Calls that are refused before their first
commit, and `image.generate` and `rfq.build` of `mcp_official.py`, which commit nothing, are no
steps. Refinement: rows, revision and keys are the entries, counts and answers of the ledger, the
same abstract specification that `ArtifactStore` implements.

**LiveRun.** `StartDemo` and `Ask` are `demo_agentteams.sh`, `Look` one round of the loop in
`verify_agentteams.py`, `Open` and `Write` the two halves of `write_text()`, `ReadDocuments` and
`Certify` the two reads of `cloud_e2e.py`. `Senders` is `_runtime_handoffs()`, and `NotBefore` the
comparison of texts it makes: `date` writes no fraction, `utcnow()` does, and "." sorts before "Z".
An event has its stamp and its insertion in the same second (`Collaboration` has them apart). What
the cluster answers to the checks before the loop is one Boolean, `ready`, of which a report keeps
what it makes of `end_to_end_verified`; of the senders found, whether they are all seven. A call by
hand (`StartVerify`) may have any of `--run-id`, `--after` and `--wait-events`, each by itself: what
is left out is not asked, and a report without a run says end to end on hand-offs of any run, which
`EndToEndMeansHandedOff` states. A negative `--wait-events` is left out: it never says end to end.
`Certify` chooses CLOUD_RUN_STARTED_AT, which is read nowhere else. Assumed: no run id is part of
another (`run_id in task_id` is a substring test; ids name a second and a process), and
`AGENTTEAMS_DEMO_WAIT_SECONDS` is positive. That at least seven events are counted follows from
`complete` and is not a check of its own.

**Replanning.** One action per round of the breadth-first search. The queue is a set, since the
order does not change what is found. `Commit` is another client.

**Collaboration.** `created` is the place of an event in time: `created_at` is stamped when the
event is made, the row is inserted later, so rows may appear out of order. Time stamps of the two
processes are taken to be distinct and consistent, as the containers run on one host. `Take`,
`Drop`, `Answered` and `Failed` are independent: a message may be in the room though its sender was
told it failed. `Unspoken` puts an event of another type into the timeline: the poll asks for the
newest 100 events and filters afterwards (`collaboration/matrix.py:45`, `:56`), so those use up
places, and `RoomStored` counts them.

**Economics and DomainCore.** `Decimal` arithmetic is exact, so amounts are integers: inputs in
mills, products in units of 10^-7 USD, rounded amounts in cents. The fixture is chosen in `Init`;
each stage of `run()` is an action. Of the rules R001 to R018 only R003, R004, R005 and R010 can
fail in this pipeline: the others look at statuses, producers and artifacts that `run()` fixes or
never makes.

Definitions under a comment "FAULTY VARIANT" are used by no specification. Each is a plausible bug
of one definition, and `PROJECT.json` ("mutants") says which property detects it.

## Runs, bounds and what they show

| Run | Instance | Distinct states | Result |
|---|---|---|---|
| `artifact_store` | 2 clients, 3 artifacts, 2 projects, 4 envelopes, 2 versions | 373,441 | pass |
| `task_store` | 1 process, 3 tasks, 8 requests, all actors and targets | 604,972 | pass |
| `task_store_race` | 2 processes, 4 requests, the gate, failures | 1,795,599 | pass |
| `task_store_two_writers` | 2 processes, 3 requests, owner and gate, no failures | | `JudgedIsFinal` violated |
| `nap_pillow` | the whole program, both modes, 1 interruption | 135,376 | pass |
| `nap_pillow_approve` | the same | | `ApprovableSpecWasReviewed` violated |
| `new_category` | the whole program, either mode, 3 interruptions | 21,954 | pass |
| `replanning` | every graph within 6 edges on 4 artifacts, one cycle | 216,144 | pass |
| `collaboration` | 1 request, 1 message or other event, 2 hand-offs, windows 1 / 2 / 2, 1 crash | 162,768 | pass |
| `domain_core` | fixtures of up to 2 of 11 offers, 3 features, 4 fee tables | 51,648 | pass |
| `mcp_tools` | 2 servers, 1 concept with 2 images, 2 prompts, 1 RFQ, 2 documents, 2 versions | 1,516,082 | pass |
| `live_run` | 2 terminals, 2 workers, 2 runs, 2 calls by hand, window 2, 3 events, 2 seconds | 2,700,917 | pass |

- **artifact_store.** Races, replays and crashes around `commit()`: `LatestIsNewest`,
  `ReferencesResolve`, `OnceAndSameAnswer`, `CommitsOnWhatItSaw`, and `ImplementsLedger`. Two
  clients suffice for every race of two calls, the only kind an optimistic check can lose. The
  regenerated manifest (`bump`) gives an artifact two versions; two projects keep revisions apart.
- **task_store.** One process: `DependenciesStand`, `JudgedIsFinal`, `EventsExplainState`,
  `ImplementsBoard`, with every transition and every actor, colliding revision ids, keys that are
  used again for another id, and tasks created READY, RUNNING, FAILED or ACCEPTED beside the PENDING
  ones.
- **task_store_race.** Two processes that may fail after any statement: what needs no common lock is
  `OneTaskPerKey` and `StartedAfterDependencies`. The supply task may be created RUNNING before its
  dependency exists. The gate is the one actor: it may advance every task to every state, and
  neither property asks who did. Targets are the five that the pipelines and the reviewer ask for.
- **nap_pillow.** Runs in both modes on one database, in any order, one of them cut anywhere:
  `InputsNeverMissing`, `JudgedOnDelivery`, `BuiltOnAccepted`, `EdgesComplete`,
  `RerunChangesNothing`, `ImplementsLedger`. The state space is one long path with a branch per
  interruption, so depth (738) rather than breadth is the cost; a second interruption is left to the
  theorems.
- **new_category.** `RefusedOnlyBehindStuck`, `AcceptedDecisionIsApproved`, `ImplementsBoard` and,
  under fairness, `EndsUnlessStuck`.
- **replanning.** `PlanIsReachability` compares the search with the least closed set, in 64 graphs
  times 8 sets of constraint dependencies; `UnaffectedKept`, `AffectedMarked` and `Returns` beside
  concurrent commits.
- **collaboration.** `EventsNameMessages`, `OnlyNewEventsStreamed`, `NewEventsStreamed`,
  `RoomStored`. Three events against windows of two, two events of the timeline, one of which may be
  no message, against batches of one: both windows are overtaken, which is what the limits 500, 100
  and 100 of the code become when more arrives than fits.
- **domain_core.** `MarginNearExact`, `WorseCasesAreWorse`, `PassIsAffordable`,
  `PassRestsOnFixture`, `SecondReviewAgrees`. The offers are one of each kind the filter tells
  apart, the fee tables lie on both sides of the target margin and so close that rounding decides.
  `CHECK_DEADLOCK FALSE` here and in `replanning`, because these calls end.
- **mcp_tools.** `AnswerNamesStored`, `AnsweredIsLinked`, `ManifestsRestOnPrompts`. The concept has
  an online image and a replayed one, so two calls for one prompt may make two manifests or one, and
  the second version is reached; the pipeline stores a prompt with the `prompt_id` of one of the
  callers' records, so the list of prompts has two matches; two documents claim one `quote_set_id`.
- **live_run.** `EndToEndMeansHandedOff`, `CertifiedByOwnRun`, `MissesOnlyUnlisted`. Two terminals
  race for the one file, two runs let a late answer to the first arrive in the second, and three
  events against a window of two overtake it, as 500 newer events would. The calls by hand are that
  of `make agentteams-verify`, without arguments, and a wait for hand-offs of any run at any time;
  other arguments are left to the theorems. `MissesOnlyUnlisted` is an invariant over what a look
  would find now, so it also binds a look that finds nothing. Two seconds hold every case of the
  comparison: before, in and after the second of `--after`.

Type invariants are proved, for every module with theorems but `DomainCore`, where `StageInv` has
their part; no run repeats them.

Named bounds: `MaxVersion`, `MaxCrashes`, `Target`, `Successor`, `PossibleEdges`, `Others`,
`Request`, `Chat`, `Handoff`, `MaxOffers`, `PipelineRow`, `Window`, `MaxEvents`, `MaxSecond`,
`Call`. All but `Successor` are parameters of the theorems too and may be any value there.

## Fairness

- `NewCategory`: weak fairness of the run's next call (the interpreter keeps executing straight-line
  code) and of starting the command (whoever ran it runs it again when it did not come to its end).
  Nothing obliges a crash, and crashes are bounded.
- `Replanning`: weak fairness of `apply_change()`'s next step, again straight-line code.
- `Collaboration`: weak fairness of the poll's two halves and of the stream's look and send, which
  are loops that sleep two seconds and repeat while the workbench lives. Nothing is assumed of the
  homeserver's sender side (`Take`, `Answered`), of the MCP process or of the human. `PollFetch` is
  fair because the code asks again after every failure; the homeserver has to answer now and then.
- The other specifications claim safety only.

## What is proved

Each theorem holds for every value of the constants that the named assumptions allow.

**ArtifactStore** (from `CallAssumption`, `KeyAssumption`, `VersionAssumption`). The inductive
invariant is `TypeOK /\ TableInv /\ ProtocolInv`. `TableInv` ties the tables to each other
(`KeysIndex`: the idempotency table is exactly the index of the rows by key). `ProtocolInv` says
what a client's locals are worth: `Choices` (the version it chose is at most latest + 1),
`ExpectedBounded` and `RevisionNamesSnapshot` (if the revision it read is still current, what it saw
is what there is). `LatestIsNewest` is not inductive alone: that the upsert never takes the pointer
back follows from `Choices` and the check that the version is not taken. `RevisionSafe` counts rows
with finite cardinalities. `StoreImplementsLedger` maps each action to `Append`, `MarkStale` or a
stutter.

**TaskStore.** `TypeCorrect`, `KeysSafe`, `GateSafe` and `StartedSafe` hold for any number of
processes and whatever states tasks are created in. `GateSafe` is about rows that exist: one that is
created ACCEPTED never met the gate. `StartedSafe` needs `DependencyInv`: a call that has passed the
checks and has not yet written has read every dependency as ACCEPTED at some time. Under
`OneProcess`, `SerialInv` adds that what the call read still holds when it writes; from it follow
`DependenciesSafe`, `JudgementsSafe` and `StoreImplementsBoard`. `EventsSafe` also needs `~MayFail`.
These hypotheses are not for convenience: `task_store_two_writers` refutes `JudgedIsFinal` without
`OneProcess`, and without `~MayFail` a failure between UPDATE and INSERT leaves a row that its log
does not explain.

How much of `OneProcess` is needed is a theorem too. `Apart` says that no two processes are at once
between the read and the write of `advance()` on the same task. While it holds, `DependenciesApart`,
`JudgementsApart` and `ApartImplementsBoard` give the same results for any number of processes that
share the database, failures included, although calls on different tasks, dependent ones among them,
overlap statement by statement. `EventsApart` needs the wider `RecordedApart`, up to the INSERT of
the event. So a lock per task that every process takes would do; the class-level lock of one process
is more than is needed within it and less than is needed between two. `OneProcess` implies `Apart`,
and the theorems for one process are corollaries. Without any hypothesis, `OnlyLostUpdates` bounds
the damage: a judged task is moved only by a call that had read it before its judgement, along a
transition that was legal for what it read.

**Pipeline.** For every program that is `WellOrdered`, every number of modes and interruptions:
`InputsSafe`, `BuiltSafe`, `DeliverySafe`. `EdgesSafe`, `RerunSafe` and `CompletedRunsDeliver` also
suppose `FinishesBegun`, `RefusalSafe` and `RunsAdvance` `DependenciesFinished` too, `ApprovalSafe`
`ApprovedFirst`, `PipelineImplementsLedger` `CommitsOnce` (whoever commits an artifact again names
the same inputs). `NapPillow` and `NewCategory` assume all of these of their programs, and TLC
evaluates the assumptions. The theorems suppose that nobody else moves a pipeline's tasks: an agent
that calls `task.advance` beside the pipeline is the matter of `task_store_two_writers` and
`task_store_race`. The invariant adds to `TypeOK` what the phase of a call implies about its task
(`PhaseInv`), what the calls behind a run have established (`RunInv`), and that a started task's
dependencies and a stored artifact's task have got as far as they must (`StartedInv`, `BuiltInv`).
For reruns, `RerunInv` says that every call a run has behind it, and every call of the last
completed run, is settled: whoever gets to it again finds nothing to do. For refusals, `RefusalInv`
says that a task others depend on is never sent back, and that without an interruption it is between
two `advance()` calls only while the run is there too.

`PipelineImplementsBoard` and `PipelineImplementsLedger` are step simulations. For the board,
`TaskMoves` gives each action the one transition of one task it makes, and the invariant that its
dependencies are accepted when it starts. For the ledger, `OnlyCommitWrites` leaves
`CommitArtifact`, which is an `Append` when the artifact is new and a stutter when it is a replay;
`EnvelopeRefs` is where `CommitsOnce` is needed, since the inputs of an entry are a property of the
artifact and not of the call. The safety half of `EndsUnlessStuck` is `RunsAdvance` (a step of a run
goes forward in its program, or the run completes, is interrupted, or is refused behind a stuck
task), `RunsNeverBlock` (at every point of a run some call can go on) and `CompletedRunsDeliver`
(what a completed run has promised is there, or stuck where an interruption left it).

**Replanning.** For every graph, finite or not: `PlanExact`, `UnaffectedSafe`, `AffectedSafe`; for
every finite graph `StepsCount`. `Reach` is defined without a search, as the intersection of the
closed sets. `SearchInv` is the loop invariant of the search (what is visited and not queued has its
children visited), `StaleInv` that of the loop over roots, `MarkInv` and `CoverInv` that of the
marking: nothing else is marked, and nothing affected is passed over. `StepsCount` is the safety
half of `Returns`: `Work` is five natural numbers (phases, roots, searches, twice the unvisited
nodes plus the queue, twice the marks plus the one held), every step of `apply_change()` lowers it
lexicographically, and no other client's commit changes it. Hence a call has finitely many steps, in
cyclic graphs too.

**Collaboration.** `MessagesNamed`, `OnlyNew`, for any limits of which the stream's is at most the
snapshot's. The heart is `NewerGrows`: an event's number of newer events never falls, so what the
snapshot's window left out stays outside the smaller window of the stream for good. `NothingLost` is
the safety half of `NewEventsStreamed`: an event that is new to a stream is, when a look finds it in
the window, sent or about to be; it is not sent twice, and once found is dropped only with the
stream. `BridgeSafe` is that of `RoomStored`: a stored message is one of the room or a sender's own,
stays stored, and what the poll fetched is stored unless the workbench dies in between.

**McpTools** (from `PayloadAssumption`, `PipelineAssumption`, `NameAssumption`). The inductive
invariant is `TypeOK /\ RowInv /\ JobInv /\ AnswerNamesStored /\ AnsweredIsLinked`. `RowInv` says
that a row's key determines its id and what of its payload the key names; `JobInv` that the envelope
a call is about to commit has that shape, and that the row `commit()` gave back, possibly another
call's, agrees with what the answer is going to say. `ManifestsRestOnPrompts` follows from `RowInv`
because rows are never removed. `ToolsKeepContract` maps each step to `Append` or a stutter of
`ArtifactLedger`, for any number of servers, images and payloads.

**LiveRun** (from `LiveAssumption`, `NoReportAssumption`, `CallAssumption`). The inductive invariant
is `TypeOK /\ SessionInv /\ ReportInv /\ RunInv /\ CertifiedByOwnRun`: what a session has found,
what a whole report says and what a certifier has read are true of the event table, and stay so
because the table only grows (`EventsKept`, `HandedOffKept`), whatever the arguments of the call
that found it. `MissesSafe` needs `RunInv`: no hand-off is older than its run, because only a run
that has begun is asked for (`BeganKept`). The report may be replaced between the two reads of a
certifier without harm, since its own document was true when it was read.

**DomainCore** (from `FixtureAssumption`: amounts and rates are naturals). `HalfUpNear`,
`QuantizeNear`, `HalfUpReaches` and `QuantizeBelow` say what rounding half up does to a number.
`MarginSafe` adds six of them: six half-cents are three cents. `PassSafe` combines it with the
checks, `CasesSafe` compares two calculations that round differently. `PassRests` and `SecondReview`
follow from the invariant `StageInv /\ SourceInv`: what each stage has left, and where it comes
from.

Checked by TLC only. The liveness properties (`EndsUnlessStuck`, `Returns`, `NewEventsStreamed`,
`RoomStored`): the proof system does not reach liveness under fairness nor ENABLED, and their safety
halves above are what it can say of them. That no infinite sequence descends in the order of
`StepsCount` is the well-foundedness of tuples of naturals, which is not proved here. Every safety
property of a passing run has a theorem. The conditions on programs (`WellOrdered` and its likes)
are evaluated by TLC on the two programs rather than proved of them. Proved without a run of their
own: `VersionsUnique`, `RevisionCountsCommits` and `VersionImmutable` of the store,
`OnlyGateAccepts` of the tasks, and the refinement of the ledger by `McpTools`. Also out of its
reach are induction over data and recursive operators; no module here declares one.

## Disagreements between code and documents

Each is the counterexample of a run; `PROJECT.json` ("findings") quotes the lines.

1. `task_store_two_writers`: with two processes, a transition checked before another process
   accepted a task overwrites ACCEPTED, which has no transition (`tasking/store.py:32`, `:140`).
2. `nap_pillow_approve`: a real run is killed between its spec and its review, a synthetic run on
   the same database keeps the REAL spec and stores a PASS on its own, and `approve()`, which never
   compares the review's `product_spec_hash`, approves the REAL spec (`workbench.py:718`,
   `src/agent_packages/raw/leader/MEMORY.md:83`).

Noted while modelling, without a run:

- `create()` stores any state that the contract carries (`tasking/store.py:93`), and `task.create`
  passes on whatever it is given (`mcp_server.py:305-307`, `mcp_official.py:60-62`): a task may be
  created RUNNING or ACCEPTED beside dependencies that nobody accepted, and past the gate. The
  pipelines, the workbench and the commands create PENDING tasks. `Vouched` leaves such tasks out
  until a REVISE sends them back to READY, where `advance()` reads their dependencies.
- Between the UPDATE and the INSERT of `advance()` a failure leaves a state that no event explains,
  and nothing adds the event later (`tasking/store.py:144`).
- A synthetic run on the database of a real one replays its REAL supply, cost and test artifacts:
  idempotency keys do not name the mode (`nap_pillow.py:128`, `src/README.md:25`). This and the
  second disagreement above arise only from the bare command, which takes `--db` and
  `--synthetic-supply` separately (`cli/demo_real.py`): the scripts delete the file first and give
  each mode its own (`src/scripts/demo_real.sh:6`, `src/scripts/demo_synthetic.sh:6`).
- A rerun inserts the rows of its edges again (`nap_pillow.py:136-144`). `Pipeline` and `McpTools`
  have edges as sets: their properties speak of missing edges, never of repeated ones.
- The leader integrates a review that an interruption left SUBMITTED (`nap_pillow.py:464`,
  `src/agent_packages/raw/leader/MEMORY.md:114`).
- A role is skipped although one of its types is affected (`graph/impact.py:121`, `:104`).
- `mark_status()` does not move the project revision, so an optimistic check does not notice it
  (`artifacts/store.py:305`).
- `approve()` stores nothing; `approval_valid()` accepts a REJECT; `require_human_approval_for_go`
  and `max_revision_rounds` are read nowhere.
- `AcceptanceGate` is used by tests only; the pipelines call `advance()` as `"acceptance-gate"`
  themselves.
- `image_generate()` uses a payload whose `prompt_id` is stored with other content, so the
  manifest's hashes differ from the stored prompt's. If both a pipeline and an agent have stored the
  `prompt_id`, the `prompt_ref` of a replayed manifest and the edge of the call may name different
  rows. A call that is retried records the edge twice. RFQ imports record no edge.
  `AnswerNamesStored` compares the image or the document of an answer with the stored row, and
  nothing else of it.
- `rfq_import_response()` of `mcp_server.py` takes any artifact that carries the hash as the RFQ
  (`src/README.md:104`); the same document with other quotes is answered with the stored row.
- `cloud_e2e.py:175` writes the evidence file before it fails, so the file of a failed run replaces
  that of a good one (`src/README.md:114`). It hashes files that it reads again, which may not be
  those it has judged.
- A hand-off with a fraction, made in the second of `--after`, is not counted
  (`verify_agentteams.py:40`). `MissesOnlyUnlisted` states that exception.
- `verify_agentteams --wait-events` without `--run-id` reports end to end on hand-offs of any run,
  also of an earlier one (`verify_agentteams.py:40-41`). No script calls it so, and `cloud_e2e.py`
  does not certify a report without a run.
- `str(None)` makes the active run of the status page "None" when there is none
  (`workbench.py:379`).
- `_spec_v1()` runs before `_decisions()` (`pipeline.py:132-133`), so the feature lists of the spec
  are always empty; its supplier is the constant SUP-B while the economics may rest on another.
- `review_status` is set on a copy of the spec (`pipeline.py:412`): the stored one stays PENDING.
  That is why `SecondReviewAgrees` holds: its detecting bug is the one that would store it.
- The margin rate is rounded to whole per cent before it is compared, so 34.5 % passes 35 %.
  `PassIsAffordable` states the constraint up to exactly that.
- Events inserted between the page's query and the opening of its stream are in the stream's
  snapshot and are not sent (`workbench.py:510`).

## What is not modelled

- `AcceptanceGate`, which only tests call. Its two steps have no caller whose interleavings could be
  modelled.
- The context router (a selection without state), the read-only MCP tools and pages, and the checks
  of their arguments.
- The commands that configure, stage and connect the external cluster: what they do is the
  cluster's, and it is not in the repository. `LiveRun` has only what they leave in tables and
  files.
- The wall clocks of several hosts: `Collaboration` and `LiveRun` suppose the one of the host on
  which the containers run.
- Agents that move a pipeline's own tasks while it runs (see the hypotheses under Pipeline).
- Product schemas and payload builders; HTTP clients and image files; spreadsheet parsing; the FTS
  index (its answers are SQLite's); rendering of stories and pages; JSON schema validation; JSON
  lines that no code reads back; prompts and static files. They are I/O or data without a protocol.
- Schema creation and the payload migration, which run once, before any client.

## Plan

Done, in this order: the stores with their abstract specifications and proofs; the pipelines over
them, shown to keep what the stores promise; replanning; collaboration; the domain core; the tools
of the MCP servers; the live run.

Next:

1. An agent that advances a pipeline's tasks beside it: the `Apart` theorems reduce its calls to
   steps of `TaskBoard`, so it is one more action of `Pipeline` that moves a task as the board
   allows. Which theorems of `Pipeline` survive it is the question; `RerunSafe` and `RefusalSafe`
   will need that the agent has done.
2. The context router's selection against a reference definition.
3. The page's query and the opening of its stream as two steps (`workbench.py:510`), with the part
   of the page that fetches the project again.
4. Proofs: that the programs' conditions follow from the shape of the helpers. `EndsUnlessStuck`
   remains with TLC.
