---------------------------- MODULE ArtifactStore ----------------------------
(***************************************************************************)
(* The SQLite artifact store (artifacts/store.py) and the protocol its     *)
(* callers follow around commit(): read the current version of the         *)
(* artifact, read the project revision, commit against it, then record one *)
(* edge per input (nap_pillow.py _commit, new_category.py _artifact,       *)
(* mcp_server.py image_generate and rfq_import_response).                  *)
(*                                                                         *)
(* A client is a thread or a process: the pipelines, the MCP server and    *)
(* the workbench share one database file.  Every read is a statement of    *)
(* its own; commit() is one BEGIN IMMEDIATE transaction, so it is one step *)
(* for every other connection.  A client may fail between any two steps.   *)
(***************************************************************************)
EXTENDS Naturals, FiniteSets

CONSTANTS
  Client,      \* the callers of the store, in any number of processes
  ArtifactId,  \* artifact_id values
  Project,     \* project_id values
  Key,         \* idempotency keys
  Call,        \* the envelopes callers commit, see CallType
  MaxVersion   \* BOUND on artifact_version

\* A call is an envelope without its version: the artifact and project it
\* names, its idempotency key and its input_refs.  `bump` says how the caller
\* chooses the version: latest + 1 (image_generate), else always 1.
CallType == [id: ArtifactId, project: Project, key: Key,
             refs: SUBSET ArtifactId, bump: BOOLEAN]

ASSUME CallAssumption == Call \subseteq CallType /\ Call # {}

\* Every caller derives its key from the artifact id it commits
\* ("<project>:<id>:<version>", "render-prompt:<prompt>", "rfq-import:<id>:<hash>",
\* "render-manifest:<prompt>:<asset>"), so a key names one artifact; LinkInput
\* relies on it when the version it links was committed by an earlier call.
ASSUME KeyAssumption == \A j, k \in Call : j.key = k.key => j.id = k.id

ASSUME VersionAssumption == MaxVersion \in Nat \ {0}

Version == 1 .. MaxVersion

NoVersion == 0

Ref == [id: ArtifactId, version: Version]

NoRef == [id |-> "none", version |-> NoVersion]

Row == [id: ArtifactId, version: Version, call: Call, status: {"VALID", "STALE"}]

Edge == [src: Ref, dst: Ref]

VARIABLES
  artifacts,    \* table artifacts: a set of rows
  latest,       \* table artifact_meta: artifact_id -> latest_version, 0 if no row
  idempotency,  \* table idempotency: key -> the version it committed
  revision,     \* table project_revisions
  edges,        \* table artifact_edges, without its duplicate rows
  marking,      \* the version apply_change() has read and not yet marked STALE
  pc,           \* where each client stands in the commit protocol
  call,         \* the envelope it is committing
  version,      \* artifact_version it chose
  expected,     \* expected_project_revision it read
  linking,      \* inputs of the committed version still without an edge
  seen,         \* HISTORY: the project's versions when `expected` was read
  answers       \* HISTORY: every (key, version) commit() ever returned

tables == <<artifacts, latest, idempotency, revision, edges>>
locals == <<pc, call, version, expected, linking>>
history == <<seen, answers>>
vars == <<tables, marking, locals, history>>

-----------------------------------------------------------------------------
\* Queries

RefOf(r) == [id |-> r.id, version |-> r.version]

Refs == {RefOf(r) : r \in artifacts}

\* get(artifact_id) without a version finds a row.
Exists(a) == latest[a] # NoVersion /\ [id |-> a, version |-> latest[a]] \in Refs

ProjectRefs(p) == {RefOf(r) : r \in {s \in artifacts : s.call.project = p}}

-----------------------------------------------------------------------------

AnyCall == CHOOSE k \in Call : TRUE

Init ==
  /\ artifacts = {}
  /\ latest = [a \in ArtifactId |-> NoVersion]
  /\ idempotency = [k \in Key |-> NoRef]
  /\ revision = [p \in Project |-> 0]
  /\ edges = {}
  /\ marking = NoRef
  /\ pc = [c \in Client |-> "idle"]
  /\ call = [c \in Client |-> AnyCall]
  /\ version = [c \in Client |-> NoVersion]
  /\ expected = [c \in Client |-> 0]
  /\ linking = [c \in Client |-> {}]
  /\ seen = [c \in Client |-> {}]
  /\ answers = {}

-----------------------------------------------------------------------------
\* The commit protocol of a client

\* The client holds nothing between two commits.
Rest(c) ==
  /\ pc' = [pc EXCEPT ![c] = "idle"]
  /\ call' = [call EXCEPT ![c] = AnyCall]
  /\ version' = [version EXCEPT ![c] = NoVersion]
  /\ expected' = [expected EXCEPT ![c] = 0]
  /\ linking' = [linking EXCEPT ![c] = {}]
  /\ seen' = [seen EXCEPT ![c] = {}]

\* FAULTY VARIANTS, here and below under names that say what they get wrong:
\* no specification uses them, they stand in for a definition when the
\* properties are tested for what they can detect.
VersionUnchecked(c) == FALSE
RevisionUnchecked(c) == TRUE
InputsUnchecked(k) == TRUE
NeverReplayed(k) == FALSE
LatestKeptOnConflict(a, v) == [latest EXCEPT ![a] = IF @ = NoVersion THEN v ELSE @]

\* The version a caller gives its envelope: image_generate reads the current
\* row and adds one, every other caller writes 1.
ChosenVersion(k) == IF k.bump /\ Exists(k.id) THEN latest[k.id] + 1 ELSE 1

ReadCurrent(c, k) ==
  /\ pc[c] = "idle"
  /\ ChosenVersion(k) \in Version
  /\ call' = [call EXCEPT ![c] = k]
  /\ version' = [version EXCEPT ![c] = ChosenVersion(k)]
  /\ pc' = [pc EXCEPT ![c] = "revision"]
  /\ UNCHANGED <<tables, marking, expected, linking, history>>

ReadRevision(c) ==
  /\ pc[c] = "revision"
  /\ expected' = [expected EXCEPT ![c] = revision[call[c].project]]
  /\ seen' = [seen EXCEPT ![c] = ProjectRefs(call[c].project)]
  /\ pc' = [pc EXCEPT ![c] = "commit"]
  /\ UNCHANGED <<tables, marking, call, version, linking, answers>>

Replayed(k) == idempotency[k.key] # NoRef
RevisionCurrent(c) == revision[call[c].project] = expected[c]
VersionTaken(c) == [id |-> call[c].id, version |-> version[c]] \in Refs
InputsPresent(k) == \A a \in k.refs : Exists(a)

\* The two upserts of the commit transaction.
UpsertLatest(a, v) == [latest EXCEPT ![a] = v]
UpsertRevision(p) == [revision EXCEPT ![p] = @ + 1]

\* commit() returns `ref`; the caller goes on to link its inputs to it.
Answer(c, ref) ==
  /\ answers' = answers \cup {[key |-> call[c].key, ref |-> ref]}
  /\ linking' = [linking EXCEPT ![c] = call[c].refs]
  /\ version' = [version EXCEPT ![c] = ref.version]
  /\ expected' = [expected EXCEPT ![c] = 0]
  /\ seen' = [seen EXCEPT ![c] = {}]
  /\ pc' = [pc EXCEPT ![c] = "link"]

\* The key is known: commit() rolls back and returns what it committed.
CommitReplay(c) ==
  /\ pc[c] = "commit"
  /\ Replayed(call[c])
  /\ Answer(c, idempotency[call[c].key])
  /\ UNCHANGED <<tables, marking, call>>

\* ConcurrencyError or ArtifactNotFound: the transaction is rolled back.
CommitReject(c) ==
  /\ pc[c] = "commit"
  /\ ~Replayed(call[c])
  /\ ~RevisionCurrent(c) \/ VersionTaken(c) \/ ~InputsPresent(call[c])
  /\ Rest(c)
  /\ UNCHANGED <<tables, marking, answers>>

CommitInsert(c) ==
  LET k == call[c]
      ref == [id |-> k.id, version |-> version[c]]
  IN /\ pc[c] = "commit"
     /\ ~Replayed(k)
     /\ RevisionCurrent(c)
     /\ ~VersionTaken(c)
     /\ InputsPresent(k)
     /\ artifacts' = artifacts \cup
          {[id |-> k.id, version |-> version[c], call |-> k, status |-> "VALID"]}
     /\ latest' = UpsertLatest(k.id, version[c])
     /\ idempotency' = [idempotency EXCEPT ![k.key] = ref]
     /\ revision' = UpsertRevision(k.project)
     /\ Answer(c, ref)
     /\ UNCHANGED <<edges, marking, call>>

\* After commit() returns, the caller adds one edge per input, from the
\* input's latest version.  add_edge() verifies both rows and inserts; no row
\* is ever deleted, so its three statements are one step here.
LinkInput(c, a) ==
  LET src == [id |-> a, version |-> latest[a]]
      dst == [id |-> call[c].id, version |-> version[c]]
  IN /\ pc[c] = "link"
     /\ a \in linking[c]
     /\ linking' = [linking EXCEPT ![c] = @ \ {a}]
     /\ edges' = IF {src, dst} \subseteq Refs
                 THEN edges \cup {[src |-> src, dst |-> dst]} ELSE edges
     /\ UNCHANGED <<artifacts, latest, idempotency, revision, marking,
                    pc, call, version, expected, history>>

LinkDone(c) ==
  /\ pc[c] = "link"
  /\ linking[c] = {}
  /\ Rest(c)
  /\ UNCHANGED <<tables, marking, answers>>

\* The client fails or its process is killed: only the tables survive.
Crash(c) ==
  /\ pc[c] # "idle"
  /\ Rest(c)
  /\ UNCHANGED <<tables, marking, answers>>

-----------------------------------------------------------------------------
\* ReplanningCoordinator.apply_change: get(id), then mark_status(id, version)

MarkRead(a) ==
  /\ marking = NoRef
  /\ Exists(a)
  /\ marking' = [id |-> a, version |-> latest[a]]
  /\ UNCHANGED <<tables, locals, history>>

\* mark_status() writes the status it is given to one version.
SetStatus(rows, ref, status) ==
  {IF RefOf(r) = ref THEN [r EXCEPT !.status = status] ELSE r : r \in rows}

MarkStale ==
  /\ marking # NoRef
  /\ marking' = NoRef
  /\ artifacts' = SetStatus(artifacts, marking, "STALE")
  /\ UNCHANGED <<latest, idempotency, revision, edges, locals, history>>

-----------------------------------------------------------------------------

ClientStep(c) ==
  \/ \E k \in Call : ReadCurrent(c, k)
  \/ ReadRevision(c)
  \/ CommitReplay(c)
  \/ CommitReject(c)
  \/ CommitInsert(c)
  \/ \E a \in ArtifactId : LinkInput(c, a)
  \/ LinkDone(c)
  \/ Crash(c)

Next ==
  \/ \E c \in Client : ClientStep(c)
  \/ \E a \in ArtifactId : MarkRead(a)
  \/ MarkStale

Spec == Init /\ [][Next]_vars

-----------------------------------------------------------------------------
\* Properties

TypeOK ==
  /\ artifacts \subseteq Row
  /\ latest \in [ArtifactId -> Version \cup {NoVersion}]
  /\ idempotency \in [Key -> Ref \cup {NoRef}]
  /\ revision \in [Project -> Nat]
  /\ edges \subseteq Edge
  /\ marking \in Ref \cup {NoRef}
  /\ pc \in [Client -> {"idle", "revision", "commit", "link"}]
  /\ call \in [Client -> Call]
  /\ version \in [Client -> Version \cup {NoVersion}]
  /\ \A c \in Client : pc[c] # "idle" => version[c] \in Version
  /\ expected \in [Client -> Nat]
  /\ linking \in [Client -> SUBSET ArtifactId]
  /\ seen \in [Client -> SUBSET Ref]
  /\ answers \subseteq [key: Key, ref: Ref]

\* One row per (artifact_id, artifact_version), whoever raced to write it.
VersionsUnique ==
  \A r, s \in artifacts : RefOf(r) = RefOf(s) => r = s

\* The latest pointer never regresses and never skips: the versions of an
\* artifact are exactly 1 .. latest, although the upsert of artifact_meta
\* writes the version it is given and callers choose it from a stale read.
LatestIsNewest ==
  \A ref \in Ref : ref \in Refs <=> ref.version <= latest[ref.id]

\* Every input of a committed artifact, and both ends of every edge, resolve.
ReferencesResolve ==
  /\ \A r \in artifacts : \A a \in r.call.refs : Exists(a)
  /\ \A e \in edges : {e.src, e.dst} \subseteq Refs

\* A key committed at most one version, whatever was retried or replayed, and
\* a client was never given two different answers, nor another artifact's.
OnceAndSameAnswer ==
  /\ \A r, s \in artifacts : r.call.key = s.call.key => r = s
  /\ \A x, y \in answers : x.key = y.key => x = y
  /\ \A x \in answers : \E r \in artifacts : r.call.key = x.key /\ RefOf(r) = x.ref

\* project_revision counts the versions committed to the project: no commit
\* is lost between the four tables one transaction writes.
RevisionCountsCommits ==
  \A p \in Project : revision[p] = Cardinality(ProjectRefs(p))

\* What the optimistic check is for: whoever commits to a project had seen
\* every version of it when it read the revision it commits against, so
\* nothing was committed to the project between its read and its commit.
CommitsOnWhatItSaw ==
  [][\A c \in Client :
       pc[c] = "commit" /\ pc'[c] = "link" /\ revision' # revision
         => seen[c] = ProjectRefs(call[c].project)]_vars

\* "Artifact versions immutable (no overwrite)" (store.py:6): a version keeps
\* the envelope it was committed with; only its status may change, and never
\* back from STALE.
VersionImmutable ==
  [][\A r \in artifacts : \E s \in artifacts' :
       /\ RefOf(s) = RefOf(r)
       /\ s.call = r.call
       /\ r.status = "STALE" => s.status = "STALE"]_vars

-----------------------------------------------------------------------------
\* Refinement: the four tables together are one append-only ledger.

Entries == {[id |-> r.id, version |-> r.version, call |-> r.call] : r \in artifacts}

StaleRefs == {RefOf(r) : r \in {s \in artifacts : s.status = "STALE"}}

Ledger == INSTANCE ArtifactLedger
            WITH ledger <- Entries, commits <- revision, stale <- StaleRefs

\* Every behaviour of the store, with all its races and crashes, is one of
\* the ledger: each commit() is one atomic append or has no effect.
ImplementsLedger == Ledger!Spec

=============================================================================
