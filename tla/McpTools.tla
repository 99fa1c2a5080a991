------------------------------- MODULE McpTools -------------------------------
(***************************************************************************)
(* The MCP tools that write artifacts of their own: image_generate         *)
(* (mcp_server.py) and rfq_import_response (mcp_server.py and, stricter,   *)
(* mcp_official.py).  Each is a chain of separate reads and commits, in    *)
(* image_generate around a call of an image provider that takes up to      *)
(* minutes, may fail, and may give another image each time.  A server      *)
(* answers one call at a time, but there are several server processes, the *)
(* pipelines write to the same database meanwhile, and a call may be cut   *)
(* short between any two of its steps and made again.                      *)
(*                                                                         *)
(* The rows have the payloads that the tools look into; commit() is the    *)
(* one of ArtifactStore.  A call that is refused before its first commit   *)
(* leaves everything as it is, and so do image.generate and rfq.build of   *)
(* mcp_official.py, which commit nothing: they are no steps here.          *)
(***************************************************************************)
EXTENDS Naturals

CONSTANTS
  Server,       \* the MCP processes
  Concept,      \* concept_ref values
  Online,       \* the images of a concept that the online provider may give
  Replay,       \* the image of a concept in web/assets/concepts
  Record,       \* the RenderPromptRecords that callers send as payload
  QuoteSet,     \* the SupplierQuoteSets that callers send
  PipelineRow,  \* BOUND: the rows that the pipelines commit meanwhile
  Name,         \* their ids, and the prompt_id and quote_set_id values
  Hash,         \* sample_spec_hash values, the null among them
  Document,     \* source_document_hash values
  None,         \* no value
  MaxVersion    \* BOUND on artifact_version

Version == 1 .. MaxVersion

\* An image file of a concept, known by its SHA-256: files of two concepts differ.
Image == Concept \X (Online \cup {Replay})

\* "agent-{prompt_id}", "agent-render-{concept}-v1"; every other id is as it comes.
AgentPrompt(p) == <<"agent", p>>
AgentRender(c) == <<"agent-render", c>>
Given(n) == <<"given", n>>

Id == {AgentPrompt(n) : n \in Name} \cup {AgentRender(c) : c \in Concept}
        \cup {Given(n) : n \in Name}

RenderPromptRecord == [prompt_id: Name, concept: Concept, spec: Hash, refs: SUBSET Id]
RenderManifest == [prompt_ref: Id, asset: Image, spec: Hash]
SupplierQuoteSet == [quote_set_id: Name, rfq_ref: Id, spec: Hash, document: Document]
OtherPayload == [spec: Hash]

Key == {<<"render-prompt", n>> : n \in Name}
         \cup {<<"render-manifest", n, i>> : n \in Name, i \in Image}
         \cup {<<"rfq-import", n, d>> : n \in Name, d \in Document}
         \cup {<<"pipeline", n>> : n \in Name}

\* A row of table artifacts, with the idempotency key that committed it.
Row ==
  [id: Id, version: Version, key: Key, refs: SUBSET Id,
   type: {"RenderPromptRecord"}, payload: RenderPromptRecord]
  \cup
  [id: Id, version: Version, key: Key, refs: SUBSET Id,
   type: {"RenderManifest"}, payload: RenderManifest]
  \cup
  [id: Id, version: Version, key: Key, refs: SUBSET Id,
   type: {"SupplierQuoteSet"}, payload: SupplierQuoteSet]
  \cup
  [id: Id, version: Version, key: Key, refs: SUBSET Id,
   type: {"RFQPack", "other"}, payload: OtherPayload]

Ref == [id: Id, version: Version]

\* What a caller of rfq_import_response sends: the quote set, the owner of the
\* task it names, who it says it is, and the weakest evidence among its quotes.
Import == [quotes: SupplierQuoteSet, owner: STRING, actor: STRING, evidence: STRING]

ASSUME PayloadAssumption == Record \subseteq RenderPromptRecord /\ QuoteSet \subseteq Import

\* The pipelines' rows have ids and keys of their own.
ASSUME PipelineAssumption ==
  /\ PipelineRow \subseteq Row
  /\ \A r \in PipelineRow : \E n \in Name :
       r.id = Given(n) /\ r.version = 1 /\ r.key = <<"pipeline", n>>

ASSUME NameAssumption == MaxVersion \in Nat \ {0} /\ Replay \notin Online

VARIABLES
  rows,      \* tables artifacts and idempotency
  revision,  \* table project_revisions, of the one project
  edges,     \* table artifact_edges: the pairs the tools record
  job,       \* what each server is doing, see Idle
  answer     \* the answer that the last step gave, None if it gave none

vars == <<rows, revision, edges, job, answer>>

\* row: the envelope to be committed, or that commit() returned; told: the image
\* or the document that the answer will name; event: its event_type, where
\* MODEL_DEGRADED counts as the REPLAY_RENDER that it falls back to.
Idle == [pc |-> "idle", record |-> None, prompt |-> None, row |-> None,
         expected |-> 0, told |-> None, event |-> None]

Event == {"IMAGE_GENERATED", "REPLAY_RENDER", "accepted", None}

Told == Image \cup Document \cup {None}

Job == [pc: {"idle", "image", "revision", "commit", "link"},
        record: RenderPromptRecord \cup {None}, prompt: Id \cup {None},
        row: Row \cup {None}, expected: Nat, told: Told, event: Event]

Answer == [ref: Ref, prompt: Id \cup {None}, told: Told, event: Event]

Init ==
  /\ rows = {}
  /\ revision = 0
  /\ edges = {}
  /\ job = [s \in Server |-> Idle]
  /\ answer = None

-----------------------------------------------------------------------------

RefOf(r) == [id |-> r.id, version |-> r.version]

Stored(a) == \E r \in rows : r.id = a

\* get(artifact_id): its latest version.
Latest(a) == {r \in rows : r.id = a /\ \A q \in rows : q.id = a => q.version <= r.version}

\* list_by_type(RENDER_PROMPT): a statement of its own, in no order, so the
\* "last" match may be any.
Prompts == {r \in rows : r.type = "RenderPromptRecord"}

\* FAULTY VARIANTS, here and below: no specification uses them, they stand in
\* for a definition when the properties are tested for what they can detect.
KeyWithoutAsset(r, image) == <<"render-manifest", r.prompt_id, <<r.concept, Replay>>>>
LinkedIfInserted(s) ==
  IF revision = job[s].expected + 1 THEN edges \cup {<<job[s].prompt, RefOf(job[s].row)>>}
  ELSE edges
PromptKeyOfConcept(r) == <<"render-prompt", CHOOSE n \in Name : TRUE>>

NextVersion(a) == {r.version + 1 : r \in Latest(a)} \cup (IF Stored(a) THEN {} ELSE {1})

PromptKey(r) == <<"render-prompt", r.prompt_id>>
ManifestKey(r, image) == <<"render-manifest", r.prompt_id, image>>

-----------------------------------------------------------------------------
\* image_generate: the prompt

Imagine(s, record, prompt) ==
  job' = [job EXCEPT ![s] = [Idle EXCEPT !.pc = "image", !.record = record,
                                         !.prompt = prompt]]

\* A call without payload: a stored record of the concept.
AskByConcept(s, c) ==
  /\ job[s].pc = "idle"
  /\ \E r \in Prompts : r.payload.concept = c /\ Imagine(s, r.payload, r.id)
  /\ answer' = None
  /\ UNCHANGED <<rows, revision, edges>>

\* A call with a payload: the payload is used, even if the row that has its
\* prompt_id says something else; a new one is committed first.
AskWithPayload(s, record) ==
  LET known == {r \in Prompts : r.payload.prompt_id = record.prompt_id}
      row == [id |-> AgentPrompt(record.prompt_id), version |-> 1,
              key |-> PromptKey(record), refs |-> record.refs,
              type |-> "RenderPromptRecord", payload |-> record]
  IN /\ job[s].pc = "idle"
     /\ \/ \E r \in known : Imagine(s, record, r.id)
        \/ /\ known = {}
           /\ job' = [job EXCEPT ![s] = [Idle EXCEPT !.pc = "revision", !.record = record,
                                                     !.row = row]]
     /\ answer' = None
     /\ UNCHANGED <<rows, revision, edges>>

-----------------------------------------------------------------------------
\* image_generate: the image.  The provider has answered; the tool reads the
\* current manifest and makes the envelope of the next one.

Compose(s, image, event) ==
  LET record == job[s].record
      id == AgentRender(record.concept)
  IN /\ job[s].pc = "image"
     /\ \E v \in NextVersion(id) :
          /\ v <= MaxVersion
          /\ job' = [job EXCEPT ![s].pc = "revision", ![s].record = None,
                                ![s].told = image, ![s].event = event, ![s].row =
                    [id |-> id, version |-> v, key |-> ManifestKey(record, image),
                     refs |-> {job[s].prompt}, type |-> "RenderManifest",
                     payload |-> [prompt_ref |-> job[s].prompt, asset |-> image,
                                  spec |-> record.spec]]]
     /\ answer' = None
     /\ UNCHANGED <<rows, revision, edges>>

\* QwenImageProvider().generate() returned.
Generated(s) == \E i \in Online : Compose(s, <<job[s].record.concept, i>>, "IMAGE_GENERATED")

\* OfflineImageProvider().generate() did: it was asked for, or the other raised
\* ImageGenerationError, as it does when it has no key.
Replayed(s) == Compose(s, <<job[s].record.concept, Replay>>, "REPLAY_RENDER")

-----------------------------------------------------------------------------
\* rfq_import_response

Acceptable(q) ==
  /\ q.owner = "gap2sku-supply"
  /\ q.actor \in {"gap2sku-supply", "human-manager"}
  /\ q.evidence = "REAL SUPPLIER_RESPONSE"

\* The official tool takes RFQs only, the other whatever carries the hash.
BoundTo(r, quotes, official) ==
  r.payload.spec = quotes.spec /\ (official => r.type = "RFQPack")

ImportQuotes(s, q, official) ==
  LET quotes == q.quotes IN
  /\ job[s].pc = "idle"
  /\ Acceptable(q)
  /\ \E r \in Latest(quotes.rfq_ref) : BoundTo(r, quotes, official)
  /\ job' = [job EXCEPT ![s] =
       [Idle EXCEPT !.pc = "revision", !.told = quotes.document, !.event = "accepted",
                    !.row = [id |-> Given(quotes.quote_set_id), version |-> 1,
                             key |-> <<"rfq-import", quotes.quote_set_id, quotes.document>>,
                             refs |-> {quotes.rfq_ref}, type |-> "SupplierQuoteSet",
                             payload |-> quotes]]]
  /\ answer' = None
  /\ UNCHANGED <<rows, revision, edges>>

-----------------------------------------------------------------------------
\* commit(), with project_revision() read before it

ReadRevision(s) ==
  /\ job[s].pc = "revision"
  /\ \A a \in job[s].row.refs : Stored(a)
  /\ job' = [job EXCEPT ![s].pc = "commit", ![s].expected = revision]
  /\ answer' = None
  /\ UNCHANGED <<rows, revision, edges>>

Give(s, r) ==
  answer' = [ref |-> RefOf(r), prompt |-> job[s].prompt, told |-> job[s].told,
             event |-> job[s].event]

\* commit() has returned row r.
Proceed(s, r) ==
  \/ /\ job[s].row.type = "RenderPromptRecord"
     /\ Imagine(s, job[s].record, r.id)
     /\ answer' = None
  \/ /\ job[s].row.type = "RenderManifest"
     /\ job' = [job EXCEPT ![s].pc = "link", ![s].row = r]
     /\ answer' = None
  \/ /\ job[s].row.type = "SupplierQuoteSet"
     /\ Give(s, r)
     /\ job' = [job EXCEPT ![s] = Idle]

CommitReplay(s) ==
  /\ job[s].pc = "commit"
  /\ \E r \in rows : r.key = job[s].row.key /\ Proceed(s, r)
  /\ UNCHANGED <<rows, revision, edges>>

CommitInsert(s) ==
  LET row == job[s].row IN
  /\ job[s].pc = "commit"
  /\ \A r \in rows : r.key # row.key /\ RefOf(r) # RefOf(row)
  /\ revision = job[s].expected
  /\ \A a \in row.refs : Stored(a)
  /\ rows' = rows \cup {row}
  /\ revision' = revision + 1
  /\ Proceed(s, row)
  /\ UNCHANGED edges

EdgeAdded(s) == edges \cup {<<job[s].prompt, RefOf(job[s].row)>>}

\* add_edge() from the prompt to the row that commit() returned, and the answer.
Link(s) ==
  /\ job[s].pc = "link"
  /\ edges' = EdgeAdded(s)
  /\ Give(s, job[s].row)
  /\ job' = [job EXCEPT ![s] = Idle]
  /\ UNCHANGED <<rows, revision>>

\* The call ends without its answer: inputs are missing, both providers failed,
\* commit() raised, or the server is killed.
Fail(s) ==
  /\ job[s].pc # "idle"
  /\ job' = [job EXCEPT ![s] = Idle]
  /\ answer' = None
  /\ UNCHANGED <<rows, revision, edges>>

\* A pipeline in another process commits one of its rows.
PipelineCommit(r) ==
  /\ \A q \in rows : q.key # r.key /\ RefOf(q) # RefOf(r)
  /\ \A a \in r.refs : Stored(a)
  /\ rows' = rows \cup {r}
  /\ revision' = revision + 1
  /\ answer' = None
  /\ UNCHANGED <<edges, job>>

-----------------------------------------------------------------------------

ImageGenerate(s) ==
  \/ \E c \in Concept : AskByConcept(s, c)
  \/ \E r \in Record : AskWithPayload(s, r)
  \/ Generated(s)
  \/ Replayed(s)
  \/ Link(s)

ServerStep(s) ==
  \/ ImageGenerate(s)
  \/ \E q \in QuoteSet, official \in BOOLEAN : ImportQuotes(s, q, official)
  \/ ReadRevision(s)
  \/ CommitReplay(s)
  \/ CommitInsert(s)
  \/ Fail(s)

Next ==
  \/ \E s \in Server : ServerStep(s)
  \/ \E r \in PipelineRow : PipelineCommit(r)

Spec == Init /\ [][Next]_vars

-----------------------------------------------------------------------------
\* Properties

TypeOK ==
  /\ rows \subseteq Row
  /\ revision \in Nat
  /\ edges \subseteq Id \X Ref
  /\ job \in [Server -> Job]
  /\ answer \in Answer \cup {None}

\* What an answer shows, the image and how it was made or the document, is what
\* the artifact_id and version in it name, although commit() may have answered
\* with the row of another call (mcp_server.py:587-601, :606-611; :426-431).
\* Only the image and the document are compared: the spec hash or prompt_ref
\* shown may be those of a payload that the replayed row does not hold.
AnswerNamesStored ==
  answer # None =>
    \E r \in rows :
      /\ RefOf(r) = answer.ref
      /\ IF answer.event = "accepted"
         THEN r.type = "SupplierQuoteSet" /\ r.payload.document = answer.told
         ELSE /\ r.type = "RenderManifest" /\ r.payload.asset = answer.told
              /\ answer.event = "IMAGE_GENERATED" <=> r.payload.asset[2] \in Online

\* Whoever got an answer finds the edge from the prompt to the manifest, also
\* when the call that committed the manifest was cut short before add_edge().
AnsweredIsLinked ==
  answer # None /\ answer.event # "accepted" => <<answer.prompt, answer.ref>> \in edges

\* The prompt_ref of a manifest of image_generate names a stored prompt, and one
\* that has the prompt_id under whose key the manifest was committed: the list
\* read at the start, the replays of two commits and the races with other
\* servers never mix up prompts.
ManifestsRestOnPrompts ==
  \A r \in rows : r.key[1] = "render-manifest" =>
    \E p \in Prompts : p.id = r.payload.prompt_ref /\ p.payload.prompt_id = r.key[2]

\* The tools keep the contract of the store: versions are appended one by one,
\* each with a key of its own and with inputs that are there.
Envelope(id, key, refs) == [id |-> id, project |-> "project", key |-> key, refs |-> refs]

\* What the tools and the pipelines commit.
PromptEnvelopes == {Envelope(AgentPrompt(r.prompt_id), PromptKey(r), r.refs) : r \in Record}
ManifestEnvelope(i, n, p) == Envelope(AgentRender(i[1]), <<"render-manifest", n, i>>, {p})
ManifestEnvelopes == {ManifestEnvelope(i, n, p) : i \in Image, n \in Name, p \in Id}
QuoteEnvelope(n, d, p) == Envelope(Given(n), <<"rfq-import", n, d>>, {p})
QuoteEnvelopes == {QuoteEnvelope(n, d, p) : n \in Name, d \in Document, p \in Id}
PipelineEnvelopes == {Envelope(r.id, r.key, r.refs) : r \in PipelineRow}

Envelopes == PromptEnvelopes \cup ManifestEnvelopes \cup QuoteEnvelopes \cup PipelineEnvelopes

Entry(r) == [id |-> r.id, version |-> r.version, call |-> Envelope(r.id, r.key, r.refs)]

Ledger == INSTANCE ArtifactLedger
            WITH ledger <- {Entry(r) : r \in rows},
                 commits <- [p \in {"project"} |-> revision],
                 stale <- {},
                 answers <- {[key |-> r.key, ref |-> RefOf(r)] : r \in rows},
                 ArtifactId <- Id, Project <- {"project"},
                 Call <- Envelopes

ToolsImplementLedger == Ledger!Spec

=============================================================================
