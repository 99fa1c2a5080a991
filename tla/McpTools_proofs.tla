---------------------------- MODULE McpTools_proofs ----------------------------
(***************************************************************************)
(* Theorems about McpTools, for any number of servers, any payloads that   *)
(* callers send, any images and any rows that the pipelines commit.        *)
(***************************************************************************)
EXTENDS McpTools, TLAPS

\* Artifact a is a stored prompt that has prompt_id n.
Known(a, n) == \E p \in Prompts : p.id = a /\ p.payload.prompt_id = n

\* The three envelopes that the tools make.
PromptRow(r) ==
  /\ r.type = "RenderPromptRecord" /\ r.payload \in Record
  /\ r.id = AgentPrompt(r.payload.prompt_id) /\ r.version = 1
  /\ r.key = PromptKey(r.payload) /\ r.refs = r.payload.refs

ManifestRow(r) ==
  /\ r.type = "RenderManifest" /\ r.payload \in RenderManifest
  /\ r.id = AgentRender(r.payload.asset[1])
  /\ r.refs = {r.payload.prompt_ref}
  /\ \E n \in Name : r.key = <<"render-manifest", n, r.payload.asset>>
                       /\ Known(r.payload.prompt_ref, n)

QuoteRow(r) ==
  /\ r.type = "SupplierQuoteSet" /\ r.payload \in SupplierQuoteSet
  /\ r.id = Given(r.payload.quote_set_id) /\ r.version = 1
  /\ r.key = <<"rfq-import", r.payload.quote_set_id, r.payload.document>>
  /\ r.refs = {r.payload.rfq_ref}

\* Every row is one of them, or a pipeline's.
RowInv == \A r \in rows : PromptRow(r) \/ ManifestRow(r) \/ QuoteRow(r) \/ r \in PipelineRow

\* What the answer will say of the image is what the image is.
EventTrue(j) ==
  /\ j.event \in {"IMAGE_GENERATED", "REPLAY_RENDER"}
  /\ j.event = "IMAGE_GENERATED" <=> j.told[2] \in Online

\* What a server is about to write agrees with what it is about to tell.
Ready(j) ==
  /\ j.row \in Row
  /\ \/ PromptRow(j.row) /\ j.record = j.row.payload
     \/ /\ ManifestRow(j.row) /\ j.told = j.row.payload.asset
        /\ j.prompt = j.row.payload.prompt_ref /\ EventTrue(j)
     \/ QuoteRow(j.row) /\ j.told = j.row.payload.document /\ j.event = "accepted"

JobOK(j) ==
  /\ j.pc = "image" => /\ j.record \in RenderPromptRecord /\ j.prompt \in Id
                       /\ Known(j.prompt, j.record.prompt_id)
  /\ j.pc \in {"revision", "commit"} => Ready(j)
  /\ j.pc = "link" => /\ j.row \in rows /\ ManifestRow(j.row) /\ j.prompt \in Id
                      /\ j.told = j.row.payload.asset /\ EventTrue(j)

JobInv == \A s \in Server : JobOK(job[s])

IInv == TypeOK /\ RowInv /\ JobInv /\ AnswerNamesStored /\ AnsweredIsLinked

-----------------------------------------------------------------------------

\* A key tells which envelope it belongs to.
LEMMA KeyKinds ==
  ASSUME NEW r
  PROVE  /\ PromptRow(r) => r.key[1] = "render-prompt"
         /\ ManifestRow(r) => r.key[1] = "render-manifest"
         /\ QuoteRow(r) => r.key[1] = "rfq-import"
         /\ r \in PipelineRow => r.key[1] = "pipeline"
BY PipelineAssumption DEF PromptRow, ManifestRow, QuoteRow, PromptKey

\* A row under the key of a job's envelope is an envelope of the same kind.
LEMMA SameKind ==
  ASSUME RowInv, NEW r \in rows, NEW q, r.key = q.key
  PROVE  /\ PromptRow(q) => PromptRow(r) /\ r.payload.prompt_id = q.payload.prompt_id
         /\ ManifestRow(q) => ManifestRow(r) /\ r.payload.asset = q.payload.asset
         /\ QuoteRow(q) => QuoteRow(r) /\ r.payload.document = q.payload.document
<1>1. PromptRow(r) \/ ManifestRow(r) \/ QuoteRow(r) \/ r \in PipelineRow  BY DEF RowInv
<1>2. ASSUME PromptRow(q)
      PROVE  PromptRow(r) /\ r.payload.prompt_id = q.payload.prompt_id
  <2>1. PromptRow(r)  BY <1>1, <1>2, KeyKinds
  <2>2. r.key[2] = r.payload.prompt_id /\ q.key[2] = q.payload.prompt_id
    BY <1>2, <2>1 DEF PromptRow, PromptKey
  <2>. QED  BY <2>1, <2>2
<1>3. ASSUME ManifestRow(q)
      PROVE  ManifestRow(r) /\ r.payload.asset = q.payload.asset
  <2>1. ManifestRow(r)  BY <1>1, <1>3, KeyKinds
  <2>2. r.key[3] = r.payload.asset /\ q.key[3] = q.payload.asset
    BY <1>3, <2>1 DEF ManifestRow
  <2>. QED  BY <2>1, <2>2
<1>4. ASSUME QuoteRow(q)
      PROVE  QuoteRow(r) /\ r.payload.document = q.payload.document
  <2>1. QuoteRow(r)  BY <1>1, <1>4, KeyKinds
  <2>2. r.key[3] = r.payload.document /\ q.key[3] = q.payload.document
    BY <1>4, <2>1 DEF QuoteRow
  <2>. QED  BY <2>1, <2>2
<1>. QED  BY <1>2, <1>3, <1>4

\* A stored prompt stays stored, and so does what rests on it.
LEMMA KnownKept ==
  ASSUME rows \subseteq rows'
  PROVE  /\ \A a, n : Known(a, n) => Known(a, n)'
         /\ \A r : ManifestRow(r) => ManifestRow(r)'
<1>1. \A a, n : Known(a, n) => Known(a, n)'  BY DEF Known, Prompts
<1>. QED  BY <1>1 DEF ManifestRow

LEMMA JobKept ==
  ASSUME rows \subseteq rows', NEW j, JobOK(j)
  PROVE  JobOK(j)'
BY KnownKept DEF JobOK, Ready, EventTrue, PromptRow, QuoteRow

\* A step that gives server s the job j and loses no row keeps the invariant
\* when j is sound and what it answers is true.
LEMMA StepKept ==
  ASSUME IInv, NEW s \in Server, NEW j \in Job, job' = [job EXCEPT ![s] = j], JobOK(j)',
         rows \subseteq rows', rows' \subseteq Row, RowInv', revision' \in Nat,
         edges' \subseteq Id \X Ref, answer' \in Answer \cup {None},
         AnswerNamesStored', AnsweredIsLinked'
  PROVE  IInv'
<1>1. job \in [Server -> Job] /\ JobInv  BY DEF IInv, TypeOK
<1>2. job' \in [Server -> Job]  BY <1>1
<1>3. TypeOK'  BY <1>2 DEF TypeOK
<1>4. ASSUME NEW u \in Server  PROVE JobOK(job[u])'
  <2>1. CASE u = s  BY <2>1, <1>1
  <2>2. CASE u # s
    <3>1. job'[u] = job[u] /\ JobOK(job[u])  BY <2>2, <1>1 DEF JobInv
    <3>. QED  BY <3>1, JobKept
  <2>. QED  BY <2>1, <2>2
<1>5. JobInv'  BY <1>4 DEF JobInv
<1>. QED  BY <1>3, <1>5 DEF IInv

\* The same, of a step that only goes on with the job.
LEMMA LocalStepKept ==
  ASSUME IInv, NEW s \in Server, NEW j \in Job, job' = [job EXCEPT ![s] = j], JobOK(j),
         UNCHANGED <<rows, revision, edges>>, answer' = None
  PROVE  IInv'
<1>1. JobOK(j)'  BY JobKept
<1>2. RowInv'  BY KnownKept DEF IInv, RowInv, PromptRow, QuoteRow
<1>3. AnswerNamesStored' /\ AnsweredIsLinked'  BY DEF AnswerNamesStored, AnsweredIsLinked
<1>. QED  BY <1>1, <1>2, <1>3, StepKept DEF IInv, TypeOK

LEMMA IdleJob == Idle \in Job /\ JobOK(Idle)
BY DEF Idle, Job, JobOK, Told, Event

\* A job that is to make an image from a stored prompt.
LEMMA ImagineKept ==
  ASSUME IInv, NEW s \in Server, NEW record \in RenderPromptRecord, NEW p \in Id,
         Known(p, record.prompt_id), Imagine(s, record, p),
         UNCHANGED <<rows, revision, edges>>, answer' = None
  PROVE  IInv'
<1>. DEFINE j == [Idle EXCEPT !.pc = "image", !.record = record, !.prompt = p]
<1>1. j \in Job  BY DEF Idle, Job, Told, Event
<1>2. JobOK(j)  BY DEF JobOK, Idle
<1>3. job' = [job EXCEPT ![s] = j]  BY DEF Imagine
<1>. HIDE DEF j
<1>. QED  BY <1>1, <1>2, <1>3, LocalStepKept

LEMMA PromptTypes ==
  ASSUME TypeOK, NEW r \in Prompts
  PROVE  r.payload \in RenderPromptRecord /\ r.id \in Id /\ Known(r.id, r.payload.prompt_id)
<1>1. r \in Row /\ r.type = "RenderPromptRecord"  BY DEF TypeOK, Prompts
<1>. QED  BY <1>1 DEF Row, Known

LEMMA AskByConceptKept ==
  ASSUME IInv, NEW s \in Server, NEW c \in Concept, AskByConcept(s, c)
  PROVE  IInv'
<1>1. PICK r \in Prompts : Imagine(s, r.payload, r.id)  BY DEF AskByConcept
<1>2. UNCHANGED <<rows, revision, edges>> /\ answer' = None  BY DEF AskByConcept
<1>. QED  BY <1>1, <1>2, PromptTypes, ImagineKept DEF IInv

\* The envelope of a record that a caller sends.
LEMMA NewPromptRow ==
  ASSUME NEW record \in Record,
         NEW row, row = [id |-> AgentPrompt(record.prompt_id), version |-> 1,
                         key |-> PromptKey(record), refs |-> record.refs,
                         type |-> "RenderPromptRecord", payload |-> record]
  PROVE  row \in Row /\ PromptRow(row)
<1>1. record \in RenderPromptRecord  BY PayloadAssumption
<1>2. AgentPrompt(record.prompt_id) \in Id /\ PromptKey(record) \in Key /\ 1 \in Version
      /\ record.refs \in SUBSET Id
  BY <1>1, NameAssumption DEF RenderPromptRecord, Id, Key, PromptKey, Version
<1>3. row \in Row  BY <1>1, <1>2 DEF Row
<1>. QED  BY <1>3 DEF PromptRow

LEMMA AskWithPayloadKept ==
  ASSUME IInv, NEW s \in Server, NEW record \in Record, AskWithPayload(s, record)
  PROVE  IInv'
<1>. DEFINE row == [id |-> AgentPrompt(record.prompt_id), version |-> 1,
                    key |-> PromptKey(record), refs |-> record.refs,
                    type |-> "RenderPromptRecord", payload |-> record]
            j == [Idle EXCEPT !.pc = "revision", !.record = record, !.row = row]
<1>1. record \in RenderPromptRecord  BY PayloadAssumption
<1>2. UNCHANGED <<rows, revision, edges>> /\ answer' = None  BY DEF AskWithPayload
<1>3. CASE \E r \in Prompts : r.payload.prompt_id = record.prompt_id /\ Imagine(s, record, r.id)
  <2>1. PICK r \in Prompts : r.payload.prompt_id = record.prompt_id /\ Imagine(s, record, r.id)
    BY <1>3
  <2>. QED  BY <1>1, <1>2, <2>1, PromptTypes, ImagineKept DEF IInv
<1>4. CASE job' = [job EXCEPT ![s] = j]
  <2>1. row \in Row /\ PromptRow(row)  BY NewPromptRow
  <2>. HIDE DEF row
  <2>2. j \in Job  BY <1>1, <2>1 DEF Idle, Job, Told, Event
  <2>3. row.payload = record  BY DEF row
  <2>4. JobOK(j)  BY <2>1, <2>3 DEF JobOK, Ready, Idle
  <2>. HIDE DEF j
  <2>. QED  BY <1>2, <1>4, <2>2, <2>4, LocalStepKept
<1>. QED  BY <1>3, <1>4 DEF AskWithPayload

-----------------------------------------------------------------------------

LEMMA NextVersionType ==
  ASSUME TypeOK, NEW a, NEW v \in NextVersion(a), v <= MaxVersion
  PROVE  v \in Version
BY NameAssumption DEF TypeOK, NextVersion, Latest, Row, Version

LEMMA ComposeKept ==
  ASSUME IInv, NEW s \in Server, NEW image \in Image, NEW event,
         image[1] = job[s].record.concept,
         event \in {"IMAGE_GENERATED", "REPLAY_RENDER"},
         event = "IMAGE_GENERATED" <=> image[2] \in Online,
         Compose(s, image, event)
  PROVE  IInv'
<1>. DEFINE record == job[s].record
            id == AgentRender(record.concept)
            payload == [prompt_ref |-> job[s].prompt, asset |-> image, spec |-> record.spec]
            row(v) == [id |-> id, version |-> v, key |-> ManifestKey(record, image),
                       refs |-> {job[s].prompt}, type |-> "RenderManifest",
                       payload |-> payload]
            j(v) == [job[s] EXCEPT !.pc = "revision", !.record = None, !.told = image,
                                   !.event = event, !.row = row(v)]
<1>1. job[s] \in Job /\ job \in [Server -> Job] /\ job[s].pc = "image" /\ JobOK(job[s])
  BY DEF IInv, TypeOK, JobInv, Compose
<1>2. /\ record \in RenderPromptRecord /\ job[s].prompt \in Id
      /\ Known(job[s].prompt, record.prompt_id)
  BY <1>1 DEF JobOK
<1>3. PICK v \in NextVersion(id) : v <= MaxVersion /\ job' = [job EXCEPT ![s] = j(v)]
  <2>1. PICK v \in NextVersion(id) :
          /\ v <= MaxVersion
          /\ job' = [job EXCEPT ![s].pc = "revision", ![s].record = None, ![s].told = image,
                               ![s].event = event, ![s].row = row(v)]
    BY DEF Compose
  <2>. HIDE DEF row
  <2>2. job' = [job EXCEPT ![s] = j(v)]  BY <1>1, <2>1
  <2>. QED  BY <2>1, <2>2
<1>4. v \in Version  BY <1>3, NextVersionType DEF IInv
<1>5. payload \in RenderManifest  BY <1>2 DEF RenderManifest, RenderPromptRecord
<1>6. record.prompt_id \in Name /\ record.concept \in Concept  BY <1>2 DEF RenderPromptRecord
<1>7. /\ id \in Id /\ {job[s].prompt} \in SUBSET Id /\ ManifestKey(record, image) \in Key
      /\ ManifestKey(record, image) = <<"render-manifest", record.prompt_id, image>>
  BY <1>2, <1>6 DEF Id, Key, ManifestKey
<1>8. row(v) \in Row
  <2>. HIDE DEF id, payload
  <2>. QED  BY <1>4, <1>5, <1>7 DEF Row
<1>9. ManifestRow(row(v))
  <2>1. payload.asset = image /\ payload.prompt_ref = job[s].prompt  OBVIOUS
  <2>2. id = AgentRender(image[1])  OBVIOUS
  <2>. HIDE DEF payload, record, id
  <2>. QED  BY <1>2, <1>5, <1>6, <1>7, <2>1, <2>2 DEF ManifestRow
<1>10. row(v).payload.asset = image /\ row(v).payload.prompt_ref = job[s].prompt  OBVIOUS
<1>. HIDE DEF row
<1>11. j(v) \in Job  BY <1>1, <1>8 DEF Job, Told, Event
<1>12. /\ j(v).pc = "revision" /\ j(v).row = row(v) /\ j(v).told = image
       /\ j(v).prompt = job[s].prompt /\ j(v).event = event
  BY <1>1 DEF Job
<1>. HIDE DEF j
<1>13. JobOK(j(v))  BY <1>8, <1>9, <1>10, <1>12 DEF JobOK, Ready, EventTrue
<1>14. UNCHANGED <<rows, revision, edges>> /\ answer' = None  BY DEF Compose
<1>. QED  BY <1>3, <1>11, <1>13, <1>14, LocalStepKept

LEMMA ImageKept ==
  ASSUME IInv, NEW s \in Server, Generated(s) \/ Replayed(s)
  PROVE  IInv'
<1>1. job[s].pc = "image"  BY DEF Generated, Replayed, Compose
<1>2. job[s].record.concept \in Concept
  BY <1>1 DEF IInv, JobInv, JobOK, RenderPromptRecord
<1>3. CASE Generated(s)
  <2>1. PICK i \in Online : Compose(s, <<job[s].record.concept, i>>, "IMAGE_GENERATED")
    BY <1>3 DEF Generated
  <2>2. <<job[s].record.concept, i>> \in Image  BY <1>2 DEF Image
  <2>. QED  BY <2>1, <2>2, ComposeKept
<1>4. CASE Replayed(s)
  <2>1. <<job[s].record.concept, Replay>> \in Image  BY <1>2 DEF Image
  <2>. QED  BY <1>4, <2>1, ComposeKept, NameAssumption DEF Replayed
<1>. QED  BY <1>3, <1>4

-----------------------------------------------------------------------------

LEMMA ImportKept ==
  ASSUME IInv, NEW s \in Server, NEW q \in QuoteSet, NEW official \in BOOLEAN,
         ImportQuotes(s, q, official)
  PROVE  IInv'
<1>. DEFINE quotes == q.quotes
            key == <<"rfq-import", quotes.quote_set_id, quotes.document>>
            row == [id |-> Given(quotes.quote_set_id), version |-> 1, key |-> key,
                    refs |-> {quotes.rfq_ref}, type |-> "SupplierQuoteSet",
                    payload |-> quotes]
            j == [Idle EXCEPT !.pc = "revision", !.told = quotes.document,
                              !.event = "accepted", !.row = row]
<1>1. quotes \in SupplierQuoteSet  BY PayloadAssumption DEF Import
<1>2. /\ quotes.quote_set_id \in Name /\ quotes.document \in Document /\ quotes.rfq_ref \in Id
  BY <1>1 DEF SupplierQuoteSet
<1>3. /\ key \in Key /\ Given(quotes.quote_set_id) \in Id /\ 1 \in Version
      /\ {quotes.rfq_ref} \in SUBSET Id
  BY <1>2, NameAssumption DEF Key, Id, Version
<1>4. row \in Row
  <2>. HIDE DEF quotes, key
  <2>. QED  BY <1>1, <1>3 DEF Row
<1>5. QuoteRow(row)
  <2>1. row.payload = quotes  OBVIOUS
  <2>. HIDE DEF quotes
  <2>. QED  BY <1>1, <2>1 DEF QuoteRow
<1>6. row.payload.document = quotes.document  OBVIOUS
<1>7. job' = [job EXCEPT ![s] = j]  BY DEF ImportQuotes
<1>. HIDE DEF row, quotes
<1>8. j \in Job  BY <1>2, <1>4 DEF Idle, Job, Told, Event
<1>9. j.pc = "revision" /\ j.row = row /\ j.told = quotes.document /\ j.event = "accepted"
  BY DEF Idle
<1>. HIDE DEF j
<1>10. JobOK(j)  BY <1>4, <1>5, <1>6, <1>9 DEF JobOK, Ready
<1>11. UNCHANGED <<rows, revision, edges>> /\ answer' = None  BY DEF ImportQuotes
<1>. QED  BY <1>7, <1>8, <1>10, <1>11, LocalStepKept

LEMMA ReadRevisionKept ==
  ASSUME IInv, NEW s \in Server, ReadRevision(s)
  PROVE  IInv'
<1>. DEFINE j == [job[s] EXCEPT !.pc = "commit", !.expected = revision]
<1>1. job[s] \in Job /\ job \in [Server -> Job] /\ job[s].pc = "revision" /\ JobOK(job[s])
  BY DEF IInv, TypeOK, JobInv, ReadRevision
<1>2. job' = [job EXCEPT ![s] = j]  BY <1>1 DEF ReadRevision
<1>3. j \in Job  BY <1>1 DEF Job, IInv, TypeOK
<1>4. JobOK(j)  BY <1>1 DEF JobOK, Ready, EventTrue, Job
<1>5. UNCHANGED <<rows, revision, edges>> /\ answer' = None  BY DEF ReadRevision
<1>. HIDE DEF j
<1>. QED  BY <1>2, <1>3, <1>4, <1>5, LocalStepKept

LEMMA FailKept ==
  ASSUME IInv, NEW s \in Server, Fail(s)
  PROVE  IInv'
BY IdleJob, LocalStepKept DEF Fail

-----------------------------------------------------------------------------

\* commit() returned r to server s, which goes on with it, after a step that
\* stored r or found it stored.
LEMMA ProceedKept ==
  ASSUME IInv, NEW s \in Server, job[s].pc = "commit", NEW r, r \in rows', r \in Row,
         rows \subseteq rows', rows' \subseteq Row, RowInv', revision' \in Nat,
         edges' = edges, Proceed(s, r),
         PromptRow(job[s].row) => PromptRow(r)'
            /\ r.payload.prompt_id = job[s].row.payload.prompt_id,
         ManifestRow(job[s].row) => ManifestRow(r)'
            /\ r.payload.asset = job[s].row.payload.asset,
         QuoteRow(job[s].row) => QuoteRow(r)'
            /\ r.payload.document = job[s].row.payload.document
  PROVE  IInv'
<1>1. job[s] \in Job /\ job \in [Server -> Job] /\ Ready(job[s]) /\ edges' \subseteq Id \X Ref
  BY DEF IInv, TypeOK, JobInv, JobOK
<1>2. CASE job[s].row.type = "RenderPromptRecord"
  <2>1. PromptRow(job[s].row) /\ job[s].record = job[s].row.payload
    BY <1>1, <1>2 DEF Ready, ManifestRow, QuoteRow
  <2>a. PICK record : record = job[s].record  OBVIOUS
  <2>b. PICK j : j = [Idle EXCEPT !.pc = "image", !.record = record, !.prompt = r.id]  OBVIOUS
  <2>2. record \in RenderPromptRecord  BY <2>1, <2>a, PayloadAssumption DEF PromptRow
  <2>3. r.id \in Id  BY DEF Row
  <2>4. PromptRow(r)'  BY <2>1
  <2>5. r.type = "RenderPromptRecord" /\ r.payload.prompt_id = record.prompt_id
    BY <2>1, <2>4, <2>a DEF PromptRow
  <2>6. Known(r.id, record.prompt_id)'  BY <2>5 DEF Known, Prompts
  <2>7. job' = [job EXCEPT ![s] = j] /\ answer' = None
    BY <1>2, <2>a, <2>b DEF Proceed, Imagine
  <2>8. j \in Job  BY <2>2, <2>3, <2>b DEF Idle, Job, Told, Event
  <2>9. JobOK(j)'
    <3>1. j.pc = "image" /\ j.record = record /\ j.prompt = r.id  BY <2>b DEF Idle
    <3>. QED  BY <2>2, <2>3, <2>6, <3>1 DEF JobOK
  <2>10. AnswerNamesStored' /\ AnsweredIsLinked'
    BY <2>7 DEF AnswerNamesStored, AnsweredIsLinked
  <2>. QED  BY <1>1, <2>7, <2>8, <2>9, <2>10, StepKept
<1>3. CASE job[s].row.type = "RenderManifest"
  <2>1. /\ ManifestRow(job[s].row) /\ job[s].told = job[s].row.payload.asset
        /\ job[s].prompt = job[s].row.payload.prompt_ref /\ EventTrue(job[s])
    BY <1>1, <1>3 DEF Ready, PromptRow, QuoteRow
  <2>a. PICK j : j = [job[s] EXCEPT !.pc = "link", !.row = r]  OBVIOUS
  <2>2. job[s].prompt \in Id  BY <2>1 DEF ManifestRow, RenderManifest
  <2>3. job' = [job EXCEPT ![s] = j] /\ answer' = None
    BY <1>1, <1>3, <2>a DEF Proceed
  <2>4. j \in Job  BY <1>1, <2>a DEF Job
  <2>5. JobOK(j)'
    <3>1. /\ j.pc = "link" /\ j.row = r /\ j.prompt = job[s].prompt
          /\ j.told = job[s].told /\ j.event = job[s].event
      BY <1>1, <2>a DEF Job
    <3>2. ManifestRow(r)' /\ r.payload.asset = j.told  BY <2>1, <3>1
    <3>3. EventTrue(j)  BY <2>1, <3>1 DEF EventTrue
    <3>. QED  BY <2>2, <3>1, <3>2, <3>3 DEF JobOK, EventTrue
  <2>6. AnswerNamesStored' /\ AnsweredIsLinked'
    BY <2>3 DEF AnswerNamesStored, AnsweredIsLinked
  <2>. QED  BY <1>1, <2>3, <2>4, <2>5, <2>6, StepKept
<1>4. CASE job[s].row.type = "SupplierQuoteSet"
  <2>1. /\ QuoteRow(job[s].row) /\ job[s].told = job[s].row.payload.document
        /\ job[s].event = "accepted"
    BY <1>1, <1>4 DEF Ready, PromptRow, ManifestRow
  <2>2. /\ job' = [job EXCEPT ![s] = Idle]
        /\ answer' = [ref |-> RefOf(r), prompt |-> job[s].prompt, told |-> job[s].told,
                      event |-> job[s].event]
    BY <1>4 DEF Proceed, Give
  <2>3. RefOf(r) \in Ref  BY DEF RefOf, Ref, Row
  <2>4. answer' \in Answer  BY <1>1, <2>2, <2>3 DEF Answer, Job
  <2>5. QuoteRow(r)' /\ r.payload.document = job[s].told  BY <2>1
  <2>6. r.type = "SupplierQuoteSet"  BY <2>5 DEF QuoteRow
  <2>7. answer'.ref = RefOf(r) /\ answer'.told = job[s].told /\ answer'.event = "accepted"
    BY <2>1, <2>2
  <2>8. AnswerNamesStored'  BY <2>5, <2>6, <2>7 DEF AnswerNamesStored, RefOf
  <2>9. AnsweredIsLinked'  BY <2>7 DEF AnsweredIsLinked
  <2>10. JobOK(Idle)'  BY DEF JobOK, Idle
  <2>. QED  BY <1>1, <2>2, <2>4, <2>8, <2>9, <2>10, IdleJob, StepKept
<1>. QED  BY <1>2, <1>3, <1>4 DEF Proceed

LEMMA CommitReplayKept ==
  ASSUME IInv, NEW s \in Server, CommitReplay(s)
  PROVE  IInv'
<1>1. PICK r \in rows : r.key = job[s].row.key /\ Proceed(s, r)  BY DEF CommitReplay
<1>2. UNCHANGED <<rows, revision, edges>> /\ job[s].pc = "commit"  BY DEF CommitReplay
<1>3. /\ PromptRow(job[s].row) => PromptRow(r)
            /\ r.payload.prompt_id = job[s].row.payload.prompt_id
      /\ ManifestRow(job[s].row) => ManifestRow(r)
            /\ r.payload.asset = job[s].row.payload.asset
      /\ QuoteRow(job[s].row) => QuoteRow(r)
            /\ r.payload.document = job[s].row.payload.document
  BY <1>1, SameKind DEF IInv
<1>4. (PromptRow(r) => PromptRow(r)') /\ (QuoteRow(r) => QuoteRow(r)')
      /\ (ManifestRow(r) => ManifestRow(r)')
  BY <1>2, KnownKept DEF PromptRow, QuoteRow
<1>5. RowInv'  BY <1>2, KnownKept DEF IInv, RowInv, PromptRow, QuoteRow
<1>6. r \in Row /\ rows' \subseteq Row /\ revision' \in Nat  BY <1>2 DEF IInv, TypeOK
<1>7. /\ PromptRow(job[s].row) => PromptRow(r)'
            /\ r.payload.prompt_id = job[s].row.payload.prompt_id
      /\ ManifestRow(job[s].row) => ManifestRow(r)'
            /\ r.payload.asset = job[s].row.payload.asset
      /\ QuoteRow(job[s].row) => QuoteRow(r)'
            /\ r.payload.document = job[s].row.payload.document
  BY <1>3, <1>4
<1>. QED  BY <1>1, <1>2, <1>5, <1>6, <1>7, ProceedKept

LEMMA CommitInsertKept ==
  ASSUME IInv, NEW s \in Server, CommitInsert(s)
  PROVE  IInv'
<1>1. PICK r : r = job[s].row  OBVIOUS
<1>2. job[s].pc = "commit" /\ Ready(job[s])  BY DEF CommitInsert, IInv, JobInv, JobOK
<1>3. /\ rows' = rows \cup {r} /\ revision' = revision + 1 /\ edges' = edges /\ Proceed(s, r)
  BY <1>1 DEF CommitInsert
<1>4. r \in Row /\ (PromptRow(r) \/ ManifestRow(r) \/ QuoteRow(r))  BY <1>1, <1>2 DEF Ready
<1>5. /\ PromptRow(r) => PromptRow(r)'
      /\ ManifestRow(r) => ManifestRow(r)'
      /\ QuoteRow(r) => QuoteRow(r)'
  BY <1>3, KnownKept DEF PromptRow, QuoteRow
<1>6. RowInv'
  <2>1. ASSUME NEW q \in rows'
        PROVE  (PromptRow(q) \/ ManifestRow(q) \/ QuoteRow(q) \/ q \in PipelineRow)'
    <3>1. CASE q \in rows
      <4>1. PromptRow(q) \/ ManifestRow(q) \/ QuoteRow(q) \/ q \in PipelineRow
        BY <3>1 DEF IInv, RowInv
      <4>2. ManifestRow(q) => ManifestRow(q)'  BY <1>3, KnownKept
      <4>. QED  BY <4>1, <4>2 DEF PromptRow, QuoteRow
    <3>2. CASE q = r  BY <1>4, <1>5, <3>2
    <3>. QED  BY <1>3, <3>1, <3>2
  <2>. QED  BY <2>1 DEF RowInv
<1>7. rows' \subseteq Row /\ revision' \in Nat /\ r \in rows' /\ rows \subseteq rows'
  BY <1>3, <1>4 DEF IInv, TypeOK
<1>8. /\ PromptRow(job[s].row) => PromptRow(r)'
            /\ r.payload.prompt_id = job[s].row.payload.prompt_id
      /\ ManifestRow(job[s].row) => ManifestRow(r)'
            /\ r.payload.asset = job[s].row.payload.asset
      /\ QuoteRow(job[s].row) => QuoteRow(r)'
            /\ r.payload.document = job[s].row.payload.document
  BY <1>1, <1>5
<1>. QED  BY <1>2, <1>3, <1>4, <1>6, <1>7, <1>8, ProceedKept

LEMMA LinkKept ==
  ASSUME IInv, NEW s \in Server, Link(s)
  PROVE  IInv'
<1>1. /\ job[s] \in Job /\ job[s].row \in rows /\ ManifestRow(job[s].row)
      /\ job[s].told = job[s].row.payload.asset /\ EventTrue(job[s]) /\ job[s].prompt \in Id
  BY DEF Link, IInv, TypeOK, JobInv, JobOK
<1>2. PICK r \in rows : r = job[s].row  BY <1>1
<1>3. /\ edges' = edges \cup {<<job[s].prompt, RefOf(r)>>} /\ UNCHANGED <<rows, revision>>
      /\ job' = [job EXCEPT ![s] = Idle]
      /\ answer' = [ref |-> RefOf(r), prompt |-> job[s].prompt, told |-> job[s].told,
                    event |-> job[s].event]
  BY <1>2 DEF Link, EdgeAdded, Give
<1>4. RefOf(r) \in Ref  BY DEF RefOf, Ref, Row, IInv, TypeOK
<1>5. edges' \subseteq Id \X Ref  BY <1>1, <1>3, <1>4 DEF IInv, TypeOK
<1>6. answer' \in Answer  BY <1>1, <1>3, <1>4 DEF Answer, Job
<1>7. /\ answer'.ref = RefOf(r) /\ answer'.prompt = job[s].prompt
      /\ answer'.told = job[s].told /\ answer'.event = job[s].event
  BY <1>3
<1>8. AnswerNamesStored'
  <2>1. r.type = "RenderManifest" /\ r.payload.asset = answer'.told
    BY <1>1, <1>2, <1>7 DEF ManifestRow
  <2>2. answer'.event # "accepted"
        /\ (answer'.event = "IMAGE_GENERATED" <=> answer'.told[2] \in Online)
    BY <1>1, <1>7 DEF EventTrue
  <2>. QED  BY <1>3, <1>7, <2>1, <2>2 DEF AnswerNamesStored, RefOf
<1>9. AnsweredIsLinked'  BY <1>3, <1>7 DEF AnsweredIsLinked
<1>10. RowInv'  BY <1>3, KnownKept DEF IInv, RowInv, PromptRow, QuoteRow
<1>11. JobOK(Idle)'  BY DEF JobOK, Idle
<1>. QED  BY <1>3, <1>5, <1>6, <1>8, <1>9, <1>10, <1>11, IdleJob, StepKept DEF IInv, TypeOK

LEMMA PipelineCommitKept ==
  ASSUME IInv, NEW r \in PipelineRow, PipelineCommit(r)
  PROVE  IInv'
<1>1. rows' = rows \cup {r} /\ revision' = revision + 1 /\ answer' = None
      /\ UNCHANGED <<edges, job>>
  BY DEF PipelineCommit
<1>2. TypeOK'  BY <1>1, PipelineAssumption DEF IInv, TypeOK
<1>3. RowInv'
  <2>1. ASSUME NEW q \in rows'
        PROVE  (PromptRow(q) \/ ManifestRow(q) \/ QuoteRow(q) \/ q \in PipelineRow)'
    <3>1. CASE q \in rows
      <4>1. PromptRow(q) \/ ManifestRow(q) \/ QuoteRow(q) \/ q \in PipelineRow
        BY <3>1 DEF IInv, RowInv
      <4>2. ManifestRow(q) => ManifestRow(q)'  BY <1>1, KnownKept
      <4>. QED  BY <4>1, <4>2 DEF PromptRow, QuoteRow
    <3>. QED  BY <1>1, <3>1
  <2>. QED  BY <2>1 DEF RowInv
<1>4. ASSUME NEW u \in Server  PROVE JobOK(job[u])'
  <2>1. PICK j : j = job[u]  OBVIOUS
  <2>2. JobOK(j)'  BY <1>1, <2>1, JobKept DEF IInv, JobInv
  <2>. QED  BY <1>1, <2>1, <2>2
<1>5. JobInv'  BY <1>4 DEF JobInv
<1>6. AnswerNamesStored' /\ AnsweredIsLinked'
  BY <1>1 DEF AnswerNamesStored, AnsweredIsLinked
<1>. QED  BY <1>2, <1>3, <1>5, <1>6 DEF IInv

LEMMA StutterKept == ASSUME IInv, UNCHANGED vars PROVE IInv'
<1>1. UNCHANGED <<rows, revision, edges, job, answer>>  BY DEF vars
<1>2. RowInv'  BY <1>1, KnownKept DEF IInv, RowInv, PromptRow, QuoteRow
<1>3. ASSUME NEW u \in Server  PROVE JobOK(job[u])'
  <2>1. PICK j : j = job[u]  OBVIOUS
  <2>2. JobOK(j)'  BY <1>1, <2>1, JobKept DEF IInv, JobInv
  <2>. QED  BY <1>1, <2>1, <2>2
<1>4. TypeOK' /\ AnswerNamesStored' /\ AnsweredIsLinked'
  BY <1>1 DEF IInv, TypeOK, AnswerNamesStored, AnsweredIsLinked
<1>. QED  BY <1>2, <1>3, <1>4 DEF IInv, JobInv

LEMMA InitOK == Init => IInv
<1>. SUFFICES ASSUME Init PROVE IInv  OBVIOUS
<1>1. TypeOK  BY IdleJob DEF Init, TypeOK
<1>2. RowInv /\ JobInv  BY IdleJob DEF Init, RowInv, JobInv
<1>3. AnswerNamesStored /\ AnsweredIsLinked  BY DEF Init, AnswerNamesStored, AnsweredIsLinked
<1>. QED  BY <1>1, <1>2, <1>3 DEF IInv

LEMMA NextKept == ASSUME IInv, [Next]_vars PROVE IInv'
<1>1. ASSUME NEW s \in Server, ServerStep(s)  PROVE IInv'
  <2>1. CASE ImageGenerate(s)
    BY <2>1, AskByConceptKept, AskWithPayloadKept, ImageKept, LinkKept DEF ImageGenerate
  <2>2. CASE \E q \in QuoteSet, official \in BOOLEAN : ImportQuotes(s, q, official)
    BY <2>2, ImportKept
  <2>3. CASE ReadRevision(s)  BY <2>3, ReadRevisionKept
  <2>4. CASE CommitReplay(s)  BY <2>4, CommitReplayKept
  <2>5. CASE CommitInsert(s)  BY <2>5, CommitInsertKept
  <2>6. CASE Fail(s)  BY <2>6, FailKept
  <2>. QED  BY <1>1, <2>1, <2>2, <2>3, <2>4, <2>5, <2>6 DEF ServerStep
<1>2. ASSUME NEW r \in PipelineRow, PipelineCommit(r)  PROVE IInv'  BY <1>2, PipelineCommitKept
<1>3. CASE UNCHANGED vars  BY <1>3, StutterKept
<1>. QED  BY <1>1, <1>2, <1>3 DEF Next

-----------------------------------------------------------------------------

THEOREM Invariance == Spec => []IInv
<1>. QED  BY InitOK, NextKept, PTL DEF Spec

\* The rows, the edges and what every server is doing keep their types.
THEOREM TypeCorrect == Spec => []TypeOK
<1>1. IInv => TypeOK  BY DEF IInv
<1>. QED  BY <1>1, Invariance, PTL

\* Every answer of image_generate and of rfq_import_response tells the truth
\* about the row that it names, whatever was replayed, retried or raced.
THEOREM AnswersStored == Spec => []AnswerNamesStored
<1>1. IInv => AnswerNamesStored  BY DEF IInv
<1>. QED  BY <1>1, Invariance, PTL

\* Every answer of image_generate finds its edge in the graph.
THEOREM AnswersLinked == Spec => []AnsweredIsLinked
<1>1. IInv => AnsweredIsLinked  BY DEF IInv
<1>. QED  BY <1>1, Invariance, PTL

\* Every manifest of image_generate rests on a stored prompt with its prompt_id.
THEOREM PromptsStored == Spec => []ManifestsRestOnPrompts
<1>1. IInv => ManifestsRestOnPrompts
  <2>. SUFFICES ASSUME IInv, NEW r \in rows, r.key[1] = "render-manifest"
                PROVE  \E p \in Prompts : p.id = r.payload.prompt_ref
                                          /\ p.payload.prompt_id = r.key[2]
    BY DEF ManifestsRestOnPrompts
  <2>1. ManifestRow(r)  BY KeyKinds DEF IInv, RowInv
  <2>2. PICK n \in Name : r.key = <<"render-manifest", n, r.payload.asset>>
                            /\ Known(r.payload.prompt_ref, n)
    BY <2>1 DEF ManifestRow
  <2>. QED  BY <2>2 DEF Known
<1>. QED  BY <1>1, Invariance, PTL

-----------------------------------------------------------------------------
\* The tools implement the ledger.

KeysOnce == \A r, q \in rows : r.key = q.key => r = q

\* The versions of an artifact have no gap.
Dense == \A r \in rows : \A v \in 1 .. r.version : \E q \in rows : q.id = r.id /\ q.version = v

\* What is about to be committed comes after a version that is there.
Follows(q) == q.version = 1 \/ \E r \in rows : r.id = q.id /\ r.version = q.version - 1

JobFollows == \A s \in Server : job[s].pc \in {"revision", "commit"} => Follows(job[s].row)

LedgerInv == KeysOnce /\ Dense /\ JobFollows

LEMMA FollowsKept ==
  ASSUME rows \subseteq rows', NEW q, Follows(q)
  PROVE  Follows(q)'
BY DEF Follows

\* A new row that follows and is not there yet leaves no gap.
LEMMA DenseKept ==
  ASSUME TypeOK, Dense, NEW r \in Row, Follows(r), rows' = rows \cup {r}
  PROVE  Dense'
<1>1. SUFFICES ASSUME NEW q \in rows', NEW v \in 1 .. q.version
               PROVE  \E u \in rows' : u.id = q.id /\ u.version = v
  BY DEF Dense
<1>2. CASE q \in rows  BY <1>2 DEF Dense
<1>3. CASE q = r /\ v = r.version  BY <1>3
<1>4. CASE q = r /\ v # r.version
  <2>1. r.version \in Nat /\ r.version >= 1  BY DEF Row, Version
  <2>2. v \in 1 .. (r.version - 1) /\ r.version # 1  BY <1>4, <2>1
  <2>3. PICK u \in rows : u.id = r.id /\ u.version = r.version - 1  BY <2>2 DEF Follows
  <2>4. v \in 1 .. u.version  BY <2>2, <2>3
  <2>5. PICK w \in rows : w.id = u.id /\ w.version = v  BY <2>3, <2>4 DEF Dense
  <2>. QED  BY <1>4, <2>3, <2>5
<1>. QED  BY <1>2, <1>3, <1>4

\* Every version of its artifact is older than a new row.
LEMMA NewIsNewest ==
  ASSUME TypeOK, Dense, NEW r \in Row, \A q \in rows : RefOf(q) # RefOf(r),
         NEW q \in rows, q.id = r.id
  PROVE  q.version < r.version
<1>1. q.version \in Nat /\ r.version \in Nat /\ r.version >= 1  BY DEF TypeOK, Row, Version
<1>2. SUFFICES ASSUME q.version >= r.version PROVE FALSE  BY <1>1
<1>3. r.version \in 1 .. q.version  BY <1>1, <1>2
<1>4. PICK u \in rows : u.id = q.id /\ u.version = r.version  BY <1>3 DEF Dense
<1>. QED  BY <1>4 DEF RefOf

LEMMA EnvelopeMade ==
  ASSUME NEW r \in Row, PromptRow(r) \/ ManifestRow(r) \/ QuoteRow(r) \/ r \in PipelineRow
  PROVE  Envelope(r.id, r.key, r.refs) \in Envelopes
<1>1. ASSUME PromptRow(r)  PROVE Envelope(r.id, r.key, r.refs) \in PromptEnvelopes
  BY <1>1 DEF PromptRow, PromptEnvelopes
<1>2. ASSUME ManifestRow(r)  PROVE Envelope(r.id, r.key, r.refs) \in ManifestEnvelopes
  <2>1. PICK i \in Image, p \in Id : i = r.payload.asset /\ p = r.payload.prompt_ref
    BY <1>2 DEF ManifestRow, RenderManifest
  <2>2. PICK n \in Name : r.key = <<"render-manifest", n, i>>  BY <1>2, <2>1 DEF ManifestRow
  <2>3. r.id = AgentRender(i[1]) /\ r.refs = {p}  BY <1>2, <2>1 DEF ManifestRow
  <2>4. Envelope(r.id, r.key, r.refs) = ManifestEnvelope(i, n, p)
    BY <2>2, <2>3, Zenon DEF ManifestEnvelope
  <2>. QED  BY <2>4 DEF ManifestEnvelopes
<1>3. ASSUME QuoteRow(r)  PROVE Envelope(r.id, r.key, r.refs) \in QuoteEnvelopes
  <2>1. PICK n \in Name, d \in Document, p \in Id :
          n = r.payload.quote_set_id /\ d = r.payload.document /\ p = r.payload.rfq_ref
    BY <1>3 DEF QuoteRow, SupplierQuoteSet
  <2>2. r.id = Given(n) /\ r.key = <<"rfq-import", n, d>> /\ r.refs = {p}
    BY <1>3, <2>1 DEF QuoteRow
  <2>3. Envelope(r.id, r.key, r.refs) = QuoteEnvelope(n, d, p)
    BY <2>2, Zenon DEF QuoteEnvelope
  <2>. QED  BY <2>3 DEF QuoteEnvelopes
<1>4. ASSUME r \in PipelineRow  PROVE Envelope(r.id, r.key, r.refs) \in PipelineEnvelopes
  BY <1>4 DEF PipelineEnvelopes
<1>. QED  BY <1>1, <1>2, <1>3, <1>4 DEF Envelopes

\* A commit is one append.
LEMMA CommitAppends ==
  ASSUME TypeOK, LedgerInv, NEW r \in Row, Follows(r),
         PromptRow(r) \/ ManifestRow(r) \/ QuoteRow(r) \/ r \in PipelineRow,
         \A q \in rows : q.key # r.key /\ RefOf(q) # RefOf(r),
         \A a \in r.refs : Stored(a),
         rows' = rows \cup {r}, revision' = revision + 1
  PROVE  Ledger!Next
<1>. DEFINE k == Envelope(r.id, r.key, r.refs)
<1>1. k \in Envelopes  BY EnvelopeMade
<1>2. k.id = r.id /\ k.key = r.key /\ k.refs = r.refs /\ k.project = "project"  BY DEF Envelope
<1>3. r.version \in Version  BY DEF Row
<1>4. \A q \in rows : Entry(q).call.key = q.key /\ Entry(q).id = q.id
                       /\ Entry(q).version = q.version
  BY DEF Entry, Envelope
<1>5. Ledger!Append(k, r.version)
  <2>1. \A e \in {Entry(q) : q \in rows} : e.call.key # k.key  BY <1>2, <1>4
  <2>2. \A e \in {Entry(q) : q \in rows} : e.id = k.id => e.version < r.version
    BY <1>2, <1>4, NewIsNewest DEF LedgerInv
  <2>3. r.version = 1 \/ \E e \in {Entry(q) : q \in rows} :
                          e.id = k.id /\ e.version = r.version - 1
    BY <1>2, <1>4 DEF Follows
  <2>4. \A a \in k.refs : \E e \in {Entry(q) : q \in rows} : e.id = a
    BY <1>2, <1>4 DEF Stored
  <2>5. {Entry(q) : q \in rows'}
          = {Entry(q) : q \in rows} \cup {[id |-> k.id, version |-> r.version, call |-> k]}
    BY <1>2 DEF Entry
  <2>6. [p \in {"project"} |-> revision']
          = [[p \in {"project"} |-> revision] EXCEPT ![k.project] = @ + 1]
    BY <1>2
  <2>7. {[key |-> q.key, ref |-> RefOf(q)] : q \in rows'}
          = {[key |-> q.key, ref |-> RefOf(q)] : q \in rows}
              \cup {[key |-> k.key, ref |-> [id |-> k.id, version |-> r.version]]}
    BY <1>2 DEF RefOf
  <2>. HIDE DEF k
  <2>. QED  BY <2>1, <2>2, <2>3, <2>4, <2>5, <2>6, <2>7 DEF Ledger!Append
<1>. HIDE DEF k
<1>. QED  BY <1>1, <1>3, <1>5 DEF Ledger!Next

\* Where the rows stay, so does the ledger, and the jobs keep their place when
\* those that are about to commit had it before or have just been given it.
LEMMA RowsStay ==
  ASSUME LedgerInv, UNCHANGED <<rows, revision>>, NEW s, NEW j,
         job \in [Server -> Job], job' = [job EXCEPT ![s] = j],
         j.pc \in {"revision", "commit"} => Follows(j.row)
  PROVE  LedgerInv' /\ UNCHANGED Ledger!vars
<1>1. KeysOnce' /\ Dense'  BY DEF LedgerInv, KeysOnce, Dense
<1>2. JobFollows'
  <2>. SUFFICES ASSUME NEW u \in Server, (job[u].pc \in {"revision", "commit"})'
                PROVE  Follows(job[u].row)'
    BY DEF JobFollows
  <2>1. PICK q : q = job'[u].row  OBVIOUS
  <2>2. Follows(q)
    <3>1. CASE u = s  BY <2>1, <3>1
    <3>2. CASE u # s  BY <2>1, <3>2 DEF LedgerInv, JobFollows
    <3>. QED  BY <3>1, <3>2
  <2>. QED  BY <2>1, <2>2, FollowsKept
<1>3. {Entry(r) : r \in rows'} = {Entry(r) : r \in rows}  OBVIOUS
<1>4. [p \in {"project"} |-> revision'] = [p \in {"project"} |-> revision]  OBVIOUS
<1>5. {[key |-> r.key, ref |-> RefOf(r)] : r \in rows'} = {[key |-> r.key, ref |-> RefOf(r)] : r \in rows}
  OBVIOUS
<1>. QED  BY <1>1, <1>2, <1>3, <1>4, <1>5 DEF LedgerInv, Ledger!vars

\* A job that a proceeding server is given is not about to commit.
LEMMA ProceedsIdle ==
  ASSUME NEW s \in Server, job \in [Server -> Job], NEW r, Proceed(s, r)
  PROVE  \E j : job' = [job EXCEPT ![s] = j] /\ j.pc \notin {"revision", "commit"}
<1>1. CASE job' = [job EXCEPT ![s] = Idle]
  <2>1. Idle.pc = "idle"  BY DEF Idle
  <2>. QED  BY <1>1, <2>1
<1>2. CASE job' = [job EXCEPT ![s].pc = "link", ![s].row = r]
  <2>1. PICK j : j = [job[s] EXCEPT !.pc = "link", !.row = r]  OBVIOUS
  <2>2. job' = [job EXCEPT ![s] = j]  BY <1>2, <2>1
  <2>3. j.pc = "link"  BY <2>1 DEF Job
  <2>. QED  BY <2>2, <2>3
<1>3. CASE Imagine(s, job[s].record, r.id)
  <2>1. PICK j : j = [Idle EXCEPT !.pc = "image", !.record = job[s].record, !.prompt = r.id]
    OBVIOUS
  <2>2. job' = [job EXCEPT ![s] = j]  BY <1>3, <2>1 DEF Imagine
  <2>3. j.pc = "image"  BY <2>1 DEF Idle
  <2>. QED  BY <2>2, <2>3
<1>. QED  BY <1>1, <1>2, <1>3 DEF Proceed

LEMMA NextVersionFollows ==
  ASSUME TypeOK, NEW q, q.version \in NextVersion(q.id)
  PROVE  Follows(q)
BY DEF NextVersion, Latest, Follows, TypeOK, Row, Version

\* The steps of a server that commit nothing.
LEMMA ServerReads ==
  ASSUME IInv, LedgerInv, NEW s \in Server, ServerStep(s), ~CommitInsert(s)
  PROVE  LedgerInv' /\ UNCHANGED Ledger!vars
<1>1. job \in [Server -> Job] /\ TypeOK  BY DEF IInv, TypeOK
<1>2. ASSUME NEW record, NEW p, Imagine(s, record, p), UNCHANGED <<rows, revision>>
      PROVE  LedgerInv' /\ UNCHANGED Ledger!vars
  <2>1. [Idle EXCEPT !.pc = "image", !.record = record, !.prompt = p].pc = "image"  BY DEF Idle
  <2>. QED  BY <1>1, <1>2, <2>1, RowsStay DEF Imagine
<1>3. CASE \E c \in Concept : AskByConcept(s, c)  BY <1>2, <1>3 DEF AskByConcept
<1>4. CASE \E r \in Record : AskWithPayload(s, r)
  <2>1. PICK record \in Record : AskWithPayload(s, record)  BY <1>4
  <2>. DEFINE row == [id |-> AgentPrompt(record.prompt_id), version |-> 1,
                      key |-> PromptKey(record), refs |-> record.refs,
                      type |-> "RenderPromptRecord", payload |-> record]
              j == [Idle EXCEPT !.pc = "revision", !.record = record, !.row = row]
  <2>2. UNCHANGED <<rows, revision>>  BY <2>1 DEF AskWithPayload
  <2>3. CASE \E r \in Prompts : Imagine(s, record, r.id)  BY <1>2, <2>2, <2>3
  <2>4. CASE job' = [job EXCEPT ![s] = j]
    <3>1. j.row.version = 1  BY DEF Idle
    <3>2. Follows(j.row)  BY <3>1 DEF Follows
    <3>. HIDE DEF j
    <3>. QED  BY <1>1, <2>2, <2>4, <3>2, RowsStay
  <2>. QED  BY <2>1, <2>3, <2>4 DEF AskWithPayload
<1>5. ASSUME NEW image, NEW event, Compose(s, image, event)
      PROVE  LedgerInv' /\ UNCHANGED Ledger!vars
  <2>. DEFINE record == job[s].record
              id == AgentRender(record.concept)
              row(v) == [id |-> id, version |-> v, key |-> ManifestKey(record, image),
                         refs |-> {job[s].prompt}, type |-> "RenderManifest",
                         payload |-> [prompt_ref |-> job[s].prompt, asset |-> image,
                                      spec |-> record.spec]]
              j(v) == [job[s] EXCEPT !.pc = "revision", !.record = None, !.told = image,
                                     !.event = event, !.row = row(v)]
  <2>1. PICK v \in NextVersion(id) :
          job' = [job EXCEPT ![s].pc = "revision", ![s].record = None, ![s].told = image,
                             ![s].event = event, ![s].row = row(v)]
    BY <1>5 DEF Compose
  <2>2. Follows(row(v))  BY <1>1, NextVersionFollows
  <2>. HIDE DEF row
  <2>3. job' = [job EXCEPT ![s] = j(v)]  BY <1>1, <2>1
  <2>4. j(v).row = row(v)  BY <1>1 DEF Job
  <2>. HIDE DEF j
  <2>5. UNCHANGED <<rows, revision>>  BY <1>5 DEF Compose
  <2>. QED  BY <1>1, <2>2, <2>3, <2>4, <2>5, RowsStay
<1>6. CASE Generated(s) \/ Replayed(s)  BY <1>5, <1>6 DEF Generated, Replayed
<1>7. ASSUME job' = [job EXCEPT ![s] = Idle], UNCHANGED <<rows, revision>>
      PROVE  LedgerInv' /\ UNCHANGED Ledger!vars
  <2>1. Idle.pc = "idle"  BY DEF Idle
  <2>. QED  BY <1>1, <1>7, <2>1, RowsStay
<1>8. CASE Link(s)  BY <1>7, <1>8 DEF Link
<1>9. CASE Fail(s)  BY <1>7, <1>9 DEF Fail
<1>10. CASE \E q \in QuoteSet, official \in BOOLEAN : ImportQuotes(s, q, official)
  <2>1. PICK q \in QuoteSet, official \in BOOLEAN : ImportQuotes(s, q, official)  BY <1>10
  <2>. DEFINE quotes == q.quotes
              j == [Idle EXCEPT !.pc = "revision", !.told = quotes.document,
                                !.event = "accepted",
                                !.row = [id |-> Given(quotes.quote_set_id), version |-> 1,
                                         key |-> <<"rfq-import", quotes.quote_set_id,
                                                   quotes.document>>,
                                         refs |-> {quotes.rfq_ref},
                                         type |-> "SupplierQuoteSet", payload |-> quotes]]
  <2>2. j.row.version = 1  BY DEF Idle
  <2>3. Follows(j.row)  BY <2>2 DEF Follows
  <2>4. job' = [job EXCEPT ![s] = j] /\ UNCHANGED <<rows, revision>>  BY <2>1 DEF ImportQuotes
  <2>. HIDE DEF j
  <2>. QED  BY <1>1, <2>3, <2>4, RowsStay
<1>11. CASE ReadRevision(s)
  <2>1. Follows(job[s].row)  BY <1>11 DEF ReadRevision, LedgerInv, JobFollows
  <2>. DEFINE j == [job[s] EXCEPT !.pc = "commit", !.expected = revision]
  <2>2. job' = [job EXCEPT ![s] = j] /\ UNCHANGED <<rows, revision>>
    BY <1>1, <1>11 DEF ReadRevision
  <2>3. j.row = job[s].row  BY <1>1 DEF Job
  <2>. HIDE DEF j
  <2>. QED  BY <1>1, <2>1, <2>2, <2>3, RowsStay
<1>12. CASE CommitReplay(s)
  <2>1. PICK r \in rows : Proceed(s, r)  BY <1>12 DEF CommitReplay
  <2>2. UNCHANGED <<rows, revision>>  BY <1>12 DEF CommitReplay
  <2>3. PICK j : job' = [job EXCEPT ![s] = j] /\ j.pc \notin {"revision", "commit"}
    BY <1>1, <2>1, ProceedsIdle
  <2>. QED  BY <1>1, <2>2, <2>3, RowsStay
<1>. QED
  BY <1>3, <1>4, <1>6, <1>8, <1>9, <1>10, <1>11, <1>12 DEF ServerStep, ImageGenerate

\* The steps that store a row.
LEMMA RowStored ==
  ASSUME IInv, LedgerInv, NEW r \in Row, Follows(r),
         PromptRow(r) \/ ManifestRow(r) \/ QuoteRow(r) \/ r \in PipelineRow,
         \A q \in rows : q.key # r.key /\ RefOf(q) # RefOf(r),
         \A a \in r.refs : Stored(a),
         rows' = rows \cup {r}, revision' = revision + 1,
         \A s \in Server : job'[s].pc \in {"revision", "commit"} => job'[s] = job[s]
  PROVE  LedgerInv' /\ Ledger!Next
<1>1. Ledger!Next  BY CommitAppends DEF IInv
<1>2. KeysOnce'  BY DEF LedgerInv, KeysOnce
<1>3. Dense'  BY DenseKept DEF IInv, LedgerInv
<1>4. JobFollows'
  <2>. SUFFICES ASSUME NEW u \in Server, (job[u].pc \in {"revision", "commit"})'
                PROVE  Follows(job[u].row)'
    BY DEF JobFollows
  <2>1. PICK q : q = job'[u].row  OBVIOUS
  <2>2. Follows(q)  BY <2>1 DEF LedgerInv, JobFollows
  <2>. QED  BY <2>1, <2>2, FollowsKept
<1>. QED  BY <1>1, <1>2, <1>3, <1>4 DEF LedgerInv

LEMMA CommitInsertStores ==
  ASSUME IInv, LedgerInv, NEW s \in Server, CommitInsert(s)
  PROVE  LedgerInv' /\ Ledger!Next
<1>1. PICK r : r = job[s].row  OBVIOUS
<1>2. job[s].pc = "commit" /\ Ready(job[s]) /\ job \in [Server -> Job]
  BY DEF CommitInsert, IInv, TypeOK, JobInv, JobOK
<1>3. /\ rows' = rows \cup {r} /\ revision' = revision + 1 /\ Proceed(s, r)
      /\ \A q \in rows : q.key # r.key /\ RefOf(q) # RefOf(r)
      /\ \A a \in r.refs : Stored(a)
  BY <1>1 DEF CommitInsert
<1>4. r \in Row /\ (PromptRow(r) \/ ManifestRow(r) \/ QuoteRow(r))  BY <1>1, <1>2 DEF Ready
<1>5. Follows(r)  BY <1>1, <1>2 DEF LedgerInv, JobFollows
<1>6. PICK j : job' = [job EXCEPT ![s] = j] /\ j.pc \notin {"revision", "commit"}
  BY <1>2, <1>3, ProceedsIdle
<1>7. \A u \in Server : job'[u].pc \in {"revision", "commit"} => job'[u] = job[u]
  BY <1>2, <1>6
<1>. QED  BY <1>3, <1>4, <1>5, <1>7, RowStored

LEMMA PipelineStores ==
  ASSUME IInv, LedgerInv, NEW r \in PipelineRow, PipelineCommit(r)
  PROVE  LedgerInv' /\ Ledger!Next
<1>1. r \in Row /\ Follows(r)  BY PipelineAssumption DEF Follows
<1>. QED  BY <1>1, RowStored DEF PipelineCommit

LEMMA LedgerInit == Init => LedgerInv /\ Ledger!Init
<1>. SUFFICES ASSUME Init PROVE LedgerInv /\ Ledger!Init  OBVIOUS
<1>1. Idle.pc = "idle"  BY DEF Idle
<1>2. LedgerInv  BY <1>1 DEF Init, LedgerInv, KeysOnce, Dense, JobFollows
<1>3. /\ {Entry(r) : r \in rows} = {}
      /\ {[key |-> r.key, ref |-> RefOf(r)] : r \in rows} = {}
      /\ [p \in {"project"} |-> revision] = [p \in {"project"} |-> 0]
  BY DEF Init
<1>. QED  BY <1>2, <1>3 DEF Ledger!Init

LEMMA LedgerStep ==
  ASSUME IInv, LedgerInv, [Next]_vars
  PROVE  LedgerInv' /\ [Ledger!Next]_(Ledger!vars)
<1>1. ASSUME NEW s \in Server, ServerStep(s)
      PROVE  LedgerInv' /\ [Ledger!Next]_(Ledger!vars)
  BY <1>1, ServerReads, CommitInsertStores
<1>2. ASSUME NEW r \in PipelineRow, PipelineCommit(r)
      PROVE  LedgerInv' /\ [Ledger!Next]_(Ledger!vars)
  BY <1>2, PipelineStores
<1>3. CASE UNCHANGED vars
  <2>1. job \in [Server -> Job] /\ UNCHANGED <<rows, revision, job>>
    BY <1>3 DEF vars, IInv, TypeOK
  <2>2. KeysOnce' /\ Dense'  BY <2>1 DEF LedgerInv, KeysOnce, Dense
  <2>3. JobFollows'
    <3>. SUFFICES ASSUME NEW u \in Server, (job[u].pc \in {"revision", "commit"})'
                  PROVE  Follows(job[u].row)'
      BY DEF JobFollows
    <3>1. PICK q : q = job[u].row  OBVIOUS
    <3>2. Follows(q)  BY <2>1, <3>1 DEF LedgerInv, JobFollows
    <3>. QED  BY <2>1, <3>1, <3>2, FollowsKept
  <2>4. {Entry(r) : r \in rows'} = {Entry(r) : r \in rows}  BY <2>1
  <2>5. [p \in {"project"} |-> revision'] = [p \in {"project"} |-> revision]  BY <2>1
  <2>6. {[key |-> r.key, ref |-> RefOf(r)] : r \in rows'}
          = {[key |-> r.key, ref |-> RefOf(r)] : r \in rows}
    BY <2>1
  <2>. QED  BY <2>2, <2>3, <2>4, <2>5, <2>6 DEF LedgerInv, Ledger!vars
<1>. QED  BY <1>1, <1>2, <1>3 DEF Next

\* Every behaviour of the tools and of the pipelines beside them is one of the
\* append-only ledger that ArtifactStore implements: each call appends whole
\* versions, one after the other, with their keys, or nothing.
THEOREM ToolsKeepContract == Spec => ToolsImplementLedger
<1>1. Init => LedgerInv /\ Ledger!Init  BY LedgerInit
<1>2. IInv /\ LedgerInv /\ [Next]_vars => LedgerInv' /\ [Ledger!Next]_(Ledger!vars)
  BY LedgerStep
<1>. QED  BY <1>1, <1>2, Invariance, PTL DEF Spec, ToolsImplementLedger, Ledger!Spec

=============================================================================
