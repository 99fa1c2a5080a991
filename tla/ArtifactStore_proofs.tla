------------------------- MODULE ArtifactStore_proofs -------------------------
(***************************************************************************)
(* Proofs about the artifact store for any number of clients, artifacts,   *)
(* projects and calls.                                                     *)
(***************************************************************************)
EXTENDS ArtifactStore, FiniteSetTheorems, TLAPS

\* The choice of Init is a call.
LEMMA AnyCallIsCall == AnyCall \in Call
BY CallAssumption DEF AnyCall

\* The fields of a call have their types.
LEMMA CallFields ==
  ASSUME NEW k \in Call
  PROVE  /\ k.id \in ArtifactId
         /\ k.project \in Project
         /\ k.key \in Key
         /\ k.refs \subseteq ArtifactId
         /\ k.bump \in BOOLEAN
BY CallAssumption DEF CallType

\* Marking rows STALE keeps every row's version and envelope.
LEMMA SetStatusRows ==
  ASSUME NEW rows \in SUBSET Row, NEW ref
  PROVE  /\ SetStatus(rows, ref, "STALE") \subseteq Row
         /\ \A r \in rows : \E s \in SetStatus(rows, ref, "STALE") :
               /\ s.id = r.id /\ s.version = r.version /\ s.call = r.call
               /\ r.status = "STALE" => s.status = "STALE"
         /\ \A s \in SetStatus(rows, ref, "STALE") : \E r \in rows :
               /\ s.id = r.id /\ s.version = r.version /\ s.call = r.call
               /\ s = IF RefOf(r) = ref THEN [r EXCEPT !.status = "STALE"] ELSE r
<1> DEFINE S == SetStatus(rows, ref, "STALE")
           Upd(r) == IF RefOf(r) = ref THEN [r EXCEPT !.status = "STALE"] ELSE r
<1>1. ASSUME NEW r \in rows
      PROVE  /\ Upd(r) \in Row
             /\ Upd(r).id = r.id /\ Upd(r).version = r.version /\ Upd(r).call = r.call
             /\ r.status = "STALE" => Upd(r).status = "STALE"
  BY DEF Row
<1>2. S = {Upd(r) : r \in rows}
  BY DEF SetStatus
<1> HIDE DEF Upd
<1>3. /\ S \subseteq Row
      /\ \A r \in rows : Upd(r) \in S
      /\ \A s \in S : \E r \in rows : s = Upd(r)
  BY <1>1, <1>2
<1>4. QED
  BY <1>1, <1>3 DEF Upd

-----------------------------------------------------------------------------
\* Type correctness

THEOREM TypeCorrect == Spec => []TypeOK
<1>1. Init => TypeOK
  BY AnyCallIsCall, VersionAssumption DEF Init, TypeOK
<1>2. TypeOK /\ [Next]_vars => TypeOK'
  <2> SUFFICES ASSUME TypeOK, [Next]_vars PROVE TypeOK'
    OBVIOUS
  <2> USE DEF TypeOK
  <2>1. ASSUME NEW c \in Client, NEW k \in Call, ReadCurrent(c, k) PROVE TypeOK'
    BY <2>1, CallFields DEF ReadCurrent, tables, history
  <2>2. ASSUME NEW c \in Client, ReadRevision(c) PROVE TypeOK'
    <3>1. ProjectRefs(call[c].project) \in SUBSET Ref
      BY DEF ProjectRefs, RefOf, Row, Ref
    <3>2. revision[call[c].project] \in Nat
      BY CallFields
    <3>3. QED
      BY <2>2, <3>1, <3>2 DEF ReadRevision, tables
  <2>3. ASSUME NEW c \in Client, CommitReplay(c) PROVE TypeOK'
    <3>1. idempotency[call[c].key] \in Ref
      BY <2>3, CallFields DEF CommitReplay, Replayed
    <3>2. call[c].refs \in SUBSET ArtifactId /\ call[c].key \in Key
      BY CallFields
    <3>3. idempotency[call[c].key].version \in Version
      BY <3>1 DEF Ref
    <3>4. QED
      BY <2>3, <3>1, <3>2, <3>3 DEF CommitReplay, Answer, tables
  <2>4. ASSUME NEW c \in Client, CommitReject(c) \/ LinkDone(c) \/ Crash(c) PROVE TypeOK'
    BY <2>4, AnyCallIsCall DEF CommitReject, LinkDone, Crash, Rest, tables
  <2>5. ASSUME NEW c \in Client, CommitInsert(c) PROVE TypeOK'
    <3>1. /\ call[c].refs \in SUBSET ArtifactId /\ call[c].key \in Key
          /\ call[c].id \in ArtifactId /\ call[c].project \in Project
      BY CallFields
    <3>2. version[c] \in Version
      BY <2>5 DEF CommitInsert, UpsertLatest, UpsertRevision
    <3>3. QED
      BY <2>5, <3>1, <3>2 DEF CommitInsert, UpsertLatest, UpsertRevision, Answer, Row, Ref
  <2>6. ASSUME NEW c \in Client, NEW a \in ArtifactId, LinkInput(c, a) PROVE TypeOK'
    <3>1. Refs \subseteq Ref
      BY DEF Refs, RefOf, Row, Ref
    <3>2. edges' \subseteq Edge
      BY <2>6, <3>1 DEF LinkInput, Edge
    <3>3. QED
      BY <2>6, <3>2 DEF LinkInput, history
  <2>7. ASSUME NEW a \in ArtifactId, MarkRead(a) PROVE TypeOK'
    <3>1. latest[a] \in Version
      BY <2>7 DEF MarkRead, Exists
    <3>2. QED
      BY <2>7, <3>1 DEF MarkRead, tables, locals, history, Ref
  <2>8. ASSUME MarkStale PROVE TypeOK'
    BY <2>8, SetStatusRows DEF MarkStale, locals, history
  <2>9. CASE UNCHANGED vars
    BY <2>9 DEF vars, tables, locals, history
  <2>10. QED
    BY <2>1, <2>2, <2>3, <2>4, <2>5, <2>6, <2>7, <2>8, <2>9 DEF Next, ClientStep
<1>3. QED
  BY <1>1, <1>2, PTL DEF Spec

-----------------------------------------------------------------------------
(***************************************************************************)
(* The inductive invariant.  Choices is the strengthening LatestIsNewest   *)
(* needs: a client's stale read can put its version at or below            *)
(* latest + 1, never above, so a version that is not taken is the next     *)
(* one.  KeysIndex ties the idempotency table to the rows in both          *)
(* directions, which is why a replay cannot return anything else.          *)
(***************************************************************************)

RowsNameTheirCall == \A r \in artifacts : r.id = r.call.id

KeysIndex ==
  /\ \A r \in artifacts : idempotency[r.call.key] = RefOf(r)
  /\ \A k \in Key : idempotency[k] # NoRef =>
        \E r \in artifacts : r.call.key = k /\ RefOf(r) = idempotency[k]
  /\ \A x \in answers : idempotency[x.key] = x.ref
  /\ \A r \in artifacts : [key |-> r.call.key, ref |-> RefOf(r)] \in answers

Choices ==
  \A c \in Client : pc[c] \in {"revision", "commit"} =>
    version[c] <= latest[call[c].id] + 1

ExpectedBounded ==
  \A c \in Client : pc[c] = "commit" => expected[c] <= revision[call[c].project]

\* A client whose expected revision is still the current one has seen every
\* version of the project.
RevisionNamesSnapshot ==
  \A c \in Client :
    pc[c] = "commit" /\ RevisionCurrent(c) => seen[c] = ProjectRefs(call[c].project)

TableInv ==
  /\ RowsNameTheirCall
  /\ VersionsUnique
  /\ LatestIsNewest
  /\ ReferencesResolve
  /\ KeysIndex

ProtocolInv ==
  /\ Choices
  /\ ExpectedBounded
  /\ RevisionNamesSnapshot

\* What the tables say to a query that does not look at the status.
EntryOf(r) == [id |-> r.id, version |-> r.version, call |-> r.call]

\* Steps that do not write the tables keep every fact about the tables.
LEMMA TablesKept ==
  ASSUME TableInv, UNCHANGED <<artifacts, latest, idempotency, edges, answers>>
  PROVE  TableInv'
BY DEF TableInv, RowsNameTheirCall, VersionsUnique, LatestIsNewest, ReferencesResolve,
       KeysIndex, Refs, RefOf, Exists

\* Marking a version STALE changes no query that ignores the status.
LEMMA MarkStaleEntries ==
  ASSUME TypeOK, MarkStale
  PROVE  /\ Refs' = Refs
         /\ \A p : ProjectRefs(p)' = ProjectRefs(p)
         /\ \A r \in artifacts' : \E s \in artifacts :
              r.id = s.id /\ r.version = s.version /\ r.call = s.call
         /\ \A s \in artifacts : \E r \in artifacts' :
              r.id = s.id /\ r.version = s.version /\ r.call = s.call
<1>1. artifacts' = SetStatus(artifacts, marking, "STALE") /\ artifacts \in SUBSET Row
  BY DEF MarkStale, TypeOK
<1>2. /\ \A r \in artifacts' : \E s \in artifacts :
              r.id = s.id /\ r.version = s.version /\ r.call = s.call
      /\ \A s \in artifacts : \E r \in artifacts' :
              r.id = s.id /\ r.version = s.version /\ r.call = s.call
  BY <1>1, SetStatusRows
<1>3. Refs' = Refs
  BY <1>2 DEF Refs, RefOf
<1>4. \A p : ProjectRefs(p)' = ProjectRefs(p)
  BY <1>2 DEF ProjectRefs, RefOf
<1>5. QED
  BY <1>2, <1>3, <1>4

\* What a successful insert adds.
LEMMA InsertEffect ==
  ASSUME TypeOK, LatestIsNewest, Choices, NEW c \in Client, CommitInsert(c)
  PROVE  LET k == call[c]
             ref == [id |-> k.id, version |-> version[c]]
         IN /\ k \in Call /\ ref \in Ref
            /\ version[c] = latest[k.id] + 1
            /\ ref \notin Refs
            /\ Refs' = Refs \cup {ref}
            /\ \A p : ProjectRefs(p)' = ProjectRefs(p) \cup (IF p = k.project THEN {ref} ELSE {})
            /\ \A a \in ArtifactId : a = k.id \/ Exists(a) => Exists(a)'
<1> DEFINE k == call[c]
           ref == [id |-> k.id, version |-> version[c]]
           row == [id |-> k.id, version |-> version[c], call |-> k, status |-> "VALID"]
<1>1. /\ k \in Call /\ k.id \in ArtifactId /\ version[c] \in Version
      /\ latest[k.id] \in Version \cup {NoVersion}
  BY CallFields DEF TypeOK, CommitInsert, UpsertLatest, UpsertRevision
<1>2. ref \in Ref
  BY <1>1 DEF Ref
<1>3. ref \notin Refs
  BY DEF CommitInsert, UpsertLatest, UpsertRevision, VersionTaken
<1>4. ~(version[c] <= latest[k.id])
  BY <1>2, <1>3 DEF LatestIsNewest
<1>5. version[c] <= latest[k.id] + 1
  BY DEF Choices, CommitInsert, UpsertLatest, UpsertRevision
<1>6. version[c] = latest[k.id] + 1
  BY <1>1, <1>4, <1>5, VersionAssumption DEF Version, NoVersion
<1>7. artifacts' = artifacts \cup {row}
  BY DEF CommitInsert, UpsertLatest, UpsertRevision
<1>8. RefOf(row) = ref /\ row.call = k
  BY DEF RefOf
<1> HIDE DEF row
<1>9. Refs' = Refs \cup {ref}
  BY <1>7, <1>8 DEF Refs
<1>10. ASSUME NEW p
       PROVE ProjectRefs(p)' = ProjectRefs(p) \cup (IF p = k.project THEN {ref} ELSE {})
  <2>1. CASE p = k.project
    BY <1>7, <1>8, <2>1 DEF ProjectRefs
  <2>2. CASE p # k.project
    BY <1>7, <1>8, <2>2 DEF ProjectRefs
  <2>3. QED
    BY <2>1, <2>2
<1>11. /\ latest' = [latest EXCEPT ![k.id] = version[c]]
       /\ latest \in [ArtifactId -> Version \cup {NoVersion}]
  BY DEF CommitInsert, UpsertLatest, UpsertRevision, TypeOK
<1>12. version[c] # NoVersion
  BY <1>1, VersionAssumption DEF Version, NoVersion
<1>13. latest'[k.id] = version[c] /\ \A a \in ArtifactId \ {k.id} : latest'[a] = latest[a]
  BY <1>1, <1>11
<1>14. ASSUME NEW a \in ArtifactId, a = k.id \/ Exists(a) PROVE Exists(a)'
  BY <1>9, <1>12, <1>13, <1>14 DEF Exists
<1>15. QED
  BY <1>1, <1>2, <1>3, <1>6, <1>9, <1>10, <1>14

-----------------------------------------------------------------------------
\* A successful commit keeps the table invariant.
LEMMA InsertKeepsTables ==
  ASSUME TypeOK, TableInv, Choices, NEW c \in Client, CommitInsert(c)
  PROVE  TableInv'
<1> DEFINE k == call[c]
           ref == [id |-> k.id, version |-> version[c]]
           row == [id |-> k.id, version |-> version[c], call |-> k, status |-> "VALID"]
<1>1. /\ k \in Call /\ ref \in Ref
      /\ version[c] = latest[k.id] + 1
      /\ ref \notin Refs
      /\ Refs' = Refs \cup {ref}
      /\ \A a \in ArtifactId : a = k.id \/ Exists(a) => Exists(a)'
  BY InsertEffect DEF TableInv
<1>2. /\ artifacts' = artifacts \cup {row}
      /\ latest' = [latest EXCEPT ![k.id] = version[c]]
      /\ idempotency' = [idempotency EXCEPT ![k.key] = ref]
      /\ idempotency[k.key] = NoRef
      /\ edges' = edges
      /\ answers' = answers \cup {[key |-> k.key, ref |-> ref]}
      /\ \A a \in k.refs : Exists(a)
  BY DEF CommitInsert, UpsertLatest, UpsertRevision, Answer, Replayed, InputsPresent
<1>3. /\ k.id \in ArtifactId /\ k.key \in Key /\ k.refs \subseteq ArtifactId
      /\ \A r \in artifacts : r.call \in Call /\ r.call.key \in Key /\ r.call.refs \subseteq ArtifactId
      /\ \A x \in answers : x.key \in Key
  BY <1>1, CallFields DEF TypeOK, Row
<1>4. \A r \in artifacts : RefOf(r) \in Refs
  BY DEF Refs
<1>5. RefOf(row) = ref /\ row.call = k /\ row.id = k.id
  BY DEF RefOf
<1>6. ref # NoRef
  BY <1>1, VersionAssumption DEF Ref, NoRef, Version, NoVersion
<1> HIDE DEF k, ref, row
<1>7. RowsNameTheirCall'
  BY <1>2, <1>5 DEF TableInv, RowsNameTheirCall
<1>8. VersionsUnique'
  BY <1>1, <1>2, <1>4, <1>5 DEF TableInv, VersionsUnique
<1>9. LatestIsNewest'
  <2>1. latest'[k.id] = version[c] /\ \A a \in ArtifactId \ {k.id} : latest'[a] = latest[a]
    BY <1>2, <1>3 DEF TypeOK
  <2>2. SUFFICES ASSUME NEW x \in Ref PROVE x \in Refs' <=> x.version <= latest'[x.id]
    BY DEF LatestIsNewest
  <2>3. /\ x.id \in ArtifactId /\ x.version \in Nat /\ x = [id |-> x.id, version |-> x.version]
        /\ latest[k.id] \in Nat
        /\ x \in Refs <=> x.version <= latest[x.id]
    BY <1>3, VersionAssumption DEF Ref, Version, NoVersion, TypeOK, TableInv, LatestIsNewest
  <2>4. CASE x.id = k.id
    <3>1. x = ref <=> x.version = version[c]
      BY <2>3, <2>4 DEF ref
    <3>2. QED
      BY <1>1, <2>1, <2>3, <2>4, <3>1
  <2>5. CASE x.id # k.id
    <3>1. x # ref
      BY <2>5 DEF ref
    <3>2. QED
      BY <1>1, <2>1, <2>3, <2>5, <3>1
  <2>6. QED
    BY <2>4, <2>5
<1>10. ReferencesResolve'
  <2>1. ASSUME NEW r \in artifacts', NEW a \in r.call.refs PROVE Exists(a)'
    <3>1. CASE r \in artifacts
      BY <1>1, <1>3, <2>1, <3>1 DEF TableInv, ReferencesResolve
    <3>2. CASE r = row
      BY <1>1, <1>2, <1>3, <1>5, <2>1, <3>2
    <3>3. QED
      BY <1>2, <3>1, <3>2
  <2>2. \A e \in edges' : {e.src, e.dst} \subseteq Refs'
    BY <1>1, <1>2 DEF TableInv, ReferencesResolve
  <2>3. QED
    BY <2>1, <2>2 DEF ReferencesResolve
<1>11. KeysIndex'
  <2>1. \A r \in artifacts : r.call.key # k.key
    <3>1. ASSUME NEW r \in artifacts, r.call.key = k.key PROVE FALSE
      <4>1. idempotency[k.key] = RefOf(r)
        BY <3>1 DEF TableInv, KeysIndex
      <4>2. RefOf(r).version \in Version
        BY DEF RefOf, TypeOK, Row
      <4>3. QED
        BY <1>2, <4>1, <4>2, VersionAssumption DEF NoRef, NoVersion, Version
    <3>2. QED
      BY <3>1
  <2>2. \A x \in answers : x.key # k.key
    <3>1. \A x \in answers : x.ref \in Ref /\ idempotency[x.key] = x.ref
      BY DEF TypeOK, TableInv, KeysIndex
    <3>2. \A y \in Ref : y # NoRef
      BY VersionAssumption DEF Ref, NoRef, Version, NoVersion
    <3>3. QED
      BY <1>2, <3>1, <3>2
  <2>3. idempotency'[k.key] = ref /\ \A j \in Key \ {k.key} : idempotency'[j] = idempotency[j]
    BY <1>2, <1>3 DEF TypeOK
  <2>4. ASSUME NEW r \in artifacts' PROVE idempotency'[r.call.key] = RefOf(r)
    <3>1. CASE r \in artifacts
      BY <1>3, <2>1, <2>3, <3>1 DEF TableInv, KeysIndex
    <3>2. CASE r = row
      BY <1>5, <2>3, <3>2
    <3>3. QED
      BY <1>2, <3>1, <3>2
  <2>5. ASSUME NEW j \in Key, idempotency'[j] # NoRef
        PROVE \E r \in artifacts' : r.call.key = j /\ RefOf(r) = idempotency'[j]
    <3>1. CASE j = k.key
      BY <1>2, <1>5, <2>3, <3>1
    <3>2. CASE j # k.key
      BY <1>2, <2>3, <2>5, <3>2 DEF TableInv, KeysIndex
    <3>3. QED
      BY <3>1, <3>2
  <2>6. ASSUME NEW x \in answers' PROVE idempotency'[x.key] = x.ref
    BY <1>2, <1>3, <2>2, <2>3 DEF TableInv, KeysIndex
  <2>7. ASSUME NEW r \in artifacts' PROVE [key |-> r.call.key, ref |-> RefOf(r)] \in answers'
    BY <1>2, <1>5 DEF TableInv, KeysIndex
  <2>8. QED
    BY <2>4, <2>5, <2>6, <2>7 DEF KeysIndex, RefOf
<1>12. QED
  BY <1>7, <1>8, <1>9, <1>10, <1>11 DEF TableInv

\* Marking a version STALE keeps the table invariant.
LEMMA MarkStaleKeepsTables ==
  ASSUME TypeOK, TableInv, MarkStale
  PROVE  TableInv'
<1>1. /\ Refs' = Refs
      /\ \A r \in artifacts' : \E s \in artifacts :
           r.id = s.id /\ r.version = s.version /\ r.call = s.call
      /\ \A s \in artifacts : \E r \in artifacts' :
           r.id = s.id /\ r.version = s.version /\ r.call = s.call
  BY MarkStaleEntries
<1>2. UNCHANGED <<latest, idempotency, edges, answers>>
  BY DEF MarkStale, history
<1>3. artifacts' = SetStatus(artifacts, marking, "STALE") /\ artifacts \in SUBSET Row
  BY DEF MarkStale, TypeOK
<1>4. RowsNameTheirCall'
  BY <1>1 DEF TableInv, RowsNameTheirCall
<1>5. VersionsUnique'
  <2> SUFFICES ASSUME NEW r \in artifacts', NEW s \in artifacts', RefOf(r) = RefOf(s)
               PROVE  r = s
    BY DEF VersionsUnique, RefOf
  <2>1. PICK q \in artifacts : /\ q.id = r.id /\ q.version = r.version
                               /\ r = IF RefOf(q) = marking THEN [q EXCEPT !.status = "STALE"] ELSE q
    BY <1>3, SetStatusRows
  <2>2. PICK t \in artifacts : /\ t.id = s.id /\ t.version = s.version
                               /\ s = IF RefOf(t) = marking THEN [t EXCEPT !.status = "STALE"] ELSE t
    BY <1>3, SetStatusRows
  <2>3. q = t
    BY <2>1, <2>2 DEF TableInv, VersionsUnique, RefOf
  <2>4. QED
    BY <2>1, <2>2, <2>3
<1>6. LatestIsNewest'
  BY <1>1, <1>2 DEF TableInv, LatestIsNewest
<1>7. ReferencesResolve'
  BY <1>1, <1>2 DEF TableInv, ReferencesResolve, Exists
<1>8. KeysIndex'
  <2>1. ASSUME NEW r \in artifacts' PROVE idempotency'[r.call.key] = RefOf(r)
    <3>1. PICK s \in artifacts : r.id = s.id /\ r.version = s.version /\ r.call = s.call
      BY <1>1
    <3>2. RefOf(r) = RefOf(s)
      BY <3>1 DEF RefOf
    <3>3. idempotency[s.call.key] = RefOf(s)
      BY DEF TableInv, KeysIndex
    <3>4. QED
      BY <1>2, <3>1, <3>2, <3>3
  <2>2. \A k \in Key : idempotency'[k] # NoRef =>
          \E r \in artifacts' : r.call.key = k /\ RefOf(r) = idempotency'[k]
    BY <1>1, <1>2 DEF TableInv, KeysIndex, RefOf
  <2>3. ASSUME NEW r \in artifacts' PROVE [key |-> r.call.key, ref |-> RefOf(r)] \in answers
    <3>1. PICK s \in artifacts : r.id = s.id /\ r.version = s.version /\ r.call = s.call
      BY <1>1
    <3>2. QED
      BY <3>1 DEF RefOf, TableInv, KeysIndex
  <2>4. QED
    BY <1>2, <2>1, <2>2, <2>3 DEF TableInv, KeysIndex, RefOf
<1>9. QED
  BY <1>4, <1>5, <1>6, <1>7, <1>8 DEF TableInv

\* Recording an edge keeps the table invariant.
LEMMA LinkKeepsTables ==
  ASSUME TypeOK, TableInv, NEW c \in Client, NEW a \in ArtifactId, LinkInput(c, a)
  PROVE  TableInv'
<1>1. UNCHANGED <<artifacts, latest, idempotency, answers>>
  BY DEF LinkInput, history
<1>2. \A e \in edges' : {e.src, e.dst} \subseteq Refs
  BY DEF LinkInput, TableInv, ReferencesResolve
<1>3. ReferencesResolve'
  BY <1>1, <1>2 DEF TableInv, ReferencesResolve, Exists, Refs, RefOf
<1>4. QED
  BY <1>1, <1>3 DEF TableInv, RowsNameTheirCall, VersionsUnique, LatestIsNewest,
                    KeysIndex, Refs, RefOf

-----------------------------------------------------------------------------
\* A step that leaves artifacts, latest and revision alone keeps what a client
\* that did not move knows about them.
LEMMA ProtocolKept ==
  ASSUME ProtocolInv, NEW c \in Client,
         UNCHANGED <<latest, revision>>,
         \A p : ProjectRefs(p)' = ProjectRefs(p),
         \A d \in Client \ {c} : /\ pc'[d] = pc[d] /\ call'[d] = call[d]
                                 /\ version'[d] = version[d]
                                 /\ expected'[d] = expected[d] /\ seen'[d] = seen[d],
         pc'[c] \notin {"revision", "commit"}
  PROVE  ProtocolInv'
BY DEF ProtocolInv, Choices, ExpectedBounded, RevisionNamesSnapshot, RevisionCurrent

\* Every step keeps the protocol invariant.
LEMMA ProtocolStep ==
  ASSUME TypeOK, TypeOK', TableInv, ProtocolInv, [Next]_vars
  PROVE  ProtocolInv'
<1>1. ASSUME NEW c \in Client, NEW k \in Call, ReadCurrent(c, k) PROVE ProtocolInv'
  <2>1. \A p : ProjectRefs(p)' = ProjectRefs(p)
    BY <1>1 DEF ReadCurrent, tables, ProjectRefs, RefOf
  <2>2. UNCHANGED <<latest, revision, expected, seen>>
    BY <1>1 DEF ReadCurrent, tables, history
  <2>3. ChosenVersion(k) <= latest[k.id] + 1
    <3>1. latest[k.id] \in Nat
      BY CallFields, VersionAssumption DEF TypeOK, Version, NoVersion
    <3>2. ChosenVersion(k) \in {1, latest[k.id] + 1}
      BY DEF ChosenVersion
    <3>3. QED
      BY <3>1, <3>2
  <2>4. /\ call' = [call EXCEPT ![c] = k] /\ pc' = [pc EXCEPT ![c] = "revision"]
        /\ version' = [version EXCEPT ![c] = ChosenVersion(k)]
    BY <1>1 DEF ReadCurrent
  <2>5. Choices'
    BY <2>2, <2>3, <2>4 DEF ProtocolInv, Choices, TypeOK
  <2>6. ExpectedBounded' /\ RevisionNamesSnapshot'
    BY <2>1, <2>2, <2>4
       DEF ProtocolInv, ExpectedBounded, RevisionNamesSnapshot, RevisionCurrent, TypeOK
  <2>7. QED
    BY <2>5, <2>6 DEF ProtocolInv
<1>2. ASSUME NEW c \in Client, ReadRevision(c) PROVE ProtocolInv'
  <2>1. \A p : ProjectRefs(p)' = ProjectRefs(p)
    BY <1>2 DEF ReadRevision, tables, ProjectRefs, RefOf
  <2>2. /\ UNCHANGED <<latest, revision, call, version>>
        /\ pc[c] = "revision" /\ pc' = [pc EXCEPT ![c] = "commit"]
        /\ expected' = [expected EXCEPT ![c] = revision[call[c].project]]
        /\ seen' = [seen EXCEPT ![c] = ProjectRefs(call[c].project)]
    BY <1>2 DEF ReadRevision, tables
  <2>3. revision[call[c].project] \in Nat
    BY CallFields DEF TypeOK
  <2>4. QED
    BY <2>1, <2>2, <2>3
       DEF ProtocolInv, Choices, ExpectedBounded, RevisionNamesSnapshot, RevisionCurrent, TypeOK
<1>3. ASSUME NEW c \in Client, CommitReplay(c) PROVE ProtocolInv'
  <2>1. \A p : ProjectRefs(p)' = ProjectRefs(p)
    BY <1>3 DEF CommitReplay, tables, ProjectRefs, RefOf
  <2>2. QED
    BY <1>3, <2>1, ProtocolKept DEF CommitReplay, Answer, tables, TypeOK
<1>4. ASSUME NEW c \in Client, CommitReject(c) \/ LinkDone(c) \/ Crash(c) PROVE ProtocolInv'
  <2>1. \A p : ProjectRefs(p)' = ProjectRefs(p)
    BY <1>4 DEF CommitReject, LinkDone, Crash, tables, ProjectRefs, RefOf
  <2>2. QED
    BY <1>4, <2>1, ProtocolKept DEF CommitReject, LinkDone, Crash, Rest, tables, TypeOK
<1>5. ASSUME NEW c \in Client, CommitInsert(c) PROVE ProtocolInv'
  <2> DEFINE k == call[c]
             ref == [id |-> k.id, version |-> version[c]]
  <2>1. /\ k \in Call /\ version[c] = latest[k.id] + 1
        /\ \A p : ProjectRefs(p)' = ProjectRefs(p) \cup (IF p = k.project THEN {ref} ELSE {})
    BY <1>5, InsertEffect DEF TableInv, ProtocolInv
  <2>2. /\ latest' = [latest EXCEPT ![k.id] = version[c]]
        /\ revision' = [revision EXCEPT ![k.project] = revision[k.project] + 1]
        /\ call' = call /\ pc' = [pc EXCEPT ![c] = "link"]
        /\ version' = [version EXCEPT ![c] = version[c]]
        /\ expected' = [expected EXCEPT ![c] = 0] /\ seen' = [seen EXCEPT ![c] = {}]
    BY <1>5 DEF CommitInsert, UpsertLatest, UpsertRevision, Answer
  <2>3. /\ k.id \in ArtifactId /\ k.project \in Project
        /\ latest[k.id] \in Nat /\ revision[k.project] \in Nat
        /\ \A d \in Client : call[d].id \in ArtifactId /\ call[d].project \in Project
    BY <2>1, CallFields, VersionAssumption DEF TypeOK, Version, NoVersion
  <2> HIDE DEF k, ref
  <2>4. \A a \in ArtifactId : latest'[a] \in Nat /\ latest[a] \in Nat /\ latest[a] <= latest'[a]
    BY <2>1, <2>2, <2>3, VersionAssumption DEF TypeOK, Version, NoVersion
  <2>5. Choices'
    <3> SUFFICES ASSUME NEW d \in Client, pc'[d] \in {"revision", "commit"}
                 PROVE  version'[d] <= latest'[call[d].id] + 1
      BY <2>2 DEF Choices
    <3>1. d # c /\ pc[d] = pc'[d] /\ version'[d] = version[d]
      BY <2>2 DEF TypeOK
    <3>2. version[d] <= latest[call[d].id] + 1 /\ version[d] \in Nat
      BY <3>1, VersionAssumption DEF ProtocolInv, Choices, TypeOK, Version, NoVersion
    <3>3. QED
      BY <2>3, <2>4, <3>1, <3>2
  <2>6. ASSUME NEW d \in Client, pc'[d] = "commit"
        PROVE /\ d # c /\ pc[d] = "commit"
              /\ expected'[d] = expected[d] /\ seen'[d] = seen[d]
              /\ expected[d] \in Nat /\ expected[d] <= revision[call[d].project]
    BY <2>2, <2>6 DEF ProtocolInv, ExpectedBounded, TypeOK
  <2>7. ASSUME NEW q \in Project
        PROVE /\ revision[q] \in Nat
              /\ q = k.project => revision'[q] = revision[q] + 1
              /\ q # k.project => revision'[q] = revision[q] /\ ProjectRefs(q)' = ProjectRefs(q)
    BY <2>1, <2>2, <2>3 DEF TypeOK
  <2>8. ExpectedBounded'
    BY <2>2, <2>3, <2>6, <2>7 DEF ExpectedBounded
  <2>9. RevisionNamesSnapshot'
    <3> SUFFICES ASSUME NEW d \in Client, pc'[d] = "commit",
                        revision'[call[d].project] = expected'[d]
                 PROVE  seen'[d] = ProjectRefs(call[d].project)'
      BY <2>2 DEF RevisionNamesSnapshot, RevisionCurrent
    <3>1. call[d].project \in Project /\ call[d].project # k.project
      BY <2>3, <2>6, <2>7
    <3>2. \A q \in Project : q # k.project => ProjectRefs(q)' = ProjectRefs(q)
      BY <2>7
    <3>3. ProjectRefs(call[d].project)' = ProjectRefs(call[d].project)
      BY <2>2, <3>1, <3>2
    <3>4. QED
      BY <2>6, <2>7, <3>1, <3>3 DEF ProtocolInv, RevisionNamesSnapshot, RevisionCurrent
  <2>10. QED
    BY <2>5, <2>8, <2>9 DEF ProtocolInv
<1>6. ASSUME NEW c \in Client, NEW a \in ArtifactId, LinkInput(c, a) PROVE ProtocolInv'
  <2>1. \A p : ProjectRefs(p)' = ProjectRefs(p)
    BY <1>6 DEF LinkInput, ProjectRefs, RefOf
  <2>2. QED
    BY <1>6, <2>1, ProtocolKept DEF LinkInput, history
<1>7. ASSUME NEW a \in ArtifactId, MarkRead(a) PROVE ProtocolInv'
  <2>1. \A p : ProjectRefs(p)' = ProjectRefs(p)
    BY <1>7 DEF MarkRead, tables, ProjectRefs, RefOf
  <2>2. QED
    BY <1>7, <2>1 DEF MarkRead, tables, locals, history, ProtocolInv, Choices,
                      ExpectedBounded, RevisionNamesSnapshot, RevisionCurrent
<1>8. ASSUME MarkStale PROVE ProtocolInv'
  <2>1. \A p : ProjectRefs(p)' = ProjectRefs(p)
    BY <1>8, MarkStaleEntries
  <2>2. QED
    BY <1>8, <2>1 DEF MarkStale, locals, history, ProtocolInv, Choices,
                      ExpectedBounded, RevisionNamesSnapshot, RevisionCurrent
<1>9. CASE UNCHANGED vars
  <2>1. \A p : ProjectRefs(p)' = ProjectRefs(p)
    BY <1>9 DEF vars, tables, ProjectRefs, RefOf
  <2>2. QED
    BY <1>9, <2>1 DEF vars, tables, locals, history, ProtocolInv, Choices,
                      ExpectedBounded, RevisionNamesSnapshot, RevisionCurrent
<1>10. QED
  BY <1>1, <1>2, <1>3, <1>4, <1>5, <1>6, <1>7, <1>8, <1>9 DEF Next, ClientStep

\* Every step keeps the table invariant.
LEMMA TableStep ==
  ASSUME TypeOK, TableInv, ProtocolInv, [Next]_vars
  PROVE  TableInv'
<1>1. ASSUME NEW c \in Client, CommitInsert(c) PROVE TableInv'
  BY <1>1, InsertKeepsTables DEF ProtocolInv
<1>2. ASSUME NEW c \in Client, CommitReplay(c) PROVE TableInv'
  <2>1. idempotency[call[c].key] # NoRef /\ call[c].key \in Key
    BY <1>2, CallFields DEF CommitReplay, Replayed, TypeOK
  <2>2. /\ UNCHANGED <<artifacts, latest, idempotency, edges>>
        /\ answers' = answers \cup {[key |-> call[c].key, ref |-> idempotency[call[c].key]]}
    BY <1>2 DEF CommitReplay, Answer, tables
  <2>3. KeysIndex'
    BY <2>1, <2>2 DEF TableInv, KeysIndex, RefOf
  <2>4. QED
    BY <2>2, <2>3 DEF TableInv, RowsNameTheirCall, VersionsUnique, LatestIsNewest,
                      ReferencesResolve, Refs, RefOf, Exists
<1>3. ASSUME NEW c \in Client, NEW a \in ArtifactId, LinkInput(c, a) PROVE TableInv'
  BY <1>3, LinkKeepsTables
<1>4. CASE MarkStale
  BY <1>4, MarkStaleKeepsTables
<1>5. ASSUME NEW c \in Client, NEW k \in Call,
             ReadCurrent(c, k) \/ ReadRevision(c) \/ CommitReject(c) \/ LinkDone(c) \/ Crash(c)
      PROVE TableInv'
  BY <1>5, TablesKept DEF ReadCurrent, ReadRevision, CommitReject, LinkDone, Crash, tables, history
<1>6. ASSUME NEW a \in ArtifactId, MarkRead(a) PROVE TableInv'
  BY <1>6, TablesKept DEF MarkRead, tables, history
<1>7. CASE UNCHANGED vars
  BY <1>7, TablesKept DEF vars, tables, history
<1>8. QED
  BY <1>1, <1>2, <1>3, <1>4, <1>5, <1>6, <1>7, AnyCallIsCall DEF Next, ClientStep

\* The invariant of the store, from which the safety theorems follow.
THEOREM StoreInvariant == Spec => [](TableInv /\ ProtocolInv)
<1>1. Init => TableInv /\ ProtocolInv
  <2> SUFFICES ASSUME Init PROVE TableInv /\ ProtocolInv
    OBVIOUS
  <2>1. Refs = {}
    BY DEF Init, Refs
  <2>2. LatestIsNewest
    BY <2>1, VersionAssumption DEF Init, LatestIsNewest, Ref, Version, NoVersion
  <2>3. QED
    BY <2>1, <2>2 DEF Init, TableInv, ProtocolInv, RowsNameTheirCall, VersionsUnique,
         ReferencesResolve, KeysIndex, Choices, ExpectedBounded, RevisionNamesSnapshot
<1>2. TypeOK /\ TypeOK' /\ TableInv /\ ProtocolInv /\ [Next]_vars => (TableInv /\ ProtocolInv)'
  BY TableStep, ProtocolStep
<1>3. QED
  BY <1>1, <1>2, TypeCorrect, PTL DEF Spec

\* No interleaving of clients makes the latest pointer regress or skip a version.
THEOREM LatestSafe == Spec => []LatestIsNewest
BY StoreInvariant, PTL DEF TableInv

\* One row per artifact version, whoever raced to write it.
THEOREM VersionsSafe == Spec => []VersionsUnique
BY StoreInvariant, PTL DEF TableInv

\* Every input of a committed artifact and both ends of every edge resolve.
THEOREM ReferencesSafe == Spec => []ReferencesResolve
BY StoreInvariant, PTL DEF TableInv

\* The optimistic check: whoever commits had seen every version of the project.
THEOREM SnapshotSafe == Spec => CommitsOnWhatItSaw
<1> DEFINE Saw == \A c \in Client :
                    pc[c] = "commit" /\ pc'[c] = "link" /\ revision' # revision
                      => seen[c] = ProjectRefs(call[c].project)
<1>1. TypeOK /\ ProtocolInv /\ [Next]_vars => [Saw]_vars
  <2> SUFFICES ASSUME TypeOK, ProtocolInv, Next,
                      NEW c \in Client, pc[c] = "commit", pc'[c] = "link", revision' # revision
               PROVE  seen[c] = ProjectRefs(call[c].project)
    OBVIOUS
  <2>1. PICK d \in Client : CommitInsert(d)
    BY DEF Next, ClientStep, ReadCurrent, ReadRevision, CommitReplay, CommitReject, LinkInput,
           LinkDone, Crash, MarkRead, MarkStale, tables
  <2>2. d = c
    BY <2>1 DEF CommitInsert, UpsertLatest, UpsertRevision, Answer, TypeOK
  <2>3. RevisionCurrent(c)
    BY <2>1, <2>2 DEF CommitInsert, UpsertLatest, UpsertRevision
  <2>4. QED
    BY <2>3 DEF ProtocolInv, RevisionNamesSnapshot
<1>2. QED
  BY <1>1, StoreInvariant, TypeCorrect, PTL DEF Spec, CommitsOnWhatItSaw, ProtocolInv

\* A key commits once and is answered the same for ever.
THEOREM IdempotencySafe == Spec => []OnceAndSameAnswer
<1>1. TypeOK /\ TableInv => OnceAndSameAnswer
  <2> SUFFICES ASSUME TypeOK, TableInv PROVE OnceAndSameAnswer
    OBVIOUS
  <2>1. \A r, s \in artifacts : r.call.key = s.call.key => r = s
    BY DEF TableInv, KeysIndex, VersionsUnique
  <2>2. \A x \in answers : x = [key |-> x.key, ref |-> x.ref] /\ x.key \in Key /\ x.ref \in Ref
    BY DEF TypeOK
  <2>3. \A x, y \in answers : x.key = y.key => x = y
    BY <2>2 DEF TableInv, KeysIndex
  <2>4. \A ref \in Ref : ref # NoRef
    BY VersionAssumption DEF Ref, NoRef, Version, NoVersion
  <2>5. \A x \in answers : \E r \in artifacts : r.call.key = x.key /\ RefOf(r) = x.ref
    BY <2>2, <2>4 DEF TableInv, KeysIndex
  <2>6. QED
    BY <2>1, <2>3, <2>5 DEF OnceAndSameAnswer
<1>2. QED
  BY <1>1, StoreInvariant, TypeCorrect, PTL

-----------------------------------------------------------------------------
\* The project revision counts the project's versions.
THEOREM RevisionSafe == Spec => []RevisionCountsCommits
<1> DEFINE Counted == \A p \in Project : /\ IsFiniteSet(ProjectRefs(p))
                                         /\ revision[p] = Cardinality(ProjectRefs(p))
<1>1. Init => Counted
  <2> SUFFICES ASSUME Init, NEW p \in Project
               PROVE  IsFiniteSet(ProjectRefs(p)) /\ revision[p] = Cardinality(ProjectRefs(p))
    OBVIOUS
  <2>1. ProjectRefs(p) = {}
    BY DEF Init, ProjectRefs
  <2>2. QED
    BY <2>1, FS_EmptySet DEF Init
<1>2. TypeOK /\ TableInv /\ ProtocolInv /\ Counted /\ [Next]_vars => Counted'
  <2> SUFFICES ASSUME TypeOK, TableInv, ProtocolInv, Counted, [Next]_vars
               PROVE  Counted'
    OBVIOUS
  <2>1. ASSUME NEW c \in Client, CommitInsert(c) PROVE Counted'
    <3> DEFINE k == call[c]
               ref == [id |-> k.id, version |-> version[c]]
    <3>1. /\ k \in Call /\ ref \notin Refs
          /\ \A p : ProjectRefs(p)' = ProjectRefs(p) \cup (IF p = k.project THEN {ref} ELSE {})
      BY <2>1, InsertEffect DEF TableInv, ProtocolInv
    <3>2. revision' = [revision EXCEPT ![k.project] = revision[k.project] + 1]
      BY <2>1 DEF CommitInsert, UpsertLatest, UpsertRevision
    <3>3. \A p : ProjectRefs(p) \subseteq Refs
      BY DEF ProjectRefs, Refs
    <3> HIDE DEF k, ref
    <3>4. ASSUME NEW p \in Project
          PROVE  IsFiniteSet(ProjectRefs(p)') /\ revision'[p] = Cardinality(ProjectRefs(p)')
      <4>1. CASE p = k.project
        <5>1. ProjectRefs(p)' = ProjectRefs(p) \cup {ref} /\ ref \notin ProjectRefs(p)
          BY <3>1, <3>3, <4>1
        <5>2. /\ IsFiniteSet(ProjectRefs(p) \cup {ref})
              /\ Cardinality(ProjectRefs(p) \cup {ref}) = Cardinality(ProjectRefs(p)) + 1
          BY <5>1, FS_AddElement
        <5>3. QED
          BY <3>2, <4>1, <5>1, <5>2 DEF TypeOK
      <4>2. CASE p # k.project
        <5>1. ProjectRefs(p)' = ProjectRefs(p)
          BY <3>1, <4>2
        <5>2. QED
          BY <3>2, <4>2, <5>1 DEF TypeOK
      <4>3. QED
        BY <4>1, <4>2
    <3>5. QED
      BY <3>4
  <2>2. CASE MarkStale
    <3>1. UNCHANGED revision /\ \A p : ProjectRefs(p)' = ProjectRefs(p)
      BY <2>2, MarkStaleEntries DEF MarkStale
    <3>2. QED
      BY <3>1
  <2>3. CASE UNCHANGED <<artifacts, revision>>
    <3>1. \A p : ProjectRefs(p)' = ProjectRefs(p)
      BY <2>3 DEF ProjectRefs, RefOf
    <3>2. QED
      BY <2>3, <3>1
  <2>4. QED
    <3>1. \/ \E c \in Client : CommitInsert(c)
          \/ MarkStale
          \/ UNCHANGED <<artifacts, revision>>
      BY DEF Next, ClientStep, ReadCurrent, ReadRevision, CommitReplay, CommitReject, LinkInput,
             LinkDone, Crash, MarkRead, vars, tables
    <3>2. QED
      BY <2>1, <2>2, <2>3, <3>1
<1>3. Counted => RevisionCountsCommits
  BY DEF RevisionCountsCommits
<1> HIDE DEF Counted
<1>4. QED
  BY <1>1, <1>2, <1>3, TypeCorrect, StoreInvariant, PTL DEF Spec

-----------------------------------------------------------------------------
\* A version is never overwritten: no step changes its envelope, and no step
\* takes it back from STALE.
THEOREM ImmutableVersions == Spec => VersionImmutable
<1> DEFINE Kept == \A r \in artifacts : \E s \in artifacts' :
                      /\ RefOf(s) = RefOf(r)
                      /\ s.call = r.call
                      /\ r.status = "STALE" => s.status = "STALE"
<1>1. TypeOK /\ [Next]_vars => [Kept]_vars
  <2> SUFFICES ASSUME TypeOK, Next PROVE Kept
    OBVIOUS
  <2>1. CASE artifacts \subseteq artifacts'
    BY <2>1
  <2>2. CASE MarkStale
    <3>1. artifacts' = SetStatus(artifacts, marking, "STALE") /\ artifacts \in SUBSET Row
      BY <2>2 DEF MarkStale, TypeOK
    <3>2. QED
      BY <3>1, SetStatusRows DEF RefOf
  <2>3. artifacts \subseteq artifacts' \/ MarkStale
    BY DEF Next, ClientStep, ReadCurrent, ReadRevision, CommitReplay, CommitReject, CommitInsert, UpsertLatest, UpsertRevision,
           LinkInput, LinkDone, Crash, MarkRead, tables
  <2>4. QED
    BY <2>1, <2>2, <2>3
<1>2. QED
  BY <1>1, TypeCorrect, PTL DEF Spec, VersionImmutable

\* The store implements the append-only ledger.
THEOREM StoreImplementsLedger == Spec => ImplementsLedger
<1>1. Init => Ledger!Init
  BY DEF Init, Ledger!Init, Entries, StaleRefs
<1>2. TypeOK /\ TableInv /\ ProtocolInv /\ [Next]_vars => [Ledger!Next]_(Ledger!vars)
  <2> SUFFICES ASSUME TypeOK, TableInv, ProtocolInv, [Next]_vars
               PROVE  Ledger!Next \/ UNCHANGED Ledger!vars
    OBVIOUS
  <2>1. ASSUME NEW c \in Client, CommitInsert(c) PROVE Ledger!Next
    <3> DEFINE k == call[c]
               ref == [id |-> k.id, version |-> version[c]]
               row == [id |-> k.id, version |-> version[c], call |-> k, status |-> "VALID"]
               entry == [id |-> k.id, version |-> version[c], call |-> k]
    <3>1. /\ k \in Call /\ ref \in Ref /\ version[c] = latest[k.id] + 1 /\ ref \notin Refs
      BY <2>1, InsertEffect DEF TableInv, ProtocolInv
    <3>2. /\ artifacts' = artifacts \cup {row}
          /\ revision' = [revision EXCEPT ![k.project] = revision[k.project] + 1]
          /\ answers' = answers \cup {[key |-> k.key, ref |-> ref]}
          /\ idempotency[k.key] = NoRef
          /\ \A a \in k.refs : Exists(a)
      BY <2>1 DEF CommitInsert, UpsertLatest, UpsertRevision, Answer, Replayed, InputsPresent
    <3>3. \A e \in Entries : \E r \in artifacts : e = EntryOf(r)
      BY DEF Entries, EntryOf
    <3>4. \A r \in artifacts : EntryOf(r) \in Entries
      BY DEF Entries, EntryOf
    <3>5. /\ k.id \in ArtifactId /\ k.project \in Project /\ version[c] \in Version
          /\ latest[k.id] \in Nat
      BY <3>1, CallFields, VersionAssumption DEF TypeOK, Ref, Version, NoVersion
    <3>6. \A e \in Entries : e.call.key # k.key
      <4>1. ASSUME NEW r \in artifacts PROVE r.call.key # k.key
        <5>1. idempotency[r.call.key] = RefOf(r)
          BY DEF TableInv, KeysIndex
        <5>2. RefOf(r) # NoRef
          BY VersionAssumption DEF TypeOK, Row, RefOf, NoRef, Version, NoVersion
        <5>3. QED
          BY <3>2, <5>1, <5>2
      <4>2. QED
        BY <3>3, <4>1 DEF EntryOf
    <3>7. ASSUME NEW e \in Entries, e.id = k.id PROVE e.version < version[c]
      <4>1. PICK r \in artifacts : e = EntryOf(r)
        BY <3>3
      <4>2. RefOf(r) \in Ref /\ RefOf(r) \in Refs /\ RefOf(r).id = k.id /\ RefOf(r).version = e.version
        BY <3>7, <4>1 DEF RefOf, Refs, Ref, EntryOf, TypeOK, Row
      <4>3. e.version <= latest[k.id] /\ e.version \in Nat
        BY <4>2, VersionAssumption DEF TableInv, LatestIsNewest, Ref, Version
      <4>4. QED
        BY <3>1, <3>5, <4>3
    <3>8. version[c] = 1 \/ \E e \in Entries : e.id = k.id /\ e.version = version[c] - 1
      <4>1. CASE latest[k.id] = 0
        BY <3>1, <4>1
      <4>2. CASE latest[k.id] # 0
        <5> DEFINE prior == [id |-> k.id, version |-> latest[k.id]]
        <5>1. prior \in Ref
          BY <3>5, <4>2 DEF Ref, TypeOK, NoVersion
        <5>2. prior \in Refs
          BY <3>5, <5>1 DEF TableInv, LatestIsNewest
        <5>3. PICK r \in artifacts : RefOf(r) = prior
          BY <5>2 DEF Refs
        <5>4. EntryOf(r).id = k.id /\ EntryOf(r).version = version[c] - 1
          BY <3>1, <3>5, <5>3 DEF RefOf, EntryOf
        <5>5. QED
          BY <3>4, <5>4
      <4>3. QED
        BY <4>1, <4>2
    <3>9. ASSUME NEW a \in k.refs PROVE \E e \in Entries : e.id = a
      <4>1. PICK r \in artifacts : RefOf(r) = [id |-> a, version |-> latest[a]]
        BY <3>2 DEF Exists, Refs
      <4>2. EntryOf(r).id = a
        BY <4>1 DEF RefOf, EntryOf
      <4>3. QED
        BY <3>4, <4>2
    <3>10. Entries' = Entries \cup {entry}
      <4>1. EntryOf(row) = entry
        BY DEF EntryOf
      <4>2. Entries = {EntryOf(r) : r \in artifacts} /\ Entries' = {EntryOf(r) : r \in artifacts'}
        BY DEF Entries, EntryOf
      <4> HIDE DEF row, entry
      <4>3. QED
        BY <3>2, <4>1, <4>2
    <3>11. StaleRefs' = StaleRefs
      <4>1. row.status # "STALE"
        OBVIOUS
      <4> HIDE DEF row
      <4>2. {s \in artifacts' : s.status = "STALE"} = {s \in artifacts : s.status = "STALE"}
        BY <3>2, <4>1
      <4>3. QED
        BY <4>2 DEF StaleRefs, RefOf
    <3>12. Ledger!Append(k, version[c])
      BY <3>2, <3>6, <3>7, <3>8, <3>9, <3>10, <3>11 DEF Ledger!Append
    <3>13. QED
      BY <3>1, <3>5, <3>12 DEF Ledger!Next
  <2>2. ASSUME NEW c \in Client, CommitReplay(c) PROVE UNCHANGED Ledger!vars
    <3>1. idempotency[call[c].key] \in Ref /\ call[c].key \in Key
      BY <2>2, CallFields DEF CommitReplay, Replayed, TypeOK
    <3>2. PICK r \in artifacts : r.call.key = call[c].key /\ RefOf(r) = idempotency[call[c].key]
      BY <2>2, <3>1 DEF CommitReplay, Replayed, TableInv, KeysIndex
    <3>3. [key |-> call[c].key, ref |-> idempotency[call[c].key]] \in answers
      BY <2>2, <3>1, <3>2 DEF TableInv, KeysIndex
    <3>4. QED
      BY <2>2, <3>3 DEF CommitReplay, Answer, tables, Ledger!vars, Entries, StaleRefs, RefOf
  <2>3. CASE MarkStale
    <3>1. artifacts' = SetStatus(artifacts, marking, "STALE") /\ artifacts \in SUBSET Row
      BY <2>3 DEF MarkStale, TypeOK
    <3>2. UNCHANGED <<revision, answers>>
      BY <2>3 DEF MarkStale, history
    <3>3. Entries' = Entries
      <4>1. /\ \A r \in artifacts' : \E s \in artifacts :
                 r.id = s.id /\ r.version = s.version /\ r.call = s.call
            /\ \A s \in artifacts : \E r \in artifacts' :
                 r.id = s.id /\ r.version = s.version /\ r.call = s.call
        BY <2>3, MarkStaleEntries
      <4>2. QED
        BY <4>1 DEF Entries
    <3>4. CASE \E r \in artifacts : RefOf(r) = marking
      <4>1. PICK r \in artifacts : RefOf(r) = marking
        BY <3>4
      <4>2. \A s \in artifacts' : \E q \in artifacts :
               RefOf(s) = RefOf(q) /\ (s.status = "STALE" <=> q.status = "STALE" \/ RefOf(q) = marking)
        <5>1. ASSUME NEW s \in artifacts'
              PROVE \E q \in artifacts :
               RefOf(s) = RefOf(q) /\ (s.status = "STALE" <=> q.status = "STALE" \/ RefOf(q) = marking)
          <6>1. PICK q \in artifacts : /\ s.id = q.id /\ s.version = q.version
                   /\ s = IF RefOf(q) = marking THEN [q EXCEPT !.status = "STALE"] ELSE q
            BY <3>1, SetStatusRows
          <6>2. q \in Row
            BY <3>1
          <6>3. RefOf(s) = RefOf(q)
            BY <6>1 DEF RefOf
          <6>4. s.status = "STALE" <=> q.status = "STALE" \/ RefOf(q) = marking
            BY <6>1, <6>2 DEF Row
          <6>5. QED
            BY <6>3, <6>4
        <5>2. QED
          BY <5>1
      <4>3. ASSUME NEW q \in artifacts, q.status = "STALE" \/ RefOf(q) = marking
            PROVE  \E s \in artifacts' : RefOf(s) = RefOf(q) /\ s.status = "STALE"
        <5>1. PICK s \in artifacts' : /\ s.id = q.id /\ s.version = q.version
                                      /\ q.status = "STALE" => s.status = "STALE"
          BY <3>1, SetStatusRows
        <5>2. RefOf(s) = RefOf(q)
          BY <5>1 DEF RefOf
        <5>3. QED
          BY <4>2, <4>3, <5>1, <5>2
      <4>4. StaleRefs' = StaleRefs \cup {marking}
        <5>1. /\ StaleRefs = {RefOf(x) : x \in {s \in artifacts : s.status = "STALE"}}
              /\ StaleRefs' = {RefOf(x) : x \in {s \in artifacts' : s.status = "STALE"}}
          BY DEF StaleRefs, RefOf
        <5>2. ASSUME NEW x \in StaleRefs' PROVE x \in StaleRefs \cup {marking}
          BY <4>2, <5>1
        <5>3. ASSUME NEW x \in StaleRefs \cup {marking} PROVE x \in StaleRefs'
          BY <4>1, <4>3, <5>1
        <5>4. QED
          BY <5>2, <5>3
      <4>5. EntryOf(r) \in Entries /\ Ledger!EntryRef(EntryOf(r)) = marking
        BY <4>1 DEF Entries, EntryOf, Ledger!EntryRef, RefOf
      <4>6. Ledger!MarkStale(EntryOf(r))
        BY <3>2, <3>3, <4>4, <4>5 DEF Ledger!MarkStale
      <4>7. QED
        BY <4>5, <4>6 DEF Ledger!Next
    <3>5. CASE ~\E r \in artifacts : RefOf(r) = marking
      <4>1. artifacts' = {r : r \in artifacts}
        BY <3>1, <3>5 DEF SetStatus
      <4>2. QED
        BY <3>2, <4>1 DEF Ledger!vars, Entries, StaleRefs, RefOf
    <3>6. QED
      BY <3>4, <3>5
  <2>4. CASE UNCHANGED <<artifacts, revision, answers>>
    BY <2>4 DEF Ledger!vars, Entries, StaleRefs, RefOf
  <2>5. QED
    <3>1. \/ \E c \in Client : CommitInsert(c) \/ CommitReplay(c)
          \/ MarkStale
          \/ UNCHANGED <<artifacts, revision, answers>>
      BY DEF Next, ClientStep, ReadCurrent, ReadRevision, CommitReject, LinkInput,
             LinkDone, Crash, MarkRead, vars, tables, history
    <3>2. QED
      BY <2>1, <2>2, <2>3, <2>4, <3>1
<1>3. QED
  BY <1>1, <1>2, TypeCorrect, StoreInvariant, PTL DEF Spec, ImplementsLedger, Ledger!Spec

===============================================================================
