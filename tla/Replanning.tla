------------------------------ MODULE Replanning ------------------------------
(***************************************************************************)
(* ReplanningCoordinator.apply_change(): from the list of artifacts and    *)
(* the graph of a finished run, ImpactAnalyzer.analyze() works out what a  *)
(* changed constraint affects, by a breadth-first search from each         *)
(* artifact that depends on it; then the coordinator marks that STALE in   *)
(* the store, one get() and one mark_status() each, while the store's      *)
(* other clients commit newer versions.                                    *)
(***************************************************************************)
EXTENDS Naturals, FiniteSets

CONSTANTS
  Artifact,       \* the nodes of the graph
  Listed,         \* all_artifacts: those whose envelopes the caller passes
  Stored,         \* those that are in the store when the call begins
  Type, TypeOf,   \* artifact_type
  Impact,         \* the types CONSTRAINT_PATH_IMPACT has for the changed path
  MarketTypes,    \* the types owned by gap2sku-market
  RoleOf,         \* ROLE_BY_TYPE, None for a type it lacks
  PossibleEdges,  \* BOUND on the edges of the graph
  Others,         \* BOUND on the artifacts that other clients commit
  MaxVersion      \* BOUND on the versions of an artifact

None == "none"

Market == "gap2sku-market"

ASSUME GraphAssumption ==
  /\ Listed \subseteq Artifact /\ Stored \subseteq Artifact
  /\ TypeOf \in [Artifact -> Type]
  /\ PossibleEdges \subseteq Artifact \X Artifact
  /\ MaxVersion \in Nat \ {0}

VARIABLES
  edges,      \* the graph: <<src, dst>>, dst derived from src
  dependent,  \* the artifacts with the changed path in constraint_dependencies
  phase,      \* where apply_change() is
  roots,      \* directly_affected still to be searched from
  root,       \* inside downstream(): the artifact searched from
  visited, queue,
  stale,      \* the set stale of analyze()
  marks,      \* stale_artifacts + recompute_artifacts still to be marked
  held,       \* {} or {<<a, v>>}: the version that get() returned for one of them
  skipped,    \* plan.skipped_agents
  version,    \* table artifact_meta: the latest version, 0 without a row
  status      \* table artifacts: status of each version

search == <<roots, root, visited, queue, stale>>
store == <<version, status>>
vars == <<edges, dependent, phase, search, marks, held, skipped, store>>

Version == 1..MaxVersion

Succ(a) == {b \in Artifact : <<a, b>> \in edges}

\* By its constraint_dependencies, or by its type.
DirectlyAffected == {a \in Listed : a \in dependent \/ TypeOf[a] \in Impact}

-----------------------------------------------------------------------------

Init ==
  /\ edges \in SUBSET PossibleEdges
  /\ dependent \in SUBSET Listed
  /\ phase = "analyze"
  /\ roots = {} /\ root = None /\ visited = {} /\ queue = {} /\ stale = {}
  /\ marks = {} /\ held = {}
  /\ skipped = {}
  /\ version = [a \in Artifact |-> IF a \in Stored THEN 1 ELSE 0]
  /\ status = [a \in Artifact |-> [v \in Version |-> "VALID"]]

Analyze ==
  /\ phase = "analyze"
  /\ roots' = DirectlyAffected
  /\ phase' = "search"
  /\ UNCHANGED <<edges, dependent, root, visited, queue, stale, marks, held, skipped, store>>

\* downstream(aid): the queue begins with aid, which is not visited.
SearchFrom(a) ==
  /\ phase = "search" /\ a \in roots
  /\ roots' = roots \ {a}
  /\ root' = a
  /\ visited' = {}
  /\ queue' = {a}
  /\ phase' = "downstream"
  /\ UNCHANGED <<edges, dependent, stale, marks, held, skipped, store>>

\* FAULTY VARIANTS, here and below: no specification uses them, they stand in
\* for a definition when the properties are tested for what they can detect.
EveryChild(a) == Succ(a)
NewParents(a) == {b \in Artifact : <<b, a>> \in edges} \ visited

\* `if edge.dst not in visited`, over the edges of a node.
NewChildren(a) == Succ(a) \ visited

\* One round of the search.  The queue is first-in-first-out; any order finds
\* the same nodes.
Visit(a) ==
  /\ phase = "downstream" /\ a \in queue
  /\ visited' = visited \cup NewChildren(a)
  /\ queue' = (queue \ {a}) \cup NewChildren(a)
  /\ UNCHANGED <<edges, dependent, phase, roots, root, stale, marks, held, skipped, store>>

RootForgotten == stale \cup visited

\* `stale.add(aid); stale.update(self.graph.downstream(aid))`
Found == stale \cup {root} \cup visited

SearchDone ==
  /\ phase = "downstream" /\ queue = {}
  /\ stale' = Found
  /\ root' = None /\ visited' = {}
  /\ phase' = "search"
  /\ UNCHANGED <<edges, dependent, roots, queue, marks, held, skipped, store>>

AffectedTypes == {TypeOf[a] : a \in stale \cap Listed}

\* A role is skipped for each of its types that is not affected, except Market
\* if any of its types is.
SkippedAgents ==
  {RoleOf[t] : t \in {u \in Type : RoleOf[u] # None /\ u \notin AffectedTypes}}
    \ (IF AffectedTypes \cap MarketTypes # {} THEN {Market} ELSE {})

OnlyRecomputed == DirectlyAffected

\* `plan.stale_artifacts + plan.recompute_artifacts`
ToMark == stale

Plan ==
  /\ phase = "search" /\ roots = {}
  /\ skipped' = SkippedAgents
  /\ marks' = ToMark
  /\ phase' = "mark"
  /\ UNCHANGED <<edges, dependent, search, held, store>>

\* `art = self.store.get(aid)`, which may find nothing.
Row(a) == IF version[a] = 0 THEN {} ELSE {<<a, version[a]>>}

Get(a) ==
  /\ phase = "mark" /\ held = {} /\ a \in marks
  /\ marks' = marks \ {a}
  /\ held' = Row(a)
  /\ UNCHANGED <<edges, dependent, phase, search, skipped, store>>

\* `self.store.mark_status(aid, art.artifact_version, "STALE")`
MarkStale ==
  /\ phase = "mark"
  /\ \E h \in held : status' = [status EXCEPT ![h[1]][h[2]] = "STALE"]
  /\ held' = {}
  /\ UNCHANGED <<edges, dependent, phase, search, marks, skipped, version>>

Return ==
  /\ phase = "mark" /\ marks = {} /\ held = {}
  /\ phase' = "done"
  /\ UNCHANGED <<edges, dependent, search, marks, held, skipped, store>>

\* Another client commits an artifact, or a newer version of it.
Commit(a) ==
  /\ a \in Others /\ version[a] < MaxVersion
  /\ version' = [version EXCEPT ![a] = @ + 1]
  /\ UNCHANGED <<edges, dependent, phase, search, marks, held, skipped, status>>

ApplyChange ==
  \/ Analyze \/ SearchDone \/ Plan \/ MarkStale \/ Return
  \/ \E a \in Artifact : SearchFrom(a) \/ Visit(a) \/ Get(a)

Next == ApplyChange \/ \E a \in Artifact : Commit(a)

Spec == Init /\ [][Next]_vars /\ WF_vars(ApplyChange)

-----------------------------------------------------------------------------
\* Reachability, without reference to any search: what every set that holds S
\* and is closed under derivation has in it.

Closed(C) == \A a \in C : Succ(a) \subseteq C

Reach(S) == {a \in Artifact : \A C \in SUBSET Artifact : S \subseteq C /\ Closed(C) => a \in C}

Affected == Reach(DirectlyAffected)

-----------------------------------------------------------------------------
\* Properties

TypeOK ==
  /\ edges \subseteq PossibleEdges
  /\ dependent \subseteq Listed
  /\ phase \in {"analyze", "search", "downstream", "mark", "done"}
  /\ roots \subseteq Artifact
  /\ root \in Artifact \cup {None}
  /\ visited \subseteq Artifact /\ queue \subseteq Artifact
  /\ stale \subseteq Artifact /\ marks \subseteq Artifact
  /\ held \subseteq Artifact \X Version /\ Cardinality(held) <= 1
  /\ version \in [Artifact -> 0..MaxVersion]
  /\ status \in [Artifact -> [Version -> {"VALID", "STALE"}]]

\* The plan recomputes or marks stale exactly what derives from an artifact
\* that depends on the change, in any graph, cyclic or not.
PlanIsReachability == phase \in {"mark", "done"} => stale = Affected

\* "Unaffected artifacts keep id/version/hash" (impact.py:12): no version of
\* an artifact outside the reach of the change is ever marked.
UnaffectedKept ==
  \A a \in Artifact \ Affected : \A v \in Version : status[a][v] = "VALID"

\* When apply_change() returns, each affected artifact that the store had when
\* it began is STALE in some version, whatever else was committed meanwhile.
AffectedMarked ==
  phase = "done" =>
    \A a \in Affected \cap Stored : \E v \in 1..version[a] : status[a][v] = "STALE"

\* The search comes to its end in any graph, and so does apply_change().
Returns == <>(phase = "done")

=============================================================================
