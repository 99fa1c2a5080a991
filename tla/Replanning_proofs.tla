-------------------------- MODULE Replanning_proofs --------------------------
(***************************************************************************)
(* Theorems about Replanning, for every graph, cyclic or not, and whatever *)
(* other clients of the store commit meanwhile.  Only StepsCount, which    *)
(* counts artifacts, supposes that the graph is finite.                    *)
(***************************************************************************)
EXTENDS Replanning, FiniteSetTheorems, TLAPS

\* Inside downstream(root): every node that has left the queue has all its
\* children among the visited ones, and a visited node is one that is reached.
SearchInv ==
  phase = "downstream" =>
    /\ root \in Artifact
    /\ queue \subseteq visited \cup {root}
    /\ \A a \in (visited \cup {root}) \ queue : Succ(a) \subseteq visited
    /\ visited \cup {root} \subseteq Affected

\* What the searches have found so far is closed under derivation, has the
\* roots already searched from, and nothing that is not reached.
StaleInv ==
  /\ Closed(stale)
  /\ stale \subseteq Affected
  /\ roots \subseteq DirectlyAffected
  /\ phase = "search" => DirectlyAffected \subseteq stale \cup roots
  /\ phase = "downstream" => DirectlyAffected \subseteq stale \cup roots \cup {root}
  /\ phase \in {"mark", "done"} => DirectlyAffected \subseteq stale

MarkInv ==
  /\ marks \subseteq Affected
  /\ \A h \in held : h[1] \in Affected
  /\ phase \notin {"mark", "done"} => marks = {} /\ held = {}

IInv == TypeOK /\ SearchInv /\ StaleInv /\ MarkInv /\ UnaffectedKept

-----------------------------------------------------------------------------
\* Reachability.

LEMMA ReachHasRoots ==
  ASSUME NEW S, S \subseteq Artifact
  PROVE  S \subseteq Reach(S)
BY DEF Reach

LEMMA ReachIsClosed ==
  ASSUME NEW S
  PROVE  Closed(Reach(S))
<1>. SUFFICES ASSUME NEW a \in Reach(S), NEW b \in Succ(a),
                     NEW C \in SUBSET Artifact, S \subseteq C, Closed(C)
              PROVE  b \in C
  BY DEF Closed, Reach, Succ
<1>1. a \in C  BY DEF Reach
<1>. QED  BY <1>1 DEF Closed

LEMMA ReachIsLeast ==
  ASSUME NEW S, NEW C \in SUBSET Artifact, S \subseteq C, Closed(C)
  PROVE  Reach(S) \subseteq C
BY DEF Reach

\* The graph and the constraint dependencies are the same throughout.
LEMMA ReachKept ==
  ASSUME [Next]_vars
  PROVE  /\ edges' = edges /\ dependent' = dependent
         /\ DirectlyAffected' = DirectlyAffected
         /\ Affected' = Affected
         /\ \A a : Succ(a)' = Succ(a)
<1>1. edges' = edges /\ dependent' = dependent
  BY DEF Next, ApplyChange, Analyze, SearchFrom, Visit, SearchDone, Plan, Get, MarkStale, Return,
         Commit, vars
<1>2. DirectlyAffected' = DirectlyAffected  BY <1>1 DEF DirectlyAffected
<1>3. \A a : Succ(a)' = Succ(a)  BY <1>1 DEF Succ
<1>4. \A C : Closed(C)' = Closed(C)  BY <1>3 DEF Closed
<1>5. Affected' = Affected  BY <1>2, <1>4 DEF Affected, Reach
<1>. QED  BY <1>1, <1>2, <1>3, <1>5

LEMMA AffectedType ==
  /\ DirectlyAffected \subseteq Affected
  /\ Affected \subseteq Artifact
  /\ Closed(Affected)
<1>1. DirectlyAffected \subseteq Artifact  BY GraphAssumption DEF DirectlyAffected
<1>. QED  BY <1>1, ReachHasRoots, ReachIsClosed DEF Affected, Reach

-----------------------------------------------------------------------------

LEMMA TypeKept ==
  ASSUME IInv, [Next]_vars
  PROVE  TypeOK'
<1>. USE DEF IInv, TypeOK
<1>1. \A a : Succ(a) \subseteq Artifact  BY DEF Succ
<1>2. Cardinality({}) = 0 /\ \A x : Cardinality({x}) = 1
  BY FS_EmptySet, FS_Singleton
<1>3. DirectlyAffected \subseteq Artifact  BY GraphAssumption DEF DirectlyAffected
<1>4. CASE Analyze
  BY <1>3, <1>4 DEF Analyze, store
<1>5. ASSUME NEW a \in Artifact, SearchFrom(a)  PROVE TypeOK'
  BY <1>5 DEF SearchFrom, store
<1>6. ASSUME NEW a \in Artifact, Visit(a)  PROVE TypeOK'
  BY <1>1, <1>6 DEF Visit, NewChildren, store
<1>7. CASE SearchDone
  BY <1>7 DEF SearchDone, Found, SearchInv, store
<1>8. CASE Plan
  BY <1>8 DEF Plan, ToMark, search, store
<1>9. ASSUME NEW a \in Artifact, Get(a)  PROVE TypeOK'
  <2>1. held' \subseteq Artifact \X Version /\ Cardinality(held') <= 1
    <3>1. CASE version[a] = 0
      BY <1>2, <1>9, <3>1 DEF Get, Row
    <3>2. CASE version[a] # 0
      <4>1. version[a] \in Version  BY <3>2, GraphAssumption DEF Version
      <4>2. held' = {<<a, version[a]>>}  BY <1>9, <3>2 DEF Get, Row
      <4>3. held' \subseteq Artifact \X Version  BY <4>1, <4>2
      <4>4. Cardinality(held') = 1  BY <1>2, <4>2, Zenon
      <4>. QED  BY <4>3, <4>4
    <3>. QED  BY <3>1, <3>2
  <2>. QED  BY <1>9, <2>1 DEF Get, search, store
<1>10. CASE MarkStale
  <2>1. PICK h \in held : status' = [status EXCEPT ![h[1]][h[2]] = "STALE"]
    BY <1>10 DEF MarkStale
  <2>2. h[1] \in Artifact /\ h[2] \in Version  BY <2>1
  <2>3. status' \in [Artifact -> [Version -> {"VALID", "STALE"}]]  BY <2>1, <2>2
  <2>4. held' = {} /\ UNCHANGED <<edges, dependent, phase, search, marks, skipped, version>>
    BY <1>10 DEF MarkStale
  <2>. QED  BY <1>2, <2>3, <2>4 DEF search
<1>11. CASE Return
  BY <1>11 DEF Return, search, store
<1>12. ASSUME NEW a \in Artifact, Commit(a)  PROVE TypeOK'
  BY <1>12, GraphAssumption DEF Commit, search
<1>13. CASE UNCHANGED vars
  BY <1>13 DEF vars, search, store
<1>. QED
  BY <1>4, <1>5, <1>6, <1>7, <1>8, <1>9, <1>10, <1>11, <1>12, <1>13 DEF Next, ApplyChange

LEMMA SearchKept ==
  ASSUME IInv, [Next]_vars
  PROVE  SearchInv'
<1>. USE DEF IInv
<1>1. /\ Affected' = Affected /\ \A a : Succ(a)' = Succ(a)
      /\ DirectlyAffected \subseteq Affected /\ Closed(Affected)
  BY ReachKept, AffectedType
<1>2. ASSUME NEW a \in Artifact, SearchFrom(a)  PROVE SearchInv'
  <2>1. a \in Affected  BY <1>1, <1>2 DEF SearchFrom, StaleInv
  <2>. QED  BY <1>1, <1>2, <2>1 DEF SearchFrom, SearchInv
<1>3. ASSUME NEW a \in Artifact, Visit(a)  PROVE SearchInv'
  <2>1. /\ visited' = visited \cup (Succ(a) \ visited)
        /\ queue' = (queue \ {a}) \cup (Succ(a) \ visited)
        /\ root' = root /\ phase = "downstream" /\ a \in queue
    BY <1>3 DEF Visit, NewChildren
  <2>2. Succ(a) \subseteq Affected
    BY <1>1, <2>1 DEF SearchInv, Closed
  <2>3. \A b \in (visited' \cup {root}) \ queue' : Succ(b) \subseteq visited'
    BY <2>1 DEF SearchInv
  <2>. QED  BY <1>1, <2>1, <2>2, <2>3 DEF SearchInv
<1>4. CASE SearchDone \/ Plan \/ Analyze
  BY <1>4 DEF SearchDone, Plan, Analyze, SearchInv
<1>5. ASSUME NEW a \in Artifact, Get(a) \/ MarkStale \/ Return \/ Commit(a)  PROVE SearchInv'
  BY <1>1, <1>5 DEF Get, MarkStale, Return, Commit, search, SearchInv
<1>6. CASE UNCHANGED vars
  BY <1>1, <1>6 DEF vars, search, SearchInv
<1>7. CASE MarkStale \/ Return
  BY <1>1, <1>7 DEF MarkStale, Return, search, SearchInv
<1>. QED  BY <1>2, <1>3, <1>4, <1>5, <1>6, <1>7 DEF Next, ApplyChange

LEMMA StaleKept ==
  ASSUME IInv, [Next]_vars
  PROVE  StaleInv'
<1>. USE DEF IInv
<1>1. /\ Affected' = Affected /\ (\A a : Succ(a)' = Succ(a))
      /\ DirectlyAffected' = DirectlyAffected
  BY ReachKept
<1>2. CASE Analyze
  BY <1>1, <1>2 DEF Analyze, StaleInv, Closed
<1>3. ASSUME NEW a \in Artifact, SearchFrom(a)  PROVE StaleInv'
  BY <1>1, <1>3 DEF SearchFrom, StaleInv, Closed
<1>4. ASSUME NEW a \in Artifact, Visit(a)  PROVE StaleInv'
  BY <1>1, <1>4 DEF Visit, StaleInv, Closed
<1>5. CASE SearchDone
  <2>1. \A a \in visited \cup {root} : Succ(a) \subseteq visited
    BY <1>5 DEF SearchDone, SearchInv
  <2>2. stale' = stale \cup {root} \cup visited /\ roots' = roots /\ phase' = "search"
    BY <1>5 DEF SearchDone, Found
  <2>3. Closed(stale)'
    BY <1>1, <2>1, <2>2 DEF StaleInv, Closed
  <2>4. stale' \subseteq Affected /\ phase = "downstream"
    BY <1>5, <2>2 DEF SearchDone, SearchInv, StaleInv
  <2>. QED  BY <1>1, <2>2, <2>3, <2>4 DEF StaleInv
<1>6. CASE Plan
  BY <1>1, <1>6 DEF Plan, search, StaleInv, Closed
<1>7. ASSUME NEW a \in Artifact, Get(a) \/ Commit(a)  PROVE StaleInv'
  BY <1>1, <1>7 DEF Get, Commit, search, StaleInv, Closed
<1>8. CASE MarkStale \/ Return \/ UNCHANGED vars
  BY <1>1, <1>8 DEF MarkStale, Return, vars, search, StaleInv, Closed
<1>. QED  BY <1>2, <1>3, <1>4, <1>5, <1>6, <1>7, <1>8 DEF Next, ApplyChange

LEMMA MarkKept ==
  ASSUME IInv, [Next]_vars
  PROVE  MarkInv'
<1>. USE DEF IInv
<1>1. Affected' = Affected  BY ReachKept
<1>2. CASE Plan
  BY <1>1, <1>2 DEF Plan, ToMark, MarkInv, StaleInv
<1>3. ASSUME NEW a \in Artifact, Get(a)  PROVE MarkInv'
  <2>1. a \in Affected /\ marks' \subseteq marks /\ \A h \in held' : h[1] = a
    BY <1>3 DEF Get, Row, MarkInv
  <2>. QED  BY <1>1, <1>3, <2>1 DEF Get, MarkInv
<1>4. CASE MarkStale \/ Return \/ Analyze \/ SearchDone \/ UNCHANGED vars
  BY <1>1, <1>4 DEF MarkStale, Return, Analyze, SearchDone, vars, MarkInv
<1>5. ASSUME NEW a \in Artifact, SearchFrom(a) \/ Visit(a) \/ Commit(a)  PROVE MarkInv'
  BY <1>1, <1>5 DEF SearchFrom, Visit, Commit, MarkInv
<1>. QED  BY <1>2, <1>3, <1>4, <1>5 DEF Next, ApplyChange

LEMMA KeptKept ==
  ASSUME IInv, [Next]_vars
  PROVE  UnaffectedKept'
<1>. USE DEF IInv
<1>1. Affected' = Affected  BY ReachKept
<1>2. CASE MarkStale
  <2>1. PICK h \in held : status' = [status EXCEPT ![h[1]][h[2]] = "STALE"]
    BY <1>2 DEF MarkStale
  <2>2. h[1] \in Affected  BY <2>1 DEF MarkInv
  <2>. QED  BY <1>1, <2>1, <2>2 DEF UnaffectedKept, TypeOK
<1>3. CASE UNCHANGED status
  BY <1>1, <1>3 DEF UnaffectedKept
<1>4. MarkStale \/ UNCHANGED status
  BY DEF Next, ApplyChange, Analyze, SearchFrom, Visit, SearchDone, Plan, Get, Return, Commit,
         vars, store
<1>. QED  BY <1>2, <1>3, <1>4

LEMMA InitHolds == Init => IInv
<1>. SUFFICES ASSUME Init PROVE IInv  OBVIOUS
<1>1. TypeOK
  BY FS_EmptySet, GraphAssumption DEF Init, TypeOK, None
<1>. QED  BY <1>1 DEF Init, IInv, SearchInv, StaleInv, MarkInv, UnaffectedKept, Closed

LEMMA InvariantHolds == Spec => []IInv
<1>1. IInv /\ [Next]_vars => IInv'
  BY TypeKept, SearchKept, StaleKept, MarkKept, KeptKept DEF IInv
<1>. QED  BY <1>1, InitHolds, PTL DEF Spec

-----------------------------------------------------------------------------

\* Every reachable state is well-typed; in particular what is marked is a
\* version that get() found.
THEOREM TypeCorrect == Spec => []TypeOK
<1>1. IInv => TypeOK  BY DEF IInv
<1>. QED  BY <1>1, InvariantHolds, PTL

\* Whatever the graph, analyze() finds exactly what derives from an artifact
\* that depends on the change: the search misses nothing and adds nothing.
THEOREM PlanExact == Spec => []PlanIsReachability
<1>1. IInv => PlanIsReachability
  <2>. SUFFICES ASSUME IInv, phase \in {"mark", "done"}  PROVE stale = Affected
    BY DEF PlanIsReachability
  <2>1. stale \in SUBSET Artifact /\ DirectlyAffected \subseteq stale /\ Closed(stale)
        /\ stale \subseteq Affected
    BY DEF IInv, TypeOK, StaleInv
  <2>2. Affected \subseteq stale  BY <2>1, ReachIsLeast DEF Affected
  <2>. QED  BY <2>1, <2>2
<1>. QED  BY <1>1, InvariantHolds, PTL

\* No version of an artifact outside the reach of the change is ever marked.
THEOREM UnaffectedSafe == Spec => []UnaffectedKept
<1>1. IInv => UnaffectedKept  BY DEF IInv
<1>. QED  BY <1>1, InvariantHolds, PTL

-----------------------------------------------------------------------------
\* That nothing affected is passed over when the plan is carried out.

\* An affected artifact that was in the store at first is still to be looked
\* up, or its version is held, or one of its versions is marked.
Covered(a) ==
  \/ a \in marks
  \/ \E h \in held : h[1] = a
  \/ \E v \in 1..version[a] : status[a][v] = "STALE"

CoverInv ==
  /\ \A a \in Stored : version[a] >= 1
  /\ \A g, h \in held : g = h
  /\ \A h \in held : h[2] \in 1..version[h[1]]
  /\ phase \in {"mark", "done"} => \A a \in Affected \cap Stored : Covered(a)
  /\ phase = "done" => marks = {} /\ held = {}

LEMMA CoverInit == Init => CoverInv
BY GraphAssumption DEF Init, CoverInv

\* Versions and marks only grow, so a marked artifact stays marked.
LEMMA MarkedStays ==
  ASSUME TypeOK, [Next]_vars, NEW a \in Artifact,
         \E v \in 1..version[a] : status[a][v] = "STALE"
  PROVE  \E v \in 1..version'[a] : status'[a][v] = "STALE"
<1>1. PICK v \in 1..version[a] : status[a][v] = "STALE"  OBVIOUS
<1>2. version[a] \in Nat /\ version[a] <= MaxVersion /\ MaxVersion \in Nat
  BY GraphAssumption DEF TypeOK
<1>3. v \in Version  BY <1>2 DEF Version
<1>4. CASE MarkStale
  <2>1. PICK h \in held : status' = [status EXCEPT ![h[1]][h[2]] = "STALE"]
    BY <1>4 DEF MarkStale
  <2>2. status'[a][v] = "STALE"  BY <1>1, <1>3, <2>1 DEF TypeOK
  <2>. QED  BY <1>4, <2>2 DEF MarkStale
<1>5. ASSUME NEW b \in Artifact, Commit(b)  PROVE v \in 1..version'[a] /\ status' = status
  <2>1. version' = [version EXCEPT ![b] = @ + 1] /\ status' = status  BY <1>5 DEF Commit
  <2>. QED  BY <1>2, <2>1 DEF TypeOK
<1>6. CASE UNCHANGED store
  BY <1>6 DEF store
<1>7. MarkStale \/ UNCHANGED store \/ \E b \in Artifact : Commit(b)
  BY DEF Next, ApplyChange, Analyze, SearchFrom, Visit, SearchDone, Plan, Get, Return, vars, store
<1>. QED  BY <1>1, <1>4, <1>5, <1>6, <1>7

LEMMA CoverKept ==
  ASSUME IInv, CoverInv, [Next]_vars
  PROVE  CoverInv'
<1>. USE DEF IInv
<1>1. Affected' = Affected /\ Affected \subseteq Artifact
  BY ReachKept, AffectedType
<1>2. \A a \in Affected \cap Stored :
        (\E v \in 1..version[a] : status[a][v] = "STALE")
          => \E v \in 1..version'[a] : status'[a][v] = "STALE"
  BY <1>1, MarkedStays
<1>3. CASE Plan
  <2>1. phase' = "mark" /\ marks' = stale /\ held' = held /\ version' = version
    BY <1>3 DEF Plan, ToMark, store
  <2>2. Affected \subseteq stale
    <3>1. stale \in SUBSET Artifact /\ DirectlyAffected \subseteq stale /\ Closed(stale)
      BY <1>3 DEF Plan, TypeOK, StaleInv
    <3>. QED  BY <3>1, ReachIsLeast DEF Affected
  <2>. QED  BY <1>1, <2>1, <2>2 DEF CoverInv, Covered
<1>4. ASSUME NEW b \in Artifact, Get(b)  PROVE CoverInv'
  <2>1. /\ held' = Row(b) /\ marks' = marks \ {b} /\ held = {}
        /\ phase = "mark" /\ phase' = phase /\ version' = version /\ status' = status
    BY <1>4 DEF Get, store
  <2>2. version[b] \in Nat  BY DEF TypeOK
  <2>3. /\ \A h \in held' : h = <<b, version[b]>> /\ version[b] # 0
        /\ version[b] # 0 => <<b, version[b]>> \in held'
    BY <2>1 DEF Row
  <2>4. ASSUME NEW a \in Affected \cap Stored  PROVE Covered(a)'
    <3>1. Covered(a)  BY <2>1 DEF CoverInv
    <3>2. CASE a = b
      <4>1. version[b] # 0  BY <2>2, <3>2 DEF CoverInv
      <4>2. <<b, version[b]>> \in held' /\ <<b, version[b]>>[1] = a
        BY <2>3, <3>2, <4>1
      <4>. QED  BY <4>2 DEF Covered
    <3>3. CASE a # b
      BY <2>1, <3>1, <3>3 DEF Covered
    <3>. QED  BY <3>2, <3>3
  <2>5. \A h \in held' : h[2] \in 1..version'[h[1]]
    BY <2>1, <2>2, <2>3
  <2>6. \A g, h \in held' : g = h  BY <2>3
  <2>. QED  BY <1>1, <2>1, <2>4, <2>5, <2>6 DEF CoverInv
<1>5. CASE MarkStale
  <2>1. PICK h \in held : status' = [status EXCEPT ![h[1]][h[2]] = "STALE"]
    BY <1>5 DEF MarkStale
  <2>2. /\ held' = {} /\ marks' = marks /\ version' = version
        /\ phase = "mark" /\ phase' = phase
    BY <1>5 DEF MarkStale
  <2>3. h[2] \in 1..version[h[1]] /\ \A g \in held : g = h  BY DEF CoverInv
  <2>4. status'[h[1]][h[2]] = "STALE"
    BY <2>1 DEF TypeOK
  <2>5. ASSUME NEW a \in Affected \cap Stored  PROVE Covered(a)'
    <3>1. Covered(a)  BY <2>2 DEF CoverInv
    <3>2. CASE a = h[1]
      BY <2>2, <2>3, <2>4, <3>2 DEF Covered
    <3>3. CASE a # h[1]
      BY <1>2, <2>2, <2>3, <3>1, <3>3 DEF Covered
    <3>. QED  BY <3>2, <3>3
  <2>. QED  BY <1>1, <2>2, <2>5 DEF CoverInv
<1>6. ASSUME NEW b \in Artifact, Commit(b)  PROVE CoverInv'
  <2>1. /\ version' = [version EXCEPT ![b] = @ + 1]
        /\ phase' = phase /\ marks' = marks /\ held' = held
    BY <1>6 DEF Commit
  <2>2. \A a \in Artifact : version[a] \in Nat /\ version'[a] \in Nat /\ version[a] <= version'[a]
    BY <2>1 DEF TypeOK
  <2>3. \A h \in held : h[1] \in Artifact  BY DEF TypeOK
  <2>4. \A h \in held : h[2] \in 1..version'[h[1]]
    BY <2>2, <2>3 DEF CoverInv
  <2>5. \A a \in Stored : version'[a] >= 1
    BY <2>2, GraphAssumption DEF CoverInv
  <2>6. \A a \in Affected \cap Stored : Covered(a) => Covered(a)'
    BY <1>2, <2>1 DEF Covered
  <2>. QED  BY <1>1, <2>1, <2>4, <2>5, <2>6 DEF CoverInv
<1>7. CASE Return
  BY <1>1, <1>7 DEF Return, search, store, CoverInv, Covered
<1>8. CASE Analyze \/ SearchDone \/ UNCHANGED vars
  BY <1>1, <1>8 DEF Analyze, SearchDone, vars, store, CoverInv, Covered
<1>9. ASSUME NEW b \in Artifact, SearchFrom(b) \/ Visit(b)  PROVE CoverInv'
  BY <1>1, <1>9 DEF SearchFrom, Visit, store, CoverInv, Covered
<1>. QED  BY <1>3, <1>4, <1>5, <1>6, <1>7, <1>8, <1>9 DEF Next, ApplyChange

\* When apply_change() returns, every affected artifact that was in the store
\* has a version that is STALE, whatever was committed meanwhile.
THEOREM AffectedSafe == Spec => []AffectedMarked
<1>1. IInv /\ CoverInv /\ [Next]_vars => CoverInv'
  BY CoverKept
<1>2. CoverInv => AffectedMarked
  BY DEF CoverInv, Covered, AffectedMarked
<1>. QED  BY <1>1, <1>2, CoverInit, InvariantHolds, PTL DEF Spec

-----------------------------------------------------------------------------
\* apply_change() gets on: the safety half of Returns.

\* What is left to do, the coarsest first: the phases, the roots to be searched
\* from, the search in progress, its nodes, the artifacts to be marked.
PhasesLeft ==
  CASE phase = "analyze" -> 3
    [] phase \in {"search", "downstream"} -> 2
    [] phase = "mark" -> 1
    [] OTHER -> 0

SearchesLeft == IF phase = "downstream" THEN 1 ELSE 0

NodesLeft == 2 * (Cardinality(Artifact) - Cardinality(visited)) + Cardinality(queue)

MarksLeft == 2 * Cardinality(marks) + Cardinality(held)

Work == <<PhasesLeft, Cardinality(roots), SearchesLeft, NodesLeft, MarksLeft>>

\* Less work, in the lexicographic order of five natural numbers.
Less(v, w) == \E i \in 1..5 : v[i] < w[i] /\ \A j \in 1..(i - 1) : v[j] = w[j]

WorkIsNatural == \A i \in 1..5 : Work[i] \in Nat

\* Every step of apply_change() leaves less to do, whatever the graph and
\* whatever other clients commit, which changes nothing about it.
EveryStepCounts ==
  [][/\ ApplyChange => Less(Work', Work)
     /\ ~ApplyChange => Work' = Work]_vars

LEMMA SizesNatural ==
  ASSUME IsFiniteSet(Artifact), TypeOK
  PROVE  /\ IsFiniteSet(roots) /\ Cardinality(roots) \in Nat
         /\ IsFiniteSet(marks) /\ Cardinality(marks) \in Nat
         /\ IsFiniteSet(queue) /\ Cardinality(queue) \in Nat
         /\ IsFiniteSet(visited) /\ Cardinality(visited) \in Nat
         /\ Cardinality(Artifact) \in Nat /\ Cardinality(visited) <= Cardinality(Artifact)
<1>1. \A S \in SUBSET Artifact :
        IsFiniteSet(S) /\ Cardinality(S) \in Nat /\ Cardinality(S) <= Cardinality(Artifact)
  BY FS_Subset, FS_CardinalityType
<1>2. Cardinality(Artifact) \in Nat
  BY FS_CardinalityType
<1>. QED  BY <1>1, <1>2 DEF TypeOK

\* At most one version is held.
LEMMA HeldNatural ==
  ASSUME CoverInv
  PROVE  Cardinality(held) \in Nat /\ (held # {} => Cardinality(held) = 1)
<1>1. CASE held = {}
  BY <1>1, FS_EmptySet
<1>2. CASE held # {}
  <2>1. PICK h \in held : TRUE  BY <1>2
  <2>2. held = {h}  BY <2>1 DEF CoverInv
  <2>. QED  BY <2>2, FS_Singleton
<1>. QED  BY <1>1, <1>2

\* A round of the search takes one node off the queue and puts on it only nodes
\* it has not met before.
LEMMA VisitCounts ==
  ASSUME IsFiniteSet(Artifact), TypeOK, TypeOK', NEW a \in Artifact, Visit(a)
  PROVE  NodesLeft' < NodesLeft
<1> DEFINE new == NewChildren(a)
           rest == queue \ {a}
<1>1. /\ IsFiniteSet(queue) /\ Cardinality(queue) \in Nat
      /\ IsFiniteSet(visited) /\ Cardinality(visited) \in Nat
      /\ Cardinality(Artifact) \in Nat
  BY SizesNatural
<1>2. new \subseteq Artifact /\ new \cap visited = {}
  BY DEF NewChildren, Succ
<1>3. IsFiniteSet(new) /\ Cardinality(new) \in Nat
  BY <1>2, FS_Subset, FS_CardinalityType
<1>4. visited' = visited \cup new /\ queue' = rest \cup new /\ a \in queue
  BY DEF Visit
<1>. HIDE DEF new
<1>5. Cardinality(visited') = Cardinality(visited) + Cardinality(new)
  <2>1. visited \cap new = {}  BY <1>2
  <2>2. Cardinality(visited \cap new) = 0  BY <2>1, FS_EmptySet
  <2>3. Cardinality(visited \cup new)
          = Cardinality(visited) + Cardinality(new) - Cardinality(visited \cap new)
    BY <1>1, <1>3, FS_Union
  <2>. QED  BY <1>1, <1>3, <1>4, <2>2, <2>3
<1>6. IsFiniteSet(rest) /\ Cardinality(rest) = Cardinality(queue) - 1
  BY <1>1, <1>4, FS_RemoveElement
<1>. HIDE DEF rest
<1>7. IsFiniteSet(rest \cap new) /\ Cardinality(rest \cap new) \in Nat
  BY <1>3, FS_Subset, FS_CardinalityType
<1>8. Cardinality(queue') = Cardinality(rest) + Cardinality(new) - Cardinality(rest \cap new)
  BY <1>3, <1>4, <1>6, FS_Union
<1>. QED  BY <1>1, <1>3, <1>5, <1>6, <1>7, <1>8 DEF NodesLeft

\* The order of the work, spelled out.
LEMMA LessWhen ==
  ASSUME WorkIsNatural,
         \/ PhasesLeft' < PhasesLeft
         \/ /\ PhasesLeft' = PhasesLeft
            /\ Cardinality(roots') < Cardinality(roots)
         \/ /\ PhasesLeft' = PhasesLeft /\ roots' = roots
            /\ SearchesLeft' < SearchesLeft
         \/ /\ PhasesLeft' = PhasesLeft /\ roots' = roots /\ SearchesLeft' = SearchesLeft
            /\ NodesLeft' < NodesLeft
         \/ /\ PhasesLeft' = PhasesLeft /\ roots' = roots /\ SearchesLeft' = SearchesLeft
            /\ NodesLeft' = NodesLeft /\ MarksLeft' < MarksLeft
  PROVE  Less(Work', Work)
<1> DEFINE v == Work'
           w == Work
<1>1. /\ v[1] = PhasesLeft' /\ v[2] = Cardinality(roots') /\ v[3] = SearchesLeft'
      /\ v[4] = NodesLeft' /\ v[5] = MarksLeft'
      /\ w[1] = PhasesLeft /\ w[2] = Cardinality(roots) /\ w[3] = SearchesLeft
      /\ w[4] = NodesLeft /\ w[5] = MarksLeft
  BY DEF Work
<1>. HIDE DEF v, w
<1>2. \E i \in 1..5 : v[i] < w[i] /\ \A j \in 1..(i - 1) : v[j] = w[j]
  <2>1. CASE PhasesLeft' < PhasesLeft
    <3>1. v[1] < w[1] /\ \A j \in 1..(1 - 1) : v[j] = w[j]  BY <1>1, <2>1
    <3>. QED  BY <3>1
  <2>2. CASE /\ PhasesLeft' = PhasesLeft
             /\ Cardinality(roots') < Cardinality(roots)
    <3>1. v[2] < w[2] /\ \A j \in 1..(2 - 1) : v[j] = w[j]  BY <1>1, <2>2
    <3>. QED  BY <3>1
  <2>3. CASE /\ PhasesLeft' = PhasesLeft /\ roots' = roots
             /\ SearchesLeft' < SearchesLeft
    <3>1. v[3] < w[3] /\ \A j \in 1..(3 - 1) : v[j] = w[j]  BY <1>1, <2>3
    <3>. QED  BY <3>1
  <2>4. CASE /\ PhasesLeft' = PhasesLeft /\ roots' = roots /\ SearchesLeft' = SearchesLeft
             /\ NodesLeft' < NodesLeft
    <3>1. v[4] < w[4] /\ \A j \in 1..(4 - 1) : v[j] = w[j]  BY <1>1, <2>4
    <3>. QED  BY <3>1
  <2>5. CASE /\ PhasesLeft' = PhasesLeft /\ roots' = roots /\ SearchesLeft' = SearchesLeft
             /\ NodesLeft' = NodesLeft /\ MarksLeft' < MarksLeft
    <3>1. v[5] < w[5] /\ \A j \in 1..(5 - 1) : v[j] = w[j]  BY <1>1, <2>5
    <3>. QED  BY <3>1
  <2>. QED  BY <2>1, <2>2, <2>3, <2>4, <2>5
<1>. QED  BY <1>2 DEF Less, v, w

LEMMA WorkNatural ==
  ASSUME IsFiniteSet(Artifact), TypeOK, CoverInv
  PROVE  WorkIsNatural
<1>1. Cardinality(held) \in Nat  BY HeldNatural
<1>2. /\ PhasesLeft \in Nat /\ SearchesLeft \in Nat /\ NodesLeft \in Nat /\ MarksLeft \in Nat
      /\ Cardinality(roots) \in Nat
  BY <1>1, SizesNatural DEF PhasesLeft, SearchesLeft, NodesLeft, MarksLeft
<1>. QED  BY <1>2 DEF WorkIsNatural, Work

LEMMA StepCounts ==
  ASSUME IsFiniteSet(Artifact), TypeOK, TypeOK', CoverInv, CoverInv', ApplyChange
  PROVE  Less(Work', Work)
<1>1. WorkIsNatural  BY WorkNatural
<1>2. CASE Analyze \/ Plan \/ Return
  <2>1. PhasesLeft' < PhasesLeft  BY <1>2 DEF Analyze, Plan, Return, PhasesLeft
  <2>. QED  BY <1>1, <2>1, LessWhen
<1>3. ASSUME NEW a \in Artifact, SearchFrom(a)  PROVE Less(Work', Work)
  <2>1. PhasesLeft' = PhasesLeft  BY <1>3 DEF SearchFrom, PhasesLeft
  <2>2. Cardinality(roots') = Cardinality(roots) - 1
    BY <1>3, SizesNatural, FS_RemoveElement DEF SearchFrom
  <2>3. Cardinality(roots') < Cardinality(roots)  BY <2>2, SizesNatural
  <2>. QED  BY <1>1, <2>1, <2>3, LessWhen
<1>4. CASE SearchDone
  <2>1. PhasesLeft' = PhasesLeft /\ roots' = roots /\ SearchesLeft' < SearchesLeft
    BY <1>4 DEF SearchDone, PhasesLeft, SearchesLeft
  <2>. QED  BY <1>1, <2>1, LessWhen
<1>5. ASSUME NEW a \in Artifact, Visit(a)  PROVE Less(Work', Work)
  <2>1. PhasesLeft' = PhasesLeft /\ roots' = roots /\ SearchesLeft' = SearchesLeft
    BY <1>5 DEF Visit, PhasesLeft, SearchesLeft
  <2>2. NodesLeft' < NodesLeft  BY <1>5, VisitCounts
  <2>. QED  BY <1>1, <2>1, <2>2, LessWhen
<1>6. ASSUME NEW a \in Artifact, Get(a)  PROVE Less(Work', Work)
  <2>1. /\ PhasesLeft' = PhasesLeft /\ roots' = roots /\ SearchesLeft' = SearchesLeft
        /\ NodesLeft' = NodesLeft
    BY <1>6 DEF Get, PhasesLeft, SearchesLeft, NodesLeft, search
  <2>2. Cardinality(marks') = Cardinality(marks) - 1
    BY <1>6, SizesNatural, FS_RemoveElement DEF Get
  <2>3. Cardinality(held) = 0  BY <1>6, FS_EmptySet DEF Get
  <2>4. Cardinality(held') \in Nat /\ Cardinality(held') <= 1
    <3>1. held' = {} \/ \E x : held' = {x}  BY <1>6 DEF Get, Row
    <3>. QED  BY <3>1, FS_EmptySet, FS_Singleton
  <2>5. MarksLeft' < MarksLeft
    BY <2>2, <2>3, <2>4, SizesNatural DEF MarksLeft
  <2>. QED  BY <1>1, <2>1, <2>5, LessWhen
<1>7. CASE MarkStale
  <2>1. /\ PhasesLeft' = PhasesLeft /\ roots' = roots /\ SearchesLeft' = SearchesLeft
        /\ NodesLeft' = NodesLeft
    BY <1>7 DEF MarkStale, PhasesLeft, SearchesLeft, NodesLeft, search
  <2>2. held # {} /\ held' = {} /\ marks' = marks  BY <1>7 DEF MarkStale
  <2>3. Cardinality(held) = 1 /\ Cardinality(held') = 0
    BY <2>2, HeldNatural, FS_EmptySet
  <2>4. MarksLeft' < MarksLeft
    BY <2>2, <2>3, SizesNatural DEF MarksLeft
  <2>. QED  BY <1>1, <2>1, <2>4, LessWhen
<1>. QED  BY <1>2, <1>3, <1>4, <1>5, <1>6, <1>7 DEF ApplyChange

\* In a finite graph apply_change() has only finitely many steps to take: no
\* cycle keeps the search going, and no commit of another client the marking.
THEOREM StepsCount ==
  ASSUME IsFiniteSet(Artifact)
  PROVE  Spec => []WorkIsNatural /\ EveryStepCounts
<1> DEFINE Counts == /\ ApplyChange => Less(Work', Work)
                     /\ ~ApplyChange => Work' = Work
<1>1. IInv /\ CoverInv /\ [Next]_vars => CoverInv'
  BY CoverKept
<1>2. IInv /\ CoverInv => WorkIsNatural
  BY WorkNatural DEF IInv
<1>3. IInv /\ IInv' /\ CoverInv /\ CoverInv' /\ [Next]_vars => [Counts]_vars
  <2>. SUFFICES ASSUME TypeOK, TypeOK', CoverInv, CoverInv', Next  PROVE Counts
    BY DEF IInv
  <2>1. CASE ApplyChange
    BY <2>1, StepCounts
  <2>2. CASE ~ApplyChange
    <3>1. PICK a \in Artifact : Commit(a)  BY <2>2 DEF Next
    <3>2. UNCHANGED <<phase, search, marks, held>>  BY <3>1 DEF Commit
    <3>. QED
      BY <2>2, <3>2
      DEF Work, PhasesLeft, SearchesLeft, NodesLeft, MarksLeft, search
  <2>. QED  BY <2>1, <2>2
<1>. QED
  BY <1>1, <1>2, <1>3, CoverInit, InvariantHolds, PTL DEF Spec, EveryStepCounts

=============================================================================
