---------------------------- MODULE ArtifactLedger ----------------------------
(***************************************************************************)
(* What the artifact store promises, without tables, revisions read ahead  *)
(* of time or clients: an append-only ledger of versions.  An entry is     *)
(* appended atomically with its key, its answer and the project's count;   *)
(* versions of one artifact come in order; inputs are already there.       *)
(* (artifacts/store.py:3-8, the contract in the module's header.)          *)
(***************************************************************************)
EXTENDS Naturals

CONSTANTS ArtifactId, Project, Call, Version

VARIABLES
  ledger,   \* the entries: id, version and the envelope (call) committed
  commits,  \* the number of entries of each project
  stale,    \* the entries whose inputs have changed
  answers   \* what commit() answers for each key

vars == <<ledger, commits, stale, answers>>

EntryRef(e) == [id |-> e.id, version |-> e.version]

Init ==
  /\ ledger = {}
  /\ commits = [p \in Project |-> 0]
  /\ stale = {}
  /\ answers = {}

\* One commit: all of it, or nothing.
Append(k, v) ==
  /\ \A e \in ledger : e.call.key # k.key
  /\ \A e \in ledger : e.id = k.id => e.version < v
  /\ v = 1 \/ \E e \in ledger : e.id = k.id /\ e.version = v - 1
  /\ \A a \in k.refs : \E e \in ledger : e.id = a
  /\ ledger' = ledger \cup {[id |-> k.id, version |-> v, call |-> k]}
  /\ commits' = [commits EXCEPT ![k.project] = @ + 1]
  /\ answers' = answers \cup {[key |-> k.key, ref |-> [id |-> k.id, version |-> v]]}
  /\ UNCHANGED stale

MarkStale(e) ==
  /\ stale' = stale \cup {EntryRef(e)}
  /\ UNCHANGED <<ledger, commits, answers>>

Next ==
  \/ \E k \in Call, v \in Version : Append(k, v)
  \/ \E e \in ledger : MarkStale(e)

Spec == Init /\ [][Next]_vars

===============================================================================
