----------------------------- MODULE MCTaskStore -----------------------------
(***************************************************************************)
(* Small instances of TaskStore: a market task, a supply task that depends *)
(* on it, and the revision both would get, because neither id ends in      *)
(* "-r<number>" and what precedes its last "-r" is the same.               *)
(***************************************************************************)
EXTENDS TaskStore, TLC

CONSTANTS p1, p2, market, supply, revision

MCTaskId == {market, supply, revision}
MCAgent == {"gap2sku-market", "gap2sku-supply"}
MCActor == MCAgent \cup {Gate, "human-manager"}
MCKey == {"market", "supply", "other", "revision:market", "revision:supply", "revision:revision"}

Request_(id, key, owner, depends, initial) ==
  [id |-> id, key |-> key, owner |-> owner, depends |-> depends, state |-> initial]

MarketRequest == Request_(market, "market", "gap2sku-market", {}, "PENDING")
SupplyRequest == Request_(supply, "supply", "gap2sku-supply", {market}, "PENDING")

\* The same id under another key, and the same key under another id.
OtherKey == Request_(market, "other", "gap2sku-market", {}, "PENDING")
OtherId == Request_(supply, "market", "gap2sku-supply", {}, "PENDING")

\* What task.create admits as well: tasks created at work, or already judged,
\* beside a dependency that nobody accepted.
StartedSupply == [SupplyRequest EXCEPT !.state = "READY"]
RunningSupply == [SupplyRequest EXCEPT !.state = "RUNNING"]
FailedSupply == [SupplyRequest EXCEPT !.state = "FAILED"]
AcceptedMarket == [MarketRequest EXCEPT !.state = "ACCEPTED"]

MCRequest == {MarketRequest, AcceptedMarket, OtherKey, OtherId,
              SupplyRequest, StartedSupply, RunningSupply, FailedSupply}

MCSuccessor == market :> revision @@ supply :> revision @@ revision :> NoTask
MCNoSuccessor == [t \in MCTaskId |-> NoTask]
MCRevisionKey == market :> "revision:market" @@ supply :> "revision:supply"
                   @@ revision :> "revision:revision"

\* What the pipelines and the reviewer ask for.
MCTarget == {"READY", "RUNNING", "SUBMITTED", "ACCEPTED", "REVISE"}

MCAllTarget == TaskState

\* For two processes.  The gate may advance every task to every state, and who
\* asks is nothing to keys or dependencies: it is the one actor of that race.
MCGate == {Gate}
MCRaceRequest == {MarketRequest, SupplyRequest, RunningSupply, OtherId}

\* For two writers of one task: its owner and the gate.
MCWriter == {"gap2sku-market", Gate}
MCWritten == {MarketRequest, SupplyRequest, OtherId}

MCSymmetry == Permutations({p1, p2})

==============================================================================
