----------------------------- MODULE NewCategory -----------------------------
(***************************************************************************)
(* The second category's pipeline (new_category.py): run() as a program of *)
(* the calls of Pipeline.  The artifacts are named without "desk-" and     *)
(* "-v1".  Unlike the nap pillow's, this _artifact() links no inputs, and  *)
(* each mode has a project id and a database file of its own.              *)
(***************************************************************************)
EXTENDS Pipeline

DeskMode == {"PUBLIC_SIGNAL", "SYNTHETIC"}

DeskTask == {"intake", "market", "supply", "compliance", "prototype", "economics", "review",
             "decision"}

DeskArtifact ==
  {"product-intake", "category-profile", "compliance-policy-pack", "research-plan",
   "opportunity-brief", "public-supplier-signals", "supplier-assessment",
   "compliance-assessment", "render-prompt", "render", "product-concepts", "sample-spec",
   "rfq-pack", "economics", "test-matrix", "claim-register", "product-spec", "review-report",
   "conflict-mechanism", "conflict-cost", "conflict-surface", "decision-brief", "approval",
   "product-story", "decision-to-sample"}

\* depends_on of the _task() calls.
DeskDepends ==
  [t \in DeskTask |->
     CASE t \in {"market", "supply", "compliance"} -> {"intake"}
       [] t = "prototype" -> {"market", "supply", "compliance"}
       [] t = "economics" -> {"supply"}
       [] t = "review" -> {"prototype", "economics"}
       [] t = "decision" -> {"review"}
       [] OTHER -> {}]

DeskIntake ==
  <<Begin("intake"),
    Commit("intake", "product-intake", <<>>),
    Commit("intake", "category-profile", <<"product-intake">>),
    Commit("intake", "compliance-policy-pack", <<"category-profile">>),
    Commit("intake", "research-plan",
           <<"product-intake", "category-profile", "compliance-policy-pack">>),
    Finish("intake",
           <<"product-intake", "category-profile", "compliance-policy-pack", "research-plan">>)>>

DeskMarket ==
  <<Begin("market"),
    Commit("market", "opportunity-brief", <<"research-plan">>),
    Finish("market", <<"opportunity-brief">>)>>

DeskSupply ==
  <<Begin("supply"),
    Commit("supply", "public-supplier-signals", <<"research-plan">>),
    Commit("supply", "supplier-assessment", <<"public-supplier-signals">>),
    Finish("supply", <<"public-supplier-signals", "supplier-assessment">>)>>

DeskCompliance ==
  <<Begin("compliance"),
    Commit("compliance", "compliance-assessment",
           <<"category-profile", "compliance-policy-pack">>),
    Finish("compliance", <<"compliance-assessment">>)>>

DeskPrototype ==
  <<Begin("prototype"),
    Commit("prototype", "render-prompt",
           <<"opportunity-brief", "supplier-assessment", "compliance-assessment">>),
    Commit("prototype", "render", <<"render-prompt">>),
    Commit("prototype", "product-concepts",
           <<"opportunity-brief", "supplier-assessment", "compliance-assessment", "render">>),
    Commit("prototype", "sample-spec", <<"product-concepts">>),
    Commit("prototype", "rfq-pack", <<"sample-spec", "render", "public-supplier-signals">>),
    Finish("prototype", <<"product-concepts", "sample-spec", "render", "rfq-pack">>)>>

DeskEconomics ==
  <<Begin("economics"),
    Commit("economics", "economics", <<"supplier-assessment", "rfq-pack">>),
    Finish("economics", <<"economics">>)>>

\* Under the compliance task, which is finished by now.
DeskTests ==
  <<Commit("compliance", "test-matrix", <<"sample-spec", "compliance-assessment">>),
    Commit("compliance", "claim-register", <<"test-matrix">>)>>

\* The specification is written under the review that then passes it.
DeskReview ==
  <<Begin("review"),
    Commit("review", "product-spec",
           <<"product-concepts", "sample-spec", "rfq-pack", "economics", "compliance-assessment",
             "test-matrix", "claim-register">>),
    Commit("review", "review-report", <<"product-spec">>),
    Finish("review", <<"product-spec", "review-report">>)>>

DeskConflicts ==
  <<Begin("decision"),
    Commit("decision", "conflict-mechanism", <<"sample-spec", "test-matrix">>),
    Commit("decision", "conflict-cost", <<"public-supplier-signals", "economics", "rfq-pack">>),
    Commit("decision", "conflict-surface",
           <<"claim-register", "compliance-assessment", "test-matrix">>)>>

DeskBrief ==
  <<Commit("decision", "decision-brief",
           <<"review-report", "product-spec", "conflict-mechanism", "conflict-cost",
             "conflict-surface">>)>>

\* Only the synthetic regression brings its own approval.
HasApproval(m) == m = "SYNTHETIC"

DeskApproval(m) ==
  IF HasApproval(m)
  THEN <<Commit("decision", "approval", <<"product-spec", "decision-brief">>)>> ELSE <<>>

DeskPack(m) ==
  <<Commit("decision", "product-story", <<"decision-brief", "product-spec", "render">>),
    Commit("decision", "decision-to-sample",
           <<"decision-brief", "product-concepts", "sample-spec", "rfq-pack", "economics",
             "compliance-assessment", "test-matrix", "product-story">>
             \o IF HasApproval(m) THEN <<"approval">> ELSE <<>>)>>

DeskDecide(m) ==
  <<Decide("decision", IF m = "SYNTHETIC" THEN "ACCEPTED" ELSE "REVISE",
           <<"decision-brief", "product-story", "decision-to-sample">>)>>

DeskProgram ==
  [m \in Mode |->
     DeskIntake \o DeskMarket \o DeskSupply \o DeskCompliance \o DeskPrototype \o DeskEconomics
       \o DeskTests \o DeskReview \o DeskConflicts \o DeskBrief \o DeskApproval(m) \o DeskPack(m)
       \o DeskDecide(m)]

\* The hypotheses of the theorems about Pipeline, for this program.
ASSUME DeskWellOrdered ==
  WellOrdered /\ FinishesBegun /\ DependenciesFinished /\ ApprovedFirst /\ CommitsOnce

-----------------------------------------------------------------------------

VARIABLE database  \* the mode whose runs use this database file

DeskInit == Init /\ database \in Mode

DeskNext == (Start(database) \/ Run \/ Crash) /\ UNCHANGED database

\* The interpreter keeps executing, and whoever started the command starts it
\* again when it did not come to its end.
DeskSpec ==
  /\ DeskInit /\ [][DeskNext]_<<vars, database>>
  /\ WF_<<vars, database>>(Run /\ UNCHANGED database)
  /\ WF_<<vars, database>>(Start(database) /\ UNCHANGED database)

=============================================================================
