------------------------------ MODULE NapPillow ------------------------------
(***************************************************************************)
(* The nap pillow pipeline (nap_pillow.py): run() as a program of the      *)
(* calls of Pipeline.  The artifacts are named without "nap-" and "-v1".   *)
(* Every commit of this pipeline also links its inputs.  Payloads, the     *)
(* collaboration log and the trace are left out: no call depends on them.  *)
(***************************************************************************)
EXTENDS Pipeline

NapMode == {"REAL", "SYNTHETIC"}

Prompt == <<"prompt-a", "prompt-b", "prompt-c">>
Render == <<"render-a", "render-b", "render-c">>
Conflict == <<"conflict-mechanism", "conflict-price", "conflict-safety", "conflict-comfort">>
Option == <<"option-mechanism", "option-price", "option-safety", "option-comfort">>

\* One remediation task per finding of the REAL review.
Remediation == <<"remediation-sup-001", "remediation-eco-001", "remediation-sup-002",
                 "remediation-pol-001">>

NapTask == {"intake", "market", "supply", "prototype", "compliance", "economics", "decision",
            "review"} \cup Range_(Remediation)

NapArtifact ==
  {"product-intake", "category-profile", "compliance-policy-pack", "research-plan",
   "review-evidence", "pain-points", "feature-hypotheses", "opportunity-brief",
   "supplier-assessment", "product-concepts", "sample-spec", "render-prompt-locked",
   "render-locked", "rfq-pack", "compliance-assessment", "test-matrix", "claim-register",
   "economics", "decision-policy", "product-spec", "review-report", "decision-brief",
   "product-story", "decision-to-sample"}
    \cup Range_(Prompt) \cup Range_(Render) \cup Range_(Conflict) \cup Range_(Option)

\* depends_on of the _task() calls.
NapDepends ==
  [t \in NapTask |->
     CASE t = "prototype" -> {"market", "supply"}
       [] t = "compliance" -> {"prototype"}
       [] t = "economics" -> {"supply"}
       [] t = "decision" -> {"market", "prototype", "supply", "economics", "compliance"}
       [] OTHER -> {}]

Intake ==
  <<Begin("intake"),
    Commit("intake", "product-intake", <<>>),
    Commit("intake", "category-profile", <<"product-intake">>),
    Commit("intake", "compliance-policy-pack", <<"category-profile">>),
    Commit("intake", "research-plan",
           <<"product-intake", "category-profile", "compliance-policy-pack">>),
    Finish("intake",
           <<"product-intake", "category-profile", "compliance-policy-pack", "research-plan">>)>>

Market ==
  <<Begin("market"),
    Commit("market", "review-evidence", <<"research-plan">>),
    Commit("market", "pain-points", <<"review-evidence">>),
    Commit("market", "feature-hypotheses", <<"pain-points">>),
    Commit("market", "opportunity-brief",
           <<"review-evidence", "pain-points", "feature-hypotheses">>),
    Finish("market",
           <<"review-evidence", "pain-points", "feature-hypotheses", "opportunity-brief">>)>>

Supply ==
  <<Begin("supply"),
    Commit("supply", "supplier-assessment", <<"feature-hypotheses">>),
    Finish("supply", <<"supplier-assessment">>)>>

ConceptRender(i) ==
  <<Commit("prototype", Prompt[i], <<"opportunity-brief", "supplier-assessment">>),
    Commit("prototype", Render[i], <<Prompt[i]>>)>>

PrototypeRefs ==
  <<"product-concepts", "sample-spec", "render-prompt-locked", "render-locked">> \o Prompt \o Render

Prototype ==
  <<Begin("prototype")>> \o ConceptRender(1) \o ConceptRender(2) \o ConceptRender(3) \o
  <<Commit("prototype", "product-concepts",
           <<"opportunity-brief", "supplier-assessment">> \o Render),
    Commit("prototype", "sample-spec", <<"product-concepts">>),
    Commit("prototype", "render-prompt-locked", <<"sample-spec">>),
    Commit("prototype", "render-locked", <<"render-prompt-locked", "sample-spec">>),
    Finish("prototype", PrototypeRefs)>>

\* The RFQ goes out under the supply task, which is finished by now.
Rfq == <<Commit("supply", "rfq-pack", <<"sample-spec", "render-locked">>)>>

ComplianceStage ==
  <<Begin("compliance"),
    Commit("compliance", "compliance-assessment", <<"sample-spec", "compliance-policy-pack">>),
    Commit("compliance", "test-matrix", <<"sample-spec", "compliance-assessment">>),
    Commit("compliance", "claim-register", <<"sample-spec", "compliance-assessment">>),
    Finish("compliance",
           <<"compliance-assessment", "test-matrix", "claim-register">>)>>

Economics ==
  <<Begin("economics"),
    Commit("economics", "economics", <<"supplier-assessment">>),
    Finish("economics", <<"economics">>)>>

\* _conflicts_and_options(), one conflict and the option that answers it.
ConflictAndOption(i) ==
  <<Commit("decision", Conflict[i],
           <<"review-evidence", "supplier-assessment", "economics", "decision-policy">>),
    Commit("decision", Option[i], <<Conflict[i]>>)>>

Specification ==
  <<Begin("decision"), Commit("decision", "decision-policy", <<>>)>>
    \o ConflictAndOption(1) \o ConflictAndOption(2) \o ConflictAndOption(3) \o ConflictAndOption(4)
    \o <<Commit("decision", "product-spec",
                <<"feature-hypotheses", "product-concepts", "sample-spec", "rfq-pack",
                  "supplier-assessment", "economics", "compliance-assessment", "test-matrix">>
                  \o Conflict)>>

\* `[leader.task_id] if False else []`: the review depends on nothing.
Review ==
  <<Begin("review"),
    Commit("review", "review-report", <<"product-spec">>),
    Finish("review", <<"review-report">>)>>

\* _review_findings(): the REAL review fails four rules.
LoopbackTasks(m) == IF m = "REAL" THEN [i \in 1..Len(Remediation) |-> Remedy(Remediation[i])] ELSE <<>>

ReviewResult(m) == IF LoopbackTasks(m) = <<>> THEN "PASS" ELSE "REVISE"

\* The evidence DecisionPolicy requires for a GO, and what a run in a mode has confirmed of it:
\* only the profile, which comes CONFIRMED from the registry, does not depend on the mode.
RequiredForGo == {"supplier-quote", "bom", "durability-test", "material-test",
                  "category-profile", "sample-spec", "compliance"}

ConfirmedEvidence(m) == IF m = "SYNTHETIC" THEN RequiredForGo ELSE {"category-profile"}

HardFailures(m) == RequiredForGo \ ConfirmedEvidence(m)

\* DecisionEngine.evaluate().  No review of this pipeline is a BLOCK, and no run
\* reports a repeated test failure, the one reason for a NO_GO.
Recommendation(m) ==
  IF HardFailures(m) # {} \/ ReviewResult(m) = "REVISE" THEN "REVISE" ELSE "GO"

\* A GO stays SUBMITTED until a human approves it.
DecisionVerdict(m) == IF Recommendation(m) = "REVISE" THEN "REVISE" ELSE None

DecisionStage(m) ==
  LoopbackTasks(m) \o
  <<Commit("decision", "decision-brief", <<"product-spec", "review-report">>),
    Commit("decision", "product-story",
           <<"decision-brief", "product-concepts", "sample-spec", "rfq-pack", "economics",
             "compliance-assessment", "test-matrix", "review-report", "render-locked">>),
    Commit("decision", "decision-to-sample",
           <<"decision-brief", "product-spec", "product-concepts", "sample-spec", "rfq-pack",
             "compliance-assessment", "test-matrix", "product-story">>),
    Decide("decision", DecisionVerdict(m),
           <<"product-spec", "decision-brief", "decision-to-sample">>)>>

NapProgram ==
  [m \in Mode |->
     Intake \o Market \o Supply \o Prototype \o Rfq \o ComplianceStage \o Economics
       \o Specification \o Review \o DecisionStage(m)]

\* The hypotheses of the theorems about Pipeline, for this program.
ASSUME NapWellOrdered ==
  WellOrdered /\ FinishesBegun /\ DependenciesFinished /\ ApprovedFirst /\ CommitsOnce

-----------------------------------------------------------------------------
\* approve() of the workbench, which stores nothing: the hash of a spec and the
\* product_spec_hash of a review are told apart by the mode of the run that wrote them

\* It answers "accepted" to a human who approves the spec with that hash.
Approves(hash) ==
  /\ {"review-report", "product-spec"} \subseteq Committed
  /\ ReviewResult(artifact["review-report"]) = "PASS"
  /\ hash = artifact["product-spec"]

\* "Review is valid only for the exact current `spec_hash`"
\* (agent_packages/raw/leader/MEMORY.md:83): a spec is approved on its own review.
ApprovableSpecWasReviewed ==
  \A hash \in Mode : Approves(hash) => artifact["review-report"] = hash

=============================================================================
