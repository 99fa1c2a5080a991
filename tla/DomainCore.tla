------------------------------ MODULE DomainCore ------------------------------
(***************************************************************************)
(* DomainCorePipeline.run(): from the files of a fixture directory to a    *)
(* product spec, one decision per feature and a review of both by the      *)
(* deterministic rules, and the rules run once more over the finished      *)
(* pipeline by the tool review.run_rules.                                  *)
(*                                                                         *)
(* The artifacts of a run are values in memory, kept in variables here:    *)
(* none is marked STALE, each is produced by the agent that its method     *)
(* names.  So of the rules R001 to R018 those that look at statuses,       *)
(* producers and artifacts of other pipelines cannot fail, and what is     *)
(* left for Broken are R003, R004, R005 and R010.                          *)
(***************************************************************************)
EXTENDS Economics

CONSTANTS
  Offer,        \* SupplierCapability records that a fixture may hold
  Feature,      \* feature_taxonomy
  Fees,         \* fee tables that a fixture may hold
  Preferred,    \* "SUP-B"
  Unwanted,     \* "carbon_fiber_structure"
  NoValue,      \* None, or an artifact that is not there yet
  MaxOffers     \* BOUND on the offers of a fixture

Retail == 39990      \* in mills, written into _economics()
Deltas == 1500       \* "0.80" + "0.30" + "0.40", likewise
FactoryMax == 800    \* the hard constraint factory_cost_max, in cents
MarginMin == 35      \* target_margin_min, in per cent
MoqMax == 300        \* moq_max

ASSUME FixtureAssumption ==
  /\ MaxOffers \in Nat
  /\ \A o \in Offer : o.base \in Nat /\ o.delta \in Nat
  /\ \A t \in Fees : /\ t.packaging \in Nat /\ t.shipping \in Nat /\ t.fulfillment \in Nat
                     /\ t.platformRate \in Nat /\ t.marketingRate \in Nat /\ t.lossRate \in Nat

VARIABLES
  stage,       \* the stage of run() that comes next
  offers,      \* supplier_offers: a sequence of Offer
  painful,     \* the features that a pain point of the fixture names first
  traceable,   \* whether the reviews taken as evidence have snapshot and locator
  fees,        \* fees.v1.json
  assessment,  \* supplier-assessment-v1: the positions of the accepted options
  economics,   \* economics-v1
  spec,        \* product-spec-v1
  decisions,   \* the FeatureDecision artifacts there are, by feature
  review,      \* review-spec-v1
  again        \* what review.run_rules answered

fixture == <<offers, painful, traceable, fees>>
vars == <<stage, fixture, assessment, economics, spec, decisions, review, again>>

-----------------------------------------------------------------------------
\* T1, T2: the market's artifacts are the fixture's pain points; the offers
\* are sorted into accepted ones, rejected ones and conflicts.

\* A sum of floats: compared with the limit, and after rounding to cents, it
\* is what the exact sum of amounts in whole cents is.
Cost(o) == o.base + o.delta

WithinLimits(o) == o.moq <= MoqMax /\ Cost(o) <= 10 * FactoryMax /\ o.mold

AcceptableOnPaper(o) == WithinLimits(o)

Acceptable(o) == o.support \notin {"unsupported", "conflict"} /\ WithinLimits(o)

Init ==
  /\ stage = "supply"
  /\ offers \in UNION {[1..n -> Offer] : n \in 0..MaxOffers}
  /\ painful \in SUBSET Feature
  /\ traceable \in BOOLEAN
  /\ fees \in Fees
  /\ assessment = {}
  /\ economics = NoValue /\ spec = NoValue /\ review = NoValue /\ again = NoValue
  /\ decisions = [f \in {} |-> NoValue]

Supply ==
  /\ stage = "supply"
  /\ assessment' = {i \in DOMAIN offers : Acceptable(offers[i])}
  /\ stage' = "economics"
  /\ UNCHANGED <<fixture, economics, spec, decisions, review, again>>

\* T6: the candidate is the first accepted option of the preferred supplier,
\* or else the first of all.
FirstOf(positions) == {i \in positions : \A j \in positions : i <= j}

Candidates ==
  LET own == {i \in assessment : offers[i].supplier = Preferred}
  IN FirstOf(IF own # {} THEN own ELSE assessment)

InputFor(o) ==
  [retail |-> Retail, factory |-> Cost(o), deltas |-> Deltas,
   packaging |-> fees.packaging, shipping |-> fees.shipping,
   fulfillment |-> fees.fulfillment, fixed |-> 0, platformRate |-> fees.platformRate,
   marketingRate |-> fees.marketingRate, lossRate |-> fees.lossRate]

RunEconomics ==
  /\ stage = "economics"
  /\ \E i \in Candidates :
       economics' = Calculate(InputFor(offers[i]), FactoryMax, MarginMin)
  /\ stage' = "spec"
  /\ UNCHANGED <<fixture, assessment, spec, decisions, review, again>>

\* "No accepted supplier options for economics".
RaiseNoSupplier ==
  /\ stage = "economics" /\ assessment = {}
  /\ stage' = "failed"
  /\ UNCHANGED <<fixture, assessment, economics, spec, decisions, review, again>>

\* T7: the spec lists the decisions that are among the artifacts by then.
Decided(status) == {f \in DOMAIN decisions : decisions[f].status = status}

Spec_v1 ==
  /\ stage = "spec"
  /\ spec' = [supplier |-> Preferred, accepted |-> Decided("ACCEPT"),
              rejected |-> Decided("REJECT"), deferred |-> Decided("DEFER"),
              checks |-> economics.checks, review_status |-> "PENDING"]
  /\ stage' = "decisions"
  /\ UNCHANGED <<fixture, assessment, economics, decisions, review, again>>

\* accepted_offers is a dictionary: the last accepted option of a feature wins.
OffersFor(f) ==
  LET own == {i \in assessment : offers[i].feature = f}
  IN {offers[i] : i \in {j \in own : \A k \in own : k <= j}}

Decision(f) ==
  [status |-> IF f = Unwanted THEN "REJECT"
              ELSE IF OffersFor(f) # {} THEN "ACCEPT" ELSE "DEFER",
   market |-> f \in painful, supply |-> OffersFor(f), economics |-> OffersFor(f) # {}]

Decide ==
  /\ stage = "decisions"
  /\ decisions' = [f \in Feature |-> Decision(f)]
  /\ stage' = "review"
  /\ UNCHANGED <<fixture, assessment, economics, spec, review, again>>

-----------------------------------------------------------------------------
\* T8: the rules.

HasFullChain(d) == d.market /\ d.supply # {} /\ d.economics

\* The rules that fail on the spec s, with the reviews that are artifacts.
Broken(s, reviews) ==
  {r \in {"R003", "R004", "R005", "R010"} :
     \/ r = "R003" /\ \E c \in DOMAIN s.checks : ~s.checks[c]
     \/ r = "R004" /\ \E f \in DOMAIN decisions :
                         decisions[f].status = "ACCEPT" /\ ~HasFullChain(decisions[f])
     \/ r = "R005" /\ ~traceable
     \/ r = "R010" /\ \E v \in reviews : v.of # s}

Verdict(broken) == IF broken = {} THEN "PASS" ELSE "BLOCK"

ReviewOfMarked(s) ==
  LET verdict == Verdict(Broken(s, {}))
  IN [of |-> [s EXCEPT !.review_status = verdict], decision |-> verdict]

\* The spec under review carries the verdict from then on, but it is a copy
\* made from the payload: the artifact stays as it is.
ReviewOf(s) == [of |-> s, decision |-> Verdict(Broken(s, {}))]

Review ==
  /\ stage = "review"
  /\ review' = ReviewOf(spec)
  /\ stage' = "done"
  /\ UNCHANGED <<fixture, assessment, economics, spec, decisions, again>>

\* review.run_rules on the pipeline that the process keeps.
ReviewAgain ==
  /\ stage = "done"
  /\ again' = Verdict(Broken(spec, {review}))
  /\ UNCHANGED <<stage, fixture, assessment, economics, spec, decisions, review>>

Next ==
  \/ Supply \/ RunEconomics \/ RaiseNoSupplier \/ Spec_v1 \/ Decide \/ Review
  \/ ReviewAgain

Spec == Init /\ [][Next]_vars

-----------------------------------------------------------------------------
\* A rounding after every step of the calculation may add up: the margin that
\* is stored is within three cents of the exact one.
MarginNearExact ==
  economics # NoValue =>
    LET d == Cent * economics.margin - ExactMargin(economics.in)
    IN -3 * Cent <= d /\ d <= 3 * Cent

\* No sensitivity case, each of which takes one cost up, is better than the
\* base case by more than the roundings between the two calculations.
WorseCasesAreWorse ==
  economics # NoValue =>
    LET cases == Sensitivity(economics.in)
    IN \A c \in DOMAIN cases : cases[c] <= economics.margin + 3

\* "hard constraint -> BLOCK" (docs/SKILL_REGISTRY.md:11): what passes the
\* review costs no more than the limit and earns no less than the target, by
\* the exact figures, up to what rounding the total and the rate hides.
PassIsAffordable ==
  review # NoValue /\ review.decision = "PASS" =>
    /\ 2 * ExactTotal(economics.in) < (2 * FactoryMax + 1) * Cent
    /\ 2 * ExactMargin(economics.in) >= (2 * MarginMin - 1) * 100 * Retail - 6 * Cent

\* What passes the review rests on the fixture: a feature is accepted only if
\* its evidence can be traced, a pain point motivates it, and an offer of it
\* that is neither in conflict nor unsupported keeps every limit.
PassRestsOnFixture ==
  review # NoValue /\ review.decision = "PASS" =>
    /\ traceable
    /\ \A f \in DOMAIN decisions :
         decisions[f].status = "ACCEPT" =>
           /\ f \in painful \ {Unwanted}
           /\ \E o \in {offers[i] : i \in DOMAIN offers} :
                /\ o.feature = f /\ o \in decisions[f].supply
                /\ o.support \notin {"unsupported", "conflict"}
                /\ o.moq <= MoqMax /\ Cost(o) <= 10 * FactoryMax /\ o.mold

\* The rules give the same answer when they run again over artifacts that now
\* include their own review: its spec_hash is still that of the stored spec.
SecondReviewAgrees ==
  again # NoValue => again = review.decision

===============================================================================
