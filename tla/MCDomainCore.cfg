CONSTANTS
  Offer <- MCOffer
  Feature <- MCFeature
  Fees <- MCFees
  Preferred = "SUP-B"
  Unwanted = "carbon_fiber_structure"
  NoValue = NoValue
  MaxOffers = 2

SPECIFICATION Spec

INVARIANTS
  MarginNearExact
  WorseCasesAreWorse
  PassIsAffordable
  PassRestsOnFixture
  SecondReviewAgrees

CHECK_DEADLOCK FALSE
