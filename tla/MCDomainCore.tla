----------------------------- MODULE MCDomainCore -----------------------------
(***************************************************************************)
(* Fixtures of up to two offers, for two features and the unwanted one:    *)
(* every kind of offer that the filter tells apart, and fee tables on both *)
(* sides of the target margin, one of them so close that rounding decides. *)
(***************************************************************************)
EXTENDS DomainCore

Offer_(supplier, feature, support, mold, moq, base, delta) ==
  [supplier |-> supplier, feature |-> feature, support |-> support, mold |-> mold,
   moq |-> moq, base |-> base, delta |-> delta]

MCOffer == {
  Offer_("SUP-A", "wider_base", "confirmed", TRUE, 200, 5200, 800),
  Offer_("SUP-B", "wider_base", "confirmed", TRUE, 100, 5500, 800),
  Offer_("SUP-B", "silicone_pad", "listed", TRUE, 300, 5500, 300),
  Offer_("SUP-B", "silicone_pad", "unknown", TRUE, 100, 7500, 500),
  Offer_("SUP-B", "wider_base", "listed", TRUE, 300, 6100, 1100),
  Offer_("SUP-C", "wider_base", "confirmed", TRUE, 100, 7200, 810),
  Offer_("SUP-C", "silicone_pad", "confirmed", FALSE, 500, 4800, 1200),
  Offer_("SUP-D", "silicone_pad", "listed", TRUE, 301, 4000, 300),
  Offer_("SUP-E", "carbon_fiber_structure", "listed", TRUE, 100, 4000, 350),
  Offer_("SUP-F", "wider_base", "unsupported", TRUE, 200, 4000, 0),
  Offer_("SUP-G", "silicone_pad", "conflict", TRUE, 100, 6200, 310)}

MCFeature == {"wider_base", "silicone_pad", "carbon_fiber_structure"}

Fees_(packaging, shipping, platform) ==
  [packaging |-> packaging, shipping |-> shipping, fulfillment |-> 3500,
   platformRate |-> platform, marketingRate |-> 80, lossRate |-> 30]

MCFees == {
  Fees_(800, 2200, 150),
  Fees_(804, 3685, 150),
  Fees_(805, 3705, 149),
  Fees_(800, 4200, 150)}

===============================================================================
