------------------------------- MODULE Economics -------------------------------
(***************************************************************************)
(* EconomicsCalculator.calculate(): the margin of a candidate, with a      *)
(* rounding to cents after every intermediate value, and the recomputation *)
(* of the sensitivity cases, which rounds once.                            *)
(*                                                                         *)
(* Decimal arithmetic is exact here: an input is a number of mills         *)
(* (0.001 USD), a rate a number per thousand, and everything computed from *)
(* them, a rate raised by a fifth included, is a whole number of units of  *)
(* 10^-7 USD.  A rounded amount is a number of cents.                      *)
(***************************************************************************)
EXTENDS Integers

Mill == 10000
Cent == 100000

\* The inputs the calculator reads; deltas is the sum of feature_cost_deltas.
Input ==
  [retail : Nat, factory : Nat, deltas : Nat, packaging : Nat, shipping : Nat,
   fulfillment : Nat, fixed : Nat, platformRate : Nat, marketingRate : Nat, lossRate : Nat]

-----------------------------------------------------------------------------
\* ROUND_HALF_UP of n / d, for d > 0: to the nearest, a tie away from zero.
HalfUp(n, d) ==
  IF n >= 0 THEN (2 * n + d) \div (2 * d) ELSE -((d - 2 * n) \div (2 * d))

\* RoundingPolicy.quantize(): units to cents.
Quantize(u) == HalfUp(u, Cent)

\* A share of the retail price, in units.
Share(in, rate) == 10 * (in.retail * rate)

FactoryTotal(in) == Quantize(Mill * (in.factory + in.deltas))

Landed(in) == Quantize(Cent * FactoryTotal(in) + Mill * (in.packaging + in.shipping))

PlatformFee(in) == Quantize(Share(in, in.platformRate) + Mill * in.fixed)

Marketing(in) == Quantize(Share(in, in.marketingRate))

Loss(in) == Quantize(Share(in, in.lossRate))

\* FAULTY VARIANTS, here and below under names that say what they get wrong:
\* nothing uses them, they stand in for a definition when the properties are
\* tested for what they can detect.
MarginUnfulfilled(in) ==
  Quantize(Mill * in.retail
           - Cent * (Landed(in) + PlatformFee(in) + Marketing(in) + Loss(in)))

Margin(in) ==
  Quantize(Mill * (in.retail - in.fulfillment)
           - Cent * (Landed(in) + PlatformFee(in) + Marketing(in) + Loss(in)))

\* In per cent: the rate is rounded to two decimals like an amount of money.
MarginRate(in) == IF in.retail > 0 THEN HalfUp(1000 * Margin(in), in.retail) ELSE 0

ChecksBaseCost(in, factoryMax, marginMin) ==
  [in |-> in, factory |-> FactoryTotal(in), landed |-> Landed(in),
   margin |-> Margin(in), rate |-> MarginRate(in),
   checks |-> [factory_cost_max |-> 10 * factoryMax >= in.factory,
               target_margin_min |-> MarginRate(in) >= marginMin]]

\* The EconomicsArtifact, and the checks of the two constraints it knows.
Calculate(in, factoryMax, marginMin) ==
  [in |-> in, factory |-> FactoryTotal(in), landed |-> Landed(in),
   margin |-> Margin(in), rate |-> MarginRate(in),
   checks |-> [factory_cost_max |-> FactoryTotal(in) <= factoryMax,
               target_margin_min |-> MarginRate(in) >= marginMin]]

-----------------------------------------------------------------------------
\* What the margin is before any rounding, in units, if shipping, marketing
\* and factory cost are taken times ship / 10, market / 10 and fact / 10.
ExactTotal(in) == Mill * (in.factory + in.deltas)

Varied(in, ship, market, fact) ==
  Mill * (in.retail - in.deltas - in.packaging - in.fulfillment - in.fixed)
  - 1000 * (fact * in.factory + ship * in.shipping)
  - Share(in, in.platformRate + in.lossRate)
  - in.retail * (in.marketingRate * market)

ExactMargin(in) == Varied(in, 10, 10, 10)

CheaperShipping(in) ==
  [shipping |-> Quantize(Varied(in, 8, 10, 10)),
   marketing |-> Quantize(Varied(in, 10, 12, 10)),
   factory |-> Quantize(Varied(in, 10, 10, 11))]

\* _sensitivity(): what _cm_formula() makes of each of the three cases.
Sensitivity(in) ==
  [shipping |-> Quantize(Varied(in, 12, 10, 10)),
   marketing |-> Quantize(Varied(in, 10, 12, 10)),
   factory |-> Quantize(Varied(in, 10, 10, 11))]

===============================================================================
