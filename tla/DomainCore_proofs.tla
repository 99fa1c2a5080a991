--------------------------- MODULE DomainCore_proofs ---------------------------
(***************************************************************************)
(* Theorems about Economics and DomainCore: for every offer, fee table and *)
(* number of offers, and for every inputs of the calculator.               *)
(***************************************************************************)
EXTENDS DomainCore, TLAPS

Stages == {"supply", "economics", "spec", "decisions", "review", "done", "failed"}

\* What a stage finds done by the stages before it.
StageInv ==
  /\ stage \in Stages
  /\ stage \in {"supply", "economics", "failed"} => economics = NoValue
  /\ stage \in {"decisions", "review", "done"} => spec.checks = economics.checks
  /\ stage \in {"review", "done"} => decisions = [f \in Feature |-> Decision(f)]
  /\ IF stage = "done" THEN review = ReviewOf(spec) ELSE review = NoValue
  /\ again # NoValue => stage = "done" /\ again = review.decision

\* The artifacts come from the fixture.
SourceInv ==
  /\ \A i \in DOMAIN offers : offers[i] \in Offer
  /\ fees \in Fees
  /\ assessment \subseteq {i \in DOMAIN offers : Acceptable(offers[i])}
  /\ stage \in {"spec", "decisions", "review", "done"} =>
       \E o \in Offer : economics = Calculate(InputFor(o), FactoryMax, MarginMin)

IInv == StageInv /\ SourceInv

-----------------------------------------------------------------------------
\* Rounding.

\* An amount in cents and one in units, half a cent apart at most.
Near(cents, u) ==
  /\ cents \in Int
  /\ -100000 <= 2 * (100000 * cents - u)
  /\ 2 * (100000 * cents - u) <= 100000

\* To the nearest: off by at most half of what is rounded to.
LEMMA HalfUpNear ==
  ASSUME NEW n \in Int, NEW d \in Nat \ {0}
  PROVE  /\ HalfUp(n, d) \in Int
         /\ -d <= 2 * (d * HalfUp(n, d) - n)
         /\ 2 * (d * HalfUp(n, d) - n) <= d
<1>1. CASE n >= 0
  <2>. DEFINE q == (2 * n + d) \div (2 * d)
  <2>1. /\ q \in Int
        /\ (2 * d) * q <= 2 * n + d
        /\ 2 * n + d < (2 * d) * q + 2 * d
    BY <1>1
  <2>2. (2 * d) * q = 2 * (d * q)
    BY <2>1
  <2>3. HalfUp(n, d) = q
    BY <1>1 DEF HalfUp
  <2>. HIDE DEF q
  <2>4. d * q \in Int
    BY <2>1
  <2>. QED  BY <2>1, <2>2, <2>3, <2>4
<1>2. CASE n < 0
  <2>. DEFINE q == (d - 2 * n) \div (2 * d)
  <2>1. /\ q \in Int
        /\ (2 * d) * q <= d - 2 * n
        /\ d - 2 * n < (2 * d) * q + 2 * d
    BY <1>2
  <2>2. (2 * d) * q = 2 * (d * q)
    BY <2>1
  <2>3. HalfUp(n, d) = -q
    BY <1>2 DEF HalfUp
  <2>. HIDE DEF q
  <2>4. d * q \in Int /\ d * (-q) = -(d * q)
    BY <2>1
  <2>. QED  BY <2>1, <2>2, <2>3, <2>4
<1>. QED  BY <1>1, <1>2

LEMMA QuantizeNear ==
  ASSUME NEW u \in Int
  PROVE  Near(Quantize(u), u)
<1>1. Cent \in Nat \ {0}
  BY DEF Cent
<1>2. /\ Quantize(u) \in Int
      /\ -Cent <= 2 * (Cent * Quantize(u) - u)
      /\ 2 * (Cent * Quantize(u) - u) <= Cent
  BY <1>1, HalfUpNear, Zenon DEF Quantize
<1>. QED  BY <1>2 DEF Near, Cent

\* A rate that is rounded up to the target misses it by at most half a per cent.
LEMMA HalfUpReaches ==
  ASSUME NEW n \in Int, NEW d \in Nat \ {0}, NEW m \in Int, HalfUp(n, d) >= m
  PROVE  2 * n >= (2 * m - 1) * d
<1>1. HalfUp(n, d) \in Int /\ 2 * (d * HalfUp(n, d) - n) <= d
  BY HalfUpNear
<1>. DEFINE q == HalfUp(n, d)
<1>. HIDE DEF q
<1>2. d * q >= d * m /\ d * q \in Int /\ d * m \in Int
  BY <1>1 DEF q
<1>3. 2 * (d * m) - d = (2 * m - 1) * d
  OBVIOUS
<1>. QED  BY <1>1, <1>2, <1>3 DEF q

\* What is rounded to at most a number of cents was less than half a cent above.
LEMMA QuantizeBelow ==
  ASSUME NEW u \in Nat, NEW m \in Nat, Quantize(u) <= m
  PROVE  2 * u < (2 * m + 1) * Cent
BY DEF Quantize, HalfUp, Cent

\* Six roundings, half a cent each.
LEMMA MarginBound ==
  ASSUME NEW in \in Input
  PROVE  /\ Margin(in) \in Int
         /\ ExactMargin(in) \in Int
         /\ -3 * Cent <= Cent * Margin(in) - ExactMargin(in)
         /\ Cent * Margin(in) - ExactMargin(in) <= 3 * Cent
<1>. DEFINE P == in.retail * in.platformRate
            M == in.retail * in.marketingRate
            L == in.retail * in.lossRate
<1>1. /\ in.retail \in Nat /\ in.factory \in Nat /\ in.deltas \in Nat
      /\ in.packaging \in Nat /\ in.shipping \in Nat /\ in.fulfillment \in Nat
      /\ in.fixed \in Nat
      /\ in.platformRate \in Nat /\ in.marketingRate \in Nat /\ in.lossRate \in Nat
  BY DEF Input
<1>2. P \in Int /\ M \in Int /\ L \in Int
  BY <1>1
<1>3. /\ in.retail * (in.platformRate + in.lossRate) = P + L
      /\ in.retail * (in.marketingRate * 10) = 10 * M
  BY <1>1
<1>4. ExactMargin(in) =
        10000 * (in.retail - in.deltas - in.packaging - in.fulfillment - in.fixed)
        - 1000 * (10 * in.factory + 10 * in.shipping) - 10 * (P + L) - 10 * M
  BY <1>1, <1>2, <1>3 DEF ExactMargin, Varied, Share, Mill
<1>. DEFINE t == FactoryTotal(in)
            l == Landed(in)
            p == PlatformFee(in)
            m == Marketing(in)
            s == Loss(in)
<1>5. Near(t, 10000 * (in.factory + in.deltas))
  <2>. DEFINE u == 10000 * (in.factory + in.deltas)
  <2>1. u \in Int
    <3>. HIDE DEF P, M, L, t
    <3>. QED  BY <1>1 DEF Near
  <2>2. t = Quantize(u)
    BY DEF FactoryTotal, Mill
  <2>. HIDE DEF u
  <2>3. Near(t, u)
    BY <2>1, <2>2, QuantizeNear
  <2>. QED  BY <2>3 DEF u
<1>6. Near(l, 100000 * t + 10000 * (in.packaging + in.shipping))
  <2>. DEFINE u == 100000 * t + 10000 * (in.packaging + in.shipping)
  <2>1. u \in Int
    <3>. HIDE DEF P, M, L, t
    <3>. QED  BY <1>1, <1>5 DEF Near
  <2>2. l = Quantize(u)
    BY DEF Landed, Cent, Mill
  <2>. HIDE DEF u
  <2>3. Near(l, u)
    BY <2>1, <2>2, QuantizeNear
  <2>. QED  BY <2>3 DEF u
<1>7. Near(p, 10 * P + 10000 * in.fixed)
  <2>. DEFINE u == 10 * P + 10000 * in.fixed
  <2>1. u \in Int
    <3>. HIDE DEF P, M, L, t
    <3>. QED  BY <1>1, <1>2 DEF Near
  <2>2. p = Quantize(u)
    BY DEF PlatformFee, Share, Mill
  <2>. HIDE DEF u
  <2>3. Near(p, u)
    BY <2>1, <2>2, QuantizeNear
  <2>. QED  BY <2>3 DEF u
<1>8. Near(m, 10 * M)
  <2>. DEFINE u == 10 * M
  <2>1. u \in Int
    <3>. HIDE DEF P, M, L, t
    <3>. QED  BY <1>2 DEF Near
  <2>2. m = Quantize(u)
    BY DEF Marketing, Share
  <2>. HIDE DEF u
  <2>3. Near(m, u)
    BY <2>1, <2>2, QuantizeNear
  <2>. QED  BY <2>3 DEF u
<1>9. Near(s, 10 * L)
  <2>. DEFINE u == 10 * L
  <2>1. u \in Int
    <3>. HIDE DEF P, M, L, t
    <3>. QED  BY <1>2 DEF Near
  <2>2. s = Quantize(u)
    BY DEF Loss, Share
  <2>. HIDE DEF u
  <2>3. Near(s, u)
    BY <2>1, <2>2, QuantizeNear
  <2>. QED  BY <2>3 DEF u
<1>. DEFINE c == 10000 * (in.retail - in.fulfillment) - 100000 * (l + p + m + s)
<1>10. c \in Int
  <2>. HIDE DEF P, M, L, t, l, p, m, s
  <2>. QED  BY <1>1, <1>6, <1>7, <1>8, <1>9 DEF Near
<1>11. Near(Margin(in), c)
  <2>1. Margin(in) = Quantize(c)
    BY DEF Margin, Cent, Mill
  <2>. HIDE DEF c
  <2>. QED  BY <1>10, <2>1, QuantizeNear
<1>. HIDE DEF P, M, L, t, l, p, m, s
<1>. QED  BY <1>1, <1>2, <1>4, <1>5, <1>6, <1>7, <1>8, <1>9, <1>11 DEF Cent, Near

\* Taking shipping, marketing or factory cost up takes the exact margin down.
LEMMA VariedBelow ==
  ASSUME NEW in \in Input, NEW ship \in Nat, NEW market \in Nat, NEW fact \in Nat,
         ship >= 10, market >= 10, fact >= 10
  PROVE  /\ Varied(in, ship, market, fact) \in Int
         /\ Varied(in, ship, market, fact) <= ExactMargin(in)
<1>1. /\ in.retail \in Nat /\ in.factory \in Nat /\ in.deltas \in Nat
      /\ in.packaging \in Nat /\ in.shipping \in Nat /\ in.fulfillment \in Nat
      /\ in.fixed \in Nat
      /\ in.platformRate \in Nat /\ in.marketingRate \in Nat /\ in.lossRate \in Nat
  BY DEF Input
<1>. DEFINE f == fact * in.factory
            s == ship * in.shipping
            k == in.marketingRate * market
            n == in.retail * k
            h == in.retail * (in.platformRate + in.lossRate)
<1>2. f \in Int /\ f >= 10 * in.factory
  BY <1>1
<1>3. s \in Int /\ s >= 10 * in.shipping
  BY <1>1
<1>4. k \in Int /\ k >= in.marketingRate * 10
  BY <1>1
<1>5. n \in Int /\ n >= in.retail * (in.marketingRate * 10)
                /\ in.retail * (in.marketingRate * 10) \in Int
  <2>. HIDE DEF k
  <2>. QED  BY <1>1, <1>4
<1>6. h \in Int
  BY <1>1
<1>7. Varied(in, ship, market, fact) =
        10000 * (in.retail - in.deltas - in.packaging - in.fulfillment - in.fixed)
        - 1000 * (f + s) - 10 * h - n
  BY DEF Varied, Share, Mill
<1>8. ExactMargin(in) =
        10000 * (in.retail - in.deltas - in.packaging - in.fulfillment - in.fixed)
        - 1000 * (10 * in.factory + 10 * in.shipping) - 10 * h
        - in.retail * (in.marketingRate * 10)
  BY DEF ExactMargin, Varied, Share, Mill
<1>. HIDE DEF f, s, k, n, h
<1>. QED  BY <1>1, <1>2, <1>3, <1>5, <1>6, <1>7, <1>8

\* What is rounded up from at most x does not exceed a count of cents above x.
LEMMA CaseBound ==
  ASSUME NEW in \in Input, NEW u \in Int, u <= ExactMargin(in)
  PROVE  Quantize(u) <= Margin(in) + 3
<1>1. /\ Margin(in) \in Int /\ ExactMargin(in) \in Int
      /\ -300000 <= 100000 * Margin(in) - ExactMargin(in)
  BY MarginBound DEF Cent
<1>2. Quantize(u) \in Int /\ 2 * (100000 * Quantize(u) - u) <= 100000
  BY QuantizeNear DEF Near
<1>. QED  BY <1>1, <1>2

-----------------------------------------------------------------------------
\* The invariant.

LEMMA InputTyped ==
  ASSUME NEW o \in Offer, fees \in Fees
  PROVE  InputFor(o) \in Input
<1>1. Cost(o) \in Nat
  BY FixtureAssumption DEF Cost
<1>2. /\ fees.packaging \in Nat /\ fees.shipping \in Nat /\ fees.fulfillment \in Nat
      /\ fees.platformRate \in Nat /\ fees.marketingRate \in Nat /\ fees.lossRate \in Nat
  BY FixtureAssumption
<1>. QED  BY <1>1, <1>2 DEF InputFor, Input, Retail, Deltas

LEMMA InitInv == Init => IInv
<1>. SUFFICES ASSUME Init PROVE IInv
  OBVIOUS
<1>1. StageInv
  BY DEF Init, StageInv, Stages
<1>2. SourceInv
  <2>1. PICK n \in 0..MaxOffers : offers \in [1..n -> Offer]
    BY DEF Init
  <2>. QED  BY <2>1 DEF Init, SourceInv
<1>. QED  BY <1>1, <1>2 DEF IInv

LEMMA FixtureKept ==
  ASSUME [Next]_vars
  PROVE  offers' = offers /\ painful' = painful /\ traceable' = traceable /\ fees' = fees
BY DEF Next, Supply, RunEconomics, RaiseNoSupplier, Spec_v1, Decide, Review, ReviewAgain,
       vars, fixture

\* The rules give the spec that a review is of the verdict of that review.
LEMMA SameVerdict == Verdict(Broken(spec, {ReviewOf(spec)})) = ReviewOf(spec).decision
<1>1. ReviewOf(spec).of = spec /\ ReviewOf(spec).decision = Verdict(Broken(spec, {}))
  BY DEF ReviewOf
<1>2. Broken(spec, {ReviewOf(spec)}) = Broken(spec, {})
  BY <1>1 DEF Broken
<1>. QED  BY <1>1, <1>2

LEMMA StageStep ==
  ASSUME IInv, Next
  PROVE  StageInv'
<1>. USE DEF IInv, StageInv, Stages
<1>1. CASE Supply
  BY <1>1 DEF Supply
<1>2. CASE RunEconomics
  BY <1>2 DEF RunEconomics
<1>3. CASE RaiseNoSupplier
  BY <1>3 DEF RaiseNoSupplier
<1>4. CASE Spec_v1
  BY <1>4 DEF Spec_v1
<1>5. CASE Decide
  <2>1. decisions' = [f \in Feature |-> Decision(f)]'
    BY <1>5 DEF Decide, Decision, OffersFor, fixture
  <2>. QED  BY <1>5, <2>1 DEF Decide
<1>6. CASE Review
  <2>1. [f \in Feature |-> Decision(f)]' = [f \in Feature |-> Decision(f)]
    BY <1>6 DEF Review, Decision, OffersFor, fixture
  <2>2. ReviewOf(spec)' = ReviewOf(spec)
    BY <1>6 DEF Review, ReviewOf, Verdict, Broken, fixture
  <2>. QED  BY <1>6, <2>1, <2>2 DEF Review
<1>7. CASE ReviewAgain
  <2>1. [f \in Feature |-> Decision(f)]' = [f \in Feature |-> Decision(f)]
    BY <1>7 DEF ReviewAgain, Decision, OffersFor, fixture
  <2>2. ReviewOf(spec)' = ReviewOf(spec)
    BY <1>7 DEF ReviewAgain, ReviewOf, Verdict, Broken, fixture
  <2>3. again' = review.decision
    BY <1>7, SameVerdict DEF ReviewAgain
  <2>. QED  BY <1>7, <2>1, <2>2, <2>3 DEF ReviewAgain
<1>. QED  BY <1>1, <1>2, <1>3, <1>4, <1>5, <1>6, <1>7 DEF Next

LEMMA SourceStep ==
  ASSUME IInv, Next
  PROVE  SourceInv'
<1>. USE DEF IInv, SourceInv
<1>1. offers' = offers /\ fees' = fees
  BY FixtureKept
<1>2. (assessment \subseteq {i \in DOMAIN offers : Acceptable(offers[i])})'
  <2>1. CASE Supply
    BY <2>1, <1>1 DEF Supply
  <2>2. CASE ~Supply
    BY <2>2, <1>1 DEF Next, RunEconomics, RaiseNoSupplier, Spec_v1, Decide, Review, ReviewAgain
  <2>. QED  BY <2>1, <2>2
<1>3. \A o \in Offer : InputFor(o)' = InputFor(o)
  BY <1>1 DEF InputFor
<1>4. (stage \in {"spec", "decisions", "review", "done"} =>
        \E o \in Offer : economics = Calculate(InputFor(o), FactoryMax, MarginMin))'
  <2>1. CASE RunEconomics
    <3>1. PICK i \in Candidates :
            economics' = Calculate(InputFor(offers[i]), FactoryMax, MarginMin)
      BY <2>1 DEF RunEconomics
    <3>2. offers[i] \in Offer
      BY DEF Candidates, FirstOf
    <3>. QED  BY <1>3, <3>1, <3>2
  <2>2. CASE ~RunEconomics
    <3>1. /\ economics' = economics
          /\ stage' \in {"spec", "decisions", "review", "done"} =>
               stage \in {"spec", "decisions", "review", "done"}
      BY <2>2 DEF Next, Supply, RaiseNoSupplier, Spec_v1, Decide, Review, ReviewAgain
    <3>. QED  BY <1>3, <3>1
  <2>. QED  BY <2>1, <2>2
<1>. QED  BY <1>1, <1>2, <1>4

LEMMA StutterInv ==
  ASSUME IInv, UNCHANGED vars
  PROVE  IInv'
<1>1. StageInv'
  <2>1. [f \in Feature |-> Decision(f)]' = [f \in Feature |-> Decision(f)]
    BY DEF vars, Decision, OffersFor, fixture
  <2>2. ReviewOf(spec)' = ReviewOf(spec)
    BY DEF vars, ReviewOf, Verdict, Broken, fixture
  <2>. QED  BY <2>1, <2>2 DEF IInv, StageInv, vars, Stages
<1>2. SourceInv'
  BY DEF IInv, SourceInv, vars, fixture, InputFor
<1>. QED  BY <1>1, <1>2 DEF IInv

THEOREM CoreInvariant == Spec => []IInv
<1>1. IInv /\ [Next]_vars => IInv'
  BY StageStep, SourceStep, StutterInv DEF IInv
<1>. QED  BY <1>1, InitInv, PTL DEF Spec

-----------------------------------------------------------------------------
\* For every inputs, the stored margin is within three cents of the exact one:
\* six roundings of half a cent (calculator.py:120-143).
THEOREM MarginSafe == Spec => []MarginNearExact
<1>1. IInv => MarginNearExact
  <2>. SUFFICES ASSUME IInv, economics # NoValue
                PROVE  LET d == Cent * economics.margin - ExactMargin(economics.in)
                       IN -3 * Cent <= d /\ d <= 3 * Cent
    BY DEF MarginNearExact
  <2>1. PICK o \in Offer : economics = Calculate(InputFor(o), FactoryMax, MarginMin)
    BY DEF IInv, StageInv, Stages, SourceInv
  <2>2. InputFor(o) \in Input
    BY InputTyped DEF IInv, SourceInv
  <2>3. economics.in = InputFor(o) /\ economics.margin = Margin(InputFor(o))
    BY <2>1 DEF Calculate
  <2>. QED  BY <2>2, <2>3, MarginBound
<1>. QED  BY <1>1, CoreInvariant, PTL

\* For every inputs, none of the three cases is more than three cents better
\* than the base case (calculator.py:191-251).
THEOREM CasesSafe == Spec => []WorseCasesAreWorse
<1>1. IInv => WorseCasesAreWorse
  <2>. SUFFICES ASSUME IInv, economics # NoValue,
                       NEW c \in DOMAIN Sensitivity(economics.in)
                PROVE  Sensitivity(economics.in)[c] <= economics.margin + 3
    BY DEF WorseCasesAreWorse
  <2>1. PICK o \in Offer : economics = Calculate(InputFor(o), FactoryMax, MarginMin)
    BY DEF IInv, StageInv, Stages, SourceInv
  <2>2. InputFor(o) \in Input
    BY InputTyped DEF IInv, SourceInv
  <2>3. economics.in = InputFor(o) /\ economics.margin = Margin(InputFor(o))
    BY <2>1 DEF Calculate
  <2>. DEFINE in == economics.in
  <2>4. in \in Input /\ economics.margin = Margin(in)
    BY <2>2, <2>3
  <2>. HIDE DEF in
  <2>5. Quantize(Varied(in, 12, 10, 10)) <= Margin(in) + 3
    BY <2>4, VariedBelow, CaseBound
  <2>6. Quantize(Varied(in, 10, 12, 10)) <= Margin(in) + 3
    BY <2>4, VariedBelow, CaseBound
  <2>7. Quantize(Varied(in, 10, 10, 11)) <= Margin(in) + 3
    BY <2>4, VariedBelow, CaseBound
  <2>. QED  BY <2>4, <2>5, <2>6, <2>7 DEF in, Sensitivity
<1>. QED  BY <1>1, CoreInvariant, PTL

\* What passes the review keeps the limit on the factory cost and the target
\* margin by the exact figures, up to the roundings (rules.py:46-52 on the
\* checks of calculator.py:152-167).
THEOREM PassSafe == Spec => []PassIsAffordable
<1>1. IInv => PassIsAffordable
  <2>. SUFFICES ASSUME IInv, review # NoValue, review.decision = "PASS"
                PROVE  /\ 2 * ExactTotal(economics.in) < (2 * FactoryMax + 1) * Cent
                       /\ 2 * ExactMargin(economics.in)
                            >= (2 * MarginMin - 1) * 100 * Retail - 6 * Cent
    BY DEF PassIsAffordable
  <2>1. /\ stage = "done"
        /\ review = ReviewOf(spec) /\ spec.checks = economics.checks
    BY DEF IInv, StageInv, Stages
  <2>2. PICK o \in Offer : economics = Calculate(InputFor(o), FactoryMax, MarginMin)
    BY <2>1 DEF IInv, SourceInv
  <2>. DEFINE in == InputFor(o)
  <2>3. in \in Input /\ in.retail = Retail
    BY InputTyped DEF IInv, SourceInv, InputFor
  <2>4. "R003" \notin Broken(spec, {})
    BY <2>1 DEF ReviewOf, Verdict
  <2>5. \A c \in DOMAIN economics.checks : economics.checks[c]
    BY <2>1, <2>4 DEF Broken
  <2>6. economics.in = in /\ economics.margin = Margin(in)
    BY <2>2 DEF Calculate
  <2>7. FactoryTotal(in) <= FactoryMax /\ MarginRate(in) >= MarginMin
    BY <2>2, <2>5 DEF Calculate
  <2>. HIDE DEF in
  <2>8. 2 * ExactTotal(in) < (2 * FactoryMax + 1) * Cent
    BY <2>3, <2>7, QuantizeBelow DEF FactoryTotal, ExactTotal, Input, Mill, FactoryMax
  <2>9. 2 * ExactMargin(in) >= (2 * MarginMin - 1) * 100 * Retail - 6 * Cent
    <3>1. Margin(in) \in Int /\ ExactMargin(in) \in Int
          /\ Cent * Margin(in) - ExactMargin(in) <= 3 * Cent
      BY <2>3, MarginBound
    <3>2. HalfUp(1000 * Margin(in), Retail) >= MarginMin
      BY <2>3, <2>7 DEF MarginRate, Retail
    <3>3. 2 * (1000 * Margin(in)) >= (2 * MarginMin - 1) * Retail
      BY <3>1, <3>2, HalfUpReaches DEF Retail, MarginMin
    <3>. QED  BY <3>1, <3>3 DEF Retail, MarginMin, Cent
  <2>. QED  BY <2>6, <2>8, <2>9
<1>. QED  BY <1>1, CoreInvariant, PTL

\* What passes the review rests on traceable evidence, on pain points and on
\* offers within the limits (pipeline.py:261-371, rules.py:55-83).
THEOREM PassRests == Spec => []PassRestsOnFixture
<1>1. IInv => PassRestsOnFixture
  <2>. SUFFICES ASSUME IInv, review # NoValue, review.decision = "PASS"
                PROVE  /\ traceable
                       /\ \A f \in DOMAIN decisions :
                            decisions[f].status = "ACCEPT" =>
                              /\ f \in painful \ {Unwanted}
                              /\ \E q \in {offers[i] : i \in DOMAIN offers} :
                                   /\ q.feature = f /\ q \in decisions[f].supply
                                   /\ q.support \notin {"unsupported", "conflict"}
                                   /\ q.moq <= MoqMax /\ Cost(q) <= 10 * FactoryMax /\ q.mold
    BY DEF PassRestsOnFixture
  <2>1. /\ stage = "done" /\ review = ReviewOf(spec)
        /\ decisions = [f \in Feature |-> Decision(f)]
    BY DEF IInv, StageInv, Stages
  <2>2. "R004" \notin Broken(spec, {}) /\ "R005" \notin Broken(spec, {})
    BY <2>1 DEF ReviewOf, Verdict
  <2>3. traceable
    BY <2>2 DEF Broken
  <2>4. ASSUME NEW f \in Feature, Decision(f).status = "ACCEPT"
        PROVE  /\ f \in painful \ {Unwanted}
               /\ \E q \in {offers[i] : i \in DOMAIN offers} :
                    /\ q.feature = f /\ q \in Decision(f).supply
                    /\ q.support \notin {"unsupported", "conflict"}
                    /\ q.moq <= MoqMax /\ Cost(q) <= 10 * FactoryMax /\ q.mold
    <3>1. HasFullChain(Decision(f))
      BY <2>1, <2>2, <2>4 DEF Broken
    <3>2. f \in painful /\ f # Unwanted
      BY <2>4, <3>1 DEF HasFullChain, Decision
    <3>3. OffersFor(f) # {} /\ Decision(f).supply = OffersFor(f)
      BY <3>1 DEF HasFullChain, Decision
    <3>4. PICK i \in assessment : offers[i].feature = f /\ offers[i] \in OffersFor(f)
      BY <3>3 DEF OffersFor
    <3>5. i \in DOMAIN offers /\ Acceptable(offers[i])
      BY DEF IInv, SourceInv
    <3>. QED  BY <3>2, <3>3, <3>4, <3>5 DEF Acceptable, WithinLimits
  <2>. QED  BY <2>1, <2>3, <2>4
<1>. QED  BY <1>1, CoreInvariant, PTL

\* The tool that runs the rules again agrees with the stored review
\* (mcp_server.py:188-208).
THEOREM SecondReview == Spec => []SecondReviewAgrees
<1>1. IInv => SecondReviewAgrees
  BY DEF IInv, StageInv, SecondReviewAgrees
<1>. QED  BY <1>1, CoreInvariant, PTL

===============================================================================
