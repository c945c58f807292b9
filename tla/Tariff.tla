-------------------------------- MODULE Tariff --------------------------------
(***************************************************************************)
(* The calculators and validators of the monolith that the services        *)
(* replaced (backend/src/order): they answer the same question as Pricing, *)
(* but round to whole cents at every step.  Weights and sides are in the   *)
(* units of Pricing, every amount is in cents.                             *)
(***************************************************************************)
EXTENDS Pricing

\* ZONE_RATES and SERVICE_MULTIPLIERS: cents per kilo, and percent.
RateForZone(zone) == IF zone \in 1..3 THEN <<800, 1200, 1600>>[zone] ELSE 0
MultiplierForService(service) == IF service \in 1..3 THEN <<100, 135, 180>>[service] ELSE 100

(***************************************************************************)
(* What is refused.  Discount types: 1 none, 2 a percentage, 3 fixed.      *)
(***************************************************************************)
PackageValid(p) ==
    /\ p.weight > 0
    /\ p.height > 0 /\ p.width > 0 /\ p.length > 0
    /\ p.declared >= 0

DiscountValid(d) ==
    \/ d.type \in {0, 1}
    \/ d.type = 2 /\ d.value \in 0..35
    \/ d.type = 3 /\ d.value >= 0

InsuranceValid(packages, insured) == insured => DeclaredValue(packages) > 0

ValidateCreateOrder(r) ==
    /\ r.originZone # 0 /\ r.destinationZone # 0 /\ r.serviceType # 0
    /\ r.packages # <<>>
    /\ \A i \in DOMAIN r.packages : PackageValid(r.packages[i])
    /\ DiscountValid(r.discount)
    /\ InsuranceValid(r.packages, r.insured)

(***************************************************************************)
(* What it costs.                                                          *)
(***************************************************************************)
FragileSurchargeCents(packages) == 700 * FragilePackages(packages)

InsuranceSurchargeCents(packages, insured) ==
    IF insured THEN Round(DeclaredValue(packages) * 25, 1000) ELSE 0

DiscountCents(d, subtotal) ==
    CASE d.type = 2 -> Round(subtotal * d.value, 100)
      [] d.type = 3 -> d.value
      [] OTHER -> 0

ApplyDiscount(subtotal, discount) == Larger(0, subtotal - discount)

Tariff(r) ==
    LET weight   == TotalBillableWeight(r.packages)
        base     == Round(weight * (RateForZone(r.destinationZone) \div 100), 100)
        subtotal == Round(base * MultiplierForService(r.serviceType), 100)
                    + FragileSurchargeCents(r.packages)
                    + InsuranceSurchargeCents(r.packages, r.insured)
        discount == DiscountCents(r.discount, subtotal)
    IN  [subtotal |-> subtotal, discount |-> discount, total |-> ApplyDiscount(subtotal, discount)]
=============================================================================
