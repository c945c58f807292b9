------------------------------- MODULE Pricing --------------------------------
(***************************************************************************)
(* The pricing service (services/pricing): PricingCalculator and the five  *)
(* calculators it is made of.  The service keeps no state: CalculatePrice  *)
(* is a function of the request.                                           *)
(*                                                                         *)
(* The code calculates with floating-point numbers of quetzales and kilos. *)
(* Here every amount is an integer on a grid fine enough to hold each      *)
(* intermediate result exactly, so that what is rounded, and when, is what *)
(* the code rounds: weights in 1/10000 kg, heights in half centimetres,    *)
(* widths and lengths in centimetres, declared values and fixed discounts  *)
(* in cents, amounts inside a calculation in 1/2000000 of a quetzal.       *)
(***************************************************************************)
EXTENDS Integers, Sequences, FiniteSets, Functions

CONSTANT None  \* no discount; no price, the request being refused

Quetzal == 2000000
Cent == 20000

\* Math.round(x / unit), for an even unit.
Round(x, unit) == (x + unit \div 2) \div unit

Smaller(a, b) == IF a < b THEN a ELSE b
Larger(a, b) == IF a < b THEN b ELSE a

\* x * percent / 100, without leaving the 32 bits of TLC's integers.
Percent(percent, x) == (x \div 100) * percent + ((x % 100) * percent) \div 100

(***************************************************************************)
(* Packages                                                                *)
(***************************************************************************)
\* Volume / 5000: on this grid the product of the sides is the weight.
VolumetricWeight(p) == p.height * p.width * p.length

BillableWeight(p) == Larger(p.weight, VolumetricWeight(p))

TotalBillableWeight(packages) ==
    SumFunction([i \in DOMAIN packages |-> BillableWeight(packages[i])])

PackagesOK(packages) ==
    /\ packages # <<>>
    /\ \A i \in DOMAIN packages :
        /\ packages[i].weight > 0
        /\ packages[i].height > 0 /\ packages[i].width > 0 /\ packages[i].length > 0
        /\ packages[i].declared >= 0

(***************************************************************************)
(* Rates, multipliers, surcharges                                          *)
(***************************************************************************)
\* Quetzales per kilo; a zone the table does not name costs nothing.
RatePerKg(zone) == IF zone \in 1..3 THEN <<8, 12, 16>>[zone] ELSE 0

\* In twentieths.
Multiplier(service) == IF service \in 1..3 THEN <<20, 27, 36>>[service] ELSE 20

BaseSubtotal(weight, zone) == weight * RatePerKg(zone) * (Quetzal \div 10000)
ServiceSubtotal(base, service) == (base \div 20) * Multiplier(service)

FragilePackages(packages) == Cardinality({i \in DOMAIN packages : packages[i].fragile})
DeclaredValue(packages) == SumFunction([i \in DOMAIN packages |-> packages[i].declared])

FragileSurcharge(packages) == 7 * Quetzal * FragilePackages(packages)

InsuranceSurcharge(packages, insured) ==
    IF insured THEN (DeclaredValue(packages) * Cent) \div 40 ELSE 0

(***************************************************************************)
(* Discounts: type 0 is none, 1 a percentage, 2 a fixed amount             *)
(***************************************************************************)
MaxPercent == 35

Given(d) == d # None /\ d.type # 0

\* Mutant: the limit on percentages is not checked.
DiscountNotNegative(d) == Given(d) => d.value >= 0

DiscountOK(d) == Given(d) => d.value >= 0 /\ (d.type = 1 => d.value <= MaxPercent)

\* Mutant: a fixed discount may exceed what it is taken from.
DiscountUncapped(d, subtotal) ==
    IF ~Given(d) THEN 0
    ELSE CASE d.type = 1 -> Percent(d.value, subtotal)
           [] d.type = 2 -> d.value * Cent
           [] OTHER -> 0

Discount(d, subtotal) ==
    IF ~Given(d) THEN 0
    ELSE CASE d.type = 1 -> Percent(d.value, subtotal)
           [] d.type = 2 -> Smaller(d.value * Cent, subtotal)
           [] OTHER -> 0

(***************************************************************************)
(* The calculation                                                         *)
(***************************************************************************)
Insurable(packages, insured) == insured => DeclaredValue(packages) > 0

\* What a price says, in cents, hundredths of a kilo, and twentieths.
Price ==
    [orderBillableKg : Nat, baseSubtotal : Nat, serviceSubtotal : Nat, fragileSurcharge : Nat,
     insuranceSurcharge : Nat, subtotalWithSurcharges : Nat, discountAmount : Nat, total : Nat,
     ratePerKg : Nat, serviceMultiplier : Nat, fragilePackagesCount : Nat, declaredValueTotal : Nat]

\* Every part is rounded to cents on its own, from the exact amounts.
Breakdown(r) ==
    LET weight    == TotalBillableWeight(r.packages)
        base      == BaseSubtotal(weight, r.destinationZone)
        service   == ServiceSubtotal(base, r.serviceType)
        fragile   == FragileSurcharge(r.packages)
        insurance == InsuranceSurcharge(r.packages, r.insured)
        subtotal  == service + fragile + insurance
        discount  == Discount(r.discount, subtotal)
    IN  [orderBillableKg        |-> Round(weight, 100),
         baseSubtotal           |-> Round(base, Cent),
         serviceSubtotal        |-> Round(service, Cent),
         fragileSurcharge       |-> Round(fragile, Cent),
         insuranceSurcharge     |-> Round(insurance, Cent),
         subtotalWithSurcharges |-> Round(subtotal, Cent),
         discountAmount         |-> Round(discount, Cent),
         total                  |-> Larger(0, Round(subtotal - discount, Cent)),
         ratePerKg              |-> RatePerKg(r.destinationZone),
         serviceMultiplier      |-> Multiplier(r.serviceType),
         fragilePackagesCount   |-> FragilePackages(r.packages),
         declaredValueTotal     |-> DeclaredValue(r.packages)]

Valid(r) ==
    PackagesOK(r.packages) /\ Insurable(r.packages, r.insured) /\ DiscountOK(r.discount)

\* What the controller answers: a price, or INVALID_ARGUMENT.
CalculatePrice(r) == IF Valid(r) THEN Breakdown(r) ELSE None
=============================================================================
