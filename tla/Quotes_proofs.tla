---------------------------- MODULE Quotes_proofs -----------------------------
(***************************************************************************)
(* Proofs about Quotes, for all bodies: any number of packages, any        *)
(* weights, sides, declared values and discounts.  However the amounts are *)
(* rounded, prices add up, no order costs more than the form announced, no *)
(* shipment is free, the monolith agrees, and the rows keep the order.     *)
(***************************************************************************)
EXTENDS Quotes, Sums, SequenceTheorems

(***************************************************************************)
(* Names and numbers                                                       *)
(***************************************************************************)
LEMMA NamesNumbered ==
    ASSUME NEW names, NEW name
    PROVE  /\ name \in Range(names) =>
                /\ NumberOf(name, names) \in DOMAIN names
                /\ names[NumberOf(name, names)] = name
           /\ name \notin Range(names) => NumberOf(name, names) = 0
<1>1. CASE name \in Range(names)
  <2> DEFINE Found(i) == i \in DOMAIN names /\ names[i] = name
  <2>1. \E i : Found(i)
    BY <1>1 DEF Range
  <2>2. Found(CHOOSE i : Found(i))
    BY <2>1
  <2>3. NumberOf(name, names) = CHOOSE i : Found(i)
    BY <1>1 DEF NumberOf
  <2>4. Found(NumberOf(name, names))
    BY <2>2, <2>3
  <2> QED
    BY <1>1, <2>4
<1>2. CASE name \notin Range(names)
  BY <1>2 DEF NumberOf
<1> QED
  BY <1>1, <1>2

\* A name comes back from its number.
LEMMA NamesComeBack ==
    ASSUME NEW names, NEW name \in Range(names), NEW other
    PROVE  NameOf(NumberOf(name, names), names, other) = name
BY NamesNumbered DEF NameOf

\* The names in use.
LEMMA NameTables ==
    /\ DOMAIN Zones = 1..3 /\ DOMAIN Services = 1..3
    /\ DOMAIN Discounts = 1..2 /\ Discounts[1] = "PERCENT" /\ Discounts[2] = "FIXED"
    /\ Range(Discounts) = {"PERCENT", "FIXED"}
    /\ DOMAIN Statuses = 1..2 /\ Statuses[1] = "ACTIVE" /\ Statuses[2] = "CANCELLED"
    /\ Range(Statuses) = {"ACTIVE", "CANCELLED"}
<1>1. DOMAIN Zones = 1..3 /\ DOMAIN Services = 1..3
  BY DEF Zones, Services
<1>2. DOMAIN Discounts = 1..2 /\ Discounts[1] = "PERCENT" /\ Discounts[2] = "FIXED"
  BY DEF Discounts
<1>3. DOMAIN Statuses = 1..2 /\ Statuses[1] = "ACTIVE" /\ Statuses[2] = "CANCELLED"
  BY DEF Statuses
<1> QED
  BY <1>1, <1>2, <1>3 DEF Range

(***************************************************************************)
(* Packages                                                                *)
(***************************************************************************)
LEMMA PackageWeighs ==
    ASSUME NEW p \in PackageBody, p.weight > 0, p.height > 0, p.width > 0, p.length > 0
    PROVE  BillableWeight(p) \in Nat /\ BillableWeight(p) >= p.weight
<1>1. p.weight \in Int /\ p.height \in Nat /\ p.width \in Nat /\ p.length \in Nat
  BY DEF PackageBody
<1>2. p.height * p.width \in Nat
  BY <1>1
<1>3. VolumetricWeight(p) \in Nat
  BY <1>1, <1>2 DEF VolumetricWeight
<1> QED
  BY <1>1, <1>3 DEF BillableWeight, Larger

LEMMA PackagesWeigh ==
    ASSUME NEW packages \in Seq(PackageBody), PackagesOK(packages)
    PROVE  /\ DOMAIN packages = 1..Len(packages) /\ IsFiniteSet(DOMAIN packages) /\ 1 \in DOMAIN packages
           /\ \A i \in DOMAIN packages :
                /\ packages[i] \in PackageBody /\ packages[i].declared \in Nat
                /\ BillableWeight(packages[i]) \in Nat /\ BillableWeight(packages[i]) >= packages[i].weight
           /\ TotalBillableWeight(packages) \in Nat
           /\ TotalBillableWeight(packages) >= packages[1].weight
           /\ DeclaredValue(packages) \in Nat
           /\ FragilePackages(packages) \in Nat
<1> DEFINE D == DOMAIN packages
           w == [i \in D |-> BillableWeight(packages[i])]
           d == [i \in D |-> packages[i].declared]
<1>1. D = 1..Len(packages) /\ Len(packages) \in Nat /\ Len(packages) # 0
  BY LenProperties, EmptySeq DEF PackagesOK
<1>2. IsFiniteSet(D) /\ 1 \in D
  BY <1>1, FS_Interval
<1>3. ASSUME NEW i \in D
      PROVE  /\ packages[i] \in PackageBody /\ packages[i].declared \in Nat
             /\ packages[i].weight \in Int
             /\ BillableWeight(packages[i]) \in Nat /\ BillableWeight(packages[i]) >= packages[i].weight
  <2>1. packages[i] \in PackageBody
    BY <1>1, ElementOfSeq
  <2> QED
    BY <2>1, PackageWeighs DEF PackagesOK, PackageBody
<1>4. SumFunctionOnSet(w, D) \in Nat /\ SumFunctionOnSet(d, D) \in Nat
  BY <1>2, <1>3, SumType
<1>5. SumFunctionOnSet(w, D) >= packages[1].weight
  <2>1. \A i \in D : w[i] \in Int
    BY <1>3
  <2>5. SumFunctionOnSet(w, D) = w[1] + SumFunctionOnSet(w, D \ {1})
    BY <1>2, <2>1, SumAny
  <2>2. IsFiniteSet(D \ {1})
    BY <1>2, FS_RemoveElement
  <2>3. SumFunctionOnSet(w, D \ {1}) \in Nat
    BY <1>3, <2>2, SumType
  <2>4. w[1] \in Nat /\ w[1] >= packages[1].weight /\ packages[1].weight \in Int
    BY <1>2, <1>3
  <2> HIDE DEF w
  <2> QED
    BY <2>3, <2>4, <2>5
<1>6. {i \in D : packages[i].fragile} \in SUBSET D
  OBVIOUS
<1>7. FragilePackages(packages) \in Nat
  BY <1>2, <1>6, FS_Subset, FS_CardinalityType DEF FragilePackages
<1>8. DOMAIN w = D /\ DOMAIN d = D
  OBVIOUS
<1> QED
  BY <1>1, <1>2, <1>3, <1>4, <1>5, <1>7, <1>8 DEF TotalBillableWeight, DeclaredValue, SumFunction

(***************************************************************************)
(* Percentages and rounding                                                *)
(***************************************************************************)
\* Percent is a share rounded down.
LEMMA PercentIsShare ==
    ASSUME NEW p \in 0..100, NEW x \in Nat
    PROVE  /\ Percent(p, x) \in 0..x
           /\ 100 * Percent(p, x) <= x * p /\ x * p < 100 * Percent(p, x) + 100
<1> DEFINE q == x \div 100
           s == x % 100
<1>1. q \in Nat /\ s \in 0..99 /\ x = 100 * q + s
  OBVIOUS
<1>2. Percent(p, x) = q * p + (s * p) \div 100
  BY DEF Percent
<1> HIDE DEF q, s
<1>3. q * p \in Nat /\ s * p \in Nat
  BY <1>1
<1>4. x * p = 100 * (q * p) + s * p
  BY <1>1
<1>5. q * p <= 100 * q /\ s * p <= 100 * s
  BY <1>1
<1> DEFINE a == q * p
           b == s * p
<1> HIDE DEF a, b
<1>6. a \in Nat /\ b \in Nat /\ x * p = 100 * a + b /\ b <= 100 * s /\ Percent(p, x) = a + b \div 100
  BY <1>2, <1>3, <1>4, <1>5 DEF a, b
<1>7. 100 * (b \div 100) <= b /\ b < 100 * (b \div 100) + 100 /\ b \div 100 \in Nat
  BY <1>6
<1>8. x * p <= 100 * x
  OBVIOUS
<1>9. 100 * Percent(p, x) <= x * p /\ x * p < 100 * Percent(p, x) + 100 /\ Percent(p, x) \in Nat
  BY <1>6, <1>7
<1> QED
  BY <1>8, <1>9

\* Rounding to cents is off by half a cent at most.
LEMMA RoundIsNear ==
    ASSUME NEW x \in Nat
    PROVE  /\ Round(x, Cent) \in Nat
           /\ 20000 * Round(x, Cent) <= x + 10000 /\ x < 20000 * Round(x, Cent) + 10000
BY DEF Round, Cent

(***************************************************************************)
(* The exact amounts behind a price                                        *)
(***************************************************************************)
Accepted(dto) == dto \in Body /\ CreateOrderDto(dto) /\ Valid(ToGrpc(dto))

Base(r) == BaseSubtotal(TotalBillableWeight(r.packages), r.destinationZone)
Service(r) == ServiceSubtotal(Base(r), r.serviceType)
Insurance(r) == InsuranceSurcharge(r.packages, r.insured)
Subtotal(r) == Service(r) + FragileSurcharge(r.packages) + Insurance(r)
Cut(r) == Discount(r.discount, Subtotal(r))

LEMMA BreakdownIs ==
    ASSUME NEW r, NEW b, b = Breakdown(r)
    PROVE  /\ b.orderBillableKg = Round(TotalBillableWeight(r.packages), 100)
           /\ b.baseSubtotal = Round(Base(r), Cent) /\ b.serviceSubtotal = Round(Service(r), Cent)
           /\ b.fragileSurcharge = Round(FragileSurcharge(r.packages), Cent)
           /\ b.insuranceSurcharge = Round(Insurance(r), Cent)
           /\ b.subtotalWithSurcharges = Round(Subtotal(r), Cent)
           /\ b.discountAmount = Round(Cut(r), Cent)
           /\ b.total = Larger(0, Round(Subtotal(r) - Cut(r), Cent))
           /\ b.ratePerKg = RatePerKg(r.destinationZone)
           /\ b.serviceMultiplier = Multiplier(r.serviceType)
           /\ b.fragilePackagesCount = FragilePackages(r.packages)
           /\ b.declaredValueTotal = DeclaredValue(r.packages)
BY DEF Breakdown, Base, Service, Insurance, Subtotal, Cut

\* What the gateway makes of a body.
LEMMA RequestIs ==
    ASSUME NEW dto \in Body, CreateOrderDto(dto), NEW r, r = ToGrpc(dto)
    PROVE  /\ r.packages = dto.packages /\ dto.packages \in Seq(PackageBody) /\ dto.packages # <<>>
           /\ r.insured = dto.insured /\ dto.insured \in BOOLEAN
           /\ dto.originZone \in Range(Zones) /\ dto.destinationZone \in Range(Zones)
           /\ dto.serviceType \in Range(Services)
           /\ r.originZone = NumberOf(dto.originZone, Zones) /\ r.originZone \in 1..3
           /\ r.destinationZone = NumberOf(dto.destinationZone, Zones) /\ r.destinationZone \in 1..3
           /\ r.serviceType = NumberOf(dto.serviceType, Services) /\ r.serviceType \in 1..3
           /\ dto.discount = None => r.discount = None
           /\ dto.discount # None =>
                /\ r.discount = [type |-> NumberOf(dto.discount.type, Discounts), value |-> dto.discount.value]
                /\ dto.discount.value \in Nat
                /\ \/ dto.discount.type = "NONE" /\ r.discount.type = 0
                   \/ dto.discount.type = "PERCENT" /\ r.discount.type = 1
                   \/ dto.discount.type = "FIXED" /\ r.discount.type = 2
<1>1. /\ dto.originZone \in Range(Zones) /\ dto.destinationZone \in Range(Zones)
      /\ dto.serviceType \in Range(Services) /\ dto.packages # <<>>
      /\ dto.packages \in Seq(PackageBody) /\ dto.insured \in BOOLEAN
  BY DEF CreateOrderDto, ZonesNamed, Body
<1>2. /\ r.packages = dto.packages /\ r.insured = dto.insured
      /\ r.originZone = NumberOf(dto.originZone, Zones)
      /\ r.destinationZone = NumberOf(dto.destinationZone, Zones)
      /\ r.serviceType = NumberOf(dto.serviceType, Services)
      /\ r.discount = IF dto.discount = None THEN None
                      ELSE [dto.discount EXCEPT !.type = NumberOf(@, Discounts)]
  <2>1. dto = [originZone |-> dto.originZone, destinationZone |-> dto.destinationZone,
               serviceType |-> dto.serviceType, packages |-> dto.packages,
               discount |-> dto.discount, insured |-> dto.insured]
    BY DEF Body
  <2> DEFINE o == NumberOf(dto.originZone, Zones)
             d == NumberOf(dto.destinationZone, Zones)
             s == NumberOf(dto.serviceType, Services)
             c == IF dto.discount = None THEN None
                  ELSE [dto.discount EXCEPT !.type = NumberOf(@, Discounts)]
  <2>2. r = [dto EXCEPT !.originZone = o, !.destinationZone = d, !.serviceType = s, !.discount = c]
    BY DEF ToGrpc
  <2> HIDE DEF o, d, s, c
  <2>3. /\ r.packages = dto.packages /\ r.insured = dto.insured
        /\ r.originZone = o /\ r.destinationZone = d /\ r.serviceType = s /\ r.discount = c
    BY <2>1, <2>2
  <2> QED
    BY <2>3 DEF o, d, s, c
<1>3. r.originZone \in 1..3 /\ r.destinationZone \in 1..3 /\ r.serviceType \in 1..3
  BY <1>1, <1>2, NamesNumbered, NameTables
<1>4. ASSUME dto.discount # None
      PROVE  /\ r.discount = [type |-> NumberOf(dto.discount.type, Discounts), value |-> dto.discount.value]
             /\ dto.discount.value \in Nat
             /\ \/ dto.discount.type = "NONE" /\ r.discount.type = 0
                \/ dto.discount.type = "PERCENT" /\ r.discount.type = 1
                \/ dto.discount.type = "FIXED" /\ r.discount.type = 2
  <2>1. dto.discount \in DiscountBody
    BY <1>4 DEF Body
  <2>2. r.discount = [type |-> NumberOf(dto.discount.type, Discounts), value |-> dto.discount.value]
    BY <1>2, <1>4, <2>1 DEF DiscountBody
  <2>3. DiscountDto(dto.discount)
    BY <1>4 DEF CreateOrderDto
  <2>4. dto.discount.type \in {"NONE", "PERCENT", "FIXED"} /\ dto.discount.value \in Nat
    BY <2>1, <2>3, NameTables DEF DiscountDto, DiscountBody
  <2>5. /\ NumberOf("NONE", Discounts) = 0 /\ NumberOf("PERCENT", Discounts) = 1
        /\ NumberOf("FIXED", Discounts) = 2
    <3>1. "NONE" \notin Range(Discounts) /\ "PERCENT" \in Range(Discounts) /\ "FIXED" \in Range(Discounts)
      BY NameTables
    <3> QED
      BY <3>1, NamesNumbered, NameTables
  <2> QED
    BY <2>2, <2>4, <2>5
<1> QED
  BY <1>1, <1>2, <1>3, <1>4

\* A discount stays one, and the name "NONE" is as good as no discount.
LEMMA DiscountIs ==
    ASSUME NEW dto \in Body, CreateOrderDto(dto), NEW r, r = ToGrpc(dto)
    PROVE  LET d == dto.discount IN
           /\ d = None => r.discount = None
           /\ d # None => /\ r.discount # None /\ r.discount.value = d.value /\ d.value \in Nat
                          /\ r.discount = [type |-> r.discount.type, value |-> d.value]
                          /\ d.type = "NONE" => r.discount.type = 0
                          /\ d.type = "PERCENT" => r.discount.type = 1
                          /\ d.type = "FIXED" => r.discount.type = 2
                          /\ d.type \in {"NONE", "PERCENT", "FIXED"}
<1> DEFINE d == dto.discount
<1>1. d = None => r.discount = None
  BY RequestIs
<1>2. ASSUME d # None
      PROVE  /\ r.discount # None /\ r.discount.value = d.value /\ d.value \in Nat
             /\ r.discount = [type |-> r.discount.type, value |-> d.value]
             /\ d.type = "NONE" => r.discount.type = 0
             /\ d.type = "PERCENT" => r.discount.type = 1
             /\ d.type = "FIXED" => r.discount.type = 2
             /\ d.type \in {"NONE", "PERCENT", "FIXED"}
  <2>1. r.discount = [type |-> NumberOf(d.type, Discounts), value |-> d.value] /\ d.value \in Nat
    BY <1>2, RequestIs
  <2>2. \/ d.type = "NONE" /\ r.discount.type = 0
        \/ d.type = "PERCENT" /\ r.discount.type = 1
        \/ d.type = "FIXED" /\ r.discount.type = 2
    BY <1>2, RequestIs
  <2>3. r.discount.type = NumberOf(d.type, Discounts) /\ r.discount.value = d.value
    BY <2>1
  <2>4. r.discount \in [type : STRING \cup Int, value : Int]
    BY <2>1, <2>2, <2>3
  <2>5. r.discount # None
    BY <2>4, NoValueAssumption
  <2> QED
    BY <2>1, <2>2, <2>3, <2>5
<1> QED
  BY <1>1, <1>2

LEMMA ExactAmounts ==
    ASSUME NEW dto, Accepted(dto), NEW r, r = ToGrpc(dto),
           NEW W, W = TotalBillableWeight(r.packages), NEW rate, rate = RatePerKg(r.destinationZone),
           NEW mult, mult = Multiplier(r.serviceType)
    PROVE  /\ W \in Nat /\ W >= 100
           /\ rate \in {8, 12, 16} /\ mult \in {20, 27, 36}
           /\ Base(r) = 200 * (W * rate) /\ Service(r) = (10 * (W * rate)) * mult
           /\ Base(r) \in Nat /\ Service(r) \in Nat
           /\ FragilePackages(r.packages) \in Nat /\ DeclaredValue(r.packages) \in Nat
           /\ FragileSurcharge(r.packages) = 20000 * (700 * FragilePackages(r.packages))
           /\ Insurance(r) = IF r.insured THEN 500 * DeclaredValue(r.packages) ELSE 0
           /\ Insurance(r) \in Nat /\ Subtotal(r) \in Nat
           /\ Cut(r) \in 0..Subtotal(r)
           /\ Given(r.discount) => r.discount.value \in Nat
           /\ Given(r.discount) /\ r.discount.type = 1 => r.discount.value \in 0..35
<1>1. dto \in Body /\ CreateOrderDto(dto) /\ PackagesOK(r.packages) /\ DiscountOK(r.discount)
  BY DEF Accepted, Valid
<1>2. /\ r.packages \in Seq(PackageBody) /\ r.insured \in BOOLEAN
      /\ r.destinationZone \in 1..3 /\ r.serviceType \in 1..3 /\ r.packages = dto.packages
  BY <1>1, RequestIs
<1>3. /\ 1 \in DOMAIN r.packages /\ r.packages[1] \in PackageBody
      /\ W \in Nat /\ W >= r.packages[1].weight
      /\ DeclaredValue(r.packages) \in Nat /\ FragilePackages(r.packages) \in Nat
  BY <1>1, <1>2, PackagesWeigh
<1>4. W >= 100
  <2>1. r.packages[1].weight >= 100
    BY <1>1, <1>2, <1>3 DEF CreateOrderDto, PackageDto
  <2> QED
    BY <1>3, <2>1 DEF PackageBody
<1>5. rate \in {8, 12, 16} /\ mult \in {20, 27, 36}
  <2>1. /\ <<8, 12, 16>>[1] = 8 /\ <<8, 12, 16>>[2] = 12 /\ <<8, 12, 16>>[3] = 16
        /\ <<20, 27, 36>>[1] = 20 /\ <<20, 27, 36>>[2] = 27 /\ <<20, 27, 36>>[3] = 36
    OBVIOUS
  <2> QED
    BY <1>2, <2>1 DEF RatePerKg, Multiplier
<1>6. W * rate \in Nat
  BY <1>3, <1>5
<1>7. Base(r) = 200 * (W * rate)
  BY <1>3, <1>5 DEF Base, BaseSubtotal, Quetzal
<1> DEFINE X == W * rate
<1> HIDE DEF X
<1>8. Base(r) = 200 * X /\ X \in Nat
  BY <1>6, <1>7 DEF X
<1>9. Service(r) = (10 * X) * mult /\ Service(r) \in Nat
  BY <1>5, <1>8 DEF Service, ServiceSubtotal
<1>10. /\ FragileSurcharge(r.packages) = 20000 * (700 * FragilePackages(r.packages))
       /\ FragileSurcharge(r.packages) \in Nat
  BY <1>3 DEF FragileSurcharge, Quetzal
<1>11. /\ Insurance(r) = IF r.insured THEN 500 * DeclaredValue(r.packages) ELSE 0
       /\ Insurance(r) \in Nat
  BY <1>2, <1>3 DEF Insurance, InsuranceSurcharge, Cent
<1>12. Subtotal(r) \in Nat
  BY <1>9, <1>10, <1>11 DEF Subtotal
<1>13. /\ Given(r.discount) => r.discount.value \in Nat
       /\ Given(r.discount) /\ r.discount.type = 1 => r.discount.value \in 0..35
  <2>1. ASSUME Given(r.discount) PROVE r.discount.value \in Nat
    <3>1. dto.discount # None
      BY <1>1, <2>1, RequestIs DEF Given
    <3>2. r.discount = [type |-> NumberOf(dto.discount.type, Discounts), value |-> dto.discount.value]
      BY <1>1, <3>1, RequestIs
    <3>3. dto.discount.value \in Nat
      BY <1>1, <3>1, RequestIs
    <3> QED
      BY <3>2, <3>3
  <2> QED
    BY <1>1, <2>1 DEF DiscountOK, MaxPercent
<1>14. Cut(r) \in 0..Subtotal(r)
  <2>1. CASE ~Given(r.discount)
    BY <1>12, <2>1 DEF Cut, Discount
  <2>2. CASE Given(r.discount)
    <3>1. ASSUME r.discount.type = 1 PROVE Percent(r.discount.value, Subtotal(r)) \in 0..Subtotal(r)
      <4>1. r.discount.value \in 0..100
        BY <1>13, <2>2, <3>1
      <4> QED
        BY <1>12, <4>1, PercentIsShare
    <3>2. Smaller(r.discount.value * Cent, Subtotal(r)) \in 0..Subtotal(r)
      BY <1>12, <1>13, <2>2 DEF Smaller, Cent
    <3> QED
      BY <1>12, <2>2, <3>1, <3>2 DEF Cut, Discount
  <2> QED
    BY <2>1, <2>2
<1> QED
  BY <1>3, <1>4, <1>5, <1>7, <1>8, <1>9, <1>10, <1>11, <1>12, <1>13, <1>14 DEF X

(***************************************************************************)
(* The parts of a price add up                                             *)
(***************************************************************************)
LEMMA RoundsInOrder ==
    ASSUME NEW x \in Nat, NEW y \in Nat, x <= y
    PROVE  Round(x, Cent) <= Round(y, Cent)
BY DEF Round, Cent

\* What the roundings can add up to.
LEMMA RoundingsAddUp ==
    ASSUME NEW S \in Nat, NEW f \in Nat, NEW I \in Nat, NEW C \in Nat, NEW E \in Nat,
           S + 20000 * f + I = C + E,
           NEW s \in Nat, 20000 * s <= S + 10000, S < 20000 * s + 10000,
           NEW i \in Nat, 20000 * i <= I + 10000, I < 20000 * i + 10000,
           NEW n \in Nat, 20000 * n <= C + E + 10000, C + E < 20000 * n + 10000,
           NEW c \in Nat, 20000 * c <= C + 10000, C < 20000 * c + 10000,
           NEW t \in Nat, 20000 * t <= E + 10000, E < 20000 * t + 10000
    PROVE  s + f + i - n \in -1..1 /\ n - c - t \in -1..1 /\ s + f + i - c - t \in -2..2
<1>1. s + f + i - n <= 1 /\ -1 <= s + f + i - n
  OBVIOUS
<1>2. n - c - t <= 1 /\ -1 <= n - c - t
  OBVIOUS
<1>3. s + f + i - c - t <= 2 /\ -2 <= s + f + i - c - t
  OBVIOUS
<1> QED
  BY <1>1, <1>2, <1>3

\* Each part rounded to cents, against the exact sum rounded to cents.
LEMMA RoundedParts ==
    ASSUME NEW S \in Nat, NEW f \in Nat, NEW I \in Nat, NEW Sub, Sub = S + 20000 * f + I,
           NEW C \in 0..Sub
    PROVE  LET s == Round(S, Cent)  g == Round(20000 * f, Cent)  i == Round(I, Cent)
               sub == Round(Sub, Cent)  c == Round(C, Cent)  t == Larger(0, Round(Sub - C, Cent))
           IN  /\ {s, g, i, sub, c, t} \subseteq Nat
               /\ c <= sub /\ t <= sub
               /\ Abs(s + g + i - sub) <= 1 /\ Abs(sub - c - t) <= 1
               /\ Abs(s + g + i - c - t) <= 2
<1> DEFINE R(x) == Round(x, Cent)
<1>1. \A x \in Nat : R(x) \in Nat /\ 20000 * R(x) <= x + 10000 /\ x < 20000 * R(x) + 10000
  BY RoundIsNear
<1>2. R(20000 * f) = f
  BY DEF Round, Cent
<1>3. \A x, y \in Nat : x <= y => R(x) <= R(y)
  BY RoundsInOrder
<1> HIDE DEF R
<1> DEFINE E == Sub - C
<1>4. /\ Sub \in Nat /\ C \in Nat /\ E \in Nat /\ C <= Sub /\ E <= Sub /\ Sub = C + E
  OBVIOUS
<1> HIDE DEF E
<1>5. /\ R(S) \in Nat /\ 20000 * R(S) <= S + 10000 /\ S < 20000 * R(S) + 10000
  BY <1>1
<1>6. /\ R(I) \in Nat /\ 20000 * R(I) <= I + 10000 /\ I < 20000 * R(I) + 10000
  BY <1>1
<1>7. /\ R(Sub) \in Nat /\ 20000 * R(Sub) <= Sub + 10000 /\ Sub < 20000 * R(Sub) + 10000
  BY <1>1, <1>4
<1>8. /\ R(C) \in Nat /\ 20000 * R(C) <= C + 10000 /\ C < 20000 * R(C) + 10000
  BY <1>1, <1>4
<1>9. /\ R(E) \in Nat /\ 20000 * R(E) <= E + 10000 /\ E < 20000 * R(E) + 10000
  BY <1>1, <1>4
<1>10. R(C) <= R(Sub) /\ R(E) <= R(Sub)
  BY <1>3, <1>4
<1>11. /\ R(S) + f + R(I) - R(Sub) \in -1..1 /\ R(Sub) - R(C) - R(E) \in -1..1
       /\ R(S) + f + R(I) - R(C) - R(E) \in -2..2
  BY <1>4, <1>5, <1>6, <1>7, <1>8, <1>9, RoundingsAddUp
<1>14. (\A x \in -1..1 : Abs(x) <= 1) /\ (\A x \in -2..2 : Abs(x) <= 2)
  BY DEF Abs
<1>15. /\ Abs(R(S) + f + R(I) - R(Sub)) <= 1 /\ Abs(R(Sub) - R(C) - R(E)) <= 1
       /\ Abs(R(S) + f + R(I) - R(C) - R(E)) <= 2
  BY <1>11, <1>14
<1>16. Larger(0, R(E)) = R(E)
  BY <1>9 DEF Larger
<1>17. /\ {R(S), f, R(I), R(Sub), R(C), R(E)} \subseteq Nat
  BY <1>5, <1>6, <1>7, <1>8, <1>9
<1> QED
  BY <1>2, <1>10, <1>15, <1>16, <1>17 DEF R, E

LEMMA PartsAddUp ==
    ASSUME NEW dto, Accepted(dto), NEW b, b = Breakdown(ToGrpc(dto))
    PROVE  /\ b \in Price
           /\ b.baseSubtotal > 0
           /\ Abs(b.serviceSubtotal + b.fragileSurcharge + b.insuranceSurcharge
                  - b.subtotalWithSurcharges) <= 1
           /\ Abs(b.subtotalWithSurcharges - b.discountAmount - b.total) <= 1
           /\ b.discountAmount \in 0..b.subtotalWithSurcharges
           /\ b.total \in 0..b.subtotalWithSurcharges
           /\ Abs(b.serviceSubtotal + b.fragileSurcharge + b.insuranceSurcharge
                  - b.discountAmount - b.total) <= 2
<1> DEFINE r == ToGrpc(dto)
           S == Service(r)
           F == FragilePackages(r.packages)
           I == Insurance(r)
           Sub == Subtotal(r)
           C == Cut(r)
           W == TotalBillableWeight(r.packages)
           D == DeclaredValue(r.packages)
           rate == RatePerKg(r.destinationZone)
           mult == Multiplier(r.serviceType)
<1>1. /\ W \in Nat /\ W >= 100 /\ F \in Nat /\ D \in Nat
      /\ S \in Nat /\ I \in Nat /\ Sub \in Nat /\ C \in 0..Sub /\ Base(r) \in Nat
      /\ Base(r) = 200 * (W * rate) /\ rate \in {8, 12, 16} /\ mult \in {20, 27, 36}
      /\ FragileSurcharge(r.packages) = 20000 * (700 * F)
  BY ExactAmounts
<1>2. Sub = S + 20000 * (700 * F) + I
  BY <1>1 DEF Subtotal
<1>3. b = [orderBillableKg |-> Round(W, 100), baseSubtotal |-> Round(Base(r), Cent),
           serviceSubtotal |-> Round(S, Cent), fragileSurcharge |-> Round(20000 * (700 * F), Cent),
           insuranceSurcharge |-> Round(I, Cent), subtotalWithSurcharges |-> Round(Sub, Cent),
           discountAmount |-> Round(C, Cent), total |-> Larger(0, Round(Sub - C, Cent)),
           ratePerKg |-> rate, serviceMultiplier |-> mult,
           fragilePackagesCount |-> F, declaredValueTotal |-> D]
  <2>1. FragileSurcharge(r.packages) = 20000 * (700 * F)
    BY <1>1
  <2> QED
    BY <2>1 DEF Breakdown, Base, Service, Insurance, Subtotal, Cut
<1>4. Base(r) >= 160000
  BY <1>1
<1> DEFINE f == 700 * F
           base == Round(Base(r), Cent)  kg == Round(W, 100)
           s == Round(S, Cent)  g == Round(20000 * f, Cent)  i == Round(I, Cent)
           sub == Round(Sub, Cent)  c == Round(C, Cent)  t == Larger(0, Round(Sub - C, Cent))
<1>5. f \in Nat
  BY <1>1
<1>6. base \in Nat /\ base > 0
  <2> DEFINE x == Base(r)
  <2>1. x \in Nat /\ x >= 160000
    BY <1>1, <1>4
  <2> HIDE DEF x
  <2>2. Round(x, Cent) \in Nat /\ Round(x, Cent) > 0
    BY <2>1 DEF Round, Cent
  <2> QED
    BY <2>2 DEF x
<1>7. kg \in Nat
  <2>1. W \in Nat
    BY <1>1
  <2> HIDE DEF W
  <2> QED
    BY <2>1 DEF Round
<1>8. /\ {s, g, i, sub, c, t} \subseteq Nat
      /\ c <= sub /\ t <= sub
      /\ Abs(s + g + i - sub) <= 1 /\ Abs(sub - c - t) <= 1
      /\ Abs(s + g + i - c - t) <= 2
  <2>1. S \in Nat /\ I \in Nat /\ C \in 0..Sub /\ Sub = S + 20000 * f + I
    BY <1>1, <1>2
  <2> HIDE DEF S, I, C, Sub, f
  <2> QED
    BY <1>5, <2>1, RoundedParts
<1>9. F \in Nat /\ D \in Nat /\ rate \in Nat /\ mult \in Nat
  BY <1>1
<1>10. b = [orderBillableKg |-> kg, baseSubtotal |-> base, serviceSubtotal |-> s,
            fragileSurcharge |-> g, insuranceSurcharge |-> i, subtotalWithSurcharges |-> sub,
            discountAmount |-> c, total |-> t, ratePerKg |-> rate, serviceMultiplier |-> mult,
            fragilePackagesCount |-> F, declaredValueTotal |-> D]
  BY <1>3
<1> HIDE DEF s, g, i, sub, c, t, base, kg, F, D, rate, mult, r
<1>11. b \in Price
  BY <1>6, <1>7, <1>8, <1>9, <1>10 DEF Price
<1>12. c \in 0..sub /\ t \in 0..sub
  BY <1>8
<1> QED
  BY <1>6, <1>8, <1>10, <1>11, <1>12

(***************************************************************************)
(* The lines of a receipt                                                  *)
(***************************************************************************)
Amounts(lines) == SumFunction([i \in DOMAIN lines |-> lines[i].amount])
Lines == [of : {"weight", "service", "fragile", "insurance", "discount"}, amount : Int]

LEMMA OneLine == ASSUME NEW line \in Lines PROVE <<line>> \in Seq(Lines) /\ Amounts(<<line>>) = line.amount
<1> DEFINE f == [i \in DOMAIN <<line>> |-> <<line>>[i].amount]
<1>1. DOMAIN f = {1} /\ f[1] = line.amount /\ line.amount \in Int
  BY DEF Lines
<1>2. IsFiniteSet({1}) /\ {1} \ {1} = {}
  BY FS_Singleton
<1> HIDE DEF f
<1>3. SumFunctionOnSet(f, {1}) = f[1] + SumFunctionOnSet(f, {1} \ {1})
  BY <1>1, <1>2, SumAny
<1>4. SumFunctionOnSet(f, {1}) = line.amount
  BY <1>1, <1>2, <1>3, SumEmpty
<1>5. SumFunction(f) = line.amount
  BY <1>1, <1>4 DEF SumFunction
<1> QED
  BY <1>5 DEF Amounts, f

LEMMA LineAdds ==
    ASSUME NEW lines \in Seq(Lines), NEW line \in Lines
    PROVE  /\ lines \o <<line>> \in Seq(Lines)
           /\ Amounts(lines \o <<line>>) = Amounts(lines) + line.amount
           /\ Amounts(lines) \in Int
<1> DEFINE n == Len(lines)
           all == lines \o <<line>>
           f == [i \in DOMAIN all |-> all[i].amount]
           g == [i \in DOMAIN lines |-> lines[i].amount]
<1>1. /\ n \in Nat /\ DOMAIN lines = 1..n /\ all \in Seq(Lines) /\ DOMAIN all = 1..(n + 1)
      /\ \A i \in 1..n : all[i] = lines[i] /\ lines[i] \in Lines
      /\ all[n + 1] = line
  OBVIOUS
<1>2. /\ DOMAIN f = 1..(n + 1) /\ DOMAIN g = 1..n
      /\ \A i \in 1..n : f[i] = g[i] /\ g[i] \in Int
      /\ f[n + 1] = line.amount /\ line.amount \in Int
  BY <1>1 DEF Lines
<1>3. Amounts(all) = SumFunctionOnSet(f, 1..(n + 1)) /\ Amounts(lines) = SumFunctionOnSet(g, 1..n)
  BY <1>2 DEF Amounts, SumFunction
<1> HIDE DEF f, g, n
<1>4. IsFiniteSet(1..n) /\ IsFiniteSet(1..(n + 1)) /\ n + 1 \in 1..(n + 1) /\ (1..(n + 1)) \ {n + 1} = 1..n
  <2>1. n \in Nat
    BY <1>1
  <2>2. IsFiniteSet(1..n) /\ IsFiniteSet(1..(n + 1))
    BY <2>1, FS_Interval
  <2>3. n + 1 \in 1..(n + 1) /\ (1..(n + 1)) \ {n + 1} = 1..n
    BY <2>1
  <2> QED
    BY <2>2, <2>3
<1>5. \A i \in 1..(n + 1) : f[i] \in Int
  BY <1>1, <1>2
<1>6. SumFunctionOnSet(f, 1..(n + 1)) = f[n + 1] + SumFunctionOnSet(f, (1..(n + 1)) \ {n + 1})
  BY <1>4, <1>5, SumAny
<1>7. SumFunctionOnSet(f, 1..n) = SumFunctionOnSet(g, 1..n)
  BY <1>2, <1>4, SumSame
<1>8. SumFunctionOnSet(g, 1..n) \in Int
  BY <1>2, <1>4, SumType
<1>9. Amounts(all) = Amounts(lines) + line.amount
  <2>1. SumFunctionOnSet(f, 1..n) = SumFunctionOnSet(g, 1..n)
    BY <1>7, <1>8
  <2>2. SumFunctionOnSet(f, 1..(n + 1)) = line.amount + SumFunctionOnSet(g, 1..n)
    BY <1>2, <1>4, <1>6, <2>1
  <2>3. line.amount \in Int
    BY <1>2
  <2> HIDE DEF all
  <2> QED
    BY <1>3, <1>8, <2>2, <2>3
<1> QED
  BY <1>1, <1>3, <1>8, <1>9

\* A line that may be missing.
LEMMA LineMayAdd ==
    ASSUME NEW lines \in Seq(Lines), NEW line \in Lines, NEW there \in BOOLEAN,
           NEW all, all = lines \o (IF there THEN <<line>> ELSE <<>>)
    PROVE  /\ all \in Seq(Lines)
           /\ Amounts(all) = Amounts(lines) + IF there THEN line.amount ELSE 0
           /\ Amounts(all) \in Int /\ Amounts(lines) \in Int
<1>1. CASE there
  <2>1. all = lines \o <<line>>
    BY <1>1
  <2>2. line.amount \in Int
    BY DEF Lines
  <2> QED
    BY <1>1, <2>1, <2>2, LineAdds
<1>2. CASE ~there
  <2>1. all = lines
    BY <1>2
  <2>2. Amounts(lines) \in Int
    BY LineAdds
  <2> QED
    BY <1>2, <2>1, <2>2
<1> QED
  BY <1>1, <1>2

LEMMA LinesAddUp ==
    ASSUME NEW b \in Price, ServiceHasLine(b)
    PROVE  Amounts(ReceiptLines(b)) = b.serviceSubtotal + b.fragileSurcharge + b.insuranceSurcharge
                                      - b.discountAmount
<1> DEFINE weight == Line("weight", b.baseSubtotal)
           service == Line("service", b.serviceSubtotal - b.baseSubtotal)
           fragile == Line("fragile", b.fragileSurcharge)
           insurance == Line("insurance", b.insuranceSurcharge)
           discount == Line("discount", 0 - b.discountAmount)
           l1 == <<weight>>
           l2 == l1 \o (IF TRUE THEN <<service>> ELSE <<>>)
           l3 == l2 \o (IF b.fragileSurcharge > 0 THEN <<fragile>> ELSE <<>>)
           l4 == l3 \o (IF b.insuranceSurcharge > 0 THEN <<insurance>> ELSE <<>>)
           l5 == l4 \o (IF b.discountAmount > 0 THEN <<discount>> ELSE <<>>)
<1>1. /\ b.baseSubtotal \in Nat /\ b.serviceSubtotal \in Nat /\ b.fragileSurcharge \in Nat
      /\ b.insuranceSurcharge \in Nat /\ b.discountAmount \in Nat
  BY DEF Price
<1>2. /\ weight \in Lines /\ service \in Lines /\ fragile \in Lines /\ insurance \in Lines /\ discount \in Lines
      /\ weight.amount = b.baseSubtotal /\ service.amount = b.serviceSubtotal - b.baseSubtotal
      /\ fragile.amount = b.fragileSurcharge /\ insurance.amount = b.insuranceSurcharge
      /\ discount.amount = 0 - b.discountAmount
  BY <1>1 DEF Lines, Line
<1>3. ReceiptLines(b) = l5
  BY DEF ReceiptLines
<1> HIDE DEF weight, service, fragile, insurance, discount
<1>4. l1 \in Seq(Lines) /\ Amounts(l1) = b.baseSubtotal
  BY <1>2, OneLine
<1> HIDE DEF l1
<1>5. l2 \in Seq(Lines) /\ Amounts(l2) = b.serviceSubtotal
  <2>1. l2 \in Seq(Lines) /\ Amounts(l2) = Amounts(l1) + service.amount
    BY <1>2, <1>4, LineMayAdd
  <2> QED
    BY <1>1, <1>2, <1>4, <2>1
<1> HIDE DEF l2
<1>6. l3 \in Seq(Lines) /\ Amounts(l3) = b.serviceSubtotal + b.fragileSurcharge
  <2>1. (b.fragileSurcharge > 0) \in BOOLEAN
    OBVIOUS
  <2>2. l3 \in Seq(Lines) /\ Amounts(l3) = Amounts(l2) + IF b.fragileSurcharge > 0 THEN fragile.amount ELSE 0
    BY <1>2, <1>5, <2>1, LineMayAdd
  <2> QED
    BY <1>1, <1>2, <1>5, <2>2
<1> HIDE DEF l3
<1>7. l4 \in Seq(Lines) /\ Amounts(l4) = b.serviceSubtotal + b.fragileSurcharge + b.insuranceSurcharge
  <2>1. (b.insuranceSurcharge > 0) \in BOOLEAN
    OBVIOUS
  <2>2. l4 \in Seq(Lines) /\ Amounts(l4) = Amounts(l3) + IF b.insuranceSurcharge > 0 THEN insurance.amount ELSE 0
    BY <1>2, <1>6, <2>1, LineMayAdd
  <2> QED
    BY <1>1, <1>2, <1>6, <2>2
<1> HIDE DEF l4
<1>8. Amounts(l5) = b.serviceSubtotal + b.fragileSurcharge + b.insuranceSurcharge - b.discountAmount
  <2>1. (b.discountAmount > 0) \in BOOLEAN
    OBVIOUS
  <2>2. Amounts(l5) = Amounts(l4) + IF b.discountAmount > 0 THEN discount.amount ELSE 0
    BY <1>2, <1>7, <2>1, LineMayAdd
  <2> HIDE DEF l5
  <2>3. discount.amount = 0 - b.discountAmount /\ b.discountAmount \in Nat
    BY <1>1, <1>2
  <2>4. Amounts(l4) \in Int
    BY <1>1, <1>7
  <2>5. Amounts(l5) = Amounts(l4) - b.discountAmount
    BY <2>2, <2>3, <2>4
  <2>6. /\ b.serviceSubtotal \in Nat /\ b.fragileSurcharge \in Nat /\ b.insuranceSurcharge \in Nat
        /\ b.discountAmount \in Nat
    BY <1>1
  <2> QED
    BY <1>7, <2>5, <2>6
<1> QED
  BY <1>3, <1>8

(***************************************************************************)
(* What the form announces                                                 *)
(***************************************************************************)
\* What remains after a percentage grows with what it is taken from.
LEMMA RestGrows ==
    ASSUME NEW p \in 0..100, NEW x \in Nat, NEW y \in Nat, x <= y
    PROVE  x - Percent(p, x) <= y - Percent(p, y)
<1> DEFINE a == Percent(p, x)
           c == Percent(p, y)
           u == x * p
           v == y * p
<1>1. /\ a \in Nat /\ c \in Nat /\ 100 * a <= u /\ u < 100 * a + 100
      /\ 100 * c <= v /\ v < 100 * c + 100
  <2>1. a \in 0..x /\ 100 * a <= u /\ u < 100 * a + 100
    BY PercentIsShare
  <2>2. c \in 0..y /\ 100 * c <= v /\ v < 100 * c + 100
    BY PercentIsShare
  <2> QED
    BY <2>1, <2>2
<1>2. u \in Nat /\ v \in Nat /\ v - u <= 100 * (y - x)
  <2>1. (y - x) * p <= 100 * (y - x)
    OBVIOUS
  <2>2. y * p - x * p = (y - x) * p
    OBVIOUS
  <2> QED
    BY <2>1, <2>2
<1> HIDE DEF a, c, u, v
<1> QED
  BY <1>1, <1>2 DEF a, c

\* Summed over the packages, by what each part of the estimate depends on.
EstimatedTotal(dto) ==
    SumFunction([i \in DOMAIN dto.packages |-> PackageEstimate(dto.packages[i], dto)])

LEMMA EstimateAddsUp ==
    ASSUME NEW dto, Accepted(dto), NEW r, r = ToGrpc(dto),
           NEW K, K = ServiceTwentieths(dto.serviceType) * (75 * ZoneHalves(dto.destinationZone))
    PROVE  EstimatedTotal(dto) = TotalBillableWeight(r.packages) * K
                                 + FragilePackages(r.packages) * (7 * Quetzal)
                                 + (IF r.insured THEN 500 * DeclaredValue(r.packages) ELSE 0)
<1> DEFINE P == dto.packages
           X == DOMAIN P
           w == [i \in X |-> BillableWeight(P[i])]
           wk == [i \in X |-> w[i] * K]
           A == {i \in X : P[i].fragile}
           one == [i \in X |-> IF i \in A THEN 1 ELSE 0]
           fr == [i \in X |-> one[i] * (7 * Quetzal)]
           d == [i \in X |-> P[i].declared]
           insured == [i \in X |-> d[i] * (IF r.insured THEN 500 ELSE 0)]
           carried == [i \in X |-> wk[i] + fr[i]]
           e == [i \in X |-> PackageEstimate(P[i], dto)]
<1>1. dto \in Body /\ CreateOrderDto(dto) /\ PackagesOK(r.packages)
  BY DEF Accepted, Valid
<1>2. r.packages = P /\ P \in Seq(PackageBody) /\ r.insured = dto.insured /\ r.insured \in BOOLEAN
  BY <1>1, RequestIs
<1>3. /\ IsFiniteSet(X)
      /\ \A i \in X : /\ P[i] \in PackageBody /\ P[i].declared \in Nat /\ BillableWeight(P[i]) \in Nat
  BY <1>1, <1>2, PackagesWeigh
<1>4. K \in Nat
  BY DEF ServiceTwentieths, ZoneHalves
<1>5. PICK m \in Nat : m = IF r.insured THEN 500 ELSE 0
  OBVIOUS
<1>6. PICK q \in Nat : q = 7 * Quetzal
  BY DEF Quetzal
<1>7. ASSUME NEW i \in X
      PROVE  /\ w[i] \in Int /\ wk[i] = w[i] * K /\ wk[i] \in Int
             /\ one[i] \in Int /\ one[i] = (IF i \in A THEN 1 ELSE 0) /\ fr[i] = one[i] * q /\ fr[i] \in Int
             /\ d[i] \in Int /\ insured[i] = d[i] * m /\ insured[i] \in Int
             /\ carried[i] = wk[i] + fr[i] /\ carried[i] \in Int
             /\ e[i] = carried[i] + insured[i]
  <2> DEFINE p == P[i]
             b == BillableWeight(p)
             dd == p.declared
  <2>1. b \in Nat /\ dd \in Nat /\ p.fragile \in BOOLEAN
    BY <1>3 DEF PackageBody
  <2>2. PackageEstimate(p, dto) = (b * K) + (IF p.fragile THEN q ELSE 0) + dd * m
    <3> DEFINE Z == ZoneHalves(dto.destinationZone)
               T20 == ServiceTwentieths(dto.serviceType)
    <3>1. Z \in Nat /\ T20 \in Nat
      BY DEF ServiceTwentieths, ZoneHalves
    <3>2. PackageEstimate(p, dto) = b * 75 * Z * T20 + (IF p.fragile THEN q ELSE 0)
                                    + (IF r.insured THEN (Larger(0, dd) * Cent) \div 40 ELSE 0)
      BY <1>2, <1>6 DEF PackageEstimate
    <3>3. (IF r.insured THEN (Larger(0, dd) * Cent) \div 40 ELSE 0) = dd * m
      <4> HIDE DEF dd
      <4>1. Larger(0, dd) = dd
        BY <2>1 DEF Larger
      <4>2. (dd * Cent) \div 40 = dd * 500
        BY <2>1 DEF Cent
      <4> QED
        BY <1>5, <2>1, <4>1, <4>2
    <3> HIDE DEF b, Z, T20
    <3>4. b * 75 * Z * T20 = b * (T20 * (75 * Z))
      BY <2>1, <3>1
    <3>5. K = T20 * (75 * Z)
      BY DEF Z, T20
    <3> QED
      BY <3>2, <3>3, <3>4, <3>5
  <2>3. b * K \in Nat /\ dd * m \in Nat
    BY <1>4, <2>1
  <2>4. i \in A <=> p.fragile
    OBVIOUS
  <2>5. (IF i \in A THEN 1 ELSE 0) * q = IF p.fragile THEN q ELSE 0
    BY <2>1, <2>4
  <2>6. w[i] = b /\ wk[i] = b * K /\ d[i] = dd /\ one[i] = IF i \in A THEN 1 ELSE 0
    OBVIOUS
  <2>7. fr[i] = IF p.fragile THEN q ELSE 0
    BY <1>6, <2>5
  <2>8. insured[i] = dd * m
    BY <1>5
  <2>9. e[i] = b * K + (IF p.fragile THEN q ELSE 0) + dd * m
    BY <2>2
  <2>10. carried[i] = wk[i] + fr[i]
    OBVIOUS
  <2> HIDE DEF b, dd, p, A, w, wk, one, fr, d, insured, carried, e
  <2> QED
    BY <2>1, <2>3, <2>5, <2>6, <2>7, <2>8, <2>9, <2>10
<1>8. A \in SUBSET X
  OBVIOUS
<1> DEFINE Sum(f) == SumFunctionOnSet(f, X)
<1>9. DOMAIN e = X /\ DOMAIN w = X /\ DOMAIN d = X
  OBVIOUS
<1> HIDE DEF w, wk, one, fr, d, insured, carried, e, A
<1>10. Sum(wk) = Sum(w) * K
  BY <1>3, <1>4, <1>7, SumTimes
<1>11. Sum(one) = Cardinality(A)
  BY <1>3, <1>7, <1>8, SumCounts
<1>12. Sum(fr) = Sum(one) * q
  BY <1>3, <1>7, SumTimes
<1>13. Sum(insured) = Sum(d) * m
  BY <1>3, <1>7, SumTimes
<1>14. Sum(carried) = Sum(wk) + Sum(fr)
  BY <1>3, <1>7, SumPlus
<1>15. Sum(e) = Sum(carried) + Sum(insured)
  BY <1>3, <1>7, SumPlus
<1>16. Sum(d) \in Int
  BY <1>3, <1>7, SumType
<1>17. Sum(d) * m = IF r.insured THEN 500 * Sum(d) ELSE 0
  BY <1>2, <1>5, <1>16
<1>18. Sum(e) = EstimatedTotal(dto)
  BY <1>9 DEF EstimatedTotal, SumFunction, e
<1>19. Sum(w) = TotalBillableWeight(r.packages)
  BY <1>2, <1>9 DEF TotalBillableWeight, SumFunction, w
<1>20. Sum(d) = DeclaredValue(r.packages)
  BY <1>2, <1>9 DEF DeclaredValue, SumFunction, d
<1>21. Cardinality(A) = FragilePackages(r.packages)
  BY <1>2 DEF FragilePackages, A
<1> HIDE DEF Sum
<1> QED
  BY <1>6, <1>10, <1>11, <1>12, <1>13, <1>14, <1>15, <1>17, <1>18, <1>19, <1>20, <1>21

LEMMA EstimateCovers ==
    ASSUME NEW dto, Accepted(dto), NEW b, b = Breakdown(ToGrpc(dto))
    PROVE  b.total * Cent <= Estimate(dto) + Cent
<1> DEFINE r == ToGrpc(dto)
           W == TotalBillableWeight(r.packages)
           F == FragilePackages(r.packages)
           D == DeclaredValue(r.packages)
           rate == RatePerKg(r.destinationZone)
           mult == Multiplier(r.serviceType)
           Z == ZoneHalves(dto.destinationZone)
           S20 == ServiceTwentieths(dto.serviceType)
           K == S20 * (75 * Z)
           T0 == EstimatedTotal(dto)
           Sub == Subtotal(r)
           C == Cut(r)
           E == Sub - C
<1>1. dto \in Body /\ CreateOrderDto(dto) /\ DiscountOK(r.discount)
  BY DEF Accepted, Valid
<1>2. /\ W \in Nat /\ rate \in {8, 12, 16} /\ mult \in {20, 27, 36}
      /\ Service(r) = (10 * (W * rate)) * mult
      /\ F \in Nat /\ D \in Nat
      /\ FragileSurcharge(r.packages) = 20000 * (700 * F)
      /\ Insurance(r) = IF r.insured THEN 500 * D ELSE 0
      /\ Insurance(r) \in Nat /\ Sub \in Nat /\ C \in 0..Sub
      /\ Given(r.discount) => r.discount.value \in Nat
      /\ Given(r.discount) /\ r.discount.type = 1 => r.discount.value \in 0..35
  BY ExactAmounts
<1>3. rate = 4 * Z /\ mult = S20 /\ Z \in Nat /\ S20 \in Nat
  <2>1. /\ <<8, 12, 16>>[1] = 8 /\ <<8, 12, 16>>[2] = 12 /\ <<8, 12, 16>>[3] = 16
        /\ <<20, 27, 36>>[1] = 20 /\ <<20, 27, 36>>[2] = 27 /\ <<20, 27, 36>>[3] = 36
    OBVIOUS
  <2>2. /\ dto.destinationZone \in Range(Zones) /\ dto.serviceType \in Range(Services)
        /\ r.destinationZone = NumberOf(dto.destinationZone, Zones)
        /\ r.serviceType = NumberOf(dto.serviceType, Services)
    BY <1>1, RequestIs
  <2>3. /\ r.destinationZone \in 1..3 /\ Zones[r.destinationZone] = dto.destinationZone
        /\ r.serviceType \in 1..3 /\ Services[r.serviceType] = dto.serviceType
    BY <2>2, NamesNumbered, NameTables
  <2>4. rate = 4 * Z /\ Z \in Nat
    BY <2>1, <2>3 DEF RatePerKg, ZoneHalves, Zones
  <2>5. mult = S20 /\ S20 \in Nat
    BY <2>1, <2>3 DEF Multiplier, ServiceTwentieths, Services
  <2> QED
    BY <2>4, <2>5
<1>4. T0 = W * K + F * (7 * Quetzal) + (IF r.insured THEN 500 * D ELSE 0)
  BY EstimateAddsUp
<1>5. Service(r) <= W * K /\ Service(r) \in Nat /\ W * K \in Nat
  <2> DEFINE u == W * (Z * S20)
  <2>1. u \in Nat
    BY <1>2, <1>3
  <2>2. W * K = 75 * u
    BY <1>2, <1>3
  <2>3. Service(r) = 40 * u
    <3>1. Service(r) = (10 * (W * (4 * Z))) * S20
      BY <1>2, <1>3
    <3> HIDE DEF W, Z, S20
    <3> QED
      BY <1>2, <1>3, <3>1
  <2> HIDE DEF u
  <2> QED
    BY <2>1, <2>2, <2>3
<1>6. Sub = Service(r) + 20000 * (700 * F) + Insurance(r)
  BY <1>2 DEF Subtotal
<1>7. Sub <= T0 /\ T0 \in Nat
  <2>1. F * (7 * Quetzal) = 20000 * (700 * F) /\ F * (7 * Quetzal) \in Nat
    BY <1>2 DEF Quetzal
  <2>2. Insurance(r) = (IF r.insured THEN 500 * D ELSE 0) /\ Insurance(r) \in Nat
    BY <1>2
  <2> DEFINE fr == F * (7 * Quetzal)
             wk == W * K
  <2>3. T0 = wk + fr + Insurance(r) /\ Sub = Service(r) + fr + Insurance(r)
    BY <1>4, <1>6, <2>1, <2>2
  <2>4. fr \in Nat /\ wk \in Nat /\ Service(r) \in Nat /\ Service(r) <= wk
    BY <1>5, <2>1
  <2> HIDE DEF fr, wk, T0, Sub
  <2> QED
    BY <2>2, <2>3, <2>4
<1>8. C = Discount(r.discount, Sub)
  BY DEF Cut
<1>9. b.total = Larger(0, Round(E, Cent))
  BY BreakdownIs
<1>10. E \in Nat /\ Sub \in Nat /\ C \in Nat
  BY <1>2
<1> DEFINE d == dto.discount
           after == CASE d # None /\ d.type = "PERCENT" -> T0 - Percent(Smaller(d.value, MaxPercent), T0)
                      [] d # None /\ d.type = "FIXED" -> T0 - d.value * Cent
                      [] OTHER -> T0
<1>11. Estimate(dto) = Larger(0, after)
  BY DEF Estimate, EstimatedTotal
<1>12. E <= Larger(0, after) /\ Larger(0, after) \in Nat
  <2>1. CASE d = None \/ d.type = "NONE"
    <3>1. after = T0
      BY <2>1
    <3>2. C = 0
      <4>1. ~Given(r.discount)
        BY <1>1, <2>1, RequestIs DEF Given
      <4> QED
        BY <1>8, <4>1 DEF Discount
    <3> QED
      BY <1>7, <1>10, <3>1, <3>2 DEF Larger
  <2>2. CASE d # None /\ d.type = "PERCENT"
    <3>1. r.discount.type = 1 /\ r.discount.value = d.value /\ r.discount # None
      BY <1>1, <2>2, DiscountIs
    <3>2. Given(r.discount) /\ d.value \in 0..35 /\ d.value \in 0..100
      BY <1>2, <3>1 DEF Given
    <3>3. C = Percent(d.value, Sub)
      BY <1>8, <3>1, <3>2 DEF Discount
    <3>4. after = T0 - Percent(d.value, T0)
      BY <2>2, <3>2 DEF Smaller, MaxPercent
    <3>5. E <= T0 - Percent(d.value, T0)
      BY <1>7, <1>10, <3>2, <3>3, RestGrows
    <3>6. Percent(d.value, T0) \in 0..T0
      BY <1>7, <3>2, PercentIsShare
    <3> HIDE DEF T0, E, after
    <3> QED
      BY <1>7, <3>4, <3>5, <3>6 DEF Larger
  <2>3. CASE d # None /\ d.type = "FIXED"
    <3>1. r.discount.type = 2 /\ r.discount.value = d.value /\ r.discount # None /\ d.value \in Nat
      BY <1>1, <2>3, DiscountIs
    <3>2. C = Smaller(d.value * Cent, Sub)
      BY <1>8, <3>1 DEF Discount, Given
    <3>3. after = T0 - d.value * Cent
      BY <2>3
    <3> HIDE DEF T0, Sub, C, after
    <3> QED
      BY <1>7, <1>10, <3>1, <3>2, <3>3 DEF Larger, Smaller, Cent
  <2>4. d # None => d.type \in {"NONE", "PERCENT", "FIXED"}
    BY <1>1, DiscountIs
  <2> QED
    BY <2>1, <2>2, <2>3, <2>4
<1>13. 20000 * b.total <= E + 10000 /\ b.total \in Nat
  <2>0. E \in Nat
    BY <1>10
  <2> HIDE DEF E
  <2>1. Round(E, Cent) \in Nat /\ 20000 * Round(E, Cent) <= E + 10000
    BY <2>0, RoundIsNear
  <2> QED
    BY <1>9, <2>1 DEF Larger
<1> HIDE DEF E, after
<1> QED
  BY <1>10, <1>11, <1>12, <1>13 DEF Cent

(***************************************************************************)
(* The monolith                                                            *)
(***************************************************************************)
LEMMA OldRequestIs ==
    ASSUME NEW dto \in Body, NEW m, m = ToMonolith(dto)
    PROVE  /\ m.packages = dto.packages /\ m.insured = dto.insured
           /\ dto.packages \in Seq(PackageBody) /\ dto.insured \in BOOLEAN
           /\ m.originZone = NumberOf(dto.originZone, Zones) /\ m.originZone \in 0..3
           /\ m.destinationZone = NumberOf(dto.destinationZone, Zones) /\ m.destinationZone \in 0..3
           /\ m.serviceType = NumberOf(dto.serviceType, Services) /\ m.serviceType \in 0..3
           /\ dto.discount = None => m.discount = [type |-> 1, value |-> 0]
           /\ dto.discount # None =>
                /\ m.discount.type = NumberOf(dto.discount.type, Discounts) + 1
                /\ m.discount.value = dto.discount.value /\ dto.discount.value \in Int
                /\ NumberOf(dto.discount.type, Discounts) \in 0..2
<1> DEFINE o == NumberOf(dto.originZone, Zones)
           d == NumberOf(dto.destinationZone, Zones)
           s == NumberOf(dto.serviceType, Services)
           k == NumberOf(dto.discount.type, Discounts)
           c == IF dto.discount = None THEN None ELSE [dto.discount EXCEPT !.type = NumberOf(@, Discounts)]
           g == ToGrpc(dto)
<1>1. dto = [originZone |-> dto.originZone, destinationZone |-> dto.destinationZone,
             serviceType |-> dto.serviceType, packages |-> dto.packages,
             discount |-> dto.discount, insured |-> dto.insured]
  BY DEF Body
<1>2. g = [dto EXCEPT !.originZone = o, !.destinationZone = d, !.serviceType = s, !.discount = c]
  BY DEF ToGrpc
<1>3. o \in 0..3 /\ d \in 0..3 /\ s \in 0..3 /\ k \in 0..2
  BY NamesNumbered, NameTables
<1>4. dto.packages \in Seq(PackageBody) /\ dto.insured \in BOOLEAN
  BY DEF Body
<1>5. ASSUME dto.discount # None
      PROVE  c = [type |-> k, value |-> dto.discount.value] /\ dto.discount.value \in Int /\ c # None
  <2>1. dto.discount \in DiscountBody
    BY <1>5 DEF Body
  <2>2. c = [type |-> k, value |-> dto.discount.value] /\ dto.discount.value \in Int
    BY <1>5, <2>1 DEF DiscountBody
  <2>3. c \in [type : STRING \cup Int, value : Int]
    BY <1>3, <2>2
  <2> QED
    BY <2>2, <2>3, NoValueAssumption
<1>6. dto.discount = None => c = None
  OBVIOUS
<1> DEFINE e == IF c = None THEN [type |-> 1, value |-> 0] ELSE [c EXCEPT !.type = @ + 1]
<1> HIDE DEF o, d, s, c, k
<1>7. g = [originZone |-> o, destinationZone |-> d, serviceType |-> s, packages |-> dto.packages,
           discount |-> c, insured |-> dto.insured]
  BY <1>1, <1>2
<1> HIDE DEF g
<1>8. m = [g EXCEPT !.discount = e]
  <2>1. m = [g EXCEPT !.discount = IF g.discount = None THEN [type |-> 1, value |-> 0]
                                   ELSE [g.discount EXCEPT !.type = @ + 1]]
    BY DEF ToMonolith, g
  <2>2. g.discount = c
    BY <1>7
  <2> QED
    BY <2>1, <2>2
<1>9. /\ m.originZone = o /\ m.destinationZone = d /\ m.serviceType = s /\ m.packages = dto.packages
      /\ m.discount = e /\ m.insured = dto.insured
  BY <1>7, <1>8
<1>10. dto.discount = None => e = [type |-> 1, value |-> 0]
  BY <1>6
<1>11. dto.discount # None => e.type = k + 1 /\ e.value = dto.discount.value /\ dto.discount.value \in Int
  BY <1>5
<1> HIDE DEF e
<1> QED
  BY <1>3, <1>4, <1>9, <1>10, <1>11 DEF o, d, s, k

LEMMA SameAcceptance ==
    ASSUME NEW dto \in Body, CreateOrderDto(dto)
    PROVE  Valid(ToGrpc(dto)) <=> ValidateCreateOrder(ToMonolith(dto))
<1> DEFINE r == ToGrpc(dto)
           m == ToMonolith(dto)
           d == dto.discount
<1>1. /\ r.packages = dto.packages /\ r.insured = dto.insured
      /\ r.originZone = NumberOf(dto.originZone, Zones) /\ r.originZone \in 1..3
      /\ r.destinationZone = NumberOf(dto.destinationZone, Zones) /\ r.destinationZone \in 1..3
      /\ r.serviceType = NumberOf(dto.serviceType, Services) /\ r.serviceType \in 1..3
  BY RequestIs
<1>2. /\ d = None => r.discount = None
      /\ d # None => /\ r.discount # None /\ r.discount.value = d.value /\ d.value \in Nat
                     /\ d.type = "NONE" => r.discount.type = 0
                     /\ d.type = "PERCENT" => r.discount.type = 1
                     /\ d.type = "FIXED" => r.discount.type = 2
                     /\ d.type \in {"NONE", "PERCENT", "FIXED"}
                     /\ r.discount = [type |-> NumberOf(d.type, Discounts), value |-> d.value]
  BY DiscountIs, RequestIs
<1>3. /\ m.packages = dto.packages /\ m.insured = dto.insured
      /\ m.originZone = NumberOf(dto.originZone, Zones)
      /\ m.destinationZone = NumberOf(dto.destinationZone, Zones)
      /\ m.serviceType = NumberOf(dto.serviceType, Services)
      /\ d = None => m.discount = [type |-> 1, value |-> 0]
      /\ d # None => /\ m.discount.type = NumberOf(d.type, Discounts) + 1
                     /\ m.discount.value = d.value
  BY OldRequestIs
<1>4. d # None => m.discount.type = r.discount.type + 1
  BY <1>2, <1>3
<1>5. PackagesOK(r.packages) <=> m.packages # <<>> /\ \A i \in DOMAIN m.packages : PackageValid(m.packages[i])
  BY <1>1, <1>3 DEF PackagesOK, PackageValid
<1>6. Insurable(r.packages, r.insured) <=> InsuranceValid(m.packages, m.insured)
  BY <1>1, <1>3 DEF Insurable, InsuranceValid
<1>7. DiscountOK(r.discount) <=> DiscountValid(m.discount)
  <2>1. CASE d = None
    BY <1>2, <1>3, <2>1 DEF DiscountOK, DiscountValid, Given
  <2>2. CASE d # None
    BY <1>2, <1>3, <1>4, <2>2 DEF DiscountOK, DiscountValid, Given, MaxPercent
  <2> QED
    BY <2>1, <2>2
<1>8. m.originZone # 0 /\ m.destinationZone # 0 /\ m.serviceType # 0
  BY <1>1, <1>3
<1> HIDE DEF r, m
<1>9. Valid(r) <=> ValidateCreateOrder(m)
  BY <1>5, <1>6, <1>7, <1>8 DEF Valid, ValidateCreateOrder
<1> QED
  BY <1>9 DEF r, m

\* The tariff of an order the monolith accepts.
LEMMA TariffIs ==
    ASSUME NEW dto \in Body, NEW m, m = ToMonolith(dto), ValidateCreateOrder(m),
           NEW W, W = TotalBillableWeight(m.packages),
           NEW rate, rate = RateForZone(m.destinationZone) \div 100,
           NEW mult, mult = MultiplierForService(m.serviceType),
           NEW base, base = Round(W * rate, 100),
           NEW service, service = Round(base * mult, 100),
           NEW insurance, insurance = InsuranceSurchargeCents(m.packages, m.insured),
           NEW subtotal, subtotal = service + 700 * FragilePackages(m.packages) + insurance,
           NEW discount, discount = DiscountCents(m.discount, subtotal)
    PROVE  /\ W \in Nat /\ FragilePackages(m.packages) \in Nat /\ DeclaredValue(m.packages) \in Nat
           /\ rate \in {8, 12, 16} /\ mult \in {100, 135, 180}
           /\ base \in Nat /\ service \in Nat /\ insurance \in Nat /\ subtotal \in Nat /\ discount \in Nat
           /\ Tariff(m) = [subtotal |-> subtotal, discount |-> discount,
                           total |-> Larger(0, subtotal - discount)]
           /\ Tariff(m) \in [subtotal : Nat, discount : Nat, total : Nat]
<1>1. /\ m.packages \in Seq(PackageBody) /\ m.insured \in BOOLEAN
      /\ m.destinationZone \in 1..3 /\ m.serviceType \in 1..3
  <2>1. /\ m.packages = dto.packages /\ m.insured = dto.insured
        /\ dto.packages \in Seq(PackageBody) /\ dto.insured \in BOOLEAN
        /\ m.destinationZone \in 0..3 /\ m.serviceType \in 0..3
    BY OldRequestIs
  <2>2. m.destinationZone # 0 /\ m.serviceType # 0
    BY DEF ValidateCreateOrder
  <2> QED
    BY <2>1, <2>2
<1>2. PackagesOK(m.packages)
  BY DEF ValidateCreateOrder, PackagesOK, PackageValid
<1>3. W \in Nat /\ FragilePackages(m.packages) \in Nat /\ DeclaredValue(m.packages) \in Nat
  BY <1>1, <1>2, PackagesWeigh
<1>4. rate \in {8, 12, 16} /\ mult \in {100, 135, 180}
  <2>1. /\ <<800, 1200, 1600>>[1] = 800 /\ <<800, 1200, 1600>>[2] = 1200 /\ <<800, 1200, 1600>>[3] = 1600
        /\ <<100, 135, 180>>[1] = 100 /\ <<100, 135, 180>>[2] = 135 /\ <<100, 135, 180>>[3] = 180
    OBVIOUS
  <2>2. rate \in {8, 12, 16}
    BY <1>1, <2>1 DEF RateForZone
  <2>3. mult \in {100, 135, 180}
    BY <1>1, <2>1 DEF MultiplierForService
  <2> QED
    BY <2>2, <2>3
<1>5. \A x \in Nat : Round(x, 100) \in Nat /\ Round(x, 1000) \in Nat
  BY DEF Round
<1>6. W * rate \in Nat
  BY <1>3, <1>4
<1>7. base \in Nat
  BY <1>5, <1>6
<1>8. base * mult \in Nat
  BY <1>4, <1>7
<1>9. service \in Nat
  BY <1>5, <1>8
<1>10. insurance \in Nat
  <2>1. DeclaredValue(m.packages) * 25 \in Nat
    BY <1>3
  <2>2. Round(DeclaredValue(m.packages) * 25, 1000) \in Nat
    BY <1>5, <2>1
  <2> QED
    BY <2>2 DEF InsuranceSurchargeCents
<1>11. subtotal \in Nat
  BY <1>3, <1>9, <1>10
<1>12. discount \in Nat
  <2> DEFINE d == m.discount
  <2>1. DiscountValid(d)
    BY DEF ValidateCreateOrder
  <2>2. CASE d.type = 2
    <3>1. d.value \in Nat
      BY <2>1, <2>2 DEF DiscountValid
    <3>2. subtotal * d.value \in Nat
      BY <1>11, <3>1
    <3> QED
      BY <1>5, <2>2, <3>2 DEF DiscountCents
  <2>3. CASE d.type = 3
    <3>1. d.value \in Int
      BY <2>3, OldRequestIs
    <3> QED
      BY <2>1, <2>3, <3>1 DEF DiscountCents, DiscountValid
  <2>4. CASE d.type \notin {2, 3}
    BY <2>4 DEF DiscountCents
  <2> QED
    BY <2>2, <2>3, <2>4
<1>13. Tariff(m) = [subtotal |-> subtotal, discount |-> discount, total |-> Larger(0, subtotal - discount)]
  BY DEF Tariff, FragileSurchargeCents, ApplyDiscount
<1>14. Larger(0, subtotal - discount) \in Nat
  BY <1>11, <1>12 DEF Larger
<1> QED
  BY <1>3, <1>4, <1>7, <1>9, <1>10, <1>11, <1>12, <1>13, <1>14

\* Two amounts are n apart at most.
Within(n, a, b) == a <= b + n /\ b <= a + n
USE DEF Within

\* How far the rounded cents of the monolith are from the exact amounts.
LEMMA RoundsNear ==
    ASSUME NEW x \in Nat
    PROVE  /\ Round(x, 100) \in Nat /\ 100 * Round(x, 100) <= x + 50 /\ x < 100 * Round(x, 100) + 50
           /\ Round(x, 1000) \in Nat /\ 1000 * Round(x, 1000) <= x + 500 /\ x < 1000 * Round(x, 1000) + 500
BY DEF Round

LEMMA ServicesNear ==
    ASSUME NEW X \in Nat, NEW B \in Nat, 100 * B <= X + 50, X < 100 * B + 50,
           NEW y \in Nat, NEW R \in Nat, 100 * R <= y + 50, y < 100 * R + 50,
           NEW exact \in Nat,
           \/ y = 100 * B /\ exact = 200 * X
           \/ y = 135 * B /\ exact = 270 * X
           \/ y = 180 * B /\ exact = 360 * X
    PROVE  Within(28000, 20000 * R, exact)
OBVIOUS

LEMMA InsurancesNear ==
    ASSUME NEW D \in Nat
    PROVE  Round(D * 25, 1000) \in Nat /\ Within(10000, 20000 * Round(D * 25, 1000), 500 * D)
<1> DEFINE y == D * 25
<1>1. y \in Nat /\ 500 * D = 20 * y
  OBVIOUS
<1> HIDE DEF y
<1>2. Round(y, 1000) \in Nat /\ 1000 * Round(y, 1000) <= y + 500 /\ y < 1000 * Round(y, 1000) + 500
  BY <1>1, RoundsNear
<1>3. Round(y, 1000) \in Nat /\ Within(10000, 20000 * Round(y, 1000), 500 * D)
  BY <1>1, <1>2
<1> QED
  BY <1>3 DEF y

LEMMA ProductNear ==
    ASSUME NEW p \in 0..35, NEW x \in Nat, NEW y \in Nat, Within(38000, 20000 * x, y)
    PROVE  Within(38000 * 100, 20000 * (100 * x - x * p), 100 * y - y * p)
<1> DEFINE u == x * p
           v == y * p
           z == 20000 * x - y
           q == 100 - p
<1>1. z \in Int /\ z <= 38000 /\ -38000 <= z /\ q \in 0..100 /\ u \in Nat /\ v \in Nat
  OBVIOUS
<1>2. z * q \in Int /\ z * q <= 38000 * 100 /\ 0 - 38000 * 100 <= z * q
  <2>1. CASE z >= 0
    <3>1. z * q >= 0 /\ z * q <= z * 100
      BY <1>1, <2>1
    <3> QED
      BY <1>1, <3>1
  <2>2. CASE z < 0
    <3>1. (0 - z) * q >= 0 /\ (0 - z) * q <= (0 - z) * 100
      BY <1>1, <2>2
    <3>2. (0 - z) * q = 0 - (z * q) /\ z * q \in Int
      BY <1>1
    <3> HIDE DEF z, q
    <3> QED
      BY <1>1, <3>1, <3>2
  <2> QED
    BY <1>1, <2>1, <2>2
<1>3. z * q = (20000 * (100 * x - u)) - (100 * y - v)
  OBVIOUS
<1>4. 20000 * (100 * x - u) \in Int /\ 100 * y - v \in Int
  BY <1>1
<1>5. Within(38000 * 100, 20000 * (100 * x - u), 100 * y - v)
  <2> HIDE DEF z, q, u, v
  <2> QED
    BY <1>2, <1>3, <1>4
<1> QED
  BY <1>5

\* What remains of two amounts that are close after the same percentage, in
\* either rounding.
Close(x, e) == Within(38000, 20000 * x, e)
StillClose(x, e) == Within(48001, 20000 * x, e)

LEMMA PercentNear ==
    ASSUME NEW p \in 0..35, NEW x \in Nat, NEW y \in Nat, Close(x, y)
    PROVE  /\ Larger(0, x - Round(x * p, 100)) \in Nat
           /\ StillClose(Larger(0, x - Round(x * p, 100)), y - Percent(p, y))
<1> DEFINE u == x * p
           v == y * p
           C == Percent(p, y)
           od == Round(x * p, 100)
<1>1. u \in Nat /\ v \in Nat /\ u <= 35 * x
  OBVIOUS
<1>2. p \in 0..100
  OBVIOUS
<1>3. C \in 0..y /\ 100 * C <= v /\ v < 100 * C + 100
  BY ONLY <1>2, y \in Nat, PercentIsShare
<1>4. od \in Nat /\ 100 * od <= u + 50 /\ u < 100 * od + 50
  <2> HIDE DEF u, v
  <2>1. /\ Round(u, 100) \in Nat
        /\ 100 * Round(u, 100) <= u + 50 /\ u < 100 * Round(u, 100) + 50
    BY ONLY <1>1, RoundsNear
  <2> QED
    BY <2>1 DEF u
<1>5. Within(38000 * 100, 20000 * (100 * x - u), 100 * y - v)
  BY ProductNear DEF Close
<1> HIDE DEF u, v, C, od
<1>6. od <= x
  BY <1>1, <1>4
<1>7. Larger(0, x - od) = x - od /\ x - od \in Nat
  BY <1>4, <1>6 DEF Larger
<1>8. Within(48001, 20000 * (x - od), y - C)
  BY <1>1, <1>3, <1>4, <1>5
<1>9. Larger(0, x - od) \in Nat /\ StillClose(Larger(0, x - od), y - C)
  BY <1>7, <1>8 DEF StillClose
<1> QED
  BY <1>9 DEF od, C

LEMMA CentsNear ==
    ASSUME NEW x \in Nat, NEW e \in Nat, Within(48001, 20000 * x, e)
    PROVE  Abs(Larger(0, Round(e, Cent)) - x) <= 2
<1>1. Round(e, Cent) \in Nat /\ 20000 * Round(e, Cent) <= e + 10000 /\ e < 20000 * Round(e, Cent) + 10000
  BY RoundIsNear
<1> DEFINE R == Round(e, Cent)
<1> HIDE DEF R
<1>2. R \in Nat /\ 20000 * R <= e + 10000 /\ e < 20000 * R + 10000
  BY <1>1 DEF R
<1>3. R - x \in -2..2
  BY <1>2
<1>4. Larger(0, R) = R
  BY <1>2 DEF Larger
<1>5. Abs(R - x) <= 2
  BY <1>3 DEF Abs
<1> QED
  BY <1>4, <1>5 DEF R

LEMMA SamePrice ==
    ASSUME NEW dto, Accepted(dto), NEW b, b = Breakdown(ToGrpc(dto)), ValidateCreateOrder(ToMonolith(dto))
    PROVE  Abs(b.total - Tariff(ToMonolith(dto)).total) <= 2
<1> DEFINE r == ToGrpc(dto)
           m == ToMonolith(dto)
           P == dto.packages
           W == TotalBillableWeight(P)
           F == FragilePackages(P)
           D == DeclaredValue(P)
           rate == RatePerKg(r.destinationZone)
           mult == Multiplier(r.serviceType)
           orate == RateForZone(m.destinationZone) \div 100
           omult == MultiplierForService(m.serviceType)
           obase == Round(W * orate, 100)
           oservice == Round(obase * omult, 100)
           oinsurance == InsuranceSurchargeCents(P, m.insured)
           x == oservice + 700 * F + oinsurance
           od == DiscountCents(m.discount, x)
           y == Subtotal(r)
           C == Cut(r)
           rest == Larger(0, x - od)
<1>1. dto \in Body /\ CreateOrderDto(dto)
  BY DEF Accepted
<1>2. /\ r.packages = P /\ m.packages = P /\ r.insured = dto.insured /\ m.insured = dto.insured
      /\ dto.insured \in BOOLEAN
      /\ r.destinationZone = m.destinationZone /\ r.serviceType = m.serviceType
      /\ r.destinationZone \in 1..3 /\ r.serviceType \in 1..3
  <2>1. /\ r.packages = P /\ r.insured = dto.insured /\ dto.insured \in BOOLEAN
        /\ r.destinationZone = NumberOf(dto.destinationZone, Zones) /\ r.destinationZone \in 1..3
        /\ r.serviceType = NumberOf(dto.serviceType, Services) /\ r.serviceType \in 1..3
    BY <1>1, RequestIs
  <2>2. /\ m.packages = P /\ m.insured = dto.insured
        /\ m.destinationZone = NumberOf(dto.destinationZone, Zones)
        /\ m.serviceType = NumberOf(dto.serviceType, Services)
    BY <1>1, OldRequestIs
  <2> QED
    BY <2>1, <2>2
<1>3. /\ W \in Nat /\ rate \in {8, 12, 16} /\ mult \in {20, 27, 36} /\ F \in Nat /\ D \in Nat
      /\ Service(r) = (10 * (W * rate)) * mult
      /\ FragileSurcharge(r.packages) = 20000 * (700 * F)
      /\ Insurance(r) = (IF r.insured THEN 500 * D ELSE 0)
      /\ Insurance(r) \in Nat /\ Service(r) \in Nat
      /\ y \in Nat /\ C \in 0..y
      /\ Given(r.discount) => r.discount.value \in Nat
      /\ Given(r.discount) /\ r.discount.type = 1 => r.discount.value \in 0..35
  BY <1>2, ExactAmounts
<1>4. /\ oinsurance \in Nat /\ x \in Nat /\ od \in Nat /\ oservice \in Nat
      /\ Tariff(m).total = rest
  <2>1. /\ oinsurance \in Nat /\ x \in Nat /\ od \in Nat /\ oservice \in Nat
        /\ Tariff(m) = [subtotal |-> x, discount |-> od, total |-> rest]
    BY <1>1, <1>2, TariffIs
  <2> HIDE DEF x, od, rest, oinsurance, oservice
  <2> QED
    BY <2>1
<1>5. orate = rate /\ omult = 5 * mult
  <2>1. /\ <<800, 1200, 1600>>[1] = 800 /\ <<800, 1200, 1600>>[2] = 1200 /\ <<800, 1200, 1600>>[3] = 1600
        /\ <<100, 135, 180>>[1] = 100 /\ <<100, 135, 180>>[2] = 135 /\ <<100, 135, 180>>[3] = 180
        /\ <<8, 12, 16>>[1] = 8 /\ <<8, 12, 16>>[2] = 12 /\ <<8, 12, 16>>[3] = 16
        /\ <<20, 27, 36>>[1] = 20 /\ <<20, 27, 36>>[2] = 27 /\ <<20, 27, 36>>[3] = 36
    OBVIOUS
  <2> QED
    BY <1>2, <2>1 DEF RateForZone, MultiplierForService, RatePerKg, Multiplier
<1>6. Within(28000, 20000 * oservice, Service(r))
  <2> DEFINE X == W * rate
             z == obase * omult
             exact == Service(r)
  <2>1. W * rate \in Nat /\ obase = Round(X, 100)
    BY <1>3, <1>5
  <2>2. mult \in {20, 27, 36} /\ exact = (10 * X) * mult /\ exact \in Nat /\ omult = 5 * mult
    BY <1>3, <1>5
  <2> HIDE DEF X, exact, obase, mult, omult
  <2>3. obase \in Nat /\ 100 * obase <= X + 50 /\ X < 100 * obase + 50 /\ X \in Nat
    BY <2>1, RoundsNear DEF X
  <2>4. \/ z = 100 * obase /\ exact = 200 * X
        \/ z = 135 * obase /\ exact = 270 * X
        \/ z = 180 * obase /\ exact = 360 * X
    BY <2>2, <2>3
  <2>5. z \in Nat
    BY <2>3, <2>4
  <2> HIDE DEF z
  <2>6. oservice \in Nat /\ 100 * oservice <= z + 50 /\ z < 100 * oservice + 50
    BY <2>5, RoundsNear DEF z
  <2> HIDE DEF oservice
  <2>7. Within(28000, 20000 * oservice, exact)
    BY <2>2, <2>3, <2>4, <2>5, <2>6, ServicesNear
  <2> QED
    BY <2>7 DEF exact
<1>7. Within(10000, 20000 * oinsurance, Insurance(r))
  <2>1. CASE dto.insured
    BY <1>2, <1>3, <2>1, InsurancesNear DEF InsuranceSurchargeCents
  <2>2. CASE ~dto.insured
    BY <1>2, <1>3, <2>2 DEF InsuranceSurchargeCents
  <2> QED
    BY <2>1, <2>2
<1>8. y = Service(r) + 20000 * (700 * F) + Insurance(r)
  BY <1>3 DEF Subtotal
<1>9. Within(38000, 20000 * x, y)
  <2> DEFINE f == 700 * F
             s == Service(r)
             i == Insurance(r)
  <2>1. f \in Nat /\ s \in Nat /\ i \in Nat /\ oservice \in Nat /\ oinsurance \in Nat
    BY <1>3, <1>4
  <2>2. x = oservice + f + oinsurance /\ y = s + 20000 * f + i
    BY <1>8
  <2>3. Within(28000, 20000 * oservice, s) /\ Within(10000, 20000 * oinsurance, i)
    BY <1>6, <1>7
  <2> HIDE DEF f, s, i, x, y, oservice, oinsurance
  <2> QED
    BY <2>1, <2>2, <2>3
<1>10. C = Discount(r.discount, y) /\ b.total = Larger(0, Round(y - C, Cent))
  BY BreakdownIs DEF Cut
<1>11. rest \in Nat /\ y - C \in Nat /\ Within(48001, 20000 * rest, y - C)
  <2> DEFINE d == dto.discount
  <2>1. /\ d = None => r.discount = None
        /\ d # None => /\ r.discount # None /\ r.discount.value = d.value /\ d.value \in Nat
                       /\ d.type = "NONE" => r.discount.type = 0
                       /\ d.type = "PERCENT" => r.discount.type = 1
                       /\ d.type = "FIXED" => r.discount.type = 2
                       /\ d.type \in {"NONE", "PERCENT", "FIXED"}
                       /\ r.discount = [type |-> NumberOf(d.type, Discounts), value |-> d.value]
    BY <1>1, DiscountIs, RequestIs
  <2>2. /\ d = None => m.discount = [type |-> 1, value |-> 0]
        /\ d # None => /\ m.discount.type = NumberOf(d.type, Discounts) + 1
                       /\ m.discount.value = d.value
    BY <1>1, OldRequestIs
  <2>3. x \in Nat /\ y \in Nat /\ C \in 0..y
    BY <1>3, <1>4
  <2>4. C = Discount(r.discount, y) /\ od = DiscountCents(m.discount, x) /\ rest = Larger(0, x - od)
    BY <1>10
  <2>5. d # None => m.discount.type = r.discount.type + 1
    BY <2>1, <2>2
  <2>6. Given(r.discount) /\ r.discount.type = 1 => r.discount.value \in 0..35
    BY <1>3
  <2> HIDE DEF r, m, x, y, C, od, rest
  <2>7. y - C \in Nat
    BY <2>3
  <2>8. CASE d = None \/ d.type = "NONE"
    <3>1. C = 0
      BY <2>1, <2>4, <2>8 DEF Discount, Given
    <3>2. m.discount.type = 1
      BY <2>1, <2>2, <2>5, <2>8
    <3>3. od = 0
      BY <2>4, <3>2 DEF DiscountCents
    <3>4. rest = x
      BY <2>3, <2>4, <3>3 DEF Larger
    <3> QED
      BY <1>9, <2>3, <3>1, <3>4
  <2>9. CASE d # None /\ d.type = "PERCENT"
    <3>1. r.discount.type = 1 /\ m.discount.type = 2 /\ Given(r.discount)
          /\ r.discount.value = d.value /\ m.discount.value = d.value
      BY <2>1, <2>2, <2>5, <2>9 DEF Given
    <3>2. C = Percent(d.value, y) /\ od = Round(x * d.value, 100) /\ d.value \in 0..35
      BY <2>4, <2>6, <3>1 DEF Discount, DiscountCents
    <3> DEFINE p == d.value
    <3>3. p \in 0..35 /\ C = Percent(p, y) /\ od = Round(x * p, 100)
      BY <3>2
    <3> HIDE DEF p
    <3>5. Close(x, y)
      BY <1>9 DEF Close
    <3>4. /\ Larger(0, x - Round(x * p, 100)) \in Nat
          /\ StillClose(Larger(0, x - Round(x * p, 100)), y - Percent(p, y))
      BY <2>3, <3>3, <3>5, PercentNear, Zenon
    <3>8. Larger(0, x - od) \in Nat /\ Within(48001, 20000 * Larger(0, x - od), y - C)
      BY <3>3, <3>4 DEF StillClose
    <3> QED
      BY <2>4, <2>7, <3>8
  <2>10. CASE d # None /\ d.type = "FIXED"
    <3>1. r.discount.type = 2 /\ m.discount.type = 3 /\ Given(r.discount) /\ d.value \in Nat
          /\ r.discount.value = d.value /\ m.discount.value = d.value
      BY <2>1, <2>2, <2>5, <2>10 DEF Given
    <3>2. C = Smaller(d.value * Cent, y) /\ od = d.value
      BY <2>4, <3>1 DEF Discount, DiscountCents
    <3> QED
      BY <1>9, <2>3, <2>4, <3>1, <3>2 DEF Larger, Smaller, Cent
  <2> QED
    BY <2>1, <2>8, <2>9, <2>10
<1> HIDE DEF rest
<1>12. Abs(Larger(0, Round(y - C, Cent)) - rest) <= 2
  <2> DEFINE e == y - C
  <2> HIDE DEF e
  <2>1. rest \in Nat /\ e \in Nat /\ Within(48001, 20000 * rest, e)
    BY <1>11 DEF e
  <2>2. Abs(Larger(0, Round(e, Cent)) - rest) <= 2
    BY <2>1, CentsNear
  <2> QED
    BY <2>2 DEF e
<1> QED
  BY <1>4, <1>10, <1>12

(***************************************************************************)
(* The rows                                                                *)
(***************************************************************************)
\* The rows of the order made from dto, with a status.
Stored(dto, s) == [RowOf(NewOrder(ToGrpc(dto), Breakdown(ToGrpc(dto)))) EXCEPT !.status = s]

LEMMA PackageKept ==
    ASSUME NEW p \in PackageBody, PackageDto(p)
    PROVE  /\ PackageRow(p) \in PackageRows
           /\ Whole(p) => PackageOf(PackageRow(p)) = p
           /\ PackageRow(p).fragile = p.fragile /\ PackageRow(p).declared_value_q = p.declared
<1>1. /\ p.weight \in Nat /\ p.height \in Nat /\ p.width \in Nat /\ p.length \in Nat
      /\ p.fragile \in BOOLEAN /\ p.declared \in Nat
      /\ p = [weight |-> p.weight, height |-> p.height, width |-> p.width, length |-> p.length,
              fragile |-> p.fragile, declared |-> p.declared]
  BY DEF PackageBody, PackageDto
<1>2. Round(p.weight, 100) \in Nat /\ p.height \div 2 \in Nat
  BY <1>1 DEF Round
<1>3. PackageRow(p) \in PackageRows
  BY <1>1, <1>2 DEF PackageRow, PackageRows
<1>4. ASSUME Whole(p) PROVE PackageOf(PackageRow(p)) = p
  <2>1. 100 * Round(p.weight, 100) = p.weight /\ 2 * (p.height \div 2) = p.height
    BY <1>1, <1>4 DEF Whole, Round
  <2> QED
    BY <1>1, <2>1 DEF PackageOf, PackageRow
<1> QED
  BY <1>3, <1>4 DEF PackageRow

LEMMA RowIs ==
    ASSUME NEW dto, Accepted(dto), NEW b, b = Breakdown(ToGrpc(dto)), NEW s \in Range(Statuses),
           NEW w, w = Stored(dto, s)
    PROVE  /\ w.origin_zone = dto.originZone /\ w.destination_zone = dto.destinationZone
           /\ w.service_type = dto.serviceType /\ w.insurance_enabled = dto.insured
           /\ w.status = s
           /\ w.total_weight_kg = b.orderBillableKg /\ w.base_cost = b.baseSubtotal
           /\ w.weight_cost = b.serviceSubtotal /\ w.fragile_surcharge = b.fragileSurcharge
           /\ w.insurance_cost = b.insuranceSurcharge /\ w.subtotal = b.subtotalWithSurcharges
           /\ w.total = b.total /\ w.discount_amount = b.discountAmount
           /\ w.discount_type = IF dto.discount = None THEN None ELSE dto.discount.type
           /\ w.discount_value = IF dto.discount = None \/ dto.discount.value = 0 THEN None
                                 ELSE dto.discount.value
           /\ DOMAIN w.packages = DOMAIN dto.packages
           /\ \A i \in DOMAIN dto.packages : w.packages[i] = PackageRow(dto.packages[i])
           /\ w \in Rows
<1> DEFINE r == ToGrpc(dto)
           p == Breakdown(r)
           o == NewOrder(r, p)
           dt == IF r.discount = None THEN None ELSE NameOf(r.discount.type, Discounts, "NONE")
           dv == IF r.discount = None \/ r.discount.value = 0 THEN None ELSE r.discount.value
           oz == NameOf(r.originZone, Zones, "UNSPECIFIED")
           dz == NameOf(r.destinationZone, Zones, "UNSPECIFIED")
           st == NameOf(r.serviceType, Services, "UNSPECIFIED")
           ps == [i \in DOMAIN r.packages |-> PackageRow(r.packages[i])]
           first == NameOf(1, Statuses, "UNSPECIFIED")
           Columns(t) ==
              [origin_zone |-> oz, destination_zone |-> dz, service_type |-> st, status |-> t,
               total_weight_kg |-> p.orderBillableKg, base_cost |-> p.baseSubtotal,
               weight_cost |-> p.serviceSubtotal, fragile_surcharge |-> p.fragileSurcharge,
               insurance_cost |-> p.insuranceSurcharge, subtotal |-> p.subtotalWithSurcharges,
               total |-> p.total, discount_type |-> dt, discount_value |-> dv,
               discount_amount |-> p.discountAmount, insurance_enabled |-> r.insured, packages |-> ps]
<1>1. dto \in Body /\ CreateOrderDto(dto)
  BY DEF Accepted
<1>2. /\ r.packages = dto.packages /\ dto.packages \in Seq(PackageBody)
      /\ r.insured = dto.insured /\ dto.insured \in BOOLEAN
      /\ dto.originZone \in Range(Zones) /\ dto.destinationZone \in Range(Zones)
      /\ dto.serviceType \in Range(Services)
      /\ r.originZone = NumberOf(dto.originZone, Zones)
      /\ r.destinationZone = NumberOf(dto.destinationZone, Zones)
      /\ r.serviceType = NumberOf(dto.serviceType, Services)
  BY <1>1, RequestIs
<1>3. oz = dto.originZone /\ dz = dto.destinationZone /\ st = dto.serviceType
  BY <1>2, NamesComeBack
<1>4. oz \in STRING /\ dz \in STRING /\ st \in STRING
  BY <1>1, <1>3 DEF Body
<1>5. /\ dt = IF dto.discount = None THEN None ELSE dto.discount.type
      /\ dv = IF dto.discount = None \/ dto.discount.value = 0 THEN None ELSE dto.discount.value
      /\ dt \in STRING \cup {None} /\ dv \in Nat \cup {None}
  <2> DEFINE d == dto.discount
  <2>1. /\ d = None => r.discount = None
        /\ d # None => /\ r.discount # None /\ r.discount.value = d.value /\ d.value \in Nat
                       /\ d.type = "NONE" => r.discount.type = 0
                       /\ d.type = "PERCENT" => r.discount.type = 1
                       /\ d.type = "FIXED" => r.discount.type = 2
                       /\ d.type \in {"NONE", "PERCENT", "FIXED"}
    BY <1>1, DiscountIs
  <2>2. ASSUME d # None PROVE NameOf(r.discount.type, Discounts, "NONE") = d.type /\ d.type \in STRING
    <3>1. d.type \in STRING
      BY <1>1, <2>2 DEF Body, DiscountBody
    <3> HIDE DEF r
    <3> QED
      BY <2>1, <2>2, <3>1, NameTables DEF NameOf
  <2> HIDE DEF r
  <2> QED
    BY <2>1, <2>2
<1>6. ps = [i \in DOMAIN dto.packages |-> PackageRow(dto.packages[i])] /\ ps \in Seq(PackageRows)
  <2>1. ps = [i \in DOMAIN dto.packages |-> PackageRow(dto.packages[i])]
    BY <1>2
  <2>2. DOMAIN dto.packages = 1..Len(dto.packages) /\ Len(dto.packages) \in Nat
    BY <1>2, LenProperties
  <2>3. \A i \in 1..Len(dto.packages) : PackageRow(dto.packages[i]) \in PackageRows
    <3> SUFFICES ASSUME NEW i \in 1..Len(dto.packages) PROVE PackageRow(dto.packages[i]) \in PackageRows
      OBVIOUS
    <3>1. dto.packages[i] \in PackageBody
      BY <1>2, ElementOfSeq
    <3>2. PackageDto(dto.packages[i])
      BY <1>1, <2>2 DEF CreateOrderDto
    <3> QED
      BY <3>1, <3>2, PackageKept
  <2>4. [i \in 1..Len(dto.packages) |-> PackageRow(dto.packages[i])] \in Seq(PackageRows)
    BY <2>2, <2>3, IsASeq
  <2> QED
    BY <2>1, <2>2, <2>4
<1>7. p \in Price
  BY PartsAddUp
<1>8. p = b
  OBVIOUS
<1>9. RowOf(o) = Columns(first)
  <2> HIDE DEF p, r
  <2>1. /\ o.originZone = r.originZone /\ o.destinationZone = r.destinationZone
        /\ o.serviceType = r.serviceType /\ o.packages = r.packages /\ o.discount = r.discount
        /\ o.insured = r.insured /\ o.status = 1 /\ o.breakdown = p
    BY DEF NewOrder
  <2> HIDE DEF o
  <2> QED
    BY <2>1 DEF RowOf
<1>10. \A t : Stored(dto, t) = [RowOf(o) EXCEPT !.status = t]
  BY DEF Stored
<1>20. DOMAIN ps = DOMAIN dto.packages /\ \A i \in DOMAIN dto.packages : ps[i] = PackageRow(dto.packages[i])
  BY <1>6
<1> HIDE DEF oz, dz, st, dt, dv, ps, first, o, r, p
<1>11. \A t : [Columns(first) EXCEPT !.status = t] = Columns(t)
  OBVIOUS
<1>12. \A t : Stored(dto, t) = Columns(t)
  BY <1>9, <1>10, <1>11
<1>13. w = Columns(s)
  BY <1>12
<1>15. r.insured \in BOOLEAN
  BY <1>2
<1>16. Columns(s) \in Rows
  BY <1>4, <1>5, <1>6, <1>7, <1>15 DEF Price, Rows
<1>17. w \in Rows
  BY <1>13, <1>16
<1>18. /\ w.origin_zone = oz /\ w.destination_zone = dz /\ w.service_type = st
       /\ w.insurance_enabled = r.insured /\ w.status = s
       /\ w.discount_type = dt /\ w.discount_value = dv /\ w.packages = ps
  BY <1>13
<1>19. /\ w.total_weight_kg = p.orderBillableKg /\ w.base_cost = p.baseSubtotal
       /\ w.weight_cost = p.serviceSubtotal /\ w.fragile_surcharge = p.fragileSurcharge
       /\ w.insurance_cost = p.insuranceSurcharge /\ w.subtotal = p.subtotalWithSurcharges
       /\ w.total = p.total /\ w.discount_amount = p.discountAmount
  BY <1>13
<1> HIDE DEF Columns
<1> QED
  BY <1>2, <1>3, <1>5, <1>6, <1>8, <1>17, <1>18, <1>19, <1>20

LEMMA StoredInRows ==
    ASSUME NEW dto, Accepted(dto), NEW s \in Range(Statuses)
    PROVE  Stored(dto, s) \in Rows
<1>1. PICK w : w = Stored(dto, s)
  OBVIOUS
<1>2. PICK b : b = Breakdown(ToGrpc(dto))
  OBVIOUS
<1>3. w.origin_zone = dto.originZone /\ w.status = s /\ w \in Rows
  BY <1>1, <1>2, RowIs
<1> QED
  BY <1>1, <1>3

\* A change of the status leaves the rest.
LEMMA StatusChanges ==
    ASSUME NEW dto, NEW s, NEW t
    PROVE  [Stored(dto, s) EXCEPT !.status = t] = Stored(dto, t)
<1>1. PICK w : w = RowOf(NewOrder(ToGrpc(dto), Breakdown(ToGrpc(dto))))
  OBVIOUS
<1>2. [[w EXCEPT !.status = s] EXCEPT !.status = t] = [w EXCEPT !.status = t]
  OBVIOUS
<1> QED
  BY <1>1, <1>2 DEF Stored

\* The order read back from the rows.
LEMMA OrderIs ==
    ASSUME NEW dto, Accepted(dto), NEW b, b = Breakdown(ToGrpc(dto)), NEW s \in Range(Statuses),
           NEW w, w = Stored(dto, s), NEW o, o = RowToOrder(w)
    PROVE  /\ o.originZone = NumberOf(dto.originZone, Zones)
           /\ o.destinationZone = NumberOf(dto.destinationZone, Zones)
           /\ o.serviceType = NumberOf(dto.serviceType, Services)
           /\ o.insured = dto.insured /\ o.total = b.total
           /\ o.status = NumberOf(s, Statuses)
           /\ o.discount = IF dto.discount = None \/ dto.discount.type = "NONE" THEN None
                           ELSE [type |-> NumberOf(dto.discount.type, Discounts), value |-> dto.discount.value]
           /\ o.packages \in Seq(PackageBody) /\ DOMAIN o.packages = DOMAIN dto.packages
           /\ \A i \in DOMAIN dto.packages : o.packages[i] = PackageOf(PackageRow(dto.packages[i]))
           /\ ServiceHasLine(o.breakdown)
           /\ \A part \in DOMAIN b \ {"ratePerKg", "serviceMultiplier"} : o.breakdown[part] = b[part]
           /\ o.breakdown \in Price
           /\ o = [originZone |-> o.originZone, destinationZone |-> o.destinationZone,
                   serviceType |-> o.serviceType, packages |-> o.packages, discount |-> o.discount,
                   insured |-> o.insured, status |-> o.status, breakdown |-> o.breakdown, total |-> o.total]
<1> DEFINE d == dto.discount
           P == dto.packages
           c == IF w.discount_type \in {None, "NONE"} THEN None
                ELSE [type |-> NumberOf(w.discount_type, Discounts),
                      value |-> IF w.discount_value = None THEN 0 ELSE w.discount_value]
           ps == [i \in DOMAIN w.packages |-> PackageOf(w.packages[i])]
           sb == StoredBreakdown(w)
<1>1. dto \in Body /\ CreateOrderDto(dto) /\ PackagesOK(ToGrpc(dto).packages)
  BY DEF Accepted, Valid
<1>2. /\ w.origin_zone = dto.originZone /\ w.destination_zone = dto.destinationZone
      /\ w.service_type = dto.serviceType /\ w.insurance_enabled = dto.insured
      /\ w.status = s /\ w.total = b.total
      /\ w.discount_type = (IF d = None THEN None ELSE d.type)
      /\ w.discount_value = (IF d = None \/ d.value = 0 THEN None ELSE d.value)
      /\ DOMAIN w.packages = DOMAIN P /\ \A i \in DOMAIN P : w.packages[i] = PackageRow(P[i])
      /\ w \in Rows
  BY RowIs
<1>3. /\ w.total_weight_kg = b.orderBillableKg /\ w.base_cost = b.baseSubtotal
      /\ w.weight_cost = b.serviceSubtotal /\ w.fragile_surcharge = b.fragileSurcharge
      /\ w.insurance_cost = b.insuranceSurcharge /\ w.subtotal = b.subtotalWithSurcharges
      /\ w.discount_amount = b.discountAmount
  BY RowIs
<1>4. c = IF d = None \/ d.type = "NONE" THEN None
          ELSE [type |-> NumberOf(d.type, Discounts), value |-> d.value]
  <2>1. d # None => d.type \in STRING /\ d.value \in Int
    BY <1>1 DEF Body, DiscountBody
  <2>2. d # None => d.type # None /\ d.value # None
    BY <2>1, NoValueAssumption
  <2> QED
    BY <1>2, <2>2
<1>5. DOMAIN w.packages = DOMAIN P /\ \A i \in DOMAIN P : w.packages[i] = PackageRow(P[i])
  BY <1>2
<1>6. ps = [i \in DOMAIN P |-> PackageOf(PackageRow(P[i]))]
  BY <1>5
<1>22. ps \in Seq(PackageBody)
  <2>1. w.packages \in Seq(PackageRows)
    BY <1>2 DEF Rows
  <2>2. DOMAIN w.packages = 1..Len(w.packages) /\ Len(w.packages) \in Nat
    BY <2>1, LenProperties
  <2>3. \A i \in 1..Len(w.packages) : PackageOf(w.packages[i]) \in PackageBody
    <3> SUFFICES ASSUME NEW i \in 1..Len(w.packages) PROVE PackageOf(w.packages[i]) \in PackageBody
      OBVIOUS
    <3>1. w.packages[i] \in PackageRows
      BY <2>1, ElementOfSeq
    <3> QED
      BY <3>1 DEF PackageRows, PackageBody, PackageOf
  <2>4. [i \in 1..Len(w.packages) |-> PackageOf(w.packages[i])] \in Seq(PackageBody)
    BY <2>2, <2>3, IsASeq
  <2> QED
    BY <2>2, <2>4
<1>7. b \in Price
  BY PartsAddUp
<1>8. P \in Seq(PackageBody) /\ ToGrpc(dto).packages = P
  BY <1>1, RequestIs
<1>9. \A i \in DOMAIN P : P[i] \in PackageBody /\ PackageDto(P[i])
  <2>1. \A i \in DOMAIN P : P[i] \in PackageBody
    BY <1>1, <1>8, PackagesWeigh
  <2> QED
    BY <1>1, <2>1 DEF CreateOrderDto
<1>10. \A i \in DOMAIN P : w.packages[i].fragile = P[i].fragile /\ w.packages[i].declared_value_q = P[i].declared
  BY <1>5, <1>9, PackageKept
<1>11. /\ b.fragilePackagesCount = FragilePackages(P) /\ b.declaredValueTotal = DeclaredValue(P)
  BY <1>8, BreakdownIs
<1>12. Cardinality({i \in DOMAIN w.packages : w.packages[i].fragile}) = b.fragilePackagesCount
  <2>1. {i \in DOMAIN w.packages : w.packages[i].fragile} = {i \in DOMAIN P : P[i].fragile}
    BY <1>5, <1>10
  <2> QED
    BY <1>11, <2>1 DEF FragilePackages
<1>13. SumFunction([i \in DOMAIN w.packages |-> w.packages[i].declared_value_q]) = b.declaredValueTotal
  <2>1. [i \in DOMAIN w.packages |-> w.packages[i].declared_value_q] = [i \in DOMAIN P |-> P[i].declared]
    BY <1>5, <1>10
  <2> QED
    BY <1>11, <2>1 DEF DeclaredValue
<1>14. b = [orderBillableKg |-> b.orderBillableKg, baseSubtotal |-> b.baseSubtotal,
            serviceSubtotal |-> b.serviceSubtotal, fragileSurcharge |-> b.fragileSurcharge,
            insuranceSurcharge |-> b.insuranceSurcharge, subtotalWithSurcharges |-> b.subtotalWithSurcharges,
            discountAmount |-> b.discountAmount, total |-> b.total, ratePerKg |-> b.ratePerKg,
            serviceMultiplier |-> b.serviceMultiplier, fragilePackagesCount |-> b.fragilePackagesCount,
            declaredValueTotal |-> b.declaredValueTotal]
  BY <1>7 DEF Price
<1>15. sb = [orderBillableKg |-> b.orderBillableKg, baseSubtotal |-> b.baseSubtotal,
             serviceSubtotal |-> b.serviceSubtotal, fragileSurcharge |-> b.fragileSurcharge,
             insuranceSurcharge |-> b.insuranceSurcharge, subtotalWithSurcharges |-> b.subtotalWithSurcharges,
             discountAmount |-> b.discountAmount, total |-> b.total, ratePerKg |-> 0,
             serviceMultiplier |-> 0, fragilePackagesCount |-> b.fragilePackagesCount,
             declaredValueTotal |-> b.declaredValueTotal]
  BY <1>2, <1>3, <1>12, <1>13 DEF StoredBreakdown, ServiceSubtotalOf
<1> HIDE DEF sb
<1>16. sb = [b EXCEPT !.ratePerKg = 0, !.serviceMultiplier = 0]
  <2>1. PICK e : e = [b EXCEPT !.ratePerKg = 0, !.serviceMultiplier = 0]
    OBVIOUS
  <2>2. e = [orderBillableKg |-> b.orderBillableKg, baseSubtotal |-> b.baseSubtotal,
             serviceSubtotal |-> b.serviceSubtotal, fragileSurcharge |-> b.fragileSurcharge,
             insuranceSurcharge |-> b.insuranceSurcharge, subtotalWithSurcharges |-> b.subtotalWithSurcharges,
             discountAmount |-> b.discountAmount, total |-> b.total, ratePerKg |-> 0,
             serviceMultiplier |-> 0, fragilePackagesCount |-> b.fragilePackagesCount,
             declaredValueTotal |-> b.declaredValueTotal]
    BY <1>7, <2>1 DEF Price
  <2> QED
    BY <1>15, <2>1, <2>2
<1>17. sb \in Price
  BY <1>7, <1>15 DEF Price
<1>23. ServiceHasLine(sb)
  BY <1>15 DEF ServiceHasLine
<1>24. \A part \in DOMAIN b \ {"ratePerKg", "serviceMultiplier"} : sb[part] = b[part]
  BY <1>16
<1>18. o = [originZone |-> NumberOf(w.origin_zone, Zones),
            destinationZone |-> NumberOf(w.destination_zone, Zones),
            serviceType |-> NumberOf(w.service_type, Services), packages |-> ps, discount |-> c,
            insured |-> w.insurance_enabled, status |-> NumberOf(w.status, Statuses),
            breakdown |-> sb, total |-> w.total]
  BY DEF RowToOrder, sb
<1> HIDE DEF c, ps
<1>19. /\ o.originZone = NumberOf(w.origin_zone, Zones) /\ o.destinationZone = NumberOf(w.destination_zone, Zones)
       /\ o.serviceType = NumberOf(w.service_type, Services) /\ o.packages = ps /\ o.discount = c
       /\ o.insured = w.insurance_enabled /\ o.status = NumberOf(w.status, Statuses)
       /\ o.breakdown = sb /\ o.total = w.total
  BY <1>18
<1>20. /\ DOMAIN ps = DOMAIN P /\ \A i \in DOMAIN P : ps[i] = PackageOf(PackageRow(P[i]))
  BY <1>6
<1>21. o = [originZone |-> o.originZone, destinationZone |-> o.destinationZone,
            serviceType |-> o.serviceType, packages |-> o.packages, discount |-> o.discount,
            insured |-> o.insured, status |-> o.status, breakdown |-> o.breakdown, total |-> o.total]
  BY <1>18, <1>19
<1> QED
  BY <1>2, <1>4, <1>17, <1>19, <1>20, <1>21, <1>22, <1>23, <1>24

\* A price depends on nothing else.
LEMMA PriceDependsOn ==
    ASSUME NEW q, NEW r, q.packages = r.packages, q.insured = r.insured,
           q.destinationZone = r.destinationZone, q.serviceType = r.serviceType,
           q.discount = r.discount \/ (~Given(q.discount) /\ ~Given(r.discount))
    PROVE  CalculatePrice(q) = CalculatePrice(r)
<1>1. DiscountOK(q.discount) = DiscountOK(r.discount)
  BY DEF DiscountOK
<1>2. \A x : Discount(q.discount, x) = Discount(r.discount, x)
  BY DEF Discount
<1>3. Valid(q) = Valid(r)
  BY <1>1 DEF Valid
<1>4. Breakdown(q) = Breakdown(r)
  BY <1>2 DEF Breakdown
<1> QED
  BY <1>3, <1>4 DEF CalculatePrice

\* What the gateway answers for an order read back.
LEMMA AnswerIs ==
    ASSUME NEW dto, Accepted(dto), NEW b, b = Breakdown(ToGrpc(dto)), NEW s \in Range(Statuses),
           NEW a, a = FromGrpc(RowToOrder(Stored(dto, s)))
    PROVE  /\ a.originZone = dto.originZone /\ a.destinationZone = dto.destinationZone
           /\ a.serviceType = dto.serviceType /\ a.insured = dto.insured /\ a.total = b.total
           /\ \A part \in DOMAIN b \ {"ratePerKg", "serviceMultiplier"} : a.breakdown[part] = b[part]
           /\ (\A i \in DOMAIN dto.packages : Whole(dto.packages[i])) => CalculatePrice(ToGrpc(a)) = b
<1>14. PICK w : w = Stored(dto, s)
  OBVIOUS
<1>15. PICK o : o = RowToOrder(w)
  OBVIOUS
<1> DEFINE r == ToGrpc(dto)
           d == dto.discount
           oz == NameOf(o.originZone, Zones, None)
           dz == NameOf(o.destinationZone, Zones, None)
           st == NameOf(o.serviceType, Services, None)
           ss == NameOf(o.status, Statuses, None)
           od == o.discount
           c == IF od = None THEN None ELSE [od EXCEPT !.type = NameOf(@, Discounts, "NONE")]
<1>1. dto \in Body /\ CreateOrderDto(dto) /\ Valid(r)
  BY DEF Accepted
<1>2. /\ dto.originZone \in Range(Zones) /\ dto.destinationZone \in Range(Zones)
      /\ dto.serviceType \in Range(Services) /\ dto.packages \in Seq(PackageBody)
      /\ r.packages = dto.packages /\ r.insured = dto.insured
      /\ r.destinationZone = NumberOf(dto.destinationZone, Zones)
      /\ r.serviceType = NumberOf(dto.serviceType, Services)
  BY <1>1, RequestIs
<1>3. /\ o.originZone = NumberOf(dto.originZone, Zones)
      /\ o.destinationZone = NumberOf(dto.destinationZone, Zones)
      /\ o.serviceType = NumberOf(dto.serviceType, Services)
      /\ o.insured = dto.insured /\ o.total = b.total
      /\ od = (IF d = None \/ d.type = "NONE" THEN None
               ELSE [type |-> NumberOf(d.type, Discounts), value |-> d.value])
      /\ o.packages \in Seq(PackageBody) /\ DOMAIN o.packages = DOMAIN dto.packages
      /\ \A i \in DOMAIN dto.packages : o.packages[i] = PackageOf(PackageRow(dto.packages[i]))
      /\ \A part \in DOMAIN b \ {"ratePerKg", "serviceMultiplier"} : o.breakdown[part] = b[part]
      /\ o = [originZone |-> o.originZone, destinationZone |-> o.destinationZone,
              serviceType |-> o.serviceType, packages |-> o.packages, discount |-> od,
              insured |-> o.insured, status |-> o.status, breakdown |-> o.breakdown, total |-> o.total]
  BY <1>14, <1>15, OrderIs
<1>4. oz = dto.originZone /\ dz = dto.destinationZone /\ st = dto.serviceType
  BY <1>2, <1>3, NamesComeBack
<1>5. a = [o EXCEPT !.originZone = oz, !.destinationZone = dz, !.serviceType = st, !.status = ss, !.discount = c]
  BY <1>14, <1>15 DEF FromGrpc
<1>6. /\ d # None => /\ d.value \in Nat /\ d.type \in {"NONE", "PERCENT", "FIXED"}
                     /\ r.discount # None /\ r.discount.value = d.value
                     /\ d.type = "NONE" => r.discount.type = 0
                     /\ d.type = "PERCENT" => r.discount.type = 1
                     /\ d.type = "FIXED" => r.discount.type = 2
                     /\ r.discount = [type |-> r.discount.type, value |-> d.value]
      /\ d = None => r.discount = None
  BY <1>1, DiscountIs
<1>7. d # None => r.discount = [type |-> NumberOf(d.type, Discounts), value |-> d.value]
  BY <1>1, RequestIs
<1>8. d # None /\ d.type # "NONE" =>
        /\ od = r.discount /\ od # None
        /\ c = [type |-> d.type, value |-> d.value] /\ c # None
        /\ d.type \in Range(Discounts)
  <2> SUFFICES ASSUME d # None, d.type # "NONE"
               PROVE  /\ od = r.discount /\ od # None
                      /\ c = [type |-> d.type, value |-> d.value] /\ c # None
                      /\ d.type \in Range(Discounts)
    OBVIOUS
  <2>1. od = [type |-> NumberOf(d.type, Discounts), value |-> d.value] /\ od = r.discount /\ od # None
    BY <1>3, <1>6, <1>7
  <2>2. d.type \in Range(Discounts) /\ d.type \in STRING /\ d.value \in Int
    <3>1. d.type \in STRING /\ d.value \in Int
      BY <1>1 DEF Body, DiscountBody
    <3> QED
      BY <1>6, <3>1, NameTables
  <2>3. NameOf(NumberOf(d.type, Discounts), Discounts, "NONE") = d.type
    BY <2>2, NamesComeBack
  <2> HIDE DEF od
  <2>4. c = [type |-> d.type, value |-> d.value]
    BY <2>1, <2>3
  <2>5. c \in [type : STRING \cup Int, value : Int]
    BY <2>2, <2>4
  <2> QED
    BY <2>1, <2>2, <2>4, <2>5, NoValueAssumption
<1>9. d = None \/ d.type = "NONE" => c = None
  BY <1>3
<1> HIDE DEF oz, dz, st, ss, od, c, r
<1>10. a = [originZone |-> oz, destinationZone |-> dz, serviceType |-> st, packages |-> o.packages,
            discount |-> c, insured |-> o.insured, status |-> ss, breakdown |-> o.breakdown, total |-> o.total]
  BY <1>3, <1>5
<1>11. /\ a.originZone = oz /\ a.destinationZone = dz /\ a.serviceType = st /\ a.packages = o.packages
       /\ a.discount = c /\ a.insured = o.insured /\ a.total = o.total /\ a.breakdown = o.breakdown
  BY <1>10
<1>12. ASSUME \A i \in DOMAIN dto.packages : Whole(dto.packages[i])
       PROVE  CalculatePrice(ToGrpc(a)) = b
  <2> DEFINE q == ToGrpc(a)
             qd == IF a.discount = None THEN None ELSE [a.discount EXCEPT !.type = NumberOf(@, Discounts)]
  <2>1. /\ \A i \in DOMAIN dto.packages : dto.packages[i] \in PackageBody /\ PackageDto(dto.packages[i])
    <3>1. PackagesOK(dto.packages)
      BY <1>1, <1>2 DEF Valid
    <3>2. \A i \in DOMAIN dto.packages : dto.packages[i] \in PackageBody
      BY <1>2, <3>1, PackagesWeigh
    <3> QED
      BY <1>1, <3>2 DEF CreateOrderDto
  <2>2. \A i \in DOMAIN dto.packages : o.packages[i] = dto.packages[i]
    <3> SUFFICES ASSUME NEW i \in DOMAIN dto.packages PROVE o.packages[i] = dto.packages[i]
      OBVIOUS
    <3>1. dto.packages[i] \in PackageBody /\ PackageDto(dto.packages[i]) /\ Whole(dto.packages[i])
      BY <1>12, <2>1
    <3>2. PackageOf(PackageRow(dto.packages[i])) = dto.packages[i]
      BY <3>1, PackageKept
    <3>3. o.packages[i] = PackageOf(PackageRow(dto.packages[i]))
      BY <1>3
    <3> QED
      BY <3>2, <3>3
  <2>3. o.packages = dto.packages
    <3>1. \A f \in Seq(PackageBody) : DOMAIN f = 1..Len(f) /\ f = [i \in DOMAIN f |-> f[i]]
      OBVIOUS
    <3>2. dto.packages = [i \in DOMAIN dto.packages |-> dto.packages[i]]
      BY <1>2, <3>1
    <3>3. o.packages = [i \in DOMAIN o.packages |-> o.packages[i]]
      BY <1>3, <3>1
    <3> QED
      BY <1>3, <2>2, <3>2, <3>3
  <2>4. q = [a EXCEPT !.originZone = NumberOf(a.originZone, Zones),
                      !.destinationZone = NumberOf(a.destinationZone, Zones),
                      !.serviceType = NumberOf(a.serviceType, Services), !.discount = qd]
    BY DEF ToGrpc
  <2> HIDE DEF qd, q
  <2>5. /\ q.packages = a.packages /\ q.insured = a.insured
        /\ q.destinationZone = NumberOf(a.destinationZone, Zones)
        /\ q.serviceType = NumberOf(a.serviceType, Services) /\ q.discount = qd
    BY <1>10, <2>4
  <2>6. q.packages = r.packages /\ q.insured = r.insured
        /\ q.destinationZone = r.destinationZone /\ q.serviceType = r.serviceType
    BY <1>2, <1>3, <1>4, <1>11, <2>3, <2>5
  <2>7. q.discount = r.discount \/ (~Given(q.discount) /\ ~Given(r.discount))
    <3>1. CASE d = None \/ d.type = "NONE"
      <4>1. qd = None
        BY <1>9, <1>11, <3>1 DEF qd
      <4>2. ~Given(r.discount)
        BY <1>6, <3>1 DEF Given
      <4> QED
        BY <2>5, <4>1, <4>2 DEF Given
    <3>2. CASE d # None /\ d.type # "NONE"
      <4>1. a.discount = [type |-> d.type, value |-> d.value] /\ a.discount # None
        BY <1>8, <1>11, <3>2
      <4>2. qd = [type |-> NumberOf(d.type, Discounts), value |-> d.value]
        BY <4>1 DEF qd
      <4> QED
        BY <1>7, <2>5, <3>2, <4>2
    <3> QED
      BY <3>1, <3>2
  <2>8. CalculatePrice(q) = CalculatePrice(r)
    BY <2>6, <2>7, PriceDependsOn
  <2>9. CalculatePrice(r) = b
    BY <1>1 DEF CalculatePrice, r
  <2> QED
    BY <2>8, <2>9 DEF q
<1> QED
  BY <1>3, <1>4, <1>11, <1>12

LEMMA ReceiptIs ==
    ASSUME NEW dto, Accepted(dto), NEW b, b = Breakdown(ToGrpc(dto)), NEW s \in Range(Statuses),
           NEW t, t = Receipt(RowToOrder(Stored(dto, s)))
    PROVE  Abs(SumFunction([i \in DOMAIN t.lines |-> t.lines[i].amount]) - t.total) <= 2
<1>7. PICK w : w = Stored(dto, s)
  OBVIOUS
<1>8. PICK o : o = RowToOrder(w)
  OBVIOUS
<1> DEFINE p == o.breakdown
<1>1. /\ p.serviceSubtotal = b.serviceSubtotal /\ p.fragileSurcharge = b.fragileSurcharge
      /\ p.insuranceSurcharge = b.insuranceSurcharge /\ p.discountAmount = b.discountAmount
      /\ p.total = b.total /\ ServiceHasLine(p) /\ p \in Price
  <2>1. p \in Price
    BY <1>7, <1>8, OrderIs
  <2>2. ServiceHasLine(p)
    BY <1>7, <1>8, OrderIs
  <2>3. /\ w.weight_cost = b.serviceSubtotal /\ w.fragile_surcharge = b.fragileSurcharge
        /\ w.insurance_cost = b.insuranceSurcharge /\ w.total = b.total
        /\ w.discount_amount = b.discountAmount
    BY <1>7, RowIs
  <2>4. p = StoredBreakdown(w)
    BY <1>8 DEF RowToOrder
  <2> HIDE DEF p
  <2>5. /\ p.serviceSubtotal = w.weight_cost /\ p.fragileSurcharge = w.fragile_surcharge
        /\ p.insuranceSurcharge = w.insurance_cost /\ p.total = w.total
        /\ p.discountAmount = w.discount_amount
    BY <2>4 DEF StoredBreakdown, ServiceSubtotalOf
  <2> QED
    BY <2>1, <2>2, <2>3, <2>5
<1>2. b \in Price /\ Abs(b.serviceSubtotal + b.fragileSurcharge + b.insuranceSurcharge
                         - b.discountAmount - b.total) <= 2
  BY PartsAddUp
<1>3. t.lines = ReceiptLines(p) /\ t.total = p.total
  BY <1>7, <1>8 DEF Receipt
<1> HIDE DEF p
<1>6. Amounts(ReceiptLines(p)) = p.serviceSubtotal + p.fragileSurcharge + p.insuranceSurcharge
                                 - p.discountAmount
  BY <1>1, LinesAddUp
<1>9. Amounts(t.lines) = b.serviceSubtotal + b.fragileSurcharge + b.insuranceSurcharge - b.discountAmount
  BY <1>1, <1>3, <1>6
<1>10. t.total = b.total
  BY <1>1, <1>3
<1>11. SumFunction([i \in DOMAIN t.lines |-> t.lines[i].amount]) = Amounts(t.lines)
  BY DEF Amounts
<1>12. /\ b.serviceSubtotal \in Nat /\ b.fragileSurcharge \in Nat /\ b.insuranceSurcharge \in Nat
       /\ b.discountAmount \in Nat /\ b.total \in Nat
  BY <1>2 DEF Price
<1>13. b.serviceSubtotal + b.fragileSurcharge + b.insuranceSurcharge - b.discountAmount - b.total
       = (b.serviceSubtotal + b.fragileSurcharge + b.insuranceSurcharge - b.discountAmount) - b.total
  BY <1>12
<1> QED
  BY <1>2, <1>9, <1>10, <1>11, <1>13

(***************************************************************************)
(* The inductive invariant: whatever the calls, a price is the breakdown   *)
(* of the body, the rows are those of the order made from it, and answers, *)
(* receipts and the monolith's order come from there.                      *)
(***************************************************************************)
PriceFromBody ==
    /\ body \in Bodies
    /\ created \in {None, Refused} \/ (Accepted(body) /\ created = Breakdown(ToGrpc(body)))
    /\ created = Refused => ~Accepted(body)

RowFromOrder ==
    IF Priced THEN \E s \in Range(Statuses) : row = Stored(body, s) ELSE row = None

AnswersFromRow ==
    /\ read # None => Priced /\ \E s \in Range(Statuses) : read = FromGrpc(RowToOrder(Stored(body, s)))
    /\ receipt # None => Priced /\ \E s \in Range(Statuses) : receipt = Receipt(RowToOrder(Stored(body, s)))

OldFromBody ==
    LET m == ToMonolith(body)
    IN  /\ old = Refused => ~ValidateCreateOrder(m)
        /\ old \notin {None, Refused} =>
             ValidateCreateOrder(m) /\ \E n \in 1..2 : old = [status |-> n, tariff |-> Tariff(m)]

QInv == PriceFromBody /\ RowFromOrder /\ AnswersFromRow /\ OldFromBody

LEMMA AcceptedPrices ==
    ASSUME NEW dto \in Body, NEW price, price = CalculatePrice(ToGrpc(dto)), CreateOrderDto(dto), price # None
    PROVE  Accepted(dto) /\ price = Breakdown(ToGrpc(dto)) /\ price \in Price /\ price \notin {None, Refused}
<1>1. Accepted(dto) /\ price = Breakdown(ToGrpc(dto))
  BY DEF Accepted, CalculatePrice
<1>2. price \in Price
  BY <1>1, PartsAddUp
<1> QED
  BY <1>1, <1>2, NoValueAssumption

LEMMA RefusedNotAccepted ==
    ASSUME NEW dto \in Body, ~(CreateOrderDto(dto) /\ CalculatePrice(ToGrpc(dto)) # None)
    PROVE  ~Accepted(dto)
<1> SUFFICES ASSUME Accepted(dto) PROVE FALSE
  OBVIOUS
<1>1. CreateOrderDto(dto) /\ CalculatePrice(ToGrpc(dto)) = Breakdown(ToGrpc(dto))
  BY DEF Accepted, CalculatePrice
<1>2. Breakdown(ToGrpc(dto)) \in Price
  BY PartsAddUp
<1> QED
  BY <1>1, <1>2, NoValueAssumption

LEMMA QInvInit == Init => QInv
BY NoValueAssumption DEF Init, QInv, PriceFromBody, RowFromOrder, AnswersFromRow, OldFromBody, Priced

LEMMA NewRow ==
    ASSUME NEW dto
    PROVE  RowOf(NewOrder(ToGrpc(dto), Breakdown(ToGrpc(dto)))) = Stored(dto, "ACTIVE")
<1>1. PICK o : o = NewOrder(ToGrpc(dto), Breakdown(ToGrpc(dto)))
  OBVIOUS
<1>2. o.status = 1
  BY <1>1 DEF NewOrder
<1>3. RowOf(o).status = "ACTIVE"
  BY <1>2, NameTables DEF RowOf, NameOf
<1>4. "status" \in DOMAIN RowOf(o) /\ RowOf(o) = [x \in DOMAIN RowOf(o) |-> RowOf(o)[x]]
  BY DEF RowOf
<1>5. [RowOf(o) EXCEPT !.status = "ACTIVE"] = RowOf(o)
  BY <1>3, <1>4
<1> QED
  BY <1>1, <1>5 DEF Stored

LEMMA QInvStep == QInv /\ [Next]_vars => QInv'
<1> SUFFICES ASSUME QInv, [Next]_vars PROVE QInv'
  OBVIOUS
<1>0. body \in Body
  BY BodiesAssumption DEF QInv, PriceFromBody
<1>1. CASE CreateOrder
  <2> DEFINE request == ToGrpc(body)
             price == CalculatePrice(request)
  <2>1. /\ created = None /\ ~Priced /\ row = None /\ read = None /\ receipt = None
        /\ UNCHANGED <<body, read, receipt, old>>
    BY <1>1 DEF CreateOrder, QInv, RowFromOrder, AnswersFromRow, Priced
  <2>2. CASE CreateOrderDto(body) /\ price # None
    <3>1. created' = price /\ row' = RowOf(NewOrder(request, price))
      BY <1>1, <2>2 DEF CreateOrder
    <3>2. Accepted(body) /\ price = Breakdown(request) /\ price \notin {None, Refused}
      BY <1>0, <2>2, AcceptedPrices
    <3>3. row' = Stored(body, "ACTIVE") /\ "ACTIVE" \in Range(Statuses)
      BY <3>1, <3>2, NewRow, NameTables
    <3>4. PriceFromBody'
      BY <2>1, <3>1, <3>2 DEF QInv, PriceFromBody
    <3>5. RowFromOrder'
      BY <2>1, <3>1, <3>2, <3>3 DEF RowFromOrder, Priced
    <3>6. AnswersFromRow' /\ OldFromBody'
      BY <2>1 DEF QInv, AnswersFromRow, OldFromBody
    <3> QED
      BY <3>4, <3>5, <3>6 DEF QInv
  <2>3. CASE ~(CreateOrderDto(body) /\ price # None)
    <3>1. created' = Refused /\ row' = row
      BY <1>1, <2>3 DEF CreateOrder
    <3>2. ~Accepted(body)
      BY <1>0, <2>3, RefusedNotAccepted
    <3>3. PriceFromBody' /\ RowFromOrder' /\ AnswersFromRow' /\ OldFromBody'
      BY <2>1, <3>1, <3>2 DEF QInv, PriceFromBody, RowFromOrder, AnswersFromRow, OldFromBody, Priced
    <3> QED
      BY <3>3 DEF QInv
  <2> QED
    BY <2>2, <2>3
<1>2. CASE GetOrder
  <2>1. UNCHANGED <<body, created, row, receipt, old>> /\ row # None /\ read' = FromGrpc(RowToOrder(row))
    BY <1>2 DEF GetOrder
  <2>2. Priced /\ \E s \in Range(Statuses) : row = Stored(body, s)
    BY <2>1 DEF QInv, RowFromOrder
  <2>3. PriceFromBody' /\ RowFromOrder' /\ OldFromBody'
    BY <2>1 DEF QInv, PriceFromBody, RowFromOrder, OldFromBody, Priced
  <2>4. AnswersFromRow'
    BY <2>1, <2>2 DEF QInv, AnswersFromRow, Priced
  <2> QED
    BY <2>3, <2>4 DEF QInv
<1>3. CASE CancelOrder
  <2> DEFINE order == RowToOrder(row)
             changed == [order EXCEPT !.status = 2]
  <2>1. UNCHANGED <<body, created, read, receipt, old>> /\ row # None /\ row' = Update(row, changed)
    BY <1>3 DEF CancelOrder
  <2>2. Priced
    BY <2>1 DEF QInv, RowFromOrder
  <2>3. PICK s \in Range(Statuses) : row = Stored(body, s)
    BY <2>2 DEF QInv, RowFromOrder
  <2>4. changed.status = 2
    BY DEF RowToOrder
  <2> HIDE DEF changed
  <2>5. row' = [row EXCEPT !.status = "CANCELLED"]
    BY <2>1, <2>4, NameTables DEF Update, NameOf
  <2>6. row' = Stored(body, "CANCELLED") /\ "CANCELLED" \in Range(Statuses)
    BY <2>3, <2>5, StatusChanges, NameTables
  <2>7. RowFromOrder'
    BY <2>1, <2>2, <2>6 DEF RowFromOrder, Priced
  <2>8. PriceFromBody' /\ AnswersFromRow' /\ OldFromBody'
    BY <2>1 DEF QInv, PriceFromBody, AnswersFromRow, OldFromBody, Priced
  <2> QED
    BY <2>7, <2>8 DEF QInv
<1>4. CASE GetReceipt
  <2>1. UNCHANGED <<body, created, row, read, old>> /\ row # None /\ receipt' = Receipt(RowToOrder(row))
    BY <1>4 DEF GetReceipt
  <2>2. Priced /\ \E s \in Range(Statuses) : row = Stored(body, s)
    BY <2>1 DEF QInv, RowFromOrder
  <2>3. PriceFromBody' /\ RowFromOrder' /\ OldFromBody'
    BY <2>1 DEF QInv, PriceFromBody, RowFromOrder, OldFromBody, Priced
  <2>4. AnswersFromRow'
    BY <2>1, <2>2 DEF QInv, AnswersFromRow, Priced
  <2> QED
    BY <2>3, <2>4 DEF QInv
<1>5. CASE OldCreateOrder
  <2> DEFINE m == ToMonolith(body)
  <2>1. /\ UNCHANGED <<body, created, row, read, receipt>>
        /\ old' = IF ValidateCreateOrder(m) THEN [status |-> 1, tariff |-> Tariff(m)] ELSE Refused
    BY <1>5 DEF OldCreateOrder
  <2>2. PriceFromBody' /\ RowFromOrder' /\ AnswersFromRow'
    BY <2>1 DEF QInv, PriceFromBody, RowFromOrder, AnswersFromRow, Priced
  <2>3. OldFromBody'
    <3>1. CASE ValidateCreateOrder(m)
      <4>1. Tariff(m) \in [subtotal : Nat, discount : Nat, total : Nat]
        BY <1>0, <3>1, TariffIs
      <4>2. [status |-> 1, tariff |-> Tariff(m)] \in OldOrder
        BY <4>1 DEF OldOrder
      <4>3. old' = [status |-> 1, tariff |-> Tariff(m)] /\ old' \notin {None, Refused}
        BY <2>1, <3>1, <4>2, NoValueAssumption
      <4> QED
        BY <2>1, <3>1, <4>3 DEF OldFromBody
    <3>2. CASE ~ValidateCreateOrder(m)
      BY <2>1, <3>2 DEF OldFromBody
    <3> QED
      BY <3>1, <3>2
  <2> QED
    BY <2>2, <2>3 DEF QInv
<1>6. CASE OldCancelOrder
  <2>1. /\ UNCHANGED <<body, created, row, read, receipt>>
        /\ old \notin {None, Refused} /\ old' = [old EXCEPT !.status = 2]
    BY <1>6 DEF OldCancelOrder
  <2> DEFINE m == ToMonolith(body)
  <2>2. PriceFromBody' /\ RowFromOrder' /\ AnswersFromRow'
    BY <2>1 DEF QInv, PriceFromBody, RowFromOrder, AnswersFromRow, Priced
  <2>3. ValidateCreateOrder(m) /\ \E n \in 1..2 : old = [status |-> n, tariff |-> Tariff(m)]
    BY <2>1 DEF QInv, OldFromBody
  <2>4. old' = [status |-> 2, tariff |-> Tariff(m)]
    BY <2>1, <2>3
  <2>5. old' \notin {None, Refused}
    <3>1. Tariff(m) \in [subtotal : Nat, discount : Nat, total : Nat]
      BY <1>0, <2>3, TariffIs
    <3>2. [status |-> 2, tariff |-> Tariff(m)] \in OldOrder
      BY <3>1 DEF OldOrder
    <3> QED
      BY <2>4, <3>2, NoValueAssumption
  <2>6. OldFromBody'
    BY <2>1, <2>3, <2>4, <2>5 DEF OldFromBody
  <2> QED
    BY <2>2, <2>6 DEF QInv
<1>7. CASE UNCHANGED vars
  BY <1>7 DEF vars, QInv, PriceFromBody, RowFromOrder, AnswersFromRow, OldFromBody, Priced
<1> QED
  BY <1>1, <1>2, <1>3, <1>4, <1>5, <1>6, <1>7 DEF Next

LEMMA QInvAlways == Spec => []QInv
BY QInvInit, QInvStep, PTL DEF Spec

(***************************************************************************)
(* The properties of Quotes, for every set of bodies                       *)
(***************************************************************************)
LEMMA QInvIsEnough ==
    ASSUME QInv
    PROVE  /\ created \in Price \cup {None, Refused}
           /\ Priced => Accepted(body) /\ created = Breakdown(ToGrpc(body)) /\ created \in Price
<1>1. CASE created \in {None, Refused}
  BY <1>1 DEF Priced
<1>2. CASE created \notin {None, Refused}
  <2>1. Accepted(body) /\ created = Breakdown(ToGrpc(body))
    BY <1>2 DEF QInv, PriceFromBody
  <2>2. created \in Price
    BY <2>1, PartsAddUp
  <2> QED
    BY <2>1, <2>2
<1> QED
  BY <1>1, <1>2

\* Whatever bodies clients send and however calls follow each other, every answer,
\* row and tariff holds natural numbers of cents under the names the tables know,
\* and an order has rows exactly if its creation was answered with a price.
THEOREM QuotesWellTyped == Spec => []QuoteTypeOK
<1>1. QInv => QuoteTypeOK
  <2> SUFFICES ASSUME QInv PROVE QuoteTypeOK
    OBVIOUS
  <2>1. body \in Bodies /\ body \in Body
    BY BodiesAssumption DEF QInv, PriceFromBody
  <2>2. created \in Price \cup {None, Refused}
    BY QInvIsEnough
  <2>3. row \in Rows \cup {None} /\ ((row # None) = Priced)
    <3>1. CASE Priced
      <4>1. Accepted(body) /\ \E s \in Range(Statuses) : row = Stored(body, s)
        BY <3>1, QInvIsEnough DEF QInv, RowFromOrder
      <4>2. PICK s \in Range(Statuses) : row = Stored(body, s)
        BY <4>1
      <4>4. row \in Rows
        BY <4>1, <4>2, StoredInRows
      <4> QED
        BY <3>1, <4>4, NoValueAssumption
    <3>2. CASE ~Priced
      BY <3>2 DEF QInv, RowFromOrder, Priced
    <3> QED
      BY <3>1, <3>2
  <2>4. old \in OldOrder \cup {None, Refused}
    <3> SUFFICES ASSUME old \notin {None, Refused} PROVE old \in OldOrder
      OBVIOUS
    <3> DEFINE m == ToMonolith(body)
    <3>1. ValidateCreateOrder(m) /\ \E n \in 1..2 : old = [status |-> n, tariff |-> Tariff(m)]
      BY DEF QInv, OldFromBody
    <3>2. Tariff(m) \in [subtotal : Nat, discount : Nat, total : Nat]
      BY <2>1, <3>1, TariffIs
    <3> QED
      BY <3>1, <3>2 DEF OldOrder
  <2>5. read # None \/ receipt # None => row # None
    BY <2>3 DEF QInv, AnswersFromRow
  <2> QED
    BY <2>1, <2>2, <2>3, <2>4, <2>5 DEF QuoteTypeOK
<1> QED
  BY <1>1, QInvAlways, PTL

\* The parts of every price add up to its total, to the cent of each rounding,
\* and a discount never takes more than there is (pricing.calculator.ts:79-97).
THEOREM PartsMakeTheTotal == Spec => []BreakdownAddsUp
<1>1. QInv => BreakdownAddsUp
  BY QInvIsEnough, PartsAddUp DEF BreakdownAddsUp
<1> QED
  BY <1>1, QInvAlways, PTL

\* No order costs more than the form announced, whatever its packages
\* (CreateOrder.tsx:92-102 against the pricing service).
THEOREM EstimateIsNeverShort == Spec => []EstimateIsEnough
<1>1. QInv => EstimateIsEnough
  BY QInvIsEnough, EstimateCovers DEF EstimateIsEnough
<1> QED
  BY <1>1, QInvAlways, PTL

\* No order that passes the gateway is carried for nothing, although pricing
\* takes a zone it does not know for one without a rate (rate.calculator.ts:14).
THEOREM NothingIsCarriedForFree == Spec => []EveryShipmentIsCharged
<1>1. QInv => EveryShipmentIsCharged
  BY QInvIsEnough, PartsAddUp DEF EveryShipmentIsCharged
<1> QED
  BY <1>1, QInvAlways, PTL

\* The services accept what the monolith accepts, at its price up to 2 cents:
\* rounding every step or only the end makes no greater difference, however
\* many packages there are.
THEOREM ServicesPriceLikeTheMonolith == Spec => []MonolithAgrees
<1>1. QInv => MonolithAgrees
  <2> SUFFICES ASSUME QInv, CreateOrderDto(body), created # None, old # None
               PROVE  /\ (created = Refused) = (old = Refused)
                      /\ Priced => Abs(created.total - old.tariff.total) <= 2
    BY DEF MonolithAgrees
  <2> DEFINE m == ToMonolith(body)
  <2>1. body \in Body
    BY BodiesAssumption DEF QInv, PriceFromBody
  <2>2. Valid(ToGrpc(body)) <=> ValidateCreateOrder(m)
    BY <2>1, SameAcceptance
  <2>3. /\ old = Refused => ~ValidateCreateOrder(m)
        /\ old # Refused => ValidateCreateOrder(m) /\ \E n \in 1..2 : old = [status |-> n, tariff |-> Tariff(m)]
    BY DEF QInv, OldFromBody
  <2>4. /\ created = Refused => ~Accepted(body)
        /\ created # Refused => Accepted(body) /\ created = Breakdown(ToGrpc(body))
    BY DEF QInv, PriceFromBody
  <2>5. Accepted(body) <=> Valid(ToGrpc(body))
    BY <2>1 DEF Accepted
  <2>6. (created = Refused) = (old = Refused)
    BY <2>2, <2>3, <2>4, <2>5
  <2>7. ASSUME Priced PROVE Abs(created.total - old.tariff.total) <= 2
    <3>1. created # Refused /\ old # Refused
      BY <2>6, <2>7 DEF Priced
    <3>2. Accepted(body) /\ created = Breakdown(ToGrpc(body)) /\ ValidateCreateOrder(m)
      BY <2>3, <2>4, <3>1
    <3>3. old.tariff = Tariff(m)
      BY <2>3, <3>1
    <3>4. Abs(created.total - Tariff(m).total) <= 2
      BY <3>2, SamePrice
    <3> QED
      BY <3>3, <3>4
  <2> QED
    BY <2>6, <2>7
<1> QED
  BY <1>1, QInvAlways, PTL

\* An order read back from its rows, cancelled or not, is the order the client
\* made at the price the client was told, and where the columns are wide enough
\* for its packages, pricing it again gives that price.
THEOREM ReadBackUnchanged == Spec => []ReadOrderIsTheOne
<1>1. QInv => ReadOrderIsTheOne
  <2> SUFFICES ASSUME QInv, read # None PROVE ReadOrderIsTheOne
    BY DEF ReadOrderIsTheOne
  <2>1. Priced /\ \E s \in Range(Statuses) : read = FromGrpc(RowToOrder(Stored(body, s)))
    BY DEF QInv, AnswersFromRow
  <2>2. PICK s \in Range(Statuses) : read = FromGrpc(RowToOrder(Stored(body, s)))
    BY <2>1
  <2>3. Accepted(body) /\ created = Breakdown(ToGrpc(body))
    BY <2>1, QInvIsEnough
  <2>4. /\ read.originZone = body.originZone /\ read.destinationZone = body.destinationZone
        /\ read.serviceType = body.serviceType /\ read.insured = body.insured /\ read.total = created.total
        /\ \A part \in DOMAIN created \ {"ratePerKg", "serviceMultiplier"} :
              read.breakdown[part] = created[part]
        /\ (\A i \in DOMAIN body.packages : Whole(body.packages[i])) => CalculatePrice(ToGrpc(read)) = created
    BY <2>2, <2>3, AnswerIs
  <2> QED
    BY <2>4 DEF ReadOrderIsTheOne
<1> QED
  BY <1>1, QInvAlways, PTL

\* The lines of every receipt add up to its total, although the multiplier that
\* decides which lines are printed is not stored (receipt.generator.ts:67).
THEOREM LinesMakeTheTotal == Spec => []ReceiptAddsUp
<1>1. QInv => ReceiptAddsUp
  <2> SUFFICES ASSUME QInv, receipt # None PROVE ReceiptAddsUp
    BY DEF ReceiptAddsUp
  <2>1. Priced /\ \E s \in Range(Statuses) : receipt = Receipt(RowToOrder(Stored(body, s)))
    BY DEF QInv, AnswersFromRow
  <2>2. PICK s \in Range(Statuses) : receipt = Receipt(RowToOrder(Stored(body, s)))
    BY <2>1
  <2>3. Accepted(body) /\ created = Breakdown(ToGrpc(body))
    BY <2>1, QInvIsEnough
  <2>4. Abs(SumFunction([i \in DOMAIN receipt.lines |-> receipt.lines[i].amount]) - receipt.total) <= 2
    BY <2>2, <2>3, ReceiptIs
  <2> QED
    BY <2>4 DEF ReceiptAddsUp
<1> QED
  BY <1>1, QInvAlways, PTL
===============================================================================
