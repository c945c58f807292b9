----------------------------- MODULE OrderRecord ------------------------------
(***************************************************************************)
(* The forms an order takes on its way: the body of the HTTP request (with *)
(* names for zones, services and discounts), the gRPC message (numbers),   *)
(* the rows of the tables orders and packages (strings and DECIMAL(10,2)), *)
(* the order read back from them, and the receipt printed from that.       *)
(* Units are those of Pricing; percentages are whole.                      *)
(***************************************************************************)
EXTENDS Pricing

Zones == <<"METRO", "INTERIOR", "FRONTERA">>
Services == <<"STANDARD", "EXPRESS", "SAME_DAY">>
Discounts == <<"PERCENT", "FIXED">>
Statuses == <<"ACTIVE", "CANCELLED">>

\* The number of a name, and the name of a number; 0 and other for unknown ones.
NumberOf(name, names) ==
    IF name \in Range(names) THEN CHOOSE i \in DOMAIN names : names[i] = name ELSE 0
NameOf(number, names, other) == IF number \in DOMAIN names THEN names[number] ELSE other

(***************************************************************************)
(* The gateway: what it lets through, and what it makes of it              *)
(***************************************************************************)
\* The types of a body, which are checked before its values.
PackageBody ==
    [weight : Int, height : Int, width : Int, length : Int, fragile : BOOLEAN, declared : Int]
DiscountBody == [type : STRING, value : Int]
Body ==
    [originZone : STRING, destinationZone : STRING, serviceType : STRING,
     packages : Seq(PackageBody), discount : DiscountBody \cup {None}, insured : BOOLEAN]

PackageDto(p) ==
    /\ p.weight >= 100                                    \* Min(0.01) kg
    /\ p.height > 0 /\ p.width > 0 /\ p.length > 0        \* Min(0.01) cm
    /\ p.declared >= 0

DiscountDto(d) == d.type \in {"NONE"} \cup Range(Discounts) /\ d.value >= 0

\* Mutant: the destination is not checked.
OriginNamed(dto) == dto.originZone \in Range(Zones)

ZonesNamed(dto) == {dto.originZone, dto.destinationZone} \subseteq Range(Zones)

CreateOrderDto(dto) ==
    /\ ZonesNamed(dto)
    /\ dto.serviceType \in Range(Services)
    /\ dto.packages # <<>> /\ \A i \in DOMAIN dto.packages : PackageDto(dto.packages[i])
    /\ dto.discount # None => DiscountDto(dto.discount)

ToGrpc(dto) ==
    [dto EXCEPT !.originZone = NumberOf(dto.originZone, Zones),
                !.destinationZone = NumberOf(dto.destinationZone, Zones),
                !.serviceType = NumberOf(dto.serviceType, Services),
                !.discount = IF dto.discount = None THEN None
                             ELSE [dto.discount EXCEPT !.type = NumberOf(@, Discounts)]]

FromGrpc(order) ==
    [order EXCEPT !.originZone = NameOf(order.originZone, Zones, None),
                  !.destinationZone = NameOf(order.destinationZone, Zones, None),
                  !.serviceType = NameOf(order.serviceType, Services, None),
                  !.status = NameOf(order.status, Statuses, None),
                  !.discount = IF order.discount = None THEN None
                               ELSE [order.discount EXCEPT !.type = NameOf(@, Discounts, "NONE")]]

(***************************************************************************)
(* The rows.  Weights are stored in units of 10 g; the sides of a package  *)
(* are INT columns, and the driver cuts off what follows the point.        *)
(***************************************************************************)
NewOrder(request, price) ==
    [originZone |-> request.originZone, destinationZone |-> request.destinationZone,
     serviceType |-> request.serviceType, packages |-> request.packages,
     discount |-> request.discount, insured |-> request.insured,
     status |-> 1, breakdown |-> price, total |-> price.total]

\* The columns.
PackageRows ==
    [weight_kg : Nat, height_cm : Nat, width_cm : Nat, length_cm : Nat,
     fragile : BOOLEAN, declared_value_q : Nat]
Rows ==
    [origin_zone : STRING, destination_zone : STRING, service_type : STRING,
     status : Range(Statuses), total_weight_kg : Nat, base_cost : Nat, weight_cost : Nat,
     fragile_surcharge : Nat, insurance_cost : Nat, subtotal : Nat, total : Nat,
     discount_type : STRING \cup {None}, discount_value : Nat \cup {None},
     discount_amount : Nat, insurance_enabled : BOOLEAN, packages : Seq(PackageRows)]

PackageRow(p) ==
    [weight_kg |-> Round(p.weight, 100),
     height_cm |-> p.height \div 2, width_cm |-> p.width, length_cm |-> p.length,
     fragile |-> p.fragile, declared_value_q |-> p.declared]

RowOf(order) ==
    [origin_zone |-> NameOf(order.originZone, Zones, "UNSPECIFIED"),
     destination_zone |-> NameOf(order.destinationZone, Zones, "UNSPECIFIED"),
     service_type |-> NameOf(order.serviceType, Services, "UNSPECIFIED"),
     status |-> NameOf(order.status, Statuses, "UNSPECIFIED"),
     total_weight_kg |-> order.breakdown.orderBillableKg,
     base_cost |-> order.breakdown.baseSubtotal,
     weight_cost |-> order.breakdown.serviceSubtotal,
     fragile_surcharge |-> order.breakdown.fragileSurcharge,
     insurance_cost |-> order.breakdown.insuranceSurcharge,
     subtotal |-> order.breakdown.subtotalWithSurcharges,
     total |-> order.breakdown.total,
     discount_type |-> IF order.discount = None THEN None
                       ELSE NameOf(order.discount.type, Discounts, "NONE"),
     discount_value |-> IF order.discount = None \/ order.discount.value = 0 THEN None
                        ELSE order.discount.value,
     discount_amount |-> order.breakdown.discountAmount,
     insurance_enabled |-> order.insured,
     packages |-> [i \in DOMAIN order.packages |-> PackageRow(order.packages[i])]]

PackageOf(row) ==
    [weight |-> 100 * row.weight_kg,
     height |-> 2 * row.height_cm, width |-> row.width_cm, length |-> row.length_cm,
     fragile |-> row.fragile, declared |-> row.declared_value_q]

\* Mutant: the cost after the multiplier is read from the column before it.
BaseCost(row) == row.base_cost

ServiceSubtotalOf(row) == row.weight_cost

\* The rate and the multiplier have no column.
StoredBreakdown(row) ==
    [orderBillableKg |-> row.total_weight_kg,
     baseSubtotal |-> row.base_cost, serviceSubtotal |-> ServiceSubtotalOf(row),
     fragileSurcharge |-> row.fragile_surcharge, insuranceSurcharge |-> row.insurance_cost,
     subtotalWithSurcharges |-> row.subtotal, discountAmount |-> row.discount_amount,
     total |-> row.total, ratePerKg |-> 0, serviceMultiplier |-> 0,
     fragilePackagesCount |-> Cardinality({i \in DOMAIN row.packages : row.packages[i].fragile}),
     declaredValueTotal |->
        SumFunction([i \in DOMAIN row.packages |-> row.packages[i].declared_value_q])]

RowToOrder(row) ==
    [originZone |-> NumberOf(row.origin_zone, Zones),
     destinationZone |-> NumberOf(row.destination_zone, Zones),
     serviceType |-> NumberOf(row.service_type, Services),
     packages |-> [i \in DOMAIN row.packages |-> PackageOf(row.packages[i])],
     discount |-> IF row.discount_type \in {None, "NONE"} THEN None
                  ELSE [type |-> NumberOf(row.discount_type, Discounts),
                        value |-> IF row.discount_value = None THEN 0 ELSE row.discount_value],
     insured |-> row.insurance_enabled,
     status |-> NumberOf(row.status, Statuses),
     breakdown |-> StoredBreakdown(row), total |-> row.total]

\* Mutant: the status has no name of its own.
UpdateUnnamed(row, order) == [row EXCEPT !.status = "PENDING"]

\* UPDATE orders: of a changed order, only the status is written.
Update(row, order) == [row EXCEPT !.status = NameOf(order.status, Statuses, "UNSPECIFIED")]

(***************************************************************************)
(* The receipt                                                             *)
(***************************************************************************)
Line(of, amount) == [of |-> of, amount |-> amount]

\* Mutant: the service has a line only if it raises the price.
ServiceRaises(b) == b.serviceMultiplier > 20

\* A multiplier of 1 (20 twentieths) has no line of its own.
ServiceHasLine(b) == b.serviceMultiplier # 20

ReceiptLines(b) ==
    <<Line("weight", b.baseSubtotal)>>
    \o (IF ServiceHasLine(b)
        THEN <<Line("service", b.serviceSubtotal - b.baseSubtotal)>> ELSE <<>>)
    \o (IF b.fragileSurcharge > 0 THEN <<Line("fragile", b.fragileSurcharge)>> ELSE <<>>)
    \o (IF b.insuranceSurcharge > 0 THEN <<Line("insurance", b.insuranceSurcharge)>> ELSE <<>>)
    \o (IF b.discountAmount > 0 THEN <<Line("discount", 0 - b.discountAmount)>> ELSE <<>>)

StatusNames == <<"Activa", "Cancelada">>

Receipt(order) ==
    [status |-> NameOf(order.status, StatusNames, "No especificado"),
     originZone |-> NameOf(order.originZone, Zones, "No especificado"),
     destinationZone |-> NameOf(order.destinationZone, Zones, "No especificado"),
     serviceType |-> NameOf(order.serviceType, Services, "No especificado"),
     packagesCount |-> Len(order.packages),
     lines |-> ReceiptLines(order.breakdown),
     subtotal |-> order.breakdown.subtotalWithSurcharges,
     discount |-> order.breakdown.discountAmount,
     total |-> order.breakdown.total,
     declaredValue |-> order.breakdown.declaredValueTotal]
=============================================================================
