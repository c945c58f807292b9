-------------------------------- MODULE Quotes --------------------------------
(***************************************************************************)
(* One order on its way through the services: the gateway checks the body  *)
(* and translates it, the orders service has it priced and writes its      *)
(* rows, and later calls read the rows back, change the status or print a  *)
(* receipt.  Beside it the monolith is asked for the same order.           *)
(*                                                                         *)
(* Calls are single steps here (what happens between the steps of a call   *)
(* is the subject of Orders and OrderFlow): what is checked is that the    *)
(* numbers survive the conversions between the parts, in any order of      *)
(* calls.                                                                  *)
(***************************************************************************)
EXTENDS OrderRecord, Tariff

CONSTANTS
    Bodies,   \* the bodies a client may send
    Refused   \* an answer without a price

\* An order of the monolith.
OldOrder == [status : 1..2, tariff : [subtotal : Nat, discount : Nat, total : Nat]]

ASSUME BodiesAssumption == Bodies \subseteq Body
ASSUME NoValueAssumption ==
    /\ None # Refused
    /\ \A v \in {None, Refused} : v \notin Price \cup Rows \cup OldOrder
    /\ None \notin STRING \cup Int \cup [type : STRING \cup Int, value : Int]

VARIABLES
    body,     \* what the client sends
    created,  \* the answer to POST /v1/orders: a breakdown, Refused or None
    row,      \* the rows of the order, or None
    read,     \* the last answer to GET /v1/orders/{id}, or None
    receipt,  \* the last receipt, or None
    old       \* the monolith's order, Refused or None

vars == <<body, created, row, read, receipt, old>>

\* The same order in the monolith's terms.
ToMonolith(dto) ==
    LET request == ToGrpc(dto)
    IN  [request EXCEPT !.discount = IF request.discount = None THEN [type |-> 1, value |-> 0]
                                     ELSE [request.discount EXCEPT !.type = @ + 1]]

\* What the form announces while the order is filled in, in 1/2000000 Q.
ZoneHalves(zone) == CASE zone = "INTERIOR" -> 3 [] zone = "FRONTERA" -> 4 [] OTHER -> 2
ServiceTwentieths(service) ==
    CASE service = "EXPRESS" -> 27 [] service = "SAME_DAY" -> 36 [] OTHER -> 20

\* Mutant: fragility and insurance are left out.
WeightEstimate(p, dto) ==
    BillableWeight(p) * 75 * ZoneHalves(dto.destinationZone) * ServiceTwentieths(dto.serviceType)

PackageEstimate(p, dto) ==
    BillableWeight(p) * 75 * ZoneHalves(dto.destinationZone) * ServiceTwentieths(dto.serviceType)
    + (IF p.fragile THEN 7 * Quetzal ELSE 0)
    + (IF dto.insured THEN (Larger(0, p.declared) * Cent) \div 40 ELSE 0)

Estimate(dto) ==
    LET total == SumFunction([i \in DOMAIN dto.packages |->
                                PackageEstimate(dto.packages[i], dto)])
        d     == dto.discount
    IN  Larger(0, CASE d # None /\ d.type = "PERCENT" -> total - Percent(Smaller(d.value, MaxPercent), total)
                    [] d # None /\ d.type = "FIXED" -> total - d.value * Cent
                    [] OTHER -> total)

CreateOrder ==
    LET request == ToGrpc(body)
        price   == CalculatePrice(request)
    IN  /\ created = None
        /\ IF CreateOrderDto(body) /\ price # None
           THEN /\ created' = price
                /\ row' = RowOf(NewOrder(request, price))
           ELSE created' = Refused /\ UNCHANGED row
        /\ UNCHANGED <<body, read, receipt, old>>

GetOrder ==
    /\ row # None
    /\ read' = FromGrpc(RowToOrder(row))
    /\ UNCHANGED <<body, created, row, receipt, old>>

CancelOrder ==
    LET order == RowToOrder(row)
    IN  /\ row # None
        /\ order.status # 2
        /\ row' = Update(row, [order EXCEPT !.status = 2])
        /\ UNCHANGED <<body, created, read, receipt, old>>

GetReceipt ==
    /\ row # None
    /\ receipt' = Receipt(RowToOrder(row))
    /\ UNCHANGED <<body, created, row, read, old>>

OldCreateOrder ==
    LET request == ToMonolith(body)
    IN  /\ old = None
        /\ old' = IF ValidateCreateOrder(request)
                  THEN [status |-> 1, tariff |-> Tariff(request)]
                  ELSE Refused
        /\ UNCHANGED <<body, created, row, read, receipt>>

OldCancelOrder ==
    /\ old \notin {None, Refused}
    /\ old.status # 2
    /\ old' = [old EXCEPT !.status = 2]
    /\ UNCHANGED <<body, created, row, read, receipt>>

Init ==
    /\ body \in Bodies
    /\ created = None /\ row = None /\ read = None /\ receipt = None /\ old = None

Next == CreateOrder \/ GetOrder \/ CancelOrder \/ GetReceipt \/ OldCreateOrder \/ OldCancelOrder

Spec == Init /\ [][Next]_vars

(***************************************************************************)
(* Correctness                                                             *)
(***************************************************************************)
Abs(x) == IF x < 0 THEN 0 - x ELSE x
Priced == created \notin {None, Refused}

\* Every amount of a price, a row and a tariff is a natural number of cents, and
\* the status is one the tables may hold; an order has rows exactly if its
\* creation was answered with a price, and no answer exists without the rows.
QuoteTypeOK ==
    /\ body \in Bodies
    /\ created \in Price \cup {None, Refused}
    /\ row \in Rows \cup {None}
    /\ old \in OldOrder \cup {None, Refused}
    /\ (row # None) = Priced
    /\ read # None \/ receipt # None => row # None

\* Every part of a price is rounded on its own (pricing.calculator.ts:79-97);
\* what the client adds up is still the total, to the cent of each rounding.
BreakdownAddsUp ==
    Priced =>
        /\ Abs(created.serviceSubtotal + created.fragileSurcharge + created.insuranceSurcharge
               - created.subtotalWithSurcharges) <= 1
        /\ Abs(created.subtotalWithSurcharges - created.discountAmount - created.total) <= 1
        /\ created.discountAmount \in 0..created.subtotalWithSurcharges
        /\ created.total \in 0..created.subtotalWithSurcharges

\* The form prices with rates of its own (CreateOrder.tsx:92-102) and takes the
\* discount where the service takes it; no order costs more than it announced.
EstimateIsEnough == Priced => created.total * Cent <= Estimate(body) + Cent

\* Pricing charges nothing for a zone it does not know (rate.calculator.ts:14)
\* and accepts it; no order that passes the gateway is carried for nothing.
EveryShipmentIsCharged == Priced => created.baseSubtotal > 0

\* The services accept the orders that the monolith accepts among those that
\* pass the gateway, at the same price up to what rounding at every step or only
\* at the end can differ.
MonolithAgrees ==
    CreateOrderDto(body) /\ created # None /\ old # None =>
        /\ (created = Refused) = (old = Refused)
        /\ Priced => Abs(created.total - old.tariff.total) <= 2

Whole(p) == p.weight % 100 = 0 /\ p.height % 2 = 0

\* An order read back from its rows, cancelled or not, is the order the client
\* made, at the price the client was told; where the columns are wide enough for
\* its packages, pricing it again gives that price.
ReadOrderIsTheOne ==
    read # None =>
        /\ read.originZone = body.originZone /\ read.destinationZone = body.destinationZone
        /\ read.serviceType = body.serviceType /\ read.insured = body.insured
        /\ read.total = created.total
        /\ \A part \in DOMAIN created \ {"ratePerKg", "serviceMultiplier"} :
              read.breakdown[part] = created[part]
        /\ (\A i \in DOMAIN body.packages : Whole(body.packages[i])) =>
              CalculatePrice(ToGrpc(read)) = created

\* The lines of a receipt add up to its total, although the receipt service gets
\* orders without their multiplier (mssql-order.repository.ts:370-371) and decides
\* by the multiplier which lines to print (receipt.generator.ts:67).
ReceiptAddsUp ==
    receipt # None =>
        Abs(SumFunction([i \in DOMAIN receipt.lines |-> receipt.lines[i].amount])
            - receipt.total) <= 2
=============================================================================
