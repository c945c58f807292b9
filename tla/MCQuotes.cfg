\* Every body, each with every order of the calls that follow.
SPECIFICATION Spec
CONSTANTS
    None = None
    Refused = Refused
    Bodies <- MCBodies
INVARIANTS QuoteTypeOK BreakdownAddsUp EstimateIsEnough EveryShipmentIsCharged MonolithAgrees ReadOrderIsTheOne ReceiptAddsUp
\* Cancelled orders stay as they are.
CHECK_DEADLOCK FALSE
