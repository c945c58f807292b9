------------------------------ MODULE OrderBook ------------------------------
(***************************************************************************)
(* What the orders service promises, without replicas, transactions,       *)
(* idempotency keys or failures: a book of orders that are placed once,    *)
(* cancelled at most once and never erased, and answers that are true of   *)
(* the book when they are given.                                           *)
(***************************************************************************)
CONSTANTS OrderId,  \* identifiers an order can have
          Payload,  \* what a client can ask to ship
          Call,     \* calls that can be answered
          None      \* no order, no payload, no answer yet

VARIABLES book,  \* book[o]: the order named o, or None
          told   \* told[c]: the claim made to call c, or None

bookVars == <<book, told>>

Status == {"ACTIVE", "CANCELLED"}
BookRow == [payload : Payload, status : Status]

\* What a successful answer says: this order exists, ships this payload (None
\* when the answer does not say), and has this status.
Claim == [order : OrderId, payload : Payload \cup {None}, status : Status]

\* "Active" may be out of date when it is read, "cancelled" never is.
Holds(f) ==
    /\ book[f.order] # None
    /\ f.payload # None => f.payload = book[f.order].payload
    /\ f.status = "CANCELLED" => book[f.order].status = "CANCELLED"

Init ==
    /\ book = [o \in OrderId |-> None]
    /\ told = [c \in Call |-> None]

Place(o, p) ==
    /\ book[o] = None
    /\ book' = [book EXCEPT ![o] = [payload |-> p, status |-> "ACTIVE"]]
    /\ UNCHANGED told

Cancel(o) ==
    /\ book[o] # None
    /\ book[o].status = "ACTIVE"
    /\ book' = [book EXCEPT ![o].status = "CANCELLED"]
    /\ UNCHANGED told

Tell(c, f) ==
    /\ told[c] = None
    /\ Holds(f)
    /\ told' = [told EXCEPT ![c] = f]
    /\ UNCHANGED book

Next ==
    \/ \E o \in OrderId, p \in Payload : Place(o, p)
    \/ \E o \in OrderId : Cancel(o)
    \/ \E c \in Call, f \in Claim : Tell(c, f)

Spec == Init /\ [][Next]_bookVars
=============================================================================
