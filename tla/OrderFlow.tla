------------------------------ MODULE OrderFlow ------------------------------
(***************************************************************************)
(* The gateway and the orders service together: what an HTTP client of     *)
(* QuetzalShip sees.  Every attempt of a request is a gRPC call of its     *)
(* own.  The gateway stops waiting for a call when it times out, but       *)
(* nothing stops the call: it may be delivered late, and its handler runs  *)
(* on beside the next attempt.                                             *)
(***************************************************************************)
EXTENDS Gateway, FiniteSets

CONSTANTS
    Replica, OrderId, Key, Payload, ValidPayload, NumPackages,
    TTL, MaxNow, MaxCrashes  \* see Orders

VARIABLES
    now, incarnation, store, orders, packages,
    pc, req, proc, made, inserted, copy, ans,  \* see Orders
    known  \* known[g]: what clients had been told when g was made (history)

Call == Client \X Attempt

Service == INSTANCE Orders

serviceVars == <<now, incarnation, store, orders, packages,
                 pc, req, proc, made, inserted, copy, ans>>
flowVars == <<gatewayVars, serviceVars, known>>

Current(g) == <<g, attempt[g]["orders"]>>

\* GetOrder and GetOrderForReceipt are the same call to the service.
ServiceRequest(w) == IF w.op = "receipt" THEN [w EXCEPT !.op = "read"] ELSE w

ASSUME ServiceAssumption ==
    /\ Service!NoneAssumption /\ Service!SizeAssumption
    /\ Service!PayloadAssumption /\ Service!BookAssumption
ASSUME WishAssumption ==
    Wish \subseteq Service!CreateRequest \cup
        [op : {"cancel", "read", "receipt"}, key : {None}, payload : {None}, order : OrderId]

\* What the clients that have their answer know of the orders.
Told ==
    {[order |-> body[h].order, status |-> body[h].status] :
        h \in {i \in Client : http[i] = 200}}

Submit(g, w) ==
    /\ Begin(g, w)
    /\ known' = [known EXCEPT ![g] = Told]
    /\ UNCHANGED serviceVars

\* The message of an attempt that was sent reaches a replica, at any time.
Deliver(g, a, r) ==
    /\ a <= attempt[g]["orders"]
    /\ Service!Receive(<<g, a>>, r, ServiceRequest(wish[g]))
    /\ UNCHANGED <<gatewayVars, known>>

\* The connection is refused: the attempt never reaches a replica.
Refuse(g) ==
    /\ phase[g] = "waiting" /\ stage[g] = "orders"
    /\ Service!Drop(Current(g))
    /\ UNCHANGED <<gatewayVars, known>>

Serve ==
    /\ \/ \E c \in Call : Service!Handle(c) \/ Service!Fail(c)
       \/ Service!Environment
    /\ UNCHANGED <<gatewayVars, known>>

\* The answer to the current attempt comes in.
Reply(g) ==
    /\ phase[g] = "waiting" /\ stage[g] = "orders"
    /\ pc[Current(g)] = "answered"
    /\ IF ans[Current(g)].code = "OK"
       THEN GotOrder(g, ans[Current(g)])
       ELSE GotError(g, ans[Current(g)].code)
    /\ UNCHANGED <<serviceVars, known>>

\* The replica died, or could not be reached.
Disconnect(g) ==
    /\ phase[g] = "waiting" /\ stage[g] = "orders"
    /\ pc[Current(g)] = "lost"
    /\ GotError(g, "UNAVAILABLE")
    /\ UNCHANGED <<serviceVars, known>>

\* The receipt service keeps no state: it answers, or it cannot be reached.
ReceiptReply(g) ==
    /\ stage[g] = "receipt"
    /\ GotReceipt(g) \/ GotError(g, "UNAVAILABLE")
    /\ UNCHANGED <<serviceVars, known>>

GiveUp(g) ==
    /\ TimeOut(g)
    /\ UNCHANGED <<serviceVars, known>>

Retry(g) ==
    /\ Resend(g)
    /\ UNCHANGED <<serviceVars, known>>

Init ==
    /\ GatewayInit
    /\ Service!Init
    /\ known = [g \in Client |-> {}]

Next ==
    \/ \E g \in Client, w \in Wish : Submit(g, w)
    \/ \E g \in Client, a \in Attempt, r \in Replica : Deliver(g, a, r)
    \/ \E g \in Client :
        Refuse(g) \/ Reply(g) \/ Disconnect(g) \/ ReceiptReply(g) \/ GiveUp(g) \/ Retry(g)
    \/ Serve

Spec == Init /\ [][Next]_flowVars

\* The timers of the gateway fire: nothing is assumed of the services.
Fairness ==
    \A g \in Client : WF_flowVars(GiveUp(g)) /\ WF_flowVars(Retry(g))

FairSpec == Spec /\ Fairness

(***************************************************************************)
(* Correctness                                                             *)
(***************************************************************************)
\* The shape of the state of the gateway and of the service behind it.
FlowTypeOK ==
    /\ GatewayTypeOK
    /\ Service!TypeOK
    /\ body \in [Client -> Service!Answer \cup {None}]
    /\ known \in [Client -> SUBSET [order : OrderId, status : Service!Status]]

Calls(g) == {<<g, a>> : a \in Attempt}
OrdersOf(g) == {o \in OrderId : orders[o] # None /\ orders[o].creator \in Calls(g)}
Wants(g, op) == wish[g] # None /\ wish[g].op = op

\* What the gateway answers with 200 is true of the database: a created order is
\* saved, ships what the client asked for and was made for this request or for
\* its key; a cancelled order is cancelled; an order that is shown, or written
\* on a receipt, is the one asked for, with all its packages.
OkIsTrue ==
    \A g \in Client : http[g] = 200 =>
        LET row == orders[body[g].order] IN
        /\ row # None
        /\ body[g].status = "CANCELLED" => row.status = "CANCELLED"
        /\ Wants(g, "create") =>
              /\ row.payload = wish[g].payload
              /\ \/ row.creator \in Calls(g)
                 \/ wish[g].key # None /\ req[row.creator].key = wish[g].key
        /\ Wants(g, "cancel") => body[g].status = "CANCELLED"
        /\ ~Wants(g, "create") => body[g].order = wish[g].order
        /\ Wants(g, "read") \/ Wants(g, "receipt") =>
              body[g].packages = NumPackages /\ body[g].payload = row.payload

\* A client that is told 400 has no order in the database, not even one that a
\* late attempt of its request would still insert.
BadRequestMeansNothing ==
    \A g \in Client : http[g] = 400 =>
        /\ OrdersOf(g) = {}
        /\ \A c \in Calls(g) : pc[c] \notin {"saving", "inserting", "committed"}

\* A request inserts a second order only for an attempt whose outcome the
\* gateway did not learn: it timed out, or failed without a code.
Refused(c) ==
    \E code \in {"INVALID_ARGUMENT", "ALREADY_EXISTS", "UNAVAILABLE"} :
        Service!Answered(c, code)

DuplicatesAreUncertain ==
    \A g \in Client :
        Cardinality(OrdersOf(g)) <=
            1 + Cardinality({a \in Attempt :
                    a < attempt[g]["orders"] /\ ~Refused(<<g, a>>)})

\* A request made after some client was told that an order is cancelled never
\* shows the order as active, and never cancels it again, on whatever replica
\* it runs and however many attempts it takes.
CancellationIsSeen ==
    \A g \in Client : http[g] = 200 /\ ~Wants(g, "create") =>
        ([order |-> wish[g].order, status |-> "CANCELLED"] \in known[g]
            => body[g].status = "CANCELLED" /\ ~Wants(g, "cancel"))

\* Every HTTP request is answered, whatever becomes of the services: the time
\* limit of each call and the bound on the retries at each service are enough
\* (timeout and retry in GatewayService).
EveryRequestEnds == \A g \in Client : phase[g] = "waiting" ~> phase[g] = "done"

\* The entries of the orders service serve the retries of the gateway: an attempt
\* that reaches the process that has answered another attempt, or request, with
\* its key is not priced and saved again before the entry's time is up, however
\* the attempts raced, were given up or delivered late.
AttemptsFindOriginal == Service!RetryFindsOriginal

(***************************************************************************)
(* What the documentation says and the code does not do                    *)
(***************************************************************************)
\* services/orders/readme.md, "Reintento de Cliente": a create with a key that is
\* repeated after a timeout gets the stored response, so the request makes one
\* order.  Stated for requests none of whose attempts failed.
RetryAfterTimeoutFindsKey ==
    \A g \in Client :
        /\ Wants(g, "create") /\ wish[g].key # None
        /\ \A c \in Calls(g) : ~Service!Answered(c, "UNKNOWN")
        => Cardinality(OrdersOf(g)) <= 1
=============================================================================
