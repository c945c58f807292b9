------------------------------- MODULE Orders --------------------------------
(***************************************************************************)
(* The orders service of QuetzalShip (services/orders): the replicas of    *)
(* OrderService behind OrderController, each with its own in-memory        *)
(* idempotency store, over one shared SQL Server database.                 *)
(*                                                                         *)
(* A call is one gRPC request.  Its handler runs in steps that end where   *)
(* the code awaits the pricing service or the database, and the steps of   *)
(* concurrent calls interleave.  A replica may crash at any step: it comes *)
(* back with an empty idempotency store and its calls are lost.            *)
(***************************************************************************)
EXTENDS Integers, FiniteSets

CONSTANTS
    Replica,       \* processes of the orders deployment
    Call,          \* gRPC calls; each is made at most once
    OrderId,       \* values the generated order id can take
    Key,           \* idempotency keys
    Payload,       \* what a create request asks to ship (told apart by SHA-256)
    ValidPayload,  \* the payloads the pricing service accepts
    NumPackages,   \* packages of an order
    TTL,           \* lifetime of an idempotency entry, in ticks of the clock
    MaxNow,        \* bound on the clock
    MaxCrashes,    \* bound on the crashes of one replica
    None           \* absent row, entry, key, answer

VARIABLES
    now,          \* the wall clock
    incarnation,  \* incarnation[r]: how often replica r has restarted
    store,        \* store[r][k]: idempotency entry of key k at r, or None
    orders,       \* orders[o]: committed row of table orders, or None
    packages,     \* packages[o]: committed rows of table packages of o
    pc,           \* pc[c]: the await the handler of c is suspended at
    req,          \* req[c]: the request of c
    proc,         \* proc[c]: the process <<replica, incarnation>> running c
    made,         \* made[c]: the order id c generated
    inserted,     \* inserted[c]: packages inserted by the open transaction of c
    copy,         \* copy[c]: the row findById read for c
    ans           \* ans[c]: the answer of c

database == <<orders, packages>>
vars == <<now, incarnation, store, orders, packages,
          pc, req, proc, made, inserted, copy, ans>>

(***************************************************************************)
(* Data                                                                    *)
(***************************************************************************)
Status == {"ACTIVE", "CANCELLED"}

CreateRequest == [op : {"create"}, key : Key \cup {None},
                  payload : Payload, order : {None}]
\* "read" stands for GetOrder and GetOrderForReceipt, which run the same code.
LookupRequest == [op : {"cancel", "read"}, key : {None},
                  payload : {None}, order : OrderId]
Request == CreateRequest \cup LookupRequest

\* creator is not a column: it records which call inserted the row.
Row == [payload : Payload, status : Status, creator : Call]

Response == [order : OrderId, payload : Payload]
Entry == [payload : Payload, response : Response, createdAt : Nat]

Code == {"OK", "INVALID_ARGUMENT", "ALREADY_EXISTS", "NOT_FOUND",
         "FAILED_PRECONDITION", "UNAVAILABLE", "UNKNOWN"}
Answer == [code : Code, order : OrderId \cup {None}, payload : Payload \cup {None},
           status : Status \cup {None}, packages : Nat, at : Nat]

Location == {"idle", "pricing", "saving", "inserting", "committed", "finding",
             "loading", "updating", "updated", "answered", "lost"}
InFlight == Location \ {"idle", "answered", "lost"}

ASSUME NoneAssumption ==
    None \notin Row \cup Entry \cup OrderId \cup Key \cup Payload \cup Answer
                \cup Status \cup Request \cup (Replica \X Nat)
ASSUME SizeAssumption ==
    /\ NumPackages \in Nat \ {0}
    /\ TTL \in Nat /\ MaxNow \in Nat /\ MaxCrashes \in Nat
ASSUME PayloadAssumption == ValidPayload \subseteq Payload

(***************************************************************************)
(* Answers                                                                 *)
(***************************************************************************)
Success(o, p, s, n) ==
    [code |-> "OK", order |-> o, payload |-> p, status |-> s, packages |-> n, at |-> now]

Failure(code) ==
    [code |-> code, order |-> None, payload |-> None, status |-> None,
     packages |-> 0, at |-> now]

\* Only createOrder awaits the service inside its try block: what the other
\* handlers throw leaves as a rejected promise, and the framework answers a
\* rejection that is not an RpcException without a code.
OnWire(op, code) == IF op = "create" THEN code ELSE "UNKNOWN"

Finish(c, a) ==
    /\ pc' = [pc EXCEPT ![c] = "answered"]
    /\ ans' = [ans EXCEPT ![c] = a]

Throw(c, code) == Finish(c, Failure(OnWire(req[c].op, code)))

Goto(c, l) == pc' = [pc EXCEPT ![c] = l] /\ UNCHANGED ans

(***************************************************************************)
(* The idempotency store                                                   *)
(***************************************************************************)
\* Mutant: the entry is dropped one tick early.
LiveStrictly(r, k) ==
    /\ store[r][k] # None
    /\ now - store[r][k].createdAt < TTL

Live(r, k) ==
    /\ store[r][k] # None
    /\ now - store[r][k].createdAt <= TTL

Hit(r, q) == q.key # None /\ Live(r, q.key)

\* Mutant: the stored hash is not compared.
AnyPayload(r, q) == TRUE

SamePayload(r, q) == store[r][q.key].payload = q.payload

\* get() deletes the expired entry it finds.
Forget(r, k) == store' = [store EXCEPT ![r][k] = None]

Remember(c) ==
    LET entry == [payload   |-> req[c].payload,
                  response  |-> [order |-> made[c], payload |-> req[c].payload],
                  createdAt |-> now]
    IN  store' = [store EXCEPT ![proc[c][1]][req[c].key] = entry]

(***************************************************************************)
(* A call reaches a replica: the code that runs before its first await     *)
(***************************************************************************)
Arrive(c, r, q) ==
    /\ pc[c] = "idle"
    /\ req' = [req EXCEPT ![c] = q]
    /\ proc' = [proc EXCEPT ![c] = <<r, incarnation[r]>>]
    /\ UNCHANGED <<now, incarnation, database, made, inserted, copy>>

\* createOrder with no live entry for its key: it goes on to price the order.
Admit(c, r, q) ==
    /\ Arrive(c, r, q)
    /\ q.op = "create"
    /\ ~Hit(r, q)
    /\ IF q.key = None THEN UNCHANGED store ELSE Forget(r, q.key)
    /\ Goto(c, "pricing")

\* createOrder repeated with the same payload: the stored response.
Replay(c, r, q) ==
    /\ Arrive(c, r, q)
    /\ q.op = "create"
    /\ Hit(r, q)
    /\ SamePayload(r, q)
    /\ LET response == store[r][q.key].response
       IN  Finish(c, Success(response.order, response.payload, "ACTIVE", NumPackages))
    /\ UNCHANGED store

\* createOrder with a key that was used for another payload.
RefuseReuse(c, r, q) ==
    /\ Arrive(c, r, q)
    /\ q.op = "create"
    /\ Hit(r, q)
    /\ ~SamePayload(r, q)
    /\ Finish(c, Failure(OnWire(q.op, "ALREADY_EXISTS")))
    /\ UNCHANGED store

\* cancelOrder, getOrder and getOrderForReceipt start with findById.
StartLookup(c, r, q) ==
    /\ Arrive(c, r, q)
    /\ q.op \in {"cancel", "read"}
    /\ Goto(c, "finding")
    /\ UNCHANGED store

\* The call never reaches a replica: no connection to the service.
Drop(c) ==
    /\ pc[c] = "idle"
    /\ Goto(c, "lost")
    /\ UNCHANGED <<now, incarnation, store, database, req, proc, made, inserted, copy>>

Receive(c, r, q) ==
    Admit(c, r, q) \/ Replay(c, r, q) \/ RefuseReuse(c, r, q) \/ StartLookup(c, r, q)

(***************************************************************************)
(* createOrder after its awaits                                            *)
(***************************************************************************)
\* The pricing service accepts the request; the handler generates an order id,
\* which nothing keeps from being the id of another order, and awaits begin().
Priced(c) ==
    /\ pc[c] = "pricing"
    /\ req[c].payload \in ValidPayload
    /\ \E o \in OrderId : made' = [made EXCEPT ![c] = o]
    /\ Goto(c, "saving")
    /\ UNCHANGED <<now, incarnation, store, database, req, proc, inserted, copy>>

PricingRefuses(c) ==
    /\ pc[c] = "pricing"
    /\ req[c].payload \notin ValidPayload
    /\ Throw(c, "INVALID_ARGUMENT")
    /\ UNCHANGED <<now, incarnation, store, database, req, proc, made, inserted, copy>>

PricingFails(c) ==
    /\ pc[c] = "pricing"
    /\ Throw(c, "UNAVAILABLE")
    /\ UNCHANGED <<now, incarnation, store, database, req, proc, made, inserted, copy>>

\* Mutant: the INSERT runs outside the transaction.
InsertOrderUnguarded(c) ==
    /\ pc[c] = "saving"
    /\ orders[made[c]] = None
    /\ orders' = [orders EXCEPT ![made[c]] =
                    [payload |-> req[c].payload, status |-> "ACTIVE", creator |-> c]]
    /\ inserted' = [inserted EXCEPT ![c] = 0]
    /\ Goto(c, "inserting")
    /\ UNCHANGED <<now, incarnation, store, packages, req, proc, made, copy>>

\* Mutant: the response is stored before the order is saved.
InsertOrderRemembered(c) ==
    /\ pc[c] = "saving"
    /\ orders[made[c]] = None
    /\ \A d \in Call : pc[d] = "inserting" => made[d] # made[c]
    /\ inserted' = [inserted EXCEPT ![c] = 0]
    /\ IF req[c].key = None THEN UNCHANGED store ELSE Remember(c)
    /\ Goto(c, "inserting")
    /\ UNCHANGED <<now, incarnation, database, req, proc, made, copy>>

\* INSERT INTO orders.  The primary key makes it wait for an open transaction
\* that inserted the same id.
InsertOrder(c) ==
    /\ pc[c] = "saving"
    /\ orders[made[c]] = None
    /\ \A d \in Call : pc[d] = "inserting" => made[d] # made[c]
    /\ inserted' = [inserted EXCEPT ![c] = 0]
    /\ Goto(c, "inserting")
    /\ UNCHANGED <<now, incarnation, store, database, req, proc, made, copy>>

\* INSERT INTO orders of an id that a committed row already has.
InsertDuplicate(c) ==
    /\ pc[c] = "saving"
    /\ orders[made[c]] # None
    /\ Throw(c, "UNKNOWN")
    /\ UNCHANGED <<now, incarnation, store, database, req, proc, made, inserted, copy>>

\* Mutant: the loop over the packages runs once too often.
InsertPackageTooOften(c) ==
    /\ pc[c] = "inserting"
    /\ inserted[c] <= NumPackages
    /\ inserted' = [inserted EXCEPT ![c] = @ + 1]
    /\ UNCHANGED <<now, incarnation, store, database, pc, req, proc, made, copy, ans>>

InsertPackage(c) ==
    /\ pc[c] = "inserting"
    /\ inserted[c] < NumPackages
    /\ inserted' = [inserted EXCEPT ![c] = @ + 1]
    /\ UNCHANGED <<now, incarnation, store, database, pc, req, proc, made, copy, ans>>

\* The database commits; the handler has not resumed yet.
Commit(c) ==
    /\ pc[c] = "inserting"
    /\ inserted[c] = NumPackages
    /\ orders' = [orders EXCEPT ![made[c]] =
                    [payload |-> req[c].payload, status |-> "ACTIVE", creator |-> c]]
    /\ packages' = [packages EXCEPT ![made[c]] = inserted[c]]
    /\ Goto(c, "committed")
    /\ UNCHANGED <<now, incarnation, store, req, proc, made, inserted, copy>>

\* Mutant: the handler tries again with a new id when the save fails.
SaveFailsRetried(c) ==
    /\ pc[c] \in {"saving", "inserting", "committed"}
    /\ Goto(c, "pricing")
    /\ UNCHANGED <<now, incarnation, store, database, req, proc, made, inserted, copy>>

\* Mutant: a failed save is reported as a service that could not be reached.
SaveFailsUnavailable(c) ==
    /\ pc[c] \in {"saving", "inserting", "committed"}
    /\ Throw(c, "UNAVAILABLE")
    /\ UNCHANGED <<now, incarnation, store, database, req, proc, made, inserted, copy>>

\* A statement fails and the transaction is rolled back, or the commit happened
\* but its acknowledgement does not come back: the handler cannot tell.
SaveFails(c) ==
    /\ pc[c] \in {"saving", "inserting", "committed"}
    /\ Throw(c, "UNKNOWN")
    /\ UNCHANGED <<now, incarnation, store, database, req, proc, made, inserted, copy>>

FinishCreate(c) ==
    /\ pc[c] = "committed"
    /\ IF req[c].key = None THEN UNCHANGED store ELSE Remember(c)
    /\ Finish(c, Success(made[c], req[c].payload, "ACTIVE", NumPackages))
    /\ UNCHANGED <<now, incarnation, database, req, proc, made, inserted, copy>>

(***************************************************************************)
(* findById, then getOrder, getOrderForReceipt or cancelOrder.  A query    *)
(* sees what is committed when it is answered.                             *)
(***************************************************************************)
FindNothing(c) ==
    /\ pc[c] = "finding"
    /\ orders[req[c].order] = None
    /\ Throw(c, "NOT_FOUND")
    /\ UNCHANGED <<now, incarnation, store, database, req, proc, made, inserted, copy>>

FindRow(c) ==
    /\ pc[c] = "finding"
    /\ orders[req[c].order] # None
    /\ copy' = [copy EXCEPT ![c] = orders[req[c].order]]
    /\ Goto(c, "loading")
    /\ UNCHANGED <<now, incarnation, store, database, req, proc, made, inserted>>

\* The second query of findById reads the packages, and the handler goes on
\* with the copy of the row that the first query read.
AnswerRead(c) ==
    /\ pc[c] = "loading"
    /\ req[c].op = "read"
    /\ Finish(c, Success(req[c].order, copy[c].payload, copy[c].status,
                         packages[req[c].order]))
    /\ UNCHANGED <<now, incarnation, store, database, req, proc, made, inserted, copy>>

RefuseCancel(c) ==
    /\ pc[c] = "loading"
    /\ req[c].op = "cancel"
    /\ copy[c].status = "CANCELLED"
    /\ Throw(c, "FAILED_PRECONDITION")
    /\ UNCHANGED <<now, incarnation, store, database, req, proc, made, inserted, copy>>

\* Mutant: the update is not awaited, and fails after the answer.
StartUpdateUnawaited(c) ==
    /\ pc[c] = "loading"
    /\ req[c].op = "cancel"
    /\ copy[c].status # "CANCELLED"
    /\ Finish(c, Success(req[c].order, None, "CANCELLED", 0))
    /\ UNCHANGED <<now, incarnation, store, database, req, proc, made, inserted, copy>>

\* Mutant: the status that was read is not looked at.
StartUpdateUnchecked(c) ==
    /\ pc[c] = "loading"
    /\ req[c].op = "cancel"
    /\ Goto(c, "updating")
    /\ UNCHANGED <<now, incarnation, store, database, req, proc, made, inserted, copy>>

StartUpdate(c) ==
    /\ pc[c] = "loading"
    /\ req[c].op = "cancel"
    /\ copy[c].status # "CANCELLED"
    /\ Goto(c, "updating")
    /\ UNCHANGED <<now, incarnation, store, database, req, proc, made, inserted, copy>>

\* UPDATE orders SET status, whatever the status of the row is by now.
ApplyUpdate(c) ==
    /\ pc[c] = "updating"
    /\ orders' = [orders EXCEPT ![req[c].order].status = "CANCELLED"]
    /\ Goto(c, "updated")
    /\ UNCHANGED <<now, incarnation, store, packages, req, proc, made, inserted, copy>>

FinishCancel(c) ==
    /\ pc[c] = "updated"
    /\ Finish(c, Success(req[c].order, None, "CANCELLED", 0))
    /\ UNCHANGED <<now, incarnation, store, database, req, proc, made, inserted, copy>>

\* A query fails, or the UPDATE was applied but the handler does not learn it.
LookupFails(c) ==
    /\ pc[c] \in {"finding", "loading", "updating", "updated"}
    /\ Throw(c, "UNKNOWN")
    /\ UNCHANGED <<now, incarnation, store, database, req, proc, made, inserted, copy>>

(***************************************************************************)
(* The environment                                                         *)
(***************************************************************************)
\* The process of replica r dies and is restarted: the store is empty, open
\* transactions are rolled back, the calls in flight get no answer.
Crash(r) ==
    /\ incarnation[r] < MaxCrashes
    /\ incarnation' = [incarnation EXCEPT ![r] = @ + 1]
    /\ store' = [store EXCEPT ![r] = [k \in Key |-> None]]
    /\ pc' = [c \in Call |->
                IF pc[c] \in InFlight /\ proc[c] = <<r, incarnation[r]>>
                THEN "lost" ELSE pc[c]]
    /\ UNCHANGED <<now, database, req, proc, made, inserted, copy, ans>>

Tick ==
    /\ now < MaxNow
    /\ now' = now + 1
    /\ UNCHANGED <<incarnation, store, database, pc, req, proc, made, inserted, copy, ans>>

(***************************************************************************)
(* The specification                                                       *)
(***************************************************************************)
Init ==
    /\ now = 0
    /\ incarnation = [r \in Replica |-> 0]
    /\ store = [r \in Replica |-> [k \in Key |-> None]]
    /\ orders = [o \in OrderId |-> None]
    /\ packages = [o \in OrderId |-> 0]
    /\ pc = [c \in Call |-> "idle"]
    /\ req = [c \in Call |-> None]
    /\ proc = [c \in Call |-> None]
    /\ made = [c \in Call |-> None]
    /\ inserted = [c \in Call |-> 0]
    /\ copy = [c \in Call |-> None]
    /\ ans = [c \in Call |-> None]

\* The steps a handler takes when everything it awaits answers.
Handle(c) ==
    \/ Priced(c) \/ PricingRefuses(c)
    \/ InsertOrder(c) \/ InsertDuplicate(c) \/ InsertPackage(c) \/ Commit(c)
    \/ FinishCreate(c)
    \/ FindNothing(c) \/ FindRow(c) \/ AnswerRead(c)
    \/ RefuseCancel(c) \/ StartUpdate(c) \/ ApplyUpdate(c) \/ FinishCancel(c)

Fail(c) == PricingFails(c) \/ SaveFails(c) \/ LookupFails(c)

Environment == Tick \/ \E r \in Replica : Crash(r)

Next ==
    \/ \E c \in Call, r \in Replica, q \in Request : Receive(c, r, q)
    \/ \E c \in Call : Drop(c) \/ Handle(c) \/ Fail(c)
    \/ Environment

Spec == Init /\ [][Next]_vars

(***************************************************************************)
(* Correctness                                                             *)
(***************************************************************************)
\* The shape of the state: what the handlers of services/orders keep in memory,
\* in the idempotency store and in the two tables.
TypeOK ==
    /\ now \in 0..MaxNow
    /\ incarnation \in [Replica -> 0..MaxCrashes]
    /\ store \in [Replica -> [Key -> Entry \cup {None}]]
    /\ orders \in [OrderId -> Row \cup {None}]
    /\ packages \in [OrderId -> 0..NumPackages]
    /\ pc \in [Call -> Location]
    /\ req \in [Call -> Request \cup {None}]
    /\ proc \in [Call -> (Replica \X Nat) \cup {None}]
    /\ made \in [Call -> OrderId \cup {None}]
    /\ inserted \in [Call -> 0..NumPackages]
    /\ copy \in [Call -> Row \cup {None}]
    /\ ans \in [Call -> Answer \cup {None}]

IsCreate(c) == req[c] # None /\ req[c].op = "create"
Answered(c, code) == ans[c] # None /\ ans[c].code = code
Created(c) == {o \in OrderId : orders[o] # None /\ orders[o].creator = c}

\* The MSSQL save is one transaction: whatever fails or crashes while the rows
\* are inserted one by one, an order is never visible without all its packages,
\* and no read answers with fewer.
SaveIsAtomic ==
    /\ \A o \in OrderId :
            packages[o] = IF orders[o] = None THEN 0 ELSE NumPackages
    /\ \A c \in Call :
            req[c] # None /\ req[c].op = "read" /\ Answered(c, "OK")
                => ans[c].packages = NumPackages

\* createOrder inserts at most one order per gRPC call, also when the save fails
\* after its commit.
OneOrderPerCall == \A c \in Call : Cardinality(Created(c)) <= 1

\* An idempotency entry is only ever written for an order that is in the
\* database, by the process that still runs, for the key and payload the order
\* was created with: nothing that rolled back can be replayed.
Backed(e, r, k) ==
    /\ orders[e.response.order] # None
    /\ orders[e.response.order].payload = e.payload
    /\ e.response.payload = e.payload
    /\ req[orders[e.response.order].creator].key = k
    /\ proc[orders[e.response.order].creator] = <<r, incarnation[r]>>

EntriesAreTruthful ==
    \A r \in Replica, k \in Key : store[r][k] # None => Backed(store[r][k], r, k)

\* A create call answered OK names an order that is saved and ships what this
\* call asked for: its own, or, when it carried a key, the one that the same
\* process made for the same key.
MadeFor(c, o) ==
    /\ orders[o] # None
    /\ orders[o].payload = req[c].payload
    /\ \/ orders[o].creator = c
       \/ /\ req[c].key # None
          /\ req[orders[o].creator].key = req[c].key
          /\ proc[orders[o].creator] = proc[c]

CreateAnswersAreTruthful ==
    \A c \in Call : IsCreate(c) /\ Answered(c, "OK") =>
        MadeFor(c, ans[c].order) /\ ans[c].payload = req[c].payload

\* A create call answered with a code that tells the caller what was wrong (bad
\* payload, key in use, pricing unreachable) left no order behind; only the
\* codeless failure of a save may have.
RefusalsAreTruthful ==
    \A c \in Call :
        /\ IsCreate(c)
        /\ \E code \in {"INVALID_ARGUMENT", "ALREADY_EXISTS", "UNAVAILABLE"} : Answered(c, code)
        => Created(c) = {}

\* Idempotency as the store really gives it: a create call that is admitted for
\* pricing has not been answered before, for its key, by the same process within
\* the lifetime of the entry, however the calls that made the entry raced.
Original(d) == IsCreate(d) /\ Answered(d, "OK") /\ ans[d].order = made[d]

RetryFindsOriginal ==
    [][\A c, d \in Call :
        /\ pc[c] = "idle" /\ pc'[c] = "pricing"
        /\ Original(d) /\ req[d].key # None
        /\ req'[c].key = req[d].key /\ proc'[c] = proc[d]
        => now - ans[d].at > TTL]_vars

\* The orders table and the answers behave as the order book: orders are placed
\* once, change only from active to cancelled, are never erased or overwritten,
\* and every answer is true when it is given.
Book == INSTANCE OrderBook WITH
    book <- [o \in OrderId |->
                IF orders[o] = None THEN None
                ELSE [payload |-> orders[o].payload, status |-> orders[o].status]],
    told <- [c \in Call |->
                IF Answered(c, "OK")
                THEN [order |-> ans[c].order, payload |-> ans[c].payload,
                      status |-> ans[c].status]
                ELSE None]

ImplementsOrderBook == Book!Spec

ASSUME BookAssumption == None \notin Book!BookRow \cup Book!Claim

(***************************************************************************)
(* What the documentation says and the code does not do                    *)
(***************************************************************************)
\* README.md, "Idempotencia": a second call with the same key gets the cached
\* result (within 24 hours).  Stated for any replica.
SecondCallIsCached ==
    [][\A c, d \in Call :
        /\ pc[c] = "idle" /\ pc'[c] = "pricing"
        /\ Original(d) /\ req[d].key # None
        /\ req'[c].key = req[d].key
        => now - ans[d].at > TTL]_vars

\* services/orders/readme.md, cancelOrder: only active orders can be cancelled.
\* Each order has at most one successful cancellation.
CancelledOnce ==
    \A c, d \in Call :
        /\ Answered(c, "OK") /\ req[c].op = "cancel"
        /\ Answered(d, "OK") /\ req[d].op = "cancel"
        /\ req[c].order = req[d].order
        => c = d
=============================================================================
