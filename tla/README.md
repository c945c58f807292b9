# QuetzalShip, specified in TLA+

This directory holds a verification project for QuetzalShip, the shipping-order
platform in `src/`: TLA+ modules translated from the TypeScript services, TLC
configurations that check them on small instances, and TLAPS proofs that hold
for every instance. Paths below are relative to `src/`.

## 1. The system

QuetzalShip started as a NestJS monolith (`backend/`) and is now a set of
services that run on Kubernetes behind an HTTP gateway and talk gRPC.

| Component | State it keeps | Operations | Talks to |
|---|---|---|---|
| **Orders service** `services/orders` (2 replicas) | per process: a `Map` of idempotency entries with a time to live; shared: tables `orders`, `packages` | `CreateOrder`, `GetOrder`, `ListOrders`, `CancelOrder`, `GetOrderForReceipt` | pricing (gRPC), SQL Server |
| **Order repository, MSSQL** | the two tables | `save` (a transaction: the order, then each package), `findById`, `update`, `listOrders`, `findAll` | SQL Server |
| Order repository, in memory | a `Map` | the same, without I/O | none (development only) |
| **API gateway, orders** `services/gateway` | none between requests | HTTP create, list, get, cancel, receipt | orders and receipt (gRPC), each call with a time limit (10 s by default, 2 s as deployed) and `retry(2)` |
| **API gateway, FX** | none | HTTP convert, rate, rates | FX service, with `timeout(5000)`, no retry, and its own default rates |
| **Pricing service** `services/pricing` | none | `CalculatePrice` | none |
| **Receipt service** `services/receipt` | none | `GenerateReceipt` | none |
| **FX service** `services/fx` (2 replicas) | per process: two circuit breakers, a health flag per provider, the state of the Redis connection; shared: Redis | `GetExchangeRate`, `Convert`, `GetRates`, `HealthCheck` | Redis, two HTTP providers |
| **Web frontend** `services/frontend` | React state of the open page: the list's page, rows and total; the form's fields, estimate and conversion; the receipt; the converter's tabs and results | create, list, detail, cancel, receipt, convert | gateway (HTTP, without a time limit) |
| Legacy monolith `backend` | in-memory orders | the same order operations, its own validators and tariff calculator, lists by token | none |
| Deployment and observability `k8s`, `docker` | none of its own | replicas, time limits, log pipeline | none |

### What is hard in it

Each Node process runs one continuation at a time, so every hazard sits at an
`await`, at a process boundary, or at a time limit:

* **Orders.** The idempotency check (`order.service.ts:70`) and the write of the
  entry (`:147`) are separated by the pricing call and the save. The status check of a
  cancellation (`:209`) and its `UPDATE` are separated by an await, and the
  `UPDATE` is unconditional. A save inserts packages one await at a time; the
  process may die, or the acknowledgement of the commit may be lost, in between.
  Entries live in one process; there are two, and each forgets on restart.
* **Gateway.** `timeout` stops the waiting, not the call. `retry` repeats any
  error, a refusal as well as a time-out, so attempts overlap and the last
  error hides what an earlier attempt did. A receipt is made from a copy of the
  order that another request may cancel meanwhile.
* **FX.** An attempt that the breaker times out is not aborted; its HTTP request
  is answered while another attempt waits. Breakers trip and recover between
  the attempts of a call. Redis may come and go between a read and a write, and a command
  to it has no time limit (`cache.service.ts:28`): a call waits for Redis twice. The
  time limits of three layers (axios, breaker, gateway) overlap.
* **Lists.** The count and the page are two queries without a transaction. Pages
  are cut by a time that is taken before the order is stored and may be equal
  for two orders. The monolith's token is an offset into a list that grows at
  its head.
* **Pricing and the row.** Each part of a price is rounded on its own; the
  monolith rounds at every step. Weights, sides and rates lose digits, or are lost,
  in the columns, and the receipt is computed from what is left.
* **Frontend.** A fetch is neither aborted nor given a time limit, so loads and
  conversions overlap and are answered in any order. The reload after a cancellation
  belongs to the render of the click (`OrderList.tsx:49`) and asks for the page of
  then. The timer that opens the page of a new order is never cleared.

`PROJECT.json` lists these hazards at their lines, with the properties that
would catch them. Some are not dangers but facts of the code (an older answer may be the last, a field is lost): their notes say which property
sets them apart, and what it shows of the rest.

### What makes each part correct

* Orders: a save is all or nothing; a call makes at most one order; an entry only
  ever stands for a committed order of the living process; a success names a
  saved order that ships what was asked; a refusal with a reason left nothing
  behind; orders go from active to cancelled and never back; a retry finds the original
  until its entry's time is up.
* Gateway: a 200 is true, a 400 left nothing behind, duplicates are possible only
  after an outcome the gateway did not learn, a cancellation someone was told
  of is seen by every later request, every request is answered.
* FX: an answer names its true source and currency; a rate from the cache is
  young; open breakers shield their provider; the cascade ends with the best
  alternative that works, in a time that only Redis can prolong.
* Pricing: the parts of a price add up to the cent of each rounding, no accepted
  order is carried for nothing, the form never announces less than is charged, and
  the services accept and charge what the monolith did.
* The row and the receipt: what is read back is the order that was made, at the
  price that was told; the lines of a receipt add up.
* Lists: who walks through the pages misses no order that was there all along.
* Frontend: what a page shows once it is quiet belongs to what is selected, a
  cancellation is shown, every created order is visited, no spinner stays.

## 2. The modules

| Module | Models | Extends |
|---|---|---|
| `OrderBook` | abstract specification of the orders service: a book of orders and the claims made about it | |
| `Orders` | orders service and MSSQL repository on several replicas | |
| `Orders_proofs` | the inductive invariant of `Orders`, theorems from it, and the proof that `Orders` implements `OrderBook` | `Orders` |
| `Orders_answers` | what the answers to single calls mean; a retry finds the original | `Orders_proofs` |
| `Gateway` | one gateway request handler: time limit, retries, error mapping | |
| `OrderFlow` | gateway in front of the orders service | `Gateway`, instance of `Orders` |
| `OrderFlow_proofs` | theorems about what the gateway answers | `OrderFlow`, instance of `Orders_answers` |
| `FxService` | FX service, Redis, providers, with a clock | |
| `FxFlow` | gateway in front of the FX service | `FxService` |
| `Fx_proofs` | theorems about the FX service and about what a client of the gateway is shown | `FxFlow`, `Sums` |
| `Pricing` | the pricing service, a function of the request | |
| `Tariff` | validators and calculators of the monolith | `Pricing` |
| `OrderRecord` | the forms of an order: HTTP body, gRPC message, rows, receipt | `Pricing` |
| `Quotes` | one order on its way through form, gateway, pricing, tables and receipt, beside the monolith | `OrderRecord`, `Tariff` |
| `Quotes_proofs` | theorems about the numbers, for all bodies | `Quotes`, `Sums` |
| `Sums` | lemmas: induction that first-order provers can use, sums over finite sets | |
| `OrderListing` | the list call over each repository and the list page of the frontend; the monolith's tokens | |
| `FxViews` | the form, the receipt and the converter of the frontend | |
| `OrderPage` | the page of one order, under changes of its address | |
| `Clients` | the frontend with one page open | `OrderListing`, `FxViews`, `OrderPage` |
| `Clients_proofs` | theorems about the pages that convert and the page of one order | `Clients` |
| `OrderListing_proofs` | theorems about the list, its walks and its tokens, and the types of all pages | `Clients_proofs` |
| `MCOrders`, `MCOrderFlow`, `MCFxService`, `MCFxFlow`, `MCQuotes`, `MCClients` | instances for TLC | |

A definition whose comment starts with *Mutant* is a plausible bug in the
definition that follows it. No specification uses it; it shows that a property
depends on the code it is about.

### Orders

A *call* is one gRPC request. `pc[c]` is the `await` its handler is suspended at
and `req[c]`, `made[c]`, `inserted[c]`, `copy[c]` are the handler's local
variables; `proc[c]` is the process it runs in, a replica and how often that was
restarted. `store[r]` is the `Map` of `InMemoryIdempotencyStore` at replica
`r`; `orders` and `packages` are the committed rows. Rows of an open transaction
are not visible to others, so they are kept with the call: its request, `made`
and `inserted`.

| Actions | Code |
|---|---|
| `Receive` = `Admit`, `Replay`, `RefuseReuse`, `StartLookup` | a handler up to its first await, including the read of the idempotency store and the deletion of an expired entry |
| `Priced`, `PricingRefuses`, `PricingFails` | the answer of the pricing call |
| `InsertOrder`, `InsertDuplicate`, `InsertPackage`, `Commit`, `SaveFails` | `MssqlOrderRepository.save`, one query each; the insert of an id takes its row lock, and a duplicate key waits for, or fails on, the holder |
| `FinishCreate` | the rest of `createOrder`: store the entry, answer |
| `FindNothing`, `FindRow`, `AnswerRead` | `findById` (two queries) and the reads built on it |
| `RefuseCancel`, `StartUpdate`, `ApplyUpdate`, `FinishCancel` | `cancelOrder` |
| `LookupFails` | an error of the database in a lookup or an update |
| `Drop`, `Crash`, `Tick` | the network, Kubernetes and the clock |

A handler that returns a promise without awaiting it loses the code of its
errors; `OnWire` says which code the caller sees for which operation.
`ImplementsOrderBook` maps the tables and the successful answers to
`OrderBook`: the detailed service only ever places, cancels and tells the truth.

### Gateway and OrderFlow

`Gateway` has the state of one HTTP request: what it wants, which service it
calls, how many attempts it made, what it answers. `OrderFlow` gives each attempt
a call of its own in `Orders`, so that an attempt that timed out is delivered
late, or runs on, beside its successor. `known[g]` records what clients had been
told when request `g` was made; no code reads it.

### FxService and FxFlow

`now` counts seconds. `http` holds the HTTP requests under way: they outlive the
time limit of the breaker and end by themselves within `ApiTimeout`.
`executeWithRetry` is `Fire` or `Reject`, then `ProviderAnswers`, `ProviderFails` or
`BreakerTimesOut`, then `AfterFailure` and `Wake`; `getRates` is `CallDirectly`.
When too many failures trip a closed breaker depends on statistics inside
opossum, so `Trip` leaves it open whether a failure trips it: every history of
the statistics is covered.

Redis is a process of its own. `Arrive` reads the flag `connected`; with it set the call
waits in `reading`, until `RedisReads` executes its command and `CacheHit` gets the reply, or `CacheMiss` ends the
command: no entry, an error, or the last of the reconnections that `maxRetriesPerRequest` allows (`cache.service.ts:28-33`). A rate from a provider waits in
`storing` in the same way, for `RedisStores` and `StoreEnds`. Nothing limits these waits: no
time-out of a command is configured, so neither does the model, except that `MaxDelay` bounds the time one
call spends at Redis, which the variable `waited` counts. A reply may be lost and the command given again
(`ReplyLost`, and `RedisStores` twice). External, and assumed: a command is executed, if at all, before it ends for its caller.

`probing` is opossum's half-open state with its one
trial request taken. A rate is told apart by its provider, the call that obtained it, its key and when; its
value is left out. `FxFlow` adds the client's view: `shown[c]` and calls whose
connection was lost.

`Tick` is urgent: time passes only when no handler can go on at once, no timer
is due and no provider that is declared `Reliable` owes an answer. This says that
computation is fast compared with seconds; providers that are not reliable, and Redis,
answer, fail or hang as they like.

### Pricing, Tariff, OrderRecord and Quotes

`Pricing` translates each calculator into an operator. Amounts are integers on grids
on which every intermediate result of the code is exact (1/2000000 Q, 1/10000 kg,
half centimetres of height), so what is rounded, and when, is what `Math.round` rounds. `Tariff` is the
monolith's answer to the same question, in its cents. `OrderRecord` has the
conversions in the order an order meets them: `CreateOrderDto` (the body's checks),
`ToGrpc`, `NewOrder`, `RowOf`, `RowToOrder`, `FromGrpc`, `Receipt`. Conversions do what the
code does: unknown names become 0, sides go to INT columns, the rate and the
multiplier have no column, of a changed order only the status is written.

In `Quotes` each call is one step, `CreateOrder`, `GetOrder`, `CancelOrder`, `GetReceipt`, and
`OldCreateOrder`, `OldCancelOrder` for the monolith, in any order. What happens between
the steps of a call is the subject of `Orders`; here the subject is the numbers.

### OrderListing, FxViews, OrderPage and Clients

`OrderListing` keeps the list page's React state (`page`, `rows`, `total`, `loading`,
`error`) and the calls it waits for. `CountOrders` and `FetchPage` are the two queries
over SQL; in memory `FetchPage` is the whole call. `Slices` is the set of pages a query may
return when times are equal. `Insert` and `CancelOrder` happen between any two
steps. `Cancelled` reloads the page that was shown at the click. No code
reads `seen`, `mine` and `spoiled`: `spoiled` records which of the things happened
that the code does not guard against (`crossed` loads, a `stale` reload, a `torn` count,
a `failed` load), and each property names those that break it. Without any one
of these conditions TLC finds the property violated.

`FxViews` has one action per user input (`EditForm`, `SelectCurrency`, `Submit`, `LeaveForm`,
`SelectTarget`, `SelectPair`, `TypeAmount`, `OpenTab`, `AskConverter`), each with the effect it
triggers, and `Answer`, `AnswerFails` for the fetches in flight. `wanted` records what the user
asked for last, `late` that an answer overtook an older one.

The page of one order (`OrderPage`) has `orderId` from its address and `order` from its last load. `JumpTo` changes
the address under the open page, which then loads again: the form's timer does this wherever the user went
(`CreateOrder.tsx:50`), and so does the browser's history. `ClickCancel` cancels `orderId`, whatever is
shown; `OrderCancelled` reloads the order of the click. At the orders service `CheckStatus` and `ApplyUpdate` are
apart, so that two cancellations may both succeed. `moved` records changes of address during a load or a cancellation.

`Clients` opens one of the pages; the router keeps no state between them.

## 3. The runs

| Run | Question | Result |
|---|---|---|
| `orders_replicas` | three calls, two replicas, crashes, a clock: is everything saved, remembered and answered consistent, is the order book implemented, and is an entry found up to its last moment? | holds |
| `orders_cached` | does a second call with the same key get the stored result (README.md:706)? | violated across replicas |
| `orders_cancel_race` | is an order cancelled once (services/orders/readme.md:657)? | violated by two overlapping cancellations |
| `flow_create` | two creating clients, time-outs, late attempts, a retry: what do 400 and duplicates mean? | holds |
| `flow_cancel` | create, cancel and receipt of one order: on two replicas, is a cancellation seen, and is a 200 true? | holds |
| `flow_timed` | one request, up to three attempts at each service, a restart, a clock: is it answered whatever the services do, and does an attempt find the answer to another until its time is up? | holds |
| `flow_retry` | does a retry after a time-out find its key (services/orders/readme.md:883)? | violated on one healthy replica |
| `fx_conversions` | two conversions, everything may fail or wait: are late answers kept apart, do breakers shield, do calls last no longer than attempts, delays and Redis take? | holds |
| `fx_flow` | calls the gateway gives up early, with a fallback provider that works: is what a client is shown its own, in time and fresh, and never from the service's default rates? | holds |
| `fx_slow_primary` | does a hanging primary provider stay unnoticed when the fallback works (docs/FX_SERVICE_VALIDATION.md:25)? | violated with the deployed time limits |
| `quotes` | about six thousand bodies around every limit: do amounts add up, do the form, the rows, the receipt and the monolith agree with the price? | holds |
| `clients` | overlapping loads, changes of address, cancellations and conversions, answered in any order or failing: what do the pages show, does the button cancel the order that is shown, does a walk see every order, does every spinner end? | holds |

### Bounds, and why they are enough

* Orders: three calls are the fewest with an original, a retry and a
  cancellation; two replicas tell shared from private state; one crash puts
  calls of two incarnations side by side. Two ids let one collide and one not.
  Payloads are one the pricing service accepts and one it refuses. Two packages
  let another handler in between two of them. In one behaviour of `orders_replicas` the replicas crash,
  once each, or the clock ticks, once, past the last moment of the entries stored before (`CrashOrTick`
  keeps the two apart: a crash leaves no entry to outlive); in `flow_timed` the clock and a crash
  come together. The `VIEW` drops what no step and no property reads any more: copies of rows that were used,
  counts of packages after the commit, the time of an answer that is not that of a create (540,127 states).
* Flow: `flow_create` has one retry for each of two clients, which makes four
  calls, enough for an attempt to outlive its successor and meet another
  client. `flow_cancel` has a request for each operation on the one order, two replicas and no
  retries. `flow_timed` has one request with two retries: two attempts that race and a third that must
  find what they left; and for a receipt up to three attempts at each of two services. Requests of
  different clients never wait for each other at the gateway, so one is enough for its liveness
  (1,161,164 states).
* FX: the time limits are scaled down and keep their order (breaker < axios,
  delay > 0, reset > breaker). In `fx_conversions` `MaxNow`
  exceeds the longest call by a second, with a second at Redis; in `fx_flow` it lets the last client be answered.
  Both runs have a `VIEW` that drops what nothing reads any more (health flags, timers that went off,
  expired entries). Each call may wait for Redis for one second, before the read, before the answer, or not at all.
  `fx_slow_primary` runs with the deployed values in seconds. Two calls
  are enough for one to store a rate while the other reads it, or while
  both wait for providers. The
  gateway's limit in `fx_flow` is shorter than a call, as it is in the
  deployment.
* Quotes: the bodies are the product of two origins, four destinations, three
  services, ten lists of packages, nine discounts and insurance, among them each
  side of each check (36 %, negative values, no packages, no weight, unknown
  zone, discounts above the price), and as many with weights and values chosen so
  that the exact amounts fall just before and just after half a cent (169,362 states).
* Clients: one order on a page, two orders and a third that comes meanwhile make
  three pages; four moves are enough to turn, cancel, turn back and meet the
  answers. Four clicks and three currencies give three conversions in flight.
  The amounts are zero, where the code asks for nothing, and two that differ.
  Two orders let the address go somewhere and come back; three inputs are enough for two overlapping cancellations
  and a jump, or a cancellation, a jump and a click (317,317 states).
* The bounds `MaxMoves`, `MaxClicks` and `MaxInputs` cap what the user does, `New` the orders others
  create. The bounds `MaxNow`, `LastArrival` (when the last FX call arrives), `MaxCrashes` and
  `MaxRetries` are constants. `MaxRetries` is a
  constant of the code; the proofs hold for all values of the others.
* Deadlock is not checked, as every call is made once and the system then stops. Handlers of
  the orders service never wait for each other in a circle: a transaction that waits for the row of another gets
  the row or an error when that one ends.

### Fairness

`OrderFlow!Fairness` says that the gateway's own timers fire: the time limit of each call and the
delay before each retry. Nothing is assumed of the services, so `EveryRequestEnds` shows that these
suffice, also through retries. `Orders` has no fairness: its call to pricing has no deadline, and nothing in
the code promises that a handler ends. `ClientsSpec` assumes that each call of a page, that of the receipt and
the one that sends an order included, is answered or fails in the end and that
browser timers go off; the user owes nothing. Both answers and failures count, so the liveness
properties hold even if every call fails. The FX modules have no fairness: `OnlyRedisDelays` is a bound on the clock, a
safety property.

## 4. The proofs

Every theorem holds for all values of the constants: any sets of replicas, calls,
ids, keys, providers' failures, any number of packages, crashes, attempts and clock ticks, any
bodies, weights, declared values and discounts, any number of orders, any page size and any number of clicks.

| Module | Theorem | States |
|---|---|---|
| `Orders_proofs` | `TypeCorrect` | `Spec => []TypeOK` |
|  | `SavesAreAtomic` | `Spec => []SaveIsAtomic` |
|  | `CallsMakeOneOrder` | `Spec => []OneOrderPerCall` |
|  | `StoreIsTruthful` | `Spec => []EntriesAreTruthful` |
|  | `CreatesAreTruthful` | `Spec => []CreateAnswersAreTruthful` |
|  | `RefusalsLeaveNothing` | `Spec => []RefusalsAreTruthful` |
|  | `OrdersRefinesBook` | `Spec => ImplementsOrderBook` |
| `Orders_answers` | `RetriesFindOriginal` | `Spec => RetryFindsOriginal` |
| `OrderFlow_proofs` | `FlowTypeCorrect` | `Spec => []FlowTypeOK` |
|  | `OksAreTrue` | `Spec => []OkIsTrue` |
|  | `BadRequestsMakeNothing` | `Spec => []BadRequestMeansNothing` |
|  | `OnlyUncertaintyDuplicates` | `Spec => []DuplicatesAreUncertain` |
|  | `CancellationsAreSeen` | `Spec => []CancellationIsSeen` |
|  | `AttemptsFindTheOriginal` | `Spec => AttemptsFindOriginal` |
| `Fx_proofs` | `FxTypeCorrect` | `FxSpec => []FxTypeOK` |
|  | `SourcesAreTrue` | `FxSpec => []SourceIsTrue` |
|  | `CachedAnswersAreFresh` | `FxSpec => []AnswersAreFresh` |
|  | `BreakersShield` | `FxSpec => []BreakerShields`, if `ResetTimeout > 0` |
|  | `FallbackServes` | `FxSpec => []FallbackIsUsed` |
|  | `CallsWaitOnlyForRedis` | `FxSpec => []OnlyRedisDelays` |
|  | `ShownAnswersAreTrue` | `FlowSpec => []ShownIsTrue`, if `TTL > 0` |
| `Quotes_proofs` | `QuotesWellTyped` | `Spec => []QuoteTypeOK` |
|  | `PartsMakeTheTotal` | `Spec => []BreakdownAddsUp` |
|  | `EstimateIsNeverShort` | `Spec => []EstimateIsEnough` |
|  | `NothingIsCarriedForFree` | `Spec => []EveryShipmentIsCharged` |
|  | `ServicesPriceLikeTheMonolith` | `Spec => []MonolithAgrees` |
|  | `ReadBackUnchanged` | `Spec => []ReadOrderIsTheOne` |
|  | `LinesMakeTheTotal` | `Spec => []ReceiptAddsUp` |
| `Clients_proofs` | `ConversionsAreTrue` | `ClientsSpec => []PanelIsTrue` |
|  | `ConverterAnswersAreTrue` | `ClientsSpec => []ConverterIsTrue` |
|  | `OrderPagesAreTrue` | `ClientsSpec => []PageIsTrue` |
|  | `ShownOrdersAreCancelled` | `ClientsSpec => []CancelsWhatIsShown` |
| `OrderListing_proofs` | `RowsBelongToPage` | `ClientsSpec => []RowsMatchPage` |
|  | `CancellationsAreShown` | `ClientsSpec => []CancelIsShown` |
|  | `WalksSeeEverything` | `ClientsSpec => []WalkSeesAll` |
|  | `TokensSeeEverything` | `ClientsSpec => []TokensSeeAll` |
|  | `ClientsWellTyped` | `ClientsSpec => []ClientsTypeOK` |

Together they state every property of the passing runs except the three liveness properties.

### Assumptions

All are named in the module that declares the constants, and TLC evaluates them in
every run that extends it. `NoneAssumption`, `NoRateAssumption`, `BookAssumption`, `ShownAssumption`,
`NoWishAssumption`, `NoAnswerAssumption`, `NoValueAssumption` and `PageAssumption` say that None, or `NoOrder`, is not a value; `SizeAssumption`, `TimeAssumption` and
`GatewayTimeoutAssumption` that numbers are natural numbers, and those that
the code cannot have as zero are positive; `KnownAssumption` that default rates
are for pairs; `ServiceAssumption` repeats the assumptions of `Orders` for its instance in
`OrderFlow`, and `WishAssumption` that requests ask for payloads and orders the service knows of;
`ListingAssumption` and `ViewsAssumption` type the constants of the pages; `BodiesAssumption` says that bodies have the fields
and types of the DTO class, whatever their values. Two theorems have a hypothesis of their own: with
`ResetTimeout = 0` a breaker may close and let a second request through at the instant it opened,
and with `TTL = 0` there is no age that an answer shown at once could stay below.

### Orders

None of the properties is inductive. The invariant behind them is
`Inv == TypeInv /\ SafetyInv`:

* `TypeInv` adds to `TypeOK` what a suspended handler relies on when it resumes: the
  kind of its request at each location, that its id was generated, that the
  row it read still exists.
* `ProcessInv` ties each call to an incarnation that has existed, and a call in flight
  to the living one; otherwise a call of a dead process could write an entry.
* `DatabaseInv` says rows and packages appear together.
* `TransactionInv` says where the row of a call is: nowhere before its commit,
  under `made[c]` after. `OneOrderPerCall` and `RefusalsAreTruthful` follow from it.
* `CopyInv` ties what a lookup read to the database.
* `AnswerInv` ties answers to entries and rows.

The step lemmas have one case per action; `Invariance` combines them.

For the refinement, the second part of `Orders_proofs`, `Commit` is `Place`, `ApplyUpdate` of an active row is `Cancel`, and a step that
answers OK is `Tell`. An `ApplyUpdate` of a row that is cancelled already, and every other
step, changes neither the book nor what was told. `Inv` gives what the steps need: the id of a
commit is free, the row of an update exists, and what is told is true of it.

`Orders_answers` follows single answers. `AnswersInv` says what a refusal of a payload, an order
read and a cancelled order mean from then on; `Keeps` is what every step
leaves true of orders and answers. `RetryFindsOriginal` speaks of two calls that may be far apart. Its invariant,
`OriginalInv`, says that the process of an answered create holds an entry under its key that is at least as
young as the answer, until the answer is older than the time to live or the process has died. The
entry may be overwritten, by a create that was admitted before it was there, but
only with a younger one, and only an expired entry is deleted.

### Gateway and orders service

A step of `OrderFlow` is a step of `Orders` or leaves it alone (`FlowStepsAreServiceSteps`), so `Inv` and
`AnswersInv` hold of the service behind the gateway, which `OrderFlow_proofs` reaches through
an instance of `Orders_answers`. On top of them:

* `HandlerInv` says how the phase, the stage, the attempts and the answer of a request belong together.
* `RequestInv` says that no call is made for an attempt that was not started, and that every attempt asks the service
  for what its request wants, also when it is delivered late.
* `BodyInv` says that what a request got is the answer to its last attempt, and that a client is told 400 only after
  an attempt was refused as invalid.
* `KnownInv` says that cancellations clients knew of before a request have happened, and that the lookups of its
  attempts see them, because orders only go from active to cancelled.

`DuplicatesAreUncertain` counts: every order of a request was made by an attempt of its own
(`OneOrderPerCall`) that was not refused, so the orders inject into the attempts.
`AttemptsFindOriginal` is the theorem of `Orders_answers`, cited for the service behind the gateway.

### FX

* `ServiceInv` has the types, `HandlerInv` (a call that stores holds a rate from its own provider, for
  its own key and itself, no older than the call has waited for Redis; a call with a hit holds a rate within its lifetime), `HttpInv` (no request is from the
  future) and `CacheInv` (an entry was stored no later after its rate was obtained than the call that
  got the rate waited). The lifetime that Redis counts from the store, and what the two calls waited, bound the age of the rate:
  `AnswersAreFresh`. A late HTTP answer is told apart by provider and attempt: `SourceIsTrue`.
* `BreakerInv` is `Shielded(p)` for both providers: while a breaker is open or half-open every
  conversion request is as old as its opening, and a probing breaker has let one
  through since. With `ResetTimeout > 0` that is `BreakerShields`.
* `FallbackInv` says that while the fallback provider is reliable its breaker stays
  closed and a call that waits for it has its request under way and time left: time
  does not pass before the answer.
* `TimeInv` says that a call is never later than the attempts it has behind it allow: its age is at most what
  they and the delays between them may take (`Spent`), plus the time limit of what it waits for, plus what it waited for Redis. Time passes only while
  that limit is not reached. The delays double, so what `n` of them take together is a sum of
  powers of two; `Backoff` is a recursive function, and `TriesAddUp` shows by induction over numbers, as
  `Sums` states it, that the attempts never take more than the round that `LongestCall` allows for.
* Steps of `FxFlow` are steps or stutters of `FxService` (`FlowStepsAreFxSteps`), so its
  invariants hold behind the gateway. `FlowInv` adds that a client that waits is in time
  and that an answer that waits for it is of this moment.

### Quotes

`QInv` says that everything there is, is a function of the body: `created` is what pricing answers for it
(`PriceFromBody`), `row` is what that price and the body are stored as, in one of the statuses (`RowFromOrder`), `read` and `receipt`
come from such a row (`AnswersFromRow`), and `old` is the tariff of the same body (`OldFromBody`). It is inductive because of the
`UPDATE`, which writes the status and nothing else. The properties follow from it
by arithmetic about one body, which needs three things:

* *Sums.* Totals are folds over the packages. `Sums` derives an induction that quantifies over sets
  in place of predicates (`LeastNumber`, `SubsetInduction`), from which the fold exists, is unique, and adds,
  scales and counts as sums do. The weight and the value of any number of packages, and a receipt, are such sums.
* *Rounding.* `Round` moves an amount by at most half a cent, so that a sum of rounded parts is
  off by at most the cents in the property. Each bound is a lemma about one calculator (`PartsAddUp`, `EstimateCovers`).
* *Names.* Zones, services, discounts and statuses go through numbers and back (`NamesNumbered`), where a name that is not known becomes 0:
  what passes the body's checks comes back as it was.

### Clients

* `ListInv` relates the list page to the store. `CancelInv`: whatever the user was told, or is about to be told, is
  cancelled, is cancelled in the store. `LoadInv`: unless loads crossed there is at most one, and it will bring, or else the
  page has, rows that are newer than every such answer. `PageInv`: the load in flight, or else the last one, is of
  the page the user is on.
* `ViewsInv` relates the pages that convert to their requests. `PanelInv`: while answers come in order, the last request
  in flight, or else the shown conversion, is for what is selected. `ConverterInv`: the
  converter waits for at most one answer, to what was asked last.

* `PagingInv` is about walks. Orders only move back in the list, since others are only put before them (`OrdersMoveBack`), and a
  page that does not have an order starts behind it or ends before it (`MissedByPage`). So for every order not yet seen `WalkInv` says
  that it is behind the page of the user, or that the load in flight starts no later than it and will have it,
  and that there is a page to turn to, or nothing is unseen. A torn count, an overlapping load, a failed load or two equal times
  each break a conjunct. `TokensInv` says the same of offsets, without exceptions. `LastPageInv`
  is why no page beyond the last is opened: totals only grow while loads do not cross.
* `KeptInv` has the types that the other invariants did not need.

The page of one order has one part for each kind of change of address. `ButtonInv`, if none happened during a load: what is loaded or shown
for another order is cancelled, so it has no button. `AddressInv`, if none happened during a cancellation either:
everything under way is for the order of the address. `FreshInv`: before the user is told of a cancellation
nothing is loaded beside it, so what is loaded afterwards is newer.

### Only model-checked

Liveness needs `ENABLED`, which the prover does not support: `EveryRequestEnds`, `SpinnerEnds` and
`EveryOrderIsVisited` are checked by TLC alone. So are the four runs marked *violated*, whose counterexamples need no proof.

## 5. Findings

Four statements of the documentation do not hold of the code; each has a run with a
counterexample, see the runs marked *violated* and `findings` in
`PROJECT.json`. Seen while translating, and without a run of their own:

* A second cancellation is answered UNKNOWN, and 500 by the gateway, because the
  controller returns the promise without awaiting it (`services/orders/src/controllers/order.controller.ts:55`);
  `services/orders/readme.md:313` says FAILED_PRECONDITION. The models answer what the code answers.
* An order read back from the tables has no rate and no multiplier
  (`mssql-order.repository.ts:370`): details and receipts print Q0 per kg and x0. `ReceiptAddsUp`
  shows that the amounts are right all the same.
* The sides of a package are cut to whole centimetres when they are stored
  (`mssql-order.repository.ts:80`), after the price was calculated; pricing such an order again may
  give another price.
* With both providers down `getRates` answers constants that are units per USD,
  whatever the base currency is (`services/fx/src/services/fx.service.ts:271`).
* The form estimates with Q15 per kilo times 1, 1.5 or 2, pricing charges 8, 12 or 16
  (`CreateOrder.tsx:91`); `EstimateIsEnough` shows that the client is never charged more.
* When the address of the page of an order changes during a load, and the older load is answered last, the page shows one order and its
  button cancels another (`OrderDetail.tsx:47`); `CancelsWhatIsShown` excepts it.
* A receipt whose conversion fails shows the previous amount beside the newly
  selected currency (`ReceiptView.tsx:76`); `PanelIsTrue` excepts it. In the converter, the error of one tab
  stays above the older result of another.

## 6. What is not modelled

* What an idempotency key, a payload or an address looks like: payloads are told
  apart by identity, as their SHA-256 does.
* `GetOrder` and `GetOrderForReceipt` run the same code and are one operation.
* SQL Server beyond row locks, commit and rollback; every error it can report
  is `SaveFails` or `LookupFails`. `findAll`, which nothing calls.
* Floating-point error: an amount exactly between two cents may be rounded to the other one, and
  numbers that are not on the grids of `Pricing` do not occur in `Quotes`.
* The second replica of the FX service. Replicas share only Redis, whose entries
  the model already lets concurrent calls overwrite.
* The health flags of the FX providers are kept, but nothing is said of them: they
  feed only `HealthCheck`, which only reads.
* The in-memory repository beyond its list (development only): its other operations are
  single steps of what `Orders` models over SQL.
* Layout and wording of the frontend, the doubled effects of React's development mode, and a change of address
  under an open receipt.
* The monolith's receipt, a copy of the order; its handlers await only resolved
  promises, so each is one step.
* Logging, metrics, deployment.

## 7. Plan

Done: `OrderBook`, `Orders`, its proofs, its refinement and the meaning of its answers, `Gateway`, `OrderFlow`,
`FxService`, `FxFlow`, `OrderListing`, `FxViews`, `Clients` and `OrderPage`, `Pricing`, `Tariff`, `OrderRecord`, `Quotes`, and a theorem for
every invariant and action property of the passing runs.
What would come next, in this order:

1. An abstract specification of the FX service for the gateway: one answer per call, true and in time, that `FxService` implements.
2. Pages that follow each other: what the timer of a form does to each of the other pages.
