--------------------------- MODULE OrderFlow_proofs ---------------------------
(***************************************************************************)
(* Proofs about the gateway and the orders service together, for every     *)
(* number of requests, retries and replicas and everything the service can *)
(* be configured with.  What was proved of the service is cited for the    *)
(* instance behind the gateway: a step of the two together is a step of    *)
(* the service, or leaves it alone.                                        *)
(***************************************************************************)
EXTENDS OrderFlow, FiniteSetTheorems, TLAPS

P == INSTANCE Orders_answers

\* The handler of a request starts with nothing, retries only while it may, calls
\* the receipt service with the order it got, and ends with an answer.
HandlerInv ==
    \A g \in Client :
        /\ phase[g] = "idle" <=> wish[g] = None
        /\ phase[g] = "idle" <=> attempt[g]["orders"] = 0
        /\ phase[g] = "idle" => stage[g] = "orders"
        /\ phase[g] = "done" <=> http[g] # None
        /\ phase[g] = "backoff" => attempt[g][stage[g]] <= MaxRetries
        /\ phase[g] # "done" /\ stage[g] = "orders" => body[g] = None
        /\ stage[g] = "receipt" \/ http[g] = 200 => body[g] # None

\* The calls of a request are its attempts, and carry what it asks for.
IsAttempt(g, a) ==
    /\ pc[<<g, a>>] # "idle" => a <= attempt[g]["orders"]
    /\ req[<<g, a>>] # None =>
          a <= attempt[g]["orders"] /\ req[<<g, a>>] = ServiceRequest(wish[g])

RequestInv == \A g \in Client, a \in Attempt : IsAttempt(g, a)

\* What a request got is the answer to its last attempt; a client is told 400
\* after an attempt was refused as invalid.
BodyInv ==
    \A g \in Client :
        /\ body[g] # None => P!Answered(Current(g), "OK") /\ body[g] = ans[Current(g)]
        /\ http[g] = 400 => \E c \in Calls(g) : P!Answered(c, "INVALID_ARGUMENT")

\* Clients know only of cancellations that have happened, and the calls of a
\* request see those that clients knew of before.
KnownInv ==
    \A g \in Client : \A k \in known[g] : k.status = "CANCELLED" =>
        /\ orders[k.order] # None /\ orders[k.order].status = "CANCELLED"
        /\ \A c \in Calls(g) : P!SeesCancelled(c, k.order)

IInv ==
    /\ P!Inv /\ P!AnswersInv
    /\ FlowTypeOK /\ HandlerInv /\ RequestInv /\ BodyInv /\ KnownInv

-----------------------------------------------------------------------------

\* Proofs about the orders service, cited for the instance behind the gateway.
LEMMA SameAssumptions ==
    P!NoneAssumption /\ P!SizeAssumption /\ P!PayloadAssumption /\ P!BookAssumption
BY ServiceAssumption
   DEF Service!NoneAssumption, P!NoneAssumption, Service!SizeAssumption, P!SizeAssumption,
       Service!PayloadAssumption, P!PayloadAssumption, Service!BookAssumption,
       P!BookAssumption, Service!Row, P!Row, Service!Entry, P!Entry, Service!Response,
       P!Response, Service!Answer, P!Answer, Service!Code, P!Code, Service!Status, P!Status,
       Service!Request, P!Request, Service!CreateRequest, P!CreateRequest,
       Service!LookupRequest, P!LookupRequest, Service!Book!BookRow, P!Book!BookRow,
       Service!Book!Claim, P!Book!Claim, Service!Book!Status, P!Book!Status

LEMMA ServiceFacts ==
    /\ P!Init => P!Inv /\ P!AnswersInv
    /\ P!Inv /\ [P!Next]_(P!vars) => P!Inv' /\ P!Keeps
    /\ P!Inv /\ P!AnswersInv /\ [P!Next]_(P!vars) => P!AnswersInv'
<1>1. P!Init => P!Inv
  BY SameAssumptions, P!InitInv
<1>2. P!Inv /\ [P!Next]_(P!vars) => P!Inv'
  BY SameAssumptions, P!NextInv
<1>3. P!Inv /\ [P!Next]_(P!vars) => P!Keeps
  BY SameAssumptions, P!NextKeeps
<1>4. P!Init => P!AnswersInv
  BY SameAssumptions, P!InitAnswers
<1>5. P!Inv /\ P!AnswersInv /\ [P!Next]_(P!vars) => P!AnswersInv'
  BY SameAssumptions, P!NextAnswers
<1> QED
  BY <1>1, <1>2, <1>3, <1>4, <1>5

LEMMA SightsKept ==
    ASSUME P!Inv, [P!Next]_(P!vars), NEW o \in OrderId, NEW d \in Call,
           orders[o] # None, orders[o].status = "CANCELLED", P!SeesCancelled(d, o)
    PROVE  P!SeesCancelled(d, o)'
BY SameAssumptions, P!SightKept

LEMMA SameInit == Service!Init => P!Init
BY DEF Service!Init, P!Init

LEMMA SameReceive ==
    ASSUME NEW c, NEW r, NEW q, Service!Receive(c, r, q)
    PROVE  P!Receive(c, r, q)
BY DEF Service!Receive, P!Receive, Service!Admit, P!Admit, Service!Replay, P!Replay,
       Service!RefuseReuse, P!RefuseReuse, Service!StartLookup, P!StartLookup,
       Service!Arrive, P!Arrive, Service!Forget, P!Forget, Service!Hit, P!Hit, Service!Live,
       P!Live, Service!SamePayload, P!SamePayload, Service!Finish, P!Finish, Service!Goto,
       P!Goto, Service!Success, P!Success, Service!Failure, P!Failure, Service!OnWire,
       P!OnWire, Service!database, P!database

LEMMA SameDrop == ASSUME NEW c, Service!Drop(c) PROVE P!Drop(c)
BY DEF Service!Drop, P!Drop, Service!Goto, P!Goto, Service!database, P!database

LEMMA SameHandler ==
    ASSUME NEW c, Service!Handle(c) \/ Service!Fail(c)
    PROVE  P!Handle(c) \/ P!Fail(c)
<1>1. Service!Priced(c) => P!Priced(c)
  BY DEF Service!Priced, P!Priced, Service!Throw, P!Throw, Service!Finish, P!Finish, Service!Goto,
       P!Goto, Service!Success, P!Success, Service!Failure, P!Failure, Service!OnWire,
       P!OnWire, Service!Remember, P!Remember, Service!database, P!database
<1>2. Service!PricingRefuses(c) => P!PricingRefuses(c)
  BY DEF Service!PricingRefuses, P!PricingRefuses, Service!Throw, P!Throw, Service!Finish, P!Finish,
       Service!Goto, P!Goto, Service!Success, P!Success, Service!Failure, P!Failure,
       Service!OnWire, P!OnWire, Service!Remember, P!Remember, Service!database, P!database
<1>3. Service!PricingFails(c) => P!PricingFails(c)
  BY DEF Service!PricingFails, P!PricingFails, Service!Throw, P!Throw, Service!Finish, P!Finish,
       Service!Goto, P!Goto, Service!Success, P!Success, Service!Failure, P!Failure,
       Service!OnWire, P!OnWire, Service!Remember, P!Remember, Service!database, P!database
<1>4. Service!InsertOrder(c) => P!InsertOrder(c)
  BY DEF Service!InsertOrder, P!InsertOrder, Service!Throw, P!Throw, Service!Finish, P!Finish,
       Service!Goto, P!Goto, Service!Success, P!Success, Service!Failure, P!Failure,
       Service!OnWire, P!OnWire, Service!Remember, P!Remember, Service!database, P!database
<1>5. Service!InsertDuplicate(c) => P!InsertDuplicate(c)
  BY DEF Service!InsertDuplicate, P!InsertDuplicate, Service!Throw, P!Throw, Service!Finish,
       P!Finish, Service!Goto, P!Goto, Service!Success, P!Success, Service!Failure,
       P!Failure, Service!OnWire, P!OnWire, Service!Remember, P!Remember, Service!database,
       P!database
<1>6. Service!InsertPackage(c) => P!InsertPackage(c)
  BY DEF Service!InsertPackage, P!InsertPackage, Service!Throw, P!Throw, Service!Finish, P!Finish,
       Service!Goto, P!Goto, Service!Success, P!Success, Service!Failure, P!Failure,
       Service!OnWire, P!OnWire, Service!Remember, P!Remember, Service!database, P!database
<1>7. Service!Commit(c) => P!Commit(c)
  BY DEF Service!Commit, P!Commit, Service!Throw, P!Throw, Service!Finish, P!Finish, Service!Goto,
       P!Goto, Service!Success, P!Success, Service!Failure, P!Failure, Service!OnWire,
       P!OnWire, Service!Remember, P!Remember, Service!database, P!database
<1>8. Service!SaveFails(c) => P!SaveFails(c)
  BY DEF Service!SaveFails, P!SaveFails, Service!Throw, P!Throw, Service!Finish, P!Finish,
       Service!Goto, P!Goto, Service!Success, P!Success, Service!Failure, P!Failure,
       Service!OnWire, P!OnWire, Service!Remember, P!Remember, Service!database, P!database
<1>9. Service!FinishCreate(c) => P!FinishCreate(c)
  BY DEF Service!FinishCreate, P!FinishCreate, Service!Throw, P!Throw, Service!Finish, P!Finish,
       Service!Goto, P!Goto, Service!Success, P!Success, Service!Failure, P!Failure,
       Service!OnWire, P!OnWire, Service!Remember, P!Remember, Service!database, P!database
<1>10. Service!FindNothing(c) => P!FindNothing(c)
  BY DEF Service!FindNothing, P!FindNothing, Service!Throw, P!Throw, Service!Finish, P!Finish,
       Service!Goto, P!Goto, Service!Success, P!Success, Service!Failure, P!Failure,
       Service!OnWire, P!OnWire, Service!Remember, P!Remember, Service!database, P!database
<1>11. Service!FindRow(c) => P!FindRow(c)
  BY DEF Service!FindRow, P!FindRow, Service!Throw, P!Throw, Service!Finish, P!Finish, Service!Goto,
       P!Goto, Service!Success, P!Success, Service!Failure, P!Failure, Service!OnWire,
       P!OnWire, Service!Remember, P!Remember, Service!database, P!database
<1>12. Service!AnswerRead(c) => P!AnswerRead(c)
  BY DEF Service!AnswerRead, P!AnswerRead, Service!Throw, P!Throw, Service!Finish, P!Finish,
       Service!Goto, P!Goto, Service!Success, P!Success, Service!Failure, P!Failure,
       Service!OnWire, P!OnWire, Service!Remember, P!Remember, Service!database, P!database
<1>13. Service!RefuseCancel(c) => P!RefuseCancel(c)
  BY DEF Service!RefuseCancel, P!RefuseCancel, Service!Throw, P!Throw, Service!Finish, P!Finish,
       Service!Goto, P!Goto, Service!Success, P!Success, Service!Failure, P!Failure,
       Service!OnWire, P!OnWire, Service!Remember, P!Remember, Service!database, P!database
<1>14. Service!StartUpdate(c) => P!StartUpdate(c)
  BY DEF Service!StartUpdate, P!StartUpdate, Service!Throw, P!Throw, Service!Finish, P!Finish,
       Service!Goto, P!Goto, Service!Success, P!Success, Service!Failure, P!Failure,
       Service!OnWire, P!OnWire, Service!Remember, P!Remember, Service!database, P!database
<1>15. Service!ApplyUpdate(c) => P!ApplyUpdate(c)
  BY DEF Service!ApplyUpdate, P!ApplyUpdate, Service!Throw, P!Throw, Service!Finish, P!Finish,
       Service!Goto, P!Goto, Service!Success, P!Success, Service!Failure, P!Failure,
       Service!OnWire, P!OnWire, Service!Remember, P!Remember, Service!database, P!database
<1>16. Service!FinishCancel(c) => P!FinishCancel(c)
  BY DEF Service!FinishCancel, P!FinishCancel, Service!Throw, P!Throw, Service!Finish, P!Finish,
       Service!Goto, P!Goto, Service!Success, P!Success, Service!Failure, P!Failure,
       Service!OnWire, P!OnWire, Service!Remember, P!Remember, Service!database, P!database
<1>17. Service!LookupFails(c) => P!LookupFails(c)
  BY DEF Service!LookupFails, P!LookupFails, Service!Throw, P!Throw, Service!Finish, P!Finish,
       Service!Goto, P!Goto, Service!Success, P!Success, Service!Failure, P!Failure,
       Service!OnWire, P!OnWire, Service!Remember, P!Remember, Service!database, P!database
<1> QED
  BY <1>1, <1>2, <1>3, <1>4, <1>5, <1>6, <1>7, <1>8, <1>9, <1>10, <1>11, <1>12, <1>13, <1>14, <1>15, <1>16, <1>17
     DEF Service!Handle, P!Handle, Service!Fail, P!Fail

LEMMA SameEnvironment == Service!Environment => P!Environment
BY DEF Service!Environment, P!Environment, Service!Tick, P!Tick, Service!Crash, P!Crash,
       Service!InFlight, P!InFlight, Service!Location, P!Location, Service!database,
       P!database

\* A step of the flow is a step of the orders service, or leaves it alone.
LEMMA FlowStepsAreServiceSteps ==
    ASSUME FlowTypeOK, HandlerInv, [Next]_flowVars
    PROVE  [P!Next]_(P!vars)
<1>1. CASE serviceVars' = serviceVars
  BY <1>1 DEF serviceVars, P!vars
<1>2. ASSUME NEW g \in Client, NEW a \in Attempt, NEW r \in Replica, Deliver(g, a, r)
      PROVE  P!Next
  <2>1. wish[g] \in Wish
    <3>1. attempt[g]["orders"] # 0
      BY <1>2 DEF Deliver, Attempt, FlowTypeOK, GatewayTypeOK, Stage
    <3> QED
      BY <3>1 DEF HandlerInv, FlowTypeOK, GatewayTypeOK
  <2>2. ServiceRequest(wish[g]) \in P!Request
    BY <2>1, WishAssumption
       DEF ServiceRequest, P!Request, Service!CreateRequest, P!CreateRequest,
           Service!LookupRequest, P!LookupRequest
  <2>3. P!Receive(<<g, a>>, r, ServiceRequest(wish[g])) /\ <<g, a>> \in Call
    BY <1>2, SameReceive DEF Deliver, Call
  <2> QED
    BY <2>2, <2>3 DEF P!Next
<1>3. ASSUME NEW g \in Client, Refuse(g) PROVE P!Next
  <2>1. P!Drop(Current(g))
    BY <1>3, SameDrop DEF Refuse
  <2>2. Current(g) \in Call
    BY <1>3, RetryAssumption
       DEF Refuse, Current, Call, Attempt, FlowTypeOK, GatewayTypeOK, Stage, HandlerInv
  <2> QED
    BY <2>1, <2>2 DEF P!Next
<1>4. CASE Serve
  BY <1>4, SameHandler, SameEnvironment DEF Serve, P!Next
<1> QED
  BY <1>1, <1>2, <1>3, <1>4
     DEF Next, flowVars, Submit, Reply, Disconnect, ReceiptReply, GiveUp, Retry
-----------------------------------------------------------------------------

LEMMA SameTypes == (P!TypeOK => Service!TypeOK) /\ (P!TypeOK' => Service!TypeOK')
BY DEF Service!TypeOK, P!TypeOK, Service!Row, P!Row, Service!Entry, P!Entry, Service!Response,
       P!Response, Service!Answer, P!Answer, Service!Code, P!Code, Service!Status, P!Status,
       Service!Request, P!Request, Service!CreateRequest, P!CreateRequest,
       Service!LookupRequest, P!LookupRequest, Service!Location, P!Location

\* Once it has begun, the handler has a call.
LEMMA CurrentIsCall ==
    ASSUME FlowTypeOK, HandlerInv, NEW g \in Client, phase[g] # "idle"
    PROVE  /\ wish[g] \in Wish
           /\ attempt[g]["orders"] \in Attempt
           /\ Current(g) \in Calls(g) /\ Current(g) \in Call
<1>1. attempt[g]["orders"] \in Attempt
  BY DEF FlowTypeOK, GatewayTypeOK, Stage, HandlerInv
<1> QED
  BY <1>1 DEF FlowTypeOK, GatewayTypeOK, HandlerInv, Current, Calls, Call

\* Only a refused payload is the client's fault, and no error is a success.
LEMMA MappedErrors ==
    ASSUME NEW e
    PROVE  /\ MapGrpcError(e) \in HttpStatus \ {200}
           /\ MapGrpcError(e) = 400 <=> e = "INVALID_ARGUMENT"
BY DEF MapGrpcError, HttpStatus

LEMMA ErrorHandler ==
    ASSUME FlowTypeOK, HandlerInv, NEW g \in Client, NEW e, GotError(g, e)
    PROVE  GatewayTypeOK' /\ HandlerInv' /\ body' = body
<1>1. MapGrpcError(e) \in HttpStatus \ {200} /\ MapGrpcError(e) # None
  BY MappedErrors, NoAnswerAssumption
<1>2. CASE attempt[g][stage[g]] <= MaxRetries
  BY <1>2 DEF GotError, FlowTypeOK, GatewayTypeOK, HandlerInv, Phase
<1>3. CASE ~(attempt[g][stage[g]] <= MaxRetries)
  <2>1. /\ phase' = [phase EXCEPT ![g] = "done"]
        /\ http' = [http EXCEPT ![g] = MapGrpcError(e)]
    BY <1>3 DEF GotError, Respond
  <2> QED
    BY <1>1, <2>1 DEF GotError, FlowTypeOK, GatewayTypeOK, HandlerInv, Phase
<1> QED
  BY <1>2, <1>3

LEMMA BeginHandler ==
    ASSUME FlowTypeOK, HandlerInv, NEW g \in Client, NEW w \in Wish, Begin(g, w)
    PROVE  GatewayTypeOK' /\ HandlerInv' /\ body' = body
<1>1. attempt' = [attempt EXCEPT ![g] = [attempt[g] EXCEPT !["orders"] = 1]]
  BY DEF Begin
<1>2. 1 \in Attempt
  BY RetryAssumption DEF Attempt
<1> QED
  BY <1>1, <1>2, NoWishAssumption
     DEF Begin, FlowTypeOK, GatewayTypeOK, HandlerInv, Phase, Stage

LEMMA ResendHandler ==
    ASSUME FlowTypeOK, HandlerInv, NEW g \in Client, Resend(g)
    PROVE  GatewayTypeOK' /\ HandlerInv' /\ body' = body
<1> DEFINE s == stage[g]
<1>1. s \in Stage /\ attempt[g] \in [Stage -> Attempt \cup {0}] /\ attempt[g][s] <= MaxRetries
  BY DEF Resend, FlowTypeOK, GatewayTypeOK, HandlerInv
<1>2. attempt[g][s] + 1 \in Attempt /\ attempt[g][s] + 1 # 0
  BY <1>1, RetryAssumption DEF Attempt
<1>3. attempt' = [attempt EXCEPT ![g] = [attempt[g] EXCEPT ![s] = attempt[g][s] + 1]]
  BY DEF Resend
<1>4. attempt' \in [Client -> [Stage -> Attempt \cup {0}]]
  BY <1>1, <1>2, <1>3 DEF FlowTypeOK, GatewayTypeOK
<1>5. attempt'[g]["orders"] # 0 /\ \A h \in Client \ {g} : attempt'[h] = attempt[h]
  BY <1>1, <1>2, <1>3 DEF FlowTypeOK, GatewayTypeOK, HandlerInv, Resend, Stage
<1> QED
  BY <1>4, <1>5 DEF Resend, FlowTypeOK, GatewayTypeOK, HandlerInv, Phase

LEMMA ReplyHandler ==
    ASSUME P!Inv, FlowTypeOK, HandlerInv, NEW g \in Client, Reply(g)
    PROVE  GatewayTypeOK' /\ HandlerInv' /\ body' \in [Client -> Service!Answer \cup {None}]
<1>1. ans[Current(g)] \in Service!Answer /\ ans[Current(g)] # None
  BY CurrentIsCall DEF Reply, P!Inv, P!SafetyInv, P!AnswerInv, FlowTypeOK, Service!TypeOK
<1>2. CASE ans[Current(g)].code # "OK"
  BY <1>2, ErrorHandler DEF Reply, FlowTypeOK
<1>3. CASE GotOrder(g, ans[Current(g)])
  <2>1. body' = [body EXCEPT ![g] = ans[Current(g)]] /\ wish' = wish /\ phase[g] = "waiting"
    BY <1>3 DEF GotOrder
  <2>2. CASE wish[g].op = "receipt"
    <3>1. /\ stage' = [stage EXCEPT ![g] = "receipt"]
          /\ attempt' = [attempt EXCEPT ![g] = [attempt[g] EXCEPT !["receipt"] = 1]]
          /\ UNCHANGED <<phase, http>>
      BY <1>3, <2>2 DEF GotOrder
    <3>2. 1 \in Attempt
      BY RetryAssumption DEF Attempt
    <3>3. attempt' \in [Client -> [Stage -> Attempt \cup {0}]]
          /\ \A h \in Client : attempt'[h]["orders"] = attempt[h]["orders"]
      BY <3>1, <3>2 DEF FlowTypeOK, GatewayTypeOK, Stage
    <3> QED
      BY <1>1, <2>1, <3>1, <3>3 DEF FlowTypeOK, GatewayTypeOK, HandlerInv, Stage
  <2>3. CASE wish[g].op # "receipt"
    <3>1. /\ phase' = [phase EXCEPT ![g] = "done"] /\ http' = [http EXCEPT ![g] = 200]
          /\ UNCHANGED <<stage, attempt>>
      BY <1>3, <2>3 DEF GotOrder, Respond
    <3> QED
      BY <1>1, <2>1, <3>1, NoAnswerAssumption
         DEF FlowTypeOK, GatewayTypeOK, HandlerInv, Phase, HttpStatus
  <2> QED
    BY <2>2, <2>3
<1> QED
  BY <1>2, <1>3 DEF Reply

LEMMA ReceiptHandler ==
    ASSUME FlowTypeOK, HandlerInv, NEW g \in Client, GotReceipt(g)
    PROVE  GatewayTypeOK' /\ HandlerInv' /\ body' = body
<1>1. /\ phase' = [phase EXCEPT ![g] = "done"] /\ http' = [http EXCEPT ![g] = 200]
      /\ phase[g] = "waiting" /\ stage[g] = "receipt"
      /\ UNCHANGED <<wish, stage, attempt, body>>
  BY DEF GotReceipt, Respond
<1> QED
  BY <1>1, NoAnswerAssumption DEF FlowTypeOK, GatewayTypeOK, HandlerInv, Phase, HttpStatus

LEMMA NextHandlerInv ==
    ASSUME P!Inv, FlowTypeOK, HandlerInv, [Next]_flowVars
    PROVE  GatewayTypeOK' /\ HandlerInv' /\ body' \in [Client -> Service!Answer \cup {None}]
<1>1. CASE UNCHANGED gatewayVars
  BY <1>1 DEF gatewayVars, FlowTypeOK, GatewayTypeOK, HandlerInv
<1>2. ASSUME NEW g \in Client, NEW w \in Wish, Submit(g, w)
      PROVE  GatewayTypeOK' /\ HandlerInv' /\ body' = body
  BY <1>2, BeginHandler DEF Submit
<1>3. ASSUME NEW g \in Client, Disconnect(g) \/ GiveUp(g)
      PROVE  GatewayTypeOK' /\ HandlerInv' /\ body' = body
  BY <1>3, ErrorHandler DEF Disconnect, GiveUp, TimeOut
<1>4. ASSUME NEW g \in Client, ReceiptReply(g)
      PROVE  GatewayTypeOK' /\ HandlerInv' /\ body' = body
  BY <1>4, ErrorHandler, ReceiptHandler DEF ReceiptReply
<1>5. ASSUME NEW g \in Client, Retry(g)
      PROVE  GatewayTypeOK' /\ HandlerInv' /\ body' = body
  BY <1>5, ResendHandler DEF Retry
<1>6. UNCHANGED flowVars => UNCHANGED gatewayVars
  BY DEF flowVars
<1> QED
  BY <1>1, <1>2, <1>3, <1>4, <1>5, <1>6, ReplyHandler
     DEF Next, Deliver, Refuse, Serve, FlowTypeOK
-----------------------------------------------------------------------------

\* Only a message that is delivered, or refused, starts a call.
LEMMA ServeStartsNothing ==
    ASSUME P!Inv, Serve
    PROVE  req' = req /\ \A c \in Call : pc[c] = "idle" => pc'[c] = "idle"
<1>1. ASSUME NEW c \in Call, P!Handle(c) \/ P!Fail(c)
      PROVE  req' = req /\ \A d \in Call : pc[d] = "idle" => pc'[d] = "idle"
  BY <1>1 DEF P!Handle, P!Fail, P!Priced, P!PricingRefuses, P!PricingFails, P!InsertOrder,
         P!InsertDuplicate, P!InsertPackage, P!Commit, P!SaveFails, P!FinishCreate,
         P!FindNothing, P!FindRow, P!AnswerRead, P!RefuseCancel, P!StartUpdate, P!ApplyUpdate,
         P!FinishCancel, P!LookupFails, P!Throw, P!Finish, P!Goto, P!Inv, P!TypeInv, P!TypeOK
<1>2. P!Environment => req' = req /\ \A d \in Call : pc[d] = "idle" => pc'[d] = "idle"
  BY DEF P!Environment, P!Tick, P!Crash, P!InFlight
<1> QED
  BY <1>1, <1>2, SameHandler, SameEnvironment DEF Serve

\* Nothing was called for a request that has not begun.
LEMMA NothingCalled ==
    ASSUME FlowTypeOK, HandlerInv, RequestInv, NEW g \in Client, phase[g] = "idle",
           NEW c \in Calls(g)
    PROVE  pc[c] = "idle" /\ req[c] = None
<1>1. PICK a \in Attempt : c = <<g, a>>
  BY DEF Calls
<1>2. ~(a <= attempt[g]["orders"])
  BY DEF HandlerInv, Attempt
<1> QED
  BY <1>1, <1>2 DEF RequestInv, IsAttempt

LEMMA NextRequestInv ==
    ASSUME P!Inv, FlowTypeOK, HandlerInv, RequestInv, [Next]_flowVars
    PROVE  RequestInv'
<1>1. ASSUME UNCHANGED <<wish, attempt>>, UNCHANGED <<pc, req>> PROVE RequestInv'
  BY <1>1 DEF RequestInv, IsAttempt, ServiceRequest
<1>2. ASSUME NEW g \in Client, NEW w \in Wish, Submit(g, w) PROVE RequestInv'
  <2>1. \A a \in Attempt : pc[<<g, a>>] = "idle" /\ req[<<g, a>>] = None
    BY <1>2, NothingCalled DEF Submit, Begin, Calls
  <2>2. \A h \in Client \ {g} : wish'[h] = wish[h] /\ attempt'[h] = attempt[h]
    BY <1>2 DEF Submit, Begin, FlowTypeOK, GatewayTypeOK
  <2>3. pc' = pc /\ req' = req
    BY <1>2 DEF Submit, serviceVars
  <2>4. SUFFICES ASSUME NEW h \in Client, NEW b \in Attempt PROVE IsAttempt(h, b)'
    BY DEF RequestInv
  <2>5. CASE h = g
    BY <2>1, <2>3, <2>5 DEF IsAttempt
  <2>6. CASE h # g
    BY <2>2, <2>3, <2>6 DEF RequestInv, IsAttempt, ServiceRequest
  <2> QED
    BY <2>5, <2>6
<1>3. ASSUME NEW g \in Client, NEW a \in Attempt, NEW r \in Replica, Deliver(g, a, r)
      PROVE  RequestInv'
  <2>1. P!Receive(<<g, a>>, r, ServiceRequest(wish[g])) /\ <<g, a>> \in Call
    BY <1>3, SameReceive DEF Deliver, Call
  <2>2. /\ req' = [req EXCEPT ![<<g, a>>] = ServiceRequest(wish[g])]
        /\ \E l : pc' = [pc EXCEPT ![<<g, a>>] = l]
    BY <2>1
       DEF P!Receive, P!Admit, P!Replay, P!RefuseReuse, P!StartLookup, P!Arrive, P!Finish,
           P!Goto
  <2>3. req'[<<g, a>>] = ServiceRequest(wish[g])
    BY <2>1, <2>2 DEF P!Inv, P!TypeInv, P!TypeOK
  <2>4. wish' = wish /\ attempt' = attempt /\ a <= attempt[g]["orders"]
    BY <1>3 DEF Deliver, gatewayVars
  <2>5. SUFFICES ASSUME NEW h \in Client, NEW b \in Attempt PROVE IsAttempt(h, b)'
    BY DEF RequestInv
  <2>6. CASE h = g /\ b = a
    BY <2>3, <2>4, <2>6 DEF IsAttempt, ServiceRequest
  <2>7. CASE <<h, b>> # <<g, a>>
    <3>1. pc'[<<h, b>>] = pc[<<h, b>>] /\ req'[<<h, b>>] = req[<<h, b>>]
      BY <2>2, <2>7 DEF P!Inv, P!TypeInv, P!TypeOK, Call
    <3> QED
      BY <2>4, <3>1 DEF RequestInv, IsAttempt, ServiceRequest
  <2> QED
    BY <2>6, <2>7
<1>4. ASSUME NEW g \in Client, Refuse(g) PROVE RequestInv'
  <2>1. P!Drop(Current(g))
    BY <1>4, SameDrop DEF Refuse
  <2>2. req' = req /\ pc' = [pc EXCEPT ![Current(g)] = "lost"]
    BY <2>1 DEF P!Drop, P!Goto
  <2>3. wish' = wish /\ attempt' = attempt
    BY <1>4 DEF Refuse, gatewayVars
  <2>4. attempt[g]["orders"] \in Attempt
    BY <1>4, CurrentIsCall DEF Refuse
  <2>5. \A h \in Client, b \in Attempt :
           <<h, b>> # Current(g) => pc'[<<h, b>>] = pc[<<h, b>>]
    BY <2>2 DEF P!Inv, P!TypeInv, P!TypeOK, Call
  <2>6. attempt[g]["orders"] <= attempt[g]["orders"]
    BY <2>4 DEF Attempt
  <2> QED
    BY <2>2, <2>3, <2>5, <2>6 DEF RequestInv, IsAttempt, ServiceRequest, Current
<1>5. ASSUME Serve PROVE RequestInv'
  <2>1. req' = req /\ \A c \in Call : pc[c] = "idle" => pc'[c] = "idle"
    BY <1>5, ServeStartsNothing
  <2>2. wish' = wish /\ attempt' = attempt
    BY <1>5 DEF Serve, gatewayVars
  <2> QED
    BY <2>1, <2>2 DEF RequestInv, IsAttempt, ServiceRequest, Call
<1>6. ASSUME NEW g \in Client, Reply(g) \/ Disconnect(g) \/ ReceiptReply(g) \/ GiveUp(g) \/ Retry(g)
      PROVE  RequestInv'
  <2>1. wish' = wish /\ pc' = pc /\ req' = req
    BY <1>6 DEF Reply, Disconnect, ReceiptReply, GiveUp, Retry, GotOrder, GotError, GotReceipt,
                TimeOut, Resend, serviceVars
  <2>2. \A h \in Client : attempt[h]["orders"] <= attempt'[h]["orders"]
    <3>1. \A h \in Client : attempt[h]["orders"] \in Int
      BY DEF FlowTypeOK, GatewayTypeOK, Stage, Attempt
    <3>2. \/ attempt' = attempt
          \/ attempt' = [attempt EXCEPT ![g] = [attempt[g] EXCEPT !["receipt"] = 1]]
          \/ attempt' = [attempt EXCEPT ![g] = [attempt[g] EXCEPT ![stage[g]] = attempt[g][stage[g]] + 1]]
      BY <1>6 DEF Reply, Disconnect, ReceiptReply, GiveUp, Retry, GotOrder, GotError, GotReceipt,
                  TimeOut, Resend
    <3> QED
      BY <3>1, <3>2 DEF FlowTypeOK, GatewayTypeOK, Stage
  <2>3. \A h \in Client : attempt[h]["orders"] \in Int /\ attempt'[h]["orders"] \in Int
    <3>1. GatewayTypeOK'
      BY NextHandlerInv
    <3> QED
      BY <3>1 DEF FlowTypeOK, GatewayTypeOK, Stage, Attempt
  <2>4. SUFFICES ASSUME NEW h \in Client, NEW b \in Attempt PROVE IsAttempt(h, b)'
    BY DEF RequestInv
  <2>5. b <= attempt[h]["orders"] => b <= attempt'[h]["orders"]
    BY <2>2, <2>3, RetryAssumption DEF Attempt
  <2> QED
    BY <2>1, <2>5 DEF RequestInv, IsAttempt, ServiceRequest
<1>7. UNCHANGED flowVars => UNCHANGED <<wish, attempt>> /\ UNCHANGED <<pc, req>>
  BY DEF flowVars, gatewayVars, serviceVars
<1> QED
  BY <1>1, <1>2, <1>3, <1>4, <1>5, <1>6, <1>7 DEF Next
-----------------------------------------------------------------------------

\* The answer to a call stays what it was.
LEMMA AnswerKept ==
    ASSUME P!Inv, P!Keeps, NEW c \in Call, NEW code, P!Answered(c, code)
    PROVE  P!Answered(c, code)' /\ ans'[c] = ans[c]
BY DEF P!Answered, P!Inv, P!SafetyInv, P!AnswerInv, P!Keeps

LEMMA NextBodyInv ==
    ASSUME P!Inv, P!Keeps, FlowTypeOK, HandlerInv, BodyInv, [Next]_flowVars
    PROVE  BodyInv'
<1> SUFFICES ASSUME NEW h \in Client
             PROVE  /\ (body[h] # None => P!Answered(Current(h), "OK") /\ body[h] = ans[Current(h)])'
                    /\ (http[h] = 400 => \E c \in Calls(h) : P!Answered(c, "INVALID_ARGUMENT"))'
  BY DEF BodyInv, Calls
\* What request h was told before the step is still so.
<1>1. ASSUME body'[h] = body[h], body[h] # None => attempt'[h]["orders"] = attempt[h]["orders"]
      PROVE  (body[h] # None => P!Answered(Current(h), "OK") /\ body[h] = ans[Current(h)])'
  <2> SUFFICES ASSUME body[h] # None
               PROVE  P!Answered(Current(h), "OK")' /\ body'[h] = ans'[Current(h)']
    BY <1>1
  <2>1. phase[h] # "idle"
    BY DEF HandlerInv
  <2>2. Current(h)' = Current(h) /\ Current(h) \in Call
    BY <1>1, <2>1, CurrentIsCall DEF Current
  <2>3. P!Answered(Current(h), "OK") /\ body[h] = ans[Current(h)]
    BY DEF BodyInv
  <2>4. P!Answered(Current(h), "OK")' /\ ans'[Current(h)] = ans[Current(h)]
    <3> DEFINE c == Current(h)
    <3>1. (ans[c] # None /\ ans[c].code = "OK") => (ans'[c] # None /\ ans'[c].code = "OK") /\ ans'[c] = ans[c]
      BY <2>2, AnswerKept DEF P!Answered
    <3> QED
      BY <2>2, <2>3, <3>1 DEF P!Answered
  <2> QED
    BY <1>1, <2>2, <2>3, <2>4
<1>2. ASSUME http'[h] = 400 => http[h] = 400
      PROVE  (http[h] = 400 => \E c \in Calls(h) : P!Answered(c, "INVALID_ARGUMENT"))'
  BY <1>2, AnswerKept DEF BodyInv, Calls, Call
<1>3. CASE UNCHANGED gatewayVars
  BY <1>1, <1>2, <1>3 DEF gatewayVars
<1>4. ASSUME NEW g \in Client, NEW w \in Wish, Submit(g, w)
      PROVE  /\ body'[h] = body[h] /\ (body[h] # None => attempt'[h]["orders"] = attempt[h]["orders"])
             /\ http' = http
  BY <1>4 DEF Submit, Begin, HandlerInv, FlowTypeOK, GatewayTypeOK
<1>5. ASSUME NEW g \in Client, Retry(g)
      PROVE  /\ body'[h] = body[h] /\ (body[h] # None => attempt'[h]["orders"] = attempt[h]["orders"])
             /\ http' = http
  <2>1. attempt' = [attempt EXCEPT ![g] = [attempt[g] EXCEPT ![stage[g]] = attempt[g][stage[g]] + 1]]
    BY <1>5 DEF Retry, Resend
  <2>2. h = g /\ body[h] # None => stage[g] = "receipt"
    BY <1>5 DEF Retry, Resend, HandlerInv, FlowTypeOK, GatewayTypeOK, Stage
  <2> QED
    BY <1>5, <2>1, <2>2 DEF Retry, Resend, FlowTypeOK, GatewayTypeOK, Stage
<1>6. ASSUME NEW g \in Client, NEW e, GotError(g, e), e # "INVALID_ARGUMENT"
      PROVE  body' = body /\ attempt' = attempt /\ (http'[h] = 400 => http[h] = 400)
  <2>1. MapGrpcError(e) # 400
    BY <1>6, MappedErrors
  <2> QED
    BY <1>6, <2>1 DEF GotError, Respond, FlowTypeOK, GatewayTypeOK
<1>7. ASSUME NEW g \in Client, GotReceipt(g)
      PROVE  body' = body /\ attempt' = attempt /\ (http'[h] = 400 => http[h] = 400)
  BY <1>7 DEF GotReceipt, Respond, FlowTypeOK, GatewayTypeOK
<1>8. ASSUME NEW g \in Client, Reply(g)
      PROVE  /\ (body[h] # None => P!Answered(Current(h), "OK") /\ body[h] = ans[Current(h)])'
             /\ (http[h] = 400 => \E c \in Calls(h) : P!Answered(c, "INVALID_ARGUMENT"))'
  <2> DEFINE b == ans[Current(g)]
  <2>1. /\ Current(g) \in Calls(g) /\ Current(g) \in Call /\ ans' = ans
        /\ b # None
    BY <1>8, CurrentIsCall DEF Reply, serviceVars, P!Inv, P!SafetyInv, P!AnswerInv
  <2>2. CASE b.code = "OK"
    <3>1. body' = [body EXCEPT ![g] = b] /\ \A i \in Client : attempt'[i]["orders"] = attempt[i]["orders"]
      <4>1. GotOrder(g, b)
        BY <1>8, <2>2 DEF Reply
      <4>2. \/ attempt' = attempt
            \/ attempt' = [attempt EXCEPT ![g] = [attempt[g] EXCEPT !["receipt"] = 1]]
        BY <4>1 DEF GotOrder
      <4> QED
        BY <4>1, <4>2 DEF GotOrder, FlowTypeOK, GatewayTypeOK, Stage
    <3>2. http'[h] = 400 => http[h] = 400
      BY <1>8, <2>2 DEF Reply, GotOrder, Respond, FlowTypeOK, GatewayTypeOK
    <3>3. CASE h # g
      BY <1>1, <1>2, <3>1, <3>2, <3>3 DEF FlowTypeOK
    <3>4. CASE h = g
      BY <1>2, <2>1, <2>2, <3>1, <3>2, <3>4 DEF FlowTypeOK, Current, P!Answered
    <3> QED
      BY <3>3, <3>4
  <2>3. CASE b.code # "OK"
    <3>1. GotError(g, b.code)
      BY <1>8, <2>3 DEF Reply
    <3>2. CASE b.code # "INVALID_ARGUMENT"
      BY <1>1, <1>2, <1>6, <3>1, <3>2
    <3>3. CASE b.code = "INVALID_ARGUMENT" /\ h = g
      <4>1. body' = body /\ attempt' = attempt
        BY <3>1 DEF GotError
      <4>2. \E c \in Calls(h)' : P!Answered(c, "INVALID_ARGUMENT")'
        BY <2>1, <3>3 DEF P!Answered, Calls
      <4> QED
        BY <1>1, <4>1, <4>2
    <3>4. CASE h # g
      BY <1>1, <1>2, <3>1, <3>4 DEF GotError, Respond, FlowTypeOK, GatewayTypeOK
    <3> QED
      BY <3>2, <3>3, <3>4
  <2> QED
    BY <2>2, <2>3
<1>9. ASSUME NEW g \in Client, Disconnect(g) \/ GiveUp(g) \/ ReceiptReply(g)
      PROVE  /\ (body[h] # None => P!Answered(Current(h), "OK") /\ body[h] = ans[Current(h)])'
             /\ (http[h] = 400 => \E c \in Calls(h) : P!Answered(c, "INVALID_ARGUMENT"))'
  <2>1. body' = body /\ attempt' = attempt /\ (http'[h] = 400 => http[h] = 400)
    <3>1. GotReceipt(g) \/ GotError(g, "UNAVAILABLE") \/ GotError(g, "TIMEOUT")
      BY <1>9 DEF Disconnect, GiveUp, TimeOut, ReceiptReply
    <3> QED
      BY <1>6, <1>7, <3>1
  <2> QED
    BY <1>1, <1>2, <2>1
<1>10. ASSUME NEW g \in Client, \/ Retry(g)
                                \/ \E w \in Wish : Submit(g, w)
       PROVE /\ (body[h] # None => P!Answered(Current(h), "OK") /\ body[h] = ans[Current(h)])'
             /\ (http[h] = 400 => \E c \in Calls(h) : P!Answered(c, "INVALID_ARGUMENT"))'
  <2>1. /\ body'[h] = body[h] /\ (body[h] # None => attempt'[h]["orders"] = attempt[h]["orders"])
        /\ http' = http
    BY <1>4, <1>5, <1>10
  <2> QED
    BY <1>1, <1>2, <2>1
<1>11. UNCHANGED flowVars => UNCHANGED gatewayVars
  BY DEF flowVars
<1> QED
  BY <1>3, <1>8, <1>9, <1>10, <1>11 DEF Next, Deliver, Refuse, Serve
-----------------------------------------------------------------------------

\* What clients are told is true of the orders table.
LEMMA ToldIsTrue ==
    ASSUME P!Inv, P!AnswersInv, FlowTypeOK, HandlerInv, BodyInv, NEW k \in Told
    PROVE  /\ k \in [order : OrderId, status : Service!Status]
           /\ orders[k.order] # None
           /\ k.status = "CANCELLED" => orders[k.order].status = "CANCELLED"
<1>1. PICK h \in Client : http[h] = 200 /\ k = [order |-> body[h].order, status |-> body[h].status]
  BY DEF Told
<1>2. body[h] # None /\ phase[h] # "idle"
  BY <1>1, NoAnswerAssumption DEF HandlerInv, HttpStatus
<1>3. /\ Current(h) \in Call /\ body[h] = ans[Current(h)]
      /\ P!Answered(Current(h), "OK")
  BY <1>2, CurrentIsCall DEF BodyInv
<1>4. body[h].order \in OrderId /\ orders[body[h].order] # None
  BY <1>3 DEF P!Inv, P!SafetyInv, P!AnswerInv
<1>5. /\ body[h].status \in P!Status
      /\ body[h].status = "CANCELLED" => orders[body[h].order].status = "CANCELLED"
  BY <1>3 DEF P!AnswersInv, P!LookupAnswer
<1> QED
  BY <1>1, <1>4, <1>5 DEF P!Status, Service!Status

LEMMA NextKnownInv ==
    ASSUME P!Inv, P!AnswersInv, P!Keeps, [P!Next]_(P!vars), FlowTypeOK, HandlerInv, RequestInv,
           BodyInv, KnownInv, [Next]_flowVars
    PROVE  KnownInv' /\ known' \in [Client -> SUBSET [order : OrderId, status : Service!Status]]
<1>1. CASE known' = known
  <2> SUFFICES ASSUME NEW g \in Client, NEW k \in known[g], k.status = "CANCELLED"
               PROVE  /\ orders'[k.order] # None /\ orders'[k.order].status = "CANCELLED"
                      /\ \A c \in Calls(g) : P!SeesCancelled(c, k.order)'
    BY <1>1 DEF KnownInv, FlowTypeOK, Calls
  <2>1. k.order \in OrderId
    BY DEF FlowTypeOK
  <2>2. /\ orders[k.order] # None /\ orders[k.order].status = "CANCELLED"
        /\ \A c \in Calls(g) : c \in Call /\ P!SeesCancelled(c, k.order)
    BY DEF KnownInv, Calls, Call
  <2>3. \A c \in Calls(g) : P!SeesCancelled(c, k.order)'
    BY <2>1, <2>2, SightsKept
  <2> QED
    BY <2>1, <2>2, <2>3 DEF P!Keeps
<1>2. ASSUME NEW g \in Client, NEW w \in Wish, Submit(g, w)
      PROVE  KnownInv' /\ known' \in [Client -> SUBSET [order : OrderId, status : Service!Status]]
  <2>1. known' = [known EXCEPT ![g] = Told] /\ UNCHANGED <<orders, pc, req, copy, ans>>
    BY <1>2 DEF Submit, serviceVars
  <2>2. Told \subseteq [order : OrderId, status : Service!Status]
    BY ToldIsTrue
  <2>3. known' \in [Client -> SUBSET [order : OrderId, status : Service!Status]]
    BY <2>1, <2>2 DEF FlowTypeOK
  <2>4. \A c \in Calls(g) : req[c] = None
    BY <1>2, NothingCalled DEF Submit, Begin
  <2>5. ASSUME NEW k \in known'[g], k.status = "CANCELLED"
        PROVE  /\ orders'[k.order] # None /\ orders'[k.order].status = "CANCELLED"
               /\ \A c \in Calls(g) : P!SeesCancelled(c, k.order)'
    <3>1. k \in Told
      BY <2>1, <2>5 DEF FlowTypeOK
    <3> QED
      BY <2>1, <2>4, <2>5, <3>1, ToldIsTrue DEF P!SeesCancelled
  <2>6. ASSUME NEW h \in Client \ {g}, NEW k \in known'[h], k.status = "CANCELLED"
        PROVE  /\ orders'[k.order] # None /\ orders'[k.order].status = "CANCELLED"
               /\ \A c \in Calls(h) : P!SeesCancelled(c, k.order)'
    <3>1. k \in known[h]
      BY <2>1, <2>6 DEF FlowTypeOK
    <3> QED
      BY <2>1, <2>6, <3>1 DEF KnownInv, P!SeesCancelled, P!Answered
  <2>7. KnownInv'
    BY <2>5, <2>6 DEF KnownInv, Calls
  <2> QED
    BY <2>3, <2>7
<1> QED
  BY <1>1, <1>2
     DEF Next, Deliver, Refuse, Serve, Reply, Disconnect, ReceiptReply, GiveUp, Retry, flowVars
-----------------------------------------------------------------------------

LEMMA InitIInv == Init => IInv
<1> SUFFICES ASSUME Init PROVE IInv
  OBVIOUS
<1>1. P!Inv /\ P!AnswersInv
  BY SameInit, ServiceFacts DEF Init
<1>2. FlowTypeOK
  <2>1. Service!TypeOK
    BY <1>1, SameTypes DEF P!Inv, P!TypeInv
  <2> QED
    BY <2>1 DEF Init, GatewayInit, FlowTypeOK, GatewayTypeOK, Phase, Stage
<1>3. HandlerInv /\ RequestInv /\ BodyInv /\ KnownInv
  <2>1. \A g \in Client, a \in Attempt : pc[<<g, a>>] = "idle" /\ req[<<g, a>>] = None
    BY DEF Init, Service!Init, Call
  <2>2. RequestInv
    BY <2>1 DEF RequestInv, IsAttempt
  <2>3. HandlerInv /\ BodyInv /\ KnownInv
    BY NoAnswerAssumption, RetryAssumption
       DEF Init, GatewayInit, HandlerInv, BodyInv, KnownInv, Stage, HttpStatus
  <2> QED
    BY <2>2, <2>3
<1> QED
  BY <1>1, <1>2, <1>3 DEF IInv

LEMMA NextIInv == IInv /\ [Next]_flowVars => IInv'
<1> SUFFICES ASSUME IInv, [Next]_flowVars PROVE IInv'
  OBVIOUS
<1> USE DEF IInv
<1>1. [P!Next]_(P!vars)
  BY FlowStepsAreServiceSteps
<1>2. P!Inv' /\ P!AnswersInv' /\ P!Keeps
  BY <1>1, ServiceFacts
<1>3. GatewayTypeOK' /\ HandlerInv' /\ body' \in [Client -> Service!Answer \cup {None}]
  BY NextHandlerInv
<1>4. RequestInv'
  BY NextRequestInv
<1>5. BodyInv'
  BY <1>2, NextBodyInv
<1>6. KnownInv' /\ known' \in [Client -> SUBSET [order : OrderId, status : Service!Status]]
  BY <1>1, <1>2, NextKnownInv
<1>7. FlowTypeOK'
  <2>1. Service!TypeOK'
    BY <1>2, SameTypes DEF P!Inv, P!TypeInv
  <2>2. Service!Answer' = Service!Answer /\ Service!Status' = Service!Status
    BY DEF Service!Answer, Service!Status, Service!Code
  <2> QED
    BY <1>3, <1>6, <2>1, <2>2 DEF FlowTypeOK
<1> QED
  BY <1>2, <1>3, <1>4, <1>5, <1>6, <1>7

LEMMA Invariance == Spec => []IInv
  BY InitIInv, NextIInv, PTL DEF Spec
-----------------------------------------------------------------------------

\* The state of the gateway and of the service keeps its shape.
THEOREM FlowTypeCorrect == Spec => []FlowTypeOK
<1>1. IInv => FlowTypeOK
  BY DEF IInv
<1> QED
  BY <1>1, Invariance, PTL

\* A 200 comes from the last attempt's call, which was answered OK.
LEMMA OkAnswer ==
    ASSUME IInv, NEW g \in Client, http[g] = 200
    PROVE  /\ wish[g] \in Wish /\ wish[g] # None
           /\ Current(g) \in Calls(g) /\ Current(g) \in Call
           /\ body[g] = ans[Current(g)] /\ P!Answered(Current(g), "OK")
           /\ req[Current(g)] = ServiceRequest(wish[g]) /\ req[Current(g)] # None
<1> USE DEF IInv
<1>1. body[g] # None /\ phase[g] # "idle"
  BY NoAnswerAssumption DEF HandlerInv, HttpStatus
<1>2. wish[g] \in Wish /\ Current(g) \in Calls(g) /\ Current(g) \in Call
  BY <1>1, CurrentIsCall
<1>3. body[g] = ans[Current(g)] /\ P!Answered(Current(g), "OK")
  BY <1>1 DEF BodyInv
<1>4. req[Current(g)] # None
  BY <1>2, <1>3, SameAssumptions
     DEF P!Answered, P!Inv, P!SafetyInv, P!AnswerInv, P!NoneAssumption
<1>5. req[Current(g)] = ServiceRequest(wish[g])
  BY <1>1, <1>4, CurrentIsCall DEF RequestInv, IsAttempt, Current
<1> QED
  BY <1>2, <1>3, <1>4, <1>5, NoWishAssumption

\* What the gateway answers with 200 is true of the database, whatever was timed
\* out, retried, delivered late or lost on the way.
THEOREM OksAreTrue == Spec => []OkIsTrue
<1> DEFINE IsTrue(g) ==
        LET row == orders[body[g].order] IN
        /\ row # None
        /\ body[g].status = "CANCELLED" => row.status = "CANCELLED"
        /\ Wants(g, "create") =>
              /\ row.payload = wish[g].payload
              /\ \/ row.creator \in Calls(g)
                 \/ wish[g].key # None /\ req[row.creator].key = wish[g].key
        /\ Wants(g, "cancel") => body[g].status = "CANCELLED"
        /\ ~Wants(g, "create") => body[g].order = wish[g].order
        /\ Wants(g, "read") \/ Wants(g, "receipt") =>
              body[g].packages = NumPackages /\ body[g].payload = row.payload
<1>1. ASSUME IInv, NEW g \in Client, http[g] = 200 PROVE IsTrue(g)
  <2> DEFINE c == Current(g)
             row == orders[body[g].order]
  <2>1. /\ wish[g] \in Wish /\ wish[g] # None
        /\ c \in Calls(g) /\ c \in Call
        /\ body[g] = ans[c] /\ P!Answered(c, "OK")
        /\ req[c] = ServiceRequest(wish[g]) /\ req[c] # None
    BY <1>1, OkAnswer
  <2> HIDE DEF c
  <2>2. row # None /\ (req[c].op = "read" => body[g].packages = NumPackages)
    BY <1>1, <2>1 DEF IInv, P!Inv, P!SafetyInv, P!AnswerInv
  <2>3. /\ req[c].op \in {"cancel", "read"} => body[g].order = req[c].order
        /\ req[c].op = "cancel" => body[g].status = "CANCELLED"
        /\ req[c].op = "read" => body[g].payload = row.payload
        /\ body[g].status = "CANCELLED" => row.status = "CANCELLED"
    BY <1>1, <2>1 DEF IInv, P!AnswersInv, P!LookupAnswer
  <2>4. CASE wish[g].op = "create"
    <3>1. req[c] = wish[g]
      BY <2>1, <2>4 DEF ServiceRequest
    <3>2. P!MadeFor(c, body[g].order)
      BY <1>1, <2>1, <2>4, <3>1
         DEF IInv, P!Inv, P!SafetyInv, P!CreateAnswersAreTruthful, P!IsCreate
    <3> QED
      BY <2>1, <2>2, <2>3, <2>4, <3>1, <3>2 DEF P!MadeFor, Wants
  <2>5. CASE wish[g].op # "create"
    <3>1. /\ wish[g].op \in {"cancel", "read", "receipt"}
          /\ wish[g] \in [op : {"cancel", "read", "receipt"}, key : {None}, payload : {None}, order : OrderId]
      BY <2>1, <2>5, WishAssumption DEF Service!CreateRequest
    <3>2. /\ req[c].order = wish[g].order
          /\ req[c].op = IF wish[g].op = "cancel" THEN "cancel" ELSE "read"
      BY <2>1, <3>1 DEF ServiceRequest
    <3> QED
      BY <2>2, <2>3, <2>5, <3>1, <3>2 DEF Wants
  <2> QED
    BY <2>4, <2>5
<1>2. IInv => OkIsTrue
  BY <1>1 DEF OkIsTrue
<1> QED
  BY <1>2, Invariance, PTL

\* Every call of a request that reached the service carries the same request.
LEMMA SameRequest ==
    ASSUME IInv, NEW g \in Client, NEW c \in Calls(g), req[c] # None
    PROVE  /\ c \in Call /\ req[c] = ServiceRequest(wish[g])
           /\ c[2] \in Attempt /\ c = <<g, c[2]>> /\ c[2] <= attempt[g]["orders"]
<1>1. PICK a \in Attempt : c = <<g, a>>
  BY DEF Calls
<1> QED
  BY <1>1 DEF IInv, RequestInv, IsAttempt, Call

\* The creator of an order of the request is one of its calls, and made that one.
LEMMA CreatorIsCall ==
    ASSUME IInv, NEW g \in Client, NEW o \in OrdersOf(g)
    PROVE  /\ orders[o].creator \in Calls(g) /\ orders[o].creator \in Call
           /\ req[orders[o].creator] \in P!CreateRequest /\ req[orders[o].creator] # None
           /\ made[orders[o].creator] = o
           /\ P!Created(orders[o].creator) # {}
<1>1. o \in OrderId /\ orders[o] # None /\ orders[o].creator \in Calls(g)
  BY DEF OrdersOf
<1>2. req[orders[o].creator] \in P!CreateRequest /\ made[orders[o].creator] = o
  BY <1>1 DEF IInv, P!Inv, P!SafetyInv, P!DatabaseInv
<1>3. req[orders[o].creator] # None
  BY <1>2, SameAssumptions DEF P!NoneAssumption, P!Request
<1> QED
  BY <1>1, <1>2, <1>3 DEF Calls, Call, P!Created

\* A client that is told 400 has no order, and no late attempt of its request will
\* still insert one.
THEOREM BadRequestsMakeNothing == Spec => []BadRequestMeansNothing
<1>1. ASSUME IInv, NEW g \in Client, http[g] = 400
      PROVE  OrdersOf(g) = {} /\ \A c \in Calls(g) : pc[c] \notin {"saving", "inserting", "committed"}
  <2>1. PICK c \in Calls(g) : P!Answered(c, "INVALID_ARGUMENT")
    BY <1>1 DEF IInv, BodyInv
  <2>2. c \in Call
    BY <2>1 DEF Calls, Call
  <2>3. req[c] # None /\ req[c].payload \notin ValidPayload
    BY <1>1, <2>1, <2>2 DEF IInv, P!AnswersInv, P!RefusedPayload, P!IsCreate
  <2>4. \A d \in Calls(g) : req[d] # None => d \in Call /\ req[d].payload \notin ValidPayload
    BY <1>1, <2>1, <2>3, SameRequest
  <2>5. OrdersOf(g) = {}
    <3> SUFFICES ASSUME NEW o \in OrdersOf(g) PROVE FALSE
      OBVIOUS
    <3> DEFINE d == orders[o].creator
    <3>1. d \in Calls(g) /\ d \in Call /\ req[d] # None /\ P!Created(d) # {}
      BY <1>1, CreatorIsCall
    <3> QED
      BY <1>1, <2>4, <3>1 DEF IInv, P!AnswersInv, P!RefusedPayload
  <2>6. ASSUME NEW d \in Calls(g), pc[d] \in {"saving", "inserting", "committed"} PROVE FALSE
    <3>1. d \in Call
      BY DEF Calls, Call
    <3>2. req[d] # None /\ req[d].payload \in ValidPayload
      BY <1>1, <2>6, <3>1, SameAssumptions
         DEF IInv, P!AnswersInv, P!RefusedPayload, P!Saving, P!Creating, P!Inv, P!TypeInv,
             P!HandlerInv, P!NoneAssumption, P!Request
    <3> QED
      BY <2>4, <3>2
  <2> QED
    BY <2>5, <2>6
<1>2. IInv => BadRequestMeansNothing
  BY <1>1 DEF BadRequestMeansNothing
<1> QED
  BY <1>2, Invariance, PTL

\* A request inserts a second order only for an attempt whose outcome the gateway
\* did not learn.
THEOREM OnlyUncertaintyDuplicates == Spec => []DuplicatesAreUncertain
<1>1. ASSUME IInv, NEW g \in Client
      PROVE  Cardinality(OrdersOf(g)) <=
                1 + Cardinality({a \in Attempt : a < attempt[g]["orders"] /\ ~Refused(<<g, a>>)})
  <2> DEFINE n == attempt[g]["orders"]
             Unsure == {a \in Attempt : a < n /\ ~Refused(<<g, a>>)}
             f == [o \in OrdersOf(g) |-> orders[o].creator[2]]
  <2>1. \A o \in OrdersOf(g) :
           /\ orders[o].creator = <<g, f[o]>> /\ f[o] \in Attempt /\ f[o] <= n
           /\ made[orders[o].creator] = o
           /\ ~Refused(<<g, f[o]>>)
    <3> SUFFICES ASSUME NEW o \in OrdersOf(g)
                 PROVE  /\ orders[o].creator = <<g, f[o]>> /\ f[o] \in Attempt /\ f[o] <= n
                        /\ made[orders[o].creator] = o
                        /\ ~Refused(<<g, f[o]>>)
      OBVIOUS
    <3> DEFINE c == orders[o].creator
    <3>1. /\ c \in Calls(g) /\ c \in Call /\ made[c] = o
          /\ req[c] \in P!CreateRequest /\ req[c] # None /\ P!Created(c) # {}
      BY <1>1, CreatorIsCall
    <3>2. c = <<g, c[2]>> /\ c[2] \in Attempt /\ c[2] <= n
      BY <1>1, <3>1, SameRequest
    <3>3. ~Refused(c)
      BY <1>1, <3>1
         DEF IInv, P!Inv, P!SafetyInv, P!RefusalsAreTruthful, P!IsCreate, P!CreateRequest,
             Refused, Service!Answered, P!Answered
    <3> QED
      BY <3>1, <3>2, <3>3
  <2>2. n \in Int
    BY <1>1 DEF IInv, FlowTypeOK, GatewayTypeOK, Stage, Attempt
  <2>3. f \in Injection(OrdersOf(g), Unsure \cup {n})
    <3>1. f \in [OrdersOf(g) -> Unsure \cup {n}]
      BY <2>1, <2>2 DEF Attempt
    <3>2. ASSUME NEW o \in OrdersOf(g), NEW q \in OrdersOf(g), f[o] = f[q] PROVE o = q
      <4>1. made[<<g, f[o]>>] = o /\ made[<<g, f[q]>>] = q
        BY <2>1
      <4> QED
        BY <3>2, <4>1
    <3> QED
      BY <3>1, <3>2 DEF Injection, IsInjective
  <2>4. IsFiniteSet(Unsure)
    <3>1. IsFiniteSet(Attempt)
      BY FS_Interval, RetryAssumption DEF Attempt
    <3>2. Unsure \in SUBSET Attempt
      OBVIOUS
    <3> QED
      BY <3>1, <3>2, FS_Subset
  <2>5. /\ IsFiniteSet(Unsure \cup {n})
        /\ Cardinality(Unsure \cup {n}) = IF n \in Unsure THEN Cardinality(Unsure) ELSE Cardinality(Unsure) + 1
    BY <2>4, FS_AddElement
  <2>6. Cardinality(OrdersOf(g)) <= Cardinality(Unsure \cup {n}) /\ IsFiniteSet(OrdersOf(g))
    BY <2>3, <2>5, FS_Injection
  <2>7. Cardinality(Unsure) \in Nat /\ Cardinality(OrdersOf(g)) \in Nat
    BY <2>4, <2>6, FS_CardinalityType
  <2> QED
    BY <2>5, <2>6, <2>7
<1>2. IInv => DuplicatesAreUncertain
  BY <1>1 DEF DuplicatesAreUncertain
<1> QED
  BY <1>2, Invariance, PTL

\* Once a client was told that an order is cancelled, every request made from then
\* on sees that, on whatever replica and attempt it is served.
THEOREM CancellationsAreSeen == Spec => []CancellationIsSeen
<1>1. ASSUME IInv, NEW g \in Client, http[g] = 200, ~Wants(g, "create"),
             [order |-> wish[g].order, status |-> "CANCELLED"] \in known[g]
      PROVE  body[g].status = "CANCELLED" /\ ~Wants(g, "cancel")
  <2> DEFINE c == Current(g)
  <2>1. /\ wish[g] \in Wish /\ wish[g] # None /\ c \in Calls(g)
        /\ body[g] = ans[c] /\ P!Answered(c, "OK")
        /\ req[c] = ServiceRequest(wish[g]) /\ req[c] # None
    BY <1>1, OkAnswer
  <2> HIDE DEF c
  <2>2. P!SeesCancelled(c, wish[g].order)
    BY <1>1, <2>1 DEF IInv, KnownInv
  <2>3. wish[g] \in [op : {"cancel", "read", "receipt"}, key : {None}, payload : {None}, order : OrderId]
    BY <1>1, <2>1, WishAssumption DEF Service!CreateRequest, Wants
  <2>4. /\ req[c].order = wish[g].order
        /\ req[c].op = IF wish[g].op = "cancel" THEN "cancel" ELSE "read"
    BY <2>1, <2>3 DEF ServiceRequest
  <2> QED
    BY <2>1, <2>2, <2>3, <2>4 DEF P!SeesCancelled, Wants
<1>2. IInv => CancellationIsSeen
  BY <1>1 DEF CancellationIsSeen
<1> QED
  BY <1>2, Invariance, PTL

\* An attempt that reaches the process that answered another call with its key is
\* not priced again while the entry lives: a behaviour of the gateway and the
\* service is one of the service, whose theorem says so.
THEOREM AttemptsFindTheOriginal == Spec => AttemptsFindOriginal
<1>1. Init => P!Init
  BY SameInit DEF Init
<1>2. IInv /\ [Next]_flowVars => [P!Next]_(P!vars)
  BY FlowStepsAreServiceSteps DEF IInv
<1>3. P!Spec => P!RetryFindsOriginal
  BY SameAssumptions, P!RetriesFindOriginal
<1>4. P!RetryFindsOriginal => Service!RetryFindsOriginal
  BY PTL DEF P!RetryFindsOriginal, Service!RetryFindsOriginal,
     P!Original, Service!Original, P!IsCreate, Service!IsCreate,
     P!Answered, Service!Answered, P!vars, Service!vars, P!database, Service!database
<1> QED
  BY <1>1, <1>2, <1>3, <1>4, Invariance, PTL DEF Spec, P!Spec, AttemptsFindOriginal
=============================================================================
