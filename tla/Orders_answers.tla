---------------------------- MODULE Orders_answers ----------------------------
(***************************************************************************)
(* Proofs about single calls to the orders service that a caller who makes *)
(* several of them relies on: what answers to lookups and refusals mean,   *)
(* that whoever looks an order up after it was cancelled sees that, and    *)
(* that a retry finds what was answered to the original.                   *)
(***************************************************************************)
EXTENDS Orders_proofs

\* A successful lookup answers the order it was asked for, as it was; after a
\* successful cancellation the order is cancelled.
LookupAnswer(c) ==
    Answered(c, "OK") =>
        LET row == orders[ans[c].order] IN
        /\ req[c].op \in {"cancel", "read"} => ans[c].order = req[c].order
        /\ req[c].op = "cancel" => ans[c].status = "CANCELLED"
        /\ req[c].op = "read" => ans[c].payload = row.payload
        /\ ans[c].status \in Status
        /\ ans[c].status = "CANCELLED" => row.status = "CANCELLED"

\* Only payloads that the pricing service accepts are saved, and only others are
\* refused as invalid.
RefusedPayload(c) ==
    /\ pc[c] \in Saving \/ Created(c) # {} => req[c].payload \in ValidPayload
    /\ Answered(c, "INVALID_ARGUMENT") => IsCreate(c) /\ req[c].payload \notin ValidPayload

AnswersInv == \A c \in Call : LookupAnswer(c) /\ RefusedPayload(c)

\* Call c, if it looks order o up, finds it cancelled.
SeesCancelled(c, o) ==
    req[c] # None /\ req[c].op \in {"cancel", "read"} /\ req[c].order = o =>
        /\ pc[c] \in LookingUp \ {"finding"} => pc[c] = "loading" /\ copy[c].status = "CANCELLED"
        /\ Answered(c, "OK") => req[c].op = "read" /\ ans[c].status = "CANCELLED"
-----------------------------------------------------------------------------

\* Rows are inserted by calls that were saving.
LEMMA CreatedBySaving ==
    ASSUME Inv, [Next]_vars, NEW d \in Call, Created(d)' # {}
    PROVE  Created(d) # {} \/ pc[d] \in Saving
<1>1. CASE orders' = orders
  BY <1>1 DEF Created
<1>2. ASSUME NEW c \in Call, Commit(c) PROVE Created(d) # {} \/ pc[d] \in Saving
  BY <1>2 DEF Commit, Created, Saving, Inv, TypeInv, TypeOK
<1>3. ASSUME NEW c \in Call, ApplyUpdate(c) PROVE Created(d) # {} \/ pc[d] \in Saving
  <2>1. /\ req[c].order \in OrderId /\ orders[req[c].order] \in Row
        /\ orders' = [orders EXCEPT ![req[c].order].status = "CANCELLED"]
    BY <1>3 DEF ApplyUpdate, Inv, TypeInv, TypeOK, HandlerInv, LookingUp, LookupRequest
  <2>2. \A o \in OrderId : orders'[o] # None => orders[o] # None /\ orders'[o].creator = orders[o].creator
    BY <2>1, NoneAssumption DEF Inv, TypeInv, TypeOK, Row
  <2> QED
    BY <2>2 DEF Created
<1> QED
  BY <1>1, <1>2, <1>3
     DEF Next, vars, Receive, Admit, Replay, RefuseReuse, StartLookup, Arrive,
         Drop, Handle, Fail, Priced, PricingRefuses, PricingFails, InsertOrder,
         InsertDuplicate, InsertPackage, SaveFails, FinishCreate, FindNothing,
         FindRow, AnswerRead, RefuseCancel, StartUpdate, FinishCancel, LookupFails,
         Environment, Tick, Crash, database

\* A call that was not answered and did not begin to save.
LEMMA CallKept ==
    ASSUME Inv, Keeps, NEW d \in Call, LookupAnswer(d), RefusedPayload(d),
           ans'[d] = ans[d], req'[d] = req[d],
           pc'[d] \in Saving => pc[d] \in Saving,
           Created(d)' # {} => Created(d) # {} \/ pc[d] \in Saving
    PROVE  LookupAnswer(d)' /\ RefusedPayload(d)'
<1>1. LookupAnswer(d)'
  <2>1. CASE Answered(d, "OK")
    <3>1. ans[d].order \in OrderId /\ orders[ans[d].order] # None
      BY <2>1 DEF Inv, SafetyInv, AnswerInv
    <3> QED
      BY <2>1, <3>1 DEF LookupAnswer, Answered, Keeps
  <2>2. CASE ~Answered(d, "OK")
    BY <2>2 DEF LookupAnswer, Answered
  <2> QED
    BY <2>1, <2>2
<1>2. RefusedPayload(d)'
  BY DEF RefusedPayload, Answered, IsCreate
<1> QED
  BY <1>1, <1>2

\* A call that a replica has just got has created nothing.
LEMMA NewCallCreatedNothing ==
    ASSUME Inv, NEW c \in Call, pc[c] \in {"idle", "pricing"}
    PROVE  Created(c) = {}
BY DEF Created, Inv, SafetyInv, DatabaseInv

LEMMA ReceiveAnswers ==
    ASSUME Inv, AnswersInv, [Next]_vars, Keeps,
           NEW c \in Call, NEW r \in Replica, NEW q \in Request, Receive(c, r, q)
    PROVE  AnswersInv'
<1>1. \A d \in Call \ {c} : ans'[d] = ans[d] /\ req'[d] = req[d] /\ pc'[d] = pc[d]
  BY DEF Receive, Admit, Replay, RefuseReuse, StartLookup, Arrive, Finish, Goto,
         Inv, TypeInv, TypeOK
<1>2. pc[c] = "idle" /\ ans[c] = None /\ orders' = orders /\ req'[c] = q
  BY DEF Receive, Admit, Replay, RefuseReuse, StartLookup, Arrive, database,
         Inv, SafetyInv, AnswerInv, TypeInv, TypeOK
<1>3. Created(c)' = {}
  BY <1>2, NewCallCreatedNothing DEF Created
<1>4. pc'[c] \notin Saving
  BY DEF Receive, Admit, Replay, RefuseReuse, StartLookup, Finish, Goto, Saving,
         Inv, TypeInv, TypeOK
<1>5. \/ ans'[c] = None
      \/ ans'[c].code = "ALREADY_EXISTS"
      \/ ans'[c].code = "OK" /\ ans'[c].status = "ACTIVE" /\ req'[c].op = "create"
  BY <1>2 DEF Receive, Admit, Replay, RefuseReuse, StartLookup, Finish, Goto, Success, Failure,
         OnWire, Inv, TypeInv, TypeOK
<1>6. LookupAnswer(c)' /\ RefusedPayload(c)'
  BY <1>3, <1>4, <1>5 DEF LookupAnswer, RefusedPayload, Answered, Status
<1>7. ASSUME NEW d \in Call \ {c} PROVE LookupAnswer(d)' /\ RefusedPayload(d)'
  BY <1>1, CallKept, CreatedBySaving DEF AnswersInv
<1> QED
  BY <1>6, <1>7 DEF AnswersInv

\* An answer with an error that blames no payload says nothing.
LEMMA ThrownAnswers ==
    ASSUME Inv, AnswersInv, NEW c \in Call, pc[c] # "idle", NEW code \in Code \ {"OK", "INVALID_ARGUMENT"},
           Throw(c, code), UNCHANGED <<orders, req>>
    PROVE  LookupAnswer(c)' /\ RefusedPayload(c)'
<1>1. /\ ans'[c] # None /\ ans'[c].code \notin {"OK", "INVALID_ARGUMENT"}
      /\ pc'[c] = "answered"
  <2>1. ans'[c] = Failure(OnWire(req[c].op, code)) /\ pc'[c] = "answered"
    BY DEF Throw, Finish, Inv, TypeInv, TypeOK
  <2>2. Failure(OnWire(req[c].op, code)).code \notin {"OK", "INVALID_ARGUMENT"}
    BY DEF Failure, OnWire
  <2>3. Failure(OnWire(req[c].op, code)) \in Answer
    BY ThrownType DEF Inv, TypeInv
  <2> QED
    BY <2>1, <2>2, <2>3, NoneAssumption
<1>2. Created(c)' = Created(c)
  BY DEF Created
<1> QED
  BY <1>1, <1>2 DEF AnswersInv, LookupAnswer, RefusedPayload, Answered, Saving

LEMMA LookupAnswers ==
    ASSUME Inv, NEW c \in Call, AnswerRead(c) \/ FinishCancel(c)
    PROVE  LookupAnswer(c)' /\ RefusedPayload(c)'
<1>1. /\ req[c] \in LookupRequest /\ orders[req[c].order] # None /\ ~IsCreate(c)
      /\ copy[c].payload = orders[req[c].order].payload
      /\ copy[c].status = "CANCELLED" => orders[req[c].order].status = "CANCELLED"
      /\ pc[c] = "updated" => orders[req[c].order].status = "CANCELLED" /\ req[c].op = "cancel"
  BY DEF AnswerRead, FinishCancel, Inv, TypeInv, HandlerInv, LookingUp, LookupRequest, IsCreate,
         SafetyInv, CopyInv
<1>2. Created(c)' = {} /\ UNCHANGED <<orders, req>>
  <2>1. Created(c) = {}
    BY <1>1 DEF Created, Inv, SafetyInv, DatabaseInv, AnswerRead, FinishCancel
  <2> QED
    BY <2>1 DEF AnswerRead, FinishCancel, database, Created
<1>3. CASE AnswerRead(c)
  <2> DEFINE a == Success(req[c].order, copy[c].payload, copy[c].status, packages[req[c].order])
  <2>1. ans'[c] = a /\ pc'[c] = "answered" /\ req[c].op = "read"
    BY <1>3 DEF AnswerRead, Finish, Inv, TypeInv, TypeOK
  <2>2. /\ a.code = "OK" /\ a.order = req[c].order
        /\ a.payload = copy[c].payload /\ a.status = copy[c].status /\ copy[c].status \in Status
    BY <1>1, <1>3 DEF Success, AnswerRead, Inv, TypeInv, HandlerInv, LookingUp, Row
  <2> QED
    BY <1>1, <1>2, <2>1, <2>2 DEF LookupAnswer, RefusedPayload, Answered, Saving
<1>4. CASE FinishCancel(c)
  <2> DEFINE a == Success(req[c].order, None, "CANCELLED", 0)
  <2>1. ans'[c] = a /\ pc'[c] = "answered" /\ req[c].op = "cancel"
    BY <1>1, <1>4 DEF FinishCancel, Finish, Inv, TypeInv, TypeOK
  <2>2. a.code = "OK" /\ a.order = req[c].order /\ a.status = "CANCELLED"
    BY DEF Success
  <2>3. orders[req[c].order].status = "CANCELLED"
    BY <1>1, <1>4 DEF FinishCancel
  <2> QED
    BY <1>1, <1>2, <2>1, <2>2, <2>3 DEF LookupAnswer, RefusedPayload, Answered, Saving, Status
<1> QED
  BY <1>3, <1>4

LEMMA CreateAnswers ==
    ASSUME Inv, AnswersInv, NEW c \in Call, PricingRefuses(c) \/ FinishCreate(c)
    PROVE  LookupAnswer(c)' /\ RefusedPayload(c)'
<1>1. req[c] \in CreateRequest /\ UNCHANGED <<orders, req>> /\ Created(c)' = Created(c)
  BY DEF PricingRefuses, FinishCreate, Inv, TypeInv, HandlerInv, Creating, Saving, database, Created
<1>2. CASE PricingRefuses(c)
  <2>1. /\ ans'[c] = Failure("INVALID_ARGUMENT") /\ pc'[c] = "answered"
        /\ req[c].payload \notin ValidPayload /\ Created(c) = {}
    BY <1>1, <1>2, NewCallCreatedNothing
       DEF PricingRefuses, Throw, Finish, OnWire, CreateRequest, Inv, TypeInv, TypeOK
  <2>2. Failure("INVALID_ARGUMENT").code = "INVALID_ARGUMENT"
    BY DEF Failure
  <2>3. req[c] # None /\ req[c].op = "create"
    BY <1>1, NoneAssumption DEF CreateRequest, Request
  <2> QED
    BY <1>1, <2>1, <2>2, <2>3 DEF LookupAnswer, RefusedPayload, Answered, Saving, IsCreate
<1>3. CASE FinishCreate(c)
  <2> DEFINE a == Success(made[c], req[c].payload, "ACTIVE", NumPackages)
  <2>1. ans'[c] = a /\ pc'[c] = "answered" /\ req[c].op = "create"
    BY <1>1, <1>3 DEF FinishCreate, Finish, CreateRequest, Inv, TypeInv, TypeOK
  <2>2. a.code = "OK" /\ a.status = "ACTIVE"
    BY DEF Success
  <2>3. req[c].payload \in ValidPayload
    BY <1>3 DEF FinishCreate, AnswersInv, RefusedPayload, Saving
  <2> QED
    BY <1>1, <2>1, <2>2, <2>3 DEF LookupAnswer, RefusedPayload, Answered, Saving, Status
<1> QED
  BY <1>2, <1>3

\* A step of a handler that neither answers nor begins to save.
LEMMA SilentAnswers ==
    ASSUME Inv, AnswersInv, [Next]_vars, Keeps, NEW c \in Call,
           \/ Drop(c) \/ Priced(c) \/ InsertOrder(c) \/ InsertPackage(c) \/ Commit(c)
           \/ FindRow(c) \/ StartUpdate(c) \/ ApplyUpdate(c)
    PROVE  LookupAnswer(c)' /\ RefusedPayload(c)'
<1>1. ans' = ans /\ req' = req
  BY DEF Drop, Priced, InsertOrder, InsertPackage, Commit, FindRow, StartUpdate, ApplyUpdate, Goto
<1>2. CASE Priced(c)
  <2>1. /\ pc[c] = "pricing" /\ ans[c] = None /\ req[c].payload \in ValidPayload
    BY <1>2 DEF Priced, Inv, SafetyInv, AnswerInv
  <2> QED
    BY <1>1, <2>1 DEF LookupAnswer, RefusedPayload, Answered
<1>3. CASE ~Priced(c)
  <2>1. pc'[c] \in Saving => pc[c] \in Saving
    BY <1>3 DEF Drop, InsertOrder, InsertPackage, Commit, FindRow, StartUpdate, ApplyUpdate,
                Goto, Saving, Inv, TypeInv, TypeOK
  <2> QED
    BY <1>1, <2>1, CallKept, CreatedBySaving DEF AnswersInv
<1> QED
  BY <1>2, <1>3

LEMMA HandlerAnswers ==
    ASSUME Inv, AnswersInv, [Next]_vars, Keeps, NEW c \in Call, Drop(c) \/ Handle(c) \/ Fail(c)
    PROVE  AnswersInv'
<1>1. /\ \A d \in Call \ {c} : ans'[d] = ans[d] /\ pc'[d] = pc[d]
      /\ req' = req
  BY DEF Drop, Handle, Fail, Priced, PricingRefuses, PricingFails, InsertOrder,
         InsertDuplicate, InsertPackage, Commit, SaveFails, FinishCreate, FindNothing,
         FindRow, AnswerRead, RefuseCancel, StartUpdate, ApplyUpdate, FinishCancel,
         LookupFails, Throw, Finish, Goto, Inv, TypeInv, TypeOK
<1>2. ASSUME NEW d \in Call \ {c} PROVE LookupAnswer(d)' /\ RefusedPayload(d)'
  BY <1>1, CallKept, CreatedBySaving DEF AnswersInv
<1>3. LookupAnswer(c)' /\ RefusedPayload(c)'
  <2>1. CASE PricingFails(c) \/ InsertDuplicate(c) \/ SaveFails(c) \/ FindNothing(c)
             \/ RefuseCancel(c) \/ LookupFails(c)
    <3>1. /\ pc[c] # "idle" /\ UNCHANGED <<orders, req>>
          /\ \E code \in Code \ {"OK", "INVALID_ARGUMENT"} : Throw(c, code)
      BY <2>1 DEF PricingFails, InsertDuplicate, SaveFails, FindNothing, RefuseCancel, LookupFails,
                  Code, database
    <3> QED
      BY <3>1, ThrownAnswers
  <2> QED
    BY <2>1, LookupAnswers, CreateAnswers, SilentAnswers DEF Handle, Fail
<1> QED
  BY <1>2, <1>3 DEF AnswersInv

LEMMA InitAnswers == Init => AnswersInv
BY DEF Init, AnswersInv, LookupAnswer, RefusedPayload, Answered, Saving, Created

LEMMA NextAnswers == Inv /\ AnswersInv /\ [Next]_vars => AnswersInv'
<1> SUFFICES ASSUME Inv, AnswersInv, [Next]_vars PROVE AnswersInv'
  OBVIOUS
<1>1. Keeps
  BY NextKeeps
<1>2. CASE Environment \/ UNCHANGED vars
  <2>1. ans' = ans /\ req' = req /\ \A d \in Call : pc'[d] \in Saving => pc[d] \in Saving
    BY <1>2 DEF Environment, Tick, Crash, vars, Saving, Inv, TypeInv, TypeOK
  <2> QED
    BY <1>1, <2>1, CallKept, CreatedBySaving DEF AnswersInv
<1> QED
  BY <1>1, <1>2, ReceiveAnswers, HandlerAnswers DEF Next
-----------------------------------------------------------------------------

\* Once an order is cancelled, whoever looks it up goes on to see that.
LEMMA SightKept ==
    ASSUME Inv, [Next]_vars, NEW o \in OrderId, NEW d \in Call,
           orders[o] # None, orders[o].status = "CANCELLED", SeesCancelled(d, o)
    PROVE  SeesCancelled(d, o)'
<1> USE DEF Inv, TypeInv
<1>1. CASE /\ req'[d] = req[d] /\ copy'[d] = copy[d] /\ ans'[d] = ans[d]
           /\ pc'[d] \in LookingUp => pc'[d] = pc[d]
  BY <1>1 DEF SeesCancelled, Answered
<1>2. CASE Environment \/ UNCHANGED vars
  BY <1>1, <1>2 DEF Environment, Tick, Crash, vars, TypeOK, LookingUp
<1>3. ASSUME NEW c \in Call \ {d}, NEW r \in Replica, NEW q \in Request, Receive(c, r, q)
      PROVE  SeesCancelled(d, o)'
  BY <1>1, <1>3 DEF Receive, Admit, Replay, RefuseReuse, StartLookup, Arrive, Finish, Goto, TypeOK
<1>4. ASSUME NEW c \in Call \ {d}, Drop(c) \/ Handle(c) \/ Fail(c)
      PROVE  SeesCancelled(d, o)'
  BY <1>1, <1>4 DEF Drop, Handle, Fail, Priced, PricingRefuses, PricingFails, InsertOrder,
         InsertDuplicate, InsertPackage, Commit, SaveFails, FinishCreate, FindNothing,
         FindRow, AnswerRead, RefuseCancel, StartUpdate, ApplyUpdate, FinishCancel,
         LookupFails, Throw, Finish, Goto, TypeOK
<1>5. ASSUME NEW r \in Replica, NEW q \in Request, Receive(d, r, q)
      PROVE  SeesCancelled(d, o)'
  <2>1. pc[d] = "idle" /\ ans[d] = None /\ req'[d] = q
    BY <1>5
       DEF Receive, Admit, Replay, RefuseReuse, StartLookup, Arrive, TypeOK, SafetyInv,
           AnswerInv
  <2>2. pc'[d] \notin LookingUp \ {"finding"}
    BY <1>5 DEF Receive, Admit, Replay, RefuseReuse, StartLookup, Finish, Goto, TypeOK, LookingUp
  <2>3. ans'[d] = None \/ ans'[d].code # "OK" \/ q.op = "create"
    BY <1>5, <2>1
       DEF Receive, Admit, Replay, RefuseReuse, StartLookup, Finish, Goto, Failure, OnWire,
           TypeOK
  <2> QED
    BY <2>1, <2>2, <2>3 DEF SeesCancelled, Answered
<1>6. CASE Drop(d) \/ Priced(d) \/ InsertOrder(d) \/ InsertPackage(d) \/ Commit(d)
  BY <1>1, <1>6 DEF Drop, Priced, InsertOrder, InsertPackage, Commit, Goto, TypeOK, LookingUp
<1>7. CASE FinishCreate(d) \/ PricingRefuses(d)
  <2>1. req[d].op = "create" /\ req' = req
    BY <1>7 DEF FinishCreate, PricingRefuses, HandlerInv, Creating, Saving, CreateRequest
  <2> QED
    BY <2>1 DEF SeesCancelled
<1>8. CASE PricingFails(d) \/ InsertDuplicate(d) \/ SaveFails(d) \/ FindNothing(d)
           \/ RefuseCancel(d) \/ LookupFails(d)
  <2>1. PICK code \in Code \ {"OK"} : Throw(d, code)
    BY <1>8
       DEF PricingFails, InsertDuplicate, SaveFails, FindNothing, RefuseCancel, LookupFails,
           Code
  <2>2. Failure(OnWire(req[d].op, code)).code # "OK"
    BY <2>1 DEF Failure, OnWire
  <2>3. pc'[d] = "answered" /\ ans'[d] = Failure(OnWire(req[d].op, code))
    BY <2>1 DEF Throw, Finish, TypeOK
  <2> QED
    BY <2>2, <2>3 DEF SeesCancelled, Answered, LookingUp
<1>9. CASE FindRow(d)
  <2>1. /\ req' = req /\ ans'[d] = None
        /\ pc'[d] = "loading" /\ copy'[d] = orders[req[d].order]
    BY <1>9 DEF FindRow, Goto, TypeOK, SafetyInv, AnswerInv
  <2> QED
    BY <2>1 DEF SeesCancelled, Answered
<1>10. CASE StartUpdate(d) \/ ApplyUpdate(d) \/ FinishCancel(d)
  <2>1. req[d] \in LookupRequest /\ req' = req
    BY <1>10 DEF StartUpdate, ApplyUpdate, FinishCancel, HandlerInv, LookingUp
  <2>2. req[d] # None
    BY <2>1, NoneAssumption DEF Request
  <2>3. req[d].order # o
    BY <1>10, <2>1, <2>2
       DEF SeesCancelled, StartUpdate, ApplyUpdate, FinishCancel, LookupRequest, LookingUp
  <2> QED
    BY <2>1, <2>3 DEF SeesCancelled
<1>11. CASE AnswerRead(d)
  <2> DEFINE a == Success(req[d].order, copy[d].payload, copy[d].status, packages[req[d].order])
  <2>1. /\ ans'[d] = a /\ pc'[d] = "answered" /\ req' = req /\ req[d].op = "read"
        /\ pc[d] = "loading"
    BY <1>11 DEF AnswerRead, Finish, TypeOK
  <2>2. a.status = copy[d].status
    BY DEF Success
  <2> QED
    BY <2>1, <2>2 DEF SeesCancelled, Answered, LookingUp
<1> QED
  BY <1>2, <1>3, <1>4, <1>5, <1>6, <1>7, <1>8, <1>9, <1>10, <1>11 DEF Next, Handle, Fail
-----------------------------------------------------------------------------

\* While the process that made an order for a key lives, it has an entry for the
\* key that is at least as young as its answer, until the answer is too old.
Remembered(d) ==
    /\ proc[d] \in Replica \X Nat /\ proc[d][2] <= incarnation[proc[d][1]]
    /\ ans[d].at <= now
    /\ proc[d][2] = incarnation[proc[d][1]] /\ now - ans[d].at <= TTL =>
          LET entry == store[proc[d][1]][req[d].key] IN
          entry # None /\ ans[d].at <= entry.createdAt

OriginalInv ==
    \A d \in Call :
        /\ pc[d] = "idle" => made[d] = None
        /\ Original(d) /\ req[d].key # None => Remembered(d)

\* A call generates an order id only when it was priced.
LEMMA MadeKept ==
    ASSUME Inv, [Next]_vars, NEW d \in Call, pc[d] # "pricing"
    PROVE  made'[d] = made[d]
<1>1. ASSUME NEW c \in Call, Priced(c) PROVE made'[d] = made[d]
  BY <1>1 DEF Priced, Inv, TypeInv, TypeOK
<1>2. ASSUME NEW c \in Call, NEW r, NEW q, Receive(c, r, q) PROVE made' = made
  BY <1>2 DEF Receive, Admit, Replay, RefuseReuse, StartLookup, Arrive
<1>3. ASSUME NEW c \in Call, Drop(c) \/ Handle(c) \/ Fail(c), ~Priced(c) PROVE made' = made
  BY <1>3 DEF Drop, Handle, Fail, PricingRefuses, PricingFails, InsertOrder,
       InsertDuplicate, InsertPackage, Commit, SaveFails, FinishCreate, FindNothing,
       FindRow, AnswerRead, RefuseCancel, StartUpdate, ApplyUpdate, FinishCancel, LookupFails
<1>4. Environment \/ UNCHANGED vars => made' = made
  BY DEF Environment, Tick, Crash, vars
<1> QED
  BY <1>1, <1>2, <1>3, <1>4 DEF Next

\* Only the end of createOrder answers with the order that the call made.
LEMMA NewOriginal ==
    ASSUME Inv, OriginalInv, [Next]_vars, NEW d \in Call, Original(d)'
    PROVE  \/ FinishCreate(d)
           \/ /\ Original(d) /\ pc[d] = "answered"
              /\ ans'[d] = ans[d] /\ req'[d] = req[d] /\ proc'[d] = proc[d]
<1> USE DEF Inv, TypeInv
<1>1. CASE ans'[d] = ans[d]
  <2>1. pc[d] = "answered"
    BY <1>1 DEF Original, Answered, SafetyInv, AnswerInv
  <2>2. req'[d] = req[d] /\ proc'[d] = proc[d]
    BY <2>1, NextKeeps DEF Keeps
  <2>3. made'[d] = made[d]
    BY <2>1, MadeKept
  <2> QED
    BY <1>1, <2>1, <2>2, <2>3 DEF Original, IsCreate, Answered
<1>2. CASE ans'[d] # ans[d]
  <2>1. ASSUME NEW r \in Replica, NEW q \in Request, Receive(d, r, q) PROVE FALSE
    <3>1. pc[d] = "idle" /\ made'[d] = None
      BY <2>1 DEF Receive, Admit, Replay, RefuseReuse, StartLookup, Arrive, OriginalInv
    <3>2. CASE Replay(d, r, q)
      <4> DEFINE response == store[r][q.key].response
      <4>1. ans'[d] = Success(response.order, response.payload, "ACTIVE", NumPackages)
        BY <3>2 DEF Replay, Finish, TypeOK
      <4>2. q.key \in Key
        BY <3>2 DEF Replay, Hit, Request, CreateRequest, LookupRequest
      <4>3. response.order \in OrderId
        BY <3>2, <4>2 DEF Replay, Hit, Live, TypeOK, Entry, Response
      <4> QED
        BY <3>1, <4>1, <4>3, NoneAssumption DEF Original, Success
    <3>3. CASE RefuseReuse(d, r, q)
      <4>1. ans'[d].code = "ALREADY_EXISTS"
        BY <3>3 DEF RefuseReuse, Finish, Failure, OnWire, TypeOK
      <4> QED
        BY <4>1 DEF Original, Answered
    <3> QED
      BY <1>2, <2>1, <3>2, <3>3 DEF Receive, Admit, StartLookup, Goto
  <2>2. ASSUME NEW code \in Code \ {"OK"}, Throw(d, code) PROVE FALSE
    <3>1. ans'[d] = Failure(OnWire(req[d].op, code))
      BY <2>2 DEF Throw, Finish, TypeOK
    <3>2. Failure(OnWire(req[d].op, code)).code # "OK"
      BY DEF Failure, OnWire
    <3> QED
      BY <3>1, <3>2 DEF Original, Answered
  <2>3. CASE AnswerRead(d) \/ FinishCancel(d)
    <3>1. req[d].op # "create" /\ req'[d] = req[d]
      BY <2>3 DEF AnswerRead, FinishCancel, HandlerInv, LookingUp, LookupRequest
    <3> QED
      BY <3>1 DEF Original, IsCreate
  <2>4. CASE PricingRefuses(d) \/ PricingFails(d) \/ InsertDuplicate(d) \/ SaveFails(d)
             \/ FindNothing(d) \/ RefuseCancel(d) \/ LookupFails(d)
    <3>1. \E code \in Code \ {"OK"} : Throw(d, code)
      BY <2>4 DEF PricingRefuses, PricingFails, InsertDuplicate, SaveFails, FindNothing,
                  RefuseCancel, LookupFails, Code
    <3> QED
      BY <2>2, <3>1
  <2>5. ASSUME NEW c \in Call \ {d}, Handle(c) \/ Fail(c) \/ \E r \in Replica, q \in Request : Receive(c, r, q)
        PROVE  ans'[d] = ans[d]
    BY <2>5 DEF Handle, Fail, Receive, Admit, Replay, RefuseReuse, StartLookup, Arrive,
         Priced, PricingRefuses, PricingFails, InsertOrder,
         InsertDuplicate, InsertPackage, Commit, SaveFails, FinishCreate, FindNothing,
         FindRow, AnswerRead, RefuseCancel, StartUpdate, ApplyUpdate, FinishCancel,
         LookupFails, Throw, Finish, Goto, TypeOK
  <2>6. CASE Priced(d) \/ InsertOrder(d) \/ InsertPackage(d) \/ Commit(d) \/ FindRow(d)
             \/ StartUpdate(d) \/ ApplyUpdate(d)
    BY <1>2, <2>6 DEF Priced, InsertOrder, InsertPackage, Commit, FindRow, StartUpdate, ApplyUpdate, Goto
  <2>7. Environment \/ UNCHANGED vars \/ (\E c \in Call : Drop(c)) => ans' = ans
    BY DEF Environment, Tick, Crash, vars, Drop, Goto
  <2> QED
    BY <1>2, <2>1, <2>3, <2>4, <2>5, <2>6, <2>7 DEF Next, Handle, Fail
<1> QED
  BY <1>1, <1>2

\* The store forgets only what is too old, and what it writes is young.
LEMMA StoreKept ==
    ASSUME Inv, [Next]_vars, NEW r \in Replica, NEW k \in Key, NEW t \in Nat,
           incarnation'[r] = incarnation[r], t <= now, now' - t <= TTL,
           store[r][k] # None, t <= store[r][k].createdAt
    PROVE  store'[r][k] # None /\ t <= store'[r][k].createdAt
<1> USE DEF Inv, TypeInv
<1>1. now \in Nat /\ store[r][k] \in Entry /\ store[r][k].createdAt \in Nat
  BY DEF TypeOK, Entry
<1>2. CASE store' = store
  BY <1>2
<1>3. ASSUME NEW c \in Call, NEW s \in Replica, NEW q \in Request, Admit(c, s, q)
      PROVE  store'[r][k] = store[r][k]
  <2>1. now' = now
    BY <1>3 DEF Admit, Arrive
  <2>2. Live(r, k)
    BY <1>1, <2>1, SizeAssumption DEF Live
  <2>3. s # r \/ q.key # k \/ q.key = None
    BY <1>3, <2>2 DEF Admit, Hit
  <2> QED
    BY <1>3, <2>3, NoneAssumption DEF Admit, Forget, TypeOK
<1>4. ASSUME NEW c \in Call, FinishCreate(c), req[c].key # None
      PROVE  store'[r][k] # None /\ t <= store'[r][k].createdAt
  <2> DEFINE entry == [payload |-> req[c].payload,
                       response |-> [order |-> made[c], payload |-> req[c].payload],
                       createdAt |-> now]
  <2>1. store' = [store EXCEPT ![proc[c][1]][req[c].key] = entry]
    BY <1>4 DEF FinishCreate, Remember
  <2>2. entry \in Entry /\ entry # None
    BY <1>1, <1>4, NoneAssumption
       DEF FinishCreate, HandlerInv, Creating, Saving, CreateRequest, Entry, Response
  <2>3. store'[r][k] = store[r][k] \/ store'[r][k] = entry
    BY <2>1 DEF TypeOK
  <2> QED
    BY <1>1, <2>2, <2>3
<1>5. ASSUME NEW s \in Replica, Crash(s) PROVE store'[r][k] = store[r][k]
  <2>1. s # r
    BY <1>5, SizeAssumption DEF Crash, TypeOK
  <2> QED
    BY <1>5, <2>1 DEF Crash, TypeOK
<1>6. ASSUME NEW c \in Call, NEW s \in Replica, NEW q \in Request, Receive(c, s, q),
             ~Admit(c, s, q)
      PROVE  store' = store
  BY <1>6 DEF Receive, Replay, RefuseReuse, StartLookup
<1>7. ASSUME NEW c \in Call, Drop(c) \/ Handle(c) \/ Fail(c), ~FinishCreate(c)
      PROVE  store' = store
  BY <1>7 DEF Drop, Handle, Fail, Priced, PricingRefuses, PricingFails, InsertOrder,
       InsertDuplicate, InsertPackage, Commit, SaveFails, FindNothing,
       FindRow, AnswerRead, RefuseCancel, StartUpdate, ApplyUpdate, FinishCancel, LookupFails
<1>8. ASSUME NEW c \in Call, FinishCreate(c), req[c].key = None
      PROVE  store' = store
  BY <1>8 DEF FinishCreate
<1>9. Tick \/ UNCHANGED vars => store' = store
  BY DEF Tick, vars
<1> QED
  BY <1>1, <1>2, <1>3, <1>4, <1>5, <1>6, <1>7, <1>8, <1>9 DEF Next, Environment

LEMMA InitOriginalInv == Init => OriginalInv
BY DEF Init, OriginalInv, Original, Answered

\* The clock and the incarnations only grow.
LEMMA TimeGrows ==
    ASSUME Inv, [Next]_vars
    PROVE  now <= now' /\ \A r \in Replica : incarnation[r] <= incarnation'[r]
<1>1. now \in Nat /\ \A r \in Replica : incarnation[r] \in Nat
  BY SizeAssumption DEF Inv, TypeInv, TypeOK
<1>2. CASE UNCHANGED <<now, incarnation>>
  BY <1>1, <1>2
<1>3. CASE Environment
  BY <1>1, <1>3 DEF Environment, Tick, Crash, Inv, TypeInv, TypeOK
<1>4. ASSUME NEW c \in Call,
             Drop(c) \/ Handle(c) \/ Fail(c) \/ \E r \in Replica, q \in Request : Receive(c, r, q)
      PROVE  UNCHANGED <<now, incarnation>>
  BY <1>4 DEF Receive, Admit, Replay, RefuseReuse, StartLookup, Arrive, Drop, Handle, Fail,
       Priced, PricingRefuses, PricingFails, InsertOrder,
       InsertDuplicate, InsertPackage, Commit, SaveFails, FinishCreate, FindNothing,
       FindRow, AnswerRead, RefuseCancel, StartUpdate, ApplyUpdate, FinishCancel, LookupFails
<1> QED
  BY <1>2, <1>3, <1>4 DEF Next, vars

LEMMA NextOriginalInv ==
    ASSUME Inv, OriginalInv, [Next]_vars
    PROVE  OriginalInv'
<1> USE DEF Inv, TypeInv
<1>1. ASSUME NEW d \in Call, pc'[d] = "idle" PROVE made'[d] = None
  <2>1. pc[d] = "idle"
    BY <1>1, NextKeeps DEF Keeps
  <2> QED
    BY <2>1, MadeKept DEF OriginalInv
<1>2. ASSUME NEW d \in Call, Original(d), pc[d] = "answered", req[d].key # None,
             ans'[d] = ans[d], req'[d] = req[d], proc'[d] = proc[d]
      PROVE  Remembered(d)'
  <2> DEFINE r == proc[d][1]
             k == req[d].key
  <2>1. Remembered(d) /\ r \in Replica /\ proc[d][2] \in Nat
    BY <1>2 DEF OriginalInv, Remembered
  <2>2. k \in Key /\ ans[d].at \in Nat /\ now \in Nat /\ incarnation[r] \in Nat
    BY <1>2, <2>1, SizeAssumption
       DEF Original, IsCreate, Request, CreateRequest, LookupRequest, TypeOK, Answer, Answered
  <2>3. now <= now' /\ incarnation[r] <= incarnation'[r] /\ now' \in Nat /\ incarnation'[r] \in Nat
    <3>1. TypeOK'
      BY NextInv
    <3> QED
      BY <2>1, <3>1, TimeGrows, SizeAssumption DEF TypeOK
  <2>4. ASSUME proc[d][2] = incarnation'[r], now' - ans[d].at <= TTL
        PROVE  store'[r][k] # None /\ ans[d].at <= store'[r][k].createdAt
    <3>1. incarnation'[r] = incarnation[r] /\ now - ans[d].at <= TTL /\ ans[d].at <= now
      BY <2>1, <2>2, <2>3, <2>4, SizeAssumption DEF Remembered
    <3>2. store[r][k] # None /\ ans[d].at <= store[r][k].createdAt
      BY <2>1, <2>4, <3>1 DEF Remembered
    <3> QED
      BY <2>1, <2>2, <2>4, <3>1, <3>2, StoreKept
  <2>5. proc[d][2] <= incarnation'[r] /\ ans[d].at <= now'
    BY <2>1, <2>2, <2>3 DEF Remembered
  <2> QED
    BY <1>2, <2>1, <2>4, <2>5 DEF Remembered
<1>3. ASSUME NEW d \in Call, FinishCreate(d), req[d].key # None
      PROVE  Remembered(d)'
  <2> DEFINE r == proc[d][1]
             k == req[d].key
             entry == [payload |-> req[d].payload,
                       response |-> [order |-> made[d], payload |-> req[d].payload],
                       createdAt |-> now]
  <2>1. proc[d] \in Replica \X Nat /\ proc[d][2] = incarnation[r] /\ k \in Key
    BY <1>3 DEF FinishCreate, HandlerInv, Creating, Saving, SafetyInv, ProcessInv, InFlight,
                Location, CreateRequest
  <2>2. /\ ans'[d].at = now /\ now \in Nat
        /\ UNCHANGED <<now, incarnation, req, proc>>
    BY <1>3, SizeAssumption DEF FinishCreate, Finish, Success, TypeOK
  <2>3. entry \in Entry /\ entry # None
    BY <1>3, <2>2, NoneAssumption
       DEF FinishCreate, HandlerInv, Creating, Saving, CreateRequest, Entry, Response
  <2>4. store'[r][k] = entry
    BY <1>3, <2>1 DEF FinishCreate, Remember, TypeOK
  <2>5. incarnation[r] \in Nat
    BY <2>1, SizeAssumption DEF TypeOK
  <2> QED
    BY <2>1, <2>2, <2>3, <2>4, <2>5 DEF Remembered
<1>4. ASSUME NEW d \in Call, Original(d)', req'[d].key # None PROVE Remembered(d)'
  <2>1. CASE FinishCreate(d)
    BY <1>3, <1>4, <2>1 DEF FinishCreate
  <2> QED
    BY <1>2, <1>4, <2>1, NewOriginal
<1> QED
  BY <1>1, <1>4 DEF OriginalInv

\* A retry that reaches the process that answered the original, within the time to
\* live of the answer, is never priced again, however the calls for its key raced.
THEOREM RetriesFindOriginal == Spec => RetryFindsOriginal
<1>1. ASSUME Inv, OriginalInv, Next,
             NEW c \in Call, NEW d \in Call, pc[c] = "idle", pc'[c] = "pricing",
             Original(d), req[d].key # None, req'[c].key = req[d].key, proc'[c] = proc[d]
      PROVE  now - ans[d].at > TTL
  <2>1. PICK r \in Replica, q \in Request : Admit(c, r, q)
    <3>1. ASSUME NEW e \in Call, Drop(e) \/ Handle(e) \/ Fail(e) PROVE FALSE
      BY <1>1, <3>1 DEF Drop, Handle, Fail, Priced, PricingRefuses, PricingFails, InsertOrder,
         InsertDuplicate, InsertPackage, Commit, SaveFails, FinishCreate, FindNothing,
         FindRow, AnswerRead, RefuseCancel, StartUpdate, ApplyUpdate, FinishCancel,
         LookupFails, Throw, Finish, Goto, Inv, TypeInv, TypeOK
    <3>2. ASSUME Environment PROVE FALSE
      BY <1>1, <3>2 DEF Environment, Tick, Crash
    <3>3. ASSUME NEW e \in Call, NEW r \in Replica, NEW q \in Request, Receive(e, r, q)
          PROVE  e = c /\ Admit(c, r, q)
      BY <1>1, <3>3 DEF Receive, Admit, Replay, RefuseReuse, StartLookup, Finish, Goto,
                        Inv, TypeInv, TypeOK
    <3> QED
      BY <1>1, <3>1, <3>2, <3>3 DEF Next
  <2>2. proc[d] = <<r, incarnation[r]>> /\ q.key = req[d].key /\ ~Live(r, q.key)
    BY <1>1, <2>1 DEF Admit, Arrive, Hit, Inv, TypeInv, TypeOK
  <2>3. SUFFICES ASSUME now - ans[d].at <= TTL PROVE FALSE
    <3>1. now \in Nat /\ ans[d].at \in Nat
      BY <1>1, SizeAssumption DEF Inv, TypeInv, TypeOK, Original, Answered, Answer
    <3> QED
      BY <3>1, SizeAssumption
  <2>4. store[r][q.key] # None /\ ans[d].at <= store[r][q.key].createdAt
    BY <1>1, <2>2, <2>3 DEF OriginalInv, Remembered
  <2>5. /\ q.key \in Key /\ store[r][q.key] \in Entry
        /\ now \in Nat /\ ans[d].at \in Nat
    BY <1>1, <2>1, <2>2, <2>4, SizeAssumption
       DEF Inv, TypeInv, TypeOK, Original, Answered, Answer, Request, CreateRequest, LookupRequest
  <2> QED
    BY <2>2, <2>3, <2>4, <2>5, SizeAssumption DEF Live, Entry
<1> DEFINE Found ==
        \A c, d \in Call :
            /\ pc[c] = "idle" /\ pc'[c] = "pricing"
            /\ Original(d) /\ req[d].key # None
            /\ req'[c].key = req[d].key /\ proc'[c] = proc[d]
            => now - ans[d].at > TTL
<1>2. Inv /\ OriginalInv /\ [Next]_vars => [Found]_vars
  BY <1>1
<1>3. Init => Inv /\ OriginalInv
  BY InitInv, InitOriginalInv
<1>4. Inv /\ OriginalInv /\ [Next]_vars => Inv' /\ OriginalInv'
  BY NextInv, NextOriginalInv
<1>5. Spec => [][Found]_vars
  BY <1>2, <1>3, <1>4, PTL DEF Spec
<1> QED
  BY <1>5 DEF RetryFindsOriginal
=============================================================================
