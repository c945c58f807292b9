---------------------------- MODULE Orders_proofs ----------------------------
(***************************************************************************)
(* Proofs about Orders, for every number of replicas, calls, orders, keys  *)
(* and packages, and every bound on the clock and the crashes.             *)
(***************************************************************************)
EXTENDS Orders, FiniteSetTheorems, TLAPS

Saving == {"saving", "inserting", "committed"}
Creating == {"pricing"} \cup Saving
LookingUp == {"finding", "loading", "updating", "updated"}

\* What a suspended handler relies on when it resumes: its request is of the
\* right kind, the values it computed are there, and the order it read still
\* exists.
HandlerInv ==
    \A c \in Call :
        /\ pc[c] \in Creating => req[c] \in CreateRequest /\ proc[c] \in Replica \X Nat
        /\ pc[c] \in Saving => made[c] \in OrderId
        /\ pc[c] \in LookingUp => req[c] \in LookupRequest
        /\ pc[c] \in LookingUp \ {"finding"} =>
                copy[c] \in Row /\ orders[req[c].order] # None

TypeInv == TypeOK /\ HandlerInv

LEMMA SuccessType ==
    ASSUME TypeOK, NEW o \in OrderId, NEW p \in Payload \cup {None},
           NEW s \in Status, NEW n \in Nat
    PROVE  Success(o, p, s, n) \in Answer
BY DEF Success, Answer, TypeOK, Code

LEMMA FailureType ==
    ASSUME TypeOK, NEW code \in Code
    PROVE  Failure(code) \in Answer
BY DEF Failure, Answer, TypeOK, Code

\* Whatever the operation, a thrown error becomes an answer.
LEMMA ThrownType ==
    ASSUME TypeOK, NEW op, NEW code \in Code
    PROVE  Failure(OnWire(op, code)) \in Answer
BY FailureType DEF OnWire, Code

\* A step that only moves or ends one handler keeps the invariant when the
\* handler finds what it relies on at its new location.
LEMMA QuietStep ==
    ASSUME TypeInv, NEW c \in Call,
           UNCHANGED <<now, incarnation, store, database, req, proc, made, inserted, copy>>,
           NEW l \in Location, pc' = [pc EXCEPT ![c] = l],
           \/ UNCHANGED ans
           \/ \E a \in Answer : ans' = [ans EXCEPT ![c] = a],
           \/ l \in {"answered", "lost"}
           \/ pc[c] = "loading" /\ l = "updating"
    PROVE  TypeInv'
<1>1. TypeOK'
  BY DEF TypeInv, TypeOK, database
<1>2. HandlerInv'
  BY DEF TypeInv, TypeOK, HandlerInv, database, Saving, Creating, LookingUp
<1> QED
  BY <1>1, <1>2 DEF TypeInv

LEMMA ThrowStep ==
    ASSUME TypeInv, NEW c \in Call, NEW code \in Code, Throw(c, code),
           UNCHANGED <<now, incarnation, store, database, req, proc, made, inserted, copy>>
    PROVE  TypeInv'
<1>1. Failure(OnWire(req[c].op, code)) \in Answer
  BY ThrownType DEF TypeInv
<1> QED
  BY <1>1, QuietStep DEF Throw, Finish, Location

LEMMA InitTypeInv == Init => TypeInv
BY SizeAssumption DEF Init, TypeInv, TypeOK, HandlerInv, Location, Creating, Saving, LookingUp

LEMMA ReceiveTypeInv ==
    ASSUME TypeInv, NEW c \in Call, NEW r \in Replica, NEW q \in Request, Receive(c, r, q)
    PROVE  TypeInv'
<1> USE DEF TypeInv
<1>1. incarnation[r] \in Nat
  BY SizeAssumption DEF TypeOK
<1>2. CASE Admit(c, r, q)
  <2>1. q \in CreateRequest
    BY <1>2 DEF Admit, Request, CreateRequest, LookupRequest
  <2>2. store' \in [Replica -> [Key -> Entry \cup {None}]]
    <3>1. CASE q.key = None
      BY <1>2, <3>1 DEF Admit, TypeOK
    <3>2. CASE q.key # None
      <4>1. store' = [store EXCEPT ![r][q.key] = None] /\ q.key \in Key
        BY <1>2, <2>1, <3>2 DEF Admit, Forget, CreateRequest
      <4> QED
        BY <4>1 DEF TypeOK
    <3> QED
      BY <3>1, <3>2
  <2>3. TypeOK'
    BY <1>1, <1>2, <2>2 DEF Admit, Arrive, Goto, TypeOK, database, Location
  <2>4. HandlerInv'
    BY <1>1, <1>2, <2>1 DEF Admit, Arrive, Goto, TypeOK, HandlerInv, database,
                            Saving, Creating, LookingUp
  <2> QED
    BY <2>3, <2>4
<1>3. CASE Replay(c, r, q)
  <2> DEFINE response == store[r][q.key].response
             a == Success(response.order, response.payload, "ACTIVE", NumPackages)
  <2>1. q.key \in Key
    BY <1>3 DEF Replay, Hit, Request, CreateRequest, LookupRequest
  <2>2. store[r][q.key] \in Entry
    BY <1>3, <2>1 DEF Replay, Hit, Live, TypeOK
  <2>3. a \in Answer
    BY <2>2, SuccessType, SizeAssumption DEF Entry, Response, Status
  <2>4. TypeOK'
    BY <1>1, <1>3, <2>3 DEF Replay, Arrive, Finish, TypeOK, database, Location
  <2>5. HandlerInv'
    BY <1>3 DEF Replay, Arrive, Finish, TypeOK, HandlerInv, database,
                Saving, Creating, LookingUp
  <2> QED
    BY <2>4, <2>5
<1>4. CASE RefuseReuse(c, r, q)
  <2>1. Failure(OnWire(q.op, "ALREADY_EXISTS")) \in Answer
    BY ThrownType DEF Code
  <2>2. TypeOK'
    BY <1>1, <1>4, <2>1 DEF RefuseReuse, Arrive, Finish, TypeOK, database, Location
  <2>3. HandlerInv'
    BY <1>4 DEF RefuseReuse, Arrive, Finish, TypeOK, HandlerInv, database,
                Saving, Creating, LookingUp
  <2> QED
    BY <2>2, <2>3
<1>5. CASE StartLookup(c, r, q)
  <2>1. q \in LookupRequest
    BY <1>5 DEF StartLookup, Request, CreateRequest, LookupRequest
  <2>2. TypeOK'
    BY <1>1, <1>5 DEF StartLookup, Arrive, Goto, TypeOK, database, Location
  <2>3. HandlerInv'
    BY <1>5, <2>1 DEF StartLookup, Arrive, Goto, TypeOK, HandlerInv, database,
                      Saving, Creating, LookingUp
  <2> QED
    BY <2>2, <2>3
<1> QED
  BY <1>2, <1>3, <1>4, <1>5 DEF Receive

LEMMA CreateTypeInv ==
    ASSUME TypeInv, NEW c \in Call,
           \/ Priced(c) \/ PricingRefuses(c) \/ PricingFails(c)
           \/ InsertOrder(c) \/ InsertDuplicate(c) \/ InsertPackage(c)
           \/ Commit(c) \/ SaveFails(c) \/ FinishCreate(c)
    PROVE  TypeInv'
<1> USE DEF TypeInv
<1>1. CASE Priced(c)
  <2>1. TypeOK'
    BY <1>1 DEF Priced, Goto, TypeOK, database, Location
  <2>2. HandlerInv'
    BY <1>1 DEF Priced, Goto, TypeOK, HandlerInv, database, Saving, Creating, LookingUp
  <2> QED
    BY <2>1, <2>2
<1>2. CASE PricingRefuses(c)
  BY <1>2, ThrowStep DEF PricingRefuses, Code
<1>3. CASE PricingFails(c)
  BY <1>3, ThrowStep DEF PricingFails, Code
<1>4. CASE InsertOrder(c)
  <2>1. TypeOK'
    BY <1>4, SizeAssumption DEF InsertOrder, Goto, TypeOK, database, Location
  <2>2. HandlerInv'
    BY <1>4 DEF InsertOrder, Goto, TypeOK, HandlerInv, database, Saving, Creating, LookingUp
  <2> QED
    BY <2>1, <2>2
<1>5. CASE InsertDuplicate(c)
  BY <1>5, ThrowStep DEF InsertDuplicate, Code
<1>6. CASE InsertPackage(c)
  <2>1. TypeOK'
    BY <1>6, SizeAssumption DEF InsertPackage, TypeOK, database
  <2>2. HandlerInv'
    BY <1>6 DEF InsertPackage, TypeOK, HandlerInv, database
  <2> QED
    BY <2>1, <2>2
<1>7. CASE Commit(c)
  <2> DEFINE row == [payload |-> req[c].payload, status |-> "ACTIVE", creator |-> c]
  <2>1. req[c] \in CreateRequest /\ made[c] \in OrderId
    BY <1>7 DEF Commit, HandlerInv, Saving, Creating
  <2>2. row \in Row
    BY <2>1 DEF CreateRequest, Row, Status
  <2>3. orders' = [orders EXCEPT ![made[c]] = row]
    BY <1>7 DEF Commit
  <2>4. TypeOK'
    BY <1>7, <2>1, <2>2, <2>3 DEF Commit, Goto, TypeOK, Location
  <2>5. row # None
    BY <2>2, NoneAssumption
  <2>6. \A o \in OrderId : orders[o] # None => orders'[o] # None
    BY <2>3, <2>5 DEF TypeOK
  <2>7. HandlerInv'
    BY <1>7, <2>6 DEF Commit, Goto, TypeOK, HandlerInv, LookupRequest,
                      Saving, Creating, LookingUp
  <2> QED
    BY <2>4, <2>7
<1>8. CASE SaveFails(c)
  BY <1>8, ThrowStep DEF SaveFails, Code
<1>9. CASE FinishCreate(c)
  <2> DEFINE a == Success(made[c], req[c].payload, "ACTIVE", NumPackages)
             entry == [payload   |-> req[c].payload,
                       response  |-> [order |-> made[c], payload |-> req[c].payload],
                       createdAt |-> now]
  <2>1. /\ req[c] \in CreateRequest /\ made[c] \in OrderId
        /\ proc[c][1] \in Replica
    BY <1>9 DEF FinishCreate, HandlerInv, Saving, Creating
  <2>2. a \in Answer
    BY <2>1, SuccessType, SizeAssumption DEF CreateRequest, Status
  <2>3. entry \in Entry
    BY <2>1 DEF CreateRequest, Entry, Response, TypeOK
  <2>4. store' \in [Replica -> [Key -> Entry \cup {None}]]
    <3>1. CASE req[c].key = None
      BY <1>9, <3>1 DEF FinishCreate, TypeOK
    <3>2. CASE req[c].key # None
      <4>1. store' = [store EXCEPT ![proc[c][1]][req[c].key] = entry]
        BY <1>9, <3>2 DEF FinishCreate, Remember
      <4>2. req[c].key \in Key
        BY <2>1, <3>2 DEF CreateRequest
      <4> QED
        BY <2>1, <2>3, <4>1, <4>2 DEF TypeOK
    <3> QED
      BY <3>1, <3>2
  <2>5. TypeOK'
    BY <1>9, <2>2, <2>4 DEF FinishCreate, Finish, TypeOK, database, Location
  <2>6. HandlerInv'
    BY <1>9 DEF FinishCreate, Finish, TypeOK, HandlerInv, database,
                Saving, Creating, LookingUp
  <2> QED
    BY <2>5, <2>6
<1> QED
  BY <1>1, <1>2, <1>3, <1>4, <1>5, <1>6, <1>7, <1>8, <1>9

LEMMA LookupTypeInv ==
    ASSUME TypeInv, NEW c \in Call,
           \/ FindNothing(c) \/ FindRow(c) \/ AnswerRead(c) \/ RefuseCancel(c)
           \/ StartUpdate(c) \/ ApplyUpdate(c) \/ FinishCancel(c) \/ LookupFails(c)
    PROVE  TypeInv'
<1> USE DEF TypeInv
<1>1. CASE FindNothing(c)
  BY <1>1, ThrowStep DEF FindNothing, Code
<1>2. CASE FindRow(c)
  <2>1. req[c].order \in OrderId /\ orders[req[c].order] \in Row
    BY <1>2 DEF FindRow, HandlerInv, LookingUp, LookupRequest, TypeOK
  <2>2. TypeOK'
    BY <1>2, <2>1 DEF FindRow, Goto, TypeOK, database, Location
  <2>3. HandlerInv'
    BY <1>2, <2>1 DEF FindRow, Goto, TypeOK, HandlerInv, database,
                      Saving, Creating, LookingUp
  <2> QED
    BY <2>2, <2>3
<1>3. CASE AnswerRead(c)
  <2>1. copy[c] \in Row /\ req[c].order \in OrderId
    BY <1>3 DEF AnswerRead, HandlerInv, LookingUp, LookupRequest
  <2>2. packages[req[c].order] \in Nat
    BY <2>1, SizeAssumption DEF TypeOK
  <2>3. Success(req[c].order, copy[c].payload, copy[c].status,
                packages[req[c].order]) \in Answer
    BY <2>1, <2>2, SuccessType DEF Row
  <2> QED
    BY <1>3, <2>3, QuietStep DEF AnswerRead, Finish, Location
<1>4. CASE RefuseCancel(c)
  BY <1>4, ThrowStep DEF RefuseCancel, Code
<1>5. CASE StartUpdate(c)
  BY <1>5, QuietStep DEF StartUpdate, Goto, Location
<1>6. CASE ApplyUpdate(c)
  <2> DEFINE o == req[c].order
  <2>1. o \in OrderId /\ orders[o] \in Row
    BY <1>6 DEF ApplyUpdate, HandlerInv, LookingUp, LookupRequest, TypeOK
  <2>2. [orders[o] EXCEPT !.status = "CANCELLED"] \in Row
    BY <2>1 DEF Row, Status
  <2>3. /\ orders' \in [OrderId -> Row \cup {None}]
        /\ orders'[o] \in Row
        /\ \A p \in OrderId : p # o => orders'[p] = orders[p]
    BY <1>6, <2>1, <2>2 DEF ApplyUpdate, TypeOK
  <2>4. \A p \in OrderId : orders[p] # None => orders'[p] # None
    BY <2>3, NoneAssumption
  <2>5. TypeOK'
    BY <1>6, <2>3 DEF ApplyUpdate, Goto, TypeOK, Location
  <2>6. HandlerInv'
    BY <1>6, <2>4 DEF ApplyUpdate, Goto, TypeOK, HandlerInv, LookupRequest,
                      Saving, Creating, LookingUp
  <2> QED
    BY <2>5, <2>6
<1>7. CASE FinishCancel(c)
  <2>1. req[c].order \in OrderId
    BY <1>7 DEF FinishCancel, HandlerInv, LookingUp, LookupRequest
  <2>2. Success(req[c].order, None, "CANCELLED", 0) \in Answer
    BY <2>1, SuccessType DEF Status
  <2> QED
    BY <1>7, <2>2, QuietStep DEF FinishCancel, Finish, Location
<1>8. CASE LookupFails(c)
  BY <1>8, ThrowStep DEF LookupFails, Code
<1> QED
  BY <1>1, <1>2, <1>3, <1>4, <1>5, <1>6, <1>7, <1>8

LEMMA EnvironmentTypeInv ==
    ASSUME TypeInv, Environment
    PROVE  TypeInv'
<1> USE DEF TypeInv
<1>1. CASE Tick
  <2>1. TypeOK'
    BY <1>1, SizeAssumption DEF Tick, TypeOK, database
  <2>2. HandlerInv'
    BY <1>1 DEF Tick, HandlerInv, database
  <2> QED
    BY <2>1, <2>2
<1>2. ASSUME NEW r \in Replica, Crash(r)
      PROVE  TypeInv'
  <2>1. /\ incarnation' \in [Replica -> 0..MaxCrashes]
        /\ store' \in [Replica -> [Key -> Entry \cup {None}]]
    BY <1>2, SizeAssumption DEF Crash, TypeOK
  <2>2. TypeOK'
    BY <1>2, <2>1 DEF Crash, TypeOK, database, Location
  <2>3. HandlerInv'
    BY <1>2 DEF Crash, TypeOK, HandlerInv, database, Saving, Creating, LookingUp
  <2> QED
    BY <2>2, <2>3
<1> QED
  BY <1>1, <1>2 DEF Environment

LEMMA NextTypeInv == TypeInv /\ [Next]_vars => TypeInv'
<1> SUFFICES ASSUME TypeInv, [Next]_vars
             PROVE  TypeInv'
  OBVIOUS
<1>1. CASE UNCHANGED vars
  BY <1>1 DEF vars, database, TypeInv, TypeOK, HandlerInv
<1>2. ASSUME NEW c \in Call, NEW r \in Replica, NEW q \in Request, Receive(c, r, q)
      PROVE  TypeInv'
  BY <1>2, ReceiveTypeInv
<1>3. ASSUME NEW c \in Call, Drop(c)
      PROVE  TypeInv'
  BY <1>3, QuietStep DEF Drop, Goto, Location
<1>4. ASSUME NEW c \in Call, Handle(c) \/ Fail(c)
      PROVE  TypeInv'
  BY <1>4, CreateTypeInv, LookupTypeInv DEF Handle, Fail
<1>5. CASE Environment
  BY <1>5, EnvironmentTypeInv
<1> QED
  BY <1>1, <1>2, <1>3, <1>4, <1>5 DEF Next

\* The state of the service always has the shape TypeOK gives, and every handler
\* finds what it left behind before its await.
THEOREM TypeCorrect == Spec => []TypeOK
<1>1. TypeInv => TypeOK
  BY DEF TypeInv
<1> QED
  BY <1>1, InitTypeInv, NextTypeInv, PTL DEF Spec
-----------------------------------------------------------------------------

\* The strengthening that makes the safety properties inductive.

\* A visible order was inserted by a create call that is past its commit, from
\* its own request and under the id it generated, with all its packages.
DatabaseInv ==
    \A o \in OrderId :
        /\ orders[o] # None =>
             LET c == orders[o].creator IN
             /\ req[c] \in CreateRequest /\ req[c].payload = orders[o].payload
             /\ made[c] = o /\ pc[c] \in {"committed", "answered", "lost"}
        /\ packages[o] = IF orders[o] = None THEN 0 ELSE NumPackages

\* Open transactions insert orders that are not visible, no two of them the
\* same; a handler about to resume from its commit sees its own order.
TransactionInv ==
    \A c \in Call :
        /\ pc[c] = "inserting" =>
             /\ orders[made[c]] = None
             /\ \A d \in Call : pc[d] = "inserting" /\ made[d] = made[c] => d = c
        /\ pc[c] = "committed" =>
             orders[made[c]] # None /\ orders[made[c]].creator = c

\* The copy a handler works on is behind the row only in its status, only a
\* cancellation updates it, and an applied cancellation stays.
CopyInv ==
    \A c \in Call : pc[c] \in LookingUp \ {"finding"} =>
        LET row == orders[req[c].order] IN
        /\ copy[c].payload = row.payload
        /\ copy[c].status = "CANCELLED" => row.status = "CANCELLED"
        /\ pc[c] = "updated" => row.status = "CANCELLED"
        /\ pc[c] \in {"updating", "updated"} => req[c].op = "cancel"

\* Calls have an answer once they are answered, and lookups answer the order
\* they were asked for.
AnswerInv ==
    \A c \in Call :
        /\ ans[c] # None <=> pc[c] = "answered"
        /\ pc[c] = "answered" => req[c] \in Request
        /\ Answered(c, "OK") => ans[c].order \in OrderId /\ orders[ans[c].order] # None
        /\ req[c] # None /\ req[c].op = "read" /\ Answered(c, "OK")
             => ans[c].packages = NumPackages

\* Only the living processes run handlers.
ProcessInv ==
    \A c \in Call : pc[c] \in InFlight =>
        proc[c] \in Replica \X Nat /\ proc[c][2] = incarnation[proc[c][1]]

SafetyInv ==
    /\ ProcessInv
    /\ DatabaseInv
    /\ TransactionInv
    /\ CopyInv
    /\ AnswerInv
    /\ EntriesAreTruthful
    /\ CreateAnswersAreTruthful
    /\ RefusalsAreTruthful
Inv == TypeInv /\ SafetyInv

\* What no step undoes: saved orders stay, with their payload, their creator and
\* their cancellation, and calls keep their request, process and answer.
Keeps ==
    /\ \A o \in OrderId : orders[o] # None =>
         /\ orders'[o] # None
         /\ orders'[o].payload = orders[o].payload
         /\ orders'[o].creator = orders[o].creator
         /\ orders[o].status = "CANCELLED" => orders'[o].status = "CANCELLED"
    /\ \A c \in Call : pc[c] # "idle" =>
         /\ req'[c] = req[c] /\ proc'[c] = proc[c] /\ pc'[c] # "idle"
    /\ \A c \in Call : pc[c] = "answered" => pc'[c] = "answered" /\ ans'[c] = ans[c]

LEMMA ReceiveKeeps ==
    ASSUME Inv, NEW c \in Call, NEW r \in Replica, NEW q \in Request, Receive(c, r, q)
    PROVE  Keeps
BY DEF Keeps, Inv, TypeInv, TypeOK, Receive, Admit, Replay, RefuseReuse, StartLookup,
       Arrive, Finish, Goto, database

LEMMA HandlerKeeps ==
    ASSUME Inv, NEW c \in Call, Drop(c) \/ Handle(c) \/ Fail(c)
    PROVE  Keeps
<1> USE DEF Inv, TypeInv
<1>1. /\ pc[c] # "answered"
      /\ \E l \in Location \ {"idle"} :
            pc' = [pc EXCEPT ![c] = l] \/ (pc' = pc /\ pc[c] \in InFlight)
      /\ ans' = ans \/ \E a : ans' = [ans EXCEPT ![c] = a]
      /\ req' = req /\ proc' = proc
  BY DEF Drop, Handle, Fail, Priced, PricingRefuses, PricingFails, InsertOrder,
         InsertDuplicate, InsertPackage, Commit, SaveFails, FinishCreate, FindNothing,
         FindRow, AnswerRead, RefuseCancel, StartUpdate, ApplyUpdate, FinishCancel,
         LookupFails, Throw, Finish, Goto, Location, InFlight
<1>2. \A d \in Call : pc[d] # "idle" =>
         /\ req'[d] = req[d] /\ proc'[d] = proc[d] /\ pc'[d] # "idle"
  BY <1>1 DEF TypeOK, InFlight
<1>3. \A d \in Call : pc[d] = "answered" => pc'[d] = "answered" /\ ans'[d] = ans[d]
  BY <1>1 DEF TypeOK, InFlight
<1>4. \A o \in OrderId : orders[o] # None =>
         /\ orders'[o] # None
         /\ orders'[o].payload = orders[o].payload
         /\ orders'[o].creator = orders[o].creator
         /\ orders[o].status = "CANCELLED" => orders'[o].status = "CANCELLED"
  <2>1. CASE orders' = orders
    BY <2>1
  <2>2. CASE Commit(c)
    <3>1. made[c] \in OrderId /\ orders[made[c]] = None
      BY <2>2 DEF Commit, HandlerInv, Saving, SafetyInv, TransactionInv
    <3> QED
      BY <2>2, <3>1 DEF Commit, TypeOK
  <2>3. CASE ApplyUpdate(c)
    <3> DEFINE p == req[c].order
    <3>1. p \in OrderId /\ orders[p] \in Row
      BY <2>3 DEF ApplyUpdate, HandlerInv, LookingUp, LookupRequest, TypeOK
    <3>2. [orders[p] EXCEPT !.status = "CANCELLED"] \in Row
      BY <3>1 DEF Row, Status
    <3> QED
      BY <2>3, <3>1, <3>2, NoneAssumption DEF ApplyUpdate, TypeOK, Row
  <2> QED
    BY <2>1, <2>2, <2>3
       DEF Drop, Handle, Fail, Priced, PricingRefuses, PricingFails, InsertOrder,
           InsertDuplicate, InsertPackage, SaveFails, FinishCreate, FindNothing,
           FindRow, AnswerRead, RefuseCancel, StartUpdate, FinishCancel, LookupFails,
           database
<1> QED
  BY <1>2, <1>3, <1>4 DEF Keeps

LEMMA EnvironmentKeeps ==
    ASSUME Inv, Environment
    PROVE  Keeps
BY DEF Keeps, Inv, TypeInv, TypeOK, Environment, Tick, Crash, InFlight, database

\* A step that leaves the stores alone keeps their entries truthful.
LEMMA BackedKept ==
    ASSUME Inv, Keeps, incarnation' = incarnation,
           NEW r \in Replica, NEW k \in Key, NEW e \in Entry, Backed(e, r, k)
    PROVE  Backed(e, r, k)'
<1>1. e.response.order \in OrderId
  BY DEF Entry, Response
<1>2. orders[e.response.order].creator \in Call
  BY <1>1 DEF Inv, TypeInv, TypeOK, Row, Backed
<1>3. pc[orders[e.response.order].creator] # "idle"
  BY <1>1 DEF Inv, SafetyInv, DatabaseInv, Backed
<1> QED
  BY <1>1, <1>2, <1>3 DEF Keeps, Backed

LEMMA EntriesKept ==
    ASSUME Inv, Keeps, store' = store, incarnation' = incarnation
    PROVE  EntriesAreTruthful'
<1> SUFFICES ASSUME NEW r \in Replica, NEW k \in Key, store[r][k] # None
             PROVE  Backed(store[r][k], r, k)'
  BY DEF EntriesAreTruthful
<1>1. store[r][k] \in Entry /\ Backed(store[r][k], r, k)
  BY DEF Inv, TypeInv, TypeOK, SafetyInv, EntriesAreTruthful
<1>2. \A e \in Entry : Backed(e, r, k) => Backed(e, r, k)'
  BY BackedKept
<1> QED
  BY <1>1, <1>2 DEF Backed

\* Answers given before the step stay true; so it is enough to look at the call
\* that is answered in this step.
LEMMA MadeForKept ==
    ASSUME Inv, Keeps, NEW c \in Call, pc[c] # "idle", NEW o \in OrderId, MadeFor(c, o)
    PROVE  MadeFor(c, o)'
<1>1. orders[o].creator \in Call /\ pc[orders[o].creator] # "idle"
  BY DEF Inv, TypeInv, TypeOK, Row, SafetyInv, DatabaseInv, MadeFor
<1> QED
  BY <1>1 DEF Keeps, MadeFor

LEMMA CreateAnswerKept ==
    ASSUME Inv, Keeps, NEW c \in Call, ans'[c] = ans[c], req'[c] = req[c],
           IsCreate(c)', Answered(c, "OK")'
    PROVE  (MadeFor(c, ans[c].order) /\ ans[c].payload = req[c].payload)'
<1>1. IsCreate(c) /\ Answered(c, "OK")
  BY DEF IsCreate, Answered
<1>2. /\ MadeFor(c, ans[c].order) /\ ans[c].payload = req[c].payload
      /\ ans[c].order \in OrderId /\ pc[c] # "idle"
  BY <1>1 DEF Inv, SafetyInv, CreateAnswersAreTruthful, AnswerInv, Answered
<1>3. \A o \in OrderId : MadeFor(c, o) => MadeFor(c, o)'
  BY <1>2, MadeForKept
<1> QED
  BY <1>2, <1>3 DEF MadeFor

LEMMA CreateAnswersKept ==
    ASSUME Inv, Keeps, NEW c \in Call,
           \A d \in Call \ {c} : ans'[d] = ans[d] /\ req'[d] = req[d],
           (IsCreate(c) /\ Answered(c, "OK")
              => MadeFor(c, ans[c].order) /\ ans[c].payload = req[c].payload)'
    PROVE  CreateAnswersAreTruthful'
BY CreateAnswerKept DEF CreateAnswersAreTruthful

\* A step that answers no call and erases no order keeps what the answers say.
LEMMA AnswersKept ==
    ASSUME Inv, Keeps, ans' = ans, req' = req,
           \A d \in Call : pc'[d] = "answered" <=> pc[d] = "answered"
    PROVE  AnswerInv' /\ CreateAnswersAreTruthful'
<1>1. AnswerInv'
  BY DEF Inv, SafetyInv, AnswerInv, Answered, Keeps
<1>2. CreateAnswersAreTruthful'
  BY CreateAnswerKept DEF CreateAnswersAreTruthful
<1> QED
  BY <1>1, <1>2

LEMMA RefusalsKept ==
    ASSUME Inv, ans' = ans, req' = req,
           \A d \in Call : pc[d] = "answered" => Created(d)' = Created(d)
    PROVE  RefusalsAreTruthful'
BY DEF Inv, SafetyInv, RefusalsAreTruthful, AnswerInv, Answered, IsCreate

LEMMA ProcessKept ==
    ASSUME Inv, incarnation' = incarnation,
           \A d \in Call : pc'[d] \in InFlight => pc[d] \in InFlight /\ proc'[d] = proc[d]
    PROVE  ProcessInv'
BY DEF Inv, SafetyInv, ProcessInv

LEMMA ThrowSafety ==
    ASSUME Inv, Keeps, NEW c \in Call, NEW code \in Code \ {"OK"}, Throw(c, code),
           pc[c] \in InFlight,
           pc[c] # "pricing" => code \notin {"INVALID_ARGUMENT", "ALREADY_EXISTS", "UNAVAILABLE"},
           UNCHANGED <<now, incarnation, store, database, req, proc, made, inserted, copy>>
    PROVE  SafetyInv'
<1> DEFINE wire == OnWire(req[c].op, code)
           a == Failure(wire)
<1>1. /\ pc' = [pc EXCEPT ![c] = "answered"]
      /\ ans' = [ans EXCEPT ![c] = a]
      /\ a.code = wire /\ a # None /\ wire # "OK"
  <2>1. a \in Answer
    BY ThrownType DEF Inv, TypeInv
  <2> QED
    BY <2>1, NoneAssumption DEF Throw, Finish, Failure, OnWire
<1>2. /\ orders' = orders /\ packages' = packages /\ store' = store
      /\ incarnation' = incarnation /\ req' = req /\ proc' = proc
      /\ made' = made /\ copy' = copy
  BY DEF database
<1> HIDE DEF a, wire
<1> USE DEF Inv, TypeInv, SafetyInv
<1>3. DatabaseInv'
  BY <1>1, <1>2 DEF TypeOK, DatabaseInv, InFlight
<1>4. TransactionInv'
  BY <1>1, <1>2 DEF TypeOK, TransactionInv
<1>5. CopyInv'
  BY <1>1, <1>2 DEF TypeOK, CopyInv, LookingUp
<1>6. AnswerInv'
  <2>1. req[c] \in Request
    BY DEF HandlerInv, Creating, Saving, LookingUp, InFlight, Location, Request
  <2> QED
    BY <1>1, <1>2, <2>1 DEF TypeOK, AnswerInv, Answered
<1>7. EntriesAreTruthful'
  BY <1>2, EntriesKept
<1>8. CreateAnswersAreTruthful'
  BY <1>1, <1>2, CreateAnswersKept DEF TypeOK, Answered
<1>9. RefusalsAreTruthful'
  <2>1. IsCreate(c) /\ pc[c] # "pricing"
          => wire \notin {"INVALID_ARGUMENT", "ALREADY_EXISTS", "UNAVAILABLE"}
    BY DEF wire, OnWire
  <2>2. pc[c] = "pricing" => Created(c) = {}
    BY DEF Created, DatabaseInv
  <2> QED
    BY <1>1, <1>2, <2>1, <2>2
       DEF TypeOK, RefusalsAreTruthful, Created, Answered, IsCreate
<1>10. ProcessInv'
  BY <1>1, <1>2, ProcessKept DEF TypeOK, InFlight
<1> QED
  BY <1>3, <1>4, <1>5, <1>6, <1>7, <1>8, <1>9, <1>10

LEMMA ReceiveSafety ==
    ASSUME Inv, Keeps, NEW c \in Call, NEW r \in Replica, NEW q \in Request, Receive(c, r, q)
    PROVE  SafetyInv'
<1> USE DEF Inv, TypeInv, SafetyInv
<1>1. /\ pc[c] = "idle" /\ req' = [req EXCEPT ![c] = q]
      /\ proc' = [proc EXCEPT ![c] = <<r, incarnation[r]>>]
      /\ orders' = orders /\ packages' = packages /\ incarnation' = incarnation
      /\ made' = made /\ copy' = copy
  BY DEF Receive, Admit, Replay, RefuseReuse, StartLookup, Arrive, database
<1>2. /\ \E l \in {"pricing", "answered", "finding"} : pc' = [pc EXCEPT ![c] = l]
      /\ ans' = ans \/ \E a : ans' = [ans EXCEPT ![c] = a]
  BY DEF Receive, Admit, Replay, RefuseReuse, StartLookup, Finish, Goto
<1>3. DatabaseInv'
  BY <1>1, <1>2 DEF TypeOK, DatabaseInv
<1>4. TransactionInv'
  BY <1>1, <1>2 DEF TypeOK, TransactionInv
<1>5. CopyInv'
  BY <1>1, <1>2 DEF TypeOK, CopyInv, LookingUp
<1>6. AnswerInv' /\ CreateAnswersAreTruthful' /\ RefusalsAreTruthful'
  <2>1. Created(c) = {} /\ Created(c)' = {}
    BY <1>1 DEF Created, DatabaseInv
  <2>2. ASSUME NEW d \in Call, d # c
        PROVE  /\ pc'[d] = pc[d] /\ ans'[d] = ans[d] /\ req'[d] = req[d] /\ proc'[d] = proc[d]
    BY <1>1, <1>2, <2>2 DEF TypeOK
  <2>3. CASE Replay(c, r, q)
    <3> DEFINE e == store[r][q.key]
               a == Success(e.response.order, e.response.payload, "ACTIVE", NumPackages)
    <3>1. q.key \in Key /\ q.key # None /\ q.op = "create"
      BY <2>3 DEF Replay, Hit, Request, CreateRequest, LookupRequest
    <3>2. e \in Entry /\ Backed(e, r, q.key) /\ e.payload = q.payload
      BY <2>3, <3>1 DEF Replay, Hit, Live, SamePayload, TypeOK, EntriesAreTruthful
    <3>3. /\ e.response.order \in OrderId /\ orders[e.response.order] # None
          /\ e.response.payload = q.payload
      BY <3>2 DEF Entry, Response, Backed
    <3>4. orders[e.response.order].creator # c
      BY <1>1, <3>3 DEF DatabaseInv
    <3>5. a \in Answer
      BY <3>2, SuccessType, SizeAssumption DEF Entry, Response, Status
    <3>6. /\ ans'[c] = a /\ pc'[c] = "answered" /\ req'[c] = q
          /\ proc'[c] = <<r, incarnation[r]>> /\ a # None
      BY <1>1, <2>3, <3>5, NoneAssumption DEF Replay, Finish, TypeOK
    <3>7. /\ a.code = "OK" /\ a.order = e.response.order
          /\ a.payload = e.response.payload
      BY DEF Success
    <3> HIDE DEF e, a
    <3>8. PICK p \in OrderId : p = e.response.order
      BY <3>3
    <3>9. MadeFor(c, p)'
      <4> DEFINE d == orders[p].creator
      <4>1. d \in Call /\ orders'[p] = orders[p] /\ orders[p] # None
        BY <1>1, <3>3, <3>8 DEF TypeOK, Row
      <4>2. d # c /\ req'[d] = req[d] /\ proc'[d] = proc[d]
        BY <2>2, <3>4, <3>8, <4>1
      <4>3. /\ orders[p].payload = q.payload
            /\ req[d].key = q.key /\ proc[d] = <<r, incarnation[r]>>
        BY <3>2, <3>8 DEF Backed
      <4> QED
        BY <3>1, <3>6, <4>1, <4>2, <4>3 DEF MadeFor
    <3>10. CreateAnswersAreTruthful'
      <4>1. ans'[c].order = p /\ ans'[c].payload = req'[c].payload
        BY <3>3, <3>6, <3>7, <3>8
      <4>2. (MadeFor(c, ans[c].order) /\ ans[c].payload = req[c].payload)'
        BY <3>9, <4>1 DEF MadeFor
      <4>3. \A d \in Call \ {c} : ans'[d] = ans[d] /\ req'[d] = req[d]
        BY <2>2
      <4> QED
        BY <4>2, <4>3, CreateAnswersKept
    <3>11. AnswerInv'
      BY <1>1, <2>2, <3>1, <3>3, <3>6, <3>7 DEF AnswerInv, Answered
    <3>12. RefusalsAreTruthful'
      BY <1>1, <2>1, <2>2 DEF RefusalsAreTruthful, Answered, IsCreate, Created
    <3> QED
      BY <3>10, <3>11, <3>12
  <2>4. CASE RefuseReuse(c, r, q)
    <3> DEFINE a == Failure(OnWire(q.op, "ALREADY_EXISTS"))
    <3>1. a \in Answer /\ a.code # "OK"
      BY ThrownType DEF Failure, OnWire, Code
    <3>2. ans'[c] = a /\ pc'[c] = "answered" /\ req'[c] = q /\ a # None
      BY <1>1, <2>4, <3>1, NoneAssumption DEF RefuseReuse, Finish, TypeOK
    <3> HIDE DEF a
    <3>3. CreateAnswersAreTruthful'
      BY <2>2, <3>1, <3>2, CreateAnswersKept DEF Answered
    <3>4. AnswerInv'
      BY <1>1, <2>2, <3>1, <3>2 DEF AnswerInv, Answered
    <3>5. RefusalsAreTruthful'
      BY <1>1, <2>1, <2>2 DEF RefusalsAreTruthful, Answered, IsCreate, Created
    <3> QED
      BY <3>3, <3>4, <3>5
  <2>5. CASE Admit(c, r, q) \/ StartLookup(c, r, q)
    <3>1. ans'[c] = None /\ pc'[c] # "answered"
      BY <1>1, <2>5 DEF Admit, StartLookup, Goto, TypeOK, AnswerInv
    <3>2. CreateAnswersAreTruthful'
      BY <2>2, <3>1, CreateAnswersKept DEF Answered
    <3>3. AnswerInv'
      BY <1>1, <2>2, <3>1 DEF AnswerInv, Answered
    <3>4. RefusalsAreTruthful'
      BY <1>1, <2>1, <2>2 DEF RefusalsAreTruthful, Answered, IsCreate, Created
    <3> QED
      BY <3>2, <3>3, <3>4
  <2> QED
    BY <2>3, <2>4, <2>5 DEF Receive
<1>7. EntriesAreTruthful'
  <2>1. CASE store' = store
    BY <1>1, <2>1, EntriesKept
  <2>2. CASE Admit(c, r, q) /\ store' # store
    <3>1. \A s \in Replica, k \in Key : store'[s][k] # None => store'[s][k] = store[s][k]
      BY <2>2 DEF Admit, Forget, TypeOK
    <3>2. \A s \in Replica, k \in Key, e \in Entry : Backed(e, s, k) => Backed(e, s, k)'
      BY <1>1, BackedKept
    <3> SUFFICES ASSUME NEW s \in Replica, NEW k \in Key, store'[s][k] # None
                 PROVE  Backed(store[s][k], s, k)'
      BY DEF EntriesAreTruthful
    <3>3. /\ store[s][k] \in Entry /\ Backed(store[s][k], s, k)
          /\ store'[s][k] = store[s][k]
      BY <3>1 DEF TypeOK, EntriesAreTruthful
    <3>4. PICK e \in Entry : e = store[s][k]
      BY <3>3
    <3>5. Backed(e, s, k)'
      BY <3>2, <3>3, <3>4
    <3> QED
      BY <3>3, <3>4, <3>5 DEF Backed
  <2> QED
    BY <2>1, <2>2 DEF Receive, Replay, RefuseReuse, StartLookup
<1>8. ProcessInv'
  BY <1>1, <1>2 DEF TypeOK, ProcessInv
<1> QED
  BY <1>3, <1>4, <1>5, <1>6, <1>7, <1>8

\* The steps of a handler that change nothing a property reads.
LEMMA SilentSafety ==
    ASSUME Inv, Keeps, NEW c \in Call,
           Drop(c) \/ Priced(c) \/ InsertOrder(c) \/ InsertPackage(c) \/ FindRow(c)
             \/ StartUpdate(c)
    PROVE  SafetyInv'
<1> USE DEF Inv, TypeInv, SafetyInv
<1>1. /\ orders' = orders /\ packages' = packages /\ store' = store
      /\ incarnation' = incarnation /\ req' = req /\ proc' = proc /\ ans' = ans
      /\ pc[c] \in {"idle", "pricing", "saving", "inserting", "finding", "loading"}
      /\ \E l \in {"lost", "saving", "inserting", "loading", "updating"} :
            pc' = [pc EXCEPT ![c] = l]
  BY DEF Drop, Priced, InsertOrder, InsertPackage, FindRow, StartUpdate, Goto, database,
         TypeOK
<1>2. made' = made \/ (pc[c] = "pricing" /\ \A d \in Call \ {c} : made'[d] = made[d])
  BY DEF Drop, Priced, InsertOrder, InsertPackage, FindRow, StartUpdate, TypeOK
<1>3. DatabaseInv'
  BY <1>1, <1>2 DEF TypeOK, DatabaseInv, Row
<1>4. TransactionInv'
  <2>1. CASE InsertOrder(c)
    BY <1>1, <2>1 DEF InsertOrder, Goto, TypeOK, TransactionInv
  <2>2. CASE Drop(c) \/ Priced(c) \/ InsertPackage(c) \/ FindRow(c) \/ StartUpdate(c)
    BY <1>1, <2>2 DEF Drop, Priced, InsertPackage, FindRow, StartUpdate, Goto, TypeOK,
                      TransactionInv
  <2> QED
    BY <2>1, <2>2
<1>5. CopyInv'
  <2>1. CASE FindRow(c)
    BY <1>1, <2>1 DEF FindRow, Goto, TypeOK, CopyInv, LookingUp
  <2>2. CASE Drop(c) \/ Priced(c) \/ InsertOrder(c) \/ InsertPackage(c) \/ StartUpdate(c)
    BY <1>1, <2>2 DEF Drop, Priced, InsertOrder, InsertPackage, StartUpdate, Goto, TypeOK,
                      CopyInv, LookingUp
  <2> QED
    BY <2>1, <2>2
<1>6. AnswerInv' /\ CreateAnswersAreTruthful'
  BY <1>1, AnswersKept DEF TypeOK
<1>7. RefusalsAreTruthful'
  BY <1>1, RefusalsKept DEF Created
<1>8. EntriesAreTruthful'
  BY <1>1, EntriesKept
<1>9. ProcessInv'
  <2>1. CASE Drop(c)
    BY <1>1, <2>1, ProcessKept DEF Drop, Goto, TypeOK, InFlight
  <2>2. CASE pc[c] # "idle"
    BY <1>1, <2>2, ProcessKept DEF TypeOK, InFlight, Location
  <2> QED
    BY <2>1, <2>2 DEF Priced, InsertOrder, InsertPackage, FindRow, StartUpdate
<1> QED
  BY <1>3, <1>4, <1>5, <1>6, <1>7, <1>8, <1>9

LEMMA CommitSafety ==
    ASSUME Inv, Keeps, NEW c \in Call, Commit(c)
    PROVE  SafetyInv'
<1> USE DEF Inv, TypeInv, SafetyInv
<1> DEFINE row == [payload |-> req[c].payload, status |-> "ACTIVE", creator |-> c]
<1>1. /\ made[c] \in OrderId /\ req[c] \in CreateRequest
      /\ orders[made[c]] = None /\ pc[c] = "inserting" /\ inserted[c] = NumPackages
  BY DEF Commit, HandlerInv, Creating, Saving, TransactionInv
<1>2. row \in Row /\ row # None
  BY <1>1, NoneAssumption DEF Row, Status, CreateRequest
<1>3. /\ orders' = [orders EXCEPT ![made[c]] = row]
      /\ packages' = [packages EXCEPT ![made[c]] = NumPackages]
      /\ pc' = [pc EXCEPT ![c] = "committed"]
      /\ UNCHANGED <<incarnation, store, req, proc, made, copy, ans>>
  BY <1>1 DEF Commit, Goto
<1>4. row.payload = req[c].payload /\ row.creator = c
  OBVIOUS
<1> HIDE DEF row
<1>5. DatabaseInv'
  BY <1>1, <1>2, <1>3, <1>4, SizeAssumption DEF TypeOK, DatabaseInv, Row
<1>6. TransactionInv'
  BY <1>1, <1>2, <1>3, <1>4 DEF TypeOK, TransactionInv
<1>7. CopyInv'
  <2>1. \A d \in Call : pc'[d] \in LookingUp \ {"finding"} =>
          d # c /\ pc[d] = pc'[d] /\ req[d].order \in OrderId /\ orders[req[d].order] # None
    BY <1>1, <1>3 DEF TypeOK, HandlerInv, LookingUp, LookupRequest
  <2> QED
    BY <1>1, <1>3, <2>1 DEF TypeOK, CopyInv, LookingUp
<1>8. AnswerInv' /\ CreateAnswersAreTruthful'
  BY <1>1, <1>3, AnswersKept DEF TypeOK
<1>9. RefusalsAreTruthful'
  <2>1. \A d \in Call : pc[d] = "answered" => Created(d)' = Created(d)
    BY <1>1, <1>2, <1>3, <1>4 DEF TypeOK, Created
  <2> QED
    BY <1>3, <2>1, RefusalsKept
<1>10. EntriesAreTruthful'
  BY <1>3, EntriesKept
<1>11. ProcessInv'
  BY <1>1, <1>3, ProcessKept DEF TypeOK, InFlight, Location
<1> QED
  BY <1>5, <1>6, <1>7, <1>8, <1>9, <1>10, <1>11

LEMMA ApplyUpdateSafety ==
    ASSUME Inv, Keeps, NEW c \in Call, ApplyUpdate(c)
    PROVE  SafetyInv'
<1> USE DEF Inv, TypeInv, SafetyInv
<1> DEFINE o == req[c].order
           row == [orders[o] EXCEPT !.status = "CANCELLED"]
<1>1. o \in OrderId /\ orders[o] \in Row /\ orders[o] # None /\ pc[c] = "updating"
  BY NoneAssumption DEF ApplyUpdate, HandlerInv, LookingUp, LookupRequest, TypeOK
<1>2. /\ orders' = [orders EXCEPT ![o] = row]
      /\ pc' = [pc EXCEPT ![c] = "updated"]
      /\ UNCHANGED <<incarnation, store, packages, req, proc, made, copy, ans>>
  BY DEF ApplyUpdate, Goto
<1>3. /\ row \in Row /\ row # None
      /\ row.payload = orders[o].payload /\ row.creator = orders[o].creator
      /\ row.status = "CANCELLED"
  BY <1>1, NoneAssumption DEF Row, Status
<1>4. o = req[c].order
  OBVIOUS
<1> HIDE DEF row, o
<1>5. DatabaseInv'
  BY <1>1, <1>2, <1>3 DEF TypeOK, DatabaseInv, Row
<1>6. TransactionInv'
  BY <1>1, <1>2, <1>3 DEF TypeOK, TransactionInv
<1>7. CopyInv'
  <2>1. \A d \in Call : pc'[d] \in LookingUp \ {"finding"} =>
          /\ pc[d] \in LookingUp \ {"finding"} /\ req[d].order \in OrderId
          /\ pc'[d] = "updated" => pc[d] = "updated" \/ d = c
    BY <1>1, <1>2 DEF TypeOK, HandlerInv, LookingUp, LookupRequest
  <2> QED
    BY <1>1, <1>2, <1>3, <1>4, <2>1 DEF TypeOK, CopyInv
<1>8. AnswerInv' /\ CreateAnswersAreTruthful'
  BY <1>1, <1>2, AnswersKept DEF TypeOK
<1>9. RefusalsAreTruthful'
  BY <1>1, <1>2, <1>3, RefusalsKept DEF TypeOK, Created
<1>10. EntriesAreTruthful'
  BY <1>2, EntriesKept
<1>11. ProcessInv'
  BY <1>1, <1>2, ProcessKept DEF TypeOK, InFlight, Location
<1> QED
  BY <1>5, <1>6, <1>7, <1>8, <1>9, <1>10, <1>11

LEMMA LookupAnswerSafety ==
    ASSUME Inv, Keeps, NEW c \in Call, AnswerRead(c) \/ FinishCancel(c)
    PROVE  SafetyInv'
<1> USE DEF Inv, TypeInv, SafetyInv
<1>1. /\ pc[c] \in {"loading", "updated"} /\ req[c] \in LookupRequest
      /\ req[c].order \in OrderId /\ orders[req[c].order] # None
      /\ req[c].op \in {"read", "cancel"} /\ copy[c] \in Row
      /\ UNCHANGED <<incarnation, store, orders, packages, req, proc, made, copy>>
  BY NoneAssumption
     DEF AnswerRead, FinishCancel, HandlerInv, LookingUp, LookupRequest, database
<1>2. PICK a \in Answer :
        /\ ans' = [ans EXCEPT ![c] = a] /\ pc' = [pc EXCEPT ![c] = "answered"]
        /\ a.order = req[c].order
        /\ req[c].op = "read" => a.packages = NumPackages
  <2>1. CASE AnswerRead(c)
    <3> DEFINE a == Success(req[c].order, copy[c].payload, copy[c].status,
                            packages[req[c].order])
    <3>1. a \in Answer
      BY <1>1, SuccessType, SizeAssumption DEF Row, TypeOK
    <3>2. a.order = req[c].order /\ a.packages = NumPackages
      BY <1>1 DEF Success, DatabaseInv
    <3> QED
      BY <2>1, <3>1, <3>2 DEF AnswerRead, Finish
  <2>2. CASE FinishCancel(c)
    <3> DEFINE a == Success(req[c].order, None, "CANCELLED", 0)
    <3>1. a \in Answer
      BY <1>1, SuccessType DEF Status
    <3>2. a.order = req[c].order
      BY DEF Success
    <3>3. req[c].op # "read"
      BY <2>2 DEF FinishCancel, CopyInv, LookingUp
    <3> QED
      BY <2>2, <3>1, <3>2, <3>3 DEF FinishCancel, Finish
  <2> QED
    BY <2>1, <2>2
<1>3. DatabaseInv'
  BY <1>1, <1>2 DEF TypeOK, DatabaseInv, Row
<1>4. TransactionInv'
  BY <1>1, <1>2 DEF TypeOK, TransactionInv
<1>5. CopyInv'
  BY <1>1, <1>2 DEF TypeOK, CopyInv, LookingUp
<1>6. AnswerInv'
  BY <1>1, <1>2, NoneAssumption DEF TypeOK, AnswerInv, Answered, Request
<1>7. CreateAnswersAreTruthful'
  BY <1>1, <1>2, CreateAnswersKept DEF TypeOK, IsCreate
<1>8. RefusalsAreTruthful'
  BY <1>1, <1>2 DEF TypeOK, RefusalsAreTruthful, Created, Answered, IsCreate
<1>9. EntriesAreTruthful'
  BY <1>1, EntriesKept
<1>10. ProcessInv'
  BY <1>1, <1>2, ProcessKept DEF TypeOK, InFlight, Location
<1> QED
  BY <1>3, <1>4, <1>5, <1>6, <1>7, <1>8, <1>9, <1>10

LEMMA FinishCreateSafety ==
    ASSUME Inv, Keeps, NEW c \in Call, FinishCreate(c)
    PROVE  SafetyInv'
<1> USE DEF Inv, TypeInv, SafetyInv
<1> DEFINE a == Success(made[c], req[c].payload, "ACTIVE", NumPackages)
<1>1. /\ pc[c] = "committed" /\ req[c] \in CreateRequest /\ req[c].payload \in Payload
      /\ made[c] \in OrderId /\ proc[c] \in Replica \X Nat
      /\ orders[made[c]] # None /\ orders[made[c]].creator = c
      /\ UNCHANGED <<incarnation, orders, packages, req, proc, made, copy>>
  BY DEF FinishCreate, HandlerInv, Creating, Saving, TransactionInv, CreateRequest, database
<1>2. orders[made[c]].payload = req[c].payload
  BY <1>1 DEF DatabaseInv
<1>3. a \in Answer /\ a # None
  BY <1>1, SuccessType, SizeAssumption, NoneAssumption DEF Status
<1>4. a.code = "OK" /\ a.order = made[c] /\ a.payload = req[c].payload
  BY DEF Success
<1>5. pc' = [pc EXCEPT ![c] = "answered"] /\ ans' = [ans EXCEPT ![c] = a]
  BY DEF FinishCreate, Finish
<1> HIDE DEF a
<1>6. DatabaseInv'
  BY <1>1, <1>5 DEF TypeOK, DatabaseInv, Row
<1>7. TransactionInv'
  BY <1>1, <1>5 DEF TypeOK, TransactionInv
<1>8. CopyInv'
  BY <1>1, <1>5 DEF TypeOK, CopyInv, LookingUp
<1>9. AnswerInv'
  BY <1>1, <1>3, <1>4, <1>5 DEF TypeOK, AnswerInv, Answered, Request, CreateRequest
<1>10. CreateAnswersAreTruthful'
  <2>1. MadeFor(c, made[c])'
    BY <1>1, <1>2 DEF MadeFor
  <2>2. ans'[c] = a
    BY <1>5 DEF TypeOK
  <2>3. (MadeFor(c, ans[c].order) /\ ans[c].payload = req[c].payload)'
    BY <1>1, <1>4, <2>1, <2>2 DEF MadeFor
  <2>4. \A d \in Call \ {c} : ans'[d] = ans[d] /\ req'[d] = req[d]
    BY <1>1, <1>5 DEF TypeOK
  <2> QED
    BY <2>3, <2>4, CreateAnswersKept
<1>11. RefusalsAreTruthful'
  BY <1>1, <1>4, <1>5 DEF TypeOK, RefusalsAreTruthful, Created, Answered, IsCreate
<1>12. EntriesAreTruthful'
  <2>1. CASE req[c].key = None
    BY <1>1, <2>1, EntriesKept DEF FinishCreate
  <2>2. CASE req[c].key # None
    <3> DEFINE e == [payload   |-> req[c].payload,
                     response  |-> [order |-> made[c], payload |-> req[c].payload],
                     createdAt |-> now]
               r == proc[c][1]
               k == req[c].key
    <3>1. r \in Replica /\ k \in Key
      BY <1>1, <2>2 DEF CreateRequest
    <3>2. store' = [store EXCEPT ![r][k] = e]
      BY <2>2 DEF FinishCreate, Remember
    <3>3. proc[c] = <<r, incarnation[r]>>
      BY <1>1 DEF ProcessInv, InFlight, Location
    <3>4. /\ e.payload = req[c].payload /\ e.response.order = made[c]
          /\ e.response.payload = req[c].payload
      OBVIOUS
    <3> HIDE DEF e
    <3> SUFFICES ASSUME NEW s \in Replica, NEW l \in Key, store'[s][l] # None
                 PROVE  Backed(store[s][l], s, l)'
      BY DEF EntriesAreTruthful
    <3>5. CASE s = r /\ l = k
      <4>1. store'[s][l] = e
        BY <3>1, <3>2, <3>5 DEF TypeOK
      <4>2. /\ orders'[made[c]] # None /\ orders'[made[c]].payload = req[c].payload
            /\ orders'[made[c]].creator = c
            /\ req'[c].key = l /\ proc'[c] = <<s, incarnation'[s]>>
        BY <1>1, <1>2, <3>3, <3>5
      <4> QED
        BY <3>4, <4>1, <4>2 DEF Backed
    <3>6. CASE ~(s = r /\ l = k)
      <4>1. PICK f \in Entry : f = store[s][l] /\ Backed(f, s, l) /\ store'[s][l] = f
        BY <3>1, <3>2, <3>6 DEF TypeOK, EntriesAreTruthful
      <4>2. Backed(f, s, l)'
        BY <1>1, <4>1, BackedKept
      <4> QED
        BY <4>1, <4>2 DEF Backed
    <3> QED
      BY <3>5, <3>6
  <2> QED
    BY <2>1, <2>2
<1>13. ProcessInv'
  BY <1>1, <1>5, ProcessKept DEF TypeOK, InFlight, Location
<1> QED
  BY <1>6, <1>7, <1>8, <1>9, <1>10, <1>11, <1>12, <1>13

LEMMA HandlerSafety ==
    ASSUME Inv, Keeps, NEW c \in Call, Drop(c) \/ Handle(c) \/ Fail(c)
    PROVE  SafetyInv'
<1>1. CASE PricingRefuses(c) \/ PricingFails(c)
  BY <1>1, ThrowSafety DEF PricingRefuses, PricingFails, InFlight, Location, Code
<1>2. CASE InsertDuplicate(c) \/ SaveFails(c)
  BY <1>2, ThrowSafety DEF InsertDuplicate, SaveFails, InFlight, Location, Code
<1>3. CASE FindNothing(c) \/ RefuseCancel(c) \/ LookupFails(c)
  BY <1>3, ThrowSafety DEF FindNothing, RefuseCancel, LookupFails, InFlight, Location, Code
<1> QED
  BY <1>1, <1>2, <1>3, SilentSafety, CommitSafety, ApplyUpdateSafety, LookupAnswerSafety,
     FinishCreateSafety
     DEF Handle, Fail

LEMMA EnvironmentSafety ==
    ASSUME Inv, Keeps, Environment \/ UNCHANGED vars
    PROVE  SafetyInv'
<1> USE DEF Inv, TypeInv, SafetyInv
<1>1. /\ UNCHANGED <<orders, packages, req, proc, made, copy, ans>>
      /\ \A d \in Call : pc'[d] = pc[d] \/ (pc[d] \in InFlight /\ pc'[d] = "lost")
  BY DEF Environment, Tick, Crash, vars, database, TypeOK
<1>2. DatabaseInv'
  BY <1>1 DEF DatabaseInv, TypeOK, Row
<1>3. TransactionInv'
  BY <1>1 DEF TransactionInv
<1>4. CopyInv'
  BY <1>1 DEF CopyInv, LookingUp
<1>5. AnswerInv' /\ CreateAnswersAreTruthful'
  BY <1>1, AnswersKept DEF InFlight
<1>6. RefusalsAreTruthful'
  BY <1>1, RefusalsKept DEF Created
<1>7. EntriesAreTruthful' /\ ProcessInv'
  <2>1. CASE UNCHANGED <<store, incarnation>>
    BY <1>1, <2>1, EntriesKept, ProcessKept DEF InFlight
  <2>2. ASSUME NEW r \in Replica, Crash(r)
        PROVE  EntriesAreTruthful' /\ ProcessInv'
    <3>1. ProcessInv'
      BY <1>1, <2>2 DEF Crash, TypeOK, ProcessInv, InFlight
    <3>2. EntriesAreTruthful'
      <4> SUFFICES ASSUME NEW s \in Replica, NEW k \in Key, store'[s][k] # None
                   PROVE  Backed(store[s][k], s, k)'
        BY DEF EntriesAreTruthful
      <4>1. s # r /\ store'[s][k] = store[s][k] /\ incarnation'[s] = incarnation[s]
        BY <2>2 DEF Crash, TypeOK
      <4>2. Backed(store[s][k], s, k)
        BY <4>1 DEF EntriesAreTruthful
      <4> QED
        BY <1>1, <4>1, <4>2 DEF Backed
    <3> QED
      BY <3>1, <3>2
  <2> QED
    BY <2>1, <2>2 DEF Environment, Tick, vars
<1> QED
  BY <1>2, <1>3, <1>4, <1>5, <1>6, <1>7

LEMMA InitInv == Init => Inv
<1> SUFFICES ASSUME Init PROVE SafetyInv
  BY InitTypeInv DEF Inv
<1>1. ProcessInv /\ DatabaseInv /\ TransactionInv /\ CopyInv
  BY DEF Init, ProcessInv, DatabaseInv, TransactionInv, CopyInv, InFlight, LookingUp
<1>2. AnswerInv /\ CreateAnswersAreTruthful /\ RefusalsAreTruthful
  BY DEF Init, AnswerInv, CreateAnswersAreTruthful, RefusalsAreTruthful, Answered
<1>3. EntriesAreTruthful
  BY DEF Init, EntriesAreTruthful
<1> QED
  BY <1>1, <1>2, <1>3 DEF SafetyInv

LEMMA NextKeeps == Inv /\ [Next]_vars => Keeps
<1> SUFFICES ASSUME Inv, [Next]_vars PROVE Keeps
  OBVIOUS
<1>1. CASE UNCHANGED vars
  BY <1>1 DEF vars, Keeps, database
<1>2. CASE Next
  BY <1>2, ReceiveKeeps, HandlerKeeps, EnvironmentKeeps DEF Next
<1> QED
  BY <1>1, <1>2

LEMMA NextInv == Inv /\ [Next]_vars => Inv'
<1> SUFFICES ASSUME Inv, [Next]_vars PROVE Inv'
  OBVIOUS
<1>1. TypeInv'
  BY NextTypeInv DEF Inv
<1>2. Keeps
  BY NextKeeps
<1>3. SafetyInv'
  BY <1>2, ReceiveSafety, HandlerSafety, EnvironmentSafety DEF Next
<1> QED
  BY <1>1, <1>3 DEF Inv

LEMMA Invariance == Spec => []Inv
  BY InitInv, NextInv, PTL DEF Spec
-----------------------------------------------------------------------------

\* However the steps of the calls interleave, fail or crash: no order is ever
\* visible, or read, without all its packages.
THEOREM SavesAreAtomic == Spec => []SaveIsAtomic
<1>1. Inv => SaveIsAtomic
  BY DEF Inv, SafetyInv, DatabaseInv, AnswerInv, SaveIsAtomic
<1> QED
  BY <1>1, Invariance, PTL

\* A gRPC call never inserts a second order.
THEOREM CallsMakeOneOrder == Spec => []OneOrderPerCall
<1>1. ASSUME Inv, NEW c \in Call
      PROVE  Cardinality(Created(c)) <= 1
  <2>1. Created(c) \subseteq {made[c]}
    BY <1>1 DEF Created, Inv, SafetyInv, DatabaseInv
  <2>2. IsFiniteSet({made[c]}) /\ Cardinality({made[c]}) = 1
    BY FS_Singleton
  <2>3. Cardinality(Created(c)) <= Cardinality({made[c]})
    BY <2>1, <2>2, FS_Subset
  <2> QED
    BY <2>2, <2>3
<1>2. Inv => OneOrderPerCall
  BY <1>1 DEF OneOrderPerCall
<1> QED
  BY <1>2, Invariance, PTL

\* What is replayed to a retry is in the database, and was asked for.
THEOREM StoreIsTruthful == Spec => []EntriesAreTruthful
<1>1. Inv => EntriesAreTruthful
  BY DEF Inv, SafetyInv
<1> QED
  BY <1>1, Invariance, PTL

\* A create call answered OK, from the store or not, names a saved order that
\* ships what the call asked for.
THEOREM CreatesAreTruthful == Spec => []CreateAnswersAreTruthful
<1>1. Inv => CreateAnswersAreTruthful
  BY DEF Inv, SafetyInv
<1> QED
  BY <1>1, Invariance, PTL

\* A create call refused with a reason left no order behind.
THEOREM RefusalsLeaveNothing == Spec => []RefusalsAreTruthful
<1>1. Inv => RefusalsAreTruthful
  BY DEF Inv, SafetyInv
<1> QED
  BY <1>1, Invariance, PTL
-----------------------------------------------------------------------------

\* Orders implements OrderBook, for every value of the constants: a commit is Place,
\* the UPDATE of an active row is Cancel, a successful answer is Tell, and every
\* other step changes neither the book nor what was told.  The steps start in
\* states that satisfy Inv.

\* The refinement mapping of Orders, order by order and call by call.
RowInBook(row) ==
    IF row = None THEN None ELSE [payload |-> row.payload, status |-> row.status]

ClaimOf(a) ==
    IF a # None /\ a.code = "OK"
    THEN [order |-> a.order, payload |-> a.payload, status |-> a.status]
    ELSE None

TheBook == [o \in OrderId |-> RowInBook(orders[o])]
TheTold == [c \in Call |-> ClaimOf(ans[c])]

\* The actions of OrderBook under that mapping.
Placing(o, p) ==
    /\ TheBook[o] = None
    /\ TheBook' = [TheBook EXCEPT ![o] = [payload |-> p, status |-> "ACTIVE"]]
    /\ TheTold' = TheTold

Cancelling(o) ==
    /\ TheBook[o] # None
    /\ TheBook[o].status = "ACTIVE"
    /\ TheBook' = [TheBook EXCEPT ![o].status = "CANCELLED"]
    /\ TheTold' = TheTold

True(f) ==
    /\ TheBook[f.order] # None
    /\ f.payload # None => f.payload = TheBook[f.order].payload
    /\ f.status = "CANCELLED" => TheBook[f.order].status = "CANCELLED"

Telling(c, f) ==
    /\ TheTold[c] = None
    /\ True(f)
    /\ TheTold' = [TheTold EXCEPT ![c] = f]
    /\ TheBook' = TheBook

LEMMA InitMapping == Book!Init <=> TheBook = [o \in OrderId |-> None] /\ TheTold = [c \in Call |-> None]
BY DEF Book!Init, RowInBook, ClaimOf, Answered, TheBook, TheTold

LEMMA StutterMapping == UNCHANGED <<TheBook, TheTold>> => UNCHANGED Book!bookVars
BY DEF Book!bookVars, RowInBook, ClaimOf, Answered, TheBook, TheTold

LEMMA PlaceMapping ==
    ASSUME NEW o \in OrderId, NEW p \in Payload, Placing(o, p)
    PROVE  Book!Next
<1>1. Book!Place(o, p)
  BY DEF Placing, Book!Place, RowInBook, ClaimOf, Answered, TheBook, TheTold
<1> QED
  BY <1>1 DEF Book!Next

LEMMA CancelMapping ==
    ASSUME NEW o \in OrderId, Cancelling(o)
    PROVE  Book!Next
<1>1. Book!Cancel(o)
  BY DEF Cancelling, Book!Cancel, RowInBook, ClaimOf, Answered, TheBook, TheTold
<1> QED
  BY <1>1 DEF Book!Next

LEMMA TellMapping ==
    ASSUME NEW c \in Call, NEW f \in Book!Claim, Telling(c, f)
    PROVE  Book!Next
<1>1. Book!Tell(c, f)
  BY DEF Telling, True, Book!Tell, Book!Holds, RowInBook, ClaimOf, Answered, TheBook, TheTold
<1> QED
  BY <1>1 DEF Book!Next
-----------------------------------------------------------------------------

\* Rows and claims are told apart from None.
LEMMA RowImage ==
    ASSUME NEW row \in Row
    PROVE  /\ RowInBook(row) # None
           /\ RowInBook(row).payload = row.payload
           /\ RowInBook(row).status = row.status
           /\ RowInBook(row) = [payload |-> row.payload, status |-> row.status]
<1>1. row # None
  BY NoneAssumption
<1>2. [payload |-> row.payload, status |-> row.status] \in Book!BookRow
  BY DEF Row, Status, Book!BookRow, Book!Status
<1> QED
  BY <1>1, <1>2, BookAssumption DEF RowInBook

LEMMA ClaimImage ==
    ASSUME NEW a \in Answer, a.code = "OK", a.order \in OrderId, a.status \in Status
    PROVE  /\ ClaimOf(a) \in Book!Claim
           /\ ClaimOf(a).order = a.order
           /\ ClaimOf(a).payload = a.payload
           /\ ClaimOf(a).status = a.status
<1>1. a # None
  BY NoneAssumption
<1>2. [order |-> a.order, payload |-> a.payload, status |-> a.status] \in Book!Claim
  BY DEF Answer, Status, Book!Claim, Book!Status
<1> QED
  BY <1>1, <1>2 DEF ClaimOf

\* A step that answers nobody OK.
LEMMA NothingTold ==
    ASSUME Inv, NEW c \in Call, NEW a, a.code # "OK", ans[c] = None,
           ans' = ans \/ ans' = [ans EXCEPT ![c] = a]
    PROVE  TheTold' = TheTold
BY DEF Inv, TypeInv, TypeOK, TheTold, ClaimOf

LEMMA BookKept ==
    ASSUME orders' = orders
    PROVE  TheBook' = TheBook
BY DEF TheBook

\* A true answer that is OK.
LEMMA AnswerTells ==
    ASSUME Inv, NEW c \in Call, NEW a \in Answer, ans[c] = None, orders' = orders,
           ans' = [ans EXCEPT ![c] = a],
           a.code = "OK", a.order \in OrderId, a.status \in Status, orders[a.order] # None,
           a.payload # None => a.payload = orders[a.order].payload,
           a.status = "CANCELLED" => orders[a.order].status = "CANCELLED"
    PROVE  Book!Next
<1> DEFINE f == ClaimOf(a)
<1>1. /\ f \in Book!Claim /\ f.order = a.order /\ f.payload = a.payload
      /\ f.status = a.status
  BY ClaimImage
<1>2. /\ TheBook[a.order] # None
      /\ TheBook[a.order].payload = orders[a.order].payload
      /\ TheBook[a.order].status = orders[a.order].status
  BY RowImage DEF Inv, TypeInv, TypeOK, TheBook
<1>3. TheTold[c] = None /\ TheTold' = [TheTold EXCEPT ![c] = f]
  BY DEF Inv, TypeInv, TypeOK, TheTold, ClaimOf
<1> HIDE DEF f
<1>4. Telling(c, f)
  BY <1>1, <1>2, <1>3, BookKept DEF Telling, True
<1> QED
  BY <1>1, <1>4, TellMapping

LEMMA CommitPlaces ==
    ASSUME Inv, NEW c \in Call, Commit(c)
    PROVE  Book!Next
<1> DEFINE row == [payload |-> req[c].payload, status |-> "ACTIVE", creator |-> c]
<1>1. /\ made[c] \in OrderId /\ req[c].payload \in Payload /\ row \in Row
      /\ orders[made[c]] = None
      /\ orders' = [orders EXCEPT ![made[c]] = row] /\ ans' = ans
  BY DEF Commit, Goto, Inv, TypeInv, HandlerInv, Saving, Creating, CreateRequest, Row, Status,
         SafetyInv, TransactionInv
<1>2. RowInBook(row) = [payload |-> req[c].payload, status |-> "ACTIVE"]
  BY <1>1, RowImage
<1>3. TheBook[made[c]] = None
  BY <1>1 DEF TheBook, RowInBook
<1> HIDE DEF row
<1>4. TheBook' = [TheBook EXCEPT ![made[c]] = [payload |-> req[c].payload, status |-> "ACTIVE"]]
  BY <1>1, <1>2 DEF Inv, TypeInv, TypeOK, TheBook
<1>5. TheTold' = TheTold
  BY <1>1 DEF TheTold
<1> QED
  BY <1>1, <1>3, <1>4, <1>5, PlaceMapping DEF Placing

\* The UPDATE of an order that is cancelled by now writes what is there.
LEMMA UpdateCancels ==
    ASSUME Inv, NEW c \in Call, ApplyUpdate(c)
    PROVE  Book!Next \/ UNCHANGED Book!bookVars
<1> DEFINE o == req[c].order
           row == [orders[o] EXCEPT !.status = "CANCELLED"]
<1>1. /\ o \in OrderId /\ orders[o] \in Row /\ orders' = [orders EXCEPT ![o] = row] /\ ans' = ans
  BY DEF ApplyUpdate, Goto, Inv, TypeInv, TypeOK, HandlerInv, LookingUp, LookupRequest
<1>2. row \in Row /\ row.payload = orders[o].payload /\ row.status = "CANCELLED"
  BY <1>1 DEF Row, Status
<1>3. TheTold' = TheTold
  BY <1>1 DEF TheTold
<1> HIDE DEF row, o
<1>4. /\ RowInBook(row) = [payload |-> orders[o].payload, status |-> "CANCELLED"]
      /\ TheBook[o] = [payload |-> orders[o].payload, status |-> orders[o].status]
      /\ TheBook[o] # None
  BY <1>1, <1>2, RowImage DEF TheBook
<1>5. TheBook' = [TheBook EXCEPT ![o] = RowInBook(row)]
  BY <1>1 DEF Inv, TypeInv, TypeOK, TheBook
<1>6. CASE orders[o].status = "ACTIVE"
  <2>1. [TheBook[o] EXCEPT !.status = "CANCELLED"] = RowInBook(row)
    BY <1>4
  <2>2. TheBook' = [TheBook EXCEPT ![o].status = "CANCELLED"]
    BY <1>5, <2>1
  <2>3. TheBook[o].status = "ACTIVE"
    BY <1>4, <1>6
  <2>4. Cancelling(o)
    BY <1>3, <1>4, <2>2, <2>3 DEF Cancelling
  <2> QED
    BY <1>1, <2>4, CancelMapping
<1>7. CASE orders[o].status = "CANCELLED"
  <2>1. TheBook' = TheBook
    BY <1>1, <1>4, <1>5, <1>7 DEF TheBook
  <2> QED
    BY <1>3, <2>1, StutterMapping
<1> QED
  BY <1>1, <1>6, <1>7 DEF Row, Status

LEMMA ReceiveTells ==
    ASSUME Inv, NEW c \in Call, NEW r \in Replica, NEW q \in Request, Receive(c, r, q)
    PROVE  Book!Next \/ UNCHANGED Book!bookVars
<1>1. orders' = orders /\ ans[c] = None
  BY DEF Receive, Admit, Replay, RefuseReuse, StartLookup, Arrive, database,
         Inv, SafetyInv, AnswerInv
<1>2. CASE Replay(c, r, q)
  <2> DEFINE e == store[r][q.key]
             a == Success(e.response.order, e.response.payload, "ACTIVE", NumPackages)
  <2>1. q.key \in Key /\ q.key # None
    BY <1>2 DEF Replay, Hit, Request, CreateRequest, LookupRequest
  <2>2. e \in Entry /\ Backed(e, r, q.key)
    BY <1>2, <2>1 DEF Replay, Hit, Live, Inv, TypeInv, TypeOK, SafetyInv, EntriesAreTruthful
  <2>3. e.response.order \in OrderId /\ e.response.payload \in Payload
    BY <2>2 DEF Entry, Response
  <2>4. a \in Answer
    BY <2>3, SuccessType, SizeAssumption DEF Status, Inv, TypeInv
  <2>5. /\ a.code = "OK" /\ a.order = e.response.order /\ a.payload = e.response.payload
        /\ a.status = "ACTIVE"
    BY DEF Success
  <2>6. /\ ans' = [ans EXCEPT ![c] = a]
        /\ orders[e.response.order] # None
        /\ e.response.payload = orders[e.response.order].payload
    BY <1>2, <2>2 DEF Replay, Finish, Backed
  <2> HIDE DEF e, a
  <2> QED
    BY <1>1, <2>3, <2>4, <2>5, <2>6, AnswerTells DEF Status
<1>3. CASE RefuseReuse(c, r, q)
  <2>1. PICK a : a.code # "OK" /\ ans' = [ans EXCEPT ![c] = a]
    BY <1>3 DEF RefuseReuse, Finish, Failure, OnWire
  <2> QED
    BY <1>1, <2>1, NothingTold, BookKept, StutterMapping
<1>4. CASE Admit(c, r, q) \/ StartLookup(c, r, q)
  BY <1>1, <1>4, BookKept, StutterMapping DEF Admit, StartLookup, Goto, TheTold
<1> QED
  BY <1>2, <1>3, <1>4 DEF Receive

LEMMA LookupTells ==
    ASSUME Inv, NEW c \in Call, AnswerRead(c) \/ FinishCancel(c)
    PROVE  Book!Next
<1>1. /\ req[c].order \in OrderId /\ orders[req[c].order] # None /\ copy[c] \in Row
      /\ ans[c] = None /\ orders' = orders
  BY DEF AnswerRead, FinishCancel, Inv, TypeInv, HandlerInv, LookingUp, LookupRequest,
         SafetyInv, AnswerInv, database
<1>2. CASE AnswerRead(c)
  <2> DEFINE a == Success(req[c].order, copy[c].payload, copy[c].status, packages[req[c].order])
  <2>1. a \in Answer
    BY <1>1, SuccessType, SizeAssumption DEF Inv, TypeInv, TypeOK, Row
  <2>2. /\ a.code = "OK" /\ a.order = req[c].order /\ a.payload = copy[c].payload
        /\ a.status = copy[c].status
    BY DEF Success
  <2>3. /\ copy[c].payload = orders[req[c].order].payload
        /\ copy[c].status = "CANCELLED" => orders[req[c].order].status = "CANCELLED"
        /\ ans' = [ans EXCEPT ![c] = a]
    BY <1>2 DEF AnswerRead, Finish, Inv, SafetyInv, CopyInv, LookingUp
  <2> HIDE DEF a
  <2> QED
    BY <1>1, <2>1, <2>2, <2>3, AnswerTells DEF Row
<1>3. CASE FinishCancel(c)
  <2> DEFINE a == Success(req[c].order, None, "CANCELLED", 0)
  <2>1. a \in Answer
    BY <1>1, SuccessType DEF Status, Inv, TypeInv
  <2>2. a.code = "OK" /\ a.order = req[c].order /\ a.payload = None /\ a.status = "CANCELLED"
    BY DEF Success
  <2>3. orders[req[c].order].status = "CANCELLED" /\ ans' = [ans EXCEPT ![c] = a]
    BY <1>3 DEF FinishCancel, Finish, Inv, SafetyInv, CopyInv, LookingUp
  <2> HIDE DEF a
  <2> QED
    BY <1>1, <2>1, <2>2, <2>3, AnswerTells DEF Status
<1> QED
  BY <1>2, <1>3

LEMMA CreateTells ==
    ASSUME Inv, NEW c \in Call, FinishCreate(c)
    PROVE  Book!Next
<1> DEFINE a == Success(made[c], req[c].payload, "ACTIVE", NumPackages)
<1>1. /\ made[c] \in OrderId /\ req[c].payload \in Payload
      /\ orders[made[c]] # None /\ orders[made[c]].creator = c
      /\ ans[c] = None /\ orders' = orders
      /\ ans' = [ans EXCEPT ![c] = a]
  BY DEF FinishCreate, Finish, Inv, TypeInv, HandlerInv, Creating, Saving, CreateRequest,
         SafetyInv, TransactionInv, AnswerInv, database
<1>2. orders[made[c]].payload = req[c].payload
  BY <1>1 DEF Inv, SafetyInv, DatabaseInv
<1>3. a \in Answer
  BY <1>1, SuccessType, SizeAssumption DEF Status, Inv, TypeInv
<1>4. /\ a.code = "OK" /\ a.order = made[c] /\ a.payload = req[c].payload
      /\ a.status = "ACTIVE"
  BY DEF Success
<1> HIDE DEF a
<1> QED
  BY <1>1, <1>2, <1>3, <1>4, AnswerTells DEF Status

\* A handler that goes on, gives up or answers with an error.
LEMMA SilentStep ==
    ASSUME Inv, NEW c \in Call,
           \/ Drop(c) \/ Priced(c) \/ PricingRefuses(c) \/ PricingFails(c)
           \/ InsertOrder(c) \/ InsertDuplicate(c) \/ InsertPackage(c) \/ SaveFails(c)
           \/ FindNothing(c) \/ FindRow(c) \/ RefuseCancel(c) \/ StartUpdate(c) \/ LookupFails(c)
    PROVE  UNCHANGED Book!bookVars
<1>1. orders' = orders /\ ans[c] = None
  BY DEF Drop, Priced, PricingRefuses, PricingFails, InsertOrder, InsertDuplicate,
         InsertPackage, SaveFails, FindNothing, FindRow, RefuseCancel, StartUpdate, LookupFails,
         database, Inv, SafetyInv, AnswerInv
<1>2. ans' = ans \/ \E a : a.code # "OK" /\ ans' = [ans EXCEPT ![c] = a]
  <2>1. \A code \in Code \ {"OK"} : Failure(OnWire(req[c].op, code)).code # "OK"
    BY DEF Failure, OnWire, Code
  <2> QED
    BY <2>1
       DEF Drop, Priced, PricingRefuses, PricingFails, InsertOrder, InsertDuplicate,
           InsertPackage, SaveFails, FindNothing, FindRow, RefuseCancel, StartUpdate, LookupFails,
           Throw, Finish, Goto, Code
<1>3. TheTold' = TheTold
  BY <1>1, <1>2, NothingTold DEF TheTold
<1> QED
  BY <1>1, <1>3, BookKept, StutterMapping

\* Every step of the service is a step of the book, or none.
LEMMA NextRefines == Inv /\ [Next]_vars => [Book!Next]_(Book!bookVars)
<1> SUFFICES ASSUME Inv, [Next]_vars
             PROVE  Book!Next \/ UNCHANGED Book!bookVars
  OBVIOUS
<1>1. CASE UNCHANGED vars \/ Environment
  <2>1. orders' = orders /\ ans' = ans
    BY <1>1 DEF vars, database, Environment, Tick, Crash
  <2> QED
    BY <2>1, BookKept, StutterMapping DEF TheTold
<1>2. ASSUME NEW c \in Call, NEW r \in Replica, NEW q \in Request, Receive(c, r, q)
      PROVE  Book!Next \/ UNCHANGED Book!bookVars
  BY <1>2, ReceiveTells
<1>3. ASSUME NEW c \in Call, Drop(c) \/ Handle(c) \/ Fail(c)
      PROVE  Book!Next \/ UNCHANGED Book!bookVars
  BY <1>3, SilentStep, CommitPlaces, UpdateCancels, LookupTells, CreateTells DEF Handle, Fail
<1> QED
  BY <1>1, <1>2, <1>3 DEF Next

LEMMA InitRefines == Init => Book!Init
BY InitMapping DEF Init, TheBook, TheTold, RowInBook, ClaimOf

\* The orders service, on any number of replicas that crash, race and fail,
\* implements the order book: orders are placed once, only ever cancelled, never
\* erased, and every successful answer is true when it is given.
THEOREM OrdersRefinesBook == Spec => ImplementsOrderBook
BY InitRefines, NextRefines, Invariance, PTL DEF Spec, ImplementsOrderBook, Book!Spec
=============================================================================
