------------------------------ MODULE OrderPage ------------------------------
(***************************************************************************)
(* The page of the web frontend that shows one order (OrderDetail.tsx).    *)
(*                                                                         *)
(* It shows the order of its last load, and cancels the order its address  *)
(* names.  The address changes under the open page: the timer of the form  *)
(* opens the new order wherever the user went meanwhile, and the browser's *)
(* history goes from one order to another.  Loads and cancellations that   *)
(* are under way then end where they were not meant to.                    *)
(***************************************************************************)
EXTENDS Integers, Sequences, SequencesExt

CONSTANTS
    Orders,    \* the orders whose page can be opened
    NoOrder,
    MaxInputs  \* bound on what the user and the timer do

VARIABLES
    status,      \* status[o]: of order o at the orders service
    orderId,     \* the order the address names; NoOrder while another page is open
    order,       \* the order shown, with its status, or NoOrder
    fetching,    \* the spinner hides the page
    erred,       \* an error hides the page
    gets,        \* calls of getOrder in flight
    cancelling,  \* calls of cancelOrder in flight
    told,        \* orders the user was told to have cancelled (history)
    moved,       \* the address changed while a load was in flight ("crossed"), or a
                 \* cancellation ("left") (history)
    inputs       \* what the user and the timer did so far

pageVars == <<status, orderId, order, fetching, erred, gets, cancelling, told, moved, inputs>>

Status == {"ACTIVE", "CANCELLED"}
OrderView == [orderId : Orders, status : Status]

ASSUME PageAssumption == NoOrder \notin Orders \cup Status /\ MaxInputs \in Nat

Input == inputs < MaxInputs /\ inputs' = inputs + 1

(***************************************************************************)
(* The services                                                            *)
(***************************************************************************)
\* Someone else cancels an order.
CancelledByOther(o) ==
    /\ status[o] = "ACTIVE"
    /\ status' = [status EXCEPT ![o] = "CANCELLED"]
    /\ UNCHANGED <<orderId, order, fetching, erred, gets, cancelling, told, moved, inputs>>

\* getOrder reads the order.
GetOrder(i) ==
    /\ gets[i].status = NoOrder
    /\ gets' = [gets EXCEPT ![i].status = status[gets[i].orderId]]
    /\ UNCHANGED <<status, orderId, order, fetching, erred, cancelling, told, moved, inputs>>

\* cancelOrder checks the status, or refuses, ...
CheckStatus(j) ==
    /\ cancelling[j].step = "asked"
    /\ cancelling' = IF status[cancelling[j].orderId] = "ACTIVE"
                     THEN [cancelling EXCEPT ![j].step = "checked"]
                     ELSE RemoveAt(cancelling, j)
    /\ UNCHANGED <<status, orderId, order, fetching, erred, gets, told, moved, inputs>>

\* ... and updates it later, whatever it has become.
ApplyUpdate(j) ==
    /\ cancelling[j].step = "checked"
    /\ status' = [status EXCEPT ![cancelling[j].orderId] = "CANCELLED"]
    /\ cancelling' = [cancelling EXCEPT ![j].step = "done"]
    /\ UNCHANGED <<orderId, order, fetching, erred, gets, told, moved, inputs>>

(***************************************************************************)
(* The page                                                                *)
(***************************************************************************)
LoadOrder(o) ==
    /\ fetching' = TRUE /\ erred' = FALSE
    /\ gets' = Append(gets, [orderId |-> o, status |-> NoOrder])

\* Mutant: the effect does not depend on the address.
JumpOnly(o) ==
    /\ Input /\ o # orderId
    /\ orderId' = o
    /\ moved' = moved \cup (IF gets = <<>> THEN {} ELSE {"crossed"})
                      \cup (IF cancelling = <<>> THEN {} ELSE {"left"})
    /\ UNCHANGED <<status, order, fetching, erred, gets, cancelling, told>>

\* The address changes; the effect on it loads the order.
JumpTo(o) ==
    /\ Input /\ o # orderId
    /\ orderId' = o
    /\ LoadOrder(o)
    /\ moved' = moved \cup (IF gets = <<>> THEN {} ELSE {"crossed"})
                      \cup (IF cancelling = <<>> THEN {} ELSE {"left"})
    /\ UNCHANGED <<status, order, cancelling, told>>

Got(i) ==
    /\ gets[i].status # NoOrder
    /\ order' = gets[i]
    /\ fetching' = FALSE
    /\ gets' = RemoveAt(gets, i)
    /\ UNCHANGED <<status, orderId, erred, cancelling, told, moved, inputs>>

GetFails(i) ==
    /\ erred' = TRUE /\ fetching' = FALSE
    /\ gets' = RemoveAt(gets, i)
    /\ UNCHANGED <<status, orderId, order, cancelling, told, moved, inputs>>

OrderVisible == ~fetching /\ ~erred /\ order # NoOrder

\* Mutant: the button is there for cancelled orders too.
ClickAnyCancel ==
    /\ Input /\ OrderVisible
    /\ cancelling' = Append(cancelling,
          [orderId |-> orderId, seen |-> order.orderId, step |-> "asked"])
    /\ UNCHANGED <<status, orderId, order, fetching, erred, gets, told, moved>>

\* The user clicks Cancelar Orden below the order shown.
ClickCancel ==
    /\ Input /\ OrderVisible /\ order.status = "ACTIVE"
    /\ cancelling' = Append(cancelling,
          [orderId |-> orderId, seen |-> order.orderId, step |-> "asked"])
    /\ UNCHANGED <<status, orderId, order, fetching, erred, gets, told, moved>>

\* The answer to a cancellation loads the order of the render of the click.
OrderCancelled(j) ==
    /\ cancelling[j].step = "done"
    /\ told' = told \cup {cancelling[j].orderId}
    /\ cancelling' = RemoveAt(cancelling, j)
    /\ LoadOrder(cancelling[j].orderId)
    /\ UNCHANGED <<status, orderId, order, moved, inputs>>

\* The call fails on its way there or back; an alert says so.
CancelOrderFails(j) ==
    /\ cancelling' = RemoveAt(cancelling, j)
    /\ UNCHANGED <<status, orderId, order, fetching, erred, gets, told, moved, inputs>>

PageInit ==
    /\ status \in [Orders -> Status]
    /\ orderId \in Orders /\ order = NoOrder
    /\ fetching = TRUE /\ erred = FALSE
    /\ gets = <<[orderId |-> orderId, status |-> NoOrder]>> /\ cancelling = <<>>
    /\ told = {} /\ moved = {} /\ inputs = 0

PageAnswers ==
    \/ \E i \in DOMAIN gets : GetOrder(i) \/ Got(i) \/ GetFails(i)
    \/ \E j \in DOMAIN cancelling :
          CheckStatus(j) \/ ApplyUpdate(j) \/ OrderCancelled(j) \/ CancelOrderFails(j)

PageNext ==
    \/ \E o \in Orders : JumpTo(o) \/ CancelledByOther(o)
    \/ ClickCancel
    \/ PageAnswers

(***************************************************************************)
(* Correctness                                                             *)
(***************************************************************************)
\* The shape of the state; the spinner is there only while a load is in flight.
PageTypeOK ==
    /\ status \in [Orders -> Status] /\ orderId \in Orders
    /\ order \in OrderView \cup {NoOrder}
    /\ gets \in Seq([orderId : Orders, status : Status \cup {NoOrder}])
    /\ cancelling \in Seq([orderId : Orders, seen : Orders, step : {"asked", "checked", "done"}])
    /\ told \subseteq Orders /\ moved \subseteq {"crossed", "left"}
    /\ fetching => gets # <<>>

\* The page shows the order its address names, and shows it as cancelled once the
\* user was told so, however cancellations and loads overlap, unless the address
\* changed during a load or a cancellation.
PageIsTrue ==
    OrderVisible /\ moved = {} =>
        order.orderId = orderId /\ (orderId \in told => order.status = "CANCELLED")

\* The user cancels the order that is shown, not another that the address names,
\* unless the address changed during a load.
CancelsWhatIsShown ==
    "crossed" \notin moved =>
        \A j \in DOMAIN cancelling : cancelling[j].orderId = cancelling[j].seen
=============================================================================
