------------------------------- MODULE Clients -------------------------------
(***************************************************************************)
(* The web frontend with one page open: the list of orders (OrderListing), *)
(* one order (OrderPage), or one of the pages that convert currencies      *)
(* (FxViews).  The router keeps no state between pages, so a page starts   *)
(* afresh each time.                                                       *)
(***************************************************************************)
EXTENDS OrderListing, FxViews, OrderPage

ListIdle ==
    /\ store = "none" /\ book = <<>> /\ page = 0 /\ rows = NoRows /\ of = 0 /\ total = 0
    /\ loading = FALSE /\ error = FALSE /\ loads = <<>> /\ cancels = <<>>
    /\ seen = {} /\ mine = {} /\ spoiled = {} /\ moves = MaxMoves

FxIdle ==
    /\ view = "none" /\ loaded = "failed" /\ from = Home /\ to = Home /\ amount = 0
    /\ tab = "convert" /\ shown = NoResults /\ wanted = NoResults
    /\ waiting = FALSE /\ failed = FALSE /\ asked = <<>> /\ late = FALSE
    /\ sending = FALSE /\ made = 0 /\ timers = {} /\ visited = {} /\ clicks = MaxClicks

PageIdle ==
    /\ status = [o \in Orders |-> "ACTIVE"] /\ orderId = NoOrder /\ order = NoOrder
    /\ fetching = FALSE /\ erred = FALSE /\ gets = <<>> /\ cancelling = <<>>
    /\ told = {} /\ moved = {} /\ inputs = MaxInputs

ClientsInit ==
    \/ ListInit /\ FxIdle /\ PageIdle
    \/ ListIdle /\ FxViewsInit /\ PageIdle
    \/ ListIdle /\ FxIdle /\ PageInit

\* The answers that the browser waits for.
ListAnswers ==
    \/ \E i \in DOMAIN loads : CountOrders(i) \/ FetchPage(i) \/ Loaded(i) \/ LoadFails(i)
    \/ \E j \in DOMAIN cancels : CancelOrder(j) \/ Cancelled(j) \/ CancelFails(j)

FxAnswers == \E i \in DOMAIN asked : Answer(i) \/ AnswerFails(i)

ReceiptAnswers == ReceiptFails \/ \E a \in Amounts : LoadReceipt(a)

FormAnswers == Submitted \/ SubmitFails

Times == 1..(Old + New)

ClientsNext ==
    \/ /\ store # "none"
       /\ \/ \E at \in Times : Insert(at)
          \/ /\ store # "monolith"
             /\ \/ \E p \in {page - 1, page + 1} : TurnTo(p)
                \/ \E o \in Order : Cancel(o)
          \/ FollowToken
          \/ ListAnswers
       /\ UNCHANGED <<fxViewVars, pageVars>>
    \/ /\ view # "none"
       /\ \/ \E a \in Amounts : EditForm(a) \/ LoadReceipt(a) \/ TypeAmount(a)
          \/ \E g \in Currencies : SelectCurrency(g) \/ SelectTarget(g)
          \/ \E f, g \in Currencies : SelectPair(f, g)
          \/ \E t \in Tabs : OpenTab(t)
          \/ \E o \in timers : OpenOrder(o)
          \/ Submit \/ Submitted \/ SubmitFails \/ LeaveForm
          \/ ReceiptFails \/ AskConverter
          \/ FxAnswers
       /\ UNCHANGED <<listVars, pageVars>>
    \/ /\ orderId # NoOrder
       /\ PageNext
       /\ UNCHANGED <<listVars, fxViewVars>>

clientVars == <<listVars, fxViewVars, pageVars>>

\* Every call is answered or fails, and every timer goes off; users owe nothing.
ClientsSpec ==
    /\ ClientsInit /\ [][ClientsNext]_clientVars
    /\ WF_clientVars(ListAnswers /\ UNCHANGED <<fxViewVars, pageVars>>)
    /\ WF_clientVars(FxAnswers /\ UNCHANGED <<listVars, pageVars>>)
    /\ WF_clientVars(ReceiptAnswers /\ UNCHANGED <<listVars, pageVars>>)
    /\ WF_clientVars(FormAnswers /\ UNCHANGED <<listVars, pageVars>>)
    /\ WF_clientVars(PageAnswers /\ UNCHANGED <<listVars, fxViewVars>>)
    /\ WF_clientVars((\E o \in timers : OpenOrder(o)) /\ UNCHANGED <<listVars, pageVars>>)

\* The type invariants of the pages.
ClientsTypeOK ==
    /\ ListTypeOK
    /\ view # "none" => FxViewsTypeOK
    /\ orderId # NoOrder => PageTypeOK

\* A spinner that hides a page or a result is taken away, also after an error: in
\* the list, the page of an order, the receipt and its conversion, the panel of the
\* form and the converter; so is the one on the button of the form, which is
\* disabled while the order is sent (the finally of every request that has one).
ReceiptSpins == view = "receipt" /\ loaded = "loading"
Spinner == loading \/ waiting \/ fetching \/ sending \/ ReceiptSpins
SpinnerEnds == Spinner ~> ~Spinner
=============================================================================
