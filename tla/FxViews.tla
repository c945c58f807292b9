------------------------------- MODULE FxViews -------------------------------
(***************************************************************************)
(* The pages of the web frontend that convert currencies: the form that    *)
(* creates an order (CreateOrder.tsx), the receipt (ReceiptView.tsx) and   *)
(* the converter (CurrencyConverter.tsx).  One of them is open.            *)
(*                                                                         *)
(* The form and the receipt ask for a conversion from an effect, whenever  *)
(* what is selected changes, so requests overlap; the converter asks when  *)
(* its button is clicked, which is disabled meanwhile.  An effect runs     *)
(* right after the change that triggers it.  Answers come in any order: a  *)
(* fetch is neither aborted nor given a time limit.                        *)
(***************************************************************************)
EXTENDS Integers, Sequences, SequencesExt

CONSTANTS
    None,
    Home,        \* GTQ, the currency of every order
    Currencies,  \* the currencies that can be selected
    Amounts,     \* totals of an order, 0 among them
    MaxClicks    \* bound on what the user does

ASSUME ViewsAssumption ==
    Home \in Currencies /\ Amounts \subseteq Nat /\ 0 \in Amounts /\ MaxClicks \in Nat

VARIABLES
    view,     \* "form", "receipt" or "convert"; "gone" once the user left the form
    loaded,   \* the receipt: "loading", "yes" or "failed"
    from, to, \* the currencies selected
    amount,   \* the estimated total, the receipt's total or the amount typed
    tab,      \* the tab of the converter
    shown,    \* shown[t]: the request whose answer is shown on tab t, or None
    wanted,   \* wanted[t]: what the user asked for last on tab t, or None
    waiting,  \* the spinner
    failed,   \* the last answer was an error (only the converter shows that)
    asked,    \* requests in flight, as they were sent
    late,     \* an answer overtook an older one since the page last was quiet
    sending,  \* the order is being sent
    made,     \* the orders the form was told it created
    timers,   \* orders whose page opens when their timer goes off
    visited,  \* orders whose page was opened
    clicks    \* what the user did so far

fxViewVars == <<view, loaded, from, to, amount, tab, shown, wanted, waiting, failed,
                asked, late, sending, made, timers, visited, clicks>>
selection == <<loaded, from, to, amount, tab>>
results   == <<shown, wanted, waiting, failed, asked, late>>
orderVars == <<sending, made, timers, visited>>

Tabs == {"convert", "rate", "rates"}

Click == clicks < MaxClicks /\ clicks' = clicks + 1

Request(t, f, g, a) == [tab |-> t, from |-> f, to |-> g, amount |-> a]

Ask(r) ==
    /\ waiting' = TRUE
    /\ asked' = Append(asked, r)
    /\ wanted' = [wanted EXCEPT ![r.tab] = r]
    /\ late' = (late /\ asked # <<>>)

(***************************************************************************)
(* The form                                                                *)
(***************************************************************************)
\* The effect that converts the estimated total.
GetExchangeRate(g, a) ==
    IF g = Home \/ a = 0
    THEN /\ shown' = [shown EXCEPT !["convert"] = None]
         /\ wanted' = [wanted EXCEPT !["convert"] = None]
         /\ UNCHANGED <<waiting, failed, asked, late>>
    ELSE Ask(Request("convert", Home, g, a)) /\ UNCHANGED <<shown, failed>>

\* The form's fields change, and with them the estimate.
EditForm(a) ==
    /\ view = "form" /\ a # amount /\ Click
    /\ amount' = a /\ GetExchangeRate(to, a)
    /\ UNCHANGED <<view, loaded, from, to, tab>> /\ UNCHANGED orderVars

\* The selector is on the panel, which is there when there is something to convert.
SelectCurrency(g) ==
    /\ view = "form" /\ amount > 0 /\ g # to /\ Click
    /\ to' = g /\ GetExchangeRate(g, amount)
    /\ UNCHANGED <<view, loaded, from, amount, tab>> /\ UNCHANGED orderVars

\* handleSubmit.  The button is disabled until the answer, and enabled during the
\* two seconds before the order's page opens; no idempotency key is sent.
Submit ==
    /\ view = "form" /\ ~sending /\ Click
    /\ sending' = TRUE
    /\ UNCHANGED <<view, made, timers, visited>> /\ UNCHANGED selection /\ UNCHANGED results

\* The answer starts a timer, even when the form is no longer there.
Submitted ==
    /\ sending /\ sending' = FALSE
    /\ made' = made + 1
    /\ timers' = timers \cup {made + 1}
    /\ UNCHANGED <<view, visited, clicks>> /\ UNCHANGED selection /\ UNCHANGED results

SubmitFails ==
    /\ sending /\ sending' = FALSE
    /\ UNCHANGED <<view, made, timers, visited, clicks>>
    /\ UNCHANGED selection /\ UNCHANGED results

\* The user follows a link to another page of the application.
LeaveForm ==
    /\ view = "form" /\ Click
    /\ view' = "gone"
    /\ UNCHANGED selection /\ UNCHANGED results /\ UNCHANGED orderVars

\* Mutant: leaving the form clears its timers.
OpenFromForm(o) ==
    /\ view = "form" /\ o \in timers
    /\ view' = "gone"
    /\ timers' = timers \ {o} /\ visited' = visited \cup {o}
    /\ UNCHANGED <<sending, made, clicks>> /\ UNCHANGED selection /\ UNCHANGED results

\* The timer opens the order's page, wherever the user went meanwhile.
OpenOrder(o) ==
    /\ o \in timers
    /\ view' = "gone"
    /\ timers' = timers \ {o} /\ visited' = visited \cup {o}
    /\ UNCHANGED <<sending, made, clicks>> /\ UNCHANGED selection /\ UNCHANGED results

(***************************************************************************)
(* The receipt                                                             *)
(***************************************************************************)
\* The receipt arrives; its total is converted when there is one.
LoadReceipt(total) ==
    /\ view = "receipt" /\ loaded = "loading"
    /\ loaded' = "yes" /\ amount' = total
    /\ IF total > 0
       THEN Ask(Request("convert", Home, to, total)) /\ UNCHANGED <<shown, failed>>
       ELSE UNCHANGED results
    /\ UNCHANGED <<view, from, to, tab, clicks>> /\ UNCHANGED orderVars

ReceiptFails ==
    /\ view = "receipt" /\ loaded = "loading"
    /\ loaded' = "failed"
    /\ UNCHANGED <<view, from, to, amount, tab, clicks>>
    /\ UNCHANGED results /\ UNCHANGED orderVars

SelectTarget(g) ==
    /\ view = "receipt" /\ loaded = "yes" /\ g \notin {to, Home} /\ Click
    /\ to' = g
    /\ IF amount > 0
       THEN Ask(Request("convert", Home, g, amount)) /\ UNCHANGED <<shown, failed>>
       ELSE UNCHANGED results
    /\ UNCHANGED <<view, loaded, from, amount, tab>> /\ UNCHANGED orderVars

(***************************************************************************)
(* The converter                                                           *)
(***************************************************************************)
\* Selecting asks for nothing and is never disabled.
SelectPair(f, g) ==
    /\ view = "convert" /\ <<f, g>> # <<from, to>> /\ Click
    /\ \/ f = from \/ g = to \/ <<f, g>> = <<to, from>>
    /\ from' = f /\ to' = g
    /\ UNCHANGED <<view, loaded, amount, tab>> /\ UNCHANGED results /\ UNCHANGED orderVars

TypeAmount(a) ==
    /\ view = "convert" /\ tab = "convert" /\ a # amount /\ Click
    /\ amount' = a
    /\ UNCHANGED <<view, loaded, from, to, tab>> /\ UNCHANGED results /\ UNCHANGED orderVars

OpenTab(t) ==
    /\ view = "convert" /\ t # tab /\ Click
    /\ tab' = t
    /\ UNCHANGED <<view, loaded, from, to, amount>> /\ UNCHANGED results /\ UNCHANGED orderVars

\* Mutant: the button is not disabled while an answer is awaited.
AskAgain ==
    /\ view = "convert" /\ Click
    /\ failed' = FALSE
    /\ shown' = [shown EXCEPT ![tab] = None]
    /\ Ask(Request(tab, from, to, amount))
    /\ UNCHANGED <<view>> /\ UNCHANGED selection /\ UNCHANGED orderVars

\* handleConvert, handleGetRate and handleGetRates, one for each tab.
AskConverter ==
    /\ view = "convert" /\ ~waiting /\ Click
    /\ failed' = FALSE
    /\ shown' = [shown EXCEPT ![tab] = None]
    /\ Ask(Request(tab, from, to, amount))
    /\ UNCHANGED <<view>> /\ UNCHANGED selection /\ UNCHANGED orderVars

(***************************************************************************)
(* Answers                                                                 *)
(***************************************************************************)
Answered(i) ==
    /\ asked' = RemoveAt(asked, i)
    /\ late' = (late \/ i # 1)
    /\ waiting' = FALSE

\* The answer repeats the request (contracts/proto/fx.proto), so it names its own
\* currencies and amount.
Answer(i) ==
    /\ Answered(i)
    /\ shown' = [shown EXCEPT ![asked[i].tab] = asked[i]]
    /\ failed' = FALSE
    /\ UNCHANGED <<view, wanted, clicks>> /\ UNCHANGED selection /\ UNCHANGED orderVars

\* Mutant: the spinner is not taken away after an error.
FailsAndSpins(i) ==
    /\ asked' = RemoveAt(asked, i) /\ late' = (late \/ i # 1)
    /\ failed' = TRUE
    /\ UNCHANGED <<view, shown, wanted, waiting, clicks>>
    /\ UNCHANGED selection /\ UNCHANGED orderVars

\* Mutant: the form keeps what it shows, as the receipt does.
FailsAndKeeps(i) ==
    /\ Answered(i)
    /\ failed' = TRUE
    /\ UNCHANGED <<view, shown, wanted, clicks>>
    /\ UNCHANGED selection /\ UNCHANGED orderVars

\* Only the form takes away what it shows; the converter did when it asked.
AnswerFails(i) ==
    /\ Answered(i)
    /\ failed' = TRUE
    /\ shown' = IF view \in {"form", "gone"} THEN [shown EXCEPT !["convert"] = None] ELSE shown
    /\ UNCHANGED <<view, wanted, clicks>> /\ UNCHANGED selection /\ UNCHANGED orderVars

(***************************************************************************)
(* Correctness                                                             *)
(***************************************************************************)
NoResults == [t \in Tabs |-> None]

\* The form converts the estimate of its initial package as soon as it is there.
FxViewsInit ==
    /\ from = Home /\ to \in Currencies \ {Home} /\ tab = "convert"
    /\ shown = NoResults /\ failed = FALSE /\ late = FALSE
    /\ \/ /\ view = "form" /\ loaded = "yes" /\ amount \in Amounts \ {0}
          /\ asked = <<Request("convert", Home, to, amount)>> /\ waiting = TRUE
          /\ wanted = [NoResults EXCEPT !["convert"] = asked[1]]
       \/ /\ view = "receipt" /\ loaded = "loading" /\ amount = 0
          /\ asked = <<>> /\ waiting = FALSE /\ wanted = NoResults
       \/ /\ view = "convert" /\ loaded = "yes" /\ amount \in Amounts \ {0}
          /\ asked = <<>> /\ waiting = FALSE /\ wanted = NoResults
    /\ sending = FALSE /\ made = 0 /\ timers = {} /\ visited = {} /\ clicks = 0

\* A result belongs to its tab, the spinner is shown only while a request is in
\* flight, and the converter never has two of them.
FxViewsTypeOK ==
    /\ {from, to} \subseteq Currencies /\ amount \in Amounts /\ tab \in Tabs
    /\ \A t \in Tabs : shown[t] = None \/ shown[t].tab = t
    /\ waiting => asked # <<>>
    /\ view = "convert" => Len(asked) = (IF waiting THEN 1 ELSE 0)
    /\ timers \cup visited \subseteq 1..made

\* What the pages show.  The form and the receipt have a spinner in the place of
\* the result, and the form a panel that needs something to convert; the converter
\* shows the result of the open tab, also while another tab waits for its answer.
PanelDisplayed == view = "form" /\ amount > 0 /\ to # Home /\ ~waiting /\ shown["convert"] # None
TotalDisplayed == view = "receipt" /\ loaded = "yes" /\ ~waiting /\ shown["convert"] # None
ResultDisplayed(t) == view = "convert" /\ t = tab /\ shown[t] # None

\* Once every request was answered, the newest last, the conversion that the form
\* or the receipt shows next to the selected currency (CreateOrder.tsx:384,
\* ReceiptView.tsx:228) is that of the selected currency and the current total,
\* except on a receipt whose last conversion failed.
PanelIsTrue ==
    asked = <<>> /\ ~late /\ (PanelDisplayed \/ (TotalDisplayed /\ ~failed))
        => shown["convert"] = Request("convert", Home, to, amount)

\* The converter never shows on a tab anything but the answer to what was asked
\* last on that tab, whatever is selected, swapped or opened meanwhile.
ConverterIsTrue == \A t \in Tabs : ResultDisplayed(t) => shown[t] = wanted[t]

\* The page of every order that the form created is opened once its timer goes off,
\* those of a second submission and of a form left meanwhile included.
EveryOrderIsVisited == (made > 0) ~> (visited = 1..made)
=============================================================================
