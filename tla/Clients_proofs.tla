---------------------------- MODULE Clients_proofs ----------------------------
(***************************************************************************)
(* Proofs about what the pages of the frontend show, for any currencies    *)
(* and amounts, any orders and page size, and any number of clicks.        *)
(***************************************************************************)
EXTENDS Clients, SequenceTheorems, TLAPS

\* What is in flight after one call has ended: the others, in their order.
LEMMA Removed ==
    ASSUME NEW S, NEW s \in Seq(S), NEW i \in 1..Len(s)
    PROVE  /\ RemoveAt(s, i) \in Seq(S) /\ Len(RemoveAt(s, i)) = Len(s) - 1
           /\ \A j \in 1..(Len(s) - 1) : RemoveAt(s, i)[j] = IF j < i THEN s[j] ELSE s[j + 1]
<1> DEFINE a == SubSeq(s, 1, i - 1)
           b == SubSeq(s, i + 1, Len(s))
<1>1. a \in Seq(S) /\ Len(a) = i - 1 /\ \A j \in 1..(i - 1) : a[j] = s[j]
  BY SubSeqProperties
<1>2. b \in Seq(S) /\ Len(b) = Len(s) - i /\ \A j \in 1..(Len(s) - i) : b[j] = s[i + j]
  BY SubSeqProperties
<1>3. RemoveAt(s, i) = a \o b
  BY DEF RemoveAt
<1> HIDE DEF a, b
<1>4. /\ a \o b \in Seq(S) /\ Len(a \o b) = Len(a) + Len(b)
      /\ \A j \in 1..(Len(a) + Len(b)) : (a \o b)[j] = IF j <= Len(a) THEN a[j] ELSE b[j - Len(a)]
  BY <1>1, <1>2, ConcatProperties
<1>5. Len(a) + Len(b) = Len(s) - 1
  BY <1>1, <1>2
<1>6. ASSUME NEW j \in 1..(Len(s) - 1) PROVE (a \o b)[j] = IF j < i THEN s[j] ELSE s[j + 1]
  <2>1. CASE j < i
    BY <1>1, <1>4, <1>5, <2>1
  <2>2. CASE ~(j < i)
    <3>1. j - Len(a) \in 1..(Len(s) - i) /\ i + (j - Len(a)) = j + 1
      BY <1>1, <2>2
    <3> QED
      BY <1>1, <1>2, <1>4, <1>5, <2>2, <3>1
  <2> QED
    BY <2>1, <2>2
<1> QED
  BY <1>3, <1>4, <1>5, <1>6

LEMMA RemovedLast ==
    ASSUME NEW S, NEW s \in Seq(S), NEW i \in DOMAIN s, Len(s) <= 1
    PROVE  i = 1 /\ RemoveAt(s, i) = <<>>
<1>1. DOMAIN s = 1..Len(s) /\ Len(s) \in Nat
  BY LenProperties
<1>2. i = 1 /\ i \in 1..Len(s) /\ Len(s) = 1
  BY <1>1
<1>3. RemoveAt(s, i) \in Seq(S) /\ Len(RemoveAt(s, i)) = Len(s) - 1
  BY <1>2, Removed
<1> QED
  BY <1>2, <1>3, EmptySeq

LEMMA GoneFrom ==
    ASSUME NEW S, NEW s \in Seq(S), NEW i \in DOMAIN s
    PROVE  /\ RemoveAt(s, i) \in Seq(S) /\ Len(RemoveAt(s, i)) = Len(s) - 1
           /\ \A k \in DOMAIN RemoveAt(s, i) : \E m \in DOMAIN s : RemoveAt(s, i)[k] = s[m]
<1>1. DOMAIN s = 1..Len(s) /\ Len(s) \in Nat
  BY LenProperties
<1>2. /\ RemoveAt(s, i) \in Seq(S) /\ Len(RemoveAt(s, i)) = Len(s) - 1
      /\ \A k \in 1..(Len(s) - 1) : RemoveAt(s, i)[k] = IF k < i THEN s[k] ELSE s[k + 1]
  BY <1>1, Removed
<1>3. DOMAIN RemoveAt(s, i) = 1..(Len(s) - 1)
  BY <1>2, LenProperties
<1>4. ASSUME NEW k \in 1..(Len(s) - 1) PROVE \E m \in DOMAIN s : RemoveAt(s, i)[k] = s[m]
  <2>1. k \in DOMAIN s /\ k + 1 \in DOMAIN s
    BY <1>1
  <2>2. RemoveAt(s, i)[k] = s[k] \/ RemoveAt(s, i)[k] = s[k + 1]
    BY <1>2
  <2> QED
    BY <2>1, <2>2
<1> QED
  BY <1>2, <1>3, <1>4

LEMMA AddedTo ==
    ASSUME NEW S, NEW s \in Seq(S), NEW e \in S
    PROVE  /\ Append(s, e) \in Seq(S) /\ Append(s, e) # <<>> /\ Len(Append(s, e)) = Len(s) + 1
           /\ \A k \in DOMAIN Append(s, e) :
                 Append(s, e)[k] = e \/ \E m \in DOMAIN s : Append(s, e)[k] = s[m]
<1>1. /\ Append(s, e) \in Seq(S) /\ Append(s, e) # <<>> /\ Len(Append(s, e)) = Len(s) + 1
      /\ Append(s, e)[Len(s) + 1] = e /\ \A k \in 1..Len(s) : Append(s, e)[k] = s[k]
  BY AppendProperties
<1>2. DOMAIN Append(s, e) = 1..(Len(s) + 1) /\ DOMAIN s = 1..Len(s) /\ Len(s) \in Nat
  BY <1>1, LenProperties
<1>3. ASSUME NEW k \in 1..(Len(s) + 1)
      PROVE  Append(s, e)[k] = e \/ \E m \in DOMAIN s : Append(s, e)[k] = s[m]
  <2>1. k = Len(s) + 1 \/ k \in DOMAIN s
    BY <1>2
  <2> QED
    BY <1>1, <1>2, <2>1
<1> QED
  BY <1>1, <1>2, <1>3

LEMMA ReplacedIn ==
    ASSUME NEW S, NEW s \in Seq(S), NEW i \in DOMAIN s, NEW e \in S
    PROVE  /\ [s EXCEPT ![i] = e] \in Seq(S) /\ Len([s EXCEPT ![i] = e]) = Len(s)
           /\ s # <<>> /\ [s EXCEPT ![i] = e] # <<>>
           /\ DOMAIN [s EXCEPT ![i] = e] = DOMAIN s
           /\ \A k \in DOMAIN s : [s EXCEPT ![i] = e][k] = IF k = i THEN e ELSE s[k]
<1>1. DOMAIN s = 1..Len(s) /\ Len(s) \in Nat
  BY LenProperties
<1>2. /\ [s EXCEPT ![i] = e] \in Seq(S) /\ Len([s EXCEPT ![i] = e]) = Len(s)
      /\ \A k \in 1..Len(s) : [s EXCEPT ![i] = e][k] = IF k = i THEN e ELSE s[k]
  BY <1>1, ExceptSeq
<1> QED
  BY <1>1, <1>2, EmptySeq, LenProperties
-----------------------------------------------------------------------------

\* The pages that convert.

Conversion == [tab : Tabs, from : Currencies, to : Currencies, amount : Amounts]

ViewTypes ==
    /\ from \in Currencies /\ to \in Currencies /\ amount \in Amounts /\ tab \in Tabs
    /\ shown \in [Tabs -> Conversion \cup {None}]
    /\ wanted \in [Tabs -> Conversion \cup {None}]
    /\ asked \in Seq(Conversion) /\ late \in BOOLEAN

Selected == Request("convert", Home, to, amount)

\* While answers come in order, the last request in flight is for what is selected,
\* or, when none is, the conversion that is shown.
UpToDate ==
    IF asked = <<>> THEN shown["convert"] \in {None, Selected}
    ELSE asked[Len(asked)] = Selected

PanelInv ==
    /\ view \in {"form", "receipt"} => \A i \in DOMAIN asked : asked[i].tab = "convert"
    /\ view = "form" /\ amount > 0 /\ to # Home /\ ~late => UpToDate
    /\ view = "receipt" /\ loaded = "yes" /\ ~late => UpToDate \/ (asked = <<>> /\ failed)
    /\ view = "receipt" /\ (loaded # "yes" \/ ~(amount > 0)) =>
          asked = <<>> /\ shown["convert"] = None

\* The converter waits for one answer, to what was asked last on its tab.
ConverterInv ==
    view = "convert" =>
        /\ IF waiting THEN Len(asked) = 1 /\ wanted[asked[1].tab] = asked[1] ELSE asked = <<>>
        /\ \A t \in Tabs : shown[t] # None => shown[t] = wanted[t]

ViewsInv == ViewTypes /\ PanelInv /\ ConverterInv

LEMMA InitViewsInv == ClientsInit => ViewsInv
<1>1. ASSUME FxIdle PROVE ViewsInv
  BY <1>1, EmptySeq, ViewsAssumption
     DEF FxIdle, ViewsInv, ViewTypes, PanelInv, ConverterInv, NoResults, Tabs
<1>2. ASSUME FxViewsInit PROVE ViewsInv
  <2> DEFINE r == Request("convert", Home, to, amount)
  <2>1. /\ from \in Currencies /\ to \in Currencies /\ amount \in Amounts /\ tab \in Tabs
        /\ shown = NoResults /\ late = FALSE
        /\ (asked = <<r>> /\ wanted = [NoResults EXCEPT !["convert"] = r])
             \/ (asked = <<>> /\ wanted = NoResults)
    BY <1>2, ViewsAssumption DEF FxViewsInit, Tabs
  <2>2. r \in Conversion
    BY <2>1, ViewsAssumption DEF Conversion, Request, Tabs
  <2>3. <<r>> \in Seq(Conversion) /\ <<>> \in Seq(Conversion)
    BY <2>2, EmptySeq
  <2>4. NoResults \in [Tabs -> Conversion \cup {None}]
        /\ [NoResults EXCEPT !["convert"] = r] \in [Tabs -> Conversion \cup {None}]
    BY <2>2 DEF NoResults, Tabs
  <2>5. ViewTypes
    BY <2>1, <2>3, <2>4 DEF ViewTypes
  <2>6. PanelInv /\ ConverterInv
    BY <1>2, ViewsAssumption
       DEF FxViewsInit, PanelInv, ConverterInv, UpToDate, Selected, NoResults, Tabs, Request
  <2> QED
    BY <2>5, <2>6 DEF ViewsInv
<1> QED
  BY <1>1, <1>2 DEF ClientsInit

\* Asking for what is then selected.
LEMMA Asked ==
    ASSUME ViewTypes, NEW r \in Conversion, Ask(r)
    PROVE  /\ asked' \in Seq(Conversion) /\ asked' # <<>> /\ Len(asked') = Len(asked) + 1
           /\ asked'[Len(asked')] = r
           /\ \A i \in DOMAIN asked' : asked'[i] = r \/ (i \in DOMAIN asked /\ asked'[i] = asked[i])
           /\ wanted' = [wanted EXCEPT ![r.tab] = r] /\ wanted' \in [Tabs -> Conversion \cup {None}]
           /\ waiting' = TRUE /\ late' \in BOOLEAN
<1>1. asked \in Seq(Conversion) /\ asked' = Append(asked, r)
  BY DEF ViewTypes, Ask
<1>2. /\ asked' \in Seq(Conversion) /\ asked' # <<>> /\ Len(asked') = Len(asked) + 1
      /\ \A i \in 1..Len(asked) : asked'[i] = asked[i]
      /\ asked'[Len(asked) + 1] = r
  BY <1>1, AppendProperties
<1>3. DOMAIN asked' = 1..Len(asked') /\ DOMAIN asked = 1..Len(asked) /\ Len(asked) \in Nat
  BY <1>1, <1>2, LenProperties
<1>4. wanted' = [wanted EXCEPT ![r.tab] = r] /\ waiting' = TRUE /\ late' \in BOOLEAN
  BY DEF Ask
<1>5. wanted' \in [Tabs -> Conversion \cup {None}]
  BY <1>4 DEF ViewTypes
<1>6. ASSUME NEW i \in DOMAIN asked' PROVE asked'[i] = r \/ (i \in DOMAIN asked /\ asked'[i] = asked[i])
  BY <1>2, <1>3, <1>6
<1> QED
  BY <1>2, <1>4, <1>5, <1>6

LEMMA FormInv ==
    ASSUME ViewsInv,
           (\E a \in Amounts : EditForm(a)) \/ (\E g \in Currencies : SelectCurrency(g))
    PROVE  ViewsInv'
<1> USE DEF ViewsInv
<1>1. /\ view = "form" /\ view' = view /\ from' = from /\ tab' = tab
      /\ to' \in Currencies /\ amount' \in Amounts
      /\ GetExchangeRate(to', amount')
  BY DEF EditForm, SelectCurrency, ViewTypes
<1>2. CASE to' = Home \/ amount' = 0
  <2>1. /\ shown' = [shown EXCEPT !["convert"] = None] /\ wanted' = [wanted EXCEPT !["convert"] = None]
        /\ UNCHANGED <<asked, late>>
    BY <1>1, <1>2 DEF GetExchangeRate
  <2>2. ViewTypes'
    BY <1>1, <2>1 DEF ViewTypes
  <2>3. PanelInv' /\ ConverterInv'
    BY <1>1, <1>2, <2>1 DEF PanelInv, ConverterInv
  <2> QED
    BY <2>2, <2>3
<1>3. CASE ~(to' = Home \/ amount' = 0)
  <2> DEFINE r == Request("convert", Home, to', amount')
  <2>1. Ask(r) /\ shown' = shown
    BY <1>1, <1>3 DEF GetExchangeRate
  <2>2. r \in Conversion /\ r.tab = "convert"
    BY <1>1, ViewsAssumption DEF Request, Conversion, Tabs
  <2> HIDE DEF r
  <2>3. /\ asked' \in Seq(Conversion) /\ asked' # <<>> /\ asked'[Len(asked')] = r
        /\ \A i \in DOMAIN asked' : asked'[i] = r \/ (i \in DOMAIN asked /\ asked'[i] = asked[i])
        /\ wanted' \in [Tabs -> Conversion \cup {None}] /\ late' \in BOOLEAN
    BY <2>1, <2>2, Asked
  <2>4. ViewTypes'
    BY <1>1, <2>1, <2>3 DEF ViewTypes
  <2>5. UpToDate'
    BY <2>3 DEF UpToDate, Selected, r
  <2>6. PanelInv' /\ ConverterInv'
    BY <1>1, <2>2, <2>3, <2>5 DEF PanelInv, ConverterInv
  <2> QED
    BY <2>4, <2>6
<1> QED
  BY <1>2, <1>3

LEMMA ReceiptInv ==
    ASSUME ViewsInv,
           ReceiptFails \/ (\E a \in Amounts : LoadReceipt(a)) \/ (\E g \in Currencies : SelectTarget(g))
    PROVE  ViewsInv'
<1> USE DEF ViewsInv
<1>1. CASE ReceiptFails
  BY <1>1 DEF ReceiptFails, results, orderVars, ViewTypes, PanelInv, ConverterInv
<1>2. CASE ~ReceiptFails
  <2>1. /\ view = "receipt" /\ view' = view /\ from' = from /\ tab' = tab /\ loaded' = "yes"
        /\ to' \in Currencies /\ amount' \in Amounts
        /\ IF amount' > 0
           THEN Ask(Request("convert", Home, to', amount')) /\ UNCHANGED <<shown, failed>>
           ELSE UNCHANGED results
        /\ amount' > 0 \/ (asked = <<>> /\ shown["convert"] = None)
    BY <1>2 DEF LoadReceipt, SelectTarget, ViewTypes, PanelInv
  <2>2. CASE ~(amount' > 0)
    <3>1. asked' = <<>> /\ asked' = asked /\ UNCHANGED <<shown, wanted, failed, late>>
      BY <2>1, <2>2 DEF results
    <3> QED
      BY <2>1, <2>2, <3>1 DEF ViewTypes, PanelInv, ConverterInv, UpToDate
  <2>3. CASE amount' > 0
    <3> DEFINE r == Request("convert", Home, to', amount')
    <3>1. Ask(r) /\ shown' = shown
      BY <2>1, <2>3
    <3>2. r \in Conversion /\ r.tab = "convert"
      BY <2>1, ViewsAssumption DEF Request, Conversion, Tabs
    <3> HIDE DEF r
    <3>3. /\ asked' \in Seq(Conversion) /\ asked' # <<>> /\ asked'[Len(asked')] = r
          /\ \A i \in DOMAIN asked' : asked'[i] = r \/ (i \in DOMAIN asked /\ asked'[i] = asked[i])
          /\ wanted' \in [Tabs -> Conversion \cup {None}] /\ late' \in BOOLEAN
      BY <3>1, <3>2, Asked
    <3>4. ViewTypes'
      BY <2>1, <3>1, <3>3 DEF ViewTypes
    <3>5. UpToDate'
      BY <3>3 DEF UpToDate, Selected, r
    <3>6. PanelInv' /\ ConverterInv'
      BY <2>1, <2>3, <3>2, <3>3, <3>5 DEF PanelInv, ConverterInv
    <3> QED
      BY <3>4, <3>6
  <2> QED
    BY <2>2, <2>3
<1> QED
  BY <1>1, <1>2

LEMMA AskConverterInv ==
    ASSUME ViewsInv, AskConverter
    PROVE  ViewsInv'
<1> USE DEF ViewsInv
<1> DEFINE r == Request(tab, from, to, amount)
<1>1. /\ view = "convert" /\ view' = view /\ ~waiting /\ Ask(r)
      /\ shown' = [shown EXCEPT ![tab] = None]
      /\ UNCHANGED <<from, to, amount, tab>>
  BY DEF AskConverter, selection
<1>2. r \in Conversion /\ r.tab = tab
  BY DEF Request, Conversion, ViewTypes
<1> HIDE DEF r
<1>3. /\ asked' \in Seq(Conversion) /\ asked'[Len(asked')] = r /\ Len(asked') = Len(asked) + 1
      /\ wanted' = [wanted EXCEPT ![r.tab] = r] /\ wanted' \in [Tabs -> Conversion \cup {None}]
      /\ waiting' = TRUE /\ late' \in BOOLEAN
  BY <1>1, <1>2, Asked
<1>4. ViewTypes'
  BY <1>1, <1>3 DEF ViewTypes
<1>5. Len(asked') = 1 /\ asked'[1] = r
  BY <1>1, <1>3 DEF ConverterInv
<1>6. ConverterInv'
  BY <1>1, <1>2, <1>3, <1>5 DEF ConverterInv, ViewTypes
<1>7. PanelInv'
  BY <1>1 DEF PanelInv
<1> QED
  BY <1>4, <1>6, <1>7

\* Selecting asks for nothing in the converter, and orders have no conversions.
LEMMA QuietViews ==
    ASSUME ViewsInv,
           \/ \E f, g \in Currencies : SelectPair(f, g)
           \/ \E a \in Amounts : TypeAmount(a)
           \/ \E t \in Tabs : OpenTab(t)
           \/ \E o \in timers : OpenOrder(o)
           \/ Submit \/ Submitted \/ SubmitFails \/ LeaveForm
           \/ UNCHANGED fxViewVars
    PROVE  ViewsInv'
<1> USE DEF ViewsInv
<1>1. /\ UNCHANGED <<shown, wanted, waiting, failed, asked, late>>
      /\ \/ UNCHANGED <<view, loaded, from, to, amount, tab>>
         \/ view' = "gone" /\ UNCHANGED <<from, to, amount, tab>>
         \/ /\ view = "convert" /\ view' = view
            /\ from' \in Currencies /\ to' \in Currencies /\ amount' \in Amounts /\ tab' \in Tabs
  BY DEF SelectPair, TypeAmount, OpenTab, OpenOrder, Submit, Submitted, SubmitFails, LeaveForm,
         selection, results, orderVars, fxViewVars, ViewTypes
<1>2. ViewTypes'
  BY <1>1 DEF ViewTypes
<1>3. PanelInv' /\ ConverterInv'
  BY <1>1 DEF PanelInv, ConverterInv, UpToDate, Selected
<1> QED
  BY <1>2, <1>3

LEMMA AnswerInv ==
    ASSUME ViewsInv, NEW i \in DOMAIN asked, Answer(i) \/ AnswerFails(i)
    PROVE  ViewsInv'
<1> USE DEF ViewsInv
<1>1. /\ asked' = RemoveAt(asked, i) /\ late' = (late \/ i # 1) /\ waiting' = FALSE
      /\ UNCHANGED <<view, wanted, loaded, from, to, amount, tab>>
      /\ \/ shown' = [shown EXCEPT ![asked[i].tab] = asked[i]] /\ failed' = FALSE
         \/ /\ failed' = TRUE
            /\ \/ view \in {"form", "gone"} /\ shown' = [shown EXCEPT !["convert"] = None]
               \/ view \notin {"form", "gone"} /\ shown' = shown
  BY DEF Answer, AnswerFails, Answered, selection, orderVars
<1>2. /\ asked \in Seq(Conversion) /\ DOMAIN asked = 1..Len(asked) /\ Len(asked) \in Nat
      /\ asked[i] \in Conversion
  BY LenProperties, ElementOfSeq DEF ViewTypes
<1>3. /\ asked' \in Seq(Conversion) /\ Len(asked') = Len(asked) - 1
      /\ \A j \in 1..(Len(asked) - 1) : asked'[j] = IF j < i THEN asked[j] ELSE asked[j + 1]
  BY <1>1, <1>2, Removed
<1>4. DOMAIN asked' = 1..Len(asked')
  BY <1>3, LenProperties
<1>5. ViewTypes'
  BY <1>1, <1>2, <1>3 DEF ViewTypes, Conversion, Tabs
<1>6. \A j \in DOMAIN asked' : asked'[j] = asked[j] \/ asked'[j] = asked[j + 1]
  BY <1>2, <1>3, <1>4
<1>7. view \in {"form", "receipt"} => \A j \in DOMAIN asked' : asked'[j].tab = "convert"
  BY <1>2, <1>3, <1>4, <1>6 DEF PanelInv
\* An answer in order leaves the last request in flight, or was the last one.
<1>8. ASSUME view \in {"form", "receipt"}, ~late', UpToDate
      PROVE  UpToDate' \/ (view = "receipt" /\ asked' = <<>> /\ failed')
  <2> ~late /\ i = 1
    BY <1>1, <1>8 DEF ViewTypes
  <2>1. i = 1 /\ asked # <<>>
    <3>1. asked # <<>>
      BY <1>2, EmptySeq
    <3> QED
      BY <3>1
  <2>2. asked[Len(asked)] = Selected
    BY <1>8, <2>1 DEF UpToDate
  <2>3. CASE Len(asked) = 1
    <3>1. asked' = <<>>
      BY <1>3, <2>3, EmptySeq
    <3>2. asked[i].tab = "convert" /\ asked[i] = Selected
      BY <1>2, <1>8, <2>1, <2>2, <2>3 DEF PanelInv
    <3> QED
      BY <1>1, <1>8, <3>1, <3>2 DEF UpToDate, Selected, ViewTypes, Tabs
  <2>4. CASE Len(asked) # 1
    <3>1. Len(asked) > 1
      BY <1>2, <2>4
    <3>2. asked'[Len(asked')] = asked[Len(asked)] /\ asked' # <<>>
      BY <1>2, <1>3, <2>1, <3>1
    <3> QED
      BY <1>1, <2>2, <3>2 DEF UpToDate, Selected
  <2> QED
    BY <2>3, <2>4
<1>9. PanelInv'
  <2>1. view = "form" /\ amount > 0 /\ to # Home /\ ~late' => UpToDate'
    BY <1>1, <1>8 DEF PanelInv, ViewTypes
  <2>2. view = "receipt" /\ loaded = "yes" /\ ~late' => UpToDate' \/ (asked' = <<>> /\ failed')
    <3>1. asked # <<>>
      BY <1>2, EmptySeq
    <3> QED
      BY <1>1, <1>8, <3>1 DEF PanelInv, ViewTypes
  <2>3. ~(view = "receipt" /\ (loaded # "yes" \/ ~(amount > 0)))
    BY <1>2 DEF PanelInv
  <2> QED
    BY <1>1, <1>7, <2>1, <2>2, <2>3 DEF PanelInv
<1>10. ConverterInv'
  <2> SUFFICES ASSUME view = "convert"
               PROVE  asked' = <<>> /\ \A t \in Tabs : shown'[t] # None => shown'[t] = wanted[t]
    BY <1>1 DEF ConverterInv
  <2>1. Len(asked) = 1 /\ wanted[asked[1].tab] = asked[1] /\ i = 1
    BY <1>2 DEF ConverterInv
  <2>2. asked' = <<>>
    BY <1>3, <2>1, EmptySeq
  <2> QED
    BY <1>1, <1>2, <2>1, <2>2 DEF ConverterInv, ViewTypes
<1> QED
  BY <1>5, <1>9, <1>10

LEMMA NextViewsInv == ViewsInv /\ [ClientsNext]_clientVars => ViewsInv'
<1> SUFFICES ASSUME ViewsInv, [ClientsNext]_clientVars PROVE ViewsInv'
  OBVIOUS
<1>1. CASE UNCHANGED fxViewVars
  BY <1>1, QuietViews
<1>2. CASE ~UNCHANGED fxViewVars
  BY <1>2, FormInv, ReceiptInv, AskConverterInv, QuietViews, AnswerInv
     DEF ClientsNext, FxAnswers, clientVars
<1> QED
  BY <1>1, <1>2

LEMMA ViewsInvariance == ClientsSpec => []ViewsInv
  BY InitViewsInv, NextViewsInv, PTL DEF ClientsSpec

\* Once every request was answered, the newest last, the form and the receipt show
\* the conversion of what is selected.
THEOREM ConversionsAreTrue == ClientsSpec => []PanelIsTrue
<1>1. ViewsInv => PanelIsTrue
  BY DEF ViewsInv, PanelInv, UpToDate, Selected, PanelIsTrue, PanelDisplayed, TotalDisplayed
<1> QED
  BY <1>1, ViewsInvariance, PTL

\* The converter shows only answers to what was asked last on the open tab.
THEOREM ConverterAnswersAreTrue == ClientsSpec => []ConverterIsTrue
<1>1. ViewsInv => ConverterIsTrue
  BY DEF ViewsInv, ConverterInv, ConverterIsTrue, ResultDisplayed
<1> QED
  BY <1>1, ViewsInvariance, PTL
-----------------------------------------------------------------------------

\* The page of one order.

Get == [orderId : Orders, status : Status \cup {NoOrder}]
OrderCancellation == [orderId : Orders, seen : Orders, step : {"asked", "checked", "done"}]

\* Who is told of a cancellation, or is about to be told, is told the truth.
TruthInv ==
    /\ \A o \in told : status[o] = "CANCELLED"
    /\ \A j \in DOMAIN cancelling :
          cancelling[j].step = "done" => status[cancelling[j].orderId] = "CANCELLED"

\* Unless the address changed during a load, what is loaded, or shown, for another
\* order than the address names is one that is cancelled, so it has no button.
ButtonInv ==
    "crossed" \notin moved =>
        /\ \A i \in DOMAIN gets :
              \/ gets[i].orderId = orderId
              \/ gets[i].status # "ACTIVE" /\ status[gets[i].orderId] = "CANCELLED"
        /\ OrderVisible => order.orderId = orderId \/ order.status # "ACTIVE"
        /\ \A j \in DOMAIN cancelling : cancelling[j].orderId = cancelling[j].seen

\* Unless the address changed at a bad time, everything is about its order.
AddressInv ==
    moved = {} =>
        /\ \A i \in DOMAIN gets : gets[i].orderId = orderId
        /\ \A j \in DOMAIN cancelling : cancelling[j].orderId = orderId
        /\ OrderVisible => order.orderId = orderId

\* And before the user is told of a cancellation nothing is loaded beside it, so
\* what is loaded afterwards is newer.
FreshInv ==
    moved = {} =>
        IF orderId \in told
        THEN /\ \A i \in DOMAIN gets : gets[i].status # "ACTIVE"
             /\ OrderVisible => order.status # "ACTIVE"
        ELSE /\ Len(gets) <= 1
             /\ ~fetching \/ cancelling # <<>> => gets = <<>>

OpenInv == PageTypeOK /\ TruthInv /\ ButtonInv /\ AddressInv /\ FreshInv

OrderPageInv == IF orderId = NoOrder THEN order = NoOrder /\ cancelling = <<>> ELSE OpenInv
-----------------------------------------------------------------------------

\* The calls in flight have their types.
LEMMA Flights ==
    ASSUME OpenInv
    PROVE  /\ gets \in Seq(Get) /\ cancelling \in Seq(OrderCancellation)
           /\ \A i \in DOMAIN gets : gets[i] \in Get /\ gets[i].orderId \in Orders
           /\ \A j \in DOMAIN cancelling : cancelling[j] \in OrderCancellation /\ cancelling[j].orderId \in Orders
           /\ Len(gets) \in Nat /\ (gets # <<>> <=> Len(gets) # 0)
           /\ DOMAIN gets # {} => gets # <<>>
           /\ DOMAIN cancelling # {} => cancelling # <<>>
<1>1. gets \in Seq(Get) /\ cancelling \in Seq(OrderCancellation)
  BY DEF OpenInv, PageTypeOK, Get, OrderCancellation
<1>2. DOMAIN gets = 1..Len(gets) /\ Len(gets) \in Nat /\ DOMAIN cancelling = 1..Len(cancelling)
  BY <1>1, LenProperties
<1>3. /\ \A i \in DOMAIN gets : gets[i] \in Get
      /\ \A j \in DOMAIN cancelling : cancelling[j] \in OrderCancellation
  BY <1>1, <1>2, ElementOfSeq
<1>4. (gets # <<>> <=> Len(gets) # 0) /\ (DOMAIN gets # {} => gets # <<>>)
      /\ (DOMAIN cancelling # {} => cancelling # <<>>)
  BY <1>1, <1>2, EmptySeq
<1> QED
  BY <1>1, <1>2, <1>3, <1>4 DEF Get, OrderCancellation

LEMMA InitPageInv == PageInit => OpenInv
<1> SUFFICES ASSUME PageInit PROVE OpenInv
  OBVIOUS
<1> DEFINE l == [orderId |-> orderId, status |-> NoOrder]
<1>1. l \in Get /\ l.orderId = orderId /\ l.status # "ACTIVE"
  BY PageAssumption DEF PageInit, Get, Status
<1> HIDE DEF l
<1>2. gets = <<l>>
  BY DEF PageInit, l
<1>3. gets \in Seq(Get) /\ Len(gets) = 1 /\ DOMAIN gets = 1..1 /\ gets[1] = l /\ gets # <<>>
  BY <1>1, <1>2
<1>4. cancelling = <<>> /\ cancelling \in Seq(OrderCancellation) /\ DOMAIN cancelling = {}
  BY EmptySeq DEF PageInit
<1>5. PageTypeOK
  BY <1>3, <1>4 DEF PageInit, PageTypeOK, Get, OrderCancellation
<1> QED
  BY <1>1, <1>3, <1>4, <1>5 DEF PageInit, OpenInv, TruthInv, ButtonInv, AddressInv, FreshInv, OrderVisible

\* Orders are only ever cancelled.
LEMMA StatusChanged ==
    ASSUME OpenInv, NEW o \in Orders, status' = [status EXCEPT ![o] = "CANCELLED"]
    PROVE  /\ status' \in [Orders -> Status] /\ status'[o] = "CANCELLED"
           /\ \A p \in Orders : status[p] = "CANCELLED" => status'[p] = "CANCELLED"
BY DEF OpenInv, PageTypeOK, Status

LEMMA OtherInv ==
    ASSUME OpenInv, NEW o \in Orders, CancelledByOther(o) PROVE OpenInv'
<1>1. /\ status' = [status EXCEPT ![o] = "CANCELLED"]
      /\ UNCHANGED <<orderId, order, fetching, erred, gets, cancelling, told, moved, inputs>>
  BY DEF CancelledByOther
<1>2. /\ status' \in [Orders -> Status]
      /\ \A p \in Orders : status[p] = "CANCELLED" => status'[p] = "CANCELLED"
  BY <1>1, StatusChanged
<1>3. /\ \A i \in DOMAIN gets : gets[i].orderId \in Orders
      /\ \A j \in DOMAIN cancelling : cancelling[j].orderId \in Orders
  BY Flights
<1>4. PageTypeOK'
  BY <1>1, <1>2 DEF OpenInv, PageTypeOK
<1> QED
  BY <1>1, <1>2, <1>3, <1>4
     DEF OpenInv, PageTypeOK, TruthInv, ButtonInv, AddressInv, FreshInv, OrderVisible

LEMMA GetOrderInv ==
    ASSUME OpenInv, NEW i \in DOMAIN gets, GetOrder(i) PROVE OpenInv'
<1> DEFINE l == [gets[i] EXCEPT !.status = status[gets[i].orderId]]
<1>1. gets \in Seq(Get) /\ gets[i] \in Get /\ gets[i].status = NoOrder
  BY Flights DEF GetOrder
<1>2. /\ gets' = [gets EXCEPT ![i] = l]
      /\ UNCHANGED <<status, orderId, order, fetching, erred, cancelling, told, moved, inputs>>
  BY <1>1 DEF GetOrder, Get
<1>3. l \in Get /\ l.orderId = gets[i].orderId /\ l.status = status[l.orderId]
  BY <1>1 DEF Get, OpenInv, PageTypeOK
<1> HIDE DEF l
<1>4. /\ gets' \in Seq(Get) /\ Len(gets') = Len(gets) /\ gets # <<>> /\ gets' # <<>>
      /\ DOMAIN gets' = DOMAIN gets
      /\ \A k \in DOMAIN gets : gets'[k] = IF k = i THEN l ELSE gets[k]
  BY <1>1, <1>2, <1>3, ReplacedIn
<1>5. PageTypeOK'
  BY <1>2, <1>4 DEF OpenInv, PageTypeOK, Get
<1>6. ButtonInv'
  BY <1>2, <1>3, <1>4 DEF OpenInv, ButtonInv, OrderVisible
<1>7. AddressInv'
  BY <1>2, <1>3, <1>4 DEF OpenInv, AddressInv, OrderVisible
<1>8. FreshInv'
  <2>1. orderId \in told /\ moved = {} => l.status = "CANCELLED"
    BY <1>3 DEF OpenInv, TruthInv, AddressInv
  <2> QED
    BY <1>2, <1>4, <2>1 DEF OpenInv, FreshInv, OrderVisible
<1> QED
  BY <1>2, <1>5, <1>6, <1>7, <1>8 DEF OpenInv, TruthInv

LEMMA CancelServiceInv ==
    ASSUME OpenInv, NEW j \in DOMAIN cancelling,
           CheckStatus(j) \/ ApplyUpdate(j) \/ CancelOrderFails(j)
    PROVE  OpenInv'
<1>1. /\ cancelling \in Seq(OrderCancellation) /\ cancelling[j] \in OrderCancellation /\ cancelling # <<>>
      /\ \A i \in DOMAIN gets : gets[i].orderId \in Orders
      /\ \A k \in DOMAIN cancelling : cancelling[k].orderId \in Orders
  BY Flights
\* The service answers an error, or the call fails.
<1>2. CASE cancelling' = RemoveAt(cancelling, j) /\ UNCHANGED status
  <2>1. UNCHANGED <<status, orderId, order, fetching, erred, gets, told, moved, inputs>>
    BY <1>2 DEF CheckStatus, ApplyUpdate, CancelOrderFails
  <2>2. /\ cancelling' \in Seq(OrderCancellation)
        /\ \A k \in DOMAIN cancelling' : \E m \in DOMAIN cancelling : cancelling'[k] = cancelling[m]
    BY <1>1, <1>2, GoneFrom
  <2>3. PageTypeOK'
    BY <2>1, <2>2 DEF OpenInv, PageTypeOK, OrderCancellation
  <2>4. TruthInv' /\ ButtonInv' /\ AddressInv'
    BY <2>1, <2>2 DEF OpenInv, TruthInv, ButtonInv, AddressInv, OrderVisible
  <2> QED
    BY <1>1, <2>1, <2>3, <2>4 DEF OpenInv, FreshInv, OrderVisible
\* The service goes on.
<1>3. ASSUME NEW step \in {"checked", "done"}, cancelling' = [cancelling EXCEPT ![j].step = step],
             step = "done" => status' = [status EXCEPT ![cancelling[j].orderId] = "CANCELLED"],
             step # "done" => status' = status
      PROVE  OpenInv'
  <2> DEFINE c == [cancelling[j] EXCEPT !.step = step]
  <2>1. UNCHANGED <<orderId, order, fetching, erred, gets, told, moved, inputs>>
    BY DEF CheckStatus, ApplyUpdate, CancelOrderFails
  <2>2. /\ cancelling' = [cancelling EXCEPT ![j] = c] /\ c \in OrderCancellation
        /\ c.orderId = cancelling[j].orderId /\ c.seen = cancelling[j].seen /\ c.step = step
    BY <1>1, <1>3 DEF OrderCancellation
  <2> HIDE DEF c
  <2>3. /\ cancelling' \in Seq(OrderCancellation) /\ DOMAIN cancelling' = DOMAIN cancelling
        /\ \A k \in DOMAIN cancelling : cancelling'[k] = IF k = j THEN c ELSE cancelling[k]
    BY <1>1, <2>2, ReplacedIn
  <2>4. /\ status' \in [Orders -> Status]
        /\ \A p \in Orders : status[p] = "CANCELLED" => status'[p] = "CANCELLED"
        /\ step = "done" => status'[cancelling[j].orderId] = "CANCELLED"
    BY <1>1, <1>3, StatusChanged DEF OpenInv, PageTypeOK
  <2>5. PageTypeOK'
    BY <2>1, <2>3, <2>4 DEF OpenInv, PageTypeOK, OrderCancellation
  <2>6. TruthInv'
    BY <1>1, <2>1, <2>2, <2>3, <2>4 DEF OpenInv, PageTypeOK, TruthInv
  <2>7. ButtonInv'
    BY <1>1, <2>1, <2>2, <2>3, <2>4 DEF OpenInv, ButtonInv, OrderVisible
  <2>8. AddressInv'
    BY <2>1, <2>2, <2>3 DEF OpenInv, AddressInv, OrderVisible
  <2> QED
    BY <1>1, <2>1, <2>5, <2>6, <2>7, <2>8 DEF OpenInv, FreshInv, OrderVisible
<1> QED
  BY <1>2, <1>3 DEF CheckStatus, ApplyUpdate, CancelOrderFails

\* What asking for an order does to the loads.
LEMMA GetAsked ==
    ASSUME OpenInv, NEW o \in Orders, LoadOrder(o)
    PROVE  /\ gets' \in Seq(Get) /\ gets' # <<>> /\ Len(gets') = Len(gets) + 1
           /\ fetching' = TRUE /\ erred' = FALSE
           /\ \A k \in DOMAIN gets' :
                 \/ gets'[k].orderId = o /\ gets'[k].status = NoOrder /\ gets'[k].status # "ACTIVE"
                 \/ \E m \in DOMAIN gets : gets'[k] = gets[m]
<1> DEFINE l == [orderId |-> o, status |-> NoOrder]
<1>1. l \in Get /\ l.orderId = o /\ l.status = NoOrder /\ l.status # "ACTIVE"
  BY PageAssumption DEF Get, Status
<1> HIDE DEF l
<1>2. gets \in Seq(Get) /\ gets' = Append(gets, l) /\ fetching' = TRUE /\ erred' = FALSE
  BY DEF OpenInv, PageTypeOK, LoadOrder, Get, l
<1> QED
  BY <1>1, <1>2, AddedTo

LEMMA JumpInv ==
    ASSUME OpenInv, NEW o \in Orders, JumpTo(o) PROVE OpenInv'
<1>1. /\ LoadOrder(o) /\ orderId' = o
      /\ UNCHANGED <<status, order, cancelling, told>>
      /\ moved \subseteq moved' /\ moved' \subseteq {"crossed", "left"}
      /\ "crossed" \notin moved' => gets = <<>>
      /\ moved' = {} => cancelling = <<>>
  BY DEF JumpTo, OpenInv, PageTypeOK
<1>2. /\ gets' \in Seq(Get) /\ gets' # <<>> /\ Len(gets') = Len(gets) + 1
      /\ fetching' = TRUE /\ erred' = FALSE
      /\ \A k \in DOMAIN gets' :
            \/ gets'[k].orderId = o /\ gets'[k].status # "ACTIVE"
            \/ \E m \in DOMAIN gets : gets'[k] = gets[m]
  BY <1>1, GetAsked
<1>3. PageTypeOK'
  BY <1>1, <1>2 DEF OpenInv, PageTypeOK, Get
<1>4. "crossed" \notin moved' =>
          /\ "crossed" \notin moved /\ Len(gets') = 1
          /\ \A k \in DOMAIN gets' : gets'[k].orderId = o /\ gets'[k].status # "ACTIVE"
  BY <1>1, <1>2
<1>5. ButtonInv'
  BY <1>1, <1>2, <1>4 DEF OpenInv, ButtonInv, OrderVisible
<1>6. AddressInv'
  BY <1>1, <1>2, <1>4 DEF AddressInv, OrderVisible
<1>7. FreshInv'
  BY <1>1, <1>2, <1>4 DEF FreshInv, OrderVisible
<1> QED
  BY <1>1, <1>3, <1>5, <1>6, <1>7 DEF OpenInv, TruthInv

LEMMA OrderCancelledInv ==
    ASSUME OpenInv, NEW j \in DOMAIN cancelling, OrderCancelled(j) PROVE OpenInv'
<1> DEFINE o == cancelling[j].orderId
<1>1. /\ cancelling \in Seq(OrderCancellation) /\ o \in Orders /\ cancelling # <<>>
      /\ status[o] = "CANCELLED"
  BY Flights DEF OpenInv, TruthInv, OrderCancelled
<1>2. /\ told' = told \cup {o} /\ LoadOrder(o) /\ cancelling' = RemoveAt(cancelling, j)
      /\ UNCHANGED <<status, orderId, order, moved, inputs>>
  BY DEF OrderCancelled
<1>3. moved = {} => o = orderId
  BY DEF OpenInv, AddressInv
<1> HIDE DEF o
<1>4. /\ cancelling' \in Seq(OrderCancellation)
      /\ \A k \in DOMAIN cancelling' : \E m \in DOMAIN cancelling : cancelling'[k] = cancelling[m]
  BY <1>1, <1>2, GoneFrom
<1>5. /\ gets' \in Seq(Get) /\ gets' # <<>> /\ Len(gets') = Len(gets) + 1
      /\ fetching' = TRUE /\ erred' = FALSE
      /\ \A k \in DOMAIN gets' :
            \/ gets'[k].orderId = o /\ gets'[k].status # "ACTIVE"
            \/ \E m \in DOMAIN gets : gets'[k] = gets[m]
  BY <1>1, <1>2, GetAsked
<1>6. PageTypeOK'
  BY <1>1, <1>2, <1>4, <1>5 DEF OpenInv, PageTypeOK, Get, OrderCancellation
<1>7. TruthInv'
  BY <1>1, <1>2, <1>4 DEF OpenInv, TruthInv
<1>8. ButtonInv'
  BY <1>1, <1>2, <1>4, <1>5 DEF OpenInv, ButtonInv, OrderVisible
<1>9. AddressInv'
  BY <1>2, <1>3, <1>4, <1>5 DEF OpenInv, AddressInv, OrderVisible
<1>10. FreshInv'
  <2>1. moved = {} => \A m \in DOMAIN gets : gets[m].status # "ACTIVE"
    BY <1>1 DEF OpenInv, FreshInv
  <2> QED
    BY <1>2, <1>3, <1>5, <2>1 DEF FreshInv, OrderVisible
<1> QED
  BY <1>6, <1>7, <1>8, <1>9, <1>10 DEF OpenInv

LEMMA ClickInv ==
    ASSUME OpenInv, ClickCancel PROVE OpenInv'
<1> DEFINE c == [orderId |-> orderId, seen |-> order.orderId, step |-> "asked"]
<1>1. /\ OrderVisible /\ order.status = "ACTIVE" /\ cancelling' = Append(cancelling, c)
      /\ UNCHANGED <<status, orderId, order, fetching, erred, gets, told, moved>>
  BY DEF ClickCancel
<1>2. /\ c \in OrderCancellation /\ cancelling \in Seq(OrderCancellation)
      /\ c.orderId = orderId /\ c.seen = order.orderId /\ c.step = "asked"
  BY <1>1 DEF OpenInv, PageTypeOK, OrderCancellation, OrderVisible, OrderView
<1> HIDE DEF c
<1>3. /\ cancelling' \in Seq(OrderCancellation)
      /\ \A k \in DOMAIN cancelling' : cancelling'[k] = c \/ \E m \in DOMAIN cancelling : cancelling'[k] = cancelling[m]
  BY <1>1, <1>2, AddedTo
<1>4. PageTypeOK'
  BY <1>1, <1>3 DEF OpenInv, PageTypeOK, OrderCancellation
<1>5. TruthInv' /\ ButtonInv'
  BY <1>1, <1>2, <1>3 DEF OpenInv, TruthInv, ButtonInv, OrderVisible
<1>6. AddressInv'
  BY <1>1, <1>2, <1>3 DEF OpenInv, AddressInv, OrderVisible
<1>7. FreshInv'
  BY <1>1 DEF OpenInv, FreshInv, OrderVisible
<1> QED
  BY <1>4, <1>5, <1>6, <1>7 DEF OpenInv

LEMMA GotInv ==
    ASSUME OpenInv, NEW i \in DOMAIN gets, Got(i) \/ GetFails(i) PROVE OpenInv'
<1>1. /\ gets' = RemoveAt(gets, i) /\ fetching' = FALSE
      /\ UNCHANGED <<status, orderId, cancelling, told, moved, inputs>>
      /\ \/ erred' = TRUE /\ order' = order
         \/ gets[i].status # NoOrder /\ order' = gets[i]
  BY DEF Got, GetFails
<1>2. /\ gets \in Seq(Get) /\ gets[i] \in Get /\ gets # <<>> /\ Len(gets) \in Nat
  BY Flights
<1>3. /\ gets' \in Seq(Get) /\ Len(gets') = Len(gets) - 1
      /\ \A k \in DOMAIN gets' : \E m \in DOMAIN gets : gets'[k] = gets[m]
  BY <1>1, <1>2, GoneFrom
<1>4. OrderVisible' => order' = gets[i] /\ gets[i].status # NoOrder
  BY <1>1 DEF OrderVisible
<1>5. PageTypeOK'
  BY <1>1, <1>2, <1>3 DEF OpenInv, PageTypeOK, Get, OrderView
<1>6. ButtonInv'
  BY <1>1, <1>3, <1>4 DEF OpenInv, ButtonInv
<1>7. AddressInv'
  BY <1>1, <1>3, <1>4 DEF OpenInv, AddressInv
<1>8. FreshInv'
  <2>1. Len(gets) <= 1 => gets' = <<>> /\ Len(gets') = 0
    <3>1. Len(gets) # 0
      BY <1>2, Flights
    <3> QED
      BY <1>2, <1>3, <3>1, EmptySeq
  <2> QED
    BY <1>1, <1>3, <1>4, <2>1 DEF OpenInv, FreshInv
<1> QED
  BY <1>1, <1>5, <1>6, <1>7, <1>8 DEF OpenInv, TruthInv

LEMMA NextPageInv == OpenInv /\ [PageNext]_pageVars => OpenInv'
<1> SUFFICES ASSUME OpenInv, [PageNext]_pageVars PROVE OpenInv'
  OBVIOUS
<1>1. CASE UNCHANGED pageVars
  BY <1>1
     DEF pageVars, OpenInv, PageTypeOK, TruthInv, ButtonInv, AddressInv, FreshInv, OrderVisible
<1>2. CASE PageNext
  BY <1>2, JumpInv, OtherInv, ClickInv, GetOrderInv, GotInv, CancelServiceInv, OrderCancelledInv
     DEF PageNext, PageAnswers
<1> QED
  BY <1>1, <1>2

\* A page of an order stays one; the other pages leave it alone.
LEMMA OrderPageInvariance == ClientsSpec => []OrderPageInv
<1>1. ClientsInit => OrderPageInv
  <2>1. PageIdle => OrderPageInv
    BY DEF PageIdle, OrderPageInv
  <2>2. PageInit => orderId # NoOrder
    BY PageAssumption DEF PageInit
  <2> QED
    BY <2>1, <2>2, InitPageInv DEF ClientsInit, OrderPageInv
<1>2. OrderPageInv /\ [ClientsNext]_clientVars => OrderPageInv'
  <2> SUFFICES ASSUME OrderPageInv, [ClientsNext]_clientVars PROVE OrderPageInv'
    OBVIOUS
  <2>1. (orderId # NoOrder /\ [PageNext]_pageVars) \/ UNCHANGED pageVars
    BY DEF ClientsNext, clientVars
  <2>2. CASE orderId = NoOrder
    BY <2>1, <2>2 DEF OrderPageInv, pageVars
  <2>3. CASE orderId # NoOrder
    <3>1. OpenInv /\ OpenInv'
      BY <2>1, <2>3, NextPageInv DEF OrderPageInv
    <3>2. orderId' # NoOrder
      <4>1. CASE orderId' = orderId
        BY <2>3, <4>1
      <4>2. CASE orderId' # orderId
        <5>1. orderId' \in Orders
          BY <3>1 DEF OpenInv, PageTypeOK
        <5> QED
          BY <5>1, PageAssumption
      <4> QED
        BY <4>1, <4>2
    <3> QED
      BY <3>1, <3>2 DEF OrderPageInv
  <2> QED
    BY <2>2, <2>3
<1> QED
  BY <1>1, <1>2, PTL DEF ClientsSpec

\* The page shows the order its address names, and shows it as cancelled once the
\* user was told so, unless the address changed during a load or a cancellation.
THEOREM OrderPagesAreTrue == ClientsSpec => []PageIsTrue
<1>1. OrderPageInv => PageIsTrue
  BY DEF OrderPageInv, OpenInv, PageTypeOK, OrderView, Status, AddressInv, FreshInv,
         OrderVisible, PageIsTrue
<1> QED
  BY <1>1, OrderPageInvariance, PTL

\* The button cancels the order that is shown, unless the address changed during
\* a load.
THEOREM ShownOrdersAreCancelled == ClientsSpec => []CancelsWhatIsShown
<1>1. OrderPageInv => CancelsWhatIsShown
  BY DEF OrderPageInv, OpenInv, ButtonInv, CancelsWhatIsShown
<1> QED
  BY <1>1, OrderPageInvariance, PTL
=============================================================================
