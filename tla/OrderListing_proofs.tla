-------------------------- MODULE OrderListing_proofs --------------------------
(***************************************************************************)
(* Proofs about the list of orders, for any number of orders, any page     *)
(* size and any number of clicks, and the types of everything the pages of *)
(* the frontend keep.                                                      *)
(***************************************************************************)
EXTENDS Clients_proofs, FiniteSetTheorems

Statuses == {"ACTIVE", "CANCELLED"}
Entry == [at : Nat, status : Statuses]
Rows == UNION {[shownOrders -> Statuses] : shownOrders \in SUBSET Nat}
ListCall == [page : Int, step : {"asked", "counted", "fetched"}, total : Nat, rows : Rows]
Cancellation == [order : Nat, page : Int, step : {"asked", "done"}]

ListTypes ==
    /\ book \in Seq(Entry) /\ page \in Int
    /\ loads \in Seq(ListCall) /\ cancels \in Seq(Cancellation)

\* What the user was told, or is about to be told, is cancelled.
CancelInv ==
    /\ \A j \in DOMAIN cancels :
          /\ cancels[j].order \in Order
          /\ cancels[j].step = "done" => book[cancels[j].order].status = "CANCELLED"
    /\ \A o \in mine : o \in Order /\ book[o].status = "CANCELLED"
    /\ store = "monolith" => mine = {} /\ loads = <<>> /\ cancels = <<>>

ShowsCancelled(r) == \A o \in mine \cap DOMAIN r : r[o] = "CANCELLED"

\* While loads do not cross, the rows that are on their way, or else those that
\* are shown, are newer than every cancellation the user was told of.
LoadInv ==
    "crossed" \notin spoiled =>
        /\ Len(loads) <= 1
        /\ \A i \in DOMAIN loads : loads[i].step = "fetched" => ShowsCancelled(loads[i].rows)
        /\ loads = <<>> => error \/ ShowsCancelled(rows)

\* The load in flight, or else the last one, is of the page the user is on.
PageInv ==
    store # "monolith" /\ spoiled \cap {"crossed", "stale"} = {} =>
        IF loads = <<>> THEN error \/ of = page ELSE loads[1].page = page

ListInv == ListTypes /\ CancelInv /\ LoadInv /\ PageInv

LEMMA CallTyped ==
    ASSUME NEW p \in Int
    PROVE  Call(p) \in ListCall /\ Call(p).step = "asked" /\ Call(p).page = p
<1>1. NoRows \in [{} -> Statuses]
  BY DEF NoRows
<1>2. NoRows \in Rows
  BY <1>1 DEF Rows
<1> QED
  BY <1>2 DEF Call, ListCall

LEMMA InitListInv == ClientsInit => ListInv
<1> USE DEF ListInv, ListTypes, CancelInv, LoadInv, PageInv, ShowsCancelled
<1>1. ASSUME ListIdle PROVE ListInv
  BY <1>1, EmptySeq DEF ListIdle
<1>2. ASSUME ListInit PROVE ListInv
  <2>1. book \in [1..Old -> Entry] /\ Old \in Nat
    BY <1>2, ListingAssumption DEF ListInit, Entry, Statuses
  <2>2. book \in Seq(Entry)
    BY <2>1, SeqDef
  <2>3. Call(1) \in ListCall /\ Call(1).step = "asked" /\ Call(1).page = 1
    BY CallTyped
  <2> HIDE DEF Call
  <2>4. <<Call(1)>> \in Seq(ListCall) /\ <<>> \in Seq(ListCall) /\ <<>> \in Seq(Cancellation)
    BY <2>3
  <2>5. ListTypes /\ CancelInv
    BY <1>2, <2>2, <2>4 DEF ListInit
  <2>6. LoadInv /\ PageInv
    BY <1>2, <2>3 DEF ListInit
  <2> QED
    BY <2>5, <2>6
<1> QED
  BY <1>1, <1>2 DEF ClientsInit

\* A step that leaves the page alone.
LEMMA QuietList == ListInv /\ UNCHANGED listVars => ListInv'
BY DEF ListInv, ListTypes, CancelInv, LoadInv, PageInv, ShowsCancelled, listVars, Order

\* The store: orders come, and their status stays.
LEMMA InsertInv ==
    ASSUME ListInv, NEW at \in Times, Insert(at) PROVE ListInv'
<1>1. /\ book' = Append(book, [at |-> at, status |-> "ACTIVE"])
      /\ UNCHANGED <<store, page, rows, of, error, loads, cancels, mine, spoiled>>
  BY DEF Insert
<1>2. [at |-> at, status |-> "ACTIVE"] \in Entry /\ book \in Seq(Entry)
  BY ListingAssumption DEF Times, Entry, Statuses, ListInv, ListTypes
<1>3. /\ book' \in Seq(Entry) /\ Len(book') = Len(book) + 1 /\ Len(book) \in Nat
      /\ \A o \in 1..Len(book) : book'[o] = book[o]
  BY <1>1, <1>2, AppendProperties, LenProperties
<1>4. Order \subseteq Order' /\ \A o \in Order : book'[o] = book[o]
  BY <1>3 DEF Order
<1> QED
  BY <1>1, <1>3, <1>4 DEF ListInv, ListTypes, CancelInv, LoadInv, PageInv, ShowsCancelled

\* One load replaced by its next step.
LEMMA LoadChanged ==
    ASSUME ListInv, NEW i \in DOMAIN loads, NEW l \in ListCall,
           loads' = [loads EXCEPT ![i] = l], l.page = loads[i].page,
           l.step = "fetched" => ShowsCancelled(l.rows),
           spoiled \subseteq spoiled',
           UNCHANGED <<store, book, page, rows, of, error, cancels, mine>>
    PROVE  ListInv'
<1>1. loads \in Seq(ListCall) /\ DOMAIN loads = 1..Len(loads) /\ Len(loads) \in Nat
  BY LenProperties DEF ListInv, ListTypes
<1>2. /\ loads' \in Seq(ListCall) /\ Len(loads') = Len(loads)
      /\ \A j \in 1..Len(loads) : loads'[j] = IF j = i THEN l ELSE loads[j]
  BY <1>1, ExceptSeq
<1>3. DOMAIN loads' = DOMAIN loads /\ loads # <<>> /\ loads' # <<>>
  BY <1>1, <1>2, LenProperties, EmptySeq
<1>4. \A j \in DOMAIN loads' : loads'[j].page = loads[j].page
  BY <1>1, <1>2, <1>3
<1>5. ListTypes' /\ CancelInv'
  BY <1>2, <1>3 DEF ListInv, ListTypes, CancelInv, Order
<1>6. LoadInv'
  BY <1>1, <1>2, <1>3 DEF ListInv, LoadInv, ShowsCancelled
<1>7. 1 \in DOMAIN loads'
  BY <1>1, <1>3
<1>8. PageInv'
  BY <1>3, <1>4, <1>7 DEF ListInv, PageInv
<1> QED
  BY <1>5, <1>6, <1>8 DEF ListInv

LEMMA QueriesInv ==
    ASSUME ListInv, NEW i \in DOMAIN loads, CountOrders(i) \/ FetchPage(i) PROVE ListInv'
<1>1. /\ loads \in Seq(ListCall) /\ loads[i] \in ListCall /\ Len(book) \in Nat
      /\ loads \in [DOMAIN loads -> ListCall]
  BY LenProperties, ElementOfSeq DEF ListInv, ListTypes
<1>2. CASE CountOrders(i)
  <2> DEFINE l == [loads[i] EXCEPT !.step = "counted", !.total = Len(book)]
  <2>1. loads' = [loads EXCEPT ![i] = l]
    BY <1>1, <1>2 DEF CountOrders, ListCall
  <2>2. l \in ListCall /\ l.page = loads[i].page /\ l.step = "counted"
    BY <1>1 DEF ListCall
  <2> HIDE DEF l
  <2> QED
    BY <1>2, <2>1, <2>2, LoadChanged DEF CountOrders
<1>3. CASE FetchPage(i)
  <2>1. PICK slice \in Slices(Offset(loads[i].page)) :
            loads' = [loads EXCEPT ![i].step = "fetched", ![i].rows = StatusesOf(slice),
                                   ![i].total = IF store = "mssql" THEN @ ELSE Len(book)]
    BY <1>3 DEF FetchPage
  <2>2. slice \subseteq Order
    BY DEF Slices
  <2> DEFINE r == StatusesOf(slice)
             n == IF store = "mssql" THEN loads[i].total ELSE Len(book)
             l == [loads[i] EXCEPT !.step = "fetched", !.rows = r, !.total = n]
  <2>3. DOMAIN r = slice /\ \A o \in slice : r[o] = book[o].status /\ r[o] \in Statuses
    <3>1. ASSUME NEW o \in slice PROVE book[o] \in Entry
      BY <2>2, ElementOfSeq DEF ListInv, ListTypes, Order
    <3> QED
      BY <3>1 DEF StatusesOf, Entry
  <2>4. r \in [slice -> Statuses] /\ slice \in SUBSET Nat
    BY <2>2, <2>3 DEF Order, StatusesOf
  <2>5. r \in Rows
    BY <2>4 DEF Rows
  <2>6. ShowsCancelled(r)
    BY <2>3 DEF ShowsCancelled, ListInv, CancelInv
  <2>7. n \in Nat
    BY <1>1 DEF ListCall
  <2> HIDE DEF r, n
  <2>8. loads' = [loads EXCEPT ![i] = l]
    BY <1>1, <2>1 DEF ListCall, r, n
  <2>9. l \in ListCall /\ l.page = loads[i].page /\ l.rows = r
    BY <1>1, <2>5, <2>7 DEF ListCall
  <2> HIDE DEF l
  <2> QED
    BY <1>3, <2>6, <2>8, <2>9, LoadChanged DEF FetchPage
<1> QED
  BY <1>2, <1>3

\* A load is asked for: it is the only one, or it crosses another.
LEMMA LoadAsked ==
    ASSUME ListInv, NEW p \in Int, LoadOrders(p), Crossing \subseteq spoiled', spoiled \subseteq spoiled',
           p = page' \/ "stale" \in spoiled', store # "monolith"
    PROVE  /\ loads' \in Seq(ListCall) /\ LoadInv'
           /\ store' = store => PageInv'
<1>1. loads \in Seq(ListCall) /\ loads' = Append(loads, Call(p)) /\ error' = FALSE
  BY DEF ListInv, ListTypes, LoadOrders
<1>2. Call(p) \in ListCall /\ Call(p).step = "asked" /\ Call(p).page = p
  BY CallTyped
<1>3. /\ loads' \in Seq(ListCall) /\ loads' # <<>> /\ Len(loads') = Len(loads) + 1
      /\ loads'[Len(loads) + 1] = Call(p)
  BY <1>1, <1>2, AppendProperties
<1>4. CASE loads = <<>>
  <2>1. Len(loads') = 1 /\ DOMAIN loads' = 1..1 /\ loads'[1] = Call(p)
    BY <1>3, <1>4, LenProperties
  <2>2. loads' # <<>> /\ \A i \in DOMAIN loads' : loads'[i].step # "fetched"
    BY <1>2, <1>3, <2>1
  <2>4. LoadInv'
    BY <2>1, <2>2 DEF LoadInv
  <2>3. store' = store => PageInv'
    BY <1>2, <1>3, <2>1 DEF PageInv
  <2> QED
    BY <1>3, <2>3, <2>4
<1>5. CASE loads # <<>>
  BY <1>3, <1>5 DEF Crossing, LoadInv, PageInv
<1> QED
  BY <1>4, <1>5

\* A cancellation has ended.
LEMMA CancelRemoved ==
    ASSUME ListInv, NEW j \in DOMAIN cancels, cancels' = RemoveAt(cancels, j)
    PROVE  /\ cancels' \in Seq(Cancellation)
           /\ \A k \in DOMAIN cancels' : \E m \in DOMAIN cancels : cancels'[k] = cancels[m]
<1>1. cancels \in Seq(Cancellation) /\ DOMAIN cancels = 1..Len(cancels) /\ Len(cancels) \in Nat
  BY LenProperties DEF ListInv, ListTypes
<1>2. /\ cancels' \in Seq(Cancellation) /\ Len(cancels') = Len(cancels) - 1
      /\ \A k \in 1..(Len(cancels) - 1) : cancels'[k] = IF k < j THEN cancels[k] ELSE cancels[k + 1]
  BY <1>1, Removed
<1>3. DOMAIN cancels' = 1..(Len(cancels) - 1)
  BY <1>2, LenProperties
<1>4. ASSUME NEW k \in DOMAIN cancels' PROVE \E m \in DOMAIN cancels : cancels'[k] = cancels[m]
  <2>1. k \in DOMAIN cancels /\ k + 1 \in DOMAIN cancels
    BY <1>1, <1>3
  <2>2. cancels'[k] = cancels[k] \/ cancels'[k] = cancels[k + 1]
    BY <1>2, <1>3
  <2> QED
    BY <2>1, <2>2
<1> QED
  BY <1>2, <1>4

LEMMA UserInv ==
    ASSUME ListInv, store # "monolith",
           (\E p \in {page - 1, page + 1} : TurnTo(p)) \/ (\E o \in Order : Cancel(o))
    PROVE  ListInv'
<1>1. ASSUME NEW p \in {page - 1, page + 1}, TurnTo(p) PROVE ListInv'
  <2>1. /\ LoadOrders(p) /\ page' = p /\ spoiled' = spoiled \cup Crossing
        /\ UNCHANGED <<store, book, rows, of, cancels, mine>>
    BY <1>1 DEF TurnTo
  <2>2. p \in Int
    BY DEF ListInv, ListTypes
  <2>3. loads' \in Seq(ListCall) /\ LoadInv' /\ PageInv'
    BY <2>1, <2>2, LoadAsked
  <2>4. ListTypes' /\ CancelInv'
    BY <2>1, <2>2, <2>3 DEF ListInv, ListTypes, CancelInv, Order
  <2> QED
    BY <2>3, <2>4 DEF ListInv
<1>2. ASSUME NEW o \in Order, Cancel(o) PROVE ListInv'
  <2> DEFINE c == [order |-> o, page |-> page, step |-> "asked"]
  <2>1. /\ cancels' = Append(cancels, c)
        /\ UNCHANGED <<store, book, page, rows, of, error, loads, mine, spoiled>>
    BY <1>2 DEF Cancel
  <2>2. c \in Cancellation /\ cancels \in Seq(Cancellation) /\ c.order = o /\ c.step = "asked"
    BY DEF Cancellation, ListInv, ListTypes, Order
  <2> HIDE DEF c
  <2>3. /\ cancels' \in Seq(Cancellation) /\ Len(cancels') = Len(cancels) + 1
        /\ cancels'[Len(cancels) + 1] = c
        /\ \A j \in 1..Len(cancels) : cancels'[j] = cancels[j]
    BY <2>1, <2>2, AppendProperties
  <2>4. DOMAIN cancels' = 1..(Len(cancels) + 1) /\ DOMAIN cancels = 1..Len(cancels) /\ Len(cancels) \in Nat
    BY <2>2, <2>3, LenProperties
  <2>5. CancelInv'
    <3>1. ASSUME NEW j \in DOMAIN cancels' PROVE
              /\ cancels'[j].order \in Order
              /\ cancels'[j].step = "done" => book[cancels'[j].order].status = "CANCELLED"
      <4>1. CASE j \in DOMAIN cancels
        BY <2>3, <2>4, <4>1 DEF ListInv, CancelInv
      <4>2. CASE j = Len(cancels) + 1
        BY <2>2, <2>3, <4>2
      <4> QED
        BY <2>4, <4>1, <4>2
    <3> QED
      BY <2>1, <3>1 DEF ListInv, CancelInv, Order
  <2> QED
    BY <2>1, <2>3, <2>5 DEF ListInv, ListTypes, LoadInv, PageInv, ShowsCancelled
<1> QED
  BY <1>1, <1>2

LEMMA FollowTokenInv ==
    ASSUME ListInv, FollowToken PROVE ListInv'
<1>1. /\ store = "monolith" /\ page' = NextToken(page)
      /\ UNCHANGED <<store, book, error, loads, cancels, mine, spoiled>>
  BY DEF FollowToken
<1>2. page' \in Int
  BY <1>1, LenProperties, ListingAssumption DEF ListInv, ListTypes, NextToken
<1> QED
  BY <1>1, <1>2 DEF ListInv, ListTypes, CancelInv, LoadInv, PageInv, ShowsCancelled, Order

\* A load has ended.
LEMMA LoadedInv ==
    ASSUME ListInv, NEW i \in DOMAIN loads, Loaded(i) \/ LoadFails(i) PROVE ListInv'
<1>1. /\ loads' = RemoveAt(loads, i) /\ spoiled \subseteq spoiled'
      /\ UNCHANGED <<store, book, page, cancels, mine>>
      /\ \/ error' = TRUE /\ UNCHANGED <<rows, of>>
         \/ loads[i].step = "fetched" /\ rows' = loads[i].rows /\ of' = loads[i].page
  BY DEF Loaded, LoadFails
<1>2. loads \in Seq(ListCall) /\ DOMAIN loads = 1..Len(loads) /\ Len(loads) \in Nat
  BY LenProperties DEF ListInv, ListTypes
<1>3. loads' \in Seq(ListCall) /\ loads # <<>> /\ (loads = <<>> => loads' = <<>>)
  BY <1>1, <1>2, Removed, EmptySeq
<1>4. CASE "crossed" \in spoiled
  <2>1. store # "monolith"
    BY <1>3 DEF ListInv, CancelInv
  <2> QED
    BY <1>1, <1>3, <1>4, <2>1 DEF ListInv, ListTypes, CancelInv, LoadInv, PageInv, Order
<1>5. CASE "crossed" \notin spoiled
  <2>1. Len(loads) <= 1
    BY <1>5 DEF ListInv, LoadInv
  <2>2. i = 1 /\ loads' = <<>>
    BY <1>1, <1>2, <2>1, RemovedLast
  <2>3. Len(loads') = 0 /\ DOMAIN loads' = {}
    BY <2>2
  <2>4. error' \/ (rows' = loads[1].rows /\ of' = loads[1].page /\ loads[1].step = "fetched")
    BY <1>1, <2>2
  <2>5. LoadInv'
    BY <1>1, <1>5, <2>2, <2>3, <2>4 DEF ListInv, LoadInv, ShowsCancelled
  <2>6. PageInv'
    BY <1>1, <1>3, <2>2, <2>4 DEF ListInv, PageInv
  <2>7. ListTypes' /\ CancelInv'
    BY <1>1, <1>3, <2>2 DEF ListInv, ListTypes, CancelInv, Order
  <2> QED
    BY <2>5, <2>6, <2>7 DEF ListInv
<1> QED
  BY <1>4, <1>5

LEMMA CancellationInv ==
    ASSUME ListInv, NEW j \in DOMAIN cancels, CancelOrder(j) \/ Cancelled(j) \/ CancelFails(j)
    PROVE  ListInv'
<1>1. /\ cancels \in Seq(Cancellation) /\ DOMAIN cancels = 1..Len(cancels) /\ Len(cancels) \in Nat
      /\ cancels[j] \in Cancellation /\ cancels[j].order \in Order
      /\ cancels \in [DOMAIN cancels -> Cancellation] /\ store # "monolith"
  BY LenProperties, ElementOfSeq DEF ListInv, ListTypes, CancelInv
<1>2. CASE CancelFails(j) \/ (CancelOrder(j) /\ book[cancels[j].order].status # "ACTIVE")
  <2>1. /\ cancels' = RemoveAt(cancels, j)
        /\ UNCHANGED <<store, book, page, rows, of, error, loads, mine, spoiled>>
    BY <1>2 DEF CancelFails, CancelOrder
  <2>2. /\ cancels' \in Seq(Cancellation)
        /\ \A k \in DOMAIN cancels' : \E m \in DOMAIN cancels : cancels'[k] = cancels[m]
    BY <2>1, CancelRemoved
  <2>3. CancelInv'
    BY <1>1, <2>1, <2>2 DEF ListInv, CancelInv, Order
  <2> QED
    BY <2>1, <2>2, <2>3 DEF ListInv, ListTypes, LoadInv, PageInv, ShowsCancelled
<1>3. CASE CancelOrder(j) /\ book[cancels[j].order].status = "ACTIVE"
  <2> DEFINE o == cancels[j].order
             e == [book[o] EXCEPT !.status = "CANCELLED"]
             c == [cancels[j] EXCEPT !.step = "done"]
  <2>1. book \in Seq(Entry) /\ o \in 1..Len(book) /\ book[o] \in Entry /\ book \in [1..Len(book) -> Entry]
    BY <1>1, ElementOfSeq, LenProperties DEF ListInv, ListTypes, Order
  <2>2. /\ book' = [book EXCEPT ![o] = e] /\ cancels' = [cancels EXCEPT ![j] = c]
        /\ UNCHANGED <<store, page, rows, of, error, loads, mine, spoiled>>
    BY <1>1, <1>3, <2>1 DEF CancelOrder, Entry, Cancellation
  <2>3. e \in Entry /\ e.status = "CANCELLED" /\ c \in Cancellation /\ c.order = o
    BY <1>1, <2>1 DEF Entry, Statuses, Cancellation
  <2> HIDE DEF e, c
  <2>4. /\ book' \in Seq(Entry) /\ Len(book') = Len(book)
        /\ \A k \in 1..Len(book) : book'[k] = IF k = o THEN e ELSE book[k]
    BY <2>1, <2>2, <2>3, ExceptSeq
  <2>5. /\ cancels' \in Seq(Cancellation) /\ Len(cancels') = Len(cancels)
        /\ \A k \in 1..Len(cancels) : cancels'[k] = IF k = j THEN c ELSE cancels[k]
    BY <1>1, <2>2, <2>3, ExceptSeq
  <2>6. Order' = Order /\ DOMAIN cancels' = DOMAIN cancels
    BY <1>1, <2>4, <2>5, LenProperties DEF Order
  <2>7. \A k \in Order : book[k].status = "CANCELLED" \/ k = o => book'[k].status = "CANCELLED"
    BY <2>3, <2>4 DEF Order
  <2>8. CancelInv'
    <3>1. ASSUME NEW k \in DOMAIN cancels PROVE
              /\ cancels'[k].order = cancels[k].order
              /\ cancels'[k].step = "done" => k = j \/ cancels[k].step = "done"
      BY <1>1, <2>3, <2>5
    <3> QED
      BY <1>1, <2>2, <2>6, <2>7, <3>1 DEF ListInv, CancelInv
  <2> QED
    BY <2>2, <2>4, <2>5, <2>8 DEF ListInv, ListTypes, LoadInv, PageInv, ShowsCancelled
<1>4. CASE Cancelled(j)
  <2> DEFINE p == cancels[j].page
  <2>1. /\ cancels[j].step = "done" /\ mine' = mine \cup {cancels[j].order}
        /\ LoadOrders(p) /\ cancels' = RemoveAt(cancels, j)
        /\ Crossing \subseteq spoiled' /\ spoiled \subseteq spoiled'
        /\ p = page' \/ "stale" \in spoiled'
        /\ UNCHANGED <<store, book, page>>
    BY <1>4 DEF Cancelled
  <2>2. p \in Int
    BY <1>1 DEF Cancellation
  <2> HIDE DEF p
  <2>3. loads' \in Seq(ListCall) /\ LoadInv' /\ PageInv'
    BY <1>1, <2>1, <2>2, LoadAsked
  <2>4. /\ cancels' \in Seq(Cancellation)
        /\ \A k \in DOMAIN cancels' : \E m \in DOMAIN cancels : cancels'[k] = cancels[m]
    BY <2>1, CancelRemoved
  <2>5. CancelInv'
    BY <1>1, <2>1, <2>4 DEF ListInv, CancelInv, Order
  <2> QED
    BY <2>1, <2>3, <2>4, <2>5 DEF ListInv, ListTypes
<1> QED
  BY <1>2, <1>3, <1>4

LEMMA NextListInv == ListInv /\ [ClientsNext]_clientVars => ListInv'
<1> SUFFICES ASSUME ListInv, [ClientsNext]_clientVars PROVE ListInv'
  OBVIOUS
<1>1. CASE UNCHANGED listVars
  BY <1>1, QuietList
<1>2. CASE ~UNCHANGED listVars
  BY <1>2, InsertInv, QueriesInv, UserInv, FollowTokenInv, LoadedInv, CancellationInv
     DEF ClientsNext, ListAnswers, clientVars
<1> QED
  BY <1>1, <1>2

LEMMA ListInvariance == ClientsSpec => []ListInv
  BY InitListInv, NextListInv, PTL DEF ClientsSpec

\* Once the list is quiet its rows belong to the page named below them, however
\* many pages were turned and orders cancelled, unless loads crossed or a
\* cancellation reloaded the page it was made on.
THEOREM RowsBelongToPage == ClientsSpec => []RowsMatchPage
<1>1. ListInv => RowsMatchPage
  BY DEF ListInv, PageInv, RowsMatchPage, Quiet
<1> QED
  BY <1>1, ListInvariance, PTL

\* Unless loads crossed, an order the user was told is cancelled is shown so.
THEOREM CancellationsAreShown == ClientsSpec => []CancelIsShown
<1>1. ListInv => CancelIsShown
  BY DEF ListInv, LoadInv, ShowsCancelled, CancelIsShown, Quiet
<1> QED
  BY <1>1, ListInvariance, PTL
-----------------------------------------------------------------------------

\* The walk through the pages.

\* The orders that may come before an order in the list, and how many they are.
Ahead(o) == {a \in Order \ {o} : ListedBefore(a, o)}
Depth(o) == Cardinality(Ahead(o))

Paged == store \in {"mssql", "memory"}

\* An order is never listed both before and after another.
Ordered == store = "mssql" => Distinct

LEMMA BookTyped ==
    ASSUME ListTypes
    PROVE  /\ Len(book) \in Nat /\ Order = DOMAIN book /\ Order \subseteq Nat
           /\ IsFiniteSet(Order) /\ Cardinality(Order) = Len(book)
           /\ \A o \in Order : book[o] \in Entry /\ book[o].at \in Nat
<1>1. book \in Seq(Entry)
  BY DEF ListTypes
<1>2. Len(book) \in Nat /\ Order = DOMAIN book /\ Order = 1..Len(book)
  BY <1>1, LenProperties DEF Order
<1>3. \A o \in Order : book[o] \in Entry
  BY <1>1, <1>2, ElementOfSeq
<1>4. IsFiniteSet(Order) /\ Cardinality(Order) = Len(book)
  <2> DEFINE n == Len(book)
  <2> HIDE DEF n
  <2>1. n \in Nat /\ Order = 1..n
    BY <1>2 DEF n
  <2>2. IsFiniteSet(1..n) /\ Cardinality(1..n) = IF 1 > n THEN 0 ELSE n - 1 + 1
    BY <2>1, FS_Interval
  <2>3. Cardinality(1..n) = n
    BY <2>1, <2>2
  <2> QED
    BY <2>1, <2>2, <2>3 DEF n
<1> QED
  BY <1>2, <1>3, <1>4 DEF Entry

LEMMA DepthTyped ==
    ASSUME ListTypes, NEW o \in Order
    PROVE  /\ IsFiniteSet(Ahead(o)) /\ Depth(o) \in Nat /\ Depth(o) < Len(book)
           /\ Ahead(o) \subseteq Order \ {o}
<1>1. IsFiniteSet(Order) /\ Cardinality(Order) = Len(book) /\ Len(book) \in Nat
  BY BookTyped
<1>2. IsFiniteSet(Order \ {o}) /\ Cardinality(Order \ {o}) = Len(book) - 1
  BY <1>1, FS_RemoveElement
<1>3. Ahead(o) \subseteq Order \ {o}
  BY DEF Ahead
<1>4. IsFiniteSet(Ahead(o)) /\ Cardinality(Ahead(o)) <= Len(book) - 1
  BY <1>2, <1>3, FS_Subset
<1>5. Cardinality(Ahead(o)) \in Nat
  BY <1>4, FS_CardinalityType
<1> QED
  BY <1>1, <1>3, <1>4, <1>5 DEF Depth

LEMMA OneOrder ==
    ASSUME ListTypes, Ordered, NEW a \in Order, NEW b \in Order,
           ListedBefore(a, b), ListedBefore(b, a)
    PROVE  a = b
<1>1. a \in Nat /\ b \in Nat /\ book[a].at \in Nat /\ book[b].at \in Nat
  BY BookTyped
<1>2. book[a].at = book[b].at
  BY <1>1 DEF ListedBefore
<1>3. store = "mssql" => a = b
  BY <1>2 DEF Ordered, Distinct
<1>4. store # "mssql" => a = b
  BY <1>1, <1>2 DEF ListedBefore
<1> QED
  BY <1>3, <1>4

\* An order that is not on the page after the first k is among the first k, or at
\* least a page behind them.
LEMMA MissedByPage ==
    ASSUME ListTypes, Ordered, NEW k \in Int, NEW slice \in Slices(k),
           NEW o \in Order, o \notin slice, Depth(o) >= k
    PROVE  Depth(o) >= k + PageSize
<1>1. PICK skipped \in SUBSET (Order \ slice) :
          LET rest == Order \ (skipped \cup slice)
          IN  /\ Cardinality(skipped) <= k /\ Cardinality(slice) <= PageSize
              /\ slice # {} => Cardinality(skipped) = k
              /\ rest # {} => Cardinality(skipped) = k /\ Cardinality(slice) = PageSize
              /\ \A a \in skipped, b \in slice \cup rest : ListedBefore(a, b)
              /\ \A a \in slice, b \in rest : ListedBefore(a, b)
  BY DEF Slices
<1> DEFINE rest == Order \ (skipped \cup slice)
<1>2. slice \subseteq Order
  BY DEF Slices
<1>3. /\ IsFiniteSet(Order) /\ IsFiniteSet(Ahead(o)) /\ Depth(o) \in Nat /\ Ahead(o) \subseteq Order \ {o}
      /\ PageSize \in Nat
  BY BookTyped, DepthTyped, ListingAssumption
<1>4. /\ IsFiniteSet(skipped) /\ IsFiniteSet(slice)
      /\ Cardinality(skipped) \in Nat /\ Cardinality(slice) \in Nat
  BY <1>2, <1>3, FS_Subset, FS_CardinalityType
<1>5. o \notin skipped
  <2> SUFFICES ASSUME o \in skipped PROVE FALSE
    OBVIOUS
  <2>1. ASSUME NEW a \in Ahead(o) PROVE a \in skipped \ {o}
    <3>1. a \in Order /\ a # o /\ ListedBefore(a, o)
      BY DEF Ahead
    <3>2. CASE a \in slice \cup rest
      <4>1. ListedBefore(o, a)
        BY <1>1, <3>2
      <4> QED
        BY <3>1, <4>1, OneOrder
    <3> QED
      BY <3>1, <3>2
  <2>2. IsFiniteSet(skipped \ {o}) /\ Cardinality(skipped \ {o}) = Cardinality(skipped) - 1
    BY <1>4, FS_RemoveElement
  <2>3. Cardinality(Ahead(o)) <= Cardinality(skipped \ {o})
    BY <2>1, <2>2, FS_Subset
  <2>4. Cardinality(skipped) <= k
    BY <1>1
  <2> HIDE DEF rest
  <2> QED
    BY <1>3, <1>4, <2>2, <2>3, <2>4 DEF Depth
<1>6. o \in rest
  BY <1>5
<1>7. Cardinality(skipped) = k /\ Cardinality(slice) = PageSize
  BY <1>1, <1>6
<1>8. ASSUME NEW a \in skipped \cup slice PROVE a \in Ahead(o)
  <2>1. a \in Order /\ a # o /\ ListedBefore(a, o)
    BY <1>1, <1>2, <1>5, <1>6
  <2> QED
    BY <2>1 DEF Ahead
<1>9. Cardinality(skipped \cup slice) <= Cardinality(Ahead(o))
  BY <1>3, <1>8, FS_Subset
<1>10. skipped \cap slice = {} /\ Cardinality({}) = 0
  BY FS_EmptySet
<1>11. Cardinality(skipped \cup slice) = Cardinality(skipped) + Cardinality(slice) - Cardinality(skipped \cap slice)
  BY <1>4, FS_Union
<1>12. Cardinality(skipped \cap slice) = 0
  BY <1>10
<1> QED
  BY <1>3, <1>4, <1>7, <1>9, <1>11, <1>12 DEF Depth

\* Turning pages: the next page starts where this one ends.
LEMMA NextOffset ==
    ASSUME NEW p \in Int
    PROVE  /\ Offset(p) \in Int /\ Offset(p + 1) = Offset(p) + PageSize
           /\ Offset(p) = Offset(p - 1) + PageSize /\ Offset(1) = 0
BY ListingAssumption DEF Offset

\* There is a page after page p exactly when there are more orders than p pages hold.
LEMMA LastPage ==
    ASSUME total \in Nat, NEW p \in Int
    PROVE  TotalPages \in Int /\ (p < TotalPages <=> Offset(p + 1) < total)
<1> DEFINE s == PageSize
           q == TotalPages
<1>1. s \in Nat /\ s > 0
  BY ListingAssumption
<1>2. q \in Int /\ s * q <= total + s - 1 /\ total <= s * q
  BY <1>1 DEF TotalPages
<1>3. Offset(p + 1) = s * p
  BY <1>1 DEF Offset
<1> HIDE DEF q, s
<1>4. p < q => s * p < total
  <2> SUFFICES ASSUME p < q PROVE s * p < total
    OBVIOUS
  <2>1. PICK d \in Nat : q = p + 1 + d
    BY <1>2
  <2>2. s * q = s * p + s + s * d /\ s * d >= 0
    BY <1>1, <2>1
  <2> QED
    BY <1>1, <1>2, <2>2
<1>5. ~(p < q) => ~(s * p < total)
  <2> SUFFICES ASSUME p >= q PROVE s * p >= total
    BY <1>1, <1>2
  <2>1. PICK d \in Nat : p = q + d
    BY <1>2
  <2>2. s * p = s * q + s * d /\ s * d >= 0
    BY <1>1, <1>2, <2>1
  <2> QED
    BY <1>1, <1>2, <2>2
<1> QED
  BY <1>2, <1>3, <1>4, <1>5 DEF q
-----------------------------------------------------------------------------

\* What is shown and loaded are orders of the store, which has those that were
\* there when the list was opened.
BoundsInv ==
    /\ Paged \/ store = "monolith" \/ (store = "none" /\ total = 0)
    /\ store # "none" => Old <= Len(book)
    /\ DOMAIN rows \subseteq Order /\ total \in 0..Len(book)
    /\ \A i \in DOMAIN loads : DOMAIN loads[i].rows \subseteq Order /\ loads[i].total <= Len(book)
    /\ loading => loads # <<>>

\* The page exists: it starts before the number of orders last shown, which only
\* grows while loads do not cross.
LastPageInv ==
    Paged /\ "crossed" \notin spoiled =>
        /\ page >= 1
        /\ IF total = 0 THEN page = 1 ELSE Offset(page) < total
        /\ \A i \in DOMAIN loads : loads[i].step # "asked" => loads[i].total >= total

Unseen == 1..Old \ seen

Walking == Paged /\ Ordered /\ spoiled \cap {"torn", "failed", "crossed"} = {}

\* The page on its way can have order o: it starts no later than o, and has o once
\* it is fetched, unless o has moved behind it.
IsComing(o, l) ==
    /\ l.page = page /\ Depth(o) >= Offset(page)
    /\ l.step = "fetched" => o \in DOMAIN l.rows \/ Depth(o) >= Offset(page + 1)

\* An order that was not seen is behind the pages walked, and while there is one
\* there is a page after them.
WalkInv ==
    Walking =>
        /\ \A o \in Unseen :
              Depth(o) >= Offset(page + 1) \/ (loads # <<>> /\ IsComing(o, loads[1]))
        /\ IF loads = <<>> THEN Unseen = {} \/ total > Offset(page + 1)
           ELSE loads[1].step = "fetched" =>
                  Unseen \subseteq DOMAIN loads[1].rows \/ loads[1].total > Offset(page + 1)

\* The same for a walk by tokens, which are offsets themselves.
TokensInv ==
    store = "monolith" =>
        /\ page \in Nat /\ \A o \in Unseen : Depth(o) >= page
        /\ page = 0 => seen = {} \/ Unseen = {}

PagingInv == BoundsInv /\ LastPageInv /\ WalkInv /\ TokensInv

LEMMA InitPagingInv == ClientsInit => PagingInv
<1> SUFFICES ASSUME ClientsInit PROVE PagingInv
  OBVIOUS
<1>1. ListTypes
  BY InitListInv DEF ListInv
<1>2. CASE ListIdle
  BY <1>2, BookTyped, <1>1
     DEF ListIdle, PagingInv, BoundsInv, LastPageInv, WalkInv, TokensInv, Walking, Paged, NoRows
<1>3. CASE ListInit
  <2>1. book = [o \in 1..Old |-> [at |-> o, status |-> "ACTIVE"]] /\ Old \in Nat
    BY <1>3, ListingAssumption DEF ListInit
  <2>2. Len(book) = Old /\ Order = 1..Old
    BY <1>1, <2>1, BookTyped
  <2>3. \A o \in 1..Old : Depth(o) \in Nat
    BY <1>1, <2>2, DepthTyped
  <2> DEFINE c == Call(1)
  <2>4. c.page = 1 /\ c.step = "asked" /\ c.rows = NoRows /\ c.total = 0 /\ DOMAIN NoRows = {}
    BY DEF Call, NoRows
  <2> HIDE DEF c
  <2>5. /\ page = (IF store = "monolith" THEN 0 ELSE 1) /\ total = 0 /\ rows = NoRows /\ seen = {}
        /\ loads = (IF store = "monolith" THEN <<>> ELSE <<c>>) /\ loading = (store # "monolith")
        /\ store \in {"mssql", "memory", "monolith"}
    BY <1>3 DEF ListInit, c
  <2>6. <<c>> # <<>> /\ <<c>>[1] = c /\ DOMAIN <<c>> = 1..1
    OBVIOUS
  <2>7. BoundsInv
    <3>1. \A i \in DOMAIN loads : loads[i].rows = NoRows /\ loads[i].total = 0
      BY <2>4, <2>5, <2>6
    <3>2. loading => loads # <<>>
      BY <2>5, <2>6
    <3> QED
      BY <2>1, <2>2, <2>4, <2>5, <3>1, <3>2 DEF BoundsInv, Paged
  <2>8. LastPageInv
    BY <2>4, <2>5, <2>6 DEF LastPageInv, Paged
  <2>9. Offset(1) = 0
    BY NextOffset
  <2>10. WalkInv
    BY <2>3, <2>4, <2>5, <2>6, <2>9 DEF WalkInv, Walking, Paged, Unseen, IsComing
  <2>11. TokensInv
    BY <2>3, <2>5 DEF TokensInv, Unseen
  <2> QED
    BY <2>7, <2>8, <2>10, <2>11 DEF PagingInv
<1> QED
  BY <1>2, <1>3 DEF ClientsInit

\* Orders only move back: the book is only added to.
BookGrows ==
    /\ store' = store /\ Order \subseteq Order'
    /\ \A o \in Order : book'[o].at = book[o].at

Sized ==
    /\ Len(book) \in Nat /\ IsFiniteSet(Order) /\ Cardinality(Order) = Len(book)
    /\ \A o \in Order : IsFiniteSet(Ahead(o)) /\ Depth(o) \in Nat

LEMMA BookSized == ListTypes => Sized
BY BookTyped, DepthTyped DEF Sized

LEMMA OrdersMoveBack ==
    ASSUME ListTypes, ListTypes', BookGrows
    PROVE  /\ Len(book) <= Len(book') /\ (Ordered' => Ordered) /\ (Paged' <=> Paged)
           /\ \A o \in Order : Depth(o) \in Nat /\ Depth(o)' \in Nat /\ Depth(o) <= Depth(o)'
<1>1. Sized
  BY BookSized
<1>2. Sized'
  BY BookSized, PTL
<1>3. Cardinality(Order) <= Cardinality(Order')
  BY <1>2, FS_Subset DEF Sized, BookGrows
<1>4. Ordered' => Ordered
  BY DEF Ordered, Distinct, BookGrows
<1>5. ASSUME NEW o \in Order PROVE Depth(o) \in Nat /\ Depth(o)' \in Nat /\ Depth(o) <= Depth(o)'
  <2>1. o \in Order'
    BY DEF BookGrows
  <2>2. Depth(o) \in Nat
    BY <1>1 DEF Sized
  <2>3. IsFiniteSet(Ahead(o)') /\ Depth(o)' \in Nat
    BY <1>2, <2>1 DEF Sized
  <2>4. ASSUME NEW a \in Ahead(o) PROVE a \in Ahead(o)'
    <3>1. a \in Order /\ a # o /\ ListedBefore(a, o)
      BY DEF Ahead
    <3>2. ListedBefore(a, o)'
      BY <3>1 DEF ListedBefore, BookGrows
    <3> QED
      BY <3>1, <3>2 DEF Ahead, BookGrows
  <2>5. Cardinality(Ahead(o)) <= Cardinality(Ahead(o)')
    BY <2>3, <2>4, FS_Subset
  <2> QED
    BY <2>2, <2>3, <2>5 DEF Depth
<1> QED
  BY <1>1, <1>2, <1>3, <1>4, <1>5 DEF Sized, Paged, BookGrows

\* Every step leaves the times of the orders as they are.
LEMMA NextBookGrows ==
    ASSUME ListInv, [ClientsNext]_clientVars
    PROVE  BookGrows
<1>1. book \in Seq(Entry) /\ Len(book) \in Nat /\ Order = 1..Len(book) /\ DOMAIN book = 1..Len(book)
  BY LenProperties DEF ListInv, ListTypes, Order
<1>2. ASSUME UNCHANGED <<store, book>> PROVE BookGrows
  BY <1>2 DEF BookGrows, Order
<1>3. ASSUME NEW at \in Times, Insert(at) PROVE BookGrows
  <2>1. [at |-> at, status |-> "ACTIVE"] \in Entry
    BY ListingAssumption DEF Times, Entry, Statuses
  <2>2. book' = Append(book, [at |-> at, status |-> "ACTIVE"]) /\ store' = store
    BY <1>3 DEF Insert
  <2>3. Len(book') = Len(book) + 1 /\ \A o \in 1..Len(book) : book'[o] = book[o]
    BY <1>1, <2>1, <2>2, AppendProperties
  <2> QED
    BY <1>1, <2>2, <2>3 DEF BookGrows, Order
<1>4. ASSUME NEW j \in DOMAIN cancels, CancelOrder(j) PROVE BookGrows
  <2>1. CASE book' = book
    BY <1>2, <1>4, <2>1 DEF CancelOrder
  <2>2. CASE book' # book
    <3> DEFINE o == cancels[j].order
               e == [book[o] EXCEPT !.status = "CANCELLED"]
    <3>1. o \in DOMAIN book /\ book[o] \in Entry
      BY <1>1, ElementOfSeq DEF ListInv, CancelInv
    <3>2. e \in Entry /\ e.at = book[o].at
      BY <3>1 DEF Entry, Statuses
    <3>3. book' = [book EXCEPT ![o] = e] /\ store' = store
      BY <1>4, <2>2 DEF CancelOrder
    <3> HIDE DEF e, o
    <3>4. /\ Len([book EXCEPT ![o] = e]) = Len(book)
          /\ \A k \in DOMAIN book : [book EXCEPT ![o] = e][k] = IF k = o THEN e ELSE book[k]
      BY <1>1, <3>1, <3>2, ReplacedIn
    <3> QED
      BY <1>1, <3>2, <3>3, <3>4 DEF BookGrows, Order
  <2> QED
    BY <2>1, <2>2
<1> QED
  BY <1>2, <1>3, <1>4
     DEF ClientsNext, clientVars, listVars, ListAnswers, TurnTo, Cancel, FollowToken, CountOrders,
         FetchPage, Loaded, LoadFails, Cancelled, CancelFails

LEMMA PageFacts ==
    ASSUME ListInv
    PROVE  /\ loads \in Seq(ListCall) /\ loads \in [DOMAIN loads -> ListCall]
           /\ \A i \in DOMAIN loads : loads[i] \in ListCall /\ loads[i].total \in Nat
           /\ page \in Int /\ Offset(page) \in Int /\ Offset(page + 1) \in Int
           /\ Offset(page + 1) = Offset(page) + PageSize /\ PageSize \in Nat
<1>1. loads \in Seq(ListCall) /\ page \in Int
  BY DEF ListInv, ListTypes
<1>2. \A i \in DOMAIN loads : loads[i] \in ListCall
  BY <1>1, ElementOfSeq, LenProperties
<1>3. /\ Offset(page) \in Int /\ Offset(page + 1) = Offset(page) + PageSize
      /\ PageSize \in Nat
  BY <1>1, NextOffset, ListingAssumption
<1>4. Offset(page + 1) \in Int
  BY <1>1, NextOffset
<1>5. \A i \in DOMAIN loads : loads[i].total \in Nat
  BY <1>2 DEF ListCall
<1>6. loads \in [DOMAIN loads -> ListCall]
  BY <1>1, LenProperties
<1> QED
  BY <1>1, <1>2, <1>3, <1>4, <1>5, <1>6

\* What every step starts from: the walk stays possible only if it was, and an order
\* that was not seen is one of the store and no nearer to the first page.
LEMMA StepFacts ==
    ASSUME ListInv, ListInv', PagingInv, BookGrows, spoiled \subseteq spoiled', seen \subseteq seen'
    PROVE  /\ (Paged' <=> Paged) /\ (Walking' => Walking) /\ (store' = store)
           /\ Len(book) \in Nat /\ Len(book') \in Nat /\ Len(book) <= Len(book')
           /\ Order \subseteq Order' /\ Unseen' \subseteq Unseen
           /\ \A o \in Unseen' :
                 store # "none" => o \in Order /\ Depth(o) \in Nat /\ Depth(o)' \in Nat /\ Depth(o) <= Depth(o)'
<1>1. ListTypes /\ ListTypes'
  BY DEF ListInv
<1>2. /\ Len(book) <= Len(book') /\ (Ordered' => Ordered) /\ (Paged' <=> Paged)
      /\ \A o \in Order : Depth(o) \in Nat /\ Depth(o)' \in Nat /\ Depth(o) <= Depth(o)'
  BY <1>1, OrdersMoveBack
<1>3. Len(book) \in Nat /\ Len(book') \in Nat
  BY <1>1, LenProperties DEF ListTypes
<1>4. Walking' => Walking
  BY <1>2 DEF Walking
<1>5. Unseen' \subseteq Unseen
  BY DEF Unseen
<1>6. ASSUME NEW o \in Unseen', store # "none" PROVE o \in Order
  BY <1>3, <1>6, ListingAssumption DEF Unseen, PagingInv, BoundsInv, Order
<1> QED
  BY <1>2, <1>3, <1>4, <1>5, <1>6 DEF BookGrows

\* Orders come and are cancelled while the page stays as it is.
LEMMA StoreMoves ==
    ASSUME ListInv, ListInv', PagingInv, BookGrows,
           UNCHANGED <<page, rows, total, loading, loads, seen, spoiled>>
    PROVE  PagingInv'
<1> USE DEF PagingInv
<1>1. /\ (Paged' <=> Paged) /\ (Walking' => Walking) /\ (store' = store)
      /\ Len(book) \in Nat /\ Len(book') \in Nat /\ Len(book) <= Len(book')
      /\ Order \subseteq Order' /\ Unseen' = Unseen
      /\ \A o \in Unseen :
            store # "none" => Depth(o) \in Nat /\ Depth(o)' \in Nat /\ Depth(o) <= Depth(o)'
  BY StepFacts DEF Unseen
<1>2. BoundsInv'
  <2>1. ASSUME NEW i \in DOMAIN loads PROVE loads[i].total \in Nat
    BY PageFacts
  <2>2. ASSUME NEW i \in DOMAIN loads PROVE loads[i].total <= Len(book')
    BY <1>1, <2>1 DEF BoundsInv
  <2> QED
    BY <1>1, <2>2, ListingAssumption DEF BoundsInv
<1>3. LastPageInv'
  BY <1>1 DEF LastPageInv, Offset
<1>4. page \in Int /\ Offset(page) \in Int /\ Offset(page + 1) \in Int
  BY PageFacts
<1>5. Offset(page)' = Offset(page) /\ Offset(page + 1)' = Offset(page + 1)
  BY DEF Offset
<1>6. WalkInv'
  <2> SUFFICES ASSUME Walking' PROVE WalkInv'
    BY DEF WalkInv
  <2>1. Walking /\ store # "none"
    BY <1>1 DEF Walking, Paged
  <2>2. ASSUME NEW o \in Unseen
        PROVE  Depth(o)' >= Offset(page + 1) \/ (loads # <<>> /\ IsComing(o, loads[1])')
    <3>1. Depth(o) \in Nat /\ Depth(o)' \in Nat /\ Depth(o) <= Depth(o)'
      BY <1>1, <2>1
    <3>2. CASE Depth(o) >= Offset(page + 1)
      BY <1>4, <3>1, <3>2
    <3>3. CASE loads # <<>> /\ IsComing(o, loads[1])
      <4>1. /\ loads[1].page = page /\ Depth(o)' >= Offset(page)
            /\ loads[1].step = "fetched" => o \in DOMAIN loads[1].rows \/ Depth(o)' >= Offset(page + 1)
        BY <1>4, <3>1, <3>3 DEF IsComing
      <4> QED
        BY <1>5, <3>3, <4>1 DEF IsComing
    <3> QED
      BY <2>1, <3>2, <3>3 DEF WalkInv
  <2>3. IF loads = <<>> THEN Unseen = {} \/ total > Offset(page + 1)
        ELSE loads[1].step = "fetched" =>
               Unseen \subseteq DOMAIN loads[1].rows \/ loads[1].total > Offset(page + 1)
    BY <2>1 DEF WalkInv
  <2> QED
    BY <1>1, <1>5, <2>2, <2>3 DEF WalkInv
<1>7. TokensInv'
  <2> SUFFICES ASSUME store = "monolith" PROVE TokensInv'
    BY <1>1 DEF TokensInv
  <2>1. page \in Nat /\ \A o \in Unseen : Depth(o)' >= page
    BY <1>1 DEF TokensInv
  <2> QED
    BY <1>1, <2>1 DEF TokensInv
<1> QED
  BY <1>2, <1>3, <1>6, <1>7

\* A load takes its next step, as it does in QueriesInv.
LEMMA QueriesStep ==
    ASSUME ListInv, ListInv', PagingInv, BookGrows, store # "none",
           NEW i \in DOMAIN loads, CountOrders(i) \/ FetchPage(i)
    PROVE  PagingInv'
<1> USE DEF PagingInv
<1>1. /\ UNCHANGED <<store, book, page, rows, total, loading, seen>> /\ spoiled \subseteq spoiled'
  BY DEF CountOrders, FetchPage
<1>2. /\ (Paged' <=> Paged) /\ (Walking' => Walking)
      /\ Len(book) \in Nat /\ Order' = Order /\ Unseen' = Unseen
      /\ \A o \in Unseen : o \in Order /\ Depth(o) \in Nat /\ Depth(o)' = Depth(o)
  BY <1>1, StepFacts DEF Unseen, Order, Depth, Ahead, ListedBefore
<1>3. loads \in Seq(ListCall) /\ loads[i] \in ListCall /\ loads \in [DOMAIN loads -> ListCall]
      /\ loads[i].total \in Nat /\ Paged
  <2>1. store # "monolith"
    BY DEF ListInv, CancelInv
  <2> QED
    BY <2>1, PageFacts DEF BoundsInv
<1>4. \E l \in ListCall :
          /\ loads' = [loads EXCEPT ![i] = l] /\ l.page = loads[i].page
          /\ l.total <= Len(book) /\ DOMAIN l.rows \subseteq Order
          /\ loads[i].step = "asked" => l.total = Len(book)
          /\ loads[i].step # "asked" => l.total = loads[i].total
          /\ l.step = "fetched" =>
                /\ \E slice \in Slices(Offset(l.page)) : DOMAIN l.rows = slice
                /\ "torn" \in spoiled' \/ l.total = Len(book)
  <2>1. CASE CountOrders(i)
    <3> DEFINE l == [loads[i] EXCEPT !.step = "counted", !.total = Len(book)]
    <3>1. loads' = [loads EXCEPT ![i] = l] /\ loads[i].step = "asked"
      BY <1>3, <2>1 DEF CountOrders, ListCall
    <3>2. l \in ListCall /\ l.page = loads[i].page /\ l.step = "counted" /\ l.total = Len(book)
          /\ l.rows = loads[i].rows
      BY <1>2, <1>3 DEF ListCall
    <3> HIDE DEF l
    <3>3. DOMAIN l.rows \subseteq Order /\ l.total <= Len(book)
      BY <1>2, <3>2 DEF BoundsInv
    <3> QED
      BY <3>1, <3>2, <3>3
  <2>2. CASE FetchPage(i)
    <3>1. PICK slice \in Slices(Offset(loads[i].page)) :
              loads' = [loads EXCEPT ![i].step = "fetched", ![i].rows = StatusesOf(slice),
                                     ![i].total = IF store = "mssql" THEN @ ELSE Len(book)]
      BY <2>2 DEF FetchPage
    <3> DEFINE r == StatusesOf(slice)
               n == IF store = "mssql" THEN loads[i].total ELSE Len(book)
               l == [loads[i] EXCEPT !.step = "fetched", !.rows = r, !.total = n]
    <3>2. slice \subseteq Order /\ DOMAIN r = slice
      BY DEF Slices, StatusesOf
    <3>3. /\ loads[i].step = "asked" => n = Len(book)
          /\ loads[i].step # "asked" => n = loads[i].total
          /\ "torn" \in spoiled' \/ n = Len(book)
          /\ n <= Len(book)
      <4>1. CASE store = "mssql"
        BY <2>2, <4>1 DEF FetchPage, BoundsInv
      <4>2. CASE store # "mssql"
        <5>1. loads[i].step = "asked"
          BY <2>2, <4>2 DEF FetchPage
        <5>2. n = Len(book) /\ n \in Nat
          BY <1>2, <4>2
        <5> HIDE DEF n
        <5> QED
          BY <5>1, <5>2
      <4> QED
        BY <4>1, <4>2
    <3> HIDE DEF r, n
    <3>4. loads' = [loads EXCEPT ![i] = l]
      BY <1>3, <3>1 DEF ListCall, r, n
    <3>5. l.page = loads[i].page /\ l.step = "fetched" /\ l.rows = r /\ l.total = n
      BY <1>3 DEF ListCall
    <3> HIDE DEF l
    <3>6. l \in ListCall
      <4>1. loads' \in Seq(ListCall) /\ DOMAIN loads' = DOMAIN loads /\ loads'[i] = l
        BY <3>4 DEF ListInv, ListTypes
      <4> QED
        BY <4>1, ElementOfSeq, LenProperties
    <3> QED
      BY <3>2, <3>3, <3>4, <3>5, <3>6
  <2> QED
    BY <2>1, <2>2
<1>5. PICK l \in ListCall :
          /\ loads' = [loads EXCEPT ![i] = l] /\ l.page = loads[i].page
          /\ l.total <= Len(book) /\ DOMAIN l.rows \subseteq Order
          /\ loads[i].step = "asked" => l.total = Len(book)
          /\ loads[i].step # "asked" => l.total = loads[i].total
          /\ l.step = "fetched" =>
                /\ \E slice \in Slices(Offset(l.page)) : DOMAIN l.rows = slice
                /\ "torn" \in spoiled' \/ l.total = Len(book)
  BY <1>4
<1>6. /\ loads # <<>> /\ loads' # <<>> /\ DOMAIN loads' = DOMAIN loads
      /\ \A k \in DOMAIN loads : loads'[k] = IF k = i THEN l ELSE loads[k]
  BY <1>3, <1>5, ReplacedIn
<1>7. BoundsInv'
  BY <1>1, <1>2, <1>5, <1>6 DEF BoundsInv
<1>8. LastPageInv'
  <2>1. Offset(page)' = Offset(page)
    BY <1>1 DEF Offset
  <2>2. l.total >= total \/ ~(Paged /\ "crossed" \notin spoiled)
    BY <1>2, <1>5 DEF BoundsInv, LastPageInv
  <2> QED
    BY <1>1, <1>2, <1>5, <1>6, <2>1, <2>2 DEF LastPageInv
<1>9. page \in Int /\ Offset(page) \in Int /\ Offset(page + 1) \in Int
      /\ Offset(page + 1) = Offset(page) + PageSize
  BY PageFacts
<1>10. Offset(page)' = Offset(page) /\ Offset(page + 1)' = Offset(page + 1)
  BY <1>1 DEF Offset
<1>11. WalkInv'
  <2> SUFFICES ASSUME Walking' PROVE WalkInv'
    BY DEF WalkInv
  <2>1. Walking /\ Ordered /\ ListTypes
    BY <1>2 DEF Walking, ListInv
  <2>2. i = 1 /\ loads'[1] = l
    <3>1. Len(loads) <= 1
      BY <2>1 DEF Walking, ListInv, LoadInv
    <3>2. i = 1
      BY <1>3, <3>1, RemovedLast
    <3> QED
      BY <1>6, <3>2
  <2>3. ASSUME NEW o \in Unseen, Depth(o) < Offset(page + 1)
        PROVE  /\ l.page = page /\ Depth(o) >= Offset(page)
               /\ l.step = "fetched" => o \in DOMAIN l.rows
    <3>1. Depth(o) \in Nat /\ o \in Order
      BY <1>2
    <3>2. l.page = page /\ Depth(o) >= Offset(page)
      BY <1>5, <1>9, <2>1, <2>2, <2>3, <3>1 DEF WalkInv, IsComing
    <3>3. ASSUME l.step = "fetched", o \notin DOMAIN l.rows PROVE FALSE
      <4>1. PICK slice \in Slices(Offset(page)) : DOMAIN l.rows = slice
        BY <1>5, <3>2, <3>3
      <4>2. Depth(o) >= Offset(page) + PageSize
        BY <1>9, <2>1, <3>1, <3>2, <3>3, <4>1, MissedByPage
      <4> QED
        BY <1>9, <2>3, <3>1, <4>2, ListingAssumption
    <3> QED
      BY <3>2, <3>3
  <2>4. ASSUME NEW o \in Unseen
        PROVE  Depth(o)' >= Offset(page + 1) \/ (loads' # <<>> /\ IsComing(o, loads[1])')
    <3>1. Depth(o) \in Nat /\ Depth(o)' = Depth(o)
      BY <1>2
    <3>2. Depth(o) >= Offset(page + 1) \/ Depth(o) < Offset(page + 1)
      BY <1>9, <3>1
    <3> QED
      BY <1>1, <1>6, <1>10, <2>2, <2>3, <3>1, <3>2 DEF IsComing
  <2>5. ASSUME l.step = "fetched", NEW o \in Unseen, o \notin DOMAIN l.rows
        PROVE  l.total > Offset(page + 1)
    <3>1. o \in Order /\ Depth(o) \in Nat
      BY <1>2
    <3>2. Depth(o) >= Offset(page + 1)
      BY <1>9, <2>3, <2>5, <3>1
    <3>3. Depth(o) < Len(book)
      BY <2>1, <3>1, DepthTyped
    <3>4. l.total = Len(book)
      BY <1>5, <2>5 DEF Walking
    <3> QED
      BY <1>2, <1>9, <3>1, <3>2, <3>3, <3>4
  <2> QED
    BY <1>1, <1>2, <1>6, <1>10, <2>2, <2>4, <2>5 DEF WalkInv
<1>12. TokensInv'
  BY <1>1, <1>3 DEF TokensInv, Paged
<1> QED
  BY <1>7, <1>8, <1>11, <1>12

\* A load that ends shows its rows, or an error.
LEMMA LoadEnds ==
    ASSUME ListInv, ListInv', PagingInv, BookGrows, store # "none",
           NEW i \in DOMAIN loads, Loaded(i) \/ LoadFails(i)
    PROVE  PagingInv'
<1> USE DEF PagingInv
<1>1. /\ loads' = RemoveAt(loads, i) /\ loading' = FALSE
      /\ UNCHANGED <<store, book, page>> /\ spoiled \subseteq spoiled' /\ seen \subseteq seen'
      /\ \/ /\ loads[i].step = "fetched" /\ spoiled' = spoiled
            /\ rows' = loads[i].rows /\ total' = loads[i].total
            /\ seen' = seen \cup DOMAIN loads[i].rows
         \/ /\ "failed" \in spoiled' /\ spoiled' = spoiled \cup {"failed"}
            /\ UNCHANGED <<rows, total, seen>>
  BY DEF Loaded, LoadFails
<1>2. /\ (Paged' <=> Paged) /\ (Walking' => Walking) /\ Len(book) \in Nat /\ Order' = Order
      /\ Unseen' \subseteq Unseen
      /\ \A o \in Unseen' : Depth(o) \in Nat /\ Depth(o)' = Depth(o)
  BY <1>1, StepFacts DEF Order, Depth, Ahead, ListedBefore
<1>3. /\ loads \in Seq(ListCall) /\ loads[i] \in ListCall /\ loads[i].total \in Nat
      /\ page \in Int /\ Offset(page) \in Int /\ Offset(page + 1) \in Int
  BY PageFacts
<1>4. Paged
  <2>1. store # "monolith"
    BY DEF ListInv, CancelInv
  <2> QED
    BY <2>1 DEF BoundsInv
<1>5. \A k \in DOMAIN loads' : \E m \in DOMAIN loads : loads'[k] = loads[m]
  BY <1>1, <1>3, GoneFrom
<1>6. BoundsInv'
  <2>1. DOMAIN rows' \subseteq Order /\ total' \in 0..Len(book)
    <3>1. DOMAIN loads[i].rows \subseteq Order /\ loads[i].total \in 0..Len(book)
      BY <1>2, <1>3 DEF BoundsInv
    <3> QED
      BY <1>1, <3>1 DEF BoundsInv
  <2>2. ASSUME NEW k \in DOMAIN loads'
        PROVE  DOMAIN loads'[k].rows \subseteq Order /\ loads'[k].total <= Len(book)
    BY <1>5 DEF BoundsInv
  <2> QED
    BY <1>1, <1>2, <1>4, <2>1, <2>2 DEF BoundsInv, Paged
<1>7. ASSUME "crossed" \notin spoiled PROVE i = 1 /\ loads' = <<>> /\ DOMAIN loads' = {}
  <2>1. Len(loads) <= 1
    BY <1>7 DEF ListInv, LoadInv
  <2>2. i = 1 /\ loads' = <<>>
    BY <1>1, <1>3, <2>1, RemovedLast
  <2> QED
    BY <2>2
<1>8. Offset(page)' = Offset(page) /\ Offset(page + 1)' = Offset(page + 1)
  BY <1>1 DEF Offset
<1>9. LastPageInv'
  <2> SUFFICES ASSUME "crossed" \notin spoiled' PROVE LastPageInv'
    BY DEF LastPageInv
  <2>1. "crossed" \notin spoiled
    BY <1>1
  <2>2. page >= 1 /\ IF total = 0 THEN page = 1 ELSE Offset(page) < total
    BY <1>4, <2>1 DEF LastPageInv
  <2>3. total' >= total /\ total' \in Nat /\ total \in Nat
    <3>1. loads[i].step = "fetched" => loads[i].total >= total
      BY <1>4, <2>1 DEF LastPageInv
    <3>2. total \in Nat
      BY <1>2 DEF BoundsInv
    <3> QED
      BY <1>1, <1>3, <3>1, <3>2
  <2>4. IF total' = 0 THEN page = 1 ELSE Offset(page) < total'
    <3>1. page = 1 => Offset(page) = 0
      BY NextOffset
    <3> QED
      BY <1>3, <2>2, <2>3, <3>1
  <2> QED
    BY <1>1, <1>7, <1>8, <2>1, <2>2, <2>4 DEF LastPageInv
<1>10. WalkInv'
  <2> SUFFICES ASSUME Walking' PROVE WalkInv'
    BY DEF WalkInv
  <2>1. Walking /\ "failed" \notin spoiled' /\ "crossed" \notin spoiled
    BY <1>2 DEF Walking
  <2>2. i = 1 /\ loads' = <<>> /\ loads # <<>>
    <3>1. loads # <<>>
      BY <1>3, EmptySeq, LenProperties
    <3> QED
      BY <1>7, <2>1, <3>1
  <2>3. /\ loads[1].step = "fetched" /\ total' = loads[1].total
        /\ seen' = seen \cup DOMAIN loads[1].rows
    BY <1>1, <2>1, <2>2
  <2>4. ASSUME NEW o \in Unseen' PROVE Depth(o)' >= Offset(page + 1)
    <3>1. o \in Unseen /\ o \notin DOMAIN loads[1].rows
      BY <2>3, <2>4 DEF Unseen
    <3>2. Depth(o) >= Offset(page + 1)
      BY <2>1, <2>3, <3>1 DEF WalkInv, IsComing
    <3> QED
      BY <1>2, <2>4, <3>2
  <2>5. Unseen' = {} \/ total' > Offset(page + 1)
    BY <2>1, <2>2, <2>3 DEF WalkInv, Unseen
  <2> QED
    BY <1>8, <2>2, <2>4, <2>5 DEF WalkInv
<1>11. TokensInv'
  BY <1>1, <1>4 DEF TokensInv, Paged
<1> QED
  BY <1>6, <1>9, <1>10, <1>11

\* A load is asked for: of the next page or the one before, or again.
LEMMA AskStep ==
    ASSUME ListInv, ListInv', PagingInv, BookGrows, Paged, NEW p \in Int, LoadOrders(p),
           UNCHANGED <<store, book, rows, total, seen>>, spoiled \subseteq spoiled',
           Crossing \subseteq spoiled',
           page' = page \/ (page' = p /\ Turnable(p))
    PROVE  PagingInv'
<1> USE DEF PagingInv
<1>1. /\ (Paged' <=> Paged) /\ (Walking' => Walking) /\ Len(book) \in Nat /\ Order' = Order
      /\ Unseen' = Unseen
      /\ \A o \in Unseen' : Depth(o) \in Nat /\ Depth(o)' = Depth(o)
  BY StepFacts DEF Order, Depth, Ahead, ListedBefore, Paged, Unseen
<1>2. /\ loads \in Seq(ListCall) /\ page \in Int /\ Offset(page) \in Int /\ Offset(page + 1) \in Int
      /\ Offset(page + 1) = Offset(page) + PageSize /\ PageSize \in Nat
  BY PageFacts
<1>3. /\ Call(p) \in ListCall /\ Call(p).step = "asked" /\ Call(p).page = p
      /\ Call(p).rows = NoRows /\ Call(p).total = 0 /\ DOMAIN NoRows = {}
  BY CallTyped DEF Call, NoRows
<1> DEFINE c == Call(p)
<1> HIDE DEF c
<1>4. loads' = Append(loads, c) /\ loading' = TRUE /\ c \in ListCall
      /\ c.step = "asked" /\ c.page = p /\ c.total = 0 /\ DOMAIN c.rows = {}
  BY <1>3 DEF LoadOrders, c
<1>5. /\ loads' # <<>>
      /\ \A k \in DOMAIN loads' : loads'[k] = c \/ \E m \in DOMAIN loads : loads'[k] = loads[m]
  BY <1>2, <1>4, AddedTo
<1>6. BoundsInv'
  <2>1. ASSUME NEW k \in DOMAIN loads'
        PROVE  DOMAIN loads'[k].rows \subseteq Order /\ loads'[k].total <= Len(book)
    BY <1>1, <1>4, <1>5 DEF BoundsInv
  <2> QED
    BY <1>1, <1>5, <2>1 DEF BoundsInv
<1>7. ASSUME "crossed" \notin spoiled' PROVE loads' = <<c>> /\ loads = <<>> /\ "crossed" \notin spoiled
  <2>1. loads = <<>> /\ "crossed" \notin spoiled
    BY <1>7 DEF Crossing
  <2>2. Append(<<>>, c) = <<c>>
    OBVIOUS
  <2> QED
    BY <1>4, <2>1, <2>2
<1>8. loads' = <<c>> => loads'[1] = c /\ DOMAIN loads' = 1..1
  OBVIOUS
<1>9. total \in Nat
  BY <1>1 DEF BoundsInv
<1>10. LastPageInv'
  <2> SUFFICES ASSUME "crossed" \notin spoiled' PROVE LastPageInv'
    BY DEF LastPageInv
  <2>1. page >= 1 /\ IF total = 0 THEN page = 1 ELSE Offset(page) < total
    BY <1>7 DEF LastPageInv
  <2>2. page' >= 1 /\ IF total = 0 THEN page' = 1 ELSE Offset(page)' < total
    <3>1. CASE page' = page
      BY <2>1, <3>1 DEF Offset
    <3>2. CASE page' = page - 1 /\ page > 1
      <4>1. Offset(page - 1) \in Int /\ Offset(page) = Offset(page - 1) + PageSize
        BY <1>2, NextOffset
      <4>2. Offset(page)' = Offset(page - 1)
        BY <3>2 DEF Offset
      <4> QED
        BY <1>2, <1>9, <2>1, <3>2, <4>1, <4>2
    <3>3. CASE page' = page + 1 /\ page < TotalPages
      <4>1. Offset(page)' = Offset(page + 1)
        BY <3>3 DEF Offset
      <4>2. Offset(page + 1) < total
        BY <1>2, <1>9, <3>3, LastPage
      <4>3. Offset(page + 1) >= 0
        <5>1. Offset(page) >= 0
          BY <1>2, <2>1, ListingAssumption DEF Offset
        <5> QED
          BY <1>2, <5>1
      <4> QED
        BY <1>2, <1>9, <2>1, <3>3, <4>1, <4>2, <4>3
    <3> QED
      BY <3>1, <3>2, <3>3 DEF Turnable
  <2> QED
    BY <1>4, <1>7, <1>8, <2>2 DEF LastPageInv
<1>11. WalkInv'
  <2> SUFFICES ASSUME Walking' PROVE WalkInv'
    BY DEF WalkInv
  <2>1. Walking /\ loads = <<>> /\ loads' = <<c>>
    BY <1>1, <1>7 DEF Walking
  <2>2. ASSUME NEW o \in Unseen
        PROVE  Depth(o)' >= Offset(page + 1)' \/ IsComing(o, c)'
    <3>1. Depth(o) \in Nat /\ Depth(o)' = Depth(o) /\ Depth(o) >= Offset(page + 1)
      BY <1>1, <2>1 DEF WalkInv
    <3>2. CASE page' = page
      BY <3>1, <3>2 DEF Offset
    <3>3. CASE page' = p /\ p = page - 1
      <4>1. Offset(page + 1)' = Offset(page)
        BY <1>2, <3>3 DEF Offset
      <4> QED
        BY <1>2, <3>1, <4>1
    <3>4. CASE page' = p /\ p = page + 1
      <4>1. Offset(page)' = Offset(page + 1)
        BY <3>4 DEF Offset
      <4> QED
        BY <1>4, <3>1, <3>4, <4>1 DEF IsComing, c
    <3> QED
      BY <3>2, <3>3, <3>4 DEF Turnable
  <2> QED
    BY <1>1, <1>4, <1>5, <1>8, <2>1, <2>2 DEF WalkInv
<1>12. TokensInv'
  BY <1>1 DEF TokensInv, Paged
<1> QED
  BY <1>6, <1>10, <1>11, <1>12

\* A page of the monolith's list is read and its token followed.
LEMMA FollowStep ==
    ASSUME ListInv, ListInv', PagingInv, BookGrows, FollowToken
    PROVE  PagingInv'
<1> USE DEF PagingInv
<1>1. /\ store = "monolith" /\ total' = Len(book) /\ page' = NextToken(page)
      /\ UNCHANGED <<store, book, loading, loads, spoiled>>
  BY DEF FollowToken
<1>2. PICK slice \in Slices(page) : rows' = StatusesOf(slice) /\ seen' = seen \cup slice
  BY DEF FollowToken
<1>3. /\ Len(book) \in Nat /\ Order' = Order /\ Unseen' \subseteq Unseen
      /\ \A o \in Unseen' : o \in Order /\ Depth(o) \in Nat /\ Depth(o)' = Depth(o)
  BY <1>1, <1>2, StepFacts DEF Order, Depth, Ahead, ListedBefore
<1>4. BoundsInv'
  <2>1. slice \subseteq Order /\ DOMAIN rows' = slice
    BY <1>2 DEF Slices, StatusesOf
  <2> QED
    BY <1>1, <1>3, <2>1 DEF BoundsInv, Paged
<1>5. LastPageInv' /\ WalkInv'
  BY <1>1 DEF LastPageInv, WalkInv, Walking, Paged
<1>6. page \in Nat /\ \A o \in Unseen : Depth(o) >= page
  BY <1>1 DEF TokensInv
<1>7. ListTypes /\ Ordered /\ PageSize \in Nat \ {0}
  BY <1>1, ListingAssumption DEF ListInv, Ordered
<1>8. ASSUME NEW o \in Unseen' PROVE Depth(o)' >= page + PageSize /\ Depth(o)' < Len(book)
  <2>1. /\ o \in Order /\ o \notin slice /\ Depth(o) \in Nat /\ Depth(o)' = Depth(o)
        /\ Depth(o) >= page
    BY <1>2, <1>3, <1>6, <1>8 DEF Unseen
  <2>2. Depth(o) >= page + PageSize
    BY <1>6, <1>7, <2>1, MissedByPage
  <2>3. Depth(o) < Len(book)
    BY <1>7, <2>1, DepthTyped
  <2> QED
    BY <2>1, <2>2, <2>3
<1>9. CASE page + PageSize < Len(book)
  <2>1. page' = page + PageSize
    BY <1>1, <1>9 DEF NextToken
  <2> QED
    BY <1>4, <1>5, <1>6, <1>7, <1>8, <2>1 DEF TokensInv
<1>10. CASE ~(page + PageSize < Len(book))
  <2>1. page' = 0
    BY <1>1, <1>10 DEF NextToken
  <2>2. Unseen' = {}
    <3> SUFFICES ASSUME NEW o \in Unseen' PROVE FALSE
      OBVIOUS
    <3> QED
      BY <1>3, <1>6, <1>7, <1>8, <1>10
  <2> QED
    BY <1>4, <1>5, <2>1, <2>2 DEF TokensInv
<1> QED
  BY <1>9, <1>10

LEMMA NextPagingInv == ListInv /\ PagingInv /\ [ClientsNext]_clientVars => PagingInv'
<1> SUFFICES ASSUME ListInv, PagingInv, [ClientsNext]_clientVars PROVE PagingInv'
  OBVIOUS
<1>1. ListInv' /\ BookGrows
  BY NextListInv, NextBookGrows
<1>2. ASSUME UNCHANGED listVars \/ (\E at \in Times : Insert(at)) \/ (\E o \in Order : Cancel(o))
             \/ (\E j \in DOMAIN cancels : CancelOrder(j) \/ CancelFails(j))
      PROVE  PagingInv'
  <2>1. UNCHANGED <<page, rows, total, loading, loads, seen, spoiled>>
    BY <1>2 DEF listVars, Insert, Cancel, CancelOrder, CancelFails
  <2> QED
    BY <1>1, <2>1, StoreMoves
<1>3. ASSUME NEW i \in DOMAIN loads, store # "none", CountOrders(i) \/ FetchPage(i) PROVE PagingInv'
  BY <1>1, <1>3, QueriesStep
<1>4. ASSUME NEW i \in DOMAIN loads, store # "none", Loaded(i) \/ LoadFails(i) PROVE PagingInv'
  BY <1>1, <1>4, LoadEnds
<1>5. ASSUME store \notin {"none", "monolith"}, NEW p \in {page - 1, page + 1}, TurnTo(p)
      PROVE  PagingInv'
  <2>1. /\ p \in Int /\ Paged
    BY <1>5 DEF ListInv, ListTypes, PagingInv, BoundsInv
  <2>2. /\ LoadOrders(p) /\ Turnable(p) /\ page' = p /\ spoiled' = spoiled \cup Crossing
        /\ UNCHANGED <<store, book, rows, total, seen>>
    BY <1>5 DEF TurnTo
  <2> QED
    BY <1>1, <2>1, <2>2, AskStep
<1>6. ASSUME store # "none", NEW j \in DOMAIN cancels, Cancelled(j) PROVE PagingInv'
  <2>1. store # "monolith"
    BY DEF ListInv, CancelInv
  <2>2. Paged
    BY <1>6, <2>1 DEF PagingInv, BoundsInv
  <2>3. cancels[j].page \in Int
    <3>1. cancels[j] \in Cancellation
      BY ElementOfSeq, LenProperties DEF ListInv, ListTypes
    <3> QED
      BY <3>1 DEF Cancellation
  <2>4. /\ LoadOrders(cancels[j].page) /\ page' = page /\ Crossing \subseteq spoiled'
        /\ spoiled \subseteq spoiled' /\ UNCHANGED <<store, book, rows, total, seen>>
    BY <1>6 DEF Cancelled
  <2> QED
    BY <1>1, <2>2, <2>3, <2>4, AskStep
<1>7. ASSUME FollowToken PROVE PagingInv'
  BY <1>1, <1>7, FollowStep
<1> QED
  BY <1>2, <1>3, <1>4, <1>5, <1>6, <1>7 DEF ClientsNext, ListAnswers, clientVars

LEMMA PagingInvariance == ClientsSpec => [](ListInv /\ PagingInv)
<1>1. ClientsInit => ListInv /\ PagingInv
  BY InitListInv, InitPagingInv
<1>2. (ListInv /\ PagingInv) /\ [ClientsNext]_clientVars => (ListInv /\ PagingInv)'
  BY NextListInv, NextPagingInv
<1> QED
  BY <1>1, <1>2, PTL DEF ClientsSpec

\* Whoever turns the pages to the last one has seen every order there was when the
\* list was opened, whatever others create meanwhile and however many there are,
\* unless a load failed or loads overlapped or, over SQL, an order came between
\* COUNT and the page or two orders have the same time.
THEOREM WalksSeeEverything == ClientsSpec => []WalkSeesAll
<1>1. ListInv /\ PagingInv => WalkSeesAll
  <2> SUFFICES ASSUME ListInv, PagingInv,
                      store # "monolith", Quiet, total > 0, page = TotalPages,
                      spoiled \cap {"torn", "failed", "crossed"} = {}, store = "mssql" => Distinct
               PROVE  1..Old \subseteq seen
    BY DEF WalkSeesAll
  <2>1. Walking /\ loads = <<>>
    BY DEF PagingInv, BoundsInv, Walking, Ordered, Quiet
  <2>2. Unseen = {} \/ total > Offset(page + 1)
    BY <2>1 DEF PagingInv, WalkInv
  <2>3. total \in Nat /\ page \in Int /\ Offset(page + 1) \in Int
    <3>1. Len(book) \in Nat
      BY BookTyped DEF ListInv
    <3> QED
      BY <3>1, PageFacts DEF PagingInv, BoundsInv
  <2>4. ~(Offset(page + 1) < total)
    BY <2>3, LastPage
  <2> QED
    BY <2>2, <2>3, <2>4 DEF Unseen
<1> QED
  BY <1>1, PagingInvariance, PTL

\* Whoever follows the monolith's tokens to the end has seen every order there was,
\* without exceptions: a token is an offset, and orders only move back.
THEOREM TokensSeeEverything == ClientsSpec => []TokensSeeAll
<1>1. PagingInv => TokensSeeAll
  BY DEF PagingInv, TokensInv, TokensSeeAll, Unseen
<1> QED
  BY <1>1, PagingInvariance, PTL
-----------------------------------------------------------------------------

\* The types of what the pages keep.

\* A result is kept for its own tab, the spinner turns for a request in flight, and
\* the form's timers are for orders it made.
KeptInv ==
    /\ \A t \in Tabs : shown[t] = None \/ shown[t].tab = t
    /\ waiting => asked # <<>>
    /\ made \in Nat /\ timers \cup visited \subseteq 1..made

LEMMA NextKeptInv == ViewsInv /\ KeptInv /\ [ClientsNext]_clientVars => KeptInv'
<1> SUFFICES ASSUME ViewsInv, KeptInv, [ClientsNext]_clientVars PROVE KeptInv'
  OBVIOUS
<1>1. shown \in [Tabs -> Conversion \cup {None}] /\ asked \in Seq(Conversion) /\ ViewTypes
  BY DEF ViewsInv, ViewTypes
<1>2. ASSUME UNCHANGED <<shown, waiting, asked, made, timers, visited>> PROVE KeptInv'
  BY <1>2 DEF KeptInv
<1>3. ASSUME NEW t \in Tabs, shown' = shown \/ shown' = [shown EXCEPT ![t] = None],
             UNCHANGED <<waiting, asked>> \/ \E r : Ask(r),
             UNCHANGED <<made, timers, visited>>
      PROVE  KeptInv'
  <2>1. \A u \in Tabs : shown'[u] = None \/ shown'[u].tab = u
    BY <1>1, <1>3 DEF KeptInv
  <2>2. ASSUME NEW r, Ask(r) PROVE asked' # <<>>
    <3>1. asked' = Append(asked, r)
      BY <2>2 DEF Ask
    <3>2. Append(asked, r) # <<>>
      BY <1>1, AppendProperties
    <3> QED
      BY <3>1, <3>2
  <2> QED
    BY <1>3, <2>1, <2>2 DEF KeptInv
<1>4. ASSUME \/ \E a \in Amounts : EditForm(a) \/ LoadReceipt(a)
             \/ \E g \in Currencies : SelectCurrency(g) \/ SelectTarget(g)
             \/ AskConverter
      PROVE  KeptInv'
  <2>1. /\ "convert" \in Tabs /\ tab \in Tabs
        /\ UNCHANGED <<made, timers, visited>>
        /\ \/ shown' = shown \/ shown' = [shown EXCEPT !["convert"] = None]
           \/ shown' = [shown EXCEPT ![tab] = None]
        /\ UNCHANGED <<waiting, asked>> \/ \E r : Ask(r)
    BY <1>1, <1>4 DEF EditForm, LoadReceipt, SelectCurrency, SelectTarget, AskConverter,
       GetExchangeRate, orderVars, results, ViewTypes, Tabs
  <2> QED
    BY <1>3, <2>1
<1>5. ASSUME NEW i \in DOMAIN asked, Answer(i) \/ AnswerFails(i) PROVE KeptInv'
  <2>1. asked[i] \in Conversion /\ asked[i].tab \in Tabs /\ "convert" \in Tabs
    <3>1. asked[i] \in Conversion
      BY <1>1, ElementOfSeq, LenProperties
    <3> QED
      BY <3>1 DEF Conversion, Tabs
  <2>2. /\ waiting' = FALSE /\ UNCHANGED <<made, timers, visited>>
        /\ \/ shown' = shown \/ shown' = [shown EXCEPT !["convert"] = None]
           \/ shown' = [shown EXCEPT ![asked[i].tab] = asked[i]]
    BY <1>5 DEF Answer, AnswerFails, Answered, orderVars
  <2>3. \A u \in Tabs : shown'[u] = None \/ shown'[u].tab = u
    BY <1>1, <2>1, <2>2 DEF KeptInv
  <2> QED
    BY <2>2, <2>3 DEF KeptInv
<1>6. ASSUME Submitted \/ \E o \in timers : OpenOrder(o) PROVE KeptInv'
  <2>1. UNCHANGED <<shown, waiting, asked>>
    BY <1>6 DEF Submitted, OpenOrder, results
  <2>2. made' \in Nat /\ timers' \cup visited' \subseteq 1..made'
    BY <1>6 DEF Submitted, OpenOrder, KeptInv
  <2> QED
    BY <2>1, <2>2 DEF KeptInv
<1>7. ASSUME \/ \E a \in Amounts : TypeAmount(a)
             \/ \E f, g \in Currencies : SelectPair(f, g)
             \/ \E t \in Tabs : OpenTab(t)
             \/ Submit \/ SubmitFails \/ LeaveForm \/ ReceiptFails \/ UNCHANGED fxViewVars
      PROVE  KeptInv'
  <2>1. UNCHANGED <<shown, waiting, asked, made, timers, visited>>
    BY <1>7 DEF TypeAmount, SelectPair, OpenTab, Submit, SubmitFails, LeaveForm, ReceiptFails,
       results, orderVars, fxViewVars
  <2> QED
    BY <1>2, <2>1
<1> QED
  BY <1>4, <1>5, <1>6, <1>7 DEF ClientsNext, FxAnswers, clientVars

\* What the pages keep has its types, whatever is clicked and however answers come.
THEOREM ClientsWellTyped == ClientsSpec => []ClientsTypeOK
<1>1. ClientsInit => KeptInv
  <2>1. \A t \in Tabs : NoResults[t] = None
    BY DEF NoResults
  <2>2. ClientsInit => shown = NoResults /\ made = 0 /\ timers = {} /\ visited = {}
                      /\ (waiting => asked # <<>>)
    BY DEF ClientsInit, FxIdle, FxViewsInit
  <2> QED
    BY <2>1, <2>2 DEF KeptInv
<1>2. ClientsSpec => []KeptInv
  BY <1>1, NextKeptInv, ViewsInvariance, PTL DEF ClientsSpec
<1>3. ListInv /\ PagingInv => ListTypeOK
  <2> SUFFICES ASSUME ListInv, PagingInv PROVE ListTypeOK
    OBVIOUS
  <2>1. Len(book) \in Nat
    BY BookTyped DEF ListInv
  <2>2. DOMAIN rows \subseteq Order /\ total \in Nat /\ total <= Len(book) /\ (loading => loads # <<>>)
    BY <2>1 DEF PagingInv, BoundsInv
  <2>3. ASSUME store # "monolith", total > 0, "crossed" \notin spoiled PROVE page \in 1..TotalPages
    <3>1. page >= 1 /\ Offset(page) < total
      BY <2>2, <2>3 DEF PagingInv, BoundsInv, LastPageInv
    <3>2. page \in Int /\ page - 1 \in Int /\ page - 1 + 1 = page
      BY PageFacts
    <3>3. TotalPages \in Int /\ page - 1 < TotalPages
      <4>1. TotalPages \in Int /\ (page - 1 < TotalPages <=> Offset(page - 1 + 1) < total)
        BY <2>2, <3>2, LastPage
      <4> QED
        BY <3>1, <3>2, <4>1
    <3> QED
      BY <3>1, <3>2, <3>3
  <2> QED
    BY <2>2, <2>3 DEF ListTypeOK
<1>4. ViewsInv /\ KeptInv => (view # "none" => FxViewsTypeOK)
  <2> SUFFICES ASSUME ViewsInv, KeptInv PROVE FxViewsTypeOK
    OBVIOUS
  <2>1. view = "convert" => Len(asked) = (IF waiting THEN 1 ELSE 0)
    BY DEF ViewsInv, ConverterInv
  <2> QED
    BY <2>1 DEF ViewsInv, ViewTypes, KeptInv, FxViewsTypeOK
<1>5. OrderPageInv => (orderId # NoOrder => PageTypeOK)
  BY DEF OrderPageInv, OpenInv
<1>6. ListInv /\ PagingInv /\ ViewsInv /\ KeptInv /\ OrderPageInv => ClientsTypeOK
  BY <1>3, <1>4, <1>5 DEF ClientsTypeOK
<1> QED
  BY <1>2, <1>6, PagingInvariance, ViewsInvariance, OrderPageInvariance, PTL
=============================================================================
