----------------------------- MODULE OrderListing -----------------------------
(***************************************************************************)
(* The list of orders: the page of the web frontend that shows it          *)
(* (OrderList.tsx), the list call of the gateway and of the orders service *)
(* over either of its repositories, and the list call of the monolith,     *)
(* which pages with tokens.                                                *)
(*                                                                         *)
(* Over SQL a list call is two queries, COUNT and the page, and orders are *)
(* created and cancelled by others before, between and after them.  The    *)
(* page shown, its rows and the number of pages belong to different calls, *)
(* so they can disagree; spoiled records what happened that lets them.     *)
(***************************************************************************)
EXTENDS Integers, Sequences, FiniteSets, SequencesExt

CONSTANTS
    PageSize,   \* orders on a page
    Old,        \* orders that exist when the list is opened
    New,        \* orders that others may create meanwhile
    MaxMoves    \* bound on what the user does

ASSUME ListingAssumption ==
    PageSize \in Nat \ {0} /\ Old \in Nat /\ New \in Nat /\ MaxMoves \in Nat

VARIABLES
    store,    \* where the orders are: "mssql", "memory" or "monolith"
    book,     \* the orders in the order they were stored
    page,     \* the page the user is on; the token, when paging by tokens
    rows,     \* rows[o]: the status shown for order o
    of,       \* the page that was asked for when rows were asked for
    total,    \* the number of orders that came with rows
    loading,  \* the spinner hides rows and buttons
    error,    \* the last load failed
    loads,    \* list calls in flight
    cancels,  \* cancellations in flight
    seen,     \* orders shown so far
    mine,     \* orders the user was told to have cancelled
    spoiled,  \* what went wrong so far
    moves     \* what the user did so far

listVars == <<store, book, page, rows, of, total, loading, error, loads, cancels,
              seen, mine, spoiled, moves>>

Order == 1..Len(book)
NoRows == [o \in {} |-> "ACTIVE"]

(***************************************************************************)
(* The stores                                                              *)
(***************************************************************************)
\* Whether a may be listed before b.  SQL leaves the order of orders created at
\* the same time open; sort() keeps the order they were stored in.
ListedBefore(a, b) ==
    \/ book[a].at > book[b].at
    \/ book[a].at = book[b].at /\ (store = "mssql" \/ a < b)

\* The sets of orders that may be those after the first offset ones.
Slices(offset) ==
    {slice \in SUBSET Order : \E skipped \in SUBSET (Order \ slice) :
        LET rest == Order \ (skipped \cup slice)
        IN  /\ Cardinality(skipped) <= offset /\ Cardinality(slice) <= PageSize
            /\ slice # {} => Cardinality(skipped) = offset
            /\ rest # {} => Cardinality(skipped) = offset /\ Cardinality(slice) = PageSize
            /\ \A a \in skipped, b \in slice \cup rest : ListedBefore(a, b)
            /\ \A a \in slice, b \in rest : ListedBefore(a, b)}

StatusesOf(slice) == [o \in slice |-> book[o].status]

\* Another client's order is stored.  Its time was taken earlier: over SQL,
\* where storing takes a while, later times may have been stored before.
Insert(at) ==
    /\ Len(book) < Old + New
    /\ store # "mssql" => \A o \in Order : book[o].at <= at
    /\ book' = Append(book, [at |-> at, status |-> "ACTIVE"])
    /\ UNCHANGED <<store, page, rows, of, total, loading, error, loads, cancels,
                   seen, mine, spoiled, moves>>

(***************************************************************************)
(* The list call                                                           *)
(***************************************************************************)
Call(p) == [page |-> p, step |-> "asked", total |-> 0, rows |-> NoRows]

CountOrders(i) ==
    /\ store = "mssql" /\ loads[i].step = "asked"
    /\ loads' = [loads EXCEPT ![i].step = "counted", ![i].total = Len(book)]
    /\ UNCHANGED <<store, book, page, rows, of, total, loading, error, cancels,
                   seen, mine, spoiled, moves>>

\* Mutant: pages are counted from one.
OffsetFromOne(p) == p * PageSize

Offset(p) == (p - 1) * PageSize

\* The second query over SQL; the whole call in memory.
FetchPage(i) ==
    /\ loads[i].step = (IF store = "mssql" THEN "counted" ELSE "asked")
    /\ \E slice \in Slices(Offset(loads[i].page)) :
        loads' = [loads EXCEPT ![i].step = "fetched", ![i].rows = StatusesOf(slice),
                               ![i].total = IF store = "mssql" THEN @ ELSE Len(book)]
    /\ spoiled' = spoiled \cup
          (IF store = "mssql" /\ loads[i].total # Len(book) THEN {"torn"} ELSE {})
    /\ UNCHANGED <<store, book, page, rows, of, total, loading, error, cancels, seen, mine, moves>>

(***************************************************************************)
(* The page of the frontend                                                *)
(***************************************************************************)
TotalPages == (total + PageSize - 1) \div PageSize

\* Mutant: loadOrders keeps the page of the first render.
LoadFirstPage(p) ==
    /\ loading' = TRUE /\ error' = FALSE
    /\ loads' = Append(loads, Call(1))

\* loadOrders.
LoadOrders(p) ==
    /\ loading' = TRUE /\ error' = FALSE
    /\ loads' = Append(loads, Call(p))

Crossing == IF loads = <<>> THEN {} ELSE {"crossed"}

\* Mutant: Siguiente stays enabled on the last page.
TurnableForEver(p) == (p = page - 1 /\ page > 1) \/ p = page + 1

Turnable(p) == (p = page - 1 /\ page > 1) \/ (p = page + 1 /\ page < TotalPages)

\* Anterior or Siguiente; the effect on page loads the new page.
TurnTo(p) ==
    /\ moves < MaxMoves /\ moves' = moves + 1
    /\ ~loading /\ rows # NoRows /\ TotalPages > 1
    /\ Turnable(p)
    /\ page' = p
    /\ LoadOrders(p)
    /\ spoiled' = spoiled \cup Crossing
    /\ UNCHANGED <<store, book, rows, of, total, cancels, seen, mine>>

Loaded(i) ==
    /\ loads[i].step = "fetched"
    /\ rows' = loads[i].rows /\ total' = loads[i].total /\ of' = loads[i].page
    /\ seen' = seen \cup DOMAIN loads[i].rows
    /\ loading' = FALSE
    /\ loads' = RemoveAt(loads, i)
    /\ UNCHANGED <<store, book, page, error, cancels, mine, spoiled, moves>>

\* The rows of the last load stay.
LoadFails(i) ==
    /\ error' = TRUE /\ loading' = FALSE
    /\ loads' = RemoveAt(loads, i)
    /\ spoiled' = spoiled \cup {"failed"}
    /\ UNCHANGED <<store, book, page, rows, of, total, cancels, seen, mine, moves>>

Cancel(o) ==
    /\ moves < MaxMoves /\ moves' = moves + 1
    /\ ~loading /\ o \in DOMAIN rows /\ rows[o] = "ACTIVE"
    /\ cancels' = Append(cancels, [order |-> o, page |-> page, step |-> "asked"])
    /\ UNCHANGED <<store, book, page, rows, of, total, loading, error, loads, seen, mine, spoiled>>

\* The orders service cancels the order, or refuses.
CancelOrder(j) ==
    /\ cancels[j].step = "asked"
    /\ IF book[cancels[j].order].status = "ACTIVE"
       THEN /\ book' = [book EXCEPT ![cancels[j].order].status = "CANCELLED"]
            /\ cancels' = [cancels EXCEPT ![j].step = "done"]
       ELSE cancels' = RemoveAt(cancels, j) /\ UNCHANGED book
    /\ UNCHANGED <<store, page, rows, of, total, loading, error, loads, seen, mine, spoiled, moves>>

\* Mutant: the list is not loaded again.
CancelledOnly(j) ==
    /\ cancels[j].step = "done"
    /\ mine' = mine \cup {cancels[j].order}
    /\ cancels' = RemoveAt(cancels, j)
    /\ UNCHANGED <<store, book, page, rows, of, total, loading, error, loads, seen, spoiled, moves>>

\* The answer to a cancellation loads the list again: the page that was shown
\* when the button was clicked, which the user may have left since.
Cancelled(j) ==
    /\ cancels[j].step = "done"
    /\ mine' = mine \cup {cancels[j].order}
    /\ LoadOrders(cancels[j].page)
    /\ cancels' = RemoveAt(cancels, j)
    /\ spoiled' = spoiled \cup Crossing
                          \cup (IF cancels[j].page # page THEN {"stale"} ELSE {})
    /\ UNCHANGED <<store, book, page, rows, of, total, seen, moves>>

\* The call fails on its way there or back; an alert says so.
CancelFails(j) ==
    /\ cancels' = RemoveAt(cancels, j)
    /\ UNCHANGED <<store, book, page, rows, of, total, loading, error, loads,
                   seen, mine, spoiled, moves>>

(***************************************************************************)
(* The monolith's list, paged by tokens.  A token is the offset of a page. *)
(* Orders come as above; the frontend does not talk to the monolith.       *)
(***************************************************************************)
\* Mutant: the token skips an order.
NextTokenSkipping(offset) ==
    IF offset + PageSize < Len(book) THEN offset + PageSize + 1 ELSE 0

NextToken(offset) == IF offset + PageSize < Len(book) THEN offset + PageSize ELSE 0

\* The client asks for the page of its token, until there is none.
FollowToken ==
    /\ store = "monolith" /\ (page > 0 \/ seen = {})
    /\ \E slice \in Slices(page) :
        /\ rows' = StatusesOf(slice)
        /\ seen' = seen \cup slice
    /\ total' = Len(book)
    /\ page' = NextToken(page)
    /\ UNCHANGED <<store, book, of, loading, error, loads, cancels, mine, spoiled, moves>>

(***************************************************************************)
(* Correctness                                                             *)
(***************************************************************************)
ListInit ==
    /\ store \in {"mssql", "memory", "monolith"}
    /\ book = [o \in 1..Old |-> [at |-> o, status |-> "ACTIVE"]]
    /\ page = (IF store = "monolith" THEN 0 ELSE 1)
    /\ rows = NoRows /\ of = 0 /\ total = 0 /\ error = FALSE
    /\ loading = (store # "monolith")
    /\ loads = (IF store = "monolith" THEN <<>> ELSE <<Call(1)>>)
    /\ cancels = <<>>
    /\ seen = {} /\ mine = {} /\ spoiled = {} /\ moves = 0

\* Nobody turns to a page that does not exist, the spinner is shown only while a
\* load is in flight, and what is shown are orders of the store.
ListTypeOK ==
    /\ DOMAIN rows \subseteq Order /\ total <= Len(book)
    /\ loading => loads # <<>>
    /\ store # "monolith" /\ total > 0 /\ "crossed" \notin spoiled => page \in 1..TotalPages

Quiet == loads = <<>> /\ ~error

\* The rows belong to the page named below them (OrderList.tsx:131), unless loads
\* ever overlapped, so that an older one may have been answered last, or a
\* cancellation reloaded the page it was made on when another was open.
RowsMatchPage ==
    store # "monolith" /\ Quiet /\ spoiled \cap {"crossed", "stale"} = {} => of = page

Distinct == \A a, b \in Order : book[a].at = book[b].at => a = b

\* Who turns the pages to the last one has seen every order there was, whatever
\* others create meanwhile, unless a load failed or loads overlapped, or, over SQL,
\* an order came between COUNT and the page or the times of two orders are equal.
WalkSeesAll ==
    store # "monolith" /\ Quiet /\ total > 0 /\ page = TotalPages
    /\ spoiled \cap {"torn", "failed", "crossed"} = {} /\ (store = "mssql" => Distinct)
        => 1..Old \subseteq seen

\* Who follows the monolith's tokens to the end has seen every order there was,
\* without exceptions.
TokensSeeAll ==
    store = "monolith" /\ page = 0 /\ seen # {} => 1..Old \subseteq seen

\* An order that the user was told is cancelled is not shown as active once the
\* list is loaded again, unless loads overlapped.
CancelIsShown ==
    Quiet /\ "crossed" \notin spoiled =>
        \A o \in mine \cap DOMAIN rows : rows[o] = "CANCELLED"
=============================================================================
