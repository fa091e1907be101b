------------------------------- MODULE Paging -------------------------------
(***************************************************************************)
(* The event list of the web UI (shspectr-web): the first page, sorting by *)
(* a column header, and infinite scroll.                                   *)
(*                                                                         *)
(* A request counts the matching rows and then selects one page of them,   *)
(* two statements with a snapshot each, while the recorder goes on         *)
(* inserting rows and filling in exit codes.  The next page is found by    *)
(* OFFSET, so rows move between pages during a scroll; with an exit code   *)
(* in the filter they enter and leave the list as well.  The next page and *)
(* another column are asked for by links that carry the filter along.      *)
(*                                                                         *)
(* rows holds the Exec rows, by their rank in id order (rows of other      *)
(* types are never listed).  Columns are numbers, compared as SQLite       *)
(* compares them: NULL, NoExit here, comes first.  A query is a sequence   *)
(* of pieces of text, each plus sign a piece of its own; what it selects   *)
(* by, the command's name and the exit code stand for all columns: the one *)
(* never changes, the other does.                                          *)
(* The browser has one list request open at a time.                        *)
(***************************************************************************)
EXTENDS Integers, SequencesExt

CONSTANTS
    Comms,         \* values of the comm column, numbers
    ExitCodes,     \* exit codes, numbers above NoExit
    AskedPages,    \* page numbers a client asks for by hand
    AskedSizes,    \* page sizes a client asks for by hand
    DefaultSize,   \* ListRequest::default().page_size, 25 in the code
    MaxPageSize,   \* the cap of list_events, 100 in the code
    MaxShown,      \* MAX_ROWS of base.html, 500 in the code
    Queries,       \* texts of the filter box
    Tests,         \* Tests[q]: the comms and exit codes that q selects
    Wide,          \* 2^32, at which offset() wraps around
    MaxRows,       \* bound on the rows, for model checking
    MaxSeconds     \* bound on the clock, for model checking

NoExit == 0

\* What the server reads of the query that a link of page_url or sort_url
\* carries: urlencoded leaves a plus sign as it is, which reads as a blank.
Linked(query) == [n \in DOMAIN query |-> IF query[n] = "+" THEN " " ELSE query[n]]

ASSUME PagingAssumption ==
    /\ Comms \subseteq Nat /\ ExitCodes \subseteq Nat \ {NoExit}
    /\ AskedPages \subseteq Nat /\ AskedSizes \subseteq Nat
    /\ {DefaultSize, MaxPageSize, Wide} \subseteq Nat \ {0}
    /\ {MaxRows, MaxSeconds, MaxShown} \subseteq Nat
    /\ DefaultSize <= MaxShown /\ MaxPageSize <= MaxShown

ASSUME QueriesAssumption ==
    /\ << >> \in Queries /\ \A query \in Queries : Linked(query) \in Queries
    /\ Tests \in [Queries -> [comms : SUBSET Comms, exits : SUBSET (ExitCodes \cup {NoExit})]]

VARIABLES
    rows,    \* the Exec rows of the events table, in id order
    now,     \* the second that datetime('now') answers
    view,    \* what the browser shows, and what it was when it was loaded
    req      \* the list request the server is working on

vars == <<rows, now, view, req>>

-----------------------------------------------------------------------------
SortKeys == {"timestamp", "comm", "exit_code"}
Directions == {"asc", "desc"}
Toggle(dir) == IF dir = "asc" THEN "desc" ELSE "asc"

\* sentinel: the element below the list.  "armed": it loads the next page
\* when it scrolls into view; "fired": it has; "end": there is no next page;
\* "none": no list is shown.  The rest is history: the rows at the first page
\* of this scroll, whether the list has kept all it had (its filter, the rows
\* the filter selects, the rows shown), whether besides the table is still the
\* same, the page it began with, and the last COUNT.
Blank == [sentinel |-> "none", shown |-> << >>, page |-> 1, size |-> 1,
          query |-> << >>, sort |-> "timestamp", dir |-> "desc",
          base |-> << >>, kept |-> TRUE, still |-> TRUE, from |-> 1, total |-> 0]
Idle == [at |-> "idle", kind |-> "index", page |-> 1, size |-> 1,
         query |-> << >>, sort |-> "timestamp", dir |-> "desc", total |-> 0]

\* MUTANT of Offset: pages counted from 0.
OffsetFromZero(page, size) == (page * size) % Wide
\* ListRequest::offset; page is at least 1.
Offset(page, size) == ((page - 1) * size) % Wide

\* MUTANT of TotalPages: rounds down.
TotalPagesFloor(total, size) == IF total < size THEN 1 ELSE total \div size
TotalPages(total, size) ==
    IF total = 0 THEN 1 ELSE (total + size - 1) \div size

\* WHERE: the rows of a table that a query selects.
Matching(table, query) ==
    {i \in DOMAIN table : /\ table[i].comm \in Tests[query].comms
                          /\ table[i].exit \in Tests[query].exits}

Column(row, sort) ==
    CASE sort = "timestamp" -> row.at
      [] sort = "comm" -> row.comm
      [] sort = "exit_code" -> row.exit

\* ORDER BY column direction, id DESC: does a table's row i come before row j?
Before(table, i, j, sort, dir) ==
    LET a == Column(table[i], sort)  b == Column(table[j], sort) IN
    \/ IF dir = "asc" THEN a < b ELSE a > b
    \/ a = b /\ i > j

\* How many of the rows that query selects come before row i.
Rank(table, i, query, sort, dir) ==
    Cardinality({j \in Matching(table, query) : Before(table, j, i, sort, dir)})

\* The ids of one page: LIMIT size OFFSET offset.
PageOf(q) ==
    LET first == Offset(q.page, q.size)
        last == Min({first + q.size, Cardinality(Matching(rows, q.query))})
    IN  [n \in 1..last - first |->
            CHOOSE i \in Matching(rows, q.query) :
                Rank(rows, i, q.query, q.sort, q.dir) = first + n - 1]

\* The browser's observer removes what is beyond MAX_ROWS from the end.
Capped(list) == [n \in 1..Min({Len(list), MaxShown}) |-> list[n]]

-----------------------------------------------------------------------------
Init ==
    /\ rows = << >>
    /\ now = 0
    /\ view = Blank
    /\ req = Idle

Tick ==
    /\ now < MaxSeconds
    /\ now' = now + 1
    /\ UNCHANGED <<rows, view, req>>

\* The recorder inserts an Exec row.
InsertRow(comm) ==
    /\ Len(rows) < MaxRows
    /\ rows' = Append(rows, [at |-> now, comm |-> comm, exit |-> NoExit])
    /\ view' = [view EXCEPT !.still = FALSE]
    /\ UNCHANGED <<now, req>>

\* The recorder sets the exit code of an Exec row, whether it has one or not.
\* A filter on the exit code selects the row from then on, or no longer does.
Backfill(i, code) ==
    /\ rows' = [rows EXCEPT ![i].exit = code]
    /\ view' = [view EXCEPT !.still = FALSE,
                            !.kept = @ /\ Matching(rows, view.query)
                                            \subseteq Matching(rows', view.query)]
    /\ UNCHANGED <<now, req>>

-----------------------------------------------------------------------------
Ask(kind, page, size, query, sort, dir) ==
    /\ req.at = "idle"
    /\ req' = [at |-> "asked", kind |-> kind, page |-> page, size |-> size,
               query |-> query, sort |-> sort, dir |-> dir, total |-> 0]

\* The start page takes the default request, and the filter of its address.
Index(query) ==
    /\ Ask("index", 1, DefaultSize, query, "timestamp", "desc")
    /\ UNCHANGED <<rows, now, view>>

\* The filter box, or a client of the API that asks for any page of any size;
\* list_events clamps.
AskList(page, size, query, sort, dir) ==
    /\ Ask("list", Max({page, 1}), Max({1, Min({size, MaxPageSize})}), query, sort, dir)
    /\ UNCHANGED <<rows, now, view>>

\* A click on a column header follows sort_url: the active column toggles,
\* another one starts descending; the list starts over.
SortBy(key) ==
    /\ view.sentinel # "none"
    /\ Ask("list", 1, view.size, Linked(view.query), key,
           IF key = view.sort THEN Toggle(view.dir) ELSE "desc")
    /\ UNCHANGED <<rows, now, view>>

\* MUTANT of LoadMore: the sentinel names the page after the next one.
LoadMoreTwice ==
    /\ view.sentinel = "armed"
    /\ Ask("append", view.page + 2, view.size, Linked(view.query), view.sort, view.dir)
    /\ view' = [view EXCEPT !.sentinel = "fired"]
    /\ UNCHANGED <<rows, now>>

\* The sentinel scrolls into view: data-on-intersect__once, page_url(page + 1).
LoadMore ==
    /\ view.sentinel = "armed"
    /\ Ask("append", view.page + 1, view.size, Linked(view.query), view.sort, view.dir)
    /\ view' = [view EXCEPT !.sentinel = "fired"]
    /\ UNCHANGED <<rows, now>>

-----------------------------------------------------------------------------
\* SELECT COUNT(*).
Count ==
    /\ req.at = "asked"
    /\ req' = [req EXCEPT !.at = "counted",
                          !.total = Cardinality(Matching(rows, req.query))]
    /\ UNCHANGED <<rows, now, view>>

\* The SELECT of the page, and its answer: infinite_scroll_response appends
\* the rows and replaces the sentinel, the other answers replace the list.
Select ==
    /\ req.at = "counted"
    /\ LET append == req.kind = "append"
           sentinel == IF req.page < TotalPages(req.total, req.size) THEN "armed" ELSE "end"
           items == PageOf(req)
           list == IF append THEN view.shown \o items ELSE items
           keeps == append => req.query = view.query /\ Len(list) <= MaxShown
       IN view' = [sentinel |-> sentinel, page |-> req.page, size |-> req.size,
                   query |-> req.query, sort |-> req.sort, dir |-> req.dir,
                   total |-> req.total, shown |-> Capped(list),
                   base |-> IF append THEN view.base ELSE rows,
                   kept |-> keeps /\ (append => view.kept),
                   still |-> keeps /\ (append => view.still),
                   from |-> IF append THEN view.from ELSE req.page]
    /\ req' = Idle
    /\ UNCHANGED <<rows, now>>

\* No connection to be had, or a statement fails: 500.  The start page is an
\* error page then; a list stays as it is, and a sentinel that fired is spent.
Fail ==
    /\ req.at # "idle"
    /\ req' = Idle
    /\ view' = IF req.kind = "index" THEN Blank ELSE view
    /\ UNCHANGED <<rows, now>>

Next ==
    \/ Tick
    \/ \E comm \in Comms : InsertRow(comm)
    \/ \E i \in DOMAIN rows, code \in ExitCodes : Backfill(i, code)
    \/ \E query \in Queries :
         \/ Index(query)
         \/ \E page \in AskedPages, size \in AskedSizes, sort \in SortKeys, dir \in Directions :
              AskList(page, size, query, sort, dir)
    \/ \E key \in SortKeys : SortBy(key)
    \/ LoadMore
    \/ Count
    \/ Select
    \/ Fail

Spec == Init /\ [][Next]_vars
-----------------------------------------------------------------------------
Rows == [at : 0..MaxSeconds, comm : Comms, exit : ExitCodes \cup {NoExit}]

\* Type correctness: the columns, and a page number and size that never
\* leave the range list_events and the sentinel keep them in.
TypeOK ==
    /\ rows \in Seq(Rows) /\ view.base \in Seq(Rows)
    /\ now \in 0..MaxSeconds
    /\ \A q \in {view, req} :
         /\ q.page \in Nat \ {0} /\ q.size \in 1..Max({DefaultSize, MaxPageSize})
         /\ q.query \in Queries /\ q.sort \in SortKeys /\ q.dir \in Directions
         /\ q.total \in 0..Len(rows)
    /\ view.sentinel \in {"none", "armed", "fired", "end"}
    /\ view.still \in BOOLEAN /\ view.kept \in BOOLEAN
    /\ view.shown \in Seq(DOMAIN rows) /\ Len(view.shown) <= MaxShown
    /\ req.at \in {"idle", "asked", "counted"} /\ req.kind \in {"index", "list", "append"}

Shown == {view.shown[n] : n \in DOMAIN view.shown}
Listed(table) == Matching(table, view.query)
RankIn(table, i) == Rank(table, i, view.query, view.sort, view.dir)
Skipped == (view.from - 1) * view.size

\* As long as the table and the filter are what they were at the first page,
\* and the browser has room, scrolling shows each row of the pages loaded
\* once, in the order of the column, and nothing else.
ScrollIsExact ==
    view.sentinel # "none" /\ view.still =>
        /\ \A i \in DOMAIN rows :
             i \in Shown <=> /\ i \in Listed(rows)
                            /\ RankIn(rows, i) \in Skipped..(view.page * view.size - 1)
        /\ \A m, n \in DOMAIN view.shown :
             m < n => RankIn(rows, view.shown[m]) < RankIn(rows, view.shown[n])

\* A row that was listed at the first page is not jumped over while rows come
\* into the list, new ones and ones whose exit code the filter waited for:
\* once its rank is below what has been loaded, it has been shown.  The list
\* has to keep its rows: one that leaves it, because of the exit code it got,
\* moves the others up.  (So does backfilling when sorted by exit code.)
NothingJumped ==
    view.sentinel # "none" /\ view.sort # "exit_code" /\ view.kept =>
        \A i \in Listed(view.base) :
            /\ RankIn(view.base, i) >= Skipped
            /\ RankIn(rows, i) < view.page * view.size
            => i \in Shown

\* When the list says it has ended and no row came into it since the last
\* COUNT, every row that was listed at the first page has been shown.  (A row
\* that comes in between COUNT and SELECT can push the last row off the page.)
EndMeansAll ==
    /\ view.sentinel = "end" /\ view.from = 1
    /\ view.sort # "exit_code" /\ view.kept /\ view.total = Cardinality(Listed(rows))
    => Listed(view.base) \subseteq Shown
=============================================================================
