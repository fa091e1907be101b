------------------------------ MODULE LiveTail -------------------------------
(***************************************************************************)
(* The live view: live_events (shspectr-web, application/routes/api.rs)    *)
(* polls the database for rows above a high-water mark and pushes those    *)
(* the filter selects to a browser, which reconnects when the stream       *)
(* breaks and then says which event it saw last.                           *)
(*                                                                         *)
(* The recorder writes the table meanwhile: it appends rows, in the order  *)
(* of their ids, and the exit of a command sets the exit_code of its row   *)
(* later, so a row may start or cease to be selected (exit:1, !exit:0)     *)
(* after the stream has passed it.  The bytes in flight are a queue that   *)
(* is lost when the stream breaks.                                         *)
(***************************************************************************)
EXTENDS Naturals, Sequences, FiniteSets

CONSTANTS
    Limit,    \* rows one poll returns at most (100)
    MaxRows,  \* bound on the rows of the table, for model checking
    MaxBreaks \* bound on broken streams

ASSUME LimitAssumption == Limit \in Nat \ {0}
ASSUME BoundsAssumption == MaxRows \in Nat \ {0} /\ MaxBreaks \in Nat

VARIABLES
    selected,  \* row id -> does the filter select the row now?
    settled,   \* rows whose exit_code has been set
    stream,    \* is a live stream open?
    lastSeen,  \* the stream's high-water mark
    wire,      \* events sent and not received: [rows, id]
    shown,     \* the sets of rows the browser has shown, in order
    lastId,    \* the Last-Event-ID the browser would send, 0 for none
    base,      \* the rows above it are the ones the view is about (history)
    breaks     \* streams broken so far

tableVars == <<selected, settled>>
browserVars == <<shown, lastId>>
vars == <<tableVars, stream, lastSeen, wire, browserVars, base, breaks>>

-----------------------------------------------------------------------------
MaxEventId == Len(selected)
Select(from) == {i \in DOMAIN selected : i > from /\ selected[i]}

\* list_since, whose last row is the newest selected one or the Limit-th.
ListSince(from, last) == {i \in Select(from) : i <= last}
EndsList(from, last) ==
    LET rows == ListSince(from, last) IN
    /\ last \in Select(from)
    /\ Cardinality(rows) <= Limit
    /\ Cardinality(rows) = Limit \/ rows = Select(from)

Init ==
    /\ selected \in {<<yes>> : yes \in BOOLEAN}
    /\ settled = {}
    /\ stream = FALSE
    /\ lastSeen = 0
    /\ wire = << >>
    /\ shown = << >>
    /\ lastId = 0
    /\ base = 0
    /\ breaks = 0
-----------------------------------------------------------------------------
\* The recorder inserts a row: a command the filter selects, or anything else.
Insert(yes) ==
    /\ MaxEventId < MaxRows
    /\ selected' = Append(selected, yes)
    /\ UNCHANGED <<settled, stream, lastSeen, wire, browserVars, base, breaks>>

\* It sets the exit_code of a command, and the filter answers otherwise.
Backfill(i) ==
    /\ i \in DOMAIN selected \ settled
    /\ settled' = settled \cup {i}
    /\ selected' = [selected EXCEPT ![i] = ~@]
    /\ UNCHANGED <<stream, lastSeen, wire, browserVars, base, breaks>>
-----------------------------------------------------------------------------
\* live_events: resume behind Last-Event-ID, or start at the newest row; if
\* that query fails the stream starts at the beginning.
Start(from) ==
    /\ ~stream
    /\ stream' = TRUE
    /\ lastSeen' = from
    /\ UNCHANGED <<tableVars, wire, browserVars, breaks>>

\* MUTANT of Resume: the header is not looked at.
ResumeAtNewest ==
    /\ lastId > 0
    /\ Start(MaxEventId)
    /\ UNCHANGED base
\* MUTANT of Resume: from the last event on, instead of behind it.
ResumeInclusive ==
    /\ lastId > 0
    /\ Start(lastId - 1)
    /\ UNCHANGED base
Resume ==
    /\ lastId > 0
    /\ Start(lastId)
    /\ UNCHANGED base

StartAtNewest ==
    /\ lastId = 0
    /\ Start(MaxEventId)
    /\ base' = MaxEventId
StartBlind ==
    /\ lastId = 0
    /\ Start(0)
    /\ base' = MaxEventId

\* MUTANT of PollOk: the mark moves to the newest row of the table.
PollOkPastLimit ==
    /\ stream
    /\ \E last \in Select(lastSeen) :
         /\ EndsList(lastSeen, last)
         /\ lastSeen' = MaxEventId
         /\ wire' = Append(wire, [rows |-> ListSince(lastSeen, last), id |-> MaxEventId])
    /\ UNCHANGED <<tableVars, stream, browserVars, base, breaks>>

\* A tick with new rows: they are sent as one event, in ascending order and
\* under the id of the last of them.  A tick without any, or with a failing
\* query, sends a comment.
PollOk ==
    /\ stream
    /\ \E last \in Select(lastSeen) :
         /\ EndsList(lastSeen, last)
         /\ lastSeen' = last
         /\ wire' = Append(wire, [rows |-> ListSince(lastSeen, last), id |-> last])
    /\ UNCHANGED <<tableVars, stream, browserVars, base, breaks>>

\* The browser prepends the rows and remembers the event's id.
Receive ==
    /\ wire # << >>
    /\ shown' = Append(shown, Head(wire).rows)
    /\ lastId' = Head(wire).id
    /\ wire' = Tail(wire)
    /\ UNCHANGED <<tableVars, stream, lastSeen, base, breaks>>

\* The connection breaks; what was in flight is lost.
Break ==
    /\ stream /\ breaks < MaxBreaks
    /\ breaks' = breaks + 1
    /\ stream' = FALSE
    /\ wire' = << >>
    /\ UNCHANGED <<tableVars, lastSeen, browserVars, base>>

Next ==
    \/ \E yes \in BOOLEAN : Insert(yes)
    \/ \E i \in 1..MaxRows : Backfill(i)
    \/ Resume \/ StartAtNewest \/ StartBlind
    \/ PollOk \/ Receive \/ Break

\* The interval keeps ticking, queries do not fail for ever, what is sent is
\* received unless the stream breaks, and the browser reconnects.
Fairness ==
    /\ WF_vars(PollOk)
    /\ WF_vars(Receive)
    /\ WF_vars(Resume \/ StartAtNewest)

Spec == Init /\ [][Next]_vars /\ Fairness
-----------------------------------------------------------------------------
RowIds == 1..MaxRows
TypeOK ==
    /\ selected \in Seq(BOOLEAN) /\ Len(selected) <= MaxRows
    /\ settled \subseteq DOMAIN selected
    /\ stream \in BOOLEAN
    /\ lastSeen \in 0..MaxEventId
    /\ wire \in Seq([rows : SUBSET RowIds, id : RowIds])
    /\ shown \in Seq(SUBSET RowIds)
    /\ lastId \in 0..lastSeen
    /\ base \in 0..MaxEventId
    /\ breaks \in 0..MaxBreaks

InFlight == UNION {wire[n].rows : n \in DOMAIN wire}
Shown == UNION {shown[n] : n \in DOMAIN shown}

\* No row is shown twice and rows appear in the order they were written, also
\* when the stream breaks and resumes.
ShownOnceInOrder ==
    \A m, n \in DOMAIN shown : m < n => \A i \in shown[m], j \in shown[n] : i < j

\* Up to the mark, no row that was selected all along is skipped: it is shown
\* or on its way, whatever broke in between and however the polls were cut.
NothingSkipped ==
    stream => \A i \in DOMAIN selected :
        base < i /\ i <= lastSeen /\ selected[i] /\ i \notin settled
            => i \in Shown \cup InFlight

\* Every row that is written behind the start of the view and selected from
\* then on is shown in the end, or some stream broke before the first event
\* had been received and the view started over.
EveryRowShown ==
    \A i \in RowIds :
        [](i \in DOMAIN selected /\ i > base /\ selected[i] /\ i \notin settled)
            ~> i \in Shown

\* The live view keeps the promise of Tail: what it polled may have changed
\* before it is received and what it sent may be lost, but each page it shows
\* follows on the ones before, without a hole.
View == INSTANCE Tail WITH answer <- selected, changed <- settled, from <- base,
                           pages <- shown
TailSpec == View!Spec
=============================================================================
