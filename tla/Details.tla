------------------------------- MODULE Details -------------------------------
(***************************************************************************)
(* The detail panel of an event (get_event_detail and get_event_raw of     *)
(* shspectr-web/src/application/routes/api.rs over get_detail of           *)
(* infrastructure/repositories/event.rs), read while the recorder writes.  *)
(*                                                                         *)
(* get_detail runs four statements on one connection and opens no          *)
(* transaction: each sees the table as it is then, and the recorder's      *)
(* statements, Collector's steps, may run between any two of them.         *)
(*                                                                         *)
(* A panel refers to rows by their number; of the row it was opened for it *)
(* keeps a copy, for an exec row changes when the exit code is copied to   *)
(* it.                                                                     *)
(***************************************************************************)
EXTENDS Collector

VARIABLES
    at,    \* the statement get_detail runs next, "closed" or "shown"
    detail \* what has been read

readerVars == <<at, detail>>
detailsVars == <<vars, readerVars>>

-----------------------------------------------------------------------------
Chunks(of, fds) ==
    {i \in DOMAIN rows : /\ rows[i].type = "io" /\ rows[i].fd \in fds
                         /\ rows[i].sid = of.sid /\ rows[i].pid = of.pid
                         /\ rows[i].id = of.id}

\* MUTANT of IoOf: the chunks of the process, whatever it executes.
IoOfProcess(of) ==
    LET OfPid(fds) == UNION {Chunks([of EXCEPT !.id = n], fds) : n \in 0..clock}
    IN [stdin |-> OfPid({0}), stdout |-> OfPid({1, 2})]
\* fetch_io_chunks: fd 0 is shown as input, 1 and 2 as output, others not.
IoOf(of) == [stdin |-> Chunks(of, {0}), stdout |-> Chunks(of, {1, 2})]

\* fetch_children: commands whose parent has the pid of the event, each with
\* its exit code and whether it has I/O on any descriptor.
ChildrenOf(of) ==
    {[row |-> i, code |-> rows[i].code, hasIo |-> Chunks(rows[i], Fds) # {}] :
        i \in {j \in DOMAIN rows : /\ rows[j].type = "exec"
                                   /\ rows[j].sid = of.sid /\ rows[j].ppid = of.pid}}

\* fetch_parent: the newest command of the parent's pid, if there is one.
ParentOf(of) ==
    {i \in DOMAIN rows :
        LET Candidate(j) == rows[j].type = "exec" /\ rows[j].sid = of.sid
                            /\ rows[j].pid = of.ppid
        IN Candidate(i) /\ \A j \in DOMAIN rows : Candidate(j) => j <= i}

NoDetail == [event |-> 0]
-----------------------------------------------------------------------------
DetailsInit == Init /\ at = "closed" /\ detail = NoDetail

\* The row itself; without one the answer is 404 and nothing else is read.
GetRow(i) ==
    /\ at = "closed" /\ i \in DOMAIN rows
    /\ at' = "io"
    /\ detail' = [event |-> i, row |-> rows[i],
                  stdin |-> {}, stdout |-> {}, children |-> {}, parent |-> {}]
    /\ UNCHANGED vars

FetchIo ==
    /\ at = "io"
    /\ at' = "children"
    /\ detail' = [detail EXCEPT !.stdin = IoOf(detail.row).stdin,
                                !.stdout = IoOf(detail.row).stdout]
    /\ UNCHANGED vars

FetchChildren ==
    /\ at = "children"
    /\ at' = "parent"
    /\ detail' = [detail EXCEPT !.children = ChildrenOf(detail.row)]
    /\ UNCHANGED vars

\* MUTANT of FetchParent: the row is read again, to show a newer exit code.
FetchParentRefreshes ==
    /\ at = "parent"
    /\ at' = "shown"
    /\ detail' = [detail EXCEPT !.row = rows[detail.event],
                                !.parent = ParentOf(detail.row)]
    /\ UNCHANGED vars

FetchParent ==
    /\ at = "parent"
    /\ at' = "shown"
    /\ detail' = [detail EXCEPT !.parent = ParentOf(detail.row)]
    /\ UNCHANGED vars

\* A statement fails, the answer is 500; or the panel is closed.
CloseDetail ==
    /\ at # "closed"
    /\ at' = "closed"
    /\ detail' = NoDetail
    /\ UNCHANGED vars

DetailsNext ==
    \/ Next /\ UNCHANGED readerVars
    \/ \E i \in DOMAIN rows : GetRow(i)
    \/ FetchIo
    \/ FetchChildren
    \/ FetchParent
    \/ CloseDetail

DetailsSpec == DetailsInit /\ [][DetailsNext]_detailsVars
-----------------------------------------------------------------------------
\* The rows recorded after an exit event of the execution that row of is of.
AfterExit(of) ==
    {i \in DOMAIN rows :
        \E e \in 1..i - 1 : /\ rows[e].type = "exit" /\ rows[e].sid = of.sid
                            /\ rows[e].pid = of.pid /\ rows[e].id = of.id}

\* A panel that shows an exit code shows all the input and output recorded
\* before the exit, now and for as long as it stays open: what it lacks was
\* published after the exit event, by another thread whose read or write was
\* under way.  So it is with a child that has an exit code and no I/O.  The
\* code is copied after the exit is recorded, and the chunks are fetched
\* after the code.
ExitedMeansComplete ==
    at = "shown" =>
        /\ detail.row.code # NoCode =>
               Chunks(detail.row, 0..2) \ (detail.stdin \cup detail.stdout)
                   \subseteq AfterExit(detail.row)
        /\ \A child \in detail.children : child.code # NoCode /\ ~child.hasIo =>
               Chunks(rows[child.row], Fds) \subseteq AfterExit(rows[child.row])

\* No panel of a command shows what another one of the same pid read or
\* wrote: from the command's row to its last chunk the table has no I/O of
\* another execution of that pid.
NoForeignIo ==
    at = "shown" /\ detail.row.type = "exec" =>
        \A i \in detail.stdin \cup detail.stdout :
            /\ detail.event < i
            /\ \A j \in detail.event..i :
                   rows[j].pid = detail.row.pid /\ rows[j].type = "io"
                       => rows[j].id = detail.row.id
=============================================================================
