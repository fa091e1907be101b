------------------------------ MODULE Collector ------------------------------
(***************************************************************************)
(* The recording process: handle_event (shspectr/src/handler.rs) asks the  *)
(* correlator for the event's session, applies the filter (filter.rs) and  *)
(* calls the SQLite sink (sqlite_sink.rs), which runs one to three         *)
(* statements, each its own transaction.                                   *)
(*                                                                         *)
(* Events come from a small operating system: processes fork, execute,     *)
(* read and write, change terminal, exit and are killed.  A process may    *)
(* have several threads: what one of them reads or writes is published     *)
(* some time after its program has looked the execution up, and another    *)
(* one may call exit_group in between.  The handler takes events in the    *)
(* order the probe published them and looks at nothing but the event, so   *)
(* an event is handled in the step that publishes it.  The statements of   *)
(* an event then run one at a time; the next event waits for them, as the  *)
(* handler does.                                                           *)
(*                                                                         *)
(* Faults names what may go wrong: "lost" (the ring is full), "killed"     *)
(* (a process ends without exit_group), "sqlerror" (a statement fails),    *)
(* "crash" (the recorder dies and is started again); "terminals" is no     *)
(* fault but lets processes acquire and leave terminals.                   *)
(***************************************************************************)
EXTENDS SessionCorrelator, Integers, Sequences

CONSTANTS
    InitPid,         \* the process that adopts orphans; it never exits
    FilterPty,       \* --filter-pty
    FilterAncestors, \* --filter-ancestor, a set of process names
    Codes,           \* exit codes
    NoCode,          \* the NULL exit_code of a row without one
    Fds,             \* file descriptors of reads and writes
    Faults,
    MaxEvents        \* bound on the events of a behaviour, for model checking

ASSUME CommsAssumption == Comms # {}
ASSUME InitPidAssumption == InitPid \in Pids
ASSUME FilterAssumption == FilterPty \in BOOLEAN /\ FilterAncestors \subseteq Comms
ASSUME NoCodeAssumption == NoCode \notin Codes
ASSUME FdsAssumption == Fds \subseteq Nat

VARIABLES
    procs,    \* processes: pid -> parent, terminal, name, the execution that
              \* its reads and writes under way have looked up (0: there are
              \* none), and whether it is ending
    execPids, \* EXEC_PIDS of the probe: pid -> execution_id
    clock,    \* events so far; the source of execution ids
    up,       \* is the recorder running?
    todo,     \* statements of the current event still to run
    sessions, \* table sessions: id -> "open" or "ended"
    rows,     \* table events: the row with id i is rows[i]
    rejected  \* has the foreign key turned a row away? (history)

osVars == <<procs, clock>>
dbVars == <<sessions, rows, rejected>>
vars == <<corrVars, osVars, execPids, up, todo, dbVars>>

-----------------------------------------------------------------------------
NoFd == -1    \* the NULL fd of a row that is no read or write
Rows == [type : {"exec", "exit", "io"}, sid : Nat, pid : Pids, ppid : Pids,
         id : Nat, code : Codes \cup {NoCode}, fd : Fds \cup {NoFd}]
Statements == [op : {"session", "exec", "exit", "io", "backfill", "ended"},
               sid : Nat, pid : Pids, ppid : Pids,
               id : Nat, code : Codes \cup {NoCode}, fd : Fds \cup {NoFd}]
Procs == [ppid : Pids, tty : Ttys, comm : Comms, io : Nat, ending : BOOLEAN]
Live(p) == p \in DOMAIN procs /\ ~procs[p].ending

\* What fill_header reads of the task that makes the call.
InfoOf(p) == [pid |-> p, ppid |-> procs[p].ppid, tty |-> procs[p].tty,
              comm |-> procs[p].comm]

\* passes_filter, with the ancestors as the map m knows them.
PassesFilter(m, info) ==
    \/ ~FilterPty /\ FilterAncestors = {}
    \/ FilterPty /\ info.tty # 0
    \/ AncestorComms(m, info.pid) \cap FilterAncestors # {}
    \/ info.comm \in FilterAncestors

\* The statements the sink prepares for one event of session sid.
Stmt(op, info, id, code) ==
    [op |-> op, sid |-> SessionOf(info), pid |-> info.pid, ppid |-> info.ppid,
     id |-> id, code |-> code, fd |-> NoFd]

HandleExec(info, id) ==
    /\ OnExec(info)
    /\ todo' = IF PassesFilter(PidMapAfterExec(info), info)
               THEN <<Stmt("session", info, id, NoCode), Stmt("exec", info, id, NoCode)>>
               ELSE << >>

\* The body of the mutants of HandleExit.
HandleExitWith(info, statements) ==
    /\ OnExit(info)
    /\ todo' = IF PassesFilter(PidMapAfterIo(info), info) THEN statements ELSE << >>
\* MUTANT of HandleExit: every exit ends its session.
HandleExitEnds(info, id, code) ==
    HandleExitWith(info, <<Stmt("exit", info, id, code), Stmt("backfill", info, id, code),
                           Stmt("ended", info, id, code)>>)
\* MUTANT of HandleExit: the exec row is updated at the end of the session.
HandleExitBackfillsLate(info, id, code) ==
    HandleExitWith(info, <<Stmt("exit", info, id, code)>>
        \o (IF SessionComplete(info)
            THEN <<Stmt("backfill", info, id, code), Stmt("ended", info, id, code)>>
            ELSE << >>))

HandleExit(info, id, code) ==
    /\ OnExit(info)
    /\ todo' = IF PassesFilter(PidMapAfterIo(info), info)
               THEN <<Stmt("exit", info, id, code), Stmt("backfill", info, id, code)>>
                    \o (IF SessionComplete(info) THEN <<Stmt("ended", info, id, code)>>
                        ELSE << >>)
               ELSE << >>

HandleIo(info, id, fd) ==
    /\ OnIo(info)
    /\ todo' = IF PassesFilter(PidMapAfterIo(info), info)
               THEN <<[Stmt("io", info, id, NoCode) EXCEPT !.fd = fd]>>
               ELSE << >>

\* The event does not reach the handler: the ring is full, or nothing runs.
NotHandled ==
    /\ ~up \/ "lost" \in Faults
    /\ UNCHANGED <<corrVars, todo, execPids>>

Tick == clock < MaxEvents /\ clock' = clock + 1
Idle == todo = << >>
-----------------------------------------------------------------------------
Init ==
    /\ CorrInit
    /\ procs = Put(EmptyMap, InitPid,
                   [ppid |-> InitPid, tty |-> 0, comm |-> CHOOSE c \in Comms : TRUE,
                    io |-> 0, ending |-> FALSE])
    /\ execPids = EmptyMap
    /\ clock = 0
    /\ up = TRUE
    /\ todo = << >>
    /\ sessions = EmptyMap
    /\ rows = << >>
    /\ rejected = FALSE

Fork(parent, p) ==
    /\ Idle /\ Live(parent) /\ p \notin DOMAIN procs
    /\ procs' = Put(procs, p, [procs[parent] EXCEPT !.ppid = parent, !.io = 0])
    /\ UNCHANGED <<corrVars, clock, execPids, up, todo, dbVars>>

\* setsid, and opening a terminal, make no event.
SetTty(p, t) ==
    /\ Idle /\ Live(p) /\ p # InitPid /\ "terminals" \in Faults
    /\ procs[p].tty # t
    /\ procs' = [procs EXCEPT ![p].tty = t]
    /\ UNCHANGED <<corrVars, clock, execPids, up, todo, dbVars>>

\* The record carries the name the task had when it entered execve, which
\* returns when the other threads have ended.
Exec(p, c) ==
    /\ Idle /\ Live(p) /\ p # InitPid /\ procs[p].io = 0
    /\ Tick
    /\ procs' = [procs EXCEPT ![p].comm = c]
    /\ \/ /\ up /\ HandleExec(InfoOf(p), clock + 1)
          /\ execPids' = Put(execPids, p, clock + 1)
       \/ NotHandled
    /\ UNCHANGED <<up, dbVars>>

\* The handler does not look at retval.
ExecFailed(p) ==
    /\ Idle /\ Live(p) /\ p # InitPid
    /\ Tick
    /\ \/ up /\ HandleExec(InfoOf(p), clock + 1) /\ UNCHANGED execPids
       \/ NotHandled
    /\ UNCHANGED <<procs, up, dbVars>>

\* Without p, whose children InitPid adopts.
WithoutProc(p) ==
    [q \in DOMAIN procs \ {p} |->
        IF procs[q].ppid = p THEN [procs[q] EXCEPT !.ppid = InitPid] ELSE procs[q]]

\* A process ends when the programs its threads are in have run to their ends.
Leave(p) == IF procs[p].io = 0 THEN WithoutProc(p)
            ELSE [procs EXCEPT ![p].ending = TRUE]

\* A read or write returns: the program copies the execution from EXEC_PIDS.
LookUp(p) ==
    /\ Idle /\ Live(p) /\ p \in DOMAIN execPids /\ procs[p].io = 0
    /\ procs' = [procs EXCEPT ![p].io = execPids[p]]
    /\ UNCHANGED <<corrVars, clock, execPids, up, todo, dbVars>>

\* ... and publishes its record; other threads may be as far, or this is the
\* last of them.
ReadOrWrite(p, fd) ==
    /\ Idle /\ p \in DOMAIN procs /\ procs[p].io # 0
    /\ Tick
    /\ \/ up /\ HandleIo(InfoOf(p), procs[p].io, fd) /\ UNCHANGED execPids
       \/ NotHandled
    /\ \/ UNCHANGED procs
       \/ procs' = IF procs[p].ending THEN WithoutProc(p)
                   ELSE [procs EXCEPT ![p].io = 0]
    /\ UNCHANGED <<up, dbVars>>

\* Any thread may call exit_group, after another one as well.
ExitGroup(p, code) ==
    /\ Idle /\ p \in DOMAIN procs /\ p # InitPid
    /\ Tick
    /\ procs' = Leave(p)
    /\ \/ /\ up /\ HandleExit(InfoOf(p), Get(execPids, p, 0), code)
          /\ execPids' = Remove(execPids, p)
       \/ NotHandled
    /\ UNCHANGED <<up, dbVars>>

Kill(p) ==
    /\ Idle /\ Live(p) /\ p # InitPid /\ "killed" \in Faults
    /\ procs' = Leave(p)
    /\ UNCHANGED <<corrVars, clock, execPids, up, todo, dbVars>>
-----------------------------------------------------------------------------
\* session_id REFERENCES sessions(id), which the bundled SQLite enforces.
Accepts(stmt) == stmt.sid \in DOMAIN sessions
RowOf(stmt) == [type |-> stmt.op, sid |-> stmt.sid, pid |-> stmt.pid,
                ppid |-> stmt.ppid, id |-> stmt.id, code |-> stmt.code, fd |-> stmt.fd]

\* MUTANT of Backfilled: every exec row of the process gets the code.
BackfilledByPid(stmt) ==
    LET Matches(r) == r.type = "exec" /\ r.sid = stmt.sid /\ r.pid = stmt.pid IN
    [i \in DOMAIN rows |-> IF Matches(rows[i]) THEN [rows[i] EXCEPT !.code = stmt.code]
                           ELSE rows[i]]

\* The exec row the exit code is copied to, with and without the code.
Backfilled(stmt) ==
    LET Matches(r) == /\ r.type = "exec" /\ r.sid = stmt.sid
                      /\ r.pid = stmt.pid /\ r.id = stmt.id IN
    [i \in DOMAIN rows |-> IF Matches(rows[i]) THEN [rows[i] EXCEPT !.code = stmt.code]
                           ELSE rows[i]]

RunStatement ==
    LET stmt == Head(todo) IN
    /\ todo # << >>
    /\ todo' = Tail(todo)
    /\ CASE stmt.op = "session"  -> /\ sessions' = IF stmt.sid \in DOMAIN sessions THEN sessions
                                                   ELSE Put(sessions, stmt.sid, "open")
                                    /\ UNCHANGED rows
         [] stmt.op = "backfill" -> rows' = Backfilled(stmt) /\ UNCHANGED sessions
         [] stmt.op = "ended"    -> /\ sessions' = IF stmt.sid \in DOMAIN sessions
                                                   THEN Put(sessions, stmt.sid, "ended")
                                                   ELSE sessions
                                    /\ UNCHANGED rows
         [] OTHER                -> /\ Accepts(stmt)
                                    /\ rows' = Append(rows, RowOf(stmt))
                                    /\ UNCHANGED sessions
    /\ UNCHANGED <<corrVars, osVars, execPids, up, rejected>>

\* A failed statement is logged.  on_exec goes on with its insert after a
\* failed ensure_session; insert_exit returns and skips what follows.
FailStatement ==
    LET stmt == Head(todo)
        refused == stmt.op \in {"exec", "exit", "io"} /\ ~Accepts(stmt) IN
    /\ todo # << >>
    /\ refused \/ "sqlerror" \in Faults
    /\ todo' = IF stmt.op = "session" THEN Tail(todo) ELSE << >>
    /\ rejected' = (rejected \/ refused)
    /\ UNCHANGED <<corrVars, osVars, execPids, up, sessions, rows>>

\* The recorder dies: the probe's maps, the correlator and the statements
\* not yet run are gone, the database stays.  What the programs under way
\* still publish, nobody reads.
Crash ==
    /\ up /\ "crash" \in Faults
    /\ up' = FALSE
    /\ Restart
    /\ procs' = LET left == {q \in DOMAIN procs : ~procs[q].ending} IN
                [q \in left |->
                    [procs[q] EXCEPT !.io = 0,
                                     !.ppid = IF @ \in left THEN @ ELSE InitPid]]
    /\ execPids' = EmptyMap
    /\ todo' = << >>
    /\ UNCHANGED <<clock, dbVars>>

Start ==
    /\ ~up
    /\ up' = TRUE
    /\ UNCHANGED <<corrVars, osVars, execPids, todo, dbVars>>

Next ==
    \/ \E p \in Pids : \/ \E q \in Pids : Fork(q, p)
                       \/ \E t \in Ttys : SetTty(p, t)
                       \/ \E c \in Comms : Exec(p, c)
                       \/ ExecFailed(p)
                       \/ LookUp(p)
                       \/ \E fd \in Fds : ReadOrWrite(p, fd)
                       \/ \E code \in Codes : ExitGroup(p, code)
                       \/ Kill(p)
    \/ RunStatement
    \/ FailStatement
    \/ Crash
    \/ Start

Spec == Init /\ [][Next]_vars
-----------------------------------------------------------------------------
TypeOK ==
    /\ CorrTypeOK
    /\ IsMap(procs, Pids, Procs)
    /\ IsMap(execPids, Pids, Nat)
    /\ clock \in 0..MaxEvents
    /\ up \in BOOLEAN
    /\ todo \in Seq(Statements)
    /\ IsMap(sessions, Nat, {"open", "ended"})
    /\ rows \in Seq(Rows)
    /\ rejected \in BOOLEAN

Table == {rows[i] : i \in DOMAIN rows}
Ended(sid) == sid \in DOMAIN sessions /\ sessions[sid] = "ended"

\* A session whose ended_at is set has no tracked process, unless a terminal
\* leads to it: also after lost events, failed statements and restarts.
EndedStaysEmpty ==
    \A p \in DOMAIN pidMap : Ended(pidMap[p].sid) => pidMap[p].sid \in TtySessionIds

\* The exit code shown on a command is the code of an exit event recorded
\* for the same execution.
CodesComeFromExits ==
    \A r \in Table : r.type = "exec" /\ r.code # NoCode
        => \E e \in Table : /\ e.type = "exit" /\ e.pid = r.pid /\ e.id = r.id
                            /\ e.sid = r.sid /\ e.code = r.code

\* Between events, and if no statement failed, every recorded exit has
\* reached the command it ended.
ExitsReachCommands ==
    Idle => \A r, e \in Table :
        r.type = "exec" /\ e.type = "exit" /\ r.pid = e.pid /\ r.id = e.id
            => r.code # NoCode

\* Between events, and if no statement failed, a session without tracked
\* processes that no terminal leads to has its ended_at set, whatever events
\* were lost: the exit that removed the last process set it.
EmptyMeansEnded ==
    Idle => \A sid \in DOMAIN sessions \ TtySessionIds :
        (\A p \in DOMAIN pidMap : pidMap[p].sid # sid) => Ended(sid)

\* The database turns no event away for want of its session row.
NoRowRejected == ~rejected
=============================================================================
