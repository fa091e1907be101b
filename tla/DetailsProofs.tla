----------------------------- MODULE DetailsProofs -----------------------------
(***************************************************************************)
(* Proofs about the detail panel, read while the recorder writes, under    *)
(* every fault, filter and terminal.                                       *)
(***************************************************************************)
EXTENDS Details, CollectorProofs

\* What the process reads and writes may still be recorded under this
\* execution: EXEC_PIDS has it, a program has looked it up, or a row waits.
Open(pid, id) ==
    \/ pid \in DOMAIN execPids /\ execPids[pid] = id
    \/ pid \in DOMAIN procs /\ procs[pid].io = id /\ id # 0
    \/ \E n \in DOMAIN todo : todo[n].op = "io" /\ todo[n].pid = pid /\ todo[n].id = id

\* Execution ids are times that have passed.
IdsHavePassed ==
    /\ \A r \in Table : r.id <= clock
    /\ \A n \in DOMAIN todo : todo[n].id <= clock

\* A chunk waits alone, and its process has no other execution open.
ChunkWaits(n) ==
    /\ todo[n].code = NoCode
    /\ \A m \in DOMAIN todo :
         todo[m].op = "io" /\ todo[m].pid = todo[n].pid /\ todo[m].id = todo[n].id
    /\ todo[n].pid \in DOMAIN execPids => execPids[todo[n].pid] = todo[n].id
    /\ todo[n].pid \in DOMAIN procs => procs[todo[n].pid].io \in {0, todo[n].id}

\* The statements of an event agree with what the probe knew.
StatementsFit ==
    \A n \in DOMAIN todo :
        /\ todo[n].op = "io" => ChunkWaits(n)
        /\ todo[n].op \in {"exit", "backfill"} => todo[n].code # NoCode
        /\ todo[n].op = "exec" =>
             /\ todo[n].code = NoCode
             /\ \A r \in Table : r.type = "io" => r.pid # todo[n].pid \/ r.id # todo[n].id

ChunksHaveNoCode == \A r \in Table : r.type = "io" => r.code = NoCode

\* From row e to row i there is no foreign I/O of e's process.
Undisturbed(e, i) ==
    \A j \in e..i : rows[j].pid = rows[e].pid /\ rows[j].type = "io" => rows[j].id = rows[e].id

\* Nothing comes between a command and its I/O, nor after a command that is
\* still open.
CommandsUndisturbed ==
    \A e \in DOMAIN rows : rows[e].type = "exec" =>
        /\ Open(rows[e].pid, rows[e].id) => Undisturbed(e, Len(rows))
        /\ \A i \in DOMAIN rows :
             rows[i].type = "io" /\ rows[i].pid = rows[e].pid /\ rows[i].id = rows[e].id
                => e < i /\ Undisturbed(e, i)

LogInv == IdsHavePassed /\ StatementsFit /\ ChunksHaveNoCode /\ CommandsUndisturbed

-----------------------------------------------------------------------------
(* The recorder. *)

LEMMA StatementIds ==
    ASSUME CodesInv
    PROVE  /\ \A n \in DOMAIN todo : todo[n] \in Statements /\ todo[n].id \in Nat
           /\ \A i \in DOMAIN rows : rows[i] \in Rows /\ rows[i].id \in Nat
           /\ \A i \in DOMAIN rows : i \in Nat /\ i >= 1 /\ i <= Len(rows)
           /\ Len(rows) \in Nat /\ DOMAIN rows = 1..Len(rows)
<1>1. /\ \A n \in DOMAIN todo : todo[n] \in Statements
      /\ \A i \in DOMAIN rows : rows[i] \in Rows
      /\ Len(rows) \in Nat /\ DOMAIN rows = 1..Len(rows)
    BY DEF CodesInv
<1> QED
    BY <1>1 DEF Statements, Rows

LEMMA InitLogInv == Init => LogInv
BY DEF Init, LogInv, IdsHavePassed, StatementsFit, ChunksHaveNoCode, CommandsUndisturbed, Table

\* A process has one execution open at a time.
LEMMA OneOpen ==
    ASSUME ProbeInv, LogInv, NEW n \in DOMAIN todo, todo[n].op = "io",
           NEW id, Open(todo[n].pid, id)
    PROVE  id = todo[n].id
BY DEF LogInv, StatementsFit, ChunkWaits, Open

\* No step opens the execution of a row again.
LEMMA OpenKept ==
    ASSUME OsInv, ProbeInv, CodesInv, IdsHavePassed, [Next]_vars,
           \A n \in DOMAIN todo' : todo'[n].op = "io" => Open(todo'[n].pid, todo'[n].id)
    PROVE  \A r \in Table : Open(r.pid, r.id)' => Open(r.pid, r.id)
<1> SUFFICES ASSUME NEW r \in Table, Open(r.pid, r.id)' PROVE Open(r.pid, r.id)
    BY DEF Table
<1>1. r.id \in Nat /\ r.id <= clock /\ clock \in Nat
    BY StatementIds DEF Table, IdsHavePassed, OsInv
<1>2. IoKept /\ ExecPidsKept
    BY ProbeStep
<1> QED
    BY <1>1, <1>2 DEF Open, IoKept, ExecPidsKept

\* A step that leaves the table alone and opens nothing again.
LEMMA TableKept ==
    ASSUME LogInv, rows' = rows, \A r \in Table : Open(r.pid, r.id)' => Open(r.pid, r.id)
    PROVE  ChunksHaveNoCode' /\ CommandsUndisturbed' /\ Table' = Table
<1>1. Table' = Table
    BY DEF Table
<1>2. ChunksHaveNoCode'
    BY <1>1 DEF LogInv, ChunksHaveNoCode
<1>3. \A e \in DOMAIN rows : Open(rows[e].pid, rows[e].id)' => Open(rows[e].pid, rows[e].id)
    <2> SUFFICES ASSUME NEW e \in DOMAIN rows, Open(rows[e].pid, rows[e].id)'
                 PROVE  Open(rows[e].pid, rows[e].id)
        OBVIOUS
    <2>1. rows[e] \in Table
        BY DEF Table
    <2>2. PICK r \in Table : r = rows[e]
        BY <2>1
    <2>3. Open(r.pid, r.id)'
        BY <2>2 DEF Open
    <2> QED
        BY <2>2, <2>3
<1>4. \A e, i : Undisturbed(e, i)' <=> Undisturbed(e, i)
    BY DEF Undisturbed
<1>5. CommandsUndisturbed'
    BY <1>3, <1>4 DEF LogInv, CommandsUndisturbed
<1> QED
    BY <1>1, <1>2, <1>5

LEMMA ExecLogInv ==
    ASSUME OsInv, ProbeInv, CorrInv, CodesInv, LogInv, [Next]_vars,
           NEW p \in Pids, InfoOf(p) \in EventInfos, HandleExec(InfoOf(p), clock + 1),
           clock' = clock + 1, UNCHANGED dbVars
    PROVE  LogInv'
<1> DEFINE info == InfoOf(p)
<1>1. clock \in Nat /\ clock + 1 \in Nat /\ rows' = rows
    BY DEF OsInv, dbVars
<1>2. \A r \in Table : r.id \in Nat /\ r.id <= clock
    BY StatementIds DEF Table, LogInv, IdsHavePassed
<1>3. PICK a \in Statements, b \in Statements :
        /\ todo' = << >> \/ todo' = <<a, b>>
        /\ a.op = "session" /\ a.id = clock + 1
        /\ b.op = "exec" /\ b.id = clock + 1 /\ b.code = NoCode
    <2>1. /\ Stmt("session", info, clock + 1, NoCode) \in Statements
          /\ Stmt("session", info, clock + 1, NoCode).op = "session"
          /\ Stmt("session", info, clock + 1, NoCode).id = clock + 1
          /\ Stmt("exec", info, clock + 1, NoCode) \in Statements
          /\ Stmt("exec", info, clock + 1, NoCode).op = "exec"
          /\ Stmt("exec", info, clock + 1, NoCode).id = clock + 1
          /\ Stmt("exec", info, clock + 1, NoCode).code = NoCode
        BY <1>1, StatementTyped
    <2> QED
        BY <2>1 DEF HandleExec
<1>4. \A n \in DOMAIN todo' : todo'[n] = a \/ todo'[n] = b
    <2>1. CASE todo' = << >>
        BY <2>1
    <2>2. CASE todo' = <<a, b>>
        BY <2>2, TwoStatements
    <2> QED
        BY <1>3, <2>1, <2>2
<1>5. \A r \in Table : Open(r.pid, r.id)' => Open(r.pid, r.id)
    BY <1>3, <1>4, OpenKept DEF LogInv
<1>6. ChunksHaveNoCode' /\ CommandsUndisturbed' /\ Table' = Table
    BY <1>1, <1>5, TableKept
<1>7. IdsHavePassed'
    BY <1>1, <1>2, <1>3, <1>4, <1>6 DEF IdsHavePassed
<1>8. StatementsFit'
    BY <1>1, <1>2, <1>3, <1>4, <1>6 DEF StatementsFit
<1> QED
    BY <1>6, <1>7, <1>8 DEF LogInv

LEMMA IoLogInv ==
    ASSUME OsInv, ProbeInv, CorrInv, CodesInv, LogInv, [Next]_vars,
           NEW p \in Pids, NEW fd \in Fds, InfoOf(p) \in EventInfos,
           p \in DOMAIN procs, procs[p].io \in Nat \ {0}, HandleIo(InfoOf(p), procs[p].io, fd),
           execPids' = execPids, clock' = clock + 1, UNCHANGED dbVars
    PROVE  LogInv'
<1> DEFINE info == InfoOf(p)
<1>1. clock \in Nat /\ clock + 1 \in Nat /\ rows' = rows
    BY DEF OsInv, dbVars
<1>2. \A r \in Table : r.id \in Nat /\ r.id <= clock
    BY StatementIds DEF Table, LogInv, IdsHavePassed
<1>3. PICK id \in Nat \ {0} : id = procs[p].io
    BY <1>1
<1>4. id <= clock /\ (p \in DOMAIN execPids => execPids[p] = id) /\ Open(p, id)
    BY <1>3 DEF ProbeInv, Open
<1>5. HandleIo(info, id, fd) /\ info.pid = p
    BY <1>3 DEF InfoOf
<1>6. \A n \in DOMAIN todo' :
        /\ todo'[n].op = "io" /\ todo'[n].pid = p /\ todo'[n].id = id
        /\ todo'[n].code = NoCode
    BY <1>5, TodoAfterIo
<1>7. \A r \in Table : Open(r.pid, r.id)' => Open(r.pid, r.id)
    BY <1>4, <1>6, OpenKept DEF LogInv
<1>8. ChunksHaveNoCode' /\ CommandsUndisturbed' /\ Table' = Table
    BY <1>1, <1>7, TableKept
<1>9. IdsHavePassed'
    BY <1>1, <1>2, <1>4, <1>6, <1>8 DEF IdsHavePassed
<1>10. p \in DOMAIN procs' => procs'[p].io \in {0, id}
    BY <1>3, <1>4, ProbeStep DEF IoKept
<1>11. StatementsFit'
    BY <1>4, <1>6, <1>10 DEF StatementsFit, ChunkWaits
<1> QED
    BY <1>8, <1>9, <1>11 DEF LogInv

LEMMA ExitLogInv ==
    ASSUME OsInv, ProbeInv, CorrInv, CodesInv, LogInv, [Next]_vars,
           NEW p \in Pids, NEW code \in Codes, InfoOf(p) \in EventInfos,
           HandleExit(InfoOf(p), Get(execPids, p, 0), code),
           clock' = clock + 1, UNCHANGED dbVars
    PROVE  LogInv'
<1> DEFINE info == InfoOf(p)
           id == Get(execPids, p, 0)
<1>1. clock \in Nat /\ clock + 1 \in Nat /\ rows' = rows
    BY DEF OsInv, dbVars
<1>2. \A r \in Table : r.id \in Nat /\ r.id <= clock
    BY StatementIds DEF Table, LogInv, IdsHavePassed
<1>3. \A q \in DOMAIN execPids : execPids[q] \in Nat /\ execPids[q] <= clock
    BY DEF OsInv, IsMap, ProbeInv
<1>4. id \in Nat /\ id <= clock
    BY <1>1, <1>3 DEF Get
<1>5. code # NoCode
    BY NoCodeAssumption
<1> HIDE DEF info, id
<1>6. \A n \in DOMAIN todo' : /\ todo'[n].op \in {"exit", "backfill", "ended"}
                              /\ todo'[n].id = id /\ todo'[n].code = code
    <2>1. /\ HandleExit(info, id, code) /\ info \in EventInfos
          /\ code \in Codes \cup {NoCode}
        BY DEF info, id
    <2>2. CASE todo' = << >>
        BY <2>2
    <2>3. ASSUME NEW a \in Statements, NEW b \in Statements, NEW c \in Statements,
                 todo' = <<a, b>> \/ todo' = <<a, b, c>>,
                 a = Stmt("exit", info, id, code), b = Stmt("backfill", info, id, code),
                 c = Stmt("ended", info, id, code)
          PROVE  <1>6!:
        <3>1. \A n \in DOMAIN todo' : todo'[n] \in {a, b, c}
            <4>1. CASE todo' = <<a, b>>
                BY <4>1, TwoStatements
            <4>2. CASE todo' = <<a, b, c>>
                BY <4>2, ThreeStatements
            <4> QED
                BY <2>3, <4>1, <4>2
        <3>2. \A s \in {a, b, c} : /\ s.op \in {"exit", "backfill", "ended"}
                                   /\ s.id = id /\ s.code = code
            BY <1>4, <2>1, <2>3, StatementTyped
        <3> QED
            BY <3>1, <3>2
    <2>4. \/ todo' = << >>
          \/ \E a, b, c \in Statements :
               /\ todo' = <<a, b>> \/ todo' = <<a, b, c>>
               /\ a = Stmt("exit", info, id, code) /\ b = Stmt("backfill", info, id, code)
               /\ c = Stmt("ended", info, id, code)
        BY <1>4, <2>1, TodoAfterExit
    <2> QED
        BY <2>2, <2>3, <2>4
<1>7. \A r \in Table : Open(r.pid, r.id)' => Open(r.pid, r.id)
    BY <1>6, OpenKept DEF LogInv
<1>8. ChunksHaveNoCode' /\ CommandsUndisturbed' /\ Table' = Table
    BY <1>1, <1>7, TableKept
<1>9. IdsHavePassed'
    BY <1>1, <1>2, <1>4, <1>6, <1>8 DEF IdsHavePassed
<1>10. StatementsFit'
    BY <1>5, <1>6 DEF StatementsFit
<1> QED
    BY <1>8, <1>9, <1>10 DEF LogInv

\* The statement that runs, and what it does to the table.
LEMMA StatementRuns ==
    ASSUME CodesInv, RunStatement
    PROVE  /\ todo[1] \in Statements /\ 1 \in DOMAIN todo
           /\ \A n \in DOMAIN todo' : n + 1 \in DOMAIN todo /\ todo'[n] = todo[n + 1]
           /\ UNCHANGED <<procs, clock, execPids>>
           /\ \/ rows' = rows
              \/ todo[1].op = "backfill" /\ rows' = Backfilled(todo[1])
              \/ todo[1].op \in {"exec", "exit", "io"} /\ rows' = Append(rows, RowOf(todo[1]))
<1>1. /\ todo \in Seq(Statements) /\ todo # << >> /\ todo' = Tail(todo)
      /\ UNCHANGED <<procs, clock, execPids>>
    BY DEF RunStatement, CodesInv, osVars
<1>2. /\ Head(todo) = todo[1] /\ todo[1] \in Statements /\ 1 \in DOMAIN todo
      /\ \A n \in DOMAIN todo' : n + 1 \in DOMAIN todo /\ todo'[n] = todo[n + 1]
    BY <1>1, StatementTaken
<1>3. \/ rows' = rows
      \/ todo[1].op = "backfill" /\ rows' = Backfilled(todo[1])
      \/ todo[1].op \in {"exec", "exit", "io"} /\ rows' = Append(rows, RowOf(todo[1]))
    BY <1>2 DEF RunStatement, Statements
<1> QED
    BY <1>1, <1>2, <1>3

\* Statements that go on waiting.
LEMMA TodoShrinks ==
    ASSUME LogInv, UNCHANGED <<procs, clock, execPids>>,
           \A n \in DOMAIN todo' : n + 1 \in DOMAIN todo /\ todo'[n] = todo[n + 1],
           \A r \in Table' : r.type = "io" =>
                \/ \E x \in Table : x.type = "io" /\ x.pid = r.pid /\ x.id = r.id
                \/ \A n \in DOMAIN todo : todo[n].op # "exec"
    PROVE  /\ StatementsFit' /\ \A n \in DOMAIN todo' : todo'[n].id <= clock'
           /\ \A pid, id : Open(pid, id)' => Open(pid, id)
<1>1. \A n \in DOMAIN todo' : todo'[n].id <= clock'
    BY DEF LogInv, IdsHavePassed
<1>2. StatementsFit'
    <2> SUFFICES ASSUME NEW n \in DOMAIN todo'
                 PROVE  /\ todo'[n].op = "io" => ChunkWaits(n)'
                        /\ todo'[n].op \in {"exit", "backfill"} => todo'[n].code # NoCode
                        /\ todo'[n].op = "exec" =>
                             /\ todo'[n].code = NoCode
                             /\ \A r \in Table' : r.type = "io" =>
                                    r.pid # todo'[n].pid \/ r.id # todo'[n].id
        BY DEF StatementsFit
    <2>1. n + 1 \in DOMAIN todo /\ todo'[n] = todo[n + 1]
        OBVIOUS
    <2>2. /\ todo[n + 1].op = "io" => ChunkWaits(n + 1)
          /\ todo[n + 1].op \in {"exit", "backfill"} => todo[n + 1].code # NoCode
          /\ todo[n + 1].op = "exec" =>
               /\ todo[n + 1].code = NoCode
               /\ \A r \in Table : r.type = "io" =>
                    r.pid # todo[n + 1].pid \/ r.id # todo[n + 1].id
        BY <2>1 DEF LogInv, StatementsFit
    <2>3. ChunkWaits(n + 1) => ChunkWaits(n)'
        BY <2>1 DEF ChunkWaits
    <2> QED
        BY <2>1, <2>2, <2>3
<1>3. \A pid, id : Open(pid, id)' => Open(pid, id)
    BY DEF Open
<1> QED
    BY <1>1, <1>2, <1>3

\* The exit code reaches its command.
LEMMA BackfillLogInv ==
    ASSUME OsInv, CodesInv, LogInv, RunStatement,
           todo[1].op = "backfill", rows' = Backfilled(todo[1])
    PROVE  LogInv'
<1> DEFINE stmt == todo[1]
<1>1. /\ stmt \in Statements /\ 1 \in DOMAIN todo /\ UNCHANGED <<procs, clock, execPids>>
      /\ \A n \in DOMAIN todo' : n + 1 \in DOMAIN todo /\ todo'[n] = todo[n + 1]
    BY StatementRuns
<1>2. rows \in Seq(Rows) /\ Len(rows) \in Nat /\ DOMAIN rows = 1..Len(rows)
    BY StatementIds DEF CodesInv
<1>3. /\ rows' \in Seq(Rows) /\ DOMAIN rows' = DOMAIN rows
      /\ \A n \in DOMAIN rows :
           /\ rows'[n].type = rows[n].type
           /\ rows'[n].pid = rows[n].pid /\ rows'[n].id = rows[n].id
           /\ rows'[n] = rows[n] \/ rows[n].type = "exec"
    BY <1>1, <1>2, BackfilledRows
<1>4. Len(rows') = Len(rows)
    BY <1>2, <1>3
<1>5. \A r \in Table' : \E x \in Table :
        /\ r.type = x.type /\ r.pid = x.pid /\ r.id = x.id
        /\ r = x \/ r.type = "exec"
    BY <1>3 DEF Table
<1> HIDE DEF stmt
<1>6. /\ StatementsFit' /\ \A n \in DOMAIN todo' : todo'[n].id <= clock'
      /\ \A pid, id : Open(pid, id)' => Open(pid, id)
    BY <1>1, <1>5, TodoShrinks
<1>7. ChunksHaveNoCode'
    BY <1>5 DEF LogInv, ChunksHaveNoCode
<1>8. CommandsUndisturbed'
    <2> SUFFICES ASSUME NEW e \in DOMAIN rows', rows'[e].type = "exec"
                 PROVE  /\ Open(rows[e].pid, rows[e].id)' => Undisturbed(e, Len(rows))'
                        /\ \A i \in DOMAIN rows' :
                             rows'[i].type = "io" /\ rows'[i].pid = rows'[e].pid
                             /\ rows'[i].id = rows'[e].id
                                => e < i /\ Undisturbed(e, i)'
        BY DEF CommandsUndisturbed
    <2>1. e \in DOMAIN rows /\ Len(rows) \in DOMAIN rows
        BY <1>2, <1>3
    <2>2. \A i \in DOMAIN rows : Undisturbed(e, i) => Undisturbed(e, i)'
        BY <1>2, <1>3, <2>1 DEF Undisturbed
    <2>3. PICK pid, id : pid = rows[e].pid /\ id = rows[e].id
        OBVIOUS
    <2>4. rows'[e].type = rows[e].type /\ pid = rows'[e].pid /\ id = rows'[e].id
        BY <1>3, <2>1, <2>3
    <2>5. Open(rows[e].pid, rows[e].id)' => Open(rows[e].pid, rows[e].id)
        <3>1. Open(rows[e].pid, rows[e].id)' => Open(pid, id)'
            BY <2>4 DEF Open
        <3> QED
            BY <1>6, <2>3, <3>1
    <2> QED
        BY <1>3, <1>4, <2>1, <2>2, <2>5 DEF LogInv, CommandsUndisturbed
<1>9. IdsHavePassed'
    BY <1>1, <1>5, <1>6 DEF LogInv, IdsHavePassed
<1> QED
    BY <1>6, <1>7, <1>8, <1>9 DEF LogInv

\* A row is inserted: a chunk is of the one execution of its process that is
\* open.
LEMMA InsertLogInv ==
    ASSUME OsInv, ProbeInv, CodesInv, LogInv, RunStatement,
           todo[1].op \in {"exec", "exit", "io"}, rows' = Append(rows, RowOf(todo[1]))
    PROVE  LogInv'
<1> DEFINE stmt == todo[1]
           new == RowOf(stmt)
<1>1. /\ stmt.op \in {"exec", "exit", "io"}
      /\ stmt \in Statements /\ 1 \in DOMAIN todo /\ UNCHANGED <<procs, clock, execPids>>
      /\ \A n \in DOMAIN todo' : n + 1 \in DOMAIN todo /\ todo'[n] = todo[n + 1]
    BY StatementRuns
<1>2. /\ stmt.op = "io" => /\ stmt.code = NoCode /\ Open(stmt.pid, stmt.id)
                           /\ \A n \in DOMAIN todo : todo[n].op # "exec"
                           /\ \A id : Open(stmt.pid, id) => id = stmt.id
      /\ stmt.op = "exec" =>
           \A r \in Table : r.type = "io" => r.pid # stmt.pid \/ r.id # stmt.id
      /\ stmt.id <= clock
    <2>1. stmt.op = "io" => /\ stmt.code = NoCode /\ Open(stmt.pid, stmt.id)
                            /\ \A n \in DOMAIN todo : todo[n].op # "exec"
        BY <1>1 DEF LogInv, StatementsFit, ChunkWaits, Open
    <2>2. stmt.op = "io" => \A id : Open(stmt.pid, id) => id = stmt.id
        BY <1>1, OneOpen
    <2> QED
        BY <1>1, <2>1, <2>2 DEF LogInv, StatementsFit, IdsHavePassed
<1>3. /\ new \in Rows /\ new.type = stmt.op /\ new.pid = stmt.pid /\ new.id = stmt.id
      /\ new.code = stmt.code
    BY <1>1, RowTyped
<1>4. rows \in Seq(Rows) /\ Len(rows) \in Nat /\ DOMAIN rows = 1..Len(rows)
    BY StatementIds DEF CodesInv
<1>5. PICK last \in Nat : last = Len(rows) + 1
    BY <1>4
<1> HIDE DEF stmt
<1>6. /\ rows' \in Seq(Rows) /\ DOMAIN rows' = DOMAIN rows \cup {last} /\ Len(rows') = last
      /\ \A n \in DOMAIN rows : rows'[n] = rows[n]
      /\ rows'[last] = new
    BY <1>3, <1>4, <1>5, RowAdded DEF stmt
<1>7. Table' = Table \cup {new}
    BY <1>3, <1>4, TableGrows DEF stmt
<1> HIDE DEF new
<1>8. ChunksHaveNoCode'
    BY <1>2, <1>3, <1>7 DEF LogInv, ChunksHaveNoCode
<1>9. \A r \in Table' : r.type = "io" =>
        \/ \E x \in Table : x.type = "io" /\ x.pid = r.pid /\ x.id = r.id
        \/ \A n \in DOMAIN todo : todo[n].op # "exec"
    BY <1>2, <1>3, <1>7
<1>10. /\ StatementsFit' /\ \A n \in DOMAIN todo' : todo'[n].id <= clock'
       /\ \A pid, id : Open(pid, id)' => Open(pid, id)
    BY <1>1, <1>9, TodoShrinks
<1>11. IdsHavePassed'
    BY <1>1, <1>2, <1>3, <1>7, <1>10 DEF LogInv, IdsHavePassed
<1>12. CommandsUndisturbed'
    <2> SUFFICES ASSUME NEW e \in DOMAIN rows', rows'[e].type = "exec"
                 PROVE  /\ Open(rows[e].pid, rows[e].id)' => Undisturbed(e, last)'
                        /\ \A i \in DOMAIN rows' :
                             rows'[i].type = "io" /\ rows'[i].pid = rows'[e].pid
                             /\ rows'[i].id = rows'[e].id
                                => e < i /\ Undisturbed(e, i)'
        BY <1>6 DEF CommandsUndisturbed, Undisturbed
    <2>1. CASE e = last
        <3>1. new.type = "exec" /\ rows'[e] = new
            BY <1>6, <2>1
        <3>2. Undisturbed(e, last)'
            BY <1>4, <1>6, <1>5, <2>1, <3>1 DEF Undisturbed
        <3>3. \A i \in DOMAIN rows' :
                rows'[i].type = "io" => rows'[i].pid # new.pid \/ rows'[i].id # new.id
            BY <1>2, <1>3, <1>6, <3>1 DEF Table
        <3> QED
            BY <3>1, <3>2, <3>3
    <2>2. CASE e \in DOMAIN rows
        <3>1. /\ rows[e].type = "exec" /\ rows'[e] = rows[e]
              /\ e \in Nat /\ e >= 1 /\ e < last
            BY <1>4, <1>6, <1>5, <2>2
        <3>2. /\ Open(rows[e].pid, rows[e].id) => Undisturbed(e, Len(rows))
              /\ \A i \in DOMAIN rows :
                   rows[i].type = "io" /\ rows[i].pid = rows[e].pid /\ rows[i].id = rows[e].id
                      => e < i /\ Undisturbed(e, i)
            BY <2>2, <3>1 DEF LogInv, CommandsUndisturbed
        <3>3. \A i \in DOMAIN rows : Undisturbed(e, i) => Undisturbed(e, i)'
            BY <1>4, <1>6, <1>5, <3>1 DEF Undisturbed
        <3>4. Open(rows[e].pid, rows[e].id) => Undisturbed(e, last)'
            <4> SUFFICES ASSUME Open(rows[e].pid, rows[e].id), NEW j \in e..last,
                                rows'[j].pid = rows[e].pid, rows'[j].type = "io"
                         PROVE  rows'[j].id = rows[e].id
                BY <3>1 DEF Undisturbed
            <4>1. CASE j = last
                <5>1. stmt.op = "io" /\ stmt.pid = rows[e].pid /\ rows'[j].id = stmt.id
                    BY <1>3, <1>6, <4>1
                <5> QED
                    BY <1>2, <5>1
            <4>2. CASE j # last
                <5>1. j \in e..Len(rows) /\ j \in DOMAIN rows
                    BY <1>4, <1>5, <3>1, <4>2
                <5> QED
                    BY <1>6, <3>2, <5>1 DEF Undisturbed
            <4> QED
                BY <4>1, <4>2
        <3>5. Open(rows[e].pid, rows[e].id)' => Open(rows[e].pid, rows[e].id)
            <4>1. PICK pid, id : pid = rows[e].pid /\ id = rows[e].id
                OBVIOUS
            <4>2. Open(rows[e].pid, rows[e].id)' => Open(pid, id)'
                BY <3>1, <4>1 DEF Open
            <4> QED
                BY <1>10, <4>1, <4>2
        <3>6. ASSUME NEW i \in DOMAIN rows', rows'[i].type = "io",
                     rows'[i].pid = rows'[e].pid, rows'[i].id = rows'[e].id
              PROVE  e < i /\ Undisturbed(e, i)'
            <4>1. CASE i = last
                <5>1. stmt.op = "io" /\ stmt.pid = rows[e].pid /\ stmt.id = rows[e].id
                    BY <1>3, <1>6, <3>1, <3>6, <4>1
                <5>2. Open(rows[e].pid, rows[e].id)
                    BY <1>2, <5>1
                <5> QED
                    BY <3>1, <3>4, <4>1, <5>2
            <4>2. CASE i \in DOMAIN rows
                BY <1>6, <3>1, <3>2, <3>3, <3>6, <4>2
            <4> QED
                BY <1>6, <3>6, <4>1, <4>2
        <3> QED
            BY <3>4, <3>5, <3>6
    <2> QED
        BY <1>6, <2>1, <2>2
<1> QED
    BY <1>8, <1>10, <1>11, <1>12 DEF LogInv

LEMMA NextLogInv ==
    OsInv /\ ProbeInv /\ CorrInv /\ CodesInv /\ LogInv /\ [Next]_vars => LogInv'
<1> SUFFICES ASSUME OsInv, ProbeInv, CorrInv, CodesInv, LogInv, [Next]_vars PROVE LogInv'
    OBVIOUS
<1>1. CASE /\ UNCHANGED <<execPids, todo, rows>>
           /\ clock' \in {clock, clock + 1}
           /\ todo = << >> \/ UNCHANGED procs
    <2>1. \A n \in DOMAIN todo' : todo'[n].op = "io" => Open(todo'[n].pid, todo'[n].id)
        BY <1>1 DEF Open
    <2>2. \A r \in Table : Open(r.pid, r.id)' => Open(r.pid, r.id)
        BY <2>1, OpenKept DEF LogInv
    <2>3. ChunksHaveNoCode' /\ CommandsUndisturbed' /\ Table' = Table
        BY <1>1, <2>2, TableKept
    <2>4. StatementsFit'
        <3>1. CASE todo = << >>
            BY <1>1, <3>1 DEF StatementsFit
        <3>2. CASE UNCHANGED procs
            BY <1>1, <2>3, <3>2 DEF LogInv, StatementsFit, ChunkWaits
        <3> QED
            BY <1>1, <3>1, <3>2
    <2>5. clock \in Nat /\ clock <= clock' /\ clock' \in Nat
        BY <1>1 DEF OsInv
    <2>6. /\ \A r \in Table : r.id \in Nat
          /\ \A n \in DOMAIN todo : todo[n].id \in Nat
        BY StatementIds DEF Table
    <2>7. IdsHavePassed'
        BY <1>1, <2>3, <2>5, <2>6 DEF LogInv, IdsHavePassed
    <2> QED
        BY <2>3, <2>4, <2>7 DEF LogInv
<1>2. ASSUME \A n \in DOMAIN todo' : n + 1 \in DOMAIN todo /\ todo'[n] = todo[n + 1],
             UNCHANGED <<procs, clock, execPids, rows>>
      PROVE  LogInv'
    <2>1. Table' = Table
        BY <1>2 DEF Table
    <2>2. /\ StatementsFit' /\ \A n \in DOMAIN todo' : todo'[n].id <= clock'
          /\ \A pid, id : Open(pid, id)' => Open(pid, id)
        BY <1>2, <2>1, TodoShrinks
    <2>3. ChunksHaveNoCode' /\ CommandsUndisturbed'
        BY <1>2, <2>2, TableKept
    <2> QED
        BY <1>2, <2>1, <2>2, <2>3 DEF LogInv, IdsHavePassed
<1>3. CASE RunStatement
    BY <1>2, <1>3, StatementRuns, BackfillLogInv, InsertLogInv
<1>4. CASE FailStatement
    <2>1. /\ todo \in Seq(Statements) /\ todo # << >> /\ todo' \in {Tail(todo), << >>}
          /\ UNCHANGED <<procs, clock, execPids, rows>>
        BY <1>4 DEF FailStatement, CodesInv, osVars
    <2>2. \A n \in DOMAIN todo' : n + 1 \in DOMAIN todo /\ todo'[n] = todo[n + 1]
        <3>1. CASE todo' = Tail(todo)
            BY <2>1, <3>1, StatementTaken
        <3>2. CASE todo' = << >>
            BY <3>2
        <3> QED
            BY <2>1, <3>1, <3>2
    <2> QED
        BY <1>2, <2>1, <2>2
<1>5. CASE Crash
    <2>1. todo' = << >> /\ clock' = clock /\ rows' = rows
        BY <1>5 DEF Crash, dbVars
    <2>2. \A r \in Table : Open(r.pid, r.id)' => Open(r.pid, r.id)
        BY <2>1, OpenKept DEF LogInv
    <2>3. ChunksHaveNoCode' /\ CommandsUndisturbed' /\ Table' = Table
        BY <2>1, <2>2, TableKept
    <2>4. StatementsFit' /\ IdsHavePassed'
        BY <2>1, <2>3 DEF LogInv, StatementsFit, IdsHavePassed
    <2> QED
        BY <2>3, <2>4 DEF LogInv
<1>6. CASE UNCHANGED vars
    BY <1>1, <1>6 DEF vars, osVars, dbVars
<1> QED
    BY <1>1, <1>3, <1>4, <1>5, <1>6, HandledEvents, ExecLogInv, IoLogInv, ExitLogInv DEF dbVars

LEMMA LogInvAlways == Spec => []LogInv
BY InitLogInv, NextLogInv, OsInvAlways, ProbeInvAlways, SessionsAsProved, CodesInvAlways, PTL
   DEF Spec
-----------------------------------------------------------------------------
(* The panel. *)

\* The row a panel was opened for is still there, and no code is taken back.
EventInv ==
    /\ detail.event \in DOMAIN rows
    /\ LET row == rows[detail.event] IN
         /\ detail.row.type = row.type /\ detail.row.sid = row.sid
         /\ detail.row.pid = row.pid /\ detail.row.id = row.id
         /\ detail.row.code # NoCode => row.code # NoCode

\* The chunks of a panel are in the table; once it has a code, those it lacks
\* were recorded after the exit.
IoInv ==
    /\ detail.stdin \subseteq Chunks(detail.row, {0})
    /\ detail.stdout \subseteq Chunks(detail.row, {1, 2})
    /\ detail.row.code # NoCode =>
         Chunks(detail.row, 0..2) \ (detail.stdin \cup detail.stdout) \subseteq AfterExit(detail.row)

ChildrenInv ==
    \A child \in detail.children :
        /\ child.row \in DOMAIN rows
        /\ child.code # NoCode =>
             /\ rows[child.row].code # NoCode
             /\ ~child.hasIo =>
                  Chunks(rows[child.row], Fds) \subseteq AfterExit(rows[child.row])

PanelShape ==
    /\ at \in {"closed", "io", "children", "parent", "shown"}
    /\ at # "closed" =>
         DOMAIN detail = {"event", "row", "stdin", "stdout", "children", "parent"}

PanelInv ==
    /\ PanelShape
    /\ at # "closed" => EventInv
    /\ at \in {"children", "parent", "shown"} => IoInv
    /\ at \in {"parent", "shown"} => ChildrenInv

\* What a step of the recorder leaves of the rows, and where it adds one.
LEMMA RowsStep ==
    ASSUME OsInv, CodesInv, LogInv, [Next]_vars
    PROVE  /\ \A i \in DOMAIN rows :
                /\ i \in DOMAIN rows'
                /\ rows'[i].type = rows[i].type /\ rows'[i].sid = rows[i].sid
                /\ rows'[i].pid = rows[i].pid /\ rows'[i].id = rows[i].id
                /\ rows'[i].fd = rows[i].fd
                /\ rows[i].code # NoCode => rows'[i].code # NoCode
           /\ \A i \in DOMAIN rows' \ DOMAIN rows : \A e \in DOMAIN rows : e \in 1..i - 1
<1>1. rows \in Seq(Rows)
    BY DEF CodesInv
<1>2. CASE rows' = rows
    BY <1>2
<1>3. CASE RunStatement
    <2>1. todo[1] \in Statements /\ 1 \in DOMAIN todo
        BY <1>3, StatementRuns
    <2>2. CASE todo[1].op = "backfill" /\ rows' = Backfilled(todo[1])
        <3>1. todo[1].code # NoCode
            BY <2>1, <2>2 DEF LogInv, StatementsFit
        <3> QED
            BY <1>1, <2>1, <2>2, <3>1, BackfilledRows
    <2>3. CASE todo[1].op \in {"exec", "exit", "io"} /\ rows' = Append(rows, RowOf(todo[1]))
        <3>1. RowOf(todo[1]) \in Rows
            BY <2>1, <2>3, RowTyped
        <3>2. /\ DOMAIN rows' = DOMAIN rows \cup {Len(rows) + 1}
              /\ \A n \in DOMAIN rows : rows'[n] = rows[n]
            BY <1>1, <2>3, <3>1, RowAdded
        <3>3. Len(rows) \in Nat /\ \A e \in DOMAIN rows : e \in 1..(Len(rows) + 1) - 1
            BY StatementIds
        <3> QED
            BY <3>2, <3>3
    <2> QED
        BY <1>2, <1>3, <2>2, <2>3, StatementRuns
<1>4. CASE FailStatement \/ Crash
    BY <1>2, <1>4 DEF FailStatement, Crash, dbVars
<1>5. CASE UNCHANGED vars
    BY <1>2, <1>5 DEF vars, dbVars
<1> QED
    BY <1>2, <1>3, <1>4, <1>5, HandledEvents DEF dbVars

\* An exit event of the execution that row of is of.
ExitRow(e, of) == /\ rows[e].type = "exit" /\ rows[e].sid = of.sid
                  /\ rows[e].pid = of.pid /\ rows[e].id = of.id

\* A row with a code has an exit, which may be itself.
LEMMA CodedHasExit ==
    ASSUME CodesInv, LogInv, NEW i \in DOMAIN rows, rows[i].code # NoCode
    PROVE  \E e \in DOMAIN rows : ExitRow(e, rows[i])
<1>1. rows[i] \in Table /\ rows[i] \in Rows
    BY StatementIds DEF Table
<1>2. CASE rows[i].type = "exit"
    BY <1>2 DEF ExitRow
<1>3. CASE rows[i].type = "exec"
    <2>1. PICK x \in Table : /\ x.type = "exit" /\ x.pid = rows[i].pid
                             /\ x.id = rows[i].id /\ x.sid = rows[i].sid
        BY <1>1, <1>3 DEF CodesInv, CodesComeFromExits
    <2> QED
        BY <2>1 DEF Table, ExitRow
<1>4. rows[i].type # "io"
    BY <1>1 DEF LogInv, ChunksHaveNoCode
<1> QED
    BY <1>1, <1>2, <1>3, <1>4 DEF Rows

\* The chunks of an execution only become more, and what comes after its exit
\* is recorded after its exit.
LEMMA ChunksStep ==
    ASSUME OsInv, CodesInv, LogInv, [Next]_vars, NEW of, NEW fds
    PROVE  /\ Chunks(of, fds) \subseteq Chunks(of, fds)'
           /\ AfterExit(of) \subseteq AfterExit(of)'
           /\ (\E e \in DOMAIN rows : ExitRow(e, of)) =>
                Chunks(of, fds)' \ Chunks(of, fds) \subseteq AfterExit(of)'
<1>1. /\ \A i \in DOMAIN rows :
            /\ i \in DOMAIN rows'
            /\ rows'[i].type = rows[i].type /\ rows'[i].sid = rows[i].sid
            /\ rows'[i].pid = rows[i].pid /\ rows'[i].id = rows[i].id
            /\ rows'[i].fd = rows[i].fd
      /\ \A i \in DOMAIN rows' \ DOMAIN rows : \A e \in DOMAIN rows : e \in 1..i - 1
    BY RowsStep
<1>2. Chunks(of, fds) \subseteq Chunks(of, fds)'
    BY <1>1 DEF Chunks
<1>3. AfterExit(of) \subseteq AfterExit(of)'
    <2> SUFFICES ASSUME NEW i \in DOMAIN rows, NEW e \in 1..i - 1, ExitRow(e, of)
                 PROVE  i \in AfterExit(of)'
        BY DEF AfterExit, ExitRow
    <2>1. e \in DOMAIN rows
        BY StatementIds
    <2> QED
        BY <1>1, <2>1 DEF AfterExit, ExitRow
<1>4. ASSUME NEW e \in DOMAIN rows, ExitRow(e, of),
             NEW i \in Chunks(of, fds)' \ Chunks(of, fds)
      PROVE  i \in AfterExit(of)'
    <2>1. i \in DOMAIN rows' \ DOMAIN rows
        BY <1>1, <1>4 DEF Chunks
    <2> QED
        BY <1>1, <1>4, <2>1 DEF AfterExit, ExitRow
<1> QED
    BY <1>2, <1>3, <1>4

LEMMA RecorderPanelInv ==
    ASSUME OsInv, CodesInv, LogInv, PanelInv, [Next]_vars, UNCHANGED readerVars
    PROVE  PanelInv'
<1>1. at' = at /\ detail' = detail
    BY DEF readerVars
<1>2. ASSUME EventInv PROVE EventInv'
    BY <1>1, <1>2, RowsStep DEF EventInv
<1>3. ASSUME EventInv, IoInv PROVE IoInv'
    <2>1. PICK of : of = detail.row
        OBVIOUS
    <2>2. /\ \A fds : /\ Chunks(detail.row, fds)' = Chunks(of, fds)'
                      /\ Chunks(detail.row, fds) = Chunks(of, fds)
          /\ AfterExit(detail.row)' = AfterExit(of)' /\ AfterExit(detail.row) = AfterExit(of)
        BY <1>1, <2>1 DEF Chunks, AfterExit
    <2>3. of.code # NoCode => \E e \in DOMAIN rows : ExitRow(e, of)
        BY <1>3, <2>1, CodedHasExit DEF EventInv, ExitRow
    <2>4. \A fds : /\ Chunks(of, fds) \subseteq Chunks(of, fds)'
                   /\ of.code # NoCode => Chunks(of, fds)' \ Chunks(of, fds) \subseteq AfterExit(of)'
        BY <2>3, ChunksStep
    <2>5. AfterExit(of) \subseteq AfterExit(of)'
        BY ChunksStep
    <2> QED
        BY <1>1, <1>3, <2>1, <2>2, <2>4, <2>5 DEF IoInv
<1>4. ASSUME ChildrenInv PROVE ChildrenInv'
    <2> SUFFICES ASSUME NEW child \in detail.children
                 PROVE  /\ child.row \in DOMAIN rows'
                        /\ child.code # NoCode =>
                             /\ rows'[child.row].code # NoCode
                             /\ ~child.hasIo => Chunks(rows[child.row], Fds)'
                                                  \subseteq AfterExit(rows[child.row])'
        BY <1>1 DEF ChildrenInv
    <2>1. /\ child.row \in DOMAIN rows
          /\ child.code # NoCode =>
               /\ rows[child.row].code # NoCode
               /\ ~child.hasIo =>
                    Chunks(rows[child.row], Fds) \subseteq AfterExit(rows[child.row])
        BY <1>4 DEF ChildrenInv
    <2>2. PICK of : of = rows[child.row]
        OBVIOUS
    <2>3. /\ Chunks(rows[child.row], Fds)' = Chunks(of, Fds)'
          /\ AfterExit(rows[child.row])' = AfterExit(of)'
        BY <2>1, <2>2, RowsStep DEF Chunks, AfterExit
    <2>4. rows[child.row].code # NoCode => \E e \in DOMAIN rows : ExitRow(e, of)
        BY <2>1, <2>2, CodedHasExit
    <2>5. /\ Chunks(of, Fds) \subseteq Chunks(of, Fds)'
          /\ AfterExit(of) \subseteq AfterExit(of)'
          /\ (\E e \in DOMAIN rows : ExitRow(e, of)) =>
               Chunks(of, Fds)' \ Chunks(of, Fds) \subseteq AfterExit(of)'
        BY ChunksStep
    <2>6. /\ child.row \in DOMAIN rows'
          /\ rows[child.row].code # NoCode => rows'[child.row].code # NoCode
        BY <2>1, RowsStep
    <2> QED
        BY <2>1, <2>2, <2>3, <2>4, <2>5, <2>6
<1> QED
    BY <1>1, <1>2, <1>3, <1>4 DEF PanelInv, PanelShape

\* Each statement of the reader adds what it reads and changes nothing else.
LEMMA ReaderPanelInv ==
    ASSUME CodesInv, PanelInv, UNCHANGED vars,
           (\E i \in DOMAIN rows : GetRow(i)) \/ FetchIo \/ FetchChildren \/ FetchParent
             \/ CloseDetail
    PROVE  PanelInv'
<1> USE DEF PanelInv, PanelShape
<1>1. rows' = rows
    BY DEF vars, dbVars
<1>2. \A of : /\ \A fds : Chunks(of, fds)' = Chunks(of, fds)
             /\ AfterExit(of)' = AfterExit(of)
    BY <1>1 DEF Chunks, AfterExit
<1>c. \A of : Chunks(of, 0..2) = Chunks(of, {0}) \cup Chunks(of, {1, 2})
    <2>1. 0..2 = {0} \cup {1, 2}
        OBVIOUS
    <2> QED
        BY <2>1 DEF Chunks
<1>3. ASSUME NEW i \in DOMAIN rows, GetRow(i) PROVE PanelInv'
    BY <1>1, <1>3 DEF GetRow, EventInv
<1>4. CASE FetchIo
    <2>1. /\ at = "io" /\ at' = "children" /\ DOMAIN detail' = DOMAIN detail
          /\ detail'.event = detail.event /\ detail'.row = detail.row
          /\ detail'.stdin = Chunks(detail.row, {0})
          /\ detail'.stdout = Chunks(detail.row, {1, 2})
        BY <1>4 DEF FetchIo, IoOf
    <2>2. Chunks(detail.row, 0..2) \ (detail'.stdin \cup detail'.stdout) = {}
        BY <1>c, <2>1
    <2>3. EventInv'
        BY <1>1, <2>1 DEF EventInv
    <2>4. IoInv'
        <3>1. /\ \A fds : Chunks(detail.row, fds)' = Chunks(detail.row, fds)
              /\ AfterExit(detail.row)' = AfterExit(detail.row)
            BY <1>1, <2>1 DEF Chunks, AfterExit
        <3> QED
            BY <2>1, <2>2, <3>1 DEF IoInv
    <2> QED
        BY <2>1, <2>3, <2>4
<1>5. CASE FetchChildren
    <2>1. /\ at = "children" /\ at' = "parent" /\ DOMAIN detail' = DOMAIN detail
          /\ detail'.event = detail.event /\ detail'.row = detail.row
          /\ detail'.stdin = detail.stdin /\ detail'.stdout = detail.stdout
          /\ detail'.children = ChildrenOf(detail.row)
        BY <1>5 DEF FetchChildren
    <2>2. EventInv' /\ IoInv'
        BY <1>1, <1>2, <2>1 DEF EventInv, IoInv
    <2>3. \A child \in detail'.children :
            /\ child.row \in DOMAIN rows /\ child.code = rows[child.row].code
            /\ child.hasIo = (Chunks(rows[child.row], Fds) # {})
        BY <2>1 DEF ChildrenOf
    <2>4. ChildrenInv'
        BY <1>1, <1>2, <2>3 DEF ChildrenInv
    <2> QED
        BY <2>1, <2>2, <2>4
<1>6. CASE FetchParent
    <2>1. /\ at = "parent" /\ at' = "shown" /\ DOMAIN detail' = DOMAIN detail
          /\ detail'.event = detail.event /\ detail'.row = detail.row
          /\ detail'.stdin = detail.stdin /\ detail'.stdout = detail.stdout
          /\ detail'.children = detail.children
        BY <1>6 DEF FetchParent
    <2>2. EventInv' /\ IoInv' /\ ChildrenInv'
        BY <1>1, <1>2, <2>1 DEF EventInv, IoInv, ChildrenInv
    <2> QED
        BY <2>1, <2>2
<1>7. CASE CloseDetail
    BY <1>7 DEF CloseDetail
<1> QED
    BY <1>3, <1>4, <1>5, <1>6, <1>7

-----------------------------------------------------------------------------
\* The reader changes nothing the recorder or the processes see: with it the
\* recording process behaves as without, and what is proved of that holds
\* here too.
LEMMA ReaderLeavesRecorderAlone == DetailsSpec => Spec
<1>1. DetailsInit => Init
    BY DEF DetailsInit
<1>2. [DetailsNext]_detailsVars => [Next]_vars
    BY DEF DetailsNext, detailsVars, GetRow, FetchIo, FetchChildren, FetchParent, CloseDetail
<1> QED
    BY <1>1, <1>2, PTL DEF DetailsSpec, Spec

LEMMA PanelInvAlways == DetailsSpec => []PanelInv
<1>1. DetailsInit => PanelInv
    BY DEF DetailsInit, PanelInv, PanelShape
<1>2. OsInv /\ CodesInv /\ LogInv /\ PanelInv /\ [DetailsNext]_detailsVars => PanelInv'
    <2> SUFFICES ASSUME OsInv, CodesInv, LogInv, PanelInv, [DetailsNext]_detailsVars
                 PROVE  PanelInv'
        OBVIOUS
    <2>1. CASE [Next]_vars /\ UNCHANGED readerVars
        BY <2>1, RecorderPanelInv
    <2>2. CASE \/ \E i \in DOMAIN rows : GetRow(i)
               \/ FetchIo \/ FetchChildren \/ FetchParent \/ CloseDetail
        <3>1. UNCHANGED vars
            BY <2>2 DEF GetRow, FetchIo, FetchChildren, FetchParent, CloseDetail
        <3> QED
            BY <2>2, <3>1, ReaderPanelInv
    <2> QED
        BY <2>1, <2>2 DEF DetailsNext, detailsVars
<1> QED
    BY <1>1, <1>2, ReaderLeavesRecorderAlone, OsInvAlways, CodesInvAlways, LogInvAlways, PTL
       DEF DetailsSpec

\* A panel or a child that shows an exit code shows all the input and output
\* recorded before the exit of that execution, for as long as it is open,
\* although four statements without a transaction read it while the recorder
\* writes, and whatever records are lost, statements fail or crashes come
\* between: what it lacks, a thread published after another one's exit_group.
THEOREM ExitedPanelsAreComplete == DetailsSpec => []ExitedMeansComplete
<1>1. PanelInv => ExitedMeansComplete
    BY DEF PanelInv, IoInv, ChildrenInv, ExitedMeansComplete
<1> QED
    BY <1>1, PanelInvAlways, PTL

\* A command's panel shows no input or output of another execution of the
\* same pid: between the command and its last chunk the table has no chunk of
\* another one, through every fault and however late threads publish.
THEOREM PanelsShowNoForeignIo == DetailsSpec => []NoForeignIo
<1>1. LogInv /\ CodesInv /\ PanelInv => NoForeignIo
    <2> SUFFICES ASSUME LogInv, CodesInv, PanelInv, at = "shown", detail.row.type = "exec",
                        NEW i \in detail.stdin \cup detail.stdout
                 PROVE  /\ detail.event < i
                        /\ \A j \in detail.event..i :
                             rows[j].pid = detail.row.pid /\ rows[j].type = "io"
                                => rows[j].id = detail.row.id
        BY DEF NoForeignIo
    <2>1. /\ i \in DOMAIN rows /\ rows[i].type = "io"
          /\ rows[i].pid = detail.row.pid /\ rows[i].id = detail.row.id
        BY DEF PanelInv, IoInv, Chunks
    <2>2. /\ detail.event \in DOMAIN rows /\ rows[detail.event].type = "exec"
          /\ rows[detail.event].pid = detail.row.pid /\ rows[detail.event].id = detail.row.id
        BY DEF PanelInv, EventInv
    <2>3. detail.event < i /\ Undisturbed(detail.event, i)
        BY <2>1, <2>2 DEF LogInv, CommandsUndisturbed
    <2> QED
        BY <2>2, <2>3 DEF Undisturbed
<1> QED
    BY <1>1, PanelInvAlways, ReaderLeavesRecorderAlone, LogInvAlways, CodesInvAlways, PTL
=============================================================================
