# Specifications of ShellSpectre

ShellSpectre records what is executed, read and written on a machine: eBPF
programs publish records in a ring buffer, a recorder turns them into sessions
and rows of an SQLite database, and a web server lists, filters and streams the
rows.  This directory holds TLA+ models of it, written from the Rust source,
the TLC configurations that check them on small instances, and TLAPS proofs of
what holds for every instance.

    tlc -workers 2 -config Probe_threads.cfg MCProbe.tla    # a run
    tlapm ProbeProofs.tla                                   # a proof module

`PROJECT.json` lists the components, the runs, which lines of the source each
definition stands for, a mutant of the model for each property (the plausible
bug the property finds), the hazards, the findings and the theorems.


## 1. The system

    threads ──syscalls──▶ eBPF programs ──ring──▶ event loop ─▶ parse ─▶ handler
                          (5 hash maps)                              correlator, filter
                                                                         │
    browser ◀──HTML/SSE── web server ◀──read-only── SQLite ◀──statements── sink

| component | state it keeps | operations | what makes it correct |
|---|---|---|---|
| eBPF probe, `shspectr-ebpf/src/main.rs` | `PENDING_EXEC`, `PENDING_READ`, `PENDING_WRITE`, `EXEC_PIDS`, `SELF_TGID`, the ring `EVENTS` | seven tracepoint programs, entry and exit of execve, read and write, entry of exit_group | a record names the image and the call it is about; no map entry outlives its call unnoticed; shspectr never records itself |
| loader, `shspectr/src/ebpf.rs` `run` | which programs are attached, `OFFSETS` | load, set `SELF_TGID`, write the offsets, attach one program after another | the self filter is there before the first program |
| event loop, `ebpf.rs` `consume_events`, `shspectr-web/src/lib.rs` `start_server` | readiness of the ring's descriptor, cancellation token, web task | select, drain, clear_ready; Ctrl+C task; server start, graceful shutdown | no record is slept over; the recorder stops when asked |
| session correlator, `shspectr/src/session.rs` | `pid_map`, `tty_sessions` | `on_exec`, `session_for`, `on_exit`, `ancestor_comms` | a process stays in its session; sessions of terminals are distinct; a complete session stays empty |
| handler and filter, `handler.rs`, `filter.rs` | none | one handler for each kind of event | the correlator sees every event, the sink the ones that pass |
| SQLite sink, `sqlite_sink.rs`, `schema.rs` | tables `sessions` and `events` | `on_exec`, `on_io`, `on_exit`; `open` with its migrations | exit codes reach the command they end; ended_at is right; no migration loses a row |
| live view, `api.rs` `live_events`, `event.rs` `list_since` | the mark of a stream, the browser's Last-Event-ID | connect, poll every 500 ms, resume | every new row once, in order |
| event lists, `api.rs` `list_events`, `app.rs`, `listing.rs`, `event.rs` `list` | what the browser shows | first page, sort, infinite scroll | pages fit together while rows arrive |
| filter language, `filter.rs` (web), `build_where_clause` | none | parse a query, build the SQL condition | a query means what the documentation says |
| event details, `api.rs`, `event.rs` `get_detail` | what a panel has read | the row, its I/O, its children, its parent | a panel shows its own command, and once it has ended all that was recorded before |
| presentation, `presentation/web/event.rs`, `templates/base.html` | the query in the search box | show a row's values; a click rebuilds the query | the row that was clicked stays in the list |
| wire format, `shspectr-common/src/event.rs`, `shspectr/src/event.rs` | `EXEC_SCRATCH` | fill a record, cut strings and data; check version and size, parse | an event says what the call was |
| BTF resolver, `btf.rs`, `offsets.rs` | none | check the image, walk the types, find twelve fields | the offsets are the kernel's |
| command line, `main.rs` | how far starting has come | choose the sink, open it, load, resolve, attach, run | an error on the way ends the process and leaves the database whole |
| stdout and OpenTelemetry sinks, middleware, static files | none | formatting, plumbing | no state of their own; not modelled |

They meet in few places.  Programs and event loop share the ring; programs share
the maps with each other, on different CPUs.  The event loop calls the handler,
which calls the correlator and the sink, in one task.  The recorder and the web
server share the database file only; the web server never writes.  Ctrl+C, the
web task and the event loop share the cancellation token.  `execution_id`, the
time of the exec, is copied from the Exec record through `EXEC_PIDS` into every
later record, and is what the web UI joins rows on.

The behaviours that are hard to test, each listed with its line under
"hazards" in `PROJECT.json`:

* programs of two threads of one process interleave, and with exit_group of a
  third; reads between the lookup in `EXEC_PIDS` and the publication;
* a full ring or a full map ends a program at different points of its cleanup;
* processes die without an exit event, tgids and pids are recycled;
* lost exec and exit events reach the correlator as sequences no kernel makes;
* the statements of one event are separate transactions: each can fail, and the
  recorder can die between any two of them;
* a migration can be interrupted between any two of its statements;
* records are committed out of order, and readiness is edge-triggered;
* shutdown depends on three parties; live streams never end by themselves;
* rows are inserted and changed while a list is paged or a stream resumes;
* negation and patterns go through SQL's three-valued logic and three
  translations of special characters, and a click writes such a query itself;
* a panel is read in four statements without a transaction, while rows are
  inserted and changed;
* the I/O of one thread is published after another thread's exit;
* the filter of a list is evaluated anew for each page, and travels in links;
* records are built in scratch space that all tasks of a CPU share, and read with
  offsets that a walk over the running kernel's types found.


## 2. The modules

`BpfMap` has the few operators on partial functions that stand for hash maps.

**`Probe`**: the seven programs and the loader.  A thread `<<tgid, tid>>` is a
process of the model; `call[k]` says which system call it is in and how far the
program got.  Every tracepoint function is an action (`EnterRead` is
`sys_enter_read`, ...).  A program that copies an execution_id and publishes
later is two steps (`ExitRead`, `SubmitRead`; `EnterExitGroup`, `SubmitExit`,
`CleanUpExit`), because another CPU can run in between; reserve, fill and submit are one
step, because the reader cannot pass a reserved slot.  `sys_exit_execve` is one
step as well: when it runs, the caller is the only thread of its process.  The
kernel (fork, clone, kill, recycling of ids, the change of tid when a worker
thread executes a program) is modelled as far as the programs can tell and is
marked external.  `image` and `recorded` are history: the time of each process's
last successful execve, and the Exec records that were published.

**`SessionCorrelator`**: `pidMap`, `ttySessions`, and the three operations
`OnExec`, `OnIo`, `OnExit`.  It assumes nothing about the order of events, since
the ring loses records: its specification `CorrSpec` allows every stream, and
a restart at any time.

**`Collector`**: probe (reduced to what reaches the handler), handler, filter,
correlator and sink composed, over a small process tree.  An event is handled in
the step that produces it, which gives `todo`, the list of statements the sink is
about to run; every statement is a step of its own (`RunStatement`), can fail
(`FailStatement`) and can be cut off (`Crash`, `Start`).  A read or write is two steps,
`LookUp` in `EXEC_PIDS` and `ReadOrWrite`, its publication: in between another thread may
exit (`ExitGroup`), and then the process is there (`ending`) until its threads have left
their programs.  It EXTENDS `SessionCorrelator` and takes each step of the correlator from it.

**`EventLoop`**: ring slots that are reserved and committed in any order, tokio's
readiness with its rule that an event since the guard was taken survives
`clear_ready`, the loop `start - select - drain - clear`, the Ctrl+C task, the web
server and its graceful shutdown, and the signals.

**`Migration`**: `SqliteSink::open` statement by statement on a file left by any
earlier version, with crashes between statements and inside the schema script.
SQLite's rules are part of it: an index follows a renamed table and keeps its
name, `CREATE INDEX IF NOT EXISTS` looks at the name only, and a rename to a name
in use fails.

**`Tail`**: what a live view promises, with no streams in it: pages of rows, each
above everything shown before, that leave out no row selected all along.

**`LiveTail`**: the rows one view selects, a stream with its mark, the events in
flight, and a browser that remembers the last id it received.  It implements
`Tail` (`TailSpec`): the table is the table, `pages` is what was shown, `from` is
where the view began.

**`Paging`**: the commands in the table, the query of a list and what it selects
(`Matching`, evaluated anew by each statement), a request in its two statements
(`Count`, `Select`), the links that carry the query to the next request (`Linked`), and a browser
that sorts, scrolls and keeps no more than `MaxShown` rows (`Capped`).  `view.kept` is
history: whether the scroll is still of one query, and all rows that were in the list
still are.

**`FilterDsl`**: `EventFilter::parse` as one step for each token, and
`build_where_clause` as operators over rows, with NULL as the empty set.

**`EventView`** EXTENDS `FilterDsl` with the way back: what list and panel show of a
row (`Shown`, with the command's name and its fallbacks), the query
`shspectrBuildQuery` makes of a click on it (`Click`), and that query's tokens read
one by one (`ReadInput`) as if they had been typed.

**`Details`** EXTENDS `Collector` with a reader: `get_detail` fetches the row, its
I/O, its children and its parent (`GetRow`, `FetchIo`, `FetchChildren`,
`FetchParent`), each a statement with a snapshot of its own, between which any step
of the collector may fall.

**`Btf`**: `KernelBtf` as operators on an image of words: the header checks, the walk,
`extra_bytes`, the members, the twelve fields.  `Image` is the other side, what the
format says of a list of types, and `TrueOffset` the answer without a walk.

**`Records`**: a call becomes a record (`FillHeader`, `FillExec`, `FillIo`: kernel memory
is a tree of objects read by the offsets found, user strings are cut as the helpers
cut them) and the record an event (`HeaderOk`, `CStr`, the three parsers).  The exec
record stays in scratch space and in the pending map from entry to return, with
other tasks' calls in between.

**`Recorder`** EXTENDS `Migration` and `Records`: `main` from the choice of the sink over
its opening, `load`, `resolve_task_field_offsets` and attaching to the calls recorded,
with an end at any point that takes the probe's maps along and leaves the file.

`MC*` modules give the constants of an instance, `*Proofs` modules hold theorems.
Operators marked MUTANT are plausible bugs, used only to see that a property
notices them.

### What the models leave out

Each model keeps of an event what its properties look at.  `Probe` has neither names
nor bytes, and of `is_pty_fd` its answer (`PtyFds`); `Records` has both and takes a
record off the ring at once.  `Records` leaves out the fields that are copied
unchanged (uid, gid, comm, cgroup, time) and bytes that are not UTF-8; it has one
CPU.  `Btf` counts in words and has whole names; the kind flag, which changes how bit
fields are laid out, is left out.  Session ids are 1, 2, ...: `generate_session_id` draws eight
random characters, taken never to collide.  Discarded reservations do not occupy the
probe's ring (they do in `EventLoop`).  In `Collector` the ring is a channel that may
lose a record ("lost" in `Faults`), and the order of records is the order of events;
a process has as many threads as it likes, all with the same execution looked up.
A browser has one list request open at a time.  Its cap of 500 rows (`base.html:75-85`) is in
`Paging` and left out of `LiveTail`.  Of a row's columns `Paging` filters on two, one that never changes
and the exit code.  Left out are LIKE's folding of ASCII case and the "did you mean" suggestion.  Of the panel, ANSI colours and
wording are left out.  The wrap of `offset()` at 2^32 is in the model, but a table of a
few rows does not reach it.


## 3. The runs

| run | question | states |
|---|---|---|
| `Probe_threads` | two threads of one process and the recorder's own; ring of one record; `EXEC_PIDS` of one | 0.9 million |
| `Probe_processes` | two processes of one thread while the loader attaches; one slot in `EXEC_PIDS`; ring of two | 2.4 million |
| `SessionCorrelator` | every stream of events over three pids, two terminals, three sessions | 0.2 million |
| `Collector_faults` | all faults at once, three events | 2.0 million |
| `Collector_losses` | lost records and kills, four events, and a panel read beside them (`DetailsSpec`) | 6.2 million |
| `EventLoop` | ring of three, the web server on, one live stream; safety and liveness | 30568 |
| `Migration` | the recorder from `main` to its end (`RecorderSpec`): every earlier table, up to two crashes, three opens; five kernels, two probes, two calls | 0.3 million |
| `LiveTail` | four rows, polls of two, two breaks; safety, liveness and `Tail` | 0.1 million |
| `Paging` | three rows, pages of two, all orders, with and without a filter on exit codes | 1.4 million |
| `FilterDsl` | queries of three of 21 tokens over seven rows, typed or clicked (`ViewSpec`) | 0.2 million |
| `Collector_forked_exit` | violation, section 5 | |
| `Migration_oldest` | violation, section 5 | |

What they show:

* **Probe.** `PendingHeld`: no other program takes the entry of a call away
  between lookup and submit.  `PendingExecInCall`: execve consumes its entry, full
  ring or not (for the leader; a worker's own entry stays, see section 6).
  `IdsAreRecorded`: an execution_id anywhere stems from a published Exec record of
  that process.  `RecordedImageIsCurrent` and `IoNamesItsImage`: I/O is credited to
  the running image, provided its Exec record was published.  `IoNamesItsCall`: a
  record describes the call that is returning.  `SelfIsSilent`: shspectr records
  nothing of itself, at any moment of attaching.  `NothingAfterExit`: an Exit record
  is the thread's last word for its image.
* **Correlator.** `TtySessionsDistinct`, `CompletedStaysEmpty` (a session reported
  complete gets a process again only through a terminal), `SessionIsStable`.
* **Collector.** `EndedStaysEmpty` and `CodesComeFromExits` under all faults;
  `ExitsReachCommands` and `EmptyMeansEnded` when no statement fails.
* **Event details.** `ExitedMeansComplete`: a panel with an exit code shows all the I/O that
  was recorded before the exit, although it is read in four statements: the code is copied
  after the exit, and the chunks are read after the code; so it is with a child that has a
  code and counts as silent.  What another thread publishes after the exit may be missing
  from a panel (section 6).  `NoForeignIo`: no panel of a command shows what another execution
  of the same pid read or wrote.
* **Event loop.** `NoLostWakeup`, `EveryRecordTaken`, `StopsWhenAsked`; and
  `TypeOK` says that a finished web task has set the token.
* **Migration.** `RowsSurvive` any interruption, `ReopenSucceeds` after it,
  `HistoryIsMigrated` and `IndexesAfterReopen` without one.
* **Recorder.** `EventsTellTheCalls`: an event has the caller's ids, terminal, strings and
  data, cut where they do not fit, whatever another task did on the CPU between entry and
  return; a record of another wire version becomes no event.  `RefusesOnlyTheUnknown`:
  the recorder starts on every intact kernel that has the fields, in whatever order and
  beside whatever other types.
* **Live view.** `ShownOnceInOrder`, `NothingSkipped` and `EveryRowShown`, over
  breaks and cut polls, for rows that stay selected; `TailSpec`.
* **Lists.** `ScrollIsExact` on a table at rest; `NothingJumped` while rows come
  in, new ones and ones whose exit code the filter waited for; `EndMeansAll` unless a row came in
  since the last COUNT.  All three for a scroll whose links preserve the filter, the last two
  as long as no row leaves the list (`view.kept`), and by columns other than the exit code;
  section 6 has what happens otherwise.
* **Filters.** `LastTokenWins`, `NegationComplements` (with NULL and alternatives),
  `PatternsMean` (against a glob matcher that knows nothing of LIKE).  For `cmd` the strings
  meant are the basenames: all rows with a directory whose basename matches are selected, and no
  others if the value has no character that can match a slash (`CrossesSlash`; section 6).
  `ClickKeepsRow`: a click on a value of a row that the query selects keeps it in the list, whatever
  the query was, with the exceptions of `Findable`.  The box may hold a query that was edited since
  the list was loaded; a click on a row it does not select is a step of the model (`Click`), of which
  nothing is asked.

### Bounds, and why they are enough

* *Probe.* Interference needs two threads of one process (a worker's execve, an
  exit_group beside a read) or two processes that compete for a slot or inherit a
  tgid; the runs have one of each.  Fds 0 and 1 are each other's unwatched
  descriptor.  A ring of one record is full after every publication; two are needed
  to compare an Exit with what follows it.  `MaxClock` 2 gives every process an
  image, a failed or second execve, and a stale id.
* *Correlator.* Parent, child and a stranger; two terminals to confuse.
* *Collector, Details.* init and two processes are a parent, a child and an orphan.
  With all faults, three events are an exec, an exit and one more around a crash; with
  losses only, four are a command, its output, its exit and a child, or an exec, a kill
  unseen and the I/O of the pid's next owner.  Descriptors are the input, an output
  and one that panels leave out.  `clock` serves as execution_id and counts events.
* *EventLoop.* Three slots: one read, one committed out of order, one busy.  The
  state space is finite as it stands.
* *Migration.* One row of history, which is in a table or is not: the copy is one statement;
  two crashes, so that the recovery is interrupted as well; three opens.
* *Recorder.* Of the kernels one is plain, one has every kind of type before its
  structures (with words that look like a structure's head), one lacks a structure,
  two are damaged; of the tasks one has no terminal.  Strings, argument lists and data that
  fit and that do not, an unreadable string, argument and buffer.  Two calls are an exec and
  another task's call between its entry and return.
* *LiveTail.* Polls are cut at two of four rows (100 in the code); a break can fall
  before, between and after the events, and the second one breaks a resumed stream.
* *Paging.* A list of three rows ends full or partly full for pages of two.  Of the
  filters one selects every row, and `exit:+1` the rows that have the exit code, which come in;
  a link makes another filter of it, which selects every row again.  `MaxShown` 3 is not exceeded by three rows that are
  shown once; the theorem is for every cap.
* *FilterDsl, EventView.* Rows with NULLs, with each character that LIKE, globs, JSON or
  the tokenizer treat specially, with a name that is a path, a bare name and a descriptor.
  Three tokens are a valid one, an invalid one and a repetition; `cmd:a*` and a row under a
  directory a tell a basename from a path.
  `MaxU32` and `MaxI32` are 15 and 7, so that range errors occur.

Deadlock is not checked: a bounded model stops at its bounds, a recorder that has
stopped is meant to, and a query ends.

### Fairness

`EventLoop` assumes weak fairness of the loop, of the Ctrl+C task, of the server's
start, signal and end steps: tokio keeps polling tasks that are ready on a
multi-threaded runtime; and of a commit of a reserved slot, since a program that
has reserved runs to its end.  Nothing is assumed of the probe's next
record, of browsers or of signals: `StopsWhenAsked` therefore names as premises
that drains end (`Drains`) and that browsers leave.  `LiveTail` assumes weak
fairness of the poll (an interval), of reception and of reconnection (the browser's
EventSource does that by itself).  The other specifications have no fairness and
no liveness property: the handler is a callback, and a probe program runs when
the kernel calls it.


## 4. The proofs

All for every value of the constants under the modules' named assumptions
(`LeaderAssumption`, `FdsAssumption`, `TtysAssumption`, ...); SMT, Zenon and, for
the temporal steps, LS4 check every leaf.

**`ProbeProofs`.** `TypeInv == TypeOK /\ PendingHeld`: the type of a submit's record is
that of the pending entry it reads, so type correctness alone is not inductive.
`IdInv` adds that image times never pass the clock, that an id in `EXEC_PIDS` or
in a program is recorded, and that a program that has found its id holds that of
the current image if that image's Exec record is out: this carries the id
from the lookup over other threads' steps to the submit.  It yields
`ProbeIdsAreRecorded`, `ProbeRecordedImageIsCurrent` and `ProbeIoNamesItsImage`
(only a submit publishes I/O, lemma `OnlySubmitIoPublishesIo`).  The argument rests on
`Alone`: a successful execve finds no other thread of its process halfway in a
program.  `SelfInv` says that no program of shspectr's own threads gets beyond the
self filter: `SELF_TGID` is set before a program is attached (`SelfIsSetFirst`).

`CallInv`: with every program attached, a pending read or write
belongs to the call its thread is in, which `PendingExecInCall` says of execve.  The
two theorems have the premise `BootFrom = {Len(BootOrder)}`; section 6 says what happens
without it.  `ExitInv`: an Exit record in the ring silences its thread (`Silenced`): the
thread is still in exit_group, or `EXEC_PIDS` has a later id or none and the thread holds
no copy of the old one.  With it every property of the two
`Probe` runs is proved.

**`CollectorProofs`.** Of the correlator first: `CorrInv` is the conjunction of types, `TtySessionsDistinct`,
`CompletedStaysEmpty` and `SidsGenerated`: every session in use was generated, so
`Fresh` is new.  Without that a new session could be a completed one.
`SessionsAreStable` is the action property.

Then of the collector: `OsInv` types what reaches the handler; `CorrInv` carries over, since
the collector does to the correlator what `CorrSpec` allows (a lemma).  `EndedInv`: a session that has ended, or whose end waits in `todo`,
was reported complete; so `EndedStaysEmpty` follows from `CompletedStaysEmpty`.
`CodesInv`: a backfill stands behind its exit statement in `todo`, or is first and the
exit is a row (`BackfillsFollowExits`).  These hold under every fault.  `ReachInv` carries
`ExitsReachCommands`: ids are past times (`IdsPast`), so a command is in the table before any
exit with its id; the process that `EXEC_PIDS` credits to a command is tracked in the
command's session (`CommandsTracked`), so its exit carries that session and the backfill
finds the row.  `EmptyInv`: a session in the table has a process, has ended, or its end
is in `todo`; a refused row drops the rest of `todo` only for a session without a row.
The last two have the premises `StatementsRun` (no failing statement, no crash) and, for
`EmptyMeansEnded`, `Unfiltered` (no filter, no terminals); without either there are
counterexamples (section 6).

**`EventLoopProofs`.** `WakeInv` strengthens `NoLostWakeup`: when the loop is about to
clear the readiness, a record that waits implies that an event came since the
guard was taken (`fresh`), so the clear does nothing.

**`LiveTailProofs`.** `TailInv`: nothing at or below Last-Event-ID is missing from what
was shown (`ReceivedToLastId`), and the events in flight continue where it ends
(`WireContinues`), also after a break between the two.  From it, both safety properties and
that every step is a step of `Tail` or leaves its state alone.

**`RecorderProofs`.** First of `Migration`. `OpenInv`: what each statement of the rebuild finds, also if it is
another open's that was cut off (`RebuildInv`), which table the indexes follow (`IndexInv`),
and in which table the rows are while nothing is interrupted (`WholeInv`).
`RecorderKeepsHistory` carries the four results over to a run from `main` to its end.
Then `EventsTellTheCalls`.  `RecordInv`: the call a task is in has its own record waiting in
`PENDING_EXEC`, made by the probe that still runs, whatever the scratch space holds; before
`running` there are neither calls nor events.  One lemma per record says what comes back
out of it (`ExecTells`, `IoTells`, `ExitTells`): the offsets lead to the caller's ids
(`PeekIsField`, `HeaderNamesTask`), a string comes through a buffer of n bytes as its
first n - 1 (`StringsAreCut`), and data as its first `MAX_DATA_LEN` (`DataIsCut`).  The theorem
has the premise `DamageIsHarmless`, that damage to an image, if it is not refused, leaves
the offsets; TLC checks it of the damaged images of the run, as an assumption of `MCRecorder`.
Of an image that is not damaged, `IntactOffsetsAreTrue` and `RecorderRefusesOnlyTheUnknown` say that
the offsets are right and that only a missing field is refused.  They rest on
`FieldFound`: for every list of types the walk of `FieldOffset` is at the beginning of a type each
time it turns (`TypeInImage`: the words of the i-th type are where the lengths of those
before it say, and `ExtraWords` knows the length of each kind, `OtherWords`, `StructWords`), so it comes to the first structure of
the name, in which `MemberFound` finds the field.  The inductions, over the types and over the words,
are over sets of numbers (`Induction`, from the least element of its complement), and the functions that
FlattenSeq and the walk define by recursion are shown to exist (`FlattenExists`, `WalkExists`)
before they are unfolded.  `ImagesAssumption` says that an image that is not damaged is what `Image` makes
of well-formed types (`WellFormed`: vlen fits 16 bits, a kind has the words it should have, no two members
of a structure have the same name).  `KernelsAssumption` says that no two of the
fields share their place, `CallsAssumption` that the kernel returns no more than the
buffer holds.

**`DetailsProofs`.** The panel is read in four statements while the recorder writes, and
the two theorems hold under every fault, filter and terminal.  What they do not say of I/O
recorded after an exit is in the properties: `AfterExit`, the rows that `ExitedMeansComplete` excepts.  `LogInv` says what the
table looks like to any reader: an execution id is a time that has passed
(`IdsHavePassed`); an execution is `Open` while `EXEC_PIDS` has it, a program has looked it up or a
row of it waits, and a waiting chunk is of the only open execution of its process (`ChunkWaits`);
and between a command and its I/O, or the end of the table while it is open, there is no other
execution's I/O of that pid (`CommandsUndisturbed`).  A row with a code has an exit row
(`CodedHasExit`, from `CodesInv`), behind which every later row goes.  `PanelInv` says it again for
what the panel has copied so far (`EventInv`, `IoInv`, `ChildrenInv`): the rows it has seen without
a code may have got one since, and those with a code get I/O only after their exit.

**`PagingProofs`.** First that `ORDER BY column, id DESC` is a strict total order for
each column and direction (`BeforeIsOrder`), that the ranks it gives number the rows from
0 without gaps (`RankBound`, `RankInjective`, `RankOnto`: an injection between finite sets
of one size), and that LIMIT and OFFSET cut an interval out of them
(`PageListsItsRanks`), all of them ranks among the rows the query selects.  An insert lowers no rank
(`AppendRaisesRanks`), nor does a backfill that takes no row off the list, unless it is the sort
column (`BackfillRaisesRanks`), and `has_next` is exact (`PagesCover`).  The browser's cap takes
rows from the end (`CapTakesFirst`).  `ScrollInv`: an armed sentinel's page begins within the list, and
the request of a sentinel asks for the next page of what its link says, while no other request can
replace the list.  With it `ScrollIsExact` and `NothingJumped` are inductive, and
`EndMeansAll` follows from `NothingJumped`.  The premise `NoWrap` keeps the numbers a client asks for, and
the table, below the point where `offset()` wraps around at 2^32; beyond it a page is
another one, and the theorems are false.

**`FilterProofs`.** `FilterInv`: a keyword is unset and no token of the query sets it, or
there is a token that does, none after it does, and the field is that token's.
`LastTokenWins` follows, for queries that are typed (`Spec`) and that clicks build
(`ViewSpec`).  Each field then holds one value, and `NegationComplements` is about the
condition of one keyword: over any option column, `add_exact` and `add_like` make a pair of
three-valued conditions of which exactly one is true (`ExactOpposite`, `LikeOpposite`), for any
alternatives and whatever `LIKE` answers.  `RowsAssumption` says that a column is NULL or one value.

`PatternsMean`, for typed queries and strings of any length over any alphabet, goes through the
*pieces* of a pattern: a percent sign, an underscore, or a character taken literally, escaped if it
must be.  `LIKE`'s recursion and the glob matcher's are shown to have a solution (`RowsExist`,
`GlobTableExists`); `LIKE` on a pattern made of pieces reads them one by one
(`LikeByPieces`, `LikeFirst`), a translated glob is made of its characters' pieces (`GlobParts`), and on these
the two agree (`GlobIsLike`).  The translation keeps the bars, so the alternatives are translated one by one
(`AlternativesTranslated`).  What remains of each keyword are `GlobsMean`, `CommandsMean` (the `%/` in front),
`SessionsMean` and, of the bare words, `TextMeans`.  For `cmd`, a match after some slash is one of the
basename if the value has no character that matches a slash: the part behind that slash has none either
(`PlainGlob`), so the slash is the last (`LastPart`, `CommandMeans`).  The invariant is small: what the filter
holds and the words read so far are strings (`StringsInv`, from `StringsAssumption`, the type of tokens and rows).
Induction is by the least counterexample in a set of numbers (`Induction`), since the library's theorems take
an operator.

Model-checked only: the liveness properties (fairness and ENABLED are beyond the
prover); `ClickKeepsRow`, where the printing and parsing of numbers and the query that `FoldLeft`
rebuilds are recursions over data, and for the same reason `PatternsMean` of the tokens a click prints.


## 5. Findings

* `Collector_forked_exit`: a process that forked, never executed and whose parent is
  not tracked exits; `on_exit` gives it a new session and, unlike `on_exec`, creates no
  session row, so the foreign key refuses the exit event.  The sink's own comment
  says that sessions are created on the first event.
* `Migration_oldest`: `open` runs the schema before it looks for the columns, and the
  schema indexes `execution_id`; a database without that column cannot be opened,
  and the migration that would add it never runs.

## 6. Met while modelling

Behaviours the models have and whose properties are stated around them; none of these is a
run of its own.

* A call that enters after `sys_enter_write` is attached and returns before
  `sys_exit_write` is leaves its entry behind; a later write of that thread on an unwatched
  descriptor is published with the old descriptor and buffer.  `Probe_threads`
  starts with all programs attached for this reason.
* A worker thread that executes a program returns under the leader's pid_tgid: its
  exec is not recorded and its entry in `PENDING_EXEC` stays (1024 of them fill the map).
* A full ring at exit leaves `EXEC_PIDS` as it was; so does a kill.  A recycled
  tgid that only forks is then captured under the dead process's id.
* A failed execve makes an Exec record, and the handler does not look at `retval`:
  it appears as a command, and updates the correlator.
* `read_tty_nr` returns the index of the pty, so pts/0 is 0, "no terminal".
* A process that changes its terminal stays in its session, and a session some
  terminal still leads to can be complete; `ended_at` is then set on a session
  that goes on.
* The exit of a process the filter rejects discards `session_complete`.
* After a crash between rename and drop of a migration the history stays in
  `events_old`, where no later open looks; the open that rebuilds the table leaves
  it without indexes until the next one.
* The drain loop does not look at the token, and the web server's shutdown waits
  for live streams.
* `max_event_id` failing starts a live view at row 0; a row whose exit code is
  set after the stream has passed it never appears in a view that filters on it.
* A row inserted between COUNT and SELECT can push the last row off a page that
  has no successor; sorted by exit code, a backfill moves rows over the page
  boundary; a failed page ends the scroll; `offset()` wraps at 2^32.
* With an exit code in the filter a backfill makes rows enter or leave the list.  If a row of a page
  already shown leaves (`!exit:0`, and it exits with 0), the next OFFSET jumps over a row and the list may
  end early; `NothingJumped` and `EndMeansAll` have the premise `kept`.
* Another thread's read or write that has looked up its execution when exit_group cleans up is
  published after the Exit record.  The exit code is then on the command before that chunk is in the
  table, and a panel read in between has the one without the other (`AfterExit`).
* `page_url` and `sort_url` put the filter into a link with `urlencoded`, which leaves a plus sign
  as it is, and the server reads it as a blank: page 2 of `cmd:g++` is page 2 of `cmd:g`, appended
  to the list, and sorting changes the filter too.  `listing.rs:86` says of `page_url` that it preserves
  the filter.  The properties of `Paging` are about scrolls whose links do (`still`, `kept`).
* `cmd:` becomes LIKE on the whole file name with `%/` in front, and a star, a question mark or a slash
  in the value matches slashes: `cmd:a*` selects `/x/a/b`, whose basename is b.  `event.rs:185`,
  `filter.rs:73` and the keyword's description (`shspectr-common/src/filter.rs:72`) say that it is
  the basename that is matched.  `PatternsMean` excepts these values (`CrossesSlash`).
* `session:a|b` treats only `b` as a prefix; `user:` with an unknown name selects
  everything, negated or not; `cmd:` never selects a file name without a slash.
* Anonymous members are not looked into: on a kernel where one of the twelve fields is
  inside one, the recorder refuses to start.  `RefusesOnlyTheUnknown` counts it as missing.
* `is_pty_fd` takes the major number from bits 8 to 19 of `i_rdev`; the kernel's own
  `dev_t` has it from bit 20 up, and a pty's descriptor above 2 is not recognised.
  README.md:70 and the comments at `main.rs:470` and `573` say that PTY descriptors are captured.
* A panel's parent is the newest command of the parent's pid, which can be younger
  than the child or a program the parent became later; children are all commands with
  the pid as parent, whichever program it ran then.  I/O on descriptors above 2 counts in
  `has_io` and is not shown.
* A command without a file name is shown by the text of its `argv` column, brackets
  and all, not by `argv[0]` (`event.rs:106-111`: the inner `and` returns the column).  The
  terminal column decodes a device number, where the probe stores the index: "pts/3" is
  never shown.
* A click on a command's name loses the row if the file name has no directory, is a
  descriptor path, or has a bar or a blank in its last part (`Findable`).


## 7. Plan

Done, in this order: `BpfMap`, `Probe`, `SessionCorrelator`, `Collector`, `EventLoop`,
`Migration`, `LiveTail`, `Paging`, `FilterDsl`, then `Tail`, `Details`, `EventView`, `Btf`, `Records`,
`Recorder`; proofs about `Probe`, `SessionCorrelator`, `Collector`, `EventLoop`, `LiveTail`,
`Recorder` and what it extends, `Details`, `Paging` and `FilterDsl`.  What is left:

1. *Models.* `Probe` and `Collector` with the ring between them, in place of the
   collector's lossy channel: does a worker thread's lost exec, or a process captured under
   a dead one's id, reach a panel?  Two list requests at a time in `Paging`; the
   browser's cap of 500 rows in `LiveTail`.
2. *Abstract specifications.* The recorder as a log of executions, each with its
   I/O and at most one exit, which `Collector` without faults should implement.
3. *Theorems.* Of `ClickKeepsRow`, that a rebuilt query keeps the other keywords, and that the
   tokens a click prints are strings, which extends `PatternsMean` to clicked queries.

Not modelled: the stdout and OpenTelemetry sinks, the value types, the connection pool,
middleware, static files, build and integration tests.  They keep no state; a failing
query is in the models of its caller.
