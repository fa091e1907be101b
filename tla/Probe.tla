------------------------------- MODULE Probe --------------------------------
(***************************************************************************)
(* The eBPF side of ShellSpectre (shspectr-ebpf/src/main.rs): seven        *)
(* tracepoint programs that run in the context of whichever thread makes   *)
(* a system call, share five hash maps, and publish records in a ring      *)
(* buffer of fixed size.                                                   *)
(*                                                                         *)
(* Threads are pairs <<tgid, tid>>, the two halves of pid_tgid.  The       *)
(* programs of two threads run concurrently on two CPUs, so a program that *)
(* reads EXEC_PIDS and then publishes is two steps here; reserve, fill and *)
(* submit are one step because the reader cannot pass a reserved slot.     *)
(*                                                                         *)
(* The kernel is part of the model, as far as the programs can tell:       *)
(* threads come and go, tgids and tids are recycled, a signal kills        *)
(* without any system call, and a successful execve leaves only the        *)
(* calling thread, which becomes the group leader.  image[p] is history:   *)
(* the time of p's last successful execve, 0 if p was only forked.         *)
(***************************************************************************)
EXTENDS BpfMap, Sequences

CONSTANTS
    Tgids,       \* thread group ids the kernel hands out (and recycles)
    Tids,        \* thread ids within a group
    Leader,      \* the tid of the group leader, an element of Tids
    Self,        \* the tgid of shspectr itself
    Fds,         \* file descriptors the threads use
    PtyFds,      \* those for which is_pty_fd answers true
    RingCap,     \* records the EVENTS ring buffer holds
    PendingCap,  \* slots of PENDING_EXEC, of PENDING_READ and of PENDING_WRITE
    ExecPidsCap, \* slots of EXEC_PIDS
    BootFrom,    \* the start-up steps already done when a behaviour begins
    MaxClock     \* bound on bpf_ktime_get_ns, for model checking

ASSUME LeaderAssumption == Leader \in Tids
ASSUME FdsAssumption == Fds \subseteq Nat /\ PtyFds \subseteq Fds
ASSUME ClockAssumption == MaxClock \in Nat

VARIABLES
    boot,        \* start-up steps of the loader completed so far
    call,        \* what each thread is doing in the kernel
    image,       \* when each process last replaced its image (history)
    clock,       \* bpf_ktime_get_ns
    ring,        \* EVENTS, oldest record first
    recorded,    \* <<tgid, execution_id>> of every Exec record published (history)
    pendingExec, \* PENDING_EXEC
    pendingIo,   \* PENDING_READ and PENDING_WRITE
    execPids     \* EXEC_PIDS

kernelVars == <<image, clock>>
mapVars == <<pendingExec, pendingIo, execPids>>
vars == <<boot, call, kernelVars, ring, recorded, mapVars>>

-----------------------------------------------------------------------------
Threads == Tgids \X Tids
IoOps == {"read", "write"}

\* The state of a thread: its system call, how far the call's program got
\* ("kernel": between sys_enter and sys_exit; "found": the program holds a
\* copy of an execution_id; "sent": the Exit record is out), the call's fd
\* and that copy.
Calls == [op : {"gone", "user", "execve", "exit_group"} \cup IoOps,
          at : {"kernel", "found", "sent"}, fd : Fds \cup {0}, id : Nat]
Rest(op) == [op |-> op, at |-> "kernel", fd |-> 0, id |-> 0]
Gone == Rest("gone")
User == Rest("user")

\* MUTANT of BootOrder: the self filter is set after the programs run.
BootOrderFilterLast == <<"sys_enter_execve", "sys_exit_execve",
                         "sys_enter_exit_group", "sys_enter_write", "sys_exit_write",
                         "sys_enter_read", "sys_exit_read", "SELF_TGID">>
\* run() sets SELF_TGID first and then attaches the programs one by one.
BootOrder == <<"SELF_TGID", "sys_enter_execve", "sys_exit_execve",
               "sys_enter_exit_group", "sys_enter_write", "sys_exit_write",
               "sys_enter_read", "sys_exit_read">>
ASSUME BootAssumption == BootFrom \subseteq 0..Len(BootOrder)

Attached(program) == \E i \in 1..boot : BootOrder[i] = program
EnterOf(op) == IF op = "read" THEN "sys_enter_read" ELSE "sys_enter_write"
ExitOf(op) == IF op = "read" THEN "sys_exit_read" ELSE "sys_exit_write"

\* MUTANT of NotSelf: no program asks.
NotSelfUnchecked(p) == TRUE

\* check_not_self: SELF_TGID holds 0, which is no process, until it is set.
NotSelf(p) == ~(Attached("SELF_TGID") /\ p = Self)

\* Captured whatever it is open on: fd 0 for reads, 1 and 2 for writes; and
\* every other fd on a pseudo terminal.
WatchedReads == {0} \cup PtyFds
WatchedWrites == {1, 2} \cup PtyFds
Watched(op) == IF op = "read" THEN WatchedReads ELSE WatchedWrites

Record(type, k, id, fd) ==
    [type |-> type, tgid |-> k[1], tid |-> k[2], id |-> id, fd |-> fd]
RingHasRoom == Len(ring) < RingCap

Alone(k) == \A j \in Threads \ {k} : j[1] = k[1] => call[j] = Gone

-----------------------------------------------------------------------------
Init ==
    /\ boot \in BootFrom
    /\ call = [k \in Threads |-> IF k = <<Self, Leader>> THEN User ELSE Gone]
    /\ image = [p \in Tgids |-> 0]
    /\ clock = 0
    /\ ring = << >>
    /\ recorded = {}
    /\ pendingExec = {}
    /\ pendingIo = [op \in IoOps |-> EmptyMap]
    /\ execPids = EmptyMap

\* One more line of the loader: the self filter, then each tracepoint.
Boot ==
    /\ boot < Len(BootOrder)
    /\ boot' = boot + 1
    /\ UNCHANGED <<call, kernelVars, ring, recorded, mapVars>>

\* A free tgid is handed to a forked process: it has not executed anything.
Fork(p) ==
    /\ \A t \in Tids : call[<<p, t>>] = Gone
    /\ p # Self
    /\ call' = [call EXCEPT ![<<p, Leader>>] = User]
    /\ image' = [image EXCEPT ![p] = 0]
    /\ UNCHANGED <<boot, clock, ring, recorded, mapVars>>

SpawnThread(k) ==
    /\ call[k] = Gone
    /\ \E t \in Tids : call[<<k[1], t>>] = User
    /\ call' = [call EXCEPT ![k] = User]
    /\ UNCHANGED <<boot, kernelVars, ring, recorded, mapVars>>

\* A thread ends without exit_group: killed, or by the exit system call of
\* one thread.  No program is attached to either.
Die(k) ==
    /\ call[k] = User
    /\ call' = [call EXCEPT ![k] = Gone]
    /\ UNCHANGED <<boot, kernelVars, ring, recorded, mapVars>>

\* The reader, a thread of shspectr, takes the oldest record out of the ring.
Consume ==
    /\ ring # << >>
    /\ call[<<Self, Leader>>] # Gone
    /\ ring' = Tail(ring)
    /\ UNCHANGED <<boot, call, kernelVars, recorded, mapVars>>
-----------------------------------------------------------------------------
\* MUTANT of EnterExecve: PENDING_EXEC keyed by tgid alone.
EnterExecveByTgid(k) ==
    /\ call[k] = User
    /\ k[1] # Self
    /\ call' = [call EXCEPT ![k] = Rest("execve")]
    /\ pendingExec' = IF Attached("sys_enter_execve") THEN pendingExec \cup {k[1]}
                      ELSE pendingExec
    /\ UNCHANGED <<boot, kernelVars, ring, recorded, pendingIo, execPids>>

\* shspectr itself never executes another program.
EnterExecve(k) ==
    /\ call[k] = User
    /\ k[1] # Self
    /\ call' = [call EXCEPT ![k] = Rest("execve")]
    /\ pendingExec' =
         IF /\ Attached("sys_enter_execve")
            /\ NotSelf(k[1])
            /\ k \in pendingExec \/ Cardinality(pendingExec) < PendingCap
         THEN pendingExec \cup {k} ELSE pendingExec
    /\ UNCHANGED <<boot, kernelVars, ring, recorded, pendingIo, execPids>>

\* The body of the mutants of PublishExec: what stays pending, when EXEC_PIDS
\* is written, and what it then holds.
PublishExecWith(k, now, keep, write, value) ==
    IF ~Attached("sys_exit_execve") \/ k \notin pendingExec
    THEN UNCHANGED <<ring, recorded, pendingExec, execPids>>
    ELSE /\ pendingExec' = IF keep THEN pendingExec ELSE pendingExec \ {k}
         /\ execPids' = IF write THEN Insert(execPids, k[1], value, ExecPidsCap) ELSE execPids
         /\ IF RingHasRoom
            THEN /\ ring' = Append(ring, Record("Exec", k, now, 0))
                 /\ recorded' = recorded \cup {<<k[1], now>>}
            ELSE UNCHANGED <<ring, recorded>>
\* MUTANT of PublishExec: EXEC_PIDS is written before the ring is asked.
PublishExecEager(k, ok, now) == PublishExecWith(k, now, FALSE, ok, now)
\* MUTANT of PublishExec: an id that is there is not replaced.
PublishExecNoReplace(k, ok, now) ==
    PublishExecWith(k, now, FALSE, ok /\ RingHasRoom, Get(execPids, k[1], now))
\* MUTANT of PublishExec: a failed execve is tracked as well.
PublishExecAnyRetval(k, ok, now) == PublishExecWith(k, now, FALSE, RingHasRoom, now)
\* MUTANT of PublishExec: a full ring ends the program before it cleans up.
PublishExecKeeps(k, ok, now) ==
    PublishExecWith(k, now, ~RingHasRoom, ok /\ RingHasRoom, now)

\* What sys_exit_execve does for the thread that is now called k.
PublishExec(k, ok, now) ==
    IF ~Attached("sys_exit_execve") \/ k \notin pendingExec
    THEN UNCHANGED <<ring, recorded, pendingExec, execPids>>
    ELSE /\ pendingExec' = pendingExec \ {k}
         /\ IF RingHasRoom
            THEN /\ ring' = Append(ring, Record("Exec", k, now, 0))
                 /\ recorded' = recorded \cup {<<k[1], now>>}
                 /\ execPids' = IF ok THEN Insert(execPids, k[1], now, ExecPidsCap)
                                ELSE execPids
            ELSE UNCHANGED <<ring, recorded, execPids>>

ExitExecveFailed(k) ==
    /\ call[k] = Rest("execve")
    /\ clock < MaxClock
    /\ clock' = clock + 1
    /\ call' = [call EXCEPT ![k] = User]
    /\ PublishExec(k, FALSE, clock + 1)
    /\ UNCHANGED <<boot, image, pendingIo>>

\* The other threads of the group are gone by now, and the caller has taken
\* over the leader's tid, so the program looks under the leader's key.
ExitExecve(k) ==
    LET leader == <<k[1], Leader>> IN
    /\ call[k] = Rest("execve")
    /\ Alone(k)
    /\ clock < MaxClock
    /\ clock' = clock + 1
    /\ call' = [call EXCEPT ![k] = Gone, ![leader] = User]
    /\ image' = [image EXCEPT ![k[1]] = clock + 1]
    /\ PublishExec(leader, TRUE, clock + 1)
    /\ UNCHANGED <<boot, pendingIo>>
-----------------------------------------------------------------------------
\* sys_enter_exit_group up to its copy of the execution_id.
EnterExitGroup(k) ==
    /\ call[k] = User
    /\ call' = [call EXCEPT ![k] =
         IF Attached("sys_enter_exit_group") /\ NotSelf(k[1])
         THEN [op |-> "exit_group", at |-> "found", fd |-> 0,
               id |-> Get(execPids, k[1], 0)]
         ELSE Gone]
    /\ UNCHANGED <<boot, kernelVars, ring, recorded, mapVars>>

\* A full ring ends the program here: the maps keep their entries.
SubmitExit(k) ==
    /\ call[k].op = "exit_group" /\ call[k].at = "found"
    /\ IF RingHasRoom
       THEN /\ ring' = Append(ring, Record("Exit", k, call[k].id, 0))
            /\ call' = [call EXCEPT ![k].at = "sent"]
       ELSE /\ call' = [call EXCEPT ![k] = Gone]
            /\ UNCHANGED ring
    /\ UNCHANGED <<boot, kernelVars, recorded, mapVars>>

\* The body of the mutants of CleanUpExit.
CleanUpExitWith(k, pids, threads) ==
    /\ call[k].op = "exit_group" /\ call[k].at = "sent"
    /\ call' = [call EXCEPT ![k] = Gone]
    /\ execPids' = pids
    /\ pendingIo' = [op \in IoOps |->
                       [j \in DOMAIN pendingIo[op] \ threads |-> pendingIo[op][j]]]
    /\ UNCHANGED <<boot, kernelVars, ring, recorded, pendingExec>>
\* MUTANT of CleanUpExit: clears the pending calls of the whole group.
CleanUpExitOfGroup(k) ==
    CleanUpExitWith(k, Remove(execPids, k[1]), {j \in Threads : j[1] = k[1]})
\* MUTANT of CleanUpExit: leaves the process in EXEC_PIDS.
CleanUpExitLeaks(k) == CleanUpExitWith(k, execPids, {k})

CleanUpExit(k) ==
    /\ call[k].op = "exit_group" /\ call[k].at = "sent"
    /\ call' = [call EXCEPT ![k] = Gone]
    /\ execPids' = Remove(execPids, k[1])
    /\ pendingIo' = [op \in IoOps |-> Remove(pendingIo[op], k)]
    /\ UNCHANGED <<boot, kernelVars, ring, recorded, pendingExec>>
-----------------------------------------------------------------------------
EnterIo(k, op, fd) ==
    /\ call[k] = User
    /\ call' = [call EXCEPT ![k] = [Rest(op) EXCEPT !.fd = fd]]
    /\ pendingIo' =
         IF /\ Attached(EnterOf(op))
            /\ NotSelf(k[1])
            /\ fd \in Watched(op)
            /\ k[1] \in DOMAIN execPids
         THEN [pendingIo EXCEPT ![op] = Insert(@, k, fd, PendingCap)]
         ELSE pendingIo
    /\ UNCHANGED <<boot, kernelVars, ring, recorded, pendingExec, execPids>>

\* sys_exit_read and sys_exit_write up to their copy of the execution_id;
\* they do not ask whether the thread belongs to shspectr.
ExitIo(k, op, ok) ==
    /\ call[k].op = op /\ call[k].at = "kernel"
    /\ IF ~Attached(ExitOf(op)) \/ k \notin DOMAIN pendingIo[op]
       THEN /\ call' = [call EXCEPT ![k] = User]
            /\ UNCHANGED pendingIo
       ELSE IF ok /\ k[1] \in DOMAIN execPids
       THEN /\ call' = [call EXCEPT ![k].at = "found", ![k].id = execPids[k[1]]]
            /\ UNCHANGED pendingIo
       ELSE /\ call' = [call EXCEPT ![k] = User]
            /\ pendingIo' = [pendingIo EXCEPT ![op] = Remove(@, k)]
    /\ UNCHANGED <<boot, kernelVars, ring, recorded, pendingExec, execPids>>

\* MUTANT of SubmitIo: a full ring ends the program before it cleans up.
SubmitIoKeeps(k, op, copied) ==
    /\ call[k].op = op /\ call[k].at = "found"
    /\ call' = [call EXCEPT ![k] = User]
    /\ pendingIo' = IF RingHasRoom THEN [pendingIo EXCEPT ![op] = Remove(@, k)]
                    ELSE pendingIo
    /\ ring' = IF RingHasRoom /\ copied
               THEN Append(ring, Record(op, k, call[k].id, pendingIo[op][k]))
               ELSE ring
    /\ UNCHANGED <<boot, kernelVars, recorded, pendingExec, execPids>>

\* The rest of it: the reservation may fail, and so may the copy of the
\* user buffer, which discards the reservation.  The pending entry goes.
SubmitIo(k, op, copied) ==
    /\ call[k].op = op /\ call[k].at = "found"
    /\ call' = [call EXCEPT ![k] = User]
    /\ pendingIo' = [pendingIo EXCEPT ![op] = Remove(@, k)]
    /\ ring' = IF RingHasRoom /\ copied
               THEN Append(ring, Record(op, k, call[k].id, pendingIo[op][k]))
               ELSE ring
    /\ UNCHANGED <<boot, kernelVars, recorded, pendingExec, execPids>>
\* The programs of read and of write differ in the map and the fds only.
EnterRead(k, fd) == EnterIo(k, "read", fd)
EnterWrite(k, fd) == EnterIo(k, "write", fd)
ExitRead(k, ok) == ExitIo(k, "read", ok)
ExitWrite(k, ok) == ExitIo(k, "write", ok)
SubmitRead(k, copied) == SubmitIo(k, "read", copied)
SubmitWrite(k, copied) == SubmitIo(k, "write", copied)
-----------------------------------------------------------------------------
ThreadStep(k) ==
    \/ SpawnThread(k)
    \/ Die(k)
    \/ EnterExecve(k)
    \/ ExitExecveFailed(k)
    \/ ExitExecve(k)
    \/ EnterExitGroup(k)
    \/ SubmitExit(k)
    \/ CleanUpExit(k)
    \/ \E fd \in Fds : EnterRead(k, fd) \/ EnterWrite(k, fd)
    \/ \E ok \in BOOLEAN : ExitRead(k, ok) \/ ExitWrite(k, ok)
    \/ \E copied \in BOOLEAN : SubmitRead(k, copied) \/ SubmitWrite(k, copied)

Next ==
    \/ Boot
    \/ Consume
    \/ \E p \in Tgids : Fork(p)
    \/ \E k \in Threads : ThreadStep(k)

Spec == Init /\ [][Next]_vars
-----------------------------------------------------------------------------
RecordTypes == {"Exec", "Exit"} \cup IoOps
Records == [type : RecordTypes, tgid : Tgids, tid : Tids, id : Nat, fd : Fds \cup {0}]

\* Type correctness of the probe, its maps and its ring.
TypeOK ==
    /\ boot \in 0..Len(BootOrder)
    /\ call \in [Threads -> Calls]
    /\ image \in [Tgids -> 0..MaxClock]
    /\ clock \in 0..MaxClock
    /\ ring \in Seq(Records)
    /\ recorded \subseteq Tgids \X Nat
    /\ pendingExec \subseteq Threads
    /\ pendingIo = [op \in IoOps |-> pendingIo[op]]
    /\ \A op \in IoOps : IsMap(pendingIo[op], Threads, Fds)
    /\ IsMap(execPids, Tgids, Nat)

\* The program that publishes an I/O record still has the call's pending
\* entry: no other program, in particular no exit_group of another thread,
\* takes it away between the lookup and the submit.
PendingHeld ==
    \A k \in Threads, op \in IoOps :
        call[k].op = op /\ call[k].at = "found" => k \in DOMAIN pendingIo[op]

\* Every execution_id other than 0 that a record, a running program or
\* EXEC_PIDS carries for a process belongs to an Exec record of that process
\* that was published before: the web UI joins rows on it.
IdsAreRecorded ==
    /\ \A i \in 1..Len(ring) : ring[i].id # 0 => <<ring[i].tgid, ring[i].id>> \in recorded
    /\ \A p \in DOMAIN execPids : <<p, execPids[p]>> \in recorded
    /\ \A k \in Threads : call[k].id # 0 => <<k[1], call[k].id>> \in recorded

\* As long as the running image's own Exec record made it into the ring,
\* EXEC_PIDS never holds an earlier image's id for the process, so what the
\* image reads and writes is not credited to a previous command.
RecordedImageIsCurrent ==
    \A p \in DOMAIN execPids :
        <<p, image[p]>> \in recorded => execPids[p] = image[p]

Published(type) == Len(ring') > Len(ring) /\ ring'[Len(ring')].type \in type
Newest == ring'[Len(ring')]
NewestThread == <<Newest.tgid, Newest.tid>>

\* An I/O record is stamped with the image that made the call, provided
\* that image's Exec record was published.
IoNamesItsImage ==
    [][Published(IoOps) /\ <<Newest.tgid, image[Newest.tgid]>> \in recorded
         => Newest.id = image[Newest.tgid]]_vars

\* An I/O record describes the very call that is returning: its fd is that
\* call's fd, not one left over in the map by an earlier call.
IoNamesItsCall ==
    [][Published(IoOps) => Newest.fd = call[NewestThread].fd]_vars

\* Nothing shspectr itself does reaches the ring or a map, although the
\* sys_exit programs do not look at SELF_TGID.
SelfIsSilent ==
    /\ \A i \in 1..Len(ring) : ring[i].tgid # Self
    /\ \A t \in Tids : /\ <<Self, t>> \notin pendingExec
                       /\ \A op \in IoOps : <<Self, t>> \notin DOMAIN pendingIo[op]

\* The PENDING_EXEC entry of a group leader belongs to a call that is still
\* going on: it is consumed when execve returns, full ring or not.  (A worker
\* thread comes back from a successful execve under the leader's key, and its
\* own entry stays.)
PendingExecInCall ==
    \A k \in pendingExec : k[2] = Leader => call[k].op = "execve"

\* A thread's Exit record is its last word: no I/O of the same image that the
\* same thread performed is published behind it, nor any of a process that
\* got its tgid later.  (Another thread of the group may still be publishing.)
NothingAfterExit ==
    \A i, j \in 1..Len(ring) :
        i < j /\ ring[i].type = "Exit" /\ ring[i].id # 0
          => ~(/\ ring[j].type \in IoOps
               /\ <<ring[j].tgid, ring[j].tid>> = <<ring[i].tgid, ring[i].tid>>
               /\ ring[j].id = ring[i].id)
=============================================================================
