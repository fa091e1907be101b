----------------------------- MODULE ProbeProofs -----------------------------
(***************************************************************************)
(* Proofs about the probe, for any number of processes, threads, ring and  *)
(* map slots, and any start-up state.                                      *)
(***************************************************************************)
EXTENDS Probe, TLAPS

\* Inserting into, and removing from, a partial function of a type leaves
\* one of that type.
LEMMA InsertIsMap ==
    ASSUME NEW K, NEW V, NEW m, NEW k \in K, NEW v \in V, NEW slots, IsMap(m, K, V)
    PROVE  /\ IsMap(Insert(m, k, v, slots), K, V)
           /\ Insert(m, k, v, slots) = m
              \/ /\ DOMAIN Insert(m, k, v, slots) = DOMAIN m \cup {k}
                 /\ Insert(m, k, v, slots)[k] = v
                 /\ \A x \in DOMAIN m \ {k} : Insert(m, k, v, slots)[x] = m[x]
           /\ k \in DOMAIN m => k \in DOMAIN Insert(m, k, v, slots)
                                /\ Insert(m, k, v, slots)[k] = v
BY DEF IsMap, Insert, Put

LEMMA RemoveIsMap ==
    ASSUME NEW K, NEW V, NEW m, NEW k, IsMap(m, K, V)
    PROVE  /\ IsMap(Remove(m, k), K, V)
           /\ DOMAIN Remove(m, k) = DOMAIN m \ {k}
           /\ \A x \in DOMAIN Remove(m, k) : Remove(m, k)[x] = m[x]
BY DEF IsMap, Remove

LEMMA EmptyIsMap ==
    ASSUME NEW K, NEW V
    PROVE  IsMap(EmptyMap, K, V) /\ DOMAIN EmptyMap = {}
BY DEF IsMap, EmptyMap

LEMMA RestIsCall ==
    ASSUME NEW op \in {"gone", "user", "execve", "exit_group", "read", "write"}
    PROVE  Rest(op) \in Calls
BY DEF Rest, Calls, IoOps

\* Type correctness needs to know that a program about to publish an I/O
\* record still has its pending entry.
TypeInv == TypeOK /\ PendingHeld

LEMMA InitTypeInv == Init => TypeInv
<1> SUFFICES ASSUME Init PROVE TypeInv
    OBVIOUS
<1>1. Gone \in Calls /\ User \in Calls
    BY RestIsCall DEF Gone, User
<1>2. TypeOK
    BY <1>1, EmptyIsMap, ClockAssumption, BootAssumption DEF Init, TypeOK, IoOps
<1>3. PendingHeld
    BY DEF Init, PendingHeld, Gone, User, Rest
<1> QED
    BY <1>2, <1>3 DEF TypeInv

\* A new record keeps the ring a sequence of records.
LEMMA AppendRecord ==
    ASSUME ring \in Seq(Records), NEW r \in Records
    PROVE  /\ Append(ring, r) \in Seq(Records)
           /\ Len(Append(ring, r)) = Len(ring) + 1
           /\ Append(ring, r)[Len(ring) + 1] = r
           /\ \A i \in 1..Len(ring) : Append(ring, r)[i] = ring[i]
OBVIOUS

\* Removing a key from the map of one operation.
LEMMA RemoveIo ==
    ASSUME TypeOK, NEW op \in IoOps, NEW k
    PROVE  /\ IsMap(Remove(pendingIo[op], k), Threads, Fds)
           /\ DOMAIN Remove(pendingIo[op], k) = DOMAIN pendingIo[op] \ {k}
<1>1. IsMap(pendingIo[op], Threads, Fds)
    BY DEF TypeOK
<1> QED
    BY <1>1 DEF IsMap, Remove

\* Replacing the map of one operation leaves the other alone.
LEMMA ReplaceIo ==
    ASSUME TypeOK, NEW op \in IoOps, NEW m, IsMap(m, Threads, Fds),
           pendingIo' = [pendingIo EXCEPT ![op] = m]
    PROVE  /\ pendingIo' = [o \in IoOps |-> pendingIo'[o]]
           /\ \A o \in IoOps : IsMap(pendingIo'[o], Threads, Fds)
           /\ pendingIo'[op] = m
           /\ \A o \in IoOps \ {op} : pendingIo'[o] = pendingIo[o]
<1>1. DOMAIN pendingIo = IoOps
    BY DEF TypeOK
<1>2. pendingIo' = [o \in IoOps |-> IF o = op THEN m ELSE pendingIo[o]]
    BY <1>1
<1>3. /\ pendingIo'[op] = m
      /\ \A o \in IoOps \ {op} : pendingIo'[o] = pendingIo[o]
    BY <1>2
<1>4. \A o \in IoOps : IsMap(pendingIo'[o], Threads, Fds)
    BY <1>3 DEF TypeOK
<1>5. pendingIo' = [o \in IoOps |-> pendingIo'[o]]
    BY <1>2
<1> QED
    BY <1>3, <1>4, <1>5

LEMMA NextTypeInv == TypeInv /\ [Next]_vars => TypeInv'
<1> SUFFICES ASSUME TypeInv, [Next]_vars PROVE TypeInv'
    OBVIOUS
<1> USE DEF TypeInv
<1>1. CASE Boot
    BY <1>1 DEF Boot, TypeOK, PendingHeld, kernelVars, mapVars, BootOrder
<1>2. CASE Consume
    <2>1. Tail(ring) \in Seq(Records)
        BY <1>2 DEF Consume, TypeOK
    <2> QED
        BY <1>2, <2>1 DEF Consume, TypeOK, PendingHeld, kernelVars, mapVars
<1>3. ASSUME NEW p \in Tgids, Fork(p) PROVE TypeInv'
    <2>1. <<p, Leader>> \in Threads /\ User \in Calls /\ User.op = "user"
        BY LeaderAssumption, RestIsCall DEF Threads, User, Rest
    <2>2. TypeOK'
        BY <1>3, <2>1, ClockAssumption DEF Fork, TypeOK, mapVars
    <2>3. PendingHeld'
        BY <1>3, <2>1 DEF Fork, TypeOK, PendingHeld, mapVars, IoOps
    <2> QED
        BY <2>2, <2>3
<1>4. ASSUME NEW k \in Threads, SpawnThread(k) \/ Die(k) PROVE TypeInv'
    <2>1. /\ User \in Calls /\ User.op = "user"
          /\ Gone \in Calls /\ Gone.op = "gone"
        BY RestIsCall DEF Gone, User, Rest
    <2>2. TypeOK'
        BY <1>4, <2>1 DEF SpawnThread, Die, TypeOK, mapVars, kernelVars
    <2>3. PendingHeld'
        BY <1>4, <2>1 DEF SpawnThread, Die, TypeOK, PendingHeld, mapVars, IoOps
    <2> QED
        BY <2>2, <2>3
<1>5. ASSUME NEW k \in Threads, EnterExecve(k) PROVE TypeInv'
    <2>1. Rest("execve") \in Calls /\ Rest("execve").op = "execve"
        BY RestIsCall DEF Rest
    <2>2. TypeOK'
        BY <1>5, <2>1 DEF EnterExecve, TypeOK, kernelVars
    <2>3. PendingHeld'
        BY <1>5, <2>1 DEF EnterExecve, TypeOK, PendingHeld, IoOps
    <2> QED
        BY <2>2, <2>3
<1>6. ASSUME NEW k \in Threads, NEW ok \in BOOLEAN, clock < MaxClock,
             PublishExec(k, ok, clock + 1)
      PROVE  /\ ring' \in Seq(Records)
             /\ recorded' \subseteq Tgids \X Nat
             /\ pendingExec' \subseteq Threads
             /\ IsMap(execPids', Tgids, Nat)
    <2>1. clock + 1 \in Nat /\ k[1] \in Tgids /\ k[2] \in Tids
        BY DEF TypeOK, Threads
    <2>2. Record("Exec", k, clock + 1, 0) \in Records
        BY <2>1 DEF Record, Records, RecordTypes
    <2>3. IsMap(Insert(execPids, k[1], clock + 1, ExecPidsCap), Tgids, Nat)
        BY <2>1, InsertIsMap DEF TypeOK
    <2>4. Append(ring, Record("Exec", k, clock + 1, 0)) \in Seq(Records)
        BY <2>2, AppendRecord DEF TypeOK
    <2>5. CASE UNCHANGED <<ring, recorded, execPids>> /\ pendingExec' \subseteq pendingExec
        BY <2>5 DEF TypeOK
    <2>6. CASE /\ ring' = Append(ring, Record("Exec", k, clock + 1, 0))
               /\ recorded' = recorded \cup {<<k[1], clock + 1>>}
               /\ execPids' \in {Insert(execPids, k[1], clock + 1, ExecPidsCap), execPids}
               /\ pendingExec' \subseteq pendingExec
        BY <2>1, <2>3, <2>4, <2>6 DEF TypeOK
    <2> QED
        BY <1>6, <2>5, <2>6 DEF PublishExec
<1>7. ASSUME NEW k \in Threads, ExitExecveFailed(k) PROVE TypeInv'
    <2>1. User \in Calls /\ User.op = "user"
        BY RestIsCall DEF User, Rest
    <2>2. TypeOK'
        <3>1. PublishExec(k, FALSE, clock + 1) /\ clock < MaxClock
            BY <1>7 DEF ExitExecveFailed
        <3>2. /\ ring' \in Seq(Records) /\ recorded' \subseteq Tgids \X Nat
              /\ pendingExec' \subseteq Threads /\ IsMap(execPids', Tgids, Nat)
            BY <1>6, <3>1
        <3>3. /\ boot' = boot /\ image' = image /\ pendingIo' = pendingIo
              /\ call' \in [Threads -> Calls] /\ clock' \in 0..MaxClock
            BY <1>7, <2>1, ClockAssumption DEF ExitExecveFailed, TypeOK
        <3> QED
            BY <3>2, <3>3 DEF TypeOK
    <2>3. PendingHeld'
        BY <1>7, <2>1 DEF ExitExecveFailed, TypeOK, PendingHeld, IoOps
    <2> QED
        BY <2>2, <2>3
<1>8. ASSUME NEW k \in Threads, ExitExecve(k) PROVE TypeInv'
    <2>1. /\ User \in Calls /\ User.op = "user"
          /\ Gone \in Calls /\ Gone.op = "gone"
          /\ <<k[1], Leader>> \in Threads /\ k[1] \in Tgids
        BY LeaderAssumption, RestIsCall DEF User, Gone, Rest, Threads
    <2>2. TypeOK'
        <3>1. PublishExec(<<k[1], Leader>>, TRUE, clock + 1) /\ clock < MaxClock
            BY <1>8 DEF ExitExecve
        <3>2. /\ ring' \in Seq(Records) /\ recorded' \subseteq Tgids \X Nat
              /\ pendingExec' \subseteq Threads /\ IsMap(execPids', Tgids, Nat)
            BY <1>6, <2>1, <3>1
        <3>3. /\ boot' = boot /\ pendingIo' = pendingIo
              /\ image' \in [Tgids -> 0..MaxClock]
              /\ call' \in [Threads -> Calls] /\ clock' \in 0..MaxClock
            BY <1>8, <2>1, ClockAssumption DEF ExitExecve, TypeOK
        <3> QED
            BY <3>2, <3>3 DEF TypeOK
    <2>3. PendingHeld'
        BY <1>8, <2>1 DEF ExitExecve, TypeOK, PendingHeld, IoOps
    <2> QED
        BY <2>2, <2>3
<1>9. ASSUME NEW k \in Threads, EnterExitGroup(k) PROVE TypeInv'
    <2>1. Gone \in Calls /\ Gone.op = "gone" /\ k[1] \in Tgids
        BY RestIsCall DEF Gone, Rest, Threads
    <2>2. Get(execPids, k[1], 0) \in Nat
        BY DEF Get, TypeOK, IsMap
    <2>3. [op |-> "exit_group", at |-> "found", fd |-> 0,
           id |-> Get(execPids, k[1], 0)] \in Calls
        BY <2>2 DEF Calls
    <2>4. TypeOK'
        BY <1>9, <2>1, <2>3 DEF EnterExitGroup, TypeOK, kernelVars, mapVars
    <2>5. PendingHeld'
        BY <1>9, <2>1 DEF EnterExitGroup, TypeOK, PendingHeld, IoOps, mapVars
    <2> QED
        BY <2>4, <2>5
<1>10. ASSUME NEW k \in Threads, SubmitExit(k) PROVE TypeInv'
    <2>1. Gone \in Calls /\ Gone.op = "gone" /\ k[1] \in Tgids /\ k[2] \in Tids
        BY RestIsCall DEF Gone, Rest, Threads
    <2>2. call[k] \in Calls
        BY DEF TypeOK
    <2>3. Record("Exit", k, call[k].id, 0) \in Records
        BY <2>1, <2>2 DEF Record, Records, RecordTypes, Calls
    <2>4. [call[k] EXCEPT !.at = "sent"] \in Calls
        BY <2>2 DEF Calls
    <2>5. TypeOK'
        <3>1. Append(ring, Record("Exit", k, call[k].id, 0)) \in Seq(Records)
            BY <2>3, AppendRecord DEF TypeOK
        <3>2. ring' \in Seq(Records) /\ call' \in [Threads -> Calls]
            BY <1>10, <2>1, <2>4, <3>1 DEF SubmitExit, TypeOK
        <3> QED
            BY <1>10, <3>2 DEF SubmitExit, TypeOK, kernelVars, mapVars
    <2>6. PendingHeld'
        <3> SUFFICES ASSUME NEW j \in Threads, NEW op \in IoOps,
                            call'[j].op = op, call'[j].at = "found"
                     PROVE  j \in DOMAIN pendingIo'[op]
            BY DEF PendingHeld
        <3>1. call'[k].op \in {"gone", "exit_group"}
            BY <1>10, <2>1, <2>2 DEF SubmitExit, TypeOK, Calls
        <3>2. j # k /\ call'[j] = call[j]
            BY <1>10, <3>1 DEF SubmitExit, TypeOK, IoOps
        <3> QED
            BY <1>10, <3>2 DEF SubmitExit, PendingHeld, mapVars
    <2> QED
        BY <2>5, <2>6
<1>11. ASSUME NEW k \in Threads, CleanUpExit(k) PROVE TypeInv'
    <2>1. Gone \in Calls /\ Gone.op = "gone"
        BY RestIsCall DEF Gone, Rest
    <2>2. TypeOK'
        <3>1. IsMap(execPids', Tgids, Nat)
            BY <1>11, RemoveIsMap DEF CleanUpExit, TypeOK
        <3>2. \A op \in IoOps : IsMap(Remove(pendingIo[op], k), Threads, Fds)
            BY RemoveIo
        <3>3. /\ pendingIo' = [op \in IoOps |-> pendingIo'[op]]
              /\ \A op \in IoOps : IsMap(pendingIo'[op], Threads, Fds)
            BY <1>11, <3>2 DEF CleanUpExit
        <3> QED
            BY <1>11, <2>1, <3>1, <3>3 DEF CleanUpExit, TypeOK, kernelVars
    <2>3. PendingHeld'
        <3> SUFFICES ASSUME NEW j \in Threads, NEW op \in IoOps,
                            call'[j].op = op, call'[j].at = "found"
                     PROVE  j \in DOMAIN pendingIo'[op]
            BY DEF PendingHeld
        <3>1. j # k /\ call'[j] = call[j]
            BY <1>11, <2>1 DEF CleanUpExit, TypeOK, IoOps
        <3>2. j \in DOMAIN pendingIo[op]
            BY <3>1 DEF PendingHeld
        <3>3. DOMAIN pendingIo'[op] = DOMAIN pendingIo[op] \ {k}
            BY <1>11, RemoveIo DEF CleanUpExit
        <3> QED
            BY <3>1, <3>2, <3>3
    <2> QED
        BY <2>2, <2>3
<1>12. ASSUME NEW k \in Threads, NEW op \in IoOps, NEW fd \in Fds, EnterIo(k, op, fd)
       PROVE  TypeInv'
    <2>1. /\ [Rest(op) EXCEPT !.fd = fd] \in Calls
          /\ [Rest(op) EXCEPT !.fd = fd].at = "kernel"
        BY RestIsCall DEF Rest, Calls, IoOps
    <2>2. IsMap(Insert(pendingIo[op], k, fd, PendingCap), Threads, Fds)
        BY InsertIsMap DEF TypeOK
    <2>3. DOMAIN pendingIo[op] \subseteq DOMAIN Insert(pendingIo[op], k, fd, PendingCap)
        BY DEF Insert, Put
    <2>4. /\ pendingIo' = [o \in IoOps |-> pendingIo'[o]]
          /\ \A o \in IoOps : IsMap(pendingIo'[o], Threads, Fds)
          /\ \A o \in IoOps : DOMAIN pendingIo[o] \subseteq DOMAIN pendingIo'[o]
        BY <1>12, <2>2, <2>3 DEF EnterIo, TypeOK
    <2>5. TypeOK'
        BY <1>12, <2>1, <2>4 DEF EnterIo, TypeOK, kernelVars
    <2>6. PendingHeld'
        BY <1>12, <2>1, <2>4 DEF EnterIo, TypeOK, PendingHeld
    <2> QED
        BY <2>5, <2>6
<1>13. ASSUME NEW k \in Threads, NEW op \in IoOps, NEW ok \in BOOLEAN, ExitIo(k, op, ok)
       PROVE  TypeInv'
    <2>1. /\ User \in Calls /\ User.op = "user" /\ k[1] \in Tgids /\ call[k] \in Calls
        BY RestIsCall DEF User, Rest, Threads, TypeOK
    <2>2. CASE k \in DOMAIN pendingIo[op] /\ k[1] \in DOMAIN execPids
               /\ call' = [call EXCEPT ![k].at = "found", ![k].id = execPids[k[1]]]
               /\ UNCHANGED pendingIo
        <3>1. [call[k] EXCEPT !.at = "found", !.id = execPids[k[1]]] \in Calls
            BY <2>1, <2>2 DEF Calls, TypeOK, IsMap
        <3>2. TypeOK'
            BY <1>13, <2>2, <3>1 DEF ExitIo, TypeOK, kernelVars
        <3>3. PendingHeld'
            BY <1>13, <2>1, <2>2 DEF ExitIo, TypeOK, PendingHeld, Calls
        <3> QED
            BY <3>2, <3>3
    <2>3. CASE /\ call' = [call EXCEPT ![k] = User]
               /\ \/ UNCHANGED pendingIo
                  \/ pendingIo' = [pendingIo EXCEPT ![op] = Remove(@, k)]
        <3>1. /\ pendingIo' = [o \in IoOps |-> pendingIo'[o]]
              /\ \A o \in IoOps : IsMap(pendingIo'[o], Threads, Fds)
              /\ \A o \in IoOps : DOMAIN pendingIo[o] \ {k} \subseteq DOMAIN pendingIo'[o]
            <4>1. /\ IsMap(Remove(pendingIo[op], k), Threads, Fds)
                  /\ DOMAIN Remove(pendingIo[op], k) = DOMAIN pendingIo[op] \ {k}
                BY RemoveIo
            <4>2. CASE UNCHANGED pendingIo
                BY <4>2 DEF TypeOK
            <4>3. CASE pendingIo' = [pendingIo EXCEPT ![op] = Remove(pendingIo[op], k)]
                BY <4>1, <4>3, ReplaceIo
            <4> QED
                BY <2>3, <4>2, <4>3
        <3>2. TypeOK'
            BY <1>13, <2>1, <2>3, <3>1 DEF ExitIo, TypeOK, kernelVars
        <3>3. PendingHeld'
            BY <2>1, <2>3, <3>1 DEF TypeOK, PendingHeld, IoOps
        <3> QED
            BY <3>2, <3>3
    <2> QED
        BY <1>13, <2>2, <2>3 DEF ExitIo
<1>14. ASSUME NEW k \in Threads, NEW op \in IoOps, NEW copied \in BOOLEAN,
              SubmitIo(k, op, copied)
       PROVE  TypeInv'
    <2>1. /\ User \in Calls /\ User.op = "user" /\ call[k] \in Calls
          /\ k[1] \in Tgids /\ k[2] \in Tids
        BY RestIsCall DEF User, Rest, Threads, TypeOK
    <2>2. k \in DOMAIN pendingIo[op] /\ pendingIo[op][k] \in Fds
        BY <1>14 DEF SubmitIo, PendingHeld, TypeOK, IsMap
    <2>3. Record(op, k, call[k].id, pendingIo[op][k]) \in Records
        BY <2>1, <2>2 DEF Record, Records, RecordTypes, Calls
    <2>4. ring' \in Seq(Records)
        BY <1>14, <2>3, AppendRecord DEF SubmitIo, TypeOK
    <2>5. /\ pendingIo' = [o \in IoOps |-> pendingIo'[o]]
          /\ \A o \in IoOps : IsMap(pendingIo'[o], Threads, Fds)
          /\ \A o \in IoOps : DOMAIN pendingIo[o] \ {k} \subseteq DOMAIN pendingIo'[o]
        <3>1. /\ IsMap(Remove(pendingIo[op], k), Threads, Fds)
              /\ DOMAIN Remove(pendingIo[op], k) = DOMAIN pendingIo[op] \ {k}
            BY RemoveIo
        <3>2. pendingIo' = [pendingIo EXCEPT ![op] = Remove(pendingIo[op], k)]
            BY <1>14 DEF SubmitIo
        <3> QED
            BY <3>1, <3>2, ReplaceIo
    <2>6. TypeOK'
        BY <1>14, <2>1, <2>4, <2>5 DEF SubmitIo, TypeOK, kernelVars
    <2>7. PendingHeld'
        BY <1>14, <2>1, <2>5 DEF SubmitIo, TypeOK, PendingHeld, IoOps
    <2> QED
        BY <2>6, <2>7
<1>15. CASE UNCHANGED vars
    BY <1>15 DEF vars, kernelVars, mapVars, TypeOK, PendingHeld
<1> QED
    BY <1>1, <1>2, <1>3, <1>4, <1>5, <1>7, <1>8, <1>9, <1>10, <1>11, <1>12,
       <1>13, <1>14, <1>15
    DEF Next, ThreadStep, IoOps, EnterRead, EnterWrite, ExitRead,
        ExitWrite, SubmitRead, SubmitWrite

-----------------------------------------------------------------------------
\* Type correctness of every reachable state, and with it the fact that a
\* program never publishes from a pending entry that has gone.
THEOREM ProbeTypeOK == Spec => []TypeOK
<1>1. Init => TypeInv
    BY InitTypeInv
<1>2. TypeInv /\ [Next]_vars => TypeInv'
    BY NextTypeInv
<1>3. TypeInv => TypeOK
    BY DEF TypeInv
<1> QED
    BY <1>1, <1>2, <1>3, PTL DEF Spec

-----------------------------------------------------------------------------
(* Execution ids.  The two properties of interest need four more facts to  *)
(* be inductive: time does not run backwards, images are no younger than   *)
(* the clock, and a program holding a copy of an id holds the right one.   *)
ClockInv ==
    /\ \A x \in recorded : x[2] \in 1..clock
    /\ \A p \in Tgids : image[p] \in 0..clock

FoundIsCurrent ==
    \A k \in Threads :
        /\ call[k].op \in IoOps /\ call[k].at = "found"
        /\ <<k[1], image[k[1]]>> \in recorded
        => call[k].id = image[k[1]]

IdInv ==
    /\ ClockInv
    /\ IdsAreRecorded
    /\ RecordedImageIsCurrent
    /\ FoundIsCurrent

LEMMA InitIdInv == Init => IdInv
<1> SUFFICES ASSUME Init PROVE IdInv
    OBVIOUS
<1>1. \A k \in Threads : call[k].id = 0 /\ call[k].at = "kernel"
    BY DEF Init, User, Gone, Rest
<1>2. Len(ring) = 0 /\ DOMAIN execPids = {} /\ recorded = {}
    BY EmptyIsMap DEF Init
<1> QED
    BY <1>1, <1>2 DEF Init, IdInv, ClockInv, IdsAreRecorded, RecordedImageIsCurrent,
       FoundIsCurrent

\* A step that only moves one thread to a state without an id, or lets
\* EXEC_PIDS forget a process.
LEMMA QuietStep ==
    ASSUME TypeInv, IdInv, NEW k \in Threads, NEW c \in Calls, c.id = 0, c.at = "kernel",
           call' = [call EXCEPT ![k] = c],
           UNCHANGED <<image, clock, ring, recorded>>,
           execPids' \in {execPids, Remove(execPids, k[1])}
    PROVE  IdInv'
<1>1. /\ DOMAIN execPids' \subseteq DOMAIN execPids
      /\ \A p \in DOMAIN execPids' : execPids'[p] = execPids[p]
    BY DEF Remove
<1>2. call'[k] = c /\ \A j \in Threads \ {k} : call'[j] = call[j]
    BY DEF TypeInv, TypeOK
<1>3. ClockInv'
    BY DEF IdInv, ClockInv
<1>4. IdsAreRecorded'
    BY <1>1, <1>2 DEF IdInv, IdsAreRecorded
<1>5. RecordedImageIsCurrent'
    BY <1>1 DEF IdInv, RecordedImageIsCurrent
<1>6. FoundIsCurrent'
    BY <1>2 DEF IdInv, FoundIsCurrent
<1> QED
    BY <1>3, <1>4, <1>5, <1>6 DEF IdInv

\* A step that publishes one record whose id is that of a recorded Exec (or
\* 0), from a thread that afterwards keeps at most the id it had.
LEMMA PublishStep ==
    ASSUME TypeInv, IdInv, NEW k \in Threads, NEW c \in Calls, NEW r \in Records,
           c.id \in {0, call[k].id}, c.op \notin IoOps,
           r.id # 0 => <<r.tgid, r.id>> \in recorded,
           call' = [call EXCEPT ![k] = c],
           ring' \in {ring, Append(ring, r)},
           UNCHANGED <<image, clock, recorded, execPids>>
    PROVE  IdInv'
<1>1. call'[k] = c /\ \A j \in Threads \ {k} : call'[j] = call[j]
    BY DEF TypeInv, TypeOK
<1>2. \A i \in 1..Len(ring') : ring'[i].id # 0 => <<ring'[i].tgid, ring'[i].id>> \in recorded
    <2>1. CASE ring' = ring
        BY <2>1 DEF IdInv, IdsAreRecorded
    <2>2. CASE ring' = Append(ring, r)
        <3>1. /\ Len(ring) \in Nat
              /\ Len(ring') = Len(ring) + 1
              /\ ring'[Len(ring) + 1] = r
              /\ \A i \in 1..Len(ring) : ring'[i] = ring[i]
            BY <2>2 DEF TypeInv, TypeOK
        <3> QED
            BY <3>1 DEF IdInv, IdsAreRecorded
    <2> QED
        BY <2>1, <2>2
<1>3. ClockInv'
    BY DEF IdInv, ClockInv
<1>4. IdsAreRecorded'
    BY <1>1, <1>2 DEF IdInv, IdsAreRecorded
<1>5. RecordedImageIsCurrent'
    BY DEF IdInv, RecordedImageIsCurrent
<1>6. FoundIsCurrent'
    BY <1>1 DEF IdInv, FoundIsCurrent
<1> QED
    BY <1>3, <1>4, <1>5, <1>6 DEF IdInv

\* What sys_exit_execve does to the recorded ids and to EXEC_PIDS.
LEMMA ExecIds ==
    ASSUME TypeInv, IdInv, NEW k \in Threads, NEW ok \in BOOLEAN, clock < MaxClock,
           PublishExec(k, ok, clock + 1)
    PROVE  /\ recorded' \in {recorded, recorded \cup {<<k[1], clock + 1>>}}
           /\ \A i \in 1..Len(ring') : ring'[i].id # 0 =>
                 <<ring'[i].tgid, ring'[i].id>> \in recorded'
           /\ \A p \in DOMAIN execPids' :
                 \/ p \in DOMAIN execPids /\ execPids'[p] = execPids[p]
                 \/ p = k[1] /\ execPids'[p] = clock + 1 /\ ok
           /\ \A p \in DOMAIN execPids' : <<p, execPids'[p]>> \in recorded'
           /\ ok /\ k[1] \in DOMAIN execPids' /\ recorded' # recorded
                => execPids'[k[1]] = clock + 1
<1>1. CASE UNCHANGED <<ring, recorded, execPids>>
    BY <1>1 DEF IdInv, IdsAreRecorded
<1>2. CASE /\ ring' = Append(ring, Record("Exec", k, clock + 1, 0))
           /\ recorded' = recorded \cup {<<k[1], clock + 1>>}
           /\ execPids' = IF ok THEN Insert(execPids, k[1], clock + 1, ExecPidsCap)
                          ELSE execPids
    <2> DEFINE r == Record("Exec", k, clock + 1, 0)
    <2>1. r.tgid = k[1] /\ r.id = clock + 1
        BY DEF Record
    <2>2. r \in Records
        BY DEF Record, Records, RecordTypes, Threads, TypeInv, TypeOK
    <2> HIDE DEF r
    <2>3. /\ Len(ring) \in Nat
          /\ Len(ring') = Len(ring) + 1
          /\ ring'[Len(ring) + 1] = r
          /\ \A i \in 1..Len(ring) : ring'[i] = ring[i]
        BY <1>2, <2>2 DEF r, TypeInv, TypeOK
    <2>4. \A i \in 1..Len(ring') : ring'[i].id # 0 =>
              <<ring'[i].tgid, ring'[i].id>> \in recorded'
        BY <1>2, <2>1, <2>3 DEF IdInv, IdsAreRecorded
    <2>5. CASE ok
        <3>1. \/ execPids' = execPids /\ k[1] \notin DOMAIN execPids
              \/ execPids' = Put(execPids, k[1], clock + 1)
            BY <1>2, <2>5 DEF Insert
        <3> QED
            BY <1>2, <2>4, <2>5, <3>1 DEF Put, IdInv, IdsAreRecorded
    <2>6. CASE ~ok
        BY <1>2, <2>4, <2>6 DEF IdInv, IdsAreRecorded
    <2> QED
        BY <2>5, <2>6
<1> QED
    BY <1>1, <1>2 DEF PublishExec

LEMMA NextIdInv == TypeInv /\ IdInv /\ [Next]_vars => IdInv'
<1> SUFFICES ASSUME TypeInv, IdInv, [Next]_vars PROVE IdInv'
    OBVIOUS
<1>1. CASE Boot \/ UNCHANGED vars
    BY <1>1 DEF Boot, vars, kernelVars, mapVars, IdInv, ClockInv, IdsAreRecorded,
       RecordedImageIsCurrent, FoundIsCurrent
<1>2. CASE Consume
    <2>1. /\ Len(ring) \in Nat /\ Len(ring') = Len(ring) - 1
          /\ \A i \in 1..Len(ring') : ring'[i] = ring[i + 1]
        BY <1>2 DEF Consume, TypeInv, TypeOK
    <2>2. \A i \in 1..Len(ring') : i + 1 \in 1..Len(ring)
        BY <2>1
    <2>3. IdsAreRecorded'
        BY <1>2, <2>1, <2>2 DEF Consume, mapVars, IdInv, IdsAreRecorded
    <2> QED
        BY <1>2, <2>3 DEF Consume, kernelVars, mapVars, IdInv, ClockInv,
           RecordedImageIsCurrent, FoundIsCurrent
<1>3. ASSUME NEW p \in Tgids, Fork(p) PROVE IdInv'
    <2>1. /\ <<p, Leader>> \in Threads
          /\ call' = [call EXCEPT ![<<p, Leader>>] = User]
          /\ image' = [image EXCEPT ![p] = 0]
          /\ UNCHANGED <<clock, ring, recorded, execPids>>
        BY <1>3, LeaderAssumption DEF Fork, Threads, mapVars
    <2>2. User.op = "user" /\ User.id = 0
        BY DEF User, Rest
    <2>3. image'[p] = 0 /\ \A q \in Tgids \ {p} : image'[q] = image[q]
        BY <2>1 DEF TypeInv, TypeOK
    <2>4. ClockInv'
        BY <2>1, <2>3 DEF IdInv, ClockInv, TypeInv, TypeOK
    <2>5. <<p, 0>> \notin recorded
        BY DEF IdInv, ClockInv
    <2>6. IdsAreRecorded'
        BY <2>1, <2>2 DEF IdInv, IdsAreRecorded, TypeInv, TypeOK
    <2>7. RecordedImageIsCurrent'
        BY <2>1, <2>3, <2>5 DEF IdInv, RecordedImageIsCurrent, TypeInv, TypeOK, IsMap
    <2>8. FoundIsCurrent'
        <3> SUFFICES ASSUME NEW j \in Threads, call'[j].op \in IoOps, call'[j].at = "found",
                            <<j[1], image'[j[1]]>> \in recorded
                     PROVE  call'[j].id = image'[j[1]]
            BY <2>1 DEF FoundIsCurrent
        <3>1. j # <<p, Leader>> /\ call'[j] = call[j]
            BY <2>1, <2>2 DEF TypeInv, TypeOK, IoOps
        <3>2. j[1] # p /\ j[1] \in Tgids
            BY <2>3, <2>5 DEF Threads
        <3> QED
            BY <2>3, <3>1, <3>2 DEF IdInv, FoundIsCurrent
    <2> QED
        BY <2>4, <2>6, <2>7, <2>8 DEF IdInv
<1>4. ASSUME NEW k \in Threads, SpawnThread(k) \/ Die(k) \/ EnterExecve(k) \/ CleanUpExit(k)
      PROVE  IdInv'
    <2>1. \A op \in {"user", "gone", "execve"} :
              Rest(op) \in Calls /\ Rest(op).id = 0 /\ Rest(op).at = "kernel"
        BY RestIsCall DEF Rest
    <2>2. /\ \E op \in {"user", "gone", "execve"} : call' = [call EXCEPT ![k] = Rest(op)]
          /\ UNCHANGED <<image, clock, ring, recorded>>
          /\ execPids' \in {execPids, Remove(execPids, k[1])}
        BY <1>4 DEF SpawnThread, Die, EnterExecve, CleanUpExit, User, Gone, kernelVars, mapVars
    <2> QED
        BY <2>1, <2>2, QuietStep
<1>5. ASSUME NEW k \in Threads, NEW op \in IoOps, NEW fd \in Fds, EnterIo(k, op, fd)
      PROVE  IdInv'
    <2> DEFINE c == [Rest(op) EXCEPT !.fd = fd]
    <2>1. c \in Calls /\ c.id = 0 /\ c.at = "kernel"
        BY RestIsCall DEF Rest, Calls, IoOps
    <2>2. /\ call' = [call EXCEPT ![k] = c]
          /\ UNCHANGED <<image, clock, ring, recorded, execPids>>
        BY <1>5 DEF EnterIo, kernelVars
    <2> QED
        BY <2>1, <2>2, QuietStep
<1>6. ASSUME NEW k \in Threads, EnterExitGroup(k) PROVE IdInv'
    <2> DEFINE id == Get(execPids, k[1], 0)
               c == [op |-> "exit_group", at |-> "found", fd |-> 0, id |-> id]
    <2>1. \/ call' = [call EXCEPT ![k] = c]
          \/ call' = [call EXCEPT ![k] = Gone]
        BY <1>6 DEF EnterExitGroup
    <2>2. UNCHANGED <<image, clock, ring, recorded, execPids>>
        BY <1>6 DEF EnterExitGroup, kernelVars, mapVars
    <2>3. CASE call' = [call EXCEPT ![k] = Gone]
        <3>1. Gone \in Calls /\ Gone.id = 0 /\ Gone.at = "kernel"
            BY RestIsCall DEF Gone, Rest
        <3> QED
            BY <2>2, <2>3, <3>1, QuietStep
    <2>4. CASE call' = [call EXCEPT ![k] = c]
        <3>1. call'[k] = c /\ \A j \in Threads \ {k} : call'[j] = call[j]
            BY <2>4 DEF TypeInv, TypeOK
        <3>2. id # 0 => <<k[1], id>> \in recorded
            BY DEF Get, IdInv, IdsAreRecorded
        <3>3. c.op \notin IoOps /\ c.id = id
            BY DEF IoOps
        <3>4. IdsAreRecorded'
            BY <2>2, <3>1, <3>2, <3>3 DEF IdInv, IdsAreRecorded
        <3>5. FoundIsCurrent'
            BY <2>2, <3>1, <3>3 DEF IdInv, FoundIsCurrent
        <3> QED
            BY <2>2, <3>4, <3>5 DEF IdInv, ClockInv, RecordedImageIsCurrent
    <2> QED
        BY <2>1, <2>3, <2>4
<1>7. ASSUME NEW k \in Threads, SubmitExit(k) PROVE IdInv'
    <2> DEFINE r == Record("Exit", k, call[k].id, 0)
    <2>1. call[k] \in Calls /\ k[1] \in Tgids /\ k[2] \in Tids
        BY DEF TypeInv, TypeOK, Threads
    <2>2. /\ r \in Records
          /\ r.id # 0 => <<r.tgid, r.id>> \in recorded
        BY <2>1 DEF Record, Records, RecordTypes, Calls, IdInv, IdsAreRecorded
    <2>3. \E c \in Calls : /\ c.id \in {0, call[k].id} /\ c.op \notin IoOps
                           /\ call' = [call EXCEPT ![k] = c]
        <3>1. /\ Gone \in Calls /\ Gone.id = 0 /\ Gone.op \notin IoOps
            BY RestIsCall DEF Gone, Rest, IoOps
        <3>2. /\ [call[k] EXCEPT !.at = "sent"] \in Calls
              /\ [call[k] EXCEPT !.at = "sent"].id = call[k].id
              /\ [call[k] EXCEPT !.at = "sent"].op \notin IoOps
            BY <1>7, <2>1 DEF SubmitExit, Calls, IoOps
        <3> QED
            BY <1>7, <3>1, <3>2 DEF SubmitExit
    <2>4. /\ ring' \in {ring, Append(ring, r)}
          /\ UNCHANGED <<image, clock, recorded, execPids>>
        BY <1>7 DEF SubmitExit, kernelVars, mapVars
    <2> QED
        BY <2>2, <2>3, <2>4, PublishStep
<1>8. ASSUME NEW k \in Threads, NEW op \in IoOps, NEW copied \in BOOLEAN,
             SubmitIo(k, op, copied)
      PROVE  IdInv'
    <2> DEFINE r == Record(op, k, call[k].id, pendingIo[op][k])
    <2>1. call[k] \in Calls /\ k[1] \in Tgids /\ k[2] \in Tids
        BY DEF TypeInv, TypeOK, Threads
    <2>2. pendingIo[op][k] \in Fds
        BY <1>8 DEF SubmitIo, TypeInv, PendingHeld, TypeOK, IsMap
    <2>3. /\ r \in Records
          /\ r.id # 0 => <<r.tgid, r.id>> \in recorded
        BY <2>1, <2>2 DEF Record, Records, RecordTypes, Calls, IdInv, IdsAreRecorded
    <2>4. User \in Calls /\ User.id = 0 /\ User.op \notin IoOps
        BY RestIsCall DEF User, Rest, IoOps
    <2>5. /\ ring' \in {ring, Append(ring, r)}
          /\ call' = [call EXCEPT ![k] = User]
          /\ UNCHANGED <<image, clock, recorded, execPids>>
        BY <1>8 DEF SubmitIo, kernelVars
    <2> HIDE DEF r
    <2> QED
        BY <2>3, <2>4, <2>5, PublishStep
<1>9. ASSUME NEW k \in Threads, NEW op \in IoOps, NEW ok \in BOOLEAN, ExitIo(k, op, ok)
      PROVE  IdInv'
    <2>1. UNCHANGED <<image, clock, ring, recorded, execPids>>
        BY <1>9 DEF ExitIo, kernelVars
    <2>2. CASE call' = [call EXCEPT ![k] = User]
        <3>1. User \in Calls /\ User.id = 0 /\ User.at = "kernel"
            BY RestIsCall DEF User, Rest
        <3> QED
            BY <2>1, <2>2, <3>1, QuietStep
    <2>3. CASE /\ k[1] \in DOMAIN execPids
               /\ call' = [call EXCEPT ![k].at = "found", ![k].id = execPids[k[1]]]
        <3>1. /\ call'[k].id = execPids[k[1]]
              /\ \A j \in Threads \ {k} : call'[j] = call[j]
            BY <2>3 DEF TypeInv, TypeOK, Calls
        <3>2. <<k[1], execPids[k[1]]>> \in recorded
            BY <2>3 DEF IdInv, IdsAreRecorded
        <3>3. <<k[1], image[k[1]]>> \in recorded => execPids[k[1]] = image[k[1]]
            BY <2>3 DEF IdInv, RecordedImageIsCurrent
        <3>4. IdsAreRecorded'
            BY <2>1, <3>1, <3>2 DEF IdInv, IdsAreRecorded
        <3>5. FoundIsCurrent'
            BY <2>1, <3>1, <3>3 DEF IdInv, FoundIsCurrent
        <3> QED
            BY <2>1, <3>4, <3>5 DEF IdInv, ClockInv, RecordedImageIsCurrent
    <2> QED
        BY <1>9, <2>2, <2>3 DEF ExitIo
<1>10. ASSUME NEW k \in Threads, ExitExecveFailed(k) PROVE IdInv'
    <2>1. /\ clock' = clock + 1 /\ image' = image /\ clock < MaxClock
          /\ PublishExec(k, FALSE, clock + 1)
          /\ call' = [call EXCEPT ![k] = User]
        BY <1>10 DEF ExitExecveFailed
    <2>2. /\ recorded' \in {recorded, recorded \cup {<<k[1], clock + 1>>}}
          /\ \A i \in 1..Len(ring') : ring'[i].id # 0 =>
                <<ring'[i].tgid, ring'[i].id>> \in recorded'
          /\ \A p \in DOMAIN execPids' : p \in DOMAIN execPids /\ execPids'[p] = execPids[p]
          /\ \A p \in DOMAIN execPids' : <<p, execPids'[p]>> \in recorded'
        BY <2>1, ExecIds
    <2>3. User.op \notin IoOps /\ User.id = 0
        BY DEF User, Rest, IoOps
    <2>4. call'[k] = User /\ \A j \in Threads \ {k} : call'[j] = call[j]
        BY <2>1 DEF TypeInv, TypeOK
    <2>5. ClockInv'
        BY <2>1, <2>2 DEF IdInv, ClockInv, TypeInv, TypeOK
    <2>6. \A p \in Tgids : <<p, image[p]>> \in recorded' => <<p, image[p]>> \in recorded
        BY <2>2 DEF IdInv, ClockInv, TypeInv, TypeOK
    <2>7. IdsAreRecorded'
        BY <2>2, <2>3, <2>4 DEF IdInv, IdsAreRecorded
    <2>8. RecordedImageIsCurrent'
        BY <2>1, <2>2, <2>6 DEF IdInv, RecordedImageIsCurrent, TypeInv, TypeOK, IsMap
    <2>9. FoundIsCurrent'
        BY <2>1, <2>3, <2>4, <2>6 DEF IdInv, FoundIsCurrent, Threads
    <2> QED
        BY <2>5, <2>7, <2>8, <2>9 DEF IdInv
<1>11. ASSUME NEW k \in Threads, ExitExecve(k) PROVE IdInv'
    <2> DEFINE leader == <<k[1], Leader>>
    <2>1. /\ clock' = clock + 1 /\ clock < MaxClock
          /\ image' = [image EXCEPT ![k[1]] = clock + 1]
          /\ PublishExec(leader, TRUE, clock + 1)
          /\ call' = [call EXCEPT ![k] = Gone, ![leader] = User]
          /\ Alone(k)
        BY <1>11 DEF ExitExecve
    <2>2. leader \in Threads /\ leader[1] = k[1] /\ k[1] \in Tgids
        BY LeaderAssumption DEF Threads
    <2>3. /\ recorded' \in {recorded, recorded \cup {<<k[1], clock + 1>>}}
          /\ \A i \in 1..Len(ring') : ring'[i].id # 0 =>
                <<ring'[i].tgid, ring'[i].id>> \in recorded'
          /\ \A p \in DOMAIN execPids' :
                \/ p \in DOMAIN execPids /\ execPids'[p] = execPids[p]
                \/ p = k[1] /\ execPids'[p] = clock + 1
          /\ \A p \in DOMAIN execPids' : <<p, execPids'[p]>> \in recorded'
          /\ k[1] \in DOMAIN execPids' /\ recorded' # recorded
                => execPids'[k[1]] = clock + 1
        BY <2>1, <2>2, ExecIds
    <2>4. /\ User.op \notin IoOps /\ User.id = 0
          /\ Gone.op \notin IoOps /\ Gone.id = 0
        BY DEF User, Gone, Rest, IoOps
    <2>5. /\ \A j \in Threads : call'[j] \in {User, Gone, call[j]}
          /\ \A j \in Threads : j[1] = k[1] => call'[j] \in {User, Gone}
        BY <2>1, <2>2 DEF TypeInv, TypeOK, Alone
    <2>6. /\ image'[k[1]] = clock + 1
          /\ \A p \in Tgids \ {k[1]} : image'[p] = image[p]
        BY <2>1, <2>2 DEF TypeInv, TypeOK
    <2>7. ClockInv'
        BY <2>1, <2>3, <2>6 DEF IdInv, ClockInv, TypeInv, TypeOK
    <2>8. <<k[1], clock + 1>> \notin recorded
        BY DEF IdInv, ClockInv, TypeInv, TypeOK
    <2>9. IdsAreRecorded'
        BY <2>3, <2>4, <2>5 DEF IdInv, IdsAreRecorded
    <2>10. RecordedImageIsCurrent'
        <3> SUFFICES ASSUME NEW p \in DOMAIN execPids', <<p, image'[p]>> \in recorded'
                     PROVE  execPids'[p] = image'[p]
            BY DEF RecordedImageIsCurrent
        <3>1. CASE p = k[1]
            BY <2>3, <2>6, <2>8, <3>1
        <3>2. CASE p # k[1]
            <4>1. p \in DOMAIN execPids /\ execPids'[p] = execPids[p] /\ p \in Tgids
                BY <2>3, <3>2 DEF TypeInv, TypeOK, IsMap
            <4>2. image'[p] = image[p] /\ <<p, image[p]>> \in recorded
                BY <2>3, <2>6, <3>2, <4>1
            <4> QED
                BY <4>1, <4>2 DEF IdInv, RecordedImageIsCurrent
        <3> QED
            BY <3>1, <3>2
    <2>11. FoundIsCurrent'
        <3> SUFFICES ASSUME NEW j \in Threads, call'[j].op \in IoOps, call'[j].at = "found",
                            <<j[1], image'[j[1]]>> \in recorded'
                     PROVE  call'[j].id = image'[j[1]]
            BY DEF FoundIsCurrent
        <3>1. j[1] # k[1] /\ call'[j] = call[j] /\ j[1] \in Tgids
            BY <2>4, <2>5 DEF Threads
        <3>2. image'[j[1]] = image[j[1]] /\ <<j[1], image[j[1]]>> \in recorded
            BY <2>3, <2>6, <3>1
        <3> QED
            BY <3>1, <3>2 DEF IdInv, FoundIsCurrent
    <2> QED
        BY <2>7, <2>9, <2>10, <2>11 DEF IdInv
<1> QED
    BY <1>1, <1>2, <1>3, <1>4, <1>5, <1>6, <1>7, <1>8, <1>9, <1>10, <1>11
    DEF Next, ThreadStep, IoOps, EnterRead, EnterWrite, ExitRead,
        ExitWrite, SubmitRead, SubmitWrite

\* Every execution_id other than 0 that a record or EXEC_PIDS carries belongs
\* to an Exec record of the same process that was published before.
THEOREM ProbeIdsAreRecorded == Spec => []IdsAreRecorded
<1>1. Init => TypeInv /\ IdInv
    BY InitTypeInv, InitIdInv
<1>2. TypeInv /\ IdInv /\ [Next]_vars => (TypeInv /\ IdInv)'
    BY NextTypeInv, NextIdInv
<1>3. TypeInv /\ IdInv => IdsAreRecorded
    BY DEF IdInv
<1> QED
    BY <1>1, <1>2, <1>3, PTL DEF Spec

\* While an image's Exec record was published, EXEC_PIDS never names an
\* earlier image of its process.
THEOREM ProbeRecordedImageIsCurrent == Spec => []RecordedImageIsCurrent
<1>1. Init => TypeInv /\ IdInv
    BY InitTypeInv, InitIdInv
<1>2. TypeInv /\ IdInv /\ [Next]_vars => (TypeInv /\ IdInv)'
    BY NextTypeInv, NextIdInv
<1>3. TypeInv /\ IdInv => RecordedImageIsCurrent
    BY DEF IdInv
<1> QED
    BY <1>1, <1>2, <1>3, PTL DEF Spec

-----------------------------------------------------------------------------
\* Only SubmitIo makes a record of an I/O type.
LEMMA OnlySubmitIoPublishesIo ==
    ASSUME TypeInv, [Next]_vars, Published(IoOps)
    PROVE  \E k \in Threads, op \in IoOps, copied \in BOOLEAN :
              /\ SubmitIo(k, op, copied)
              /\ Newest = Record(op, k, call[k].id, pendingIo[op][k])
<1>1. Len(ring) \in Nat /\ Len(ring') > Len(ring) /\ Newest.type \in IoOps
    BY DEF Published, Newest, TypeInv, TypeOK
<1>2. \A r \in Records : Append(ring, r)[Len(Append(ring, r))] = r
    BY AppendRecord DEF TypeInv, TypeOK
<1>3. CASE UNCHANGED ring
    BY <1>1, <1>3
<1>4. CASE Consume
    BY <1>1, <1>4 DEF Consume, TypeInv, TypeOK
<1>5. ASSUME NEW k \in Threads, NEW ok \in BOOLEAN, NEW now \in Nat, PublishExec(k, ok, now)
      PROVE  FALSE
    <2>1. ring' = ring \/ ring' = Append(ring, Record("Exec", k, now, 0))
        BY <1>5 DEF PublishExec
    <2>2. /\ Record("Exec", k, now, 0) \in Records
          /\ Record("Exec", k, now, 0).type \notin IoOps
        BY <1>5 DEF Record, Records, RecordTypes, IoOps, Threads
    <2> QED
        BY <1>1, <1>2, <2>1, <2>2 DEF Newest
<1>6. ASSUME NEW k \in Threads, SubmitExit(k) PROVE FALSE
    <2>1. ring' = ring \/ ring' = Append(ring, Record("Exit", k, call[k].id, 0))
        BY <1>6 DEF SubmitExit
    <2>2. call[k] \in Calls
        BY DEF TypeInv, TypeOK
    <2>3. /\ Record("Exit", k, call[k].id, 0) \in Records
          /\ Record("Exit", k, call[k].id, 0).type \notin IoOps
        BY <2>2 DEF Record, Records, RecordTypes, IoOps, Threads, Calls
    <2> QED
        BY <1>1, <1>2, <2>1, <2>3 DEF Newest
<1>7. ASSUME NEW k \in Threads, NEW op \in IoOps, NEW copied \in BOOLEAN,
             SubmitIo(k, op, copied)
      PROVE  Newest = Record(op, k, call[k].id, pendingIo[op][k])
    <2>1. ring' = ring \/ ring' = Append(ring, Record(op, k, call[k].id, pendingIo[op][k]))
        BY <1>7 DEF SubmitIo
    <2>2. call[k] \in Calls /\ pendingIo[op][k] \in Fds
        BY <1>7 DEF SubmitIo, TypeInv, PendingHeld, TypeOK, IsMap
    <2>3. Record(op, k, call[k].id, pendingIo[op][k]) \in Records
        BY <2>2 DEF Record, Records, RecordTypes, Threads, Calls
    <2> QED
        BY <1>1, <1>2, <2>1, <2>3 DEF Newest
<1>8. \A k \in Threads : ~ExitExecveFailed(k) /\ ~ExitExecve(k)
    <2>1. clock + 1 \in Nat
        BY DEF TypeInv, TypeOK
    <2>2. \A k \in Threads : <<k[1], Leader>> \in Threads
        BY LeaderAssumption DEF Threads
    <2> QED
        BY <1>5, <2>1, <2>2 DEF ExitExecveFailed, ExitExecve
<1>9. \E k \in Threads, op \in IoOps, copied \in BOOLEAN : SubmitIo(k, op, copied)
    BY <1>3, <1>4, <1>6, <1>8
    DEF Next, ThreadStep, IoOps, EnterRead, EnterWrite, ExitRead,
        ExitWrite, SubmitRead, SubmitWrite, vars, Boot, Fork, SpawnThread, Die, EnterExecve, EnterExitGroup,
        CleanUpExit, EnterIo, ExitIo
<1> QED
    BY <1>7, <1>9

\* An I/O record is stamped with the image that made the call, whenever that
\* image's Exec record was published.
THEOREM ProbeIoNamesItsImage == Spec => IoNamesItsImage
<1>1. Init => TypeInv /\ IdInv
    BY InitTypeInv, InitIdInv
<1>2. TypeInv /\ IdInv /\ [Next]_vars => (TypeInv /\ IdInv)'
    BY NextTypeInv, NextIdInv
<1>3. TypeInv /\ IdInv /\ [Next]_vars
        => [Published(IoOps) /\ <<Newest.tgid, image[Newest.tgid]>> \in recorded
              => Newest.id = image[Newest.tgid]]_vars
    <2> SUFFICES ASSUME TypeInv, IdInv, [Next]_vars, Published(IoOps),
                        <<Newest.tgid, image[Newest.tgid]>> \in recorded
                 PROVE  Newest.id = image[Newest.tgid]
        OBVIOUS
    <2>1. PICK k \in Threads, op \in IoOps, copied \in BOOLEAN :
              /\ SubmitIo(k, op, copied)
              /\ Newest = Record(op, k, call[k].id, pendingIo[op][k])
        BY OnlySubmitIoPublishesIo
    <2>2. Newest.tgid = k[1] /\ Newest.id = call[k].id
        BY <2>1 DEF Record
    <2>3. call[k].op \in IoOps /\ call[k].at = "found"
        BY <2>1 DEF SubmitIo
    <2> QED
        BY <2>2, <2>3 DEF IdInv, FoundIsCurrent
<1> QED
    BY <1>1, <1>2, <1>3, PTL DEF Spec, IoNamesItsImage

-----------------------------------------------------------------------------
(* The probe and its own process.  The sys_exit programs rely on their     *)
(* sys_enter partners having checked SELF_TGID, and those on run() having  *)
(* set it before it attached anything.                                     *)
SelfInv ==
    /\ \A i \in 1..Len(ring) : ring[i].tgid # Self
    /\ \A k \in Threads : k[1] = Self =>
          /\ call[k].op # "exit_group"
          /\ k \notin pendingExec
          /\ \A op \in IoOps : k \notin DOMAIN pendingIo[op]

LEMMA SelfIsSetFirst ==
    ASSUME boot \in 0..Len(BootOrder),
           NEW program \in {"sys_enter_execve", "sys_enter_exit_group",
                            "sys_enter_read", "sys_enter_write"},
           Attached(program)
    PROVE  ~NotSelf(Self)
BY DEF Attached, NotSelf, BootOrder

LEMMA InitSelfInv == Init => SelfInv
<1>1. User.op # "exit_group" /\ Gone.op # "exit_group"
    BY DEF User, Gone, Rest
<1> QED
    BY <1>1, EmptyIsMap DEF Init, SelfInv

\* What a record of another process does to the ring.
LEMMA AppendOther ==
    ASSUME TypeOK, SelfInv, NEW r \in Records, r.tgid # Self,
           ring' \in {ring, Append(ring, r)}
    PROVE  \A i \in 1..Len(ring') : ring'[i].tgid # Self
<1>1. /\ Len(Append(ring, r)) = Len(ring) + 1
      /\ Append(ring, r)[Len(ring) + 1] = r
      /\ \A i \in 1..Len(ring) : Append(ring, r)[i] = ring[i]
    BY AppendRecord DEF TypeOK
<1>2. Len(ring) \in Nat
    BY DEF TypeOK
<1> QED
    BY <1>1, <1>2 DEF SelfInv

\* sys_exit_execve publishes for a thread with a pending entry, which is
\* not one of shspectr's.
LEMMA PublishExecSelf ==
    ASSUME TypeOK, SelfInv, NEW k \in Threads, NEW ok \in BOOLEAN,
           clock < MaxClock, PublishExec(k, ok, clock + 1)
    PROVE  /\ \A i \in 1..Len(ring') : ring'[i].tgid # Self
           /\ pendingExec' \subseteq pendingExec
<1> DEFINE r == Record("Exec", k, clock + 1, 0)
<1>1. r \in Records /\ r.tgid = k[1]
    BY DEF Record, Records, RecordTypes, Threads, TypeOK
<1>2. CASE UNCHANGED <<ring, pendingExec>>
    BY <1>2 DEF SelfInv
<1>3. CASE k \in pendingExec /\ pendingExec' = pendingExec \ {k}
           /\ ring' \in {ring, Append(ring, r)}
    <2>1. k[1] # Self
        BY <1>3 DEF SelfInv
    <2> HIDE DEF r
    <2> QED
        BY <1>1, <1>3, <2>1, AppendOther
<1> QED
    BY <1>2, <1>3 DEF PublishExec

LEMMA NextSelfInv == TypeInv /\ SelfInv /\ [Next]_vars => SelfInv'
<1> SUFFICES ASSUME TypeInv, SelfInv, [Next]_vars PROVE SelfInv'
    OBVIOUS
<1> USE DEF TypeInv
<1>0. /\ User.op # "exit_group" /\ Gone.op # "exit_group"
      /\ Rest("execve").op # "exit_group"
    BY DEF User, Gone, Rest
<1>1. CASE UNCHANGED vars
    BY <1>1 DEF vars, kernelVars, mapVars, SelfInv
<1>2. CASE Boot
    BY <1>2 DEF Boot, SelfInv, kernelVars, mapVars
<1>3. CASE Consume
    <2>1. /\ Len(Tail(ring)) = Len(ring) - 1 /\ Len(ring) \in Nat
          /\ \A i \in 1..Len(Tail(ring)) : Tail(ring)[i] = ring[i + 1]
        BY <1>3 DEF Consume, TypeOK
    <2>2. \A i \in 1..Len(ring') : ring'[i].tgid # Self
        BY <1>3, <2>1 DEF Consume, SelfInv
    <2> QED
        BY <1>3, <2>2 DEF Consume, SelfInv, kernelVars, mapVars
<1>4. ASSUME NEW p \in Tgids, Fork(p) PROVE SelfInv'
    BY <1>0, <1>4 DEF Fork, SelfInv, mapVars, TypeOK
<1>5. ASSUME NEW k \in Threads, SpawnThread(k) \/ Die(k) PROVE SelfInv'
    BY <1>0, <1>5 DEF SpawnThread, Die, SelfInv, kernelVars, mapVars, TypeOK
<1>6. ASSUME NEW k \in Threads, EnterExecve(k) PROVE SelfInv'
    BY <1>0, <1>6 DEF EnterExecve, SelfInv, kernelVars, TypeOK
<1>7. ASSUME NEW k \in Threads, ExitExecveFailed(k) PROVE SelfInv'
    <2>1. /\ \A i \in 1..Len(ring') : ring'[i].tgid # Self
          /\ pendingExec' \subseteq pendingExec
        BY <1>7, PublishExecSelf DEF ExitExecveFailed
    <2> QED
        BY <1>0, <1>7, <2>1 DEF ExitExecveFailed, SelfInv, TypeOK
<1>8. ASSUME NEW k \in Threads, ExitExecve(k) PROVE SelfInv'
    <2>1. <<k[1], Leader>> \in Threads
        BY LeaderAssumption DEF Threads
    <2>2. /\ \A i \in 1..Len(ring') : ring'[i].tgid # Self
          /\ pendingExec' \subseteq pendingExec
        BY <1>8, <2>1, PublishExecSelf DEF ExitExecve
    <2>3. \A j \in Threads : call'[j] \in {User, Gone, call[j]}
        BY <1>8 DEF ExitExecve, TypeOK
    <2> QED
        BY <1>0, <1>8, <2>2, <2>3 DEF ExitExecve, SelfInv
<1>9. ASSUME NEW k \in Threads, EnterExitGroup(k) PROVE SelfInv'
    <2>1. CASE k[1] = Self
        <3>1. call' = [call EXCEPT ![k] = Gone]
            BY <1>9, <2>1, SelfIsSetFirst DEF EnterExitGroup, TypeOK
        <3> QED
            BY <1>0, <1>9, <3>1 DEF EnterExitGroup, SelfInv, kernelVars, mapVars, TypeOK
    <2>2. CASE k[1] # Self
        <3>1. \A j \in Threads \ {k} : call'[j] = call[j]
            BY <1>9 DEF EnterExitGroup, TypeOK
        <3> QED
            BY <1>9, <2>2, <3>1 DEF EnterExitGroup, SelfInv, kernelVars, mapVars
    <2> QED
        BY <2>1, <2>2
<1>10. ASSUME NEW k \in Threads, SubmitExit(k) PROVE SelfInv'
    <2> DEFINE r == Record("Exit", k, call[k].id, 0)
    <2>1. k[1] # Self
        BY <1>10 DEF SubmitExit, SelfInv
    <2>2. call[k] \in Calls
        BY DEF TypeOK
    <2>3. r \in Records /\ r.tgid # Self
        BY <2>1, <2>2 DEF Record, Records, RecordTypes, Threads, Calls
    <2>4. ring' \in {ring, Append(ring, r)}
        BY <1>10 DEF SubmitExit
    <2>5. \A i \in 1..Len(ring') : ring'[i].tgid # Self
        <3> HIDE DEF r
        <3> QED
            BY <2>3, <2>4, AppendOther
    <2>6. \A j \in Threads \ {k} : call'[j] = call[j]
        BY <1>10 DEF SubmitExit, TypeOK
    <2> QED
        BY <1>10, <2>1, <2>5, <2>6 DEF SubmitExit, SelfInv, kernelVars, mapVars
<1>11. ASSUME NEW k \in Threads, CleanUpExit(k) PROVE SelfInv'
    <2>1. \A op \in IoOps : DOMAIN pendingIo'[op] \subseteq DOMAIN pendingIo[op]
        BY <1>11, RemoveIo DEF CleanUpExit
    <2>2. \A j \in Threads : call'[j] \in {Gone, call[j]}
        BY <1>11 DEF CleanUpExit, TypeOK
    <2> QED
        BY <1>0, <1>11, <2>1, <2>2 DEF CleanUpExit, SelfInv, kernelVars
<1>12. ASSUME NEW k \in Threads, NEW op \in IoOps, NEW fd \in Fds, EnterIo(k, op, fd)
       PROVE  SelfInv'
    <2>1. [Rest(op) EXCEPT !.fd = fd].op # "exit_group"
        BY DEF Rest, IoOps
    <2>2. \A j \in Threads : call'[j] \in {[Rest(op) EXCEPT !.fd = fd], call[j]}
        BY <1>12 DEF EnterIo, TypeOK
    <2>3. \A o \in IoOps : \A j \in Threads :
             j[1] = Self => j \notin DOMAIN pendingIo'[o]
        <3>1. CASE k[1] = Self
            <4>1. Attached(EnterOf(op)) => ~NotSelf(k[1])
                BY <3>1, SelfIsSetFirst DEF EnterOf, TypeOK
            <4> QED
                BY <1>12, <4>1 DEF EnterIo, SelfInv
        <3>2. CASE k[1] # Self
            <4>1. DOMAIN Insert(pendingIo[op], k, fd, PendingCap)
                    \subseteq DOMAIN pendingIo[op] \cup {k}
                BY DEF Insert, Put
            <4>2. \A o \in IoOps :
                     DOMAIN pendingIo'[o] \subseteq DOMAIN pendingIo[o] \cup {k}
                BY <1>12, <4>1 DEF EnterIo, TypeOK
            <4> QED
                BY <3>2, <4>2 DEF SelfInv
        <3> QED
            BY <3>1, <3>2
    <2> QED
        BY <1>12, <2>1, <2>2, <2>3 DEF EnterIo, SelfInv, kernelVars
<1>13. ASSUME NEW k \in Threads, NEW op \in IoOps,
              \/ \E ok \in BOOLEAN : ExitIo(k, op, ok)
              \/ \E copied \in BOOLEAN : SubmitIo(k, op, copied)
       PROVE  /\ \A o \in IoOps : DOMAIN pendingIo'[o] \subseteq DOMAIN pendingIo[o]
              /\ \A j \in Threads : call'[j].op = "exit_group" => call[j].op = "exit_group"
    <2>1. \/ pendingIo' = pendingIo
          \/ pendingIo' = [pendingIo EXCEPT ![op] = Remove(pendingIo[op], k)]
        BY <1>13 DEF ExitIo, SubmitIo
    <2>2. IsMap(Remove(pendingIo[op], k), Threads, Fds)
          /\ DOMAIN Remove(pendingIo[op], k) = DOMAIN pendingIo[op] \ {k}
        BY RemoveIo
    <2>3. \A o \in IoOps : DOMAIN pendingIo'[o] \subseteq DOMAIN pendingIo[o]
        BY <2>1, <2>2, ReplaceIo
    <2>4. \/ call' = [call EXCEPT ![k] = User]
          \/ \E id : call' = [call EXCEPT ![k].at = "found", ![k].id = id]
        BY <1>13 DEF ExitIo, SubmitIo
    <2>5. call \in [Threads -> Calls] /\ call[k] \in Calls
        BY DEF TypeOK
    <2>6. CASE call' = [call EXCEPT ![k] = User]
        BY <1>0, <2>3, <2>5, <2>6
    <2>7. ASSUME NEW id, call' = [call EXCEPT ![k].at = "found", ![k].id = id]
          PROVE  \A j \in Threads : call'[j].op = call[j].op
        BY <2>5, <2>7 DEF Calls
    <2> QED
        BY <2>3, <2>4, <2>6, <2>7
<1>14. ASSUME NEW k \in Threads, NEW op \in IoOps, NEW ok \in BOOLEAN, ExitIo(k, op, ok)
       PROVE  SelfInv'
    <2>1. UNCHANGED <<ring, pendingExec>>
        BY <1>14 DEF ExitIo
    <2> QED
        BY <1>13, <1>14, <2>1 DEF SelfInv
<1>15. ASSUME NEW k \in Threads, NEW op \in IoOps, NEW copied \in BOOLEAN,
              SubmitIo(k, op, copied)
       PROVE  SelfInv'
    <2> DEFINE r == Record(op, k, call[k].id, pendingIo[op][k])
    <2>1. k \in DOMAIN pendingIo[op] /\ pendingIo[op][k] \in Fds /\ call[k] \in Calls
        BY <1>15 DEF SubmitIo, PendingHeld, TypeOK, IsMap
    <2>2. r \in Records /\ r.tgid # Self
        BY <2>1 DEF Record, Records, RecordTypes, Threads, Calls, SelfInv
    <2>3. ring' \in {ring, Append(ring, r)} /\ pendingExec' = pendingExec
        BY <1>15 DEF SubmitIo
    <2>4. \A i \in 1..Len(ring') : ring'[i].tgid # Self
        <3> HIDE DEF r
        <3> QED
            BY <2>2, <2>3, AppendOther
    <2> QED
        BY <1>13, <1>15, <2>3, <2>4 DEF SelfInv
<1> QED
    BY <1>1, <1>2, <1>3, <1>4, <1>5, <1>6, <1>7, <1>8, <1>9, <1>10, <1>11, <1>12,
       <1>14, <1>15
    DEF Next, ThreadStep, IoOps, EnterRead, EnterWrite, ExitRead,
        ExitWrite, SubmitRead, SubmitWrite

\* shspectr never records itself: none of its threads has a pending entry
\* and no record in the ring names it.
THEOREM ProbeSelfIsSilent == Spec => []SelfIsSilent
<1>1. Init => TypeInv /\ SelfInv
    BY InitTypeInv, InitSelfInv
<1>2. TypeInv /\ SelfInv /\ [Next]_vars => (TypeInv /\ SelfInv)'
    BY NextTypeInv, NextSelfInv
<1>3. TypeInv /\ SelfInv => SelfIsSilent
    <2> SUFFICES ASSUME TypeInv, SelfInv PROVE SelfIsSilent
        OBVIOUS
    <2>1. \A t \in Tids : <<Self, t>> \in Threads \/ Self \notin Tgids
        BY DEF Threads
    <2>2. CASE Self \in Tgids
        BY <2>1, <2>2 DEF SelfInv, SelfIsSilent
    <2>3. CASE Self \notin Tgids
        BY <2>3 DEF SelfInv, SelfIsSilent, TypeInv, TypeOK, Threads, IsMap
    <2> QED
        BY <2>2, <2>3
<1> QED
    BY <1>1, <1>2, <1>3, PTL DEF Spec

-----------------------------------------------------------------------------
(* The calls of threads: pending entries, and what the ring says of them. *)

\* The program that publishes an I/O record still has its pending entry.
THEOREM ProbePendingHeld == Spec => []PendingHeld
<1>1. Init => TypeInv
    BY InitTypeInv
<1>2. TypeInv /\ [Next]_vars => TypeInv'
    BY NextTypeInv
<1>3. TypeInv => PendingHeld
    BY DEF TypeInv
<1> QED
    BY <1>1, <1>2, <1>3, PTL DEF Spec

-----------------------------------------------------------------------------
(* Pending calls.  Once all eight lines of run() are done, an entry of     *)
(* PENDING_READ or PENDING_WRITE is that of the call its thread is in.     *)
PendingIoInCall ==
    \A op \in IoOps : \A k \in DOMAIN pendingIo[op] :
        call[k].op = op /\ pendingIo[op][k] = call[k].fd

CallInv ==
    /\ boot = Len(BootOrder)
    /\ PendingExecInCall
    /\ PendingIoInCall

LEMMA InitCallInv == Init /\ BootFrom = {Len(BootOrder)} => CallInv
BY EmptyIsMap DEF Init, CallInv, PendingExecInCall, PendingIoInCall

LEMMA AllAttached ==
    ASSUME boot = Len(BootOrder)
    PROVE  /\ Attached("sys_exit_execve")
           /\ \A op \in IoOps : Attached(ExitOf(op))
BY DEF Attached, BootOrder, ExitOf, IoOps

\* A step in which one thread leaves a state that has no pending entry.
LEMMA IdleStep ==
    ASSUME TypeInv, CallInv, NEW k \in Threads,
           call[k].op \notin {"execve"} \cup IoOps,
           \A j \in Threads \ {k} : call'[j] = call[j],
           UNCHANGED <<boot, pendingExec, pendingIo>>
    PROVE  CallInv'
<1>1. \A op \in IoOps : DOMAIN pendingIo[op] \subseteq Threads \ {k}
    BY DEF TypeInv, TypeOK, IsMap, CallInv, PendingIoInCall
<1>2. \A j \in pendingExec : j \in Threads /\ (j[2] = Leader => j # k)
    BY DEF TypeInv, TypeOK, CallInv, PendingExecInCall
<1> QED
    BY <1>1, <1>2 DEF CallInv, PendingExecInCall, PendingIoInCall

\* The state of a call in which no I/O is pending.
LEMMA NoIoPending ==
    ASSUME TypeInv, CallInv, NEW k \in Threads, NEW op \in IoOps, call[k].op # op
    PROVE  k \notin DOMAIN pendingIo[op]
BY DEF CallInv, PendingIoInCall

LEMMA NextCallInv == TypeInv /\ CallInv /\ [Next]_vars => CallInv'
<1> SUFFICES ASSUME TypeInv, CallInv, [Next]_vars PROVE CallInv'
    OBVIOUS
<1>0. /\ call \in [Threads -> Calls]
      /\ \A op \in IoOps : IsMap(pendingIo[op], Threads, Fds)
      /\ DOMAIN pendingIo = IoOps
      /\ pendingExec \subseteq Threads
    BY DEF TypeInv, TypeOK
<1>a. /\ User.op = "user" /\ Gone.op = "gone"
      /\ Rest("execve").op = "execve"
    BY DEF User, Gone, Rest
<1>1. CASE UNCHANGED vars
    BY <1>1 DEF vars, mapVars, CallInv, PendingExecInCall, PendingIoInCall
<1>2. CASE Boot
    BY <1>2 DEF Boot, CallInv, BootOrder
<1>3. CASE Consume
    BY <1>3 DEF Consume, mapVars, CallInv, PendingExecInCall, PendingIoInCall
<1>4. ASSUME NEW p \in Tgids, Fork(p) PROVE CallInv'
    <2>1. <<p, Leader>> \in Threads /\ call[<<p, Leader>>] = Gone
        BY <1>4, LeaderAssumption DEF Fork, Threads
    <2>2. call[<<p, Leader>>].op \notin {"execve"} \cup IoOps
        BY <1>a, <2>1 DEF IoOps
    <2>3. \A j \in Threads \ {<<p, Leader>>} : call'[j] = call[j]
        BY <1>0, <1>4 DEF Fork
    <2> QED
        BY <1>4, <2>1, <2>2, <2>3, IdleStep DEF Fork, mapVars
<1>5. ASSUME NEW k \in Threads, SpawnThread(k) \/ Die(k) PROVE CallInv'
    <2>1. call[k].op \notin {"execve"} \cup IoOps
        BY <1>5, <1>a DEF SpawnThread, Die, IoOps
    <2>2. \A j \in Threads \ {k} : call'[j] = call[j]
        BY <1>0, <1>5 DEF SpawnThread, Die
    <2> QED
        BY <1>5, <2>1, <2>2, IdleStep DEF SpawnThread, Die, mapVars
<1>6. ASSUME NEW k \in Threads, EnterExecve(k) PROVE CallInv'
    <2>1. /\ call' = [call EXCEPT ![k] = Rest("execve")] /\ call[k].op = "user"
          /\ pendingExec' \in {pendingExec, pendingExec \cup {k}}
          /\ UNCHANGED <<boot, pendingIo>>
        BY <1>6, <1>a DEF EnterExecve
    <2>2. \A op \in IoOps : k \notin DOMAIN pendingIo[op]
        BY <2>1, NoIoPending DEF IoOps
    <2>3. PendingIoInCall'
        BY <1>0, <2>1, <2>2 DEF CallInv, PendingIoInCall, IsMap
    <2>4. PendingExecInCall'
        BY <1>0, <1>a, <2>1 DEF CallInv, PendingExecInCall
    <2> QED
        BY <2>1, <2>3, <2>4 DEF CallInv
<1>7. ASSUME NEW k \in Threads, ExitExecveFailed(k) PROVE CallInv'
    <2>1. /\ call' = [call EXCEPT ![k] = User] /\ call[k].op = "execve"
          /\ UNCHANGED <<boot, pendingIo>>
        BY <1>7, <1>a DEF ExitExecveFailed
    <2>2. pendingExec' = pendingExec \ {k}
        BY <1>7, AllAttached DEF CallInv, ExitExecveFailed, PublishExec
    <2>3. \A op \in IoOps : k \notin DOMAIN pendingIo[op]
        BY <2>1, NoIoPending DEF IoOps
    <2>4. PendingIoInCall'
        BY <1>0, <2>1, <2>3 DEF CallInv, PendingIoInCall, IsMap
    <2>5. PendingExecInCall'
        BY <1>0, <2>1, <2>2 DEF CallInv, PendingExecInCall
    <2> QED
        BY <2>1, <2>4, <2>5 DEF CallInv
<1>8. ASSUME NEW k \in Threads, ExitExecve(k) PROVE CallInv'
    <2> DEFINE leader == <<k[1], Leader>>
    <2>1. /\ call' = [call EXCEPT ![k] = Gone, ![leader] = User]
          /\ call[k].op = "execve" /\ Alone(k)
          /\ UNCHANGED <<boot, pendingIo>>
        BY <1>8, <1>a DEF ExitExecve
    <2>2. leader \in Threads /\ leader[1] = k[1] /\ leader[2] = Leader
        BY LeaderAssumption DEF Threads
    <2>3. pendingExec' = pendingExec \ {leader}
        BY <1>8, AllAttached DEF CallInv, ExitExecve, PublishExec
    <2>4. \A j \in Threads \ {k, leader} : call'[j] = call[j]
        BY <1>0, <2>1
    <2>5. call[leader].op \notin IoOps /\ call[k].op \notin IoOps
        BY <1>a, <2>1, <2>2 DEF Alone, IoOps
    <2>6. \A op \in IoOps : DOMAIN pendingIo[op] \subseteq Threads \ {k, leader}
        <3>1. \A op \in IoOps : k \notin DOMAIN pendingIo[op] /\ leader \notin DOMAIN pendingIo[op]
            BY <2>2, <2>5, NoIoPending
        <3> QED
            BY <1>0, <3>1 DEF IsMap
    <2>7. PendingIoInCall'
        <3> SUFFICES ASSUME NEW op \in IoOps, NEW j \in DOMAIN pendingIo[op]
                     PROVE  call'[j].op = op /\ pendingIo[op][j] = call'[j].fd
            BY <2>1 DEF PendingIoInCall
        <3>1. call'[j] = call[j]
            BY <2>4, <2>6
        <3> QED
            BY <3>1 DEF CallInv, PendingIoInCall
    <2>8. \A j \in pendingExec' : j[2] = Leader => j \in Threads \ {k, leader}
        <3>1. k = <<k[1], k[2]>>
            BY DEF Threads
        <3> QED
            BY <1>0, <2>3, <3>1
    <2>9. PendingExecInCall'
        BY <2>3, <2>4, <2>8 DEF CallInv, PendingExecInCall
    <2> QED
        BY <2>1, <2>7, <2>9 DEF CallInv
<1>9. ASSUME NEW k \in Threads, EnterExitGroup(k) \/ SubmitExit(k) PROVE CallInv'
    <2>1. call[k].op \notin {"execve"} \cup IoOps
        BY <1>9, <1>a DEF EnterExitGroup, SubmitExit, IoOps
    <2>2. \A j \in Threads \ {k} : call'[j] = call[j]
        BY <1>0, <1>9 DEF EnterExitGroup, SubmitExit
    <2> QED
        BY <1>9, <2>1, <2>2, IdleStep DEF EnterExitGroup, SubmitExit, mapVars
<1>10. ASSUME NEW k \in Threads, CleanUpExit(k) PROVE CallInv'
    <2>1. /\ call' = [call EXCEPT ![k] = Gone] /\ call[k].op = "exit_group"
          /\ pendingIo' = [op \in IoOps |-> Remove(pendingIo[op], k)]
          /\ UNCHANGED <<boot, pendingExec>>
        BY <1>10 DEF CleanUpExit
    <2>2. \A op \in IoOps :
              /\ DOMAIN pendingIo'[op] = DOMAIN pendingIo[op] \ {k}
              /\ \A j \in DOMAIN pendingIo'[op] : pendingIo'[op][j] = pendingIo[op][j]
        BY <2>1 DEF Remove
    <2>3. PendingIoInCall'
        <3> SUFFICES ASSUME NEW op \in IoOps, NEW j \in DOMAIN pendingIo'[op]
                     PROVE  call'[j].op = op /\ pendingIo'[op][j] = call'[j].fd
            BY DEF PendingIoInCall
        <3>1. j \in DOMAIN pendingIo[op] \ {k} /\ pendingIo'[op][j] = pendingIo[op][j]
            BY <2>2
        <3>2. call'[j] = call[j]
            BY <1>0, <2>1, <3>1 DEF IsMap
        <3> QED
            BY <3>1, <3>2 DEF CallInv, PendingIoInCall
    <2>4. PendingExecInCall'
        <3>1. \A j \in Threads \ {k} : call'[j] = call[j]
            BY <1>0, <2>1
        <3> QED
            BY <1>0, <2>1, <3>1 DEF CallInv, PendingExecInCall
    <2> QED
        BY <2>1, <2>3, <2>4 DEF CallInv
<1>11. ASSUME NEW k \in Threads, NEW op \in IoOps, NEW fd \in Fds, EnterIo(k, op, fd)
       PROVE  CallInv'
    <2> DEFINE c == [Rest(op) EXCEPT !.fd = fd]
    <2>1. /\ call' = [call EXCEPT ![k] = c] /\ call[k].op = "user"
          /\ pendingIo' \in {pendingIo,
                 [pendingIo EXCEPT ![op] = Insert(pendingIo[op], k, fd, PendingCap)]}
          /\ UNCHANGED <<boot, pendingExec>>
        BY <1>11, <1>a DEF EnterIo
    <2>2. c.op = op /\ c.fd = fd
        BY DEF Rest
    <2>3. \A o \in IoOps : k \notin DOMAIN pendingIo[o]
        BY <2>1, NoIoPending DEF IoOps
    <2>4. \A o \in IoOps : \A j \in DOMAIN pendingIo'[o] :
              \/ j \in DOMAIN pendingIo[o] /\ pendingIo'[o][j] = pendingIo[o][j]
              \/ j = k /\ o = op /\ pendingIo'[o][j] = fd
        BY <1>0, <2>1 DEF Insert, Put
    <2>5. PendingIoInCall'
        <3> HIDE DEF c
        <3> QED
            BY <1>0, <2>1, <2>2, <2>3, <2>4 DEF CallInv, PendingIoInCall, IsMap
    <2>6. PendingExecInCall'
        BY <1>0, <2>1 DEF CallInv, PendingExecInCall
    <2> QED
        BY <2>1, <2>5, <2>6 DEF CallInv
<1>12. ASSUME NEW k \in Threads, NEW op \in IoOps, NEW c,
              call[k].op = op, call' = [call EXCEPT ![k] = c],
              \/ c.op = op /\ c.fd = call[k].fd /\ UNCHANGED pendingIo
              \/ k \notin DOMAIN pendingIo[op] /\ UNCHANGED pendingIo
              \/ pendingIo' = [pendingIo EXCEPT ![op] = Remove(pendingIo[op], k)],
              UNCHANGED <<boot, pendingExec>>
       PROVE  CallInv'
    <2>1. \A o \in IoOps : o # op => k \notin DOMAIN pendingIo[o]
        BY <1>12, NoIoPending
    <2>2. \A o \in IoOps : \A j \in DOMAIN pendingIo'[o] :
              /\ j \in DOMAIN pendingIo[o] /\ pendingIo'[o][j] = pendingIo[o][j]
              /\ j = k => c.op = o /\ c.fd = call[k].fd
        BY <1>0, <1>12, <2>1 DEF Remove
    <2>3. PendingIoInCall'
        BY <1>0, <1>12, <2>2 DEF CallInv, PendingIoInCall, IsMap
    <2>4. PendingExecInCall'
        BY <1>0, <1>12 DEF CallInv, PendingExecInCall, IoOps
    <2> QED
        BY <1>12, <2>3, <2>4 DEF CallInv
<1>13. ASSUME NEW k \in Threads, NEW op \in IoOps, NEW ok \in BOOLEAN, ExitIo(k, op, ok)
       PROVE  CallInv'
    <2>1. Attached(ExitOf(op))
        BY AllAttached DEF CallInv
    <2>2. CASE /\ call' = [call EXCEPT ![k].at = "found", ![k].id = execPids[k[1]]]
               /\ UNCHANGED pendingIo
        <3> DEFINE c == [call[k] EXCEPT !.at = "found", !.id = execPids[k[1]]]
        <3>1. call' = [call EXCEPT ![k] = c]
            BY <1>0, <2>2
        <3>2. call[k] \in Calls
            BY <1>0
        <3>3. c.op = call[k].op /\ c.fd = call[k].fd
            BY <3>2 DEF Calls
        <3> HIDE DEF c
        <3> QED
            BY <1>12, <1>13, <2>2, <3>1, <3>3 DEF ExitIo
    <2>3. CASE /\ call' = [call EXCEPT ![k] = User]
               /\ \/ k \notin DOMAIN pendingIo[op] /\ UNCHANGED pendingIo
                  \/ pendingIo' = [pendingIo EXCEPT ![op] = Remove(@, k)]
        BY <1>12, <1>13, <2>3 DEF ExitIo
    <2> QED
        BY <1>13, <2>1, <2>2, <2>3 DEF ExitIo
<1>14. ASSUME NEW k \in Threads, NEW op \in IoOps, NEW copied \in BOOLEAN,
              SubmitIo(k, op, copied)
       PROVE  CallInv'
    BY <1>12, <1>14 DEF SubmitIo
<1> QED
    BY <1>1, <1>2, <1>3, <1>4, <1>5, <1>6, <1>7, <1>8, <1>9, <1>10, <1>11, <1>13, <1>14
    DEF Next, ThreadStep, IoOps, EnterRead, EnterWrite, ExitRead,
        ExitWrite, SubmitRead, SubmitWrite

\* With every program attached, the PENDING_EXEC entry of a group leader
\* belongs to an execve that has not returned.
THEOREM ProbePendingExecInCall ==
    ASSUME BootFrom = {Len(BootOrder)} PROVE Spec => []PendingExecInCall
<1>1. Init => TypeInv /\ CallInv
    BY InitTypeInv, InitCallInv
<1>2. TypeInv /\ CallInv /\ [Next]_vars => (TypeInv /\ CallInv)'
    BY NextTypeInv, NextCallInv
<1>3. TypeInv /\ CallInv => PendingExecInCall
    BY DEF CallInv
<1> QED
    BY <1>1, <1>2, <1>3, PTL DEF Spec

\* With every program attached, an I/O record carries the fd of the call
\* that is returning.
THEOREM ProbeIoNamesItsCall ==
    ASSUME BootFrom = {Len(BootOrder)} PROVE Spec => IoNamesItsCall
<1>1. Init => TypeInv /\ CallInv
    BY InitTypeInv, InitCallInv
<1>2. TypeInv /\ CallInv /\ [Next]_vars => (TypeInv /\ CallInv)'
    BY NextTypeInv, NextCallInv
<1>3. TypeInv /\ CallInv /\ [Next]_vars
        => [Published(IoOps) => Newest.fd = call[NewestThread].fd]_vars
    <2> SUFFICES ASSUME TypeInv, CallInv, [Next]_vars, Published(IoOps)
                 PROVE  Newest.fd = call[NewestThread].fd
        OBVIOUS
    <2>1. PICK k \in Threads, op \in IoOps, copied \in BOOLEAN :
              /\ SubmitIo(k, op, copied)
              /\ Newest = Record(op, k, call[k].id, pendingIo[op][k])
        BY OnlySubmitIoPublishesIo
    <2>2. Newest.fd = pendingIo[op][k] /\ NewestThread = k
        BY <2>1 DEF Record, NewestThread, Threads
    <2>3. k \in DOMAIN pendingIo[op]
        BY <2>1 DEF SubmitIo, TypeInv, PendingHeld
    <2> QED
        BY <2>2, <2>3 DEF CallInv, PendingIoInCall
<1> QED
    BY <1>1, <1>2, <1>3, PTL DEF Spec, IoNamesItsCall

-----------------------------------------------------------------------------
(* The last word of a thread.  After its Exit record a thread is either    *)
(* still in exit_group, or the id of that record is gone: EXEC_PIDS names  *)
(* a later image of the process, or none, and the thread holds no copy.    *)
Silenced(r) ==
    LET k == <<r.tgid, r.tid>> IN
    \/ call[k].op = "exit_group" /\ call[k].at = "sent"
    \/ /\ r.tgid \in DOMAIN execPids => execPids[r.tgid] > r.id
       /\ call[k].op \in IoOps /\ call[k].at = "found" => call[k].id # r.id

ExitInv ==
    /\ NothingAfterExit
    /\ \A i \in 1..Len(ring) : ring[i].type = "Exit" /\ ring[i].id # 0 => Silenced(ring[i])

LEMMA InitExitInv == Init => ExitInv
<1> SUFFICES ASSUME Init PROVE ExitInv
    OBVIOUS
<1>1. Len(ring) = 0
    BY DEF Init
<1> QED
    BY <1>1 DEF ExitInv, NothingAfterExit

\* A thread that holds no copy of an id afterwards, and is not in exit_group
\* before, stays silent as long as EXEC_PIDS does not go back.
LEMMA QuietSilence ==
    ASSUME TypeInv, NEW r \in Records, Silenced(r), NEW k \in Threads, NEW c,
           c.op \notin IoOps \/ c.at # "found",
           call' = [call EXCEPT ![k] = c],
           ~(call[k].op = "exit_group" /\ call[k].at = "sent"),
           execPids' = execPids
    PROVE  Silenced(r)'
<1>1. \A j \in Threads : j # k => call'[j] = call[j]
    BY DEF TypeInv, TypeOK
<1>2. call'[k] = c
    BY DEF TypeInv, TypeOK
<1>3. <<r.tgid, r.tid>> \in Threads
    BY DEF Records, Threads
<1> QED
    BY <1>1, <1>2, <1>3 DEF Silenced

LEMMA SilencedStays ==
    ASSUME TypeInv, IdInv, [Next]_vars, NEW r \in Records, r.id # 0,
           <<r.tgid, r.id>> \in recorded, Silenced(r)
    PROVE  Silenced(r)'
<1> DEFINE s == <<r.tgid, r.tid>>
<1>0. /\ call \in [Threads -> Calls]
      /\ s \in Threads /\ r.tgid \in Tgids /\ r.id \in Nat /\ r.id <= clock /\ clock \in Nat
      /\ DOMAIN execPids \subseteq Tgids
    BY DEF TypeInv, TypeOK, Records, Threads, IdInv, ClockInv, IsMap
<1>a. /\ User.op = "user" /\ Gone.op = "gone" /\ User.at = "kernel" /\ Gone.at = "kernel"
      /\ Rest("execve").op = "execve" /\ Rest("execve").at = "kernel"
    BY DEF User, Gone, Rest
<1>1. CASE UNCHANGED <<call, execPids>>
    BY <1>1 DEF Silenced
<1>2. ASSUME NEW p \in Tgids, Fork(p) PROVE Silenced(r)'
    <2>1. <<p, Leader>> \in Threads /\ call[<<p, Leader>>] = Gone
        BY <1>2, LeaderAssumption DEF Fork, Threads
    <2> QED
        BY <1>2, <1>a, <2>1, QuietSilence DEF Fork, mapVars, IoOps
<1>3. ASSUME NEW k \in Threads, SpawnThread(k) \/ Die(k) \/ EnterExecve(k)
      PROVE  Silenced(r)'
    BY <1>3, <1>a, QuietSilence DEF SpawnThread, Die, EnterExecve, mapVars, IoOps
<1>4. ASSUME NEW k \in Threads, NEW ok \in BOOLEAN, PublishExec(k, ok, clock + 1)
      PROVE  /\ \A p \in DOMAIN execPids' :
                    \/ p \in DOMAIN execPids /\ execPids'[p] = execPids[p]
                    \/ execPids'[p] = clock + 1
             /\ ok = FALSE => execPids' = execPids
    BY <1>4 DEF PublishExec, Insert, Put
<1>5. ASSUME NEW k \in Threads, ExitExecveFailed(k) PROVE Silenced(r)'
    <2>1. execPids' = execPids
        BY <1>4, <1>5 DEF ExitExecveFailed
    <2> QED
        BY <1>5, <1>a, <2>1, QuietSilence DEF ExitExecveFailed
<1>6. ASSUME NEW k \in Threads, ExitExecve(k) PROVE Silenced(r)'
    <2> DEFINE leader == <<k[1], Leader>>
    <2>1. leader \in Threads /\ leader[1] = k[1]
        BY LeaderAssumption DEF Threads
    <2>2. /\ call' = [call EXCEPT ![k] = Gone, ![leader] = User]
          /\ Alone(k) /\ call[k].op = "execve"
        BY <1>6, <1>a DEF ExitExecve
    <2>3. /\ call[leader].op \in {"gone", "execve"}
          /\ \A j \in Threads \ {k, leader} : call'[j] = call[j]
          /\ call'[leader] = User /\ call'[k] \in {Gone, User}
        BY <1>0, <1>a, <2>1, <2>2 DEF Alone
    <2>4. \A p \in DOMAIN execPids' :
              \/ p \in DOMAIN execPids /\ execPids'[p] = execPids[p]
              \/ execPids'[p] = clock + 1
        BY <1>4, <1>6, <2>1 DEF ExitExecve
    <2>5. CASE call[s].op = "exit_group" /\ call[s].at = "sent"
        <3>1. s \in Threads \ {k, leader}
            BY <1>0, <2>2, <2>3, <2>5
        <3>2. call'[s] = call[s]
            BY <2>3, <3>1
        <3> QED
            BY <2>5, <3>2 DEF Silenced
    <2>6. CASE /\ r.tgid \in DOMAIN execPids => execPids[r.tgid] > r.id
               /\ call[s].op \in IoOps /\ call[s].at = "found" => call[s].id # r.id
        <3>1. r.tgid \in DOMAIN execPids' => execPids'[r.tgid] > r.id
            BY <1>0, <2>4, <2>6
        <3>2. call'[s] = call[s] \/ call'[s].op \notin IoOps
            BY <1>0, <1>a, <2>3 DEF IoOps
        <3>3. call'[s].op \in IoOps /\ call'[s].at = "found" => call'[s].id # r.id
            BY <2>6, <3>2
        <3> QED
            BY <3>1, <3>3 DEF Silenced
    <2> QED
        BY <2>5, <2>6 DEF Silenced
<1>7. ASSUME NEW k \in Threads, EnterExitGroup(k) PROVE Silenced(r)'
    <2>1. /\ call[k] = User /\ execPids' = execPids
          /\ \A j \in Threads \ {k} : call'[j] = call[j]
          /\ call'[k].op \notin IoOps
        BY <1>0, <1>7, <1>a DEF EnterExitGroup, mapVars, IoOps
    <2>2. s = k \/ call'[s] = call[s]
        BY <1>0, <2>1
    <2> QED
        BY <1>a, <2>1, <2>2 DEF Silenced
<1>8. ASSUME NEW k \in Threads, SubmitExit(k) PROVE Silenced(r)'
    <2>1. /\ call[k].op = "exit_group" /\ call[k].at = "found" /\ execPids' = execPids
          /\ \A j \in Threads \ {k} : call'[j] = call[j]
        BY <1>0, <1>8 DEF SubmitExit, mapVars
    <2>2. call'[k].op \notin IoOps
        <3>1. call[k] \in Calls
            BY <1>0
        <3>2. [call[k] EXCEPT !.at = "sent"].op = call[k].op
            BY <3>1 DEF Calls
        <3> QED
            BY <1>0, <1>8, <1>a, <2>1, <3>2 DEF SubmitExit, IoOps
    <2>3. s = k \/ call'[s] = call[s]
        BY <1>0, <2>1
    <2> QED
        BY <2>1, <2>2, <2>3 DEF Silenced
<1>9. ASSUME NEW k \in Threads, CleanUpExit(k) PROVE Silenced(r)'
    <2>1. /\ call[k].op = "exit_group" /\ call[k].at = "sent"
          /\ call'[k].op \notin IoOps
          /\ \A j \in Threads \ {k} : call'[j] = call[j]
        BY <1>0, <1>9, <1>a DEF CleanUpExit, IoOps
    <2>2. /\ k[1] \notin DOMAIN execPids'
          /\ \A p \in DOMAIN execPids' : p \in DOMAIN execPids /\ execPids'[p] = execPids[p]
        BY <1>9 DEF CleanUpExit, Remove
    <2>3. CASE s = k
        BY <2>1, <2>2, <2>3 DEF Silenced
    <2>4. CASE s # k
        <3>1. call'[s] = call[s]
            BY <1>0, <2>1, <2>4
        <3> QED
            BY <2>2, <3>1 DEF Silenced
    <2> QED
        BY <2>3, <2>4
<1>10. ASSUME NEW k \in Threads, NEW op \in IoOps, NEW fd \in Fds, EnterIo(k, op, fd)
       PROVE  Silenced(r)'
    <2>1. [Rest(op) EXCEPT !.fd = fd].at = "kernel"
        BY DEF Rest
    <2> QED
        BY <1>10, <1>a, <2>1, QuietSilence DEF EnterIo
<1>11. ASSUME NEW k \in Threads, NEW op \in IoOps, NEW ok \in BOOLEAN, ExitIo(k, op, ok)
       PROVE  Silenced(r)'
    <2>1. /\ call[k].op # "exit_group" /\ execPids' = execPids
          /\ \A j \in Threads \ {k} : call'[j] = call[j]
        BY <1>0, <1>11 DEF ExitIo, IoOps
    <2>2. CASE call' = [call EXCEPT ![k] = User]
        BY <1>a, <2>1, <2>2, QuietSilence DEF IoOps
    <2>3. CASE /\ k[1] \in DOMAIN execPids
               /\ call' = [call EXCEPT ![k].at = "found", ![k].id = execPids[k[1]]]
        <3>1. call'[k].id = execPids[k[1]]
            <4>1. call[k] \in Calls
                BY <1>0
            <4>2. [call[k] EXCEPT !.at = "found", !.id = execPids[k[1]]].id = execPids[k[1]]
                BY <4>1 DEF Calls
            <4> QED
                BY <1>0, <2>3, <4>2
        <3>2. CASE s = k
            <4>1. r.tgid = k[1] /\ execPids[k[1]] > r.id /\ execPids[k[1]] \in Nat
                BY <2>1, <2>3, <3>2 DEF Silenced, TypeInv, TypeOK, IsMap
            <4>2. call'[k].id # r.id
                BY <1>0, <3>1, <4>1
            <4> QED
                BY <2>1, <3>2, <4>1, <4>2 DEF Silenced
        <3>3. CASE s # k
            <4>1. call'[s] = call[s]
                BY <1>0, <2>1, <3>3
            <4> QED
                BY <2>1, <4>1 DEF Silenced
        <3> QED
            BY <3>2, <3>3
    <2> QED
        BY <1>11, <2>2, <2>3 DEF ExitIo
<1>12. ASSUME NEW k \in Threads, NEW op \in IoOps, NEW copied \in BOOLEAN,
              SubmitIo(k, op, copied)
       PROVE  Silenced(r)'
    BY <1>12, <1>a, QuietSilence DEF SubmitIo, IoOps
<1> QED
    BY <1>1, <1>2, <1>3, <1>5, <1>6, <1>7, <1>8, <1>9, <1>10, <1>11, <1>12
    DEF Next, ThreadStep, IoOps, EnterRead, EnterWrite, ExitRead, ExitWrite,
        SubmitRead, SubmitWrite, vars, mapVars, Boot, Consume

\* What a step does to the ring: nothing, the reader takes the oldest record,
\* or one record is added, and then a thread is silent after its Exit, and an
\* I/O record carries the copy of the id its thread held.
LEMMA RingStep ==
    ASSUME TypeInv, [Next]_vars
    PROVE  \/ ring' = ring
           \/ ring # << >> /\ ring' = Tail(ring)
           \/ \E r \in Records :
                 /\ ring' = Append(ring, r)
                 /\ \/ r.type = "Exec"
                    \/ r.type = "Exit" /\ Silenced(r)'
                    \/ LET c == call[<<r.tgid, r.tid>>] IN
                       r.type \in IoOps /\ c.op \in IoOps /\ c.at = "found" /\ c.id = r.id
<1>0. call \in [Threads -> Calls] /\ clock \in Nat
    BY DEF TypeInv, TypeOK
<1>1. CASE ring' = ring
    BY <1>1
<1>2. CASE Consume
    BY <1>2 DEF Consume
<1>3. ASSUME NEW k \in Threads, NEW ok \in BOOLEAN, PublishExec(k, ok, clock + 1)
      PROVE  ring' = ring \/ \E r \in Records : ring' = Append(ring, r) /\ r.type = "Exec"
    <2> DEFINE r == Record("Exec", k, clock + 1, 0)
    <2>1. r \in Records /\ r.type = "Exec"
        BY <1>0 DEF Record, Records, RecordTypes, Threads
    <2>2. ring' = ring \/ ring' = Append(ring, r)
        BY <1>3 DEF PublishExec
    <2> HIDE DEF r
    <2> QED
        BY <2>1, <2>2
<1>4. ASSUME NEW k \in Threads, ExitExecveFailed(k) \/ ExitExecve(k)
      PROVE  ring' = ring \/ \E r \in Records : ring' = Append(ring, r) /\ r.type = "Exec"
    <2>1. <<k[1], Leader>> \in Threads
        BY LeaderAssumption DEF Threads
    <2> QED
        BY <1>3, <1>4, <2>1 DEF ExitExecveFailed, ExitExecve
<1>5. ASSUME NEW k \in Threads, SubmitExit(k), ring' # ring
      PROVE  \E r \in Records : ring' = Append(ring, r) /\ r.type = "Exit" /\ Silenced(r)'
    <2>1. call[k] \in Calls
        BY <1>0
    <2>2. PICK r \in Records : r = Record("Exit", k, call[k].id, 0)
        BY <2>1 DEF Record, Records, RecordTypes, Threads, Calls
    <2>3. r.type = "Exit" /\ <<r.tgid, r.tid>> = k
        BY <2>2 DEF Record, Threads
    <2>4. ring' = Append(ring, r) /\ call' = [call EXCEPT ![k].at = "sent"]
        BY <1>5, <2>2 DEF SubmitExit
    <2>5. call'[k] = [call[k] EXCEPT !.at = "sent"]
        BY <1>0, <2>4
    <2>6. call'[k].op = "exit_group" /\ call'[k].at = "sent"
        BY <1>5, <2>1, <2>5 DEF Calls, SubmitExit
    <2>7. Silenced(r)'
        BY <2>3, <2>6 DEF Silenced
    <2> QED
        BY <2>3, <2>4, <2>7
<1>6. ASSUME NEW k \in Threads, NEW op \in IoOps, NEW copied \in BOOLEAN,
             SubmitIo(k, op, copied), ring' # ring
      PROVE  \E r \in Records :
                /\ ring' = Append(ring, r)
                /\ LET c == call[<<r.tgid, r.tid>>] IN
                   r.type \in IoOps /\ c.op \in IoOps /\ c.at = "found" /\ c.id = r.id
    <2> DEFINE r == Record(op, k, call[k].id, pendingIo[op][k])
    <2>1. call[k] \in Calls /\ pendingIo[op][k] \in Fds
        BY <1>0, <1>6 DEF SubmitIo, TypeInv, PendingHeld, TypeOK, IsMap
    <2>2. /\ r \in Records /\ r.type = op /\ <<r.tgid, r.tid>> = k /\ r.id = call[k].id
        BY <2>1 DEF Record, Records, RecordTypes, Threads, Calls
    <2>3. ring' = Append(ring, r) /\ call[k].op = op /\ call[k].at = "found"
        BY <1>6 DEF SubmitIo
    <2> HIDE DEF r
    <2> QED
        BY <2>2, <2>3
<1> QED
    BY <1>1, <1>2, <1>4, <1>5, <1>6
    DEF Next, ThreadStep, IoOps, EnterRead, EnterWrite, ExitRead, ExitWrite,
        SubmitRead, SubmitWrite, vars, Boot, Fork, SpawnThread, Die, EnterExecve,
        EnterExitGroup, CleanUpExit, EnterIo, ExitIo

LEMMA NextExitInv == TypeInv /\ IdInv /\ ExitInv /\ [Next]_vars => ExitInv'
<1> SUFFICES ASSUME TypeInv, IdInv, ExitInv, [Next]_vars PROVE ExitInv'
    OBVIOUS
<1>1. ring \in Seq(Records) /\ Len(ring) \in Nat /\ \A i \in 1..Len(ring) : ring[i] \in Records
    BY DEF TypeInv, TypeOK
<1>2. \A i \in 1..Len(ring) :
          ring[i].type = "Exit" /\ ring[i].id # 0 => Silenced(ring[i]) /\ <<ring[i].tgid, ring[i].id>> \in recorded
    BY DEF ExitInv, IdInv, IdsAreRecorded
<1>3. ASSUME NEW r \in Records, r.id # 0, <<r.tgid, r.id>> \in recorded, Silenced(r)
      PROVE  Silenced(r)'
    BY <1>3, SilencedStays
<1>4. \A r \in Records : r.type \in IoOps => r.type # "Exit"
    BY DEF IoOps
<1>5. CASE ring' = ring
    <2>1. NothingAfterExit'
        BY <1>5 DEF ExitInv, NothingAfterExit
    <2>2. ASSUME NEW i \in 1..Len(ring'), ring'[i].type = "Exit", ring'[i].id # 0
          PROVE  \E r \in Records : r = ring'[i] /\ Silenced(r)'
        BY <1>1, <1>2, <1>3, <1>5, <2>2
    <2> QED
        BY <2>1, <2>2 DEF ExitInv, Silenced
<1>6. CASE ring # << >> /\ ring' = Tail(ring)
    <2>1. /\ Len(ring') = Len(ring) - 1
          /\ \A i \in 1..Len(ring') : i + 1 \in 1..Len(ring) /\ ring'[i] = ring[i + 1]
        BY <1>1, <1>6
    <2>2. NothingAfterExit'
        <3> SUFFICES ASSUME NEW i \in 1..Len(ring'), NEW j \in 1..Len(ring'), i < j,
                            ring'[i].type = "Exit", ring'[i].id # 0,
                            ring'[j].type \in IoOps,
                            <<ring'[j].tgid, ring'[j].tid>> = <<ring'[i].tgid, ring'[i].tid>>,
                            ring'[j].id = ring'[i].id
                     PROVE  FALSE
            BY DEF NothingAfterExit
        <3>1. /\ i + 1 \in 1..Len(ring) /\ ring'[i] = ring[i + 1]
              /\ j + 1 \in 1..Len(ring) /\ ring'[j] = ring[j + 1]
            BY <2>1
        <3>2. i + 1 < j + 1
            BY <1>1, <2>1
        <3> QED
            BY <3>1, <3>2 DEF ExitInv, NothingAfterExit
    <2>3. ASSUME NEW i \in 1..Len(ring'), ring'[i].type = "Exit", ring'[i].id # 0
          PROVE  \E r \in Records : r = ring'[i] /\ Silenced(r)'
        BY <1>1, <1>2, <1>3, <2>1, <2>3
    <2> QED
        BY <2>2, <2>3 DEF ExitInv, Silenced
<1>7. ASSUME NEW r \in Records, ring' = Append(ring, r),
             \/ r.type = "Exec"
             \/ r.type = "Exit" /\ Silenced(r)'
             \/ LET c == call[<<r.tgid, r.tid>>] IN
                r.type \in IoOps /\ c.op \in IoOps /\ c.at = "found" /\ c.id = r.id
      PROVE  ExitInv'
    <2>1. /\ Len(ring') = Len(ring) + 1 /\ ring'[Len(ring) + 1] = r
          /\ \A i \in 1..Len(ring) : ring'[i] = ring[i]
        BY <1>1, <1>7
    <2>2. NothingAfterExit'
        <3> SUFFICES ASSUME NEW i \in 1..Len(ring'), NEW j \in 1..Len(ring'), i < j,
                            ring'[i].type = "Exit", ring'[i].id # 0,
                            ring'[j].type \in IoOps,
                            <<ring'[j].tgid, ring'[j].tid>> = <<ring'[i].tgid, ring'[i].tid>>,
                            ring'[j].id = ring'[i].id
                     PROVE  FALSE
            BY DEF NothingAfterExit
        <3>1. i \in 1..Len(ring) /\ ring'[i] = ring[i]
            BY <1>1, <2>1
        <3>2. CASE j \in 1..Len(ring)
            BY <2>1, <3>1, <3>2 DEF ExitInv, NothingAfterExit
        <3>3. CASE j \notin 1..Len(ring)
            <4>1. j = Len(ring) + 1 /\ ring'[j] = r
                BY <1>1, <2>1, <3>3
            <4>2. LET c == call[<<r.tgid, r.tid>>] IN
                  c.op \in IoOps /\ c.at = "found" /\ c.id = r.id
                BY <1>7, <4>1 DEF IoOps
            <4>3. Silenced(ring[i])
                BY <1>2, <3>1
            <4> QED
                BY <3>1, <4>1, <4>2, <4>3 DEF Silenced, IoOps
        <3> QED
            BY <3>2, <3>3
    <2>3. ASSUME NEW i \in 1..Len(ring'), ring'[i].type = "Exit", ring'[i].id # 0
          PROVE  \E e \in Records : e = ring'[i] /\ Silenced(e)'
        <3>1. CASE i \in 1..Len(ring)
            BY <1>1, <1>2, <1>3, <2>1, <2>3, <3>1
        <3>2. CASE i = Len(ring) + 1
            BY <1>4, <1>7, <2>1, <2>3, <3>2
        <3> QED
            BY <1>1, <2>1, <3>1, <3>2
    <2> QED
        BY <2>2, <2>3 DEF ExitInv, Silenced
<1> QED
    BY <1>5, <1>6, <1>7, RingStep

\* A thread's Exit record is its last word: no I/O record of the same thread
\* with the same execution_id is published behind it.
THEOREM ProbeNothingAfterExit == Spec => []NothingAfterExit
<1>1. Init => TypeInv /\ IdInv /\ ExitInv
    BY InitTypeInv, InitIdInv, InitExitInv
<1>2. TypeInv /\ IdInv /\ ExitInv /\ [Next]_vars => (TypeInv /\ IdInv /\ ExitInv)'
    BY NextTypeInv, NextIdInv, NextExitInv
<1>3. TypeInv /\ IdInv /\ ExitInv => NothingAfterExit
    BY DEF ExitInv
<1> QED
    BY <1>1, <1>2, <1>3, PTL DEF Spec
=============================================================================
