---------------------------- MODULE CollectorProofs ----------------------------
(***************************************************************************)
(* Proofs about the session correlator, under every stream of events and   *)
(* restarts, and about the recording process, for any processes,           *)
(* terminals, exit codes, filters and faults: it drives the correlator as  *)
(* CorrSpec allows, and what holds of the correlator carries over to the   *)
(* tables.                                                                 *)
(***************************************************************************)
EXTENDS Collector, SequenceTheorems, TLAPS

(* The session correlator. *)

\* Session ids in use were generated: what makes a fresh one fresh.
SidsGenerated ==
    /\ \A p \in DOMAIN pidMap : pidMap[p].sid \in 1..used
    /\ \A t \in DOMAIN ttySessions : ttySessions[t] \in 1..used

CorrInv == CorrTypeOK /\ SidsGenerated /\ TtySessionsDistinct /\ CompletedStaysEmpty

-----------------------------------------------------------------------------
\* What the correlator answers is a generated id: a known one, or the next.
LEMMA SessionOfIsGenerated ==
    ASSUME CorrInv, NEW info \in EventInfos
    PROVE  /\ SessionOf(info) \in 1..UsedAfter(info)
           /\ UsedAfter(info) \in {used, used + 1}
           /\ used \in Nat
<1>1. used \in Nat
    BY MaxSessionsAssumption DEF CorrInv, CorrTypeOK
<1>2. SessionOf(info) \in 1..(used + 1)
    BY <1>1 DEF CorrInv, SidsGenerated, SessionOf, ResolveSession, Tracked, Get, Fresh
<1> QED
    BY <1>1, <1>2 DEF UsedAfter, Fresh

\* A session handed out for a new process is led to by its terminal, or is
\* its parent's, or has never been used.
LEMMA SessionOfSource ==
    ASSUME CorrInv, NEW info \in EventInfos
    PROVE  \/ \E p \in DOMAIN pidMap : SessionOf(info) = pidMap[p].sid
           \/ /\ info.tty \in DOMAIN TtySessionsAfter(info)
              /\ TtySessionsAfter(info)[info.tty] = SessionOf(info)
           \/ SessionOf(info) = used + 1
BY DEF SessionOf, ResolveSession, Tracked, TtySessionsAfter, Put, Fresh

\* Asking for a session only adds to the terminal map.
LEMMA TtySessionsGrow ==
    ASSUME CorrInv, NEW info \in EventInfos
    PROVE  /\ IsMap(TtySessionsAfter(info), Ttys \ {0}, Nat)
           /\ \A t \in DOMAIN ttySessions :
                /\ t \in DOMAIN TtySessionsAfter(info)
                /\ TtySessionsAfter(info)[t] = ttySessions[t]
           /\ \A t \in DOMAIN TtySessionsAfter(info) \ DOMAIN ttySessions :
                t = info.tty /\ TtySessionsAfter(info)[t] = used + 1
<1>1. CASE Tracked(info.pid) \/ info.tty = 0
    BY <1>1 DEF TtySessionsAfter, CorrInv, CorrTypeOK
<1>2. CASE ~Tracked(info.pid) /\ info.tty # 0
    <2>1. /\ TtySessionsAfter(info) = Put(ttySessions, info.tty, ResolveSession(info))
          /\ ResolveSession(info) = IF info.tty \in DOMAIN ttySessions
                                    THEN ttySessions[info.tty] ELSE used + 1
        BY <1>2 DEF TtySessionsAfter, ResolveSession, Get, Fresh
    <2>2. /\ info.tty \in Ttys \ {0}
          /\ ResolveSession(info) \in Nat
          /\ IsMap(ttySessions, Ttys \ {0}, Nat)
        BY <1>2, <2>1, SessionOfIsGenerated DEF EventInfos, CorrInv, CorrTypeOK, IsMap
    <2>3. /\ DOMAIN TtySessionsAfter(info) = DOMAIN ttySessions \cup {info.tty}
          /\ TtySessionsAfter(info)[info.tty] = ResolveSession(info)
          /\ \A t \in DOMAIN ttySessions \ {info.tty} :
                TtySessionsAfter(info)[t] = ttySessions[t]
        BY <2>1 DEF Put
    <2>4. IsMap(TtySessionsAfter(info), Ttys \ {0}, Nat)
        BY <2>1, <2>2 DEF Put, IsMap
    <2> QED
        BY <2>1, <2>3, <2>4
<1> QED
    BY <1>1, <1>2

\* What every handler does to the terminals and the ids, and what may be
\* concluded whenever the new process map says nothing new but that info.pid
\* is in its session.
LEMMA ResolveStep ==
    ASSUME CorrInv, NEW info \in EventInfos, Resolve(info),
           IsMap(pidMap', Pids, ProcessInfos),
           \A p \in DOMAIN pidMap' : \/ p = info.pid /\ pidMap'[p].sid = SessionOf(info)
                                     \/ p \in DOMAIN pidMap /\ pidMap'[p] = pidMap[p],
           \/ completed' = completed
           \/ /\ completed' = completed \cup {SessionOf(info)}
              /\ \A p \in DOMAIN pidMap' : pidMap'[p].sid # SessionOf(info)
    PROVE  CorrInv'
<1>1. /\ used \in Nat /\ used' \in {used, used + 1} /\ used' \in 0..MaxSessions
      /\ SessionOf(info) \in 1..used'
    BY SessionOfIsGenerated, MaxSessionsAssumption DEF Resolve
<1>2. /\ IsMap(ttySessions', Ttys \ {0}, Nat)
      /\ \A t \in DOMAIN ttySessions : t \in DOMAIN ttySessions' /\ ttySessions'[t] = ttySessions[t]
      /\ \A t \in DOMAIN ttySessions' \ DOMAIN ttySessions :
            t = info.tty /\ ttySessions'[t] = used + 1
    BY TtySessionsGrow DEF Resolve
<1>3. completed' \subseteq completed \cup {SessionOf(info)} /\ completed \subseteq 1..used
    BY DEF CorrInv, CorrTypeOK
<1>4. CorrTypeOK'
    BY <1>1, <1>2, <1>3 DEF CorrTypeOK
<1>5. \A t \in DOMAIN ttySessions : ttySessions[t] \in 1..used
    BY DEF CorrInv, SidsGenerated
<1>6. \A t \in DOMAIN ttySessions' \ DOMAIN ttySessions : used' = used + 1
    BY <1>1, <1>2, SessionOfIsGenerated DEF Resolve, UsedAfter, TtySessionsAfter, Put,
       SessionOf, ResolveSession, Get, Fresh
<1>7. SidsGenerated'
    BY <1>1, <1>2, <1>5, <1>6 DEF SidsGenerated, CorrInv
<1>8. TtySessionsDistinct'
    BY <1>1, <1>2, <1>5 DEF TtySessionsDistinct, CorrInv
<1>9. CompletedStaysEmpty'
    <2> SUFFICES ASSUME NEW p \in DOMAIN pidMap', pidMap'[p].sid \in completed'
                 PROVE  \E t \in DOMAIN ttySessions' : ttySessions'[t] = pidMap'[p].sid
        BY DEF CompletedStaysEmpty, TtySessionIds
    <2>1. pidMap'[p].sid \in completed
        OBVIOUS
    <2>2. \A q \in DOMAIN pidMap : pidMap[q].sid \in completed
             => \E t \in DOMAIN ttySessions : ttySessions[t] = pidMap[q].sid
        BY DEF CorrInv, CompletedStaysEmpty, TtySessionIds
    <2>3. CASE p \in DOMAIN pidMap /\ pidMap'[p] = pidMap[p]
        BY <1>2, <2>1, <2>2, <2>3
    <2>4. CASE pidMap'[p].sid = SessionOf(info)
        <3>1. SessionOf(info) # used + 1
            BY <1>1, <1>3, <2>1, <2>4
        <3>2. CASE \E q \in DOMAIN pidMap : SessionOf(info) = pidMap[q].sid
            BY <1>2, <2>1, <2>2, <2>4, <3>2
        <3>3. CASE info.tty \in DOMAIN ttySessions' /\ ttySessions'[info.tty] = SessionOf(info)
            BY <2>4, <3>3
        <3> QED
            BY <3>1, <3>2, <3>3, SessionOfSource DEF Resolve
    <2> QED
        BY <2>3, <2>4
<1> QED
    BY <1>4, <1>7, <1>8, <1>9 DEF CorrInv

\* Entering info's process in its session.
LEMMA TrackProcess ==
    ASSUME CorrInv, NEW info \in EventInfos,
           pidMap' = Put(pidMap, info.pid, Entry(info, SessionOf(info)))
    PROVE  /\ IsMap(pidMap', Pids, ProcessInfos)
           /\ info.pid \in DOMAIN pidMap'
           /\ pidMap'[info.pid].sid = SessionOf(info)
           /\ \A p \in DOMAIN pidMap' \ {info.pid} : p \in DOMAIN pidMap /\ pidMap'[p] = pidMap[p]
<1>1. SessionOf(info) \in Nat
    BY SessionOfIsGenerated
<1>2. /\ Entry(info, SessionOf(info)) \in ProcessInfos
      /\ Entry(info, SessionOf(info)).sid = SessionOf(info)
    BY <1>1 DEF Entry, ProcessInfos, EventInfos
<1>3. IsMap(pidMap, Pids, ProcessInfos) /\ info.pid \in Pids
    BY DEF CorrInv, CorrTypeOK, EventInfos
<1>4. /\ DOMAIN pidMap' = DOMAIN pidMap \cup {info.pid}
      /\ pidMap'[info.pid] = Entry(info, SessionOf(info))
      /\ \A p \in DOMAIN pidMap \ {info.pid} : pidMap'[p] = pidMap[p]
    BY DEF Put
<1>5. IsMap(pidMap', Pids, ProcessInfos)
    BY <1>2, <1>3 DEF Put, IsMap
<1> QED
    BY <1>2, <1>4, <1>5

\* Dropping a process.
LEMMA DropProcess ==
    ASSUME CorrInv, NEW pid, pidMap' = Remove(pidMap, pid)
    PROVE  /\ IsMap(pidMap', Pids, ProcessInfos)
           /\ DOMAIN pidMap' = DOMAIN pidMap \ {pid}
           /\ \A p \in DOMAIN pidMap' : pidMap'[p] = pidMap[p]
<1>1. IsMap(pidMap, Pids, ProcessInfos)
    BY DEF CorrInv, CorrTypeOK
<1> QED
    BY <1>1 DEF IsMap, Remove

-----------------------------------------------------------------------------
LEMMA InitCorrInv == CorrInit => CorrInv
BY MaxSessionsAssumption
DEF CorrInit, CorrInv, CorrTypeOK, SidsGenerated, TtySessionsDistinct, CompletedStaysEmpty,
    EmptyMap, IsMap

LEMMA NextCorrInv == CorrInv /\ [CorrNext]_corrVars => CorrInv'
<1> SUFFICES ASSUME CorrInv, [CorrNext]_corrVars PROVE CorrInv'
    OBVIOUS
<1>1. CASE Restart
    BY <1>1
    DEF Restart, CorrInv, CorrTypeOK, SidsGenerated, TtySessionsDistinct, CompletedStaysEmpty,
        EmptyMap, IsMap
<1>2. ASSUME NEW info \in EventInfos, OnExec(info) PROVE CorrInv'
    <2>1. /\ IsMap(pidMap', Pids, ProcessInfos)
          /\ pidMap'[info.pid].sid = SessionOf(info)
          /\ \A p \in DOMAIN pidMap' \ {info.pid} : p \in DOMAIN pidMap /\ pidMap'[p] = pidMap[p]
        BY <1>2, TrackProcess DEF OnExec, PidMapAfterExec
    <2> QED
        BY <1>2, <2>1, ResolveStep DEF OnExec
<1>3. ASSUME NEW info \in EventInfos, OnIo(info) PROVE CorrInv'
    <2>1. CASE Tracked(info.pid)
        <3>1. pidMap' = pidMap /\ Resolve(info) /\ completed' = completed
            BY <1>3, <2>1 DEF OnIo, PidMapAfterIo
        <3>2. IsMap(pidMap', Pids, ProcessInfos)
            BY <3>1 DEF CorrInv, CorrTypeOK
        <3> QED
            BY <3>1, <3>2, ResolveStep
    <2>2. CASE ~Tracked(info.pid)
        <3>1. /\ IsMap(pidMap', Pids, ProcessInfos)
              /\ pidMap'[info.pid].sid = SessionOf(info)
              /\ \A p \in DOMAIN pidMap' \ {info.pid} : p \in DOMAIN pidMap /\ pidMap'[p] = pidMap[p]
            BY <1>3, <2>2, TrackProcess DEF OnIo, PidMapAfterIo
        <3> QED
            BY <1>3, <3>1, ResolveStep DEF OnIo
    <2> QED
        BY <2>1, <2>2
<1>4. ASSUME NEW info \in EventInfos, OnExit(info) PROVE CorrInv'
    <2>1. /\ IsMap(pidMap', Pids, ProcessInfos)
          /\ DOMAIN pidMap' = DOMAIN pidMap \ {info.pid}
          /\ \A p \in DOMAIN pidMap' : pidMap'[p] = pidMap[p]
        BY <1>4, DropProcess DEF OnExit
    <2>2. PidMapAfterIo(info)[info.pid].sid = SessionOf(info)
        BY DEF PidMapAfterIo, SessionOf, Tracked, Put, Entry
    <2>3. SessionComplete(info) => \A p \in DOMAIN pidMap' : pidMap'[p].sid # SessionOf(info)
        BY <2>1, <2>2 DEF SessionComplete
    <2> QED
        BY <1>4, <2>1, <2>3, ResolveStep DEF OnExit
<1>5. CASE UNCHANGED corrVars
    BY <1>5
    DEF corrVars, CorrInv, CorrTypeOK, SidsGenerated, TtySessionsDistinct, CompletedStaysEmpty,
        TtySessionIds
<1> QED
    BY <1>1, <1>2, <1>3, <1>4, <1>5 DEF CorrNext

LEMMA CorrInvAlways == CorrSpec => []CorrInv
BY InitCorrInv, NextCorrInv, PTL DEF CorrSpec

\* The maps of the correlator stay of their types, and the sessions reported
\* complete are ones it generated.
THEOREM SessionTypeOK == CorrSpec => []CorrTypeOK
<1>1. CorrInv => CorrTypeOK
    BY DEF CorrInv
<1> QED
    BY <1>1, CorrInvAlways, PTL

\* Two terminals never lead to the same session.
THEOREM SessionsOfTtysDistinct == CorrSpec => []TtySessionsDistinct
<1>1. CorrInv => TtySessionsDistinct
    BY DEF CorrInv
<1> QED
    BY <1>1, CorrInvAlways, PTL

\* No process is ever added to a session that was reported complete, unless
\* a terminal leads to it, whatever events come, in whatever order.
THEOREM CompletedSessionsStayEmpty == CorrSpec => []CompletedStaysEmpty
<1>1. CorrInv => CompletedStaysEmpty
    BY DEF CorrInv
<1> QED
    BY <1>1, CorrInvAlways, PTL

\* A tracked process keeps its session through every event and restart.
THEOREM SessionsAreStable == CorrSpec => SessionIsStable
<1>1. CorrInv /\ [CorrNext]_corrVars
        => [\A p \in DOMAIN pidMap \cap DOMAIN pidMap' : pidMap'[p].sid = pidMap[p].sid]_corrVars
    <2> SUFFICES ASSUME CorrInv, CorrNext, NEW p \in DOMAIN pidMap \cap DOMAIN pidMap'
                 PROVE  pidMap'[p].sid = pidMap[p].sid
        OBVIOUS
    <2>1. CASE Restart
        BY <2>1 DEF Restart, EmptyMap
    <2>2. ASSUME NEW info \in EventInfos, OnExec(info) PROVE pidMap'[p].sid = pidMap[p].sid
        <3>1. pidMap' = Put(pidMap, info.pid, Entry(info, SessionOf(info)))
            BY <2>2 DEF OnExec, PidMapAfterExec
        <3>2. CASE p = info.pid
            BY <3>1, <3>2, TrackProcess DEF SessionOf, Tracked
        <3>3. CASE p # info.pid
            BY <3>1, <3>3, TrackProcess
        <3> QED
            BY <3>2, <3>3
    <2>3. ASSUME NEW info \in EventInfos, OnIo(info) PROVE pidMap'[p].sid = pidMap[p].sid
        <3>1. CASE Tracked(info.pid)
            BY <2>3, <3>1 DEF OnIo, PidMapAfterIo
        <3>2. CASE ~Tracked(info.pid)
            <4>1. pidMap' = Put(pidMap, info.pid, Entry(info, SessionOf(info)))
                BY <2>3, <3>2 DEF OnIo, PidMapAfterIo
            <4>2. p # info.pid
                BY <3>2 DEF Tracked
            <4> QED
                BY <4>1, <4>2, TrackProcess
        <3> QED
            BY <3>1, <3>2
    <2>4. ASSUME NEW info \in EventInfos, OnExit(info) PROVE pidMap'[p].sid = pidMap[p].sid
        BY <2>4, DropProcess DEF OnExit
    <2> QED
        BY <2>1, <2>2, <2>3, <2>4 DEF CorrNext
<1> QED
    BY <1>1, CorrInvAlways, PTL DEF CorrSpec, SessionIsStable

-----------------------------------------------------------------------------
(* The recording process. *)

\* What the operating system and the probe hand to the handler is of the
\* correlator's types.
OsInv ==
    /\ IsMap(procs, Pids, Procs)
    /\ IsMap(execPids, Pids, Nat)
    /\ clock \in Nat

\* The tables and the waiting statements are of their types, and a session
\* with ended_at set, or about to have it set, was reported complete.
EndedInv ==
    /\ todo \in Seq(Statements)
    /\ IsMap(sessions, Nat, {"open", "ended"})
    /\ \A sid \in DOMAIN sessions : sessions[sid] = "ended" => sid \in completed
    /\ \A n \in DOMAIN todo : todo[n].op = "ended" => todo[n].sid \in completed

-----------------------------------------------------------------------------
LEMMA InfoTyped ==
    ASSUME OsInv, NEW p \in Pids, p \in DOMAIN procs
    PROVE  procs[p] \in Procs /\ InfoOf(p) \in EventInfos
<1>1. procs[p] \in Procs
    BY DEF OsInv, IsMap
<1> QED
    BY <1>1 DEF InfoOf, EventInfos, Procs

LEMMA WithoutProcTyped ==
    ASSUME OsInv, NEW p \in Pids
    PROVE  IsMap(WithoutProc(p), Pids, Procs)
<1>1. \A q \in DOMAIN procs : procs[q] \in Procs
    BY DEF OsInv, IsMap
<1>2. \A q \in DOMAIN procs : [procs[q] EXCEPT !.ppid = InitPid] \in Procs
    BY <1>1, InitPidAssumption DEF Procs
<1> QED
    BY <1>1, <1>2 DEF WithoutProc, OsInv, IsMap

\* A new value for one process.
LEMMA ProcTyped ==
    ASSUME OsInv, NEW p \in Pids, p \in DOMAIN procs, NEW r \in Procs
    PROVE  IsMap([procs EXCEPT ![p] = r], Pids, Procs)
BY DEF OsInv, IsMap

LEMMA LeaveTyped ==
    ASSUME OsInv, NEW p \in Pids, p \in DOMAIN procs
    PROVE  IsMap(Leave(p), Pids, Procs)
<1>1. [procs[p] EXCEPT !.ending = TRUE] \in Procs
    BY InfoTyped DEF Procs
<1>2. IsMap([procs EXCEPT ![p].ending = TRUE], Pids, Procs)
    BY <1>1, ProcTyped
<1> QED
    BY <1>2, WithoutProcTyped DEF Leave

LEMMA InitOsInv == Init => OsInv
<1> SUFFICES ASSUME Init PROVE OsInv
    OBVIOUS
<1> DEFINE first == [ppid |-> InitPid, tty |-> 0, comm |-> CHOOSE c \in Comms : TRUE,
                     io |-> 0, ending |-> FALSE]
<1>1. first \in Procs
    BY CommsAssumption, InitPidAssumption, TtysAssumption DEF Procs
<1>2. /\ procs = Put(EmptyMap, InitPid, first)
      /\ IsMap(EmptyMap, Pids, Procs)
      /\ IsMap(EmptyMap, Pids, Nat)
    BY DEF Init, EmptyMap, IsMap
<1>3. IsMap(procs, Pids, Procs)
    <2> HIDE DEF first
    <2> QED
        BY <1>1, <1>2, InitPidAssumption DEF IsMap, Put
<1> QED
    BY <1>2, <1>3 DEF Init, OsInv

LEMMA NextOsInv == OsInv /\ [Next]_vars => OsInv'
<1> SUFFICES ASSUME OsInv, [Next]_vars PROVE OsInv'
    OBVIOUS
<1> USE DEF OsInv
<1>1. ASSUME NEW p \in Pids, NEW q \in Pids, Fork(q, p) PROVE OsInv'
    <2>1. [procs[q] EXCEPT !.ppid = q, !.io = 0] \in Procs
        BY <1>1, InfoTyped DEF Fork, Live, Procs
    <2>2. procs' = Put(procs, p, [procs[q] EXCEPT !.ppid = q, !.io = 0])
        BY <1>1 DEF Fork
    <2>3. IsMap(procs', Pids, Procs)
        BY <2>1, <2>2 DEF Put, IsMap
    <2> QED
        BY <1>1, <2>3 DEF Fork
<1>2. ASSUME NEW p \in Pids, NEW t \in Ttys, SetTty(p, t) PROVE OsInv'
    <2>1. [procs[p] EXCEPT !.tty = t] \in Procs
        BY <1>2, InfoTyped DEF SetTty, Live, Procs
    <2>2. IsMap(procs', Pids, Procs)
        BY <1>2, <2>1, ProcTyped DEF SetTty, Live
    <2> QED
        BY <1>2, <2>2 DEF SetTty
<1>3. ASSUME NEW p \in Pids, NEW c \in Comms, Exec(p, c) PROVE OsInv'
    <2>1. [procs[p] EXCEPT !.comm = c] \in Procs
        BY <1>3, InfoTyped DEF Exec, Live, Procs
    <2>2. IsMap(procs', Pids, Procs)
        BY <1>3, <2>1, ProcTyped DEF Exec, Live
    <2>3. clock' \in Nat
        BY <1>3 DEF Exec, Tick
    <2>4. IsMap(Put(execPids, p, clock + 1), Pids, Nat)
        BY DEF Put, IsMap
    <2> QED
        BY <1>3, <2>2, <2>3, <2>4 DEF Exec, NotHandled
<1>4. ASSUME NEW p \in Pids, ExecFailed(p) PROVE OsInv'
    BY <1>4 DEF ExecFailed, Tick, NotHandled
<1>5. ASSUME NEW p \in Pids, NEW fd \in Fds, ReadOrWrite(p, fd) PROVE OsInv'
    <2>1. [procs[p] EXCEPT !.io = 0] \in Procs
        BY <1>5, InfoTyped DEF ReadOrWrite, Procs
    <2>2. IsMap(procs', Pids, Procs)
        BY <1>5, <2>1, ProcTyped, WithoutProcTyped DEF ReadOrWrite
    <2> QED
        BY <1>5, <2>2 DEF ReadOrWrite, Tick, NotHandled
<1>6. ASSUME NEW p \in Pids, NEW code \in Codes, ExitGroup(p, code) PROVE OsInv'
    <2>1. IsMap(procs', Pids, Procs)
        BY <1>6, LeaveTyped DEF ExitGroup
    <2>2. clock' \in Nat
        BY <1>6 DEF ExitGroup, Tick
    <2>3. IsMap(Remove(execPids, p), Pids, Nat)
        BY DEF Remove, IsMap
    <2> QED
        BY <1>6, <2>1, <2>2, <2>3 DEF ExitGroup, NotHandled
<1>7. ASSUME NEW p \in Pids, Kill(p) PROVE OsInv'
    <2>1. IsMap(procs', Pids, Procs)
        BY <1>7, LeaveTyped DEF Kill, Live
    <2> QED
        BY <1>7, <2>1 DEF Kill
<1>8. CASE RunStatement
    BY <1>8 DEF RunStatement, osVars
<1>9. CASE FailStatement
    BY <1>9 DEF FailStatement, osVars
<1>10. CASE Crash
    <2> DEFINE left == {q \in DOMAIN procs : ~procs[q].ending}
               After(q) == [procs[q] EXCEPT !.io = 0,
                                            !.ppid = IF @ \in left THEN @ ELSE InitPid]
    <2>1. \A q \in left : After(q) \in Procs
        BY InitPidAssumption DEF IsMap, Procs
    <2>2. left \subseteq Pids /\ procs' = [q \in left |-> After(q)]
        BY <1>10 DEF Crash, IsMap
    <2>3. IsMap(procs', Pids, Procs)
        <3> HIDE DEF left, After
        <3> QED
            BY <2>1, <2>2 DEF IsMap
    <2> QED
        BY <1>10, <2>3 DEF Crash, EmptyMap, IsMap
<1>11. CASE Start
    BY <1>11 DEF Start, osVars
<1>12. CASE UNCHANGED vars
    BY <1>12 DEF vars, osVars
<1>13. ASSUME NEW p \in Pids, LookUp(p) PROVE OsInv'
    <2>1. execPids[p] \in Nat /\ procs[p] \in Procs
        BY <1>13, InfoTyped DEF LookUp, Live, IsMap
    <2>2. [procs[p] EXCEPT !.io = execPids[p]] \in Procs
        BY <2>1 DEF Procs
    <2>3. IsMap(procs', Pids, Procs)
        BY <1>13, <2>2, ProcTyped DEF LookUp, Live
    <2> QED
        BY <1>13, <2>3 DEF LookUp
<1> QED
    BY <1>1, <1>2, <1>3, <1>4, <1>5, <1>6, <1>7, <1>8, <1>9, <1>10, <1>11, <1>12, <1>13 DEF Next

-----------------------------------------------------------------------------
\* Every step of the collector is a step of the correlator, or none.
LEMMA StepsOfCorrelator == OsInv /\ [Next]_vars => [CorrNext]_corrVars
<1> SUFFICES ASSUME OsInv, [Next]_vars PROVE [CorrNext]_corrVars
    OBVIOUS
<1>1. ASSUME NEW p \in Pids, NEW q \in Pids, Fork(q, p) PROVE UNCHANGED corrVars
    BY <1>1 DEF Fork
<1>2. ASSUME NEW p \in Pids, NEW t \in Ttys, SetTty(p, t) PROVE UNCHANGED corrVars
    BY <1>2 DEF SetTty
<1>3. ASSUME NEW p \in Pids, NEW c \in Comms, Exec(p, c) PROVE [CorrNext]_corrVars
    BY <1>3, InfoTyped DEF Exec, HandleExec, NotHandled, CorrNext, Live
<1>4. ASSUME NEW p \in Pids, ExecFailed(p) PROVE [CorrNext]_corrVars
    BY <1>4, InfoTyped DEF ExecFailed, HandleExec, NotHandled, CorrNext, Live
<1>5. ASSUME NEW p \in Pids, NEW fd \in Fds, ReadOrWrite(p, fd) PROVE [CorrNext]_corrVars
    BY <1>5, InfoTyped DEF ReadOrWrite, HandleIo, NotHandled, CorrNext
<1>6. ASSUME NEW p \in Pids, NEW code \in Codes, ExitGroup(p, code) PROVE [CorrNext]_corrVars
    BY <1>6, InfoTyped DEF ExitGroup, HandleExit, NotHandled, CorrNext
<1>7. ASSUME NEW p \in Pids, Kill(p) PROVE UNCHANGED corrVars
    BY <1>7 DEF Kill
<1>8. CASE RunStatement
    BY <1>8 DEF RunStatement
<1>9. CASE FailStatement
    BY <1>9 DEF FailStatement
<1>10. CASE Crash
    BY <1>10 DEF Crash, CorrNext
<1>11. CASE Start
    BY <1>11 DEF Start
<1>12. CASE UNCHANGED vars
    BY <1>12 DEF vars
<1>13. ASSUME NEW p \in Pids, LookUp(p) PROVE UNCHANGED corrVars
    BY <1>13 DEF LookUp
<1> QED
    BY <1>1, <1>2, <1>3, <1>4, <1>5, <1>6, <1>7, <1>8, <1>9, <1>10, <1>11, <1>12, <1>13 DEF Next

LEMMA OsInvAlways == Spec => []OsInv
BY InitOsInv, NextOsInv, PTL DEF Spec

\* Execution ids are times that have passed, and the reads and writes of a
\* process that are under way are of the execution the probe knows, if it
\* still knows one.
ProbeInv ==
    /\ \A p \in DOMAIN execPids : execPids[p] <= clock
    /\ \A p \in DOMAIN procs : procs[p].io <= clock
    /\ \A p \in DOMAIN procs \cap DOMAIN execPids : procs[p].io \in {0, execPids[p]}

\* Ending a process changes nothing that the others have under way.
LEMMA LeaveKeepsIo ==
    ASSUME OsInv, NEW p \in Pids, p \in DOMAIN procs
    PROVE  /\ \A q \in DOMAIN WithoutProc(p) :
                q \in DOMAIN procs /\ WithoutProc(p)[q].io = procs[q].io
           /\ \A q \in DOMAIN Leave(p) : q \in DOMAIN procs /\ Leave(p)[q].io = procs[q].io
<1>1. \A q \in DOMAIN procs : procs[q] \in Procs
    BY DEF OsInv, IsMap
<1>2. \A r \in Procs : /\ [r EXCEPT !.ppid = InitPid].io = r.io
                       /\ [r EXCEPT !.ending = TRUE].io = r.io
    BY DEF Procs
<1>3. \A q \in DOMAIN WithoutProc(p) :
        q \in DOMAIN procs /\ WithoutProc(p)[q].io = procs[q].io
    BY <1>1, <1>2 DEF WithoutProc
<1>4. \A q \in DOMAIN [procs EXCEPT ![p].ending = TRUE] :
        q \in DOMAIN procs /\ [procs EXCEPT ![p].ending = TRUE][q].io = procs[q].io
    BY <1>1, <1>2
<1> QED
    BY <1>3, <1>4 DEF Leave

\* What a step does to the reads and writes under way.
IoKept == \A q \in DOMAIN procs' :
    \/ procs'[q].io = 0
    \/ q \in DOMAIN procs /\ procs'[q].io = procs[q].io
    \/ q \in DOMAIN procs \cap DOMAIN execPids /\ procs'[q].io = execPids[q]

\* What a step does to EXEC_PIDS: it enters only what is new.
ExecPidsKept == \A q \in DOMAIN execPids' :
    \/ q \in DOMAIN execPids /\ execPids'[q] = execPids[q]
    \/ /\ execPids'[q] = clock + 1 /\ clock' = clock + 1
       /\ q \in DOMAIN procs' => procs'[q].io = 0

LEMMA ProbeStep ==
    ASSUME OsInv, [Next]_vars
    PROVE  IoKept /\ ExecPidsKept /\ clock' \in {clock, clock + 1}
<1>0. \A q \in DOMAIN procs : procs[q] \in Procs /\ q \in Pids
    BY DEF OsInv, IsMap
<1>1. ASSUME NEW p \in Pids, NEW q \in Pids, Fork(q, p)
      PROVE  IoKept /\ UNCHANGED <<execPids, clock>>
    <2>1. [procs[q] EXCEPT !.ppid = q, !.io = 0].io = 0
        BY <1>0, <1>1 DEF Fork, Live, Procs
    <2> QED
        BY <1>1, <2>1 DEF Fork, Put, IoKept
<1>2. ASSUME NEW p \in Pids, NEW t \in Ttys, SetTty(p, t)
      PROVE  IoKept /\ UNCHANGED <<execPids, clock>>
    <2>1. [procs[p] EXCEPT !.tty = t].io = procs[p].io
        BY <1>0, <1>2 DEF SetTty, Live, Procs
    <2> QED
        BY <1>2, <2>1 DEF SetTty, IoKept
<1>3. ASSUME NEW p \in Pids, NEW c \in Comms, Exec(p, c)
      PROVE  IoKept /\ ExecPidsKept /\ clock' = clock + 1
    <2>1. /\ [procs[p] EXCEPT !.comm = c].io = 0 /\ clock' = clock + 1
          /\ procs' = [procs EXCEPT ![p].comm = c] /\ p \in DOMAIN procs
          /\ execPids' = Put(execPids, p, clock + 1) \/ execPids' = execPids
        BY <1>0, <1>3 DEF Exec, Live, Procs, Tick, NotHandled
    <2>2. procs'[p].io = 0 /\ \A q \in DOMAIN procs' : q = p \/ procs'[q] = procs[q]
        BY <2>1
    <2> QED
        BY <2>1, <2>2 DEF Put, IoKept, ExecPidsKept
<1>4. ASSUME NEW p \in Pids, ExecFailed(p)
      PROVE  UNCHANGED <<procs, execPids>> /\ clock' = clock + 1
    BY <1>4 DEF ExecFailed, Tick, NotHandled
<1>5. ASSUME NEW p \in Pids, LookUp(p) PROVE IoKept /\ UNCHANGED <<execPids, clock>>
    <2>1. [procs[p] EXCEPT !.io = execPids[p]].io = execPids[p]
        BY <1>0, <1>5 DEF LookUp, Live, Procs
    <2> QED
        BY <1>5, <2>1 DEF LookUp, Live, IoKept
<1>6. ASSUME NEW p \in Pids, NEW fd \in Fds, ReadOrWrite(p, fd)
      PROVE  IoKept /\ UNCHANGED execPids /\ clock' = clock + 1
    <2>1. p \in DOMAIN procs /\ [procs[p] EXCEPT !.io = 0].io = 0
        BY <1>0, <1>6 DEF ReadOrWrite, Procs
    <2>2. \/ procs' = procs
          \/ procs' = WithoutProc(p)
          \/ procs' = [procs EXCEPT ![p].io = 0]
        BY <1>6 DEF ReadOrWrite
    <2>3. IoKept
        <3>1. CASE procs' = WithoutProc(p)
            BY <2>1, <3>1, LeaveKeepsIo DEF IoKept
        <3>2. CASE procs' = procs
            BY <3>2 DEF IoKept
        <3>3. CASE procs' = [procs EXCEPT ![p].io = 0]
            BY <2>1, <3>3 DEF IoKept
        <3> QED
            BY <2>2, <3>1, <3>2, <3>3
    <2> QED
        BY <1>6, <2>3 DEF ReadOrWrite, Tick, NotHandled
<1>7. ASSUME NEW p \in Pids, NEW code \in Codes, ExitGroup(p, code)
      PROVE  IoKept /\ ExecPidsKept /\ clock' = clock + 1
    <2>1. /\ p \in DOMAIN procs /\ procs' = Leave(p) /\ clock' = clock + 1
          /\ execPids' = Remove(execPids, p) \/ execPids' = execPids
        BY <1>7 DEF ExitGroup, Tick, NotHandled
    <2> QED
        BY <2>1, LeaveKeepsIo DEF IoKept, ExecPidsKept, Remove
<1>8. ASSUME NEW p \in Pids, Kill(p) PROVE IoKept /\ UNCHANGED <<execPids, clock>>
    BY <1>8, LeaveKeepsIo DEF Kill, Live, IoKept
<1>9. CASE Crash
    <2>1. \A q \in DOMAIN procs' : procs'[q].io = 0
        BY <1>0, <1>9 DEF Crash, Procs
    <2> QED
        BY <1>9, <2>1 DEF Crash, EmptyMap, IoKept, ExecPidsKept
<1>10. CASE RunStatement \/ FailStatement \/ Start \/ UNCHANGED vars
    BY <1>10 DEF RunStatement, FailStatement, Start, vars, osVars, IoKept, ExecPidsKept
<1>11. UNCHANGED execPids => ExecPidsKept
    BY DEF ExecPidsKept
<1>12. UNCHANGED procs => IoKept
    BY DEF IoKept
<1> QED
    BY <1>1, <1>2, <1>3, <1>4, <1>5, <1>6, <1>7, <1>8, <1>9, <1>10, <1>11, <1>12 DEF Next

LEMMA ProbeInvAlways == Spec => []ProbeInv
<1>1. Init => ProbeInv
    BY DEF Init, ProbeInv, EmptyMap, Put
<1>2. OsInv /\ ProbeInv /\ [Next]_vars => ProbeInv'
    <2> SUFFICES ASSUME OsInv, ProbeInv, [Next]_vars PROVE ProbeInv'
        OBVIOUS
    <2>1. /\ clock \in Nat /\ \A q \in DOMAIN execPids : execPids[q] \in Nat
          /\ \A q \in DOMAIN procs : procs[q].io \in Nat
        BY DEF OsInv, IsMap, Procs
    <2> QED
        BY <2>1, ProbeStep DEF ProbeInv, IoKept, ExecPidsKept
<1> QED
    BY <1>1, <1>2, OsInvAlways, PTL DEF Spec

\* The collector uses the correlator as its specification allows: whatever
\* is lost, killed, refused or restarted, it sees a stream of events.
LEMMA CollectorImplementsCorrelator == Spec => CorrSpec
<1>1. Init => CorrInit
    BY DEF Init
<1> QED
    BY <1>1, OsInvAlways, StepsOfCorrelator, PTL DEF Spec, CorrSpec

LEMMA SessionsAsProved == Spec => []CorrInv
BY CollectorImplementsCorrelator, CorrInvAlways, PTL

-----------------------------------------------------------------------------
\* The statements of an event carry the session the correlator answered.
LEMMA StatementTyped ==
    ASSUME CorrInv, NEW info \in EventInfos, NEW id \in Nat,
           NEW code \in Codes \cup {NoCode},
           NEW op \in {"session", "exec", "exit", "io", "backfill", "ended"}
    PROVE  /\ Stmt(op, info, id, code) \in Statements
           /\ Stmt(op, info, id, code).op = op
           /\ Stmt(op, info, id, code).sid = SessionOf(info)
           /\ Stmt(op, info, id, code).pid = info.pid
           /\ Stmt(op, info, id, code).id = id
           /\ Stmt(op, info, id, code).code = code
<1>1. SessionOf(info) \in Nat
    BY SessionOfIsGenerated
<1> QED
    BY <1>1 DEF Stmt, Statements, EventInfos

LEMMA StatementTaken ==
    ASSUME todo \in Seq(Statements), todo # << >>
    PROVE  /\ Head(todo) = todo[1] /\ todo[1] \in Statements /\ 1 \in DOMAIN todo
           /\ Tail(todo) \in Seq(Statements)
           /\ \A n \in DOMAIN Tail(todo) : /\ n \in Nat /\ n >= 1 /\ n + 1 \in DOMAIN todo
                                           /\ Tail(todo)[n] = todo[n + 1]
           /\ \A n \in DOMAIN todo : n \in Nat /\ n >= 1 /\ (n = 1 \/ n - 1 \in DOMAIN Tail(todo))
OBVIOUS

LEMMA TwoStatements ==
    ASSUME NEW a \in Statements, NEW b \in Statements
    PROVE  /\ <<a, b>> \in Seq(Statements) /\ <<a, b>> \o << >> = <<a, b>>
           /\ DOMAIN <<a, b>> = {1, 2} /\ <<a, b>>[1] = a /\ <<a, b>>[2] = b
OBVIOUS

LEMMA StatementAppended ==
    ASSUME NEW s \in Seq(Statements), NEW e \in Statements
    PROVE  /\ Append(s, e) \in Seq(Statements)
           /\ Len(Append(s, e)) = Len(s) + 1
           /\ \A n \in DOMAIN s : Append(s, e)[n] = s[n]
           /\ Append(s, e)[Len(s) + 1] = e
OBVIOUS

LEMMA ThreeStatements ==
    ASSUME NEW a \in Statements, NEW b \in Statements, NEW c \in Statements
    PROVE  /\ <<a, b, c>> \in Seq(Statements) /\ <<a, b>> \o <<c>> = <<a, b, c>>
           /\ DOMAIN <<a, b, c>> = {1, 2, 3}
           /\ <<a, b, c>>[1] = a /\ <<a, b, c>>[2] = b /\ <<a, b, c>>[3] = c
<1> DEFINE two == <<a, b>>
           all == <<a, b, c>>
<1>1. /\ two \in Seq(Statements) /\ Len(two) = 2 /\ two[1] = a /\ two[2] = b
      /\ all \in Seq(Statements) /\ Len(all) = 3 /\ DOMAIN all = {1, 2, 3}
      /\ all[1] = a /\ all[2] = b /\ all[3] = c
    OBVIOUS
<1> HIDE DEF two, all
<1>2. Append(two, c) = two \o <<c>>
    BY <1>1, AppendIsConcat
<1>3. Append(two, c) = all
    <2>1. /\ Append(two, c) \in Seq(Statements) /\ Len(Append(two, c)) = 3
          /\ Append(two, c)[1] = a /\ Append(two, c)[2] = b /\ Append(two, c)[3] = c
        <3>1. /\ Append(two, c) \in Seq(Statements) /\ Len(Append(two, c)) = Len(two) + 1
              /\ \A i \in DOMAIN two : Append(two, c)[i] = two[i]
              /\ Append(two, c)[Len(two) + 1] = c
            BY <1>1, StatementAppended
        <3>2. Append(two, c)[1] = two[1] /\ Append(two, c)[2] = two[2]
            BY <1>1, <3>1
        <3> QED
            BY <1>1, <3>1, <3>2
    <2>2. \A i \in 1..Len(Append(two, c)) : Append(two, c)[i] = all[i]
        BY <1>1, <2>1
    <2>3. Len(Append(two, c)) = Len(all)
        BY <1>1, <2>1
    <2> QED
        BY <1>1, <2>1, <2>2, <2>3, SeqEqual
<1> QED
    BY <1>1, <1>2, <1>3 DEF two, all

\* What an exec leaves to be run: nothing, if the filter rejects it, or the
\* session and then the row.
LEMMA TodoAfterExec ==
    ASSUME CorrInv, NEW info \in EventInfos, NEW id \in Nat, HandleExec(info, id)
    PROVE  \/ todo' = << >>
           \/ \E a, b \in Statements :
                /\ todo' = <<a, b>>
                /\ a = Stmt("session", info, id, NoCode) /\ a.op = "session"
                /\ b = Stmt("exec", info, id, NoCode) /\ b.op = "exec"
<1>1. /\ Stmt("session", info, id, NoCode) \in Statements
      /\ Stmt("session", info, id, NoCode).op = "session"
      /\ Stmt("exec", info, id, NoCode) \in Statements
      /\ Stmt("exec", info, id, NoCode).op = "exec"
    BY StatementTyped
<1> QED
    BY <1>1 DEF HandleExec

\* What an exit leaves: its row, the code for the command, and, if the
\* session is over, its end.
LEMMA TodoAfterExit ==
    ASSUME CorrInv, NEW info \in EventInfos, NEW id \in Nat, NEW code \in Codes,
           HandleExit(info, id, code)
    PROVE  \/ todo' = << >>
           \/ \E a, b, c \in Statements :
                /\ \/ todo' = <<a, b>> /\ ~SessionComplete(info)
                   \/ todo' = <<a, b, c>> /\ SessionComplete(info)
                /\ a = Stmt("exit", info, id, code) /\ a.op = "exit"
                /\ b = Stmt("backfill", info, id, code) /\ b.op = "backfill"
                /\ c = Stmt("ended", info, id, code) /\ c.op = "ended"
<1> DEFINE a == Stmt("exit", info, id, code)
           b == Stmt("backfill", info, id, code)
           c == Stmt("ended", info, id, code)
<1>1. /\ a \in Statements /\ a.op = "exit"
      /\ b \in Statements /\ b.op = "backfill"
      /\ c \in Statements /\ c.op = "ended"
    BY StatementTyped
<1>2. \/ todo' = << >>
      \/ todo' = <<a, b>> \o << >> /\ ~SessionComplete(info)
      \/ todo' = <<a, b>> \o <<c>> /\ SessionComplete(info)
    BY DEF HandleExit
<1>3. <<a, b>> \o << >> = <<a, b>> /\ <<a, b>> \o <<c>> = <<a, b, c>>
    BY <1>1, TwoStatements, ThreeStatements
<1>4. a = Stmt("exit", info, id, code) /\ b = Stmt("backfill", info, id, code)
      /\ c = Stmt("ended", info, id, code)
    OBVIOUS
<1> HIDE DEF a, b, c
<1> QED
    BY <1>1, <1>2, <1>3, <1>4

\* What a read or write leaves: its row.
LEMMA TodoAfterIo ==
    ASSUME CorrInv, NEW info \in EventInfos, NEW id \in Nat, NEW fd \in Fds,
           HandleIo(info, id, fd)
    PROVE  \/ todo' = << >>
           \/ \E a \in Statements : todo' = <<a>> /\ a.op = "io" /\ a.sid = SessionOf(info)
                                    /\ a.id = id /\ a.pid = info.pid /\ a.code = NoCode
<1> DEFINE s == Stmt("io", info, id, NoCode)
           a == [s EXCEPT !.fd = fd]
<1>1. /\ s \in Statements /\ s.op = "io" /\ s.sid = SessionOf(info)
      /\ s.id = id /\ s.pid = info.pid /\ s.code = NoCode
    BY StatementTyped
<1>2. todo' = << >> \/ todo' = <<a>>
    BY DEF HandleIo
<1> HIDE DEF s
<1>3. /\ a \in Statements /\ a.op = "io" /\ a.sid = SessionOf(info)
      /\ a.id = id /\ a.pid = info.pid /\ a.code = NoCode
    BY <1>1 DEF Statements
<1> QED
    BY <1>2, <1>3

\* The events, with what they tell of the process they are about.
LEMMA HandledEvents ==
    ASSUME OsInv, Next
    PROVE  \/ \E p \in Pids : /\ InfoOf(p) \in EventInfos
                              /\ HandleExec(InfoOf(p), clock + 1)
                              /\ \/ execPids' = Put(execPids, p, clock + 1)
                                 \/ execPids' = execPids
                              /\ clock' = clock + 1 /\ todo = << >>
                              /\ UNCHANGED <<up, dbVars>>
           \/ \E p \in Pids, fd \in Fds :
                /\ InfoOf(p) \in EventInfos
                /\ p \in DOMAIN procs /\ procs[p].io \in Nat \ {0}
                /\ HandleIo(InfoOf(p), procs[p].io, fd)
                /\ clock' = clock + 1 /\ todo = << >>
                /\ UNCHANGED <<execPids, up, dbVars>>
           \/ \E p \in Pids, code \in Codes :
                /\ InfoOf(p) \in EventInfos
                /\ HandleExit(InfoOf(p), Get(execPids, p, 0), code)
                /\ execPids' = Remove(execPids, p)
                /\ clock' = clock + 1 /\ todo = << >>
                /\ UNCHANGED <<up, dbVars>>
           \/ /\ UNCHANGED <<corrVars, execPids, todo, dbVars>>
              /\ clock' \in {clock, clock + 1}
              /\ todo = << >> \/ UNCHANGED procs
           \/ RunStatement
           \/ FailStatement
           \/ Crash
<1>1. ASSUME NEW p \in Pids, NEW q \in Pids, Fork(q, p)
      PROVE  todo = << >> /\ UNCHANGED <<corrVars, clock, execPids, todo, dbVars>>
    BY <1>1 DEF Fork, Idle
<1>2. ASSUME NEW p \in Pids, NEW t \in Ttys, SetTty(p, t)
      PROVE  todo = << >> /\ UNCHANGED <<corrVars, clock, execPids, todo, dbVars>>
    BY <1>2 DEF SetTty, Idle
<1>3. ASSUME NEW p \in Pids, NEW c \in Comms, Exec(p, c)
      PROVE  /\ p \in DOMAIN procs /\ clock' = clock + 1 /\ todo = << >>
             /\ UNCHANGED <<up, dbVars>>
             /\ \/ /\ HandleExec(InfoOf(p), clock + 1)
                   /\ execPids' = Put(execPids, p, clock + 1)
                \/ UNCHANGED <<corrVars, todo, execPids>>
    BY <1>3 DEF Exec, NotHandled, Tick, Idle, Live
<1>4. ASSUME NEW p \in Pids, ExecFailed(p)
      PROVE  /\ p \in DOMAIN procs /\ clock' = clock + 1 /\ todo = << >>
             /\ UNCHANGED <<up, dbVars>>
             /\ \/ /\ HandleExec(InfoOf(p), clock + 1) /\ execPids' = execPids
                \/ UNCHANGED <<corrVars, todo, execPids>>
    BY <1>4 DEF ExecFailed, NotHandled, Tick, Idle, Live
<1>5. ASSUME NEW p \in Pids, NEW fd \in Fds, ReadOrWrite(p, fd)
      PROVE  /\ p \in DOMAIN procs /\ procs[p].io \in Nat \ {0}
             /\ clock' = clock + 1 /\ todo = << >> /\ UNCHANGED <<up, dbVars>>
             /\ \/ /\ HandleIo(InfoOf(p), procs[p].io, fd) /\ UNCHANGED execPids
                \/ UNCHANGED <<corrVars, todo, execPids>>
    <2>1. p \in DOMAIN procs /\ procs[p].io \in Nat \ {0}
        BY <1>5, InfoTyped DEF ReadOrWrite, Procs
    <2> QED
        BY <1>5, <2>1 DEF ReadOrWrite, NotHandled, Tick, Idle
<1>6. ASSUME NEW p \in Pids, NEW code \in Codes, ExitGroup(p, code)
      PROVE  /\ p \in DOMAIN procs /\ clock' = clock + 1 /\ todo = << >>
             /\ UNCHANGED <<up, dbVars>>
             /\ \/ /\ HandleExit(InfoOf(p), Get(execPids, p, 0), code)
                   /\ execPids' = Remove(execPids, p)
                \/ UNCHANGED <<corrVars, todo, execPids>>
    BY <1>6 DEF ExitGroup, NotHandled, Tick, Idle
<1>7. ASSUME NEW p \in Pids, Kill(p)
      PROVE  todo = << >> /\ UNCHANGED <<corrVars, clock, execPids, todo, dbVars>>
    BY <1>7 DEF Kill, Idle
<1>8. CASE Start
    BY <1>8 DEF Start, osVars
<1>9. \A p \in Pids : p \in DOMAIN procs => InfoOf(p) \in EventInfos
    BY InfoTyped
<1>10. ASSUME NEW p \in Pids, LookUp(p)
       PROVE  todo = << >> /\ UNCHANGED <<corrVars, clock, execPids, todo, dbVars>>
    BY <1>10 DEF LookUp, Idle
<1> QED
    BY <1>1, <1>2, <1>3, <1>4, <1>5, <1>6, <1>7, <1>8, <1>9, <1>10 DEF Next

-----------------------------------------------------------------------------
\* The correlator only adds to the sessions it has reported complete.
LEMMA CompletedGrows == [CorrNext]_corrVars => completed \subseteq completed'
BY DEF CorrNext, corrVars, Restart, OnExec, OnIo, OnExit

LEMMA InitEndedInv == Init => EndedInv
BY DEF Init, EndedInv, EmptyMap, IsMap

LEMMA NextEndedInv == OsInv /\ CorrInv /\ EndedInv /\ [Next]_vars => EndedInv'
<1> SUFFICES ASSUME OsInv, CorrInv, EndedInv, [Next]_vars PROVE EndedInv'
    OBVIOUS
<1>a. completed \subseteq completed'
    BY CompletedGrows, StepsOfCorrelator
<1>1. ASSUME NEW info \in EventInfos, NEW id \in Nat, HandleExec(info, id), UNCHANGED dbVars
      PROVE  EndedInv'
    <2>1. todo' \in Seq(Statements) /\ \A n \in DOMAIN todo' : todo'[n].op # "ended"
        <3>1. CASE todo' = << >>
            BY <3>1
        <3>2. ASSUME NEW a \in Statements, NEW b \in Statements, todo' = <<a, b>>,
                     a.op = "session", b.op = "exec"
              PROVE  todo' \in Seq(Statements) /\ \A n \in DOMAIN todo' : todo'[n].op # "ended"
            BY <3>2, TwoStatements
        <3> QED
            BY <1>1, <3>1, <3>2, TodoAfterExec
    <2> QED
        BY <1>1, <1>a, <2>1 DEF EndedInv, dbVars
<1>2. ASSUME NEW info \in EventInfos, NEW id \in Nat, NEW fd \in Fds, HandleIo(info, id, fd),
             UNCHANGED dbVars
      PROVE  EndedInv'
    <2>1. todo' \in Seq(Statements) /\ \A n \in DOMAIN todo' : todo'[n].op # "ended"
        <3>1. CASE todo' = << >>
            BY <3>1
        <3>2. ASSUME NEW a \in Statements, todo' = <<a>>, a.op = "io"
              PROVE  todo' \in Seq(Statements) /\ \A n \in DOMAIN todo' : todo'[n].op # "ended"
            BY <3>2
        <3> QED
            BY <1>2, <3>1, <3>2, TodoAfterIo
    <2> QED
        BY <1>2, <1>a, <2>1 DEF EndedInv, dbVars
<1>3. ASSUME NEW info \in EventInfos, NEW id \in Nat, NEW code \in Codes,
             HandleExit(info, id, code), UNCHANGED dbVars
      PROVE  EndedInv'
    <2>1. /\ todo' \in Seq(Statements)
          /\ \A n \in DOMAIN todo' : todo'[n].op = "ended" => todo'[n].sid \in completed'
        <3>1. CASE todo' = << >>
            BY <3>1
        <3>2. ASSUME NEW a \in Statements, NEW b \in Statements, NEW c \in Statements,
                     \/ todo' = <<a, b>> /\ ~SessionComplete(info)
                     \/ todo' = <<a, b, c>> /\ SessionComplete(info),
                     a.op = "exit", b.op = "backfill", c = Stmt("ended", info, id, code)
              PROVE  /\ todo' \in Seq(Statements)
                     /\ \A n \in DOMAIN todo' : todo'[n].op = "ended" => todo'[n].sid \in completed'
            <4>1. CASE todo' = <<a, b>>
                BY <3>2, <4>1, TwoStatements
            <4>2. CASE todo' = <<a, b, c>> /\ SessionComplete(info)
                <5>1. c.sid \in completed'
                    BY <1>3, <3>2, <4>2, StatementTyped DEF HandleExit, OnExit
                <5> QED
                    BY <3>2, <4>2, <5>1, ThreeStatements
            <4> QED
                BY <3>2, <4>1, <4>2
        <3> QED
            BY <1>3, <3>1, <3>2, TodoAfterExit
    <2> QED
        BY <1>3, <1>a, <2>1 DEF EndedInv, dbVars
<1>4. CASE UNCHANGED <<corrVars, execPids, todo, dbVars>>
    BY <1>4 DEF EndedInv, corrVars, dbVars
<1>5. CASE RunStatement
    <2>1. /\ todo \in Seq(Statements) /\ todo # << >> /\ todo' = Tail(todo)
          /\ completed' = completed
        BY <1>5 DEF RunStatement, EndedInv, corrVars
    <2>2. /\ todo' \in Seq(Statements)
          /\ \A n \in DOMAIN todo' : todo'[n].op = "ended" => todo'[n].sid \in completed'
        BY <2>1, StatementTaken DEF EndedInv
    <2>3. \/ sessions' = sessions
          \/ sessions' = Put(sessions, todo[1].sid, "open")
          \/ todo[1].op = "ended" /\ sessions' = Put(sessions, todo[1].sid, "ended")
        BY <1>5, <2>1, StatementTaken DEF RunStatement
    <2>4. todo[1].sid \in Nat /\ (todo[1].op = "ended" => todo[1].sid \in completed)
        BY <2>1, StatementTaken DEF EndedInv, Statements
    <2>5. IsMap(sessions', Nat, {"open", "ended"})
        BY <2>3, <2>4 DEF EndedInv, IsMap, Put
    <2>6. \A sid \in DOMAIN sessions' : sessions'[sid] = "ended" => sid \in completed'
        BY <2>1, <2>3, <2>4 DEF EndedInv, Put
    <2> QED
        BY <2>2, <2>5, <2>6 DEF EndedInv
<1>6. CASE FailStatement
    <2>1. /\ todo \in Seq(Statements) /\ todo # << >>
          /\ todo' = Tail(todo) \/ todo' = << >>
          /\ UNCHANGED <<completed, sessions>>
        BY <1>6 DEF FailStatement, EndedInv, corrVars
    <2>2. /\ todo' \in Seq(Statements)
          /\ \A n \in DOMAIN todo' : todo'[n].op = "ended" => todo'[n].sid \in completed'
        <3>1. CASE todo' = << >>
            BY <3>1
        <3>2. CASE todo' = Tail(todo)
            BY <2>1, <3>2, StatementTaken DEF EndedInv
        <3> QED
            BY <2>1, <3>1, <3>2
    <2> QED
        BY <2>1, <2>2 DEF EndedInv
<1>7. CASE Crash
    <2>1. todo' = << >> /\ UNCHANGED <<completed, sessions>>
        BY <1>7 DEF Crash, Restart, dbVars
    <2> QED
        BY <2>1 DEF EndedInv
<1>8. CASE UNCHANGED vars
    BY <1>8 DEF vars, EndedInv, corrVars, dbVars
<1>9. \A p \in DOMAIN execPids : execPids[p] \in Nat
    BY DEF OsInv, IsMap
<1>10. clock + 1 \in Nat /\ \A p \in Pids : Get(execPids, p, 0) \in Nat
    BY <1>9 DEF OsInv, Get
<1> QED
    BY <1>1, <1>2, <1>3, <1>4, <1>5, <1>6, <1>7, <1>8, <1>9, <1>10, HandledEvents DEF dbVars

LEMMA EndedInvAlways == Spec => []EndedInv
BY InitEndedInv, NextEndedInv, OsInvAlways, SessionsAsProved, PTL DEF Spec

\* A session whose ended_at is set has no tracked process, unless a terminal
\* leads to it, through every fault the model knows.
THEOREM EndedSessionsStayEmpty == Spec => []EndedStaysEmpty
<1>1. CorrInv /\ EndedInv => EndedStaysEmpty
    BY DEF CorrInv, CompletedStaysEmpty, EndedInv, EndedStaysEmpty, Ended
<1> QED
    BY <1>1, EndedInvAlways, SessionsAsProved, PTL

-----------------------------------------------------------------------------
\* Does the exit event, as a row or a statement, carry what the backfill writes?
ExitOf(e, stmt) ==
    /\ e.sid = stmt.sid /\ e.pid = stmt.pid
    /\ e.id = stmt.id /\ e.code = stmt.code

\* A backfill comes right after the exit it copies the code of.
BackfillsFollowExits ==
    \A n \in DOMAIN todo : todo[n].op = "backfill" =>
        \/ n = 1 /\ \E e \in Table : e.type = "exit" /\ ExitOf(e, todo[n])
        \/ n - 1 \in DOMAIN todo /\ todo[n - 1].op = "exit" /\ ExitOf(todo[n - 1], todo[n])

CodesInv ==
    /\ todo \in Seq(Statements)
    /\ rows \in Seq(Rows)
    /\ \A n \in DOMAIN todo : todo[n].op = "exec" => todo[n].code = NoCode
    /\ BackfillsFollowExits
    /\ CodesComeFromExits

LEMMA RowAdded ==
    ASSUME rows \in Seq(Rows), NEW r \in Rows
    PROVE  /\ Append(rows, r) \in Seq(Rows)
           /\ DOMAIN Append(rows, r) = DOMAIN rows \cup {Len(rows) + 1}
           /\ \A n \in DOMAIN rows : Append(rows, r)[n] = rows[n]
           /\ Append(rows, r)[Len(rows) + 1] = r
OBVIOUS

LEMMA RowTyped ==
    ASSUME NEW stmt \in Statements, stmt.op \in {"exec", "exit", "io"}
    PROVE  /\ RowOf(stmt) \in Rows /\ RowOf(stmt).type = stmt.op
           /\ RowOf(stmt).sid = stmt.sid /\ RowOf(stmt).pid = stmt.pid
           /\ RowOf(stmt).id = stmt.id /\ RowOf(stmt).code = stmt.code
           /\ RowOf(stmt).fd = stmt.fd
BY DEF RowOf, Statements, Rows

\* The table after one more row.
LEMMA TableGrows ==
    ASSUME rows \in Seq(Rows), NEW r \in Rows, rows' = Append(rows, r)
    PROVE  rows' \in Seq(Rows) /\ Table' = Table \cup {r}
BY RowAdded DEF Table

\* A backfill touches exec rows only, and only their code.
LEMMA BackfilledRows ==
    ASSUME rows \in Seq(Rows), NEW stmt \in Statements, rows' = Backfilled(stmt)
    PROVE  /\ rows' \in Seq(Rows) /\ DOMAIN rows' = DOMAIN rows
           /\ \A n \in DOMAIN rows :
                /\ rows'[n].type = rows[n].type /\ rows'[n].sid = rows[n].sid
                /\ rows'[n].pid = rows[n].pid /\ rows'[n].id = rows[n].id
                /\ rows'[n].fd = rows[n].fd
                /\ \/ rows'[n] = rows[n]
                   \/ /\ rows[n].type = "exec" /\ rows'[n].code = stmt.code
                      /\ rows[n].sid = stmt.sid /\ rows[n].pid = stmt.pid
                      /\ rows[n].id = stmt.id
                /\ rows[n].type = "exec" /\ rows[n].sid = stmt.sid /\ rows[n].pid = stmt.pid
                   /\ rows[n].id = stmt.id => rows'[n].code = stmt.code
<1> DEFINE Matches(r) == /\ r.type = "exec" /\ r.sid = stmt.sid
                         /\ r.pid = stmt.pid /\ r.id = stmt.id
<1>1. /\ DOMAIN rows' = DOMAIN rows
      /\ \A n \in DOMAIN rows :
            rows'[n] = IF Matches(rows[n]) THEN [rows[n] EXCEPT !.code = stmt.code]
                       ELSE rows[n]
    BY DEF Backfilled
<1>2. \A n \in DOMAIN rows : rows[n] \in Rows
    OBVIOUS
<1>3. stmt.code \in Codes \cup {NoCode}
    BY DEF Statements
<1>4. ASSUME NEW n \in DOMAIN rows
      PROVE  /\ rows'[n] \in Rows
             /\ rows'[n].type = rows[n].type /\ rows'[n].sid = rows[n].sid
             /\ rows'[n].pid = rows[n].pid /\ rows'[n].id = rows[n].id
             /\ rows'[n].fd = rows[n].fd
             /\ ~Matches(rows[n]) => rows'[n] = rows[n]
             /\ Matches(rows[n]) => rows'[n].code = stmt.code
    <2>1. CASE Matches(rows[n])
        BY <1>1, <1>2, <1>3, <2>1 DEF Rows
    <2>2. CASE ~Matches(rows[n])
        BY <1>1, <1>2, <2>2
    <2> QED
        BY <2>1, <2>2
<1>5. rows' \in Seq(Rows)
    <2>1. Len(rows) \in Nat /\ DOMAIN rows = 1..Len(rows)
        OBVIOUS
    <2>2. rows' = [n \in 1..Len(rows) |-> rows'[n]]
        BY <2>1 DEF Backfilled
    <2>3. rows' \in [1..Len(rows) -> Rows]
        BY <1>4, <2>1, <2>2
    <2> QED
        BY <2>1, <2>3
<1> QED
    BY <1>1, <1>4, <1>5

\* Taking a statement off leaves each backfill behind its exit, which is a
\* row by then if it was the statement taken.
LEMMA TailFollowsExits ==
    ASSUME todo \in Seq(Statements), todo # << >>, BackfillsFollowExits, todo' = Tail(todo),
           todo[1].op = "exit" => RowOf(todo[1]) \in Table'
    PROVE  BackfillsFollowExits'
<1> SUFFICES ASSUME NEW n \in DOMAIN todo', todo'[n].op = "backfill"
             PROVE  \/ n = 1 /\ \E e \in Table' : e.type = "exit" /\ ExitOf(e, todo'[n])
                    \/ /\ n - 1 \in DOMAIN todo' /\ todo'[n - 1].op = "exit"
                       /\ ExitOf(todo'[n - 1], todo'[n])
    BY DEF BackfillsFollowExits, ExitOf
<1>1. /\ n \in Nat /\ n >= 1 /\ n + 1 \in DOMAIN todo /\ todo'[n] = todo[n + 1]
      /\ todo[1] \in Statements
    BY StatementTaken
<1>2. n \in DOMAIN todo /\ todo[n].op = "exit" /\ ExitOf(todo[n], todo[n + 1])
    <2>1. (n + 1) - 1 = n /\ n + 1 # 1
        BY <1>1
    <2> QED
        BY <1>1, <2>1 DEF BackfillsFollowExits
<1>3. CASE n = 1
    <2>1. RowOf(todo[1]) \in Table' /\ RowOf(todo[1]).type = "exit"
        BY <1>1, <1>2, <1>3, RowTyped
    <2>2. ExitOf(RowOf(todo[1]), todo'[1])
        BY <1>1, <1>2, <1>3, RowTyped DEF ExitOf
    <2> QED
        BY <1>3, <2>1, <2>2
<1>4. CASE n # 1
    <2>1. n - 1 \in DOMAIN todo' /\ todo'[n - 1] = todo[(n - 1) + 1] /\ (n - 1) + 1 = n
        BY <1>1, <1>2, <1>4, StatementTaken
    <2> QED
        BY <1>1, <1>2, <2>1
<1> QED
    BY <1>3, <1>4

LEMMA InitCodesInv == Init => CodesInv
BY DEF Init, CodesInv, BackfillsFollowExits, CodesComeFromExits, Table

LEMMA NextCodesInv == OsInv /\ CorrInv /\ CodesInv /\ [Next]_vars => CodesInv'
<1> SUFFICES ASSUME OsInv, CorrInv, CodesInv, [Next]_vars PROVE CodesInv'
    OBVIOUS
<1>1. ASSUME UNCHANGED dbVars, todo' \in Seq(Statements),
             \A n \in DOMAIN todo' : todo'[n].op = "exec" => todo'[n].code = NoCode,
             BackfillsFollowExits'
      PROVE  CodesInv'
    BY <1>1 DEF CodesInv, CodesComeFromExits, Table, dbVars
<1>2. ASSUME todo' = << >>, UNCHANGED dbVars PROVE CodesInv'
    <2>1. BackfillsFollowExits'
        BY <1>2 DEF BackfillsFollowExits
    <2> QED
        BY <1>1, <1>2, <2>1
<1>3. ASSUME NEW info \in EventInfos, NEW id \in Nat, HandleExec(info, id), UNCHANGED dbVars
      PROVE  CodesInv'
    <2>1. ASSUME NEW a \in Statements, NEW b \in Statements, todo' = <<a, b>>,
                 a.op = "session", b.op = "exec", b.code = NoCode
          PROVE  CodesInv'
        <3>1. /\ todo' \in Seq(Statements)
              /\ \A n \in DOMAIN todo' : todo'[n] = a \/ todo'[n] = b
            BY <2>1, TwoStatements
        <3>2. BackfillsFollowExits'
            BY <2>1, <3>1 DEF BackfillsFollowExits
        <3> QED
            BY <1>1, <1>3, <2>1, <3>1, <3>2
    <2>2. Stmt("exec", info, id, NoCode).code = NoCode
        BY StatementTyped
    <2> QED
        BY <1>2, <1>3, <2>1, <2>2, TodoAfterExec
<1>4. ASSUME NEW info \in EventInfos, NEW id \in Nat, NEW fd \in Fds, HandleIo(info, id, fd),
             UNCHANGED dbVars
      PROVE  CodesInv'
    <2>1. ASSUME NEW a \in Statements, todo' = <<a>>, a.op = "io" PROVE CodesInv'
        <3>1. todo' \in Seq(Statements) /\ \A n \in DOMAIN todo' : todo'[n] = a
            BY <2>1
        <3>2. BackfillsFollowExits'
            BY <2>1, <3>1 DEF BackfillsFollowExits
        <3> QED
            BY <1>1, <1>4, <2>1, <3>1, <3>2
    <2> QED
        BY <1>2, <1>4, <2>1, TodoAfterIo
<1>5. ASSUME NEW info \in EventInfos, NEW id \in Nat, NEW code \in Codes,
             HandleExit(info, id, code), UNCHANGED dbVars
      PROVE  CodesInv'
    <2>1. ASSUME NEW a \in Statements, NEW b \in Statements, NEW c \in Statements,
                 todo' = <<a, b>> \/ todo' = <<a, b, c>>,
                 a.op = "exit", b.op = "backfill", c.op = "ended", ExitOf(a, b)
          PROVE  CodesInv'
        <3>1. /\ todo' \in Seq(Statements)
              /\ 1 \in DOMAIN todo' /\ todo'[1] = a /\ todo'[2] = b
              /\ \A n \in DOMAIN todo' : \/ todo'[n] = a \/ todo'[n] = c
                                         \/ n = 2 /\ todo'[n] = b
            <4>1. CASE todo' = <<a, b>>
                BY <4>1, TwoStatements
            <4>2. CASE todo' = <<a, b, c>>
                BY <4>2, ThreeStatements
            <4> QED
                BY <2>1, <4>1, <4>2
        <3>2. BackfillsFollowExits'
            <4> SUFFICES ASSUME NEW n \in DOMAIN todo', todo'[n].op = "backfill"
                         PROVE  /\ n - 1 \in DOMAIN todo' /\ todo'[n - 1].op = "exit"
                                /\ ExitOf(todo'[n - 1], todo'[n])
                BY DEF BackfillsFollowExits, ExitOf
            <4>1. n = 2 /\ n - 1 = 1
                BY <2>1, <3>1
            <4> QED
                BY <2>1, <3>1, <4>1
        <3> QED
            BY <1>1, <1>5, <2>1, <3>1, <3>2
    <2>2. ExitOf(Stmt("exit", info, id, code), Stmt("backfill", info, id, code))
        BY StatementTyped DEF ExitOf
    <2> QED
        BY <1>2, <1>5, <2>1, <2>2, TodoAfterExit
<1>6. CASE UNCHANGED <<corrVars, execPids, todo, dbVars>>
    BY <1>6 DEF CodesInv, BackfillsFollowExits, CodesComeFromExits, Table, dbVars
<1>7. CASE RunStatement
    <2>1. /\ todo \in Seq(Statements) /\ todo # << >> /\ todo' = Tail(todo)
          /\ rows \in Seq(Rows) /\ BackfillsFollowExits
        BY <1>7 DEF RunStatement, CodesInv
    <2>2. /\ todo[1] \in Statements /\ 1 \in DOMAIN todo /\ Head(todo) = todo[1]
          /\ todo' \in Seq(Statements)
          /\ \A n \in DOMAIN todo' : todo'[n].op = "exec" => todo'[n].code = NoCode
        BY <2>1, StatementTaken DEF CodesInv
    <2>3. \/ todo[1].op \in {"session", "ended"} /\ rows' = rows
          \/ todo[1].op = "backfill" /\ rows' = Backfilled(todo[1])
          \/ /\ todo[1].op \in {"exec", "exit", "io"}
             /\ rows' = Append(rows, RowOf(todo[1]))
        BY <1>7, <2>2 DEF RunStatement, Statements
    <2>4. CASE todo[1].op \in {"session", "ended"} /\ rows' = rows
        <3>1. BackfillsFollowExits'
            BY <2>1, <2>4, TailFollowsExits
        <3> QED
            BY <2>1, <2>2, <2>4, <3>1 DEF CodesInv, CodesComeFromExits, Table
    <2>5. CASE todo[1].op = "backfill" /\ rows' = Backfilled(todo[1])
        <3>1. BackfillsFollowExits'
            BY <2>1, <2>5, TailFollowsExits
        <3>2. PICK e \in Table : e.type = "exit" /\ ExitOf(e, todo[1])
            <4>1. 1 - 1 \notin DOMAIN todo
                BY <2>1, StatementTaken
            <4> QED
                BY <2>1, <2>2, <2>5, <4>1 DEF BackfillsFollowExits
        <3>3. rows' \in Seq(Rows) /\ DOMAIN rows' = DOMAIN rows
            BY <2>1, <2>2, <2>5, BackfilledRows
        <3>4. \A x \in Table : x.type = "exit" => x \in Table'
            BY <2>1, <2>2, <2>5, BackfilledRows DEF Table
        <3>5. CodesComeFromExits'
            <4> SUFFICES ASSUME NEW n \in DOMAIN rows', rows'[n].type = "exec",
                                rows'[n].code # NoCode
                         PROVE  \E x \in Table' :
                                    /\ x.type = "exit" /\ x.pid = rows'[n].pid
                                    /\ x.id = rows'[n].id /\ x.sid = rows'[n].sid
                                    /\ x.code = rows'[n].code
                BY DEF CodesComeFromExits, Table
            <4>1. CASE rows'[n] = rows[n]
                <5>1. PICK x \in Table :
                            /\ x.type = "exit" /\ x.pid = rows[n].pid /\ x.id = rows[n].id
                            /\ x.sid = rows[n].sid /\ x.code = rows[n].code
                    BY <3>3, <4>1 DEF CodesInv, CodesComeFromExits, Table
                <5> QED
                    BY <3>4, <4>1, <5>1
            <4>2. CASE /\ rows'[n].code = todo[1].code /\ rows[n].sid = todo[1].sid
                       /\ rows[n].pid = todo[1].pid /\ rows[n].id = todo[1].id
                <5>1. /\ rows'[n].sid = rows[n].sid /\ rows'[n].pid = rows[n].pid
                      /\ rows'[n].id = rows[n].id
                    BY <2>1, <2>2, <2>5, <3>3, BackfilledRows
                <5> QED
                    BY <3>2, <3>4, <4>2, <5>1 DEF ExitOf
            <4> QED
                BY <2>1, <2>2, <2>5, <3>3, <4>1, <4>2, BackfilledRows
        <3> QED
            BY <2>2, <3>1, <3>3, <3>5 DEF CodesInv
    <2>6. CASE /\ todo[1].op \in {"exec", "exit", "io"}
               /\ rows' = Append(rows, RowOf(todo[1]))
        <3>1. /\ RowOf(todo[1]) \in Rows /\ RowOf(todo[1]).type = todo[1].op
              /\ RowOf(todo[1]).code = todo[1].code
            BY <2>2, <2>6, RowTyped
        <3>2. rows' \in Seq(Rows) /\ Table' = Table \cup {RowOf(todo[1])}
            BY <2>1, <2>6, <3>1, TableGrows
        <3>3. BackfillsFollowExits'
            BY <2>1, <3>2, TailFollowsExits
        <3>4. RowOf(todo[1]).type = "exec" => RowOf(todo[1]).code = NoCode
            BY <2>2, <3>1 DEF CodesInv
        <3>5. CodesComeFromExits'
            <4>1. CodesComeFromExits
                BY DEF CodesInv
            <4> QED
                BY <3>2, <3>4, <4>1 DEF CodesComeFromExits
        <3> QED
            BY <2>2, <3>2, <3>3, <3>5 DEF CodesInv
    <2> QED
        BY <2>3, <2>4, <2>5, <2>6
<1>8. CASE FailStatement
    <2>1. /\ todo \in Seq(Statements) /\ todo # << >> /\ rows' = rows /\ BackfillsFollowExits
          /\ todo' = << >> \/ (todo' = Tail(todo) /\ todo[1].op = "session")
        BY <1>8, StatementTaken DEF FailStatement, CodesInv
    <2>2. CASE todo' = << >>
        BY <2>1, <2>2 DEF CodesInv, BackfillsFollowExits, CodesComeFromExits, Table
    <2>3. CASE todo' = Tail(todo) /\ todo[1].op = "session"
        <3>1. BackfillsFollowExits'
            BY <2>1, <2>3, TailFollowsExits
        <3>2. /\ todo' \in Seq(Statements)
              /\ \A n \in DOMAIN todo' : todo'[n].op = "exec" => todo'[n].code = NoCode
            BY <2>1, <2>3, StatementTaken DEF CodesInv
        <3> QED
            BY <2>1, <3>1, <3>2 DEF CodesInv, CodesComeFromExits, Table
    <2> QED
        BY <2>1, <2>2, <2>3
<1>9. CASE Crash
    BY <1>2, <1>9 DEF Crash
<1>10. CASE UNCHANGED vars
    BY <1>6, <1>10 DEF vars
<1>11. \A p \in DOMAIN execPids : execPids[p] \in Nat
    BY DEF OsInv, IsMap
<1>12. clock + 1 \in Nat /\ \A p \in Pids : Get(execPids, p, 0) \in Nat
    BY <1>11 DEF OsInv, Get
<1> QED
    BY <1>3, <1>4, <1>5, <1>6, <1>7, <1>8, <1>9, <1>10, <1>11, <1>12, HandledEvents DEF dbVars

LEMMA CodesInvAlways == Spec => []CodesInv
BY InitCodesInv, NextCodesInv, OsInvAlways, SessionsAsProved, PTL DEF Spec

\* The exit code shown on a command is one an exit event recorded for the
\* same execution, through every fault the model knows.
THEOREM ExitCodesComeFromExits == Spec => []CodesComeFromExits
<1>1. CodesInv => CodesComeFromExits
    BY DEF CodesInv
<1> QED
    BY <1>1, CodesInvAlways, PTL

-----------------------------------------------------------------------------
\* The remaining two properties hold where no statement fails and the
\* recorder does not die; records may still be lost and processes killed.
StatementsRun == Faults \cap {"sqlerror", "crash"} = {}

\* Execution ids are times that have passed.
IdsPast ==
    /\ \A p \in DOMAIN execPids : execPids[p] <= clock
    /\ \A r \in Table : r.id <= clock /\ (r.type = "exec" => r.id > 0)
    /\ \A n \in DOMAIN todo : todo[n].id <= clock /\ (todo[n].op = "exec" => todo[n].id > 0)

\* The process the probe credits to a command is tracked in the command's session.
CommandsTracked ==
    LET InSession(r) ==
            r.pid \in DOMAIN execPids /\ execPids[r.pid] = r.id
                => Tracked(r.pid) /\ pidMap[r.pid].sid = r.sid
    IN /\ \A r \in Table : r.type = "exec" => InSession(r)
       /\ \A n \in DOMAIN todo : todo[n].op = "exec" => InSession(todo[n])

\* A command is inserted before any exit of its execution; the exit comes
\* with its backfill, which finds the command in the same session.
ExitsPaired ==
    \A n \in DOMAIN todo :
        /\ todo[n].op = "backfill" => todo[n].code # NoCode
        /\ todo[n].op = "exec" =>
            /\ \A m \in DOMAIN todo : todo[m].op # "exit"
            /\ \A e \in Table : e.type = "exit" => e.id < todo[n].id
        /\ todo[n].op = "exit" =>
            /\ n = 1 /\ 2 \in DOMAIN todo
            /\ todo[2].op = "backfill" /\ ExitOf(todo[1], todo[2])
            /\ \A r \in Table : r.type = "exec" /\ r.pid = todo[1].pid /\ r.id = todo[1].id
                    => r.sid = todo[1].sid

\* A recorded exit has reached its command, or its backfill is next.
ExitsReaching ==
    \A r, e \in Table :
        r.type = "exec" /\ e.type = "exit" /\ r.pid = e.pid /\ r.id = e.id
            => \/ r.code # NoCode
               \/ /\ 1 \in DOMAIN todo /\ todo[1].op = "backfill"
                  /\ todo[1].pid = r.pid /\ todo[1].id = r.id /\ todo[1].sid = r.sid

ReachInv == IdsPast /\ CommandsTracked /\ ExitsPaired /\ ExitsReaching

\* What an event leaves of the sessions of other processes.
LEMMA OthersStayInSession ==
    ASSUME CorrInv, NEW info \in EventInfos, OnExec(info) \/ OnIo(info)
    PROVE  /\ \A q \in DOMAIN pidMap : q \in DOMAIN pidMap' /\ pidMap'[q].sid = pidMap[q].sid
           /\ info.pid \in DOMAIN pidMap' /\ pidMap'[info.pid].sid = SessionOf(info)
<1>1. CASE pidMap' = Put(pidMap, info.pid, Entry(info, SessionOf(info)))
    <2>1. /\ DOMAIN pidMap' = DOMAIN pidMap \cup {info.pid}
          /\ pidMap'[info.pid] = Entry(info, SessionOf(info))
          /\ \A q \in DOMAIN pidMap \ {info.pid} : pidMap'[q] = pidMap[q]
        BY <1>1 DEF Put
    <2>2. pidMap'[info.pid].sid = SessionOf(info)
        BY <2>1 DEF Entry
    <2>3. info.pid \in DOMAIN pidMap => SessionOf(info) = pidMap[info.pid].sid
        BY DEF SessionOf, Tracked
    <2> QED
        BY <2>1, <2>2, <2>3
<1>2. CASE Tracked(info.pid) /\ pidMap' = pidMap
    BY <1>2 DEF SessionOf, Tracked
<1> QED
    BY <1>1, <1>2 DEF OnExec, OnIo, PidMapAfterExec, PidMapAfterIo

LEMMA OthersStayAfterExit ==
    ASSUME NEW info \in EventInfos, OnExit(info)
    PROVE  \A q \in DOMAIN pidMap \ {info.pid} :
                q \in DOMAIN pidMap' /\ pidMap'[q] = pidMap[q]
BY DEF OnExit, Remove

LEMMA RowIdsPast ==
    ASSUME CodesInv, ReachInv
    PROVE  \A r \in Table : r.id \in Nat /\ r.id <= clock /\ (r.type = "exec" => r.id > 0)
<1>1. Table \subseteq Rows
    BY DEF CodesInv, Table
<1>2. \A r \in Rows : r.id \in Nat
    BY DEF Rows
<1> QED
    BY <1>1, <1>2 DEF ReachInv, IdsPast

LEMMA InitReachInv == Init => ReachInv
BY DEF Init, ReachInv, IdsPast, CommandsTracked, ExitsPaired, ExitsReaching, Table, EmptyMap

\* An exec leaves its command to be inserted, ahead of every exit.
LEMMA ExecReachInv ==
    ASSUME OsInv, CorrInv, CodesInv, ReachInv, todo = << >>,
           NEW p \in Pids, InfoOf(p) \in EventInfos, HandleExec(InfoOf(p), clock + 1),
           execPids' = Put(execPids, p, clock + 1) \/ execPids' = execPids,
           clock' = clock + 1, UNCHANGED dbVars
    PROVE  ReachInv'
<1> DEFINE info == InfoOf(p)
<1>1. info \in EventInfos /\ info.pid = p /\ OnExec(info)
    BY DEF InfoOf, HandleExec
<1>2. clock \in Nat /\ clock + 1 \in Nat /\ Table' = Table
    BY DEF OsInv, dbVars, Table
<1>3. PICK a \in Statements, b \in Statements :
        /\ todo' = << >> \/ todo' = <<a, b>>
        /\ a.op = "session" /\ a.id = clock + 1
        /\ b.op = "exec" /\ b.id = clock + 1 /\ b.pid = p /\ b.sid = SessionOf(info)
    <2>1. /\ Stmt("session", info, clock + 1, NoCode) \in Statements
          /\ Stmt("session", info, clock + 1, NoCode).op = "session"
          /\ Stmt("session", info, clock + 1, NoCode).id = clock + 1
          /\ Stmt("exec", info, clock + 1, NoCode) \in Statements
          /\ Stmt("exec", info, clock + 1, NoCode).op = "exec"
          /\ Stmt("exec", info, clock + 1, NoCode).id = clock + 1
          /\ Stmt("exec", info, clock + 1, NoCode).pid = p
          /\ Stmt("exec", info, clock + 1, NoCode).sid = SessionOf(info)
        BY <1>1, <1>2, StatementTyped
    <2> QED
        BY <2>1 DEF HandleExec
<1>4. \A n \in DOMAIN todo' : todo'[n] = a \/ todo'[n] = b
    <2>1. CASE todo' = << >>
        BY <2>1
    <2>2. CASE todo' = <<a, b>>
        BY <2>2, TwoStatements
    <2> QED
        BY <1>3, <2>1, <2>2
<1>5. /\ \A q \in DOMAIN pidMap : q \in DOMAIN pidMap' /\ pidMap'[q].sid = pidMap[q].sid
      /\ p \in DOMAIN pidMap' /\ pidMap'[p].sid = SessionOf(info)
    BY <1>1, OthersStayInSession
<1>6. \A q \in DOMAIN execPids' :
        \/ q = p /\ execPids'[q] = clock + 1
        \/ q \in DOMAIN execPids /\ execPids'[q] = execPids[q]
    BY DEF Put
<1> HIDE DEF info
<1>7. \A q \in DOMAIN execPids : execPids[q] \in Nat
    BY DEF OsInv, IsMap
<1>8. \A r \in Table : r.id \in Nat /\ r.id <= clock
    BY RowIdsPast
<1>9. IdsPast'
    BY <1>2, <1>3, <1>4, <1>6, <1>7, <1>8 DEF ReachInv, IdsPast
<1>10. CommandsTracked'
    <2>1. ASSUME NEW r \in Table, r.type = "exec", r.pid \in DOMAIN execPids',
                 execPids'[r.pid] = r.id
          PROVE  r.pid \in DOMAIN pidMap' /\ pidMap'[r.pid].sid = r.sid
        <3>1. r.pid \in DOMAIN execPids /\ execPids[r.pid] = r.id
            BY <1>2, <1>6, <1>8, <2>1
        <3>2. r.pid \in DOMAIN pidMap /\ pidMap[r.pid].sid = r.sid
            BY <2>1, <3>1 DEF ReachInv, CommandsTracked, Tracked
        <3> QED
            BY <1>5, <3>2
    <2>2. \A n \in DOMAIN todo' : todo'[n].op = "exec" =>
            todo'[n].pid \in DOMAIN pidMap' /\ pidMap'[todo'[n].pid].sid = todo'[n].sid
        BY <1>3, <1>4, <1>5
    <2> QED
        BY <1>2, <2>1, <2>2 DEF CommandsTracked, Tracked
<1>11. ExitsPaired'
    <2>1. \A n \in DOMAIN todo' : todo'[n].op = "exec" =>
            \A e \in Table' : e.type = "exit" => e.id < todo'[n].id
        BY <1>2, <1>3, <1>4, <1>8
    <2>2. \A n \in DOMAIN todo' : todo'[n].op # "exit" /\ todo'[n].op # "backfill"
        BY <1>3, <1>4
    <2> QED
        BY <2>1, <2>2 DEF ExitsPaired
<1>12. ExitsReaching'
    BY <1>2 DEF ReachInv, ExitsReaching
<1> QED
    BY <1>9, <1>10, <1>11, <1>12 DEF ReachInv

\* A read or write leaves a row that is neither command nor exit.
LEMMA IoReachInv ==
    ASSUME OsInv, CorrInv, CodesInv, ReachInv, todo = << >>,
           NEW p \in Pids, NEW fd \in Fds, InfoOf(p) \in EventInfos,
           NEW id \in Nat, id <= clock, HandleIo(InfoOf(p), id, fd), clock' = clock + 1,
           UNCHANGED <<execPids, dbVars>>
    PROVE  ReachInv'
<1> DEFINE info == InfoOf(p)
<1>1. info \in EventInfos /\ info.pid = p /\ OnIo(info)
    BY DEF InfoOf, HandleIo
<1>2. clock \in Nat /\ Table' = Table
    BY DEF OsInv, dbVars, Table
<1>3. \A n \in DOMAIN todo' : todo'[n].op = "io" /\ todo'[n].id = id
    BY <1>1, TodoAfterIo
<1>4. \A q \in DOMAIN pidMap : q \in DOMAIN pidMap' /\ pidMap'[q].sid = pidMap[q].sid
    BY <1>1, OthersStayInSession
<1> HIDE DEF info
<1>5. \A r \in Table : r.id \in Nat /\ r.id <= clock
    BY RowIdsPast
<1>6. \A q \in DOMAIN execPids : execPids[q] \in Nat /\ execPids[q] <= clock
    BY DEF OsInv, IsMap, ReachInv, IdsPast
<1>7. IdsPast'
    BY <1>1, <1>2, <1>3, <1>5, <1>6 DEF ReachInv, IdsPast
<1>8. CommandsTracked'
    <2>1. \A r \in Table : r.type = "exec" /\ r.pid \in DOMAIN execPids /\ execPids[r.pid] = r.id
            => r.pid \in DOMAIN pidMap /\ pidMap[r.pid].sid = r.sid
        BY DEF ReachInv, CommandsTracked, Tracked
    <2>2. \A n \in DOMAIN todo' : todo'[n].op # "exec"
        BY <1>3
    <2> QED
        BY <1>2, <1>4, <2>1, <2>2 DEF CommandsTracked, Tracked
<1>9. ExitsPaired'
    BY <1>3 DEF ExitsPaired
<1>10. ExitsReaching'
    BY <1>2 DEF ReachInv, ExitsReaching
<1> QED
    BY <1>7, <1>8, <1>9, <1>10 DEF ReachInv

\* An exit finds its command, if there is one, in the session of its process.
LEMMA ExitReachInv ==
    ASSUME OsInv, CorrInv, CodesInv, ReachInv, todo = << >>,
           NEW p \in Pids, NEW code \in Codes, InfoOf(p) \in EventInfos,
           HandleExit(InfoOf(p), Get(execPids, p, 0), code),
           execPids' = Remove(execPids, p), clock' = clock + 1, UNCHANGED dbVars
    PROVE  ReachInv'
<1> DEFINE info == InfoOf(p)
           id == Get(execPids, p, 0)
<1>1. info \in EventInfos /\ info.pid = p /\ OnExit(info) /\ HandleExit(info, id, code)
    BY DEF InfoOf, HandleExit
<1>2. clock \in Nat /\ Table' = Table
    BY DEF OsInv, dbVars, Table
<1>3. \A q \in DOMAIN execPids : execPids[q] \in Nat /\ execPids[q] <= clock
    BY DEF OsInv, IsMap, ReachInv, IdsPast
<1>4. \A r \in Table : r.id \in Nat /\ r.id <= clock /\ (r.type = "exec" => r.id > 0)
    BY RowIdsPast
<1>5. id \in Nat /\ id <= clock
    BY <1>2, <1>3 DEF Get
<1>6. \A r \in Table : r.type = "exec" /\ r.pid = p /\ r.id = id => r.sid = SessionOf(info)
    <2> SUFFICES ASSUME NEW r \in Table, r.type = "exec", r.pid = p, r.id = id
                 PROVE  r.sid = SessionOf(info)
        OBVIOUS
    <2>1. p \in DOMAIN execPids /\ execPids[p] = r.id
        BY <1>4 DEF Get
    <2>2. p \in DOMAIN pidMap /\ pidMap[p].sid = r.sid
        BY <2>1 DEF ReachInv, CommandsTracked, Tracked
    <2> QED
        BY <1>1, <2>2 DEF SessionOf, Tracked
<1>7. \A q \in DOMAIN execPids' : q # p /\ q \in DOMAIN execPids /\ execPids'[q] = execPids[q]
    BY DEF Remove
<1>8. \A q \in DOMAIN pidMap \ {p} : q \in DOMAIN pidMap' /\ pidMap'[q] = pidMap[q]
    BY <1>1, OthersStayAfterExit
<1>9. code # NoCode
    BY NoCodeAssumption
<1> HIDE DEF info, id
<1>10. /\ \A n \in DOMAIN todo' : /\ todo'[n].op \in {"exit", "backfill", "ended"}
                                  /\ todo'[n].id = id
                                  /\ todo'[n].op = "backfill" => todo'[n].code # NoCode
       /\ \A n \in DOMAIN todo' : todo'[n].op = "exit" =>
            /\ n = 1 /\ 2 \in DOMAIN todo' /\ todo'[2].op = "backfill"
            /\ ExitOf(todo'[1], todo'[2])
            /\ todo'[1].pid = p /\ todo'[1].id = id /\ todo'[1].sid = SessionOf(info)
    <2>1. CASE todo' = << >>
        BY <2>1
    <2>2. ASSUME NEW a \in Statements, NEW b \in Statements, NEW c \in Statements,
                 todo' = <<a, b>> \/ todo' = <<a, b, c>>,
                 a.op = "exit", b.op = "backfill", c.op = "ended",
                 a.id = id, b.id = id, c.id = id, b.code = code, ExitOf(a, b),
                 a.pid = p, a.sid = SessionOf(info)
          PROVE  <1>10!:
        <3>1. /\ 2 \in DOMAIN todo' /\ todo'[1] = a /\ todo'[2] = b
              /\ \A n \in DOMAIN todo' : n = 1 \/ n = 2 \/ (n = 3 /\ todo'[n] = c)
            <4>1. CASE todo' = <<a, b>>
                BY <4>1, TwoStatements
            <4>2. CASE todo' = <<a, b, c>>
                BY <4>2, ThreeStatements
            <4> QED
                BY <2>2, <4>1, <4>2
        <3> QED
            BY <1>9, <2>2, <3>1
    <2>3. /\ Stmt("exit", info, id, code).id = id
          /\ Stmt("backfill", info, id, code).id = id
          /\ Stmt("ended", info, id, code).id = id
          /\ Stmt("backfill", info, id, code).code = code
          /\ ExitOf(Stmt("exit", info, id, code), Stmt("backfill", info, id, code))
          /\ Stmt("exit", info, id, code).pid = p
          /\ Stmt("exit", info, id, code).sid = SessionOf(info)
        BY <1>1, <1>5, StatementTyped DEF ExitOf
    <2> QED
        BY <1>1, <1>5, <2>1, <2>2, <2>3, TodoAfterExit
<1>11. IdsPast'
    BY <1>2, <1>3, <1>4, <1>5, <1>7, <1>10 DEF IdsPast
<1>12. CommandsTracked'
    <2>1. \A r \in Table : r.type = "exec" /\ r.pid \in DOMAIN execPids /\ execPids[r.pid] = r.id
            => r.pid \in DOMAIN pidMap /\ pidMap[r.pid].sid = r.sid
        BY DEF ReachInv, CommandsTracked, Tracked
    <2>2. \A n \in DOMAIN todo' : todo'[n].op # "exec"
        BY <1>10
    <2> QED
        BY <1>2, <1>7, <1>8, <2>1, <2>2 DEF CommandsTracked, Tracked
<1>13. ExitsPaired'
    BY <1>2, <1>6, <1>10 DEF ExitsPaired, ExitOf
<1>14. ExitsReaching'
    BY <1>2 DEF ReachInv, ExitsReaching
<1> QED
    BY <1>11, <1>12, <1>13, <1>14 DEF ReachInv

\* What one statement does to the rows, for the properties of commands and exits.
LEMMA RunReachInv ==
    ASSUME OsInv, CorrInv, CodesInv, ReachInv, RunStatement
    PROVE  ReachInv'
<1> DEFINE stmt == todo[1]
<1>1. /\ todo \in Seq(Statements) /\ todo # << >> /\ todo' = Tail(todo) /\ rows \in Seq(Rows)
      /\ UNCHANGED <<pidMap, clock, execPids>>
    BY DEF RunStatement, CodesInv, corrVars, osVars
<1>2. /\ stmt \in Statements /\ 1 \in DOMAIN todo /\ Head(todo) = stmt
      /\ \A n \in DOMAIN todo' : /\ n \in Nat /\ n >= 1 /\ n + 1 \in DOMAIN todo
                                 /\ todo'[n] = todo[n + 1]
      /\ \A n \in DOMAIN todo : n = 1 \/ n - 1 \in DOMAIN todo'
    BY <1>1, StatementTaken
<1>3. \A n \in DOMAIN todo' : todo'[n].op # "exit" /\ todo'[n] = todo[n + 1]
    BY <1>2 DEF ReachInv, ExitsPaired
<1>4. \A n \in DOMAIN todo' :
        /\ todo'[n].op = "backfill" => todo'[n].code # NoCode
        /\ todo'[n].op = "exec" =>
            \A e \in Table : e.type = "exit" => e.id < todo'[n].id
    BY <1>2 DEF ReachInv, ExitsPaired
<1>5. \/ stmt.op \in {"session", "ended"} /\ rows' = rows
      \/ stmt.op = "backfill" /\ rows' = Backfilled(stmt)
      \/ stmt.op \in {"exec", "exit", "io"} /\ rows' = Append(rows, RowOf(stmt))
    BY <1>2 DEF RunStatement, Statements
<1>6. /\ \A n \in DOMAIN todo' : /\ todo'[n].id <= clock
                                 /\ todo'[n].op = "exec" => todo'[n].id > 0
      /\ stmt.id <= clock /\ (stmt.op = "exec" => stmt.id > 0)
    BY <1>2 DEF ReachInv, IdsPast
<1>7. \A r \in Table : r.id \in Nat /\ r.id <= clock /\ (r.type = "exec" => r.id > 0)
    BY RowIdsPast
<1>8. \A r \in Table : r.type = "exec" /\ r.pid \in DOMAIN execPids /\ execPids[r.pid] = r.id
            => r.pid \in DOMAIN pidMap /\ pidMap[r.pid].sid = r.sid
    BY DEF ReachInv, CommandsTracked, Tracked
<1>9. /\ \A n \in DOMAIN todo' :
            todo'[n].op = "exec" /\ todo'[n].pid \in DOMAIN execPids
            /\ execPids[todo'[n].pid] = todo'[n].id
                => /\ todo'[n].pid \in DOMAIN pidMap
                   /\ pidMap[todo'[n].pid].sid = todo'[n].sid
      /\ stmt.op = "exec" /\ stmt.pid \in DOMAIN execPids /\ execPids[stmt.pid] = stmt.id
                => stmt.pid \in DOMAIN pidMap /\ pidMap[stmt.pid].sid = stmt.sid
    BY <1>2 DEF ReachInv, CommandsTracked, Tracked
<1>10. \A r, e \in Table :
        r.type = "exec" /\ e.type = "exit" /\ r.pid = e.pid /\ r.id = e.id
            => r.code # NoCode \/ /\ stmt.op = "backfill" /\ stmt.pid = r.pid
                                  /\ stmt.id = r.id /\ stmt.sid = r.sid
    BY DEF ReachInv, ExitsReaching
<1>11. /\ stmt.op = "backfill" => stmt.code # NoCode
       /\ stmt.op = "exec" =>
            /\ \A m \in DOMAIN todo : todo[m].op # "exit"
            /\ \A e \in Table : e.type = "exit" => e.id < stmt.id
       /\ stmt.op = "exit" =>
            /\ 2 \in DOMAIN todo /\ todo[2].op = "backfill" /\ ExitOf(stmt, todo[2])
            /\ \A r \in Table : r.type = "exec" /\ r.pid = stmt.pid /\ r.id = stmt.id
                    => r.sid = stmt.sid
            /\ \A m \in DOMAIN todo : todo[m].op # "exec"
    BY <1>2 DEF ReachInv, ExitsPaired
<1>12. 2 \in DOMAIN todo => 1 \in DOMAIN todo' /\ todo'[1] = todo[2]
    <2>1. 2 \in DOMAIN todo => 2 - 1 \in DOMAIN todo'
        BY <1>2
    <2> QED
        BY <1>2, <2>1
<1> HIDE DEF stmt
<1>13. CASE stmt.op \in {"session", "ended"} /\ rows' = rows
    <2>1. Table' = Table
        BY <1>13 DEF Table
    <2>2. IdsPast'
        BY <1>1, <1>6, <2>1 DEF ReachInv, IdsPast
    <2>3. CommandsTracked'
        BY <1>1, <1>8, <1>9, <2>1 DEF CommandsTracked, Tracked
    <2>4. ExitsPaired'
        BY <1>3, <1>4, <2>1 DEF ExitsPaired
    <2>5. ExitsReaching'
        BY <1>10, <1>13, <2>1 DEF ExitsReaching
    <2> QED
        BY <2>2, <2>3, <2>4, <2>5 DEF ReachInv
<1>14. CASE stmt.op = "backfill" /\ rows' = Backfilled(stmt)
    <2>1. ASSUME NEW r \in Table'
          PROVE  \E x \in Table :
                    /\ r.type = x.type /\ r.sid = x.sid /\ r.pid = x.pid /\ r.id = x.id
                    /\ \/ r.code = x.code \/ r.code = stmt.code
                    /\ x.type = "exec" /\ x.sid = stmt.sid /\ x.pid = stmt.pid
                       /\ x.id = stmt.id => r.code = stmt.code
        <3>1. PICK n \in DOMAIN rows' : r = rows'[n]
            BY DEF Table
        <3>2. n \in DOMAIN rows /\ rows[n] \in Table
            BY <1>1, <1>2, <1>14, <3>1, BackfilledRows DEF Table
        <3> QED
            BY <1>1, <1>2, <1>14, <3>1, <3>2, BackfilledRows
    <2>2. IdsPast'
        BY <1>1, <1>6, <1>7, <2>1 DEF ReachInv, IdsPast
    <2>3. CommandsTracked'
        BY <1>1, <1>8, <1>9, <2>1 DEF CommandsTracked, Tracked
    <2>4. ExitsPaired'
        BY <1>3, <1>4, <2>1 DEF ExitsPaired
    <2>5. ExitsReaching'
        <3> SUFFICES ASSUME NEW r \in Table', NEW e \in Table', r.type = "exec",
                            e.type = "exit", r.pid = e.pid, r.id = e.id
                     PROVE  r.code # NoCode
            BY DEF ExitsReaching
        <3>1. PICK x \in Table :
                    /\ r.type = x.type /\ r.sid = x.sid /\ r.pid = x.pid /\ r.id = x.id
                    /\ \/ r.code = x.code \/ r.code = stmt.code
                    /\ x.type = "exec" /\ x.sid = stmt.sid /\ x.pid = stmt.pid
                       /\ x.id = stmt.id => r.code = stmt.code
            BY <2>1
        <3>2. PICK y \in Table : e.type = y.type /\ e.pid = y.pid /\ e.id = y.id
            BY <2>1
        <3> QED
            BY <1>10, <1>11, <1>14, <3>1, <3>2
    <2> QED
        BY <2>2, <2>3, <2>4, <2>5 DEF ReachInv
<1>15. CASE stmt.op \in {"exec", "exit", "io"} /\ rows' = Append(rows, RowOf(stmt))
    <2> DEFINE new == RowOf(stmt)
    <2>1. /\ new \in Rows /\ new.type = stmt.op /\ new.sid = stmt.sid
          /\ new.pid = stmt.pid /\ new.id = stmt.id /\ new.code = stmt.code
        BY <1>2, <1>15, RowTyped
    <2>2. Table' = Table \cup {new}
        BY <1>1, <1>15, <2>1, TableGrows
    <2> HIDE DEF new
    <2>3. IdsPast'
        BY <1>1, <1>6, <1>7, <2>1, <2>2 DEF ReachInv, IdsPast
    <2>4. CommandsTracked'
        BY <1>1, <1>8, <1>9, <2>1, <2>2 DEF CommandsTracked, Tracked
    <2>5. ExitsPaired'
        <3>1. ASSUME NEW n \in DOMAIN todo', todo'[n].op = "exec"
              PROVE  stmt.op # "exit"
            BY <1>2, <1>11, <3>1
        <3>2. ASSUME NEW n \in DOMAIN todo', todo'[n].op = "exec",
                     NEW e \in Table', e.type = "exit"
              PROVE  e.id < todo'[n].id
            BY <1>4, <2>1, <2>2, <3>1, <3>2
        <3> QED
            BY <1>3, <1>4, <3>2 DEF ExitsPaired
    <2>6. ExitsReaching'
        <3> SUFFICES ASSUME NEW r \in Table', NEW e \in Table', r.type = "exec",
                            e.type = "exit", r.pid = e.pid, r.id = e.id
                     PROVE  \/ r.code # NoCode
                            \/ /\ 1 \in DOMAIN todo' /\ todo'[1].op = "backfill"
                               /\ todo'[1].pid = r.pid /\ todo'[1].id = r.id
                               /\ todo'[1].sid = r.sid
            BY DEF ExitsReaching
        <3>1. CASE r \in Table /\ e \in Table
            BY <1>10, <1>15, <3>1
        <3>2. CASE r \in Table /\ e = new
            BY <1>11, <1>12, <2>1, <3>2 DEF ExitOf
        <3>3. CASE r = new /\ e \in Table
            <4>1. stmt.op = "exec" /\ e.id < stmt.id /\ e.id = stmt.id /\ e.id \in Nat
                BY <1>7, <1>11, <2>1, <3>3
            <4>2. stmt.id \in Nat
                BY <1>2 DEF Statements
            <4> QED
                BY <4>1, <4>2
        <3>4. CASE r = new /\ e = new
            BY <3>4
        <3> QED
            BY <2>2, <3>1, <3>2, <3>3, <3>4
    <2> QED
        BY <2>3, <2>4, <2>5, <2>6 DEF ReachInv
<1> QED
    BY <1>5, <1>13, <1>14, <1>15

\* Where statements run, one only fails when the foreign key refuses a row,
\* and then no exit is waiting for its command.
LEMMA FailReachInv ==
    ASSUME OsInv, CorrInv, CodesInv, ReachInv, StatementsRun, FailStatement
    PROVE  ReachInv'
<1>1. /\ todo' = << >> /\ Head(todo) = todo[1] /\ todo[1].op \in {"exec", "exit", "io"}
      /\ UNCHANGED <<pidMap, clock, execPids, rows>>
    <2>1. todo # << >> /\ todo \in Seq(Statements) /\ "sqlerror" \notin Faults
        BY DEF FailStatement, CodesInv, StatementsRun
    <2>2. Head(todo) = todo[1]
        BY <2>1, StatementTaken
    <2> QED
        BY <2>1, <2>2 DEF FailStatement, corrVars, osVars
<1>2. Table' = Table
    BY <1>1 DEF Table
<1>3. IdsPast' /\ CommandsTracked' /\ ExitsPaired'
    BY <1>1, <1>2 DEF ReachInv, IdsPast, CommandsTracked, ExitsPaired, Tracked
<1>4. ExitsReaching'
    BY <1>1, <1>2 DEF ReachInv, ExitsReaching
<1> QED
    BY <1>3, <1>4 DEF ReachInv

LEMMA NextReachInv ==
    OsInv /\ ProbeInv /\ CorrInv /\ CodesInv /\ ReachInv /\ StatementsRun /\ [Next]_vars
        => ReachInv'
<1> SUFFICES ASSUME OsInv, ProbeInv, CorrInv, CodesInv, ReachInv, StatementsRun, [Next]_vars
             PROVE  ReachInv'
    OBVIOUS
<1>1. CASE /\ UNCHANGED <<corrVars, execPids, todo, dbVars>>
           /\ clock' \in {clock, clock + 1}
    <2>1. Table' = Table /\ UNCHANGED <<pidMap, execPids, todo>>
        BY <1>1 DEF Table, corrVars, dbVars
    <2>2. IdsPast'
        <3>1. clock \in Nat /\ clock <= clock'
            BY <1>1 DEF OsInv
        <3>2. \A r \in Table : r.id \in Nat /\ r.id <= clock
            BY RowIdsPast
        <3>3. \A p \in DOMAIN execPids : execPids[p] \in Nat
            BY DEF OsInv, IsMap
        <3>4. \A n \in DOMAIN todo : todo[n].id \in Nat
            <4>1. \A n \in DOMAIN todo : todo[n] \in Statements
                BY DEF CodesInv
            <4> QED
                BY <4>1 DEF Statements
        <3> QED
            BY <1>1, <2>1, <3>1, <3>2, <3>3, <3>4 DEF ReachInv, IdsPast
    <2>3. CommandsTracked' /\ ExitsPaired' /\ ExitsReaching'
        BY <2>1 DEF ReachInv, CommandsTracked, ExitsPaired, ExitsReaching, Tracked
    <2> QED
        BY <2>2, <2>3 DEF ReachInv
<1>2. CASE Crash
    BY <1>2 DEF Crash, StatementsRun
<1>3. CASE UNCHANGED vars
    BY <1>1, <1>3 DEF vars, osVars
<1>4. \A p \in DOMAIN procs : procs[p].io <= clock
    BY DEF ProbeInv
<1>5. ASSUME NEW p \in Pids, NEW fd \in Fds, InfoOf(p) \in EventInfos,
             p \in DOMAIN procs, procs[p].io \in Nat \ {0}, HandleIo(InfoOf(p), procs[p].io, fd),
             clock' = clock + 1, todo = << >>, UNCHANGED <<execPids, up, dbVars>>
      PROVE  ReachInv'
    <2>1. PICK id \in Nat : id = procs[p].io
        BY <1>5
    <2>2. id <= clock /\ HandleIo(InfoOf(p), id, fd)
        BY <1>4, <1>5, <2>1
    <2> QED
        BY <1>5, <2>1, <2>2, IoReachInv
<1> QED
    BY <1>1, <1>2, <1>3, <1>5, HandledEvents, ExecReachInv, ExitReachInv, RunReachInv,
       FailReachInv

\* Where no statement fails and the recorder does not die, every recorded
\* exit has reached the command it ended once the event is handled, whatever
\* records are lost and whichever processes are killed.
THEOREM ExitsReachTheirCommands ==
    ASSUME StatementsRun
    PROVE  Spec => []ExitsReachCommands
<1>1. Spec => []ReachInv
    BY InitReachInv, NextReachInv, OsInvAlways, ProbeInvAlways, SessionsAsProved, CodesInvAlways,
       PTL DEF Spec
<1>2. ReachInv => ExitsReachCommands
    BY DEF ReachInv, ExitsReaching, ExitsReachCommands, Idle
<1> QED
    BY <1>1, <1>2, PTL

-----------------------------------------------------------------------------
\* No terminals and no filter: then nothing but its processes keeps a session.
Unfiltered == ~FilterPty /\ FilterAncestors = {} /\ Ttys = {0}

\* A session in the table has a process, or has ended, or is about to.
EmptyInv ==
    /\ \A sid \in DOMAIN sessions :
        \/ \E p \in DOMAIN pidMap : pidMap[p].sid = sid
        \/ Ended(sid)
        \/ \E n \in DOMAIN todo : todo[n].op = "ended" /\ todo[n].sid = sid
    /\ \A n \in DOMAIN todo : todo[n].op = "session" =>
        \E p \in DOMAIN pidMap : pidMap[p].sid = todo[n].sid
    /\ \A m, n \in DOMAIN todo : todo[m].sid = todo[n].sid

\* Without a filter an exit always leaves its statements.
LEMMA UnfilteredExit ==
    ASSUME CorrInv, Unfiltered, NEW info \in EventInfos, NEW id \in Nat, NEW code \in Codes,
           HandleExit(info, id, code)
    PROVE  /\ \A n \in DOMAIN todo' : /\ todo'[n].sid = SessionOf(info)
                                      /\ todo'[n].op # "session"
           /\ SessionComplete(info) => \E n \in DOMAIN todo' : todo'[n].op = "ended"
<1>1. todo' # << >>
    <2> DEFINE a == Stmt("exit", info, id, code)
               b == Stmt("backfill", info, id, code)
               c == Stmt("ended", info, id, code)
    <2>1. a \in Statements /\ b \in Statements /\ c \in Statements
        <3>1. code \in Codes \cup {NoCode}
            OBVIOUS
        <3>2. a \in Statements
            BY <3>1, StatementTyped
        <3>3. b \in Statements
            BY <3>1, StatementTyped
        <3>4. c \in Statements
            BY <3>1, StatementTyped
        <3> QED
            BY <3>2, <3>3, <3>4
    <2>2. todo' = <<a, b>> \o << >> \/ todo' = <<a, b>> \o <<c>>
        BY DEF HandleExit, PassesFilter, Unfiltered
    <2> HIDE DEF a, b, c
    <2>3. 1 \in DOMAIN <<a, b>> /\ 1 \in DOMAIN <<a, b, c>> /\ DOMAIN << >> = {}
        BY <2>1, TwoStatements, ThreeStatements
    <2>4. todo' = <<a, b>> \/ todo' = <<a, b, c>>
        BY <2>1, <2>2, TwoStatements, ThreeStatements
    <2>5. 1 \in DOMAIN todo'
        BY <2>3, <2>4
    <2> QED
        BY <2>3, <2>5
<1>2. ASSUME NEW a \in Statements, NEW b \in Statements, NEW c \in Statements,
             \/ todo' = <<a, b>> /\ ~SessionComplete(info)
             \/ todo' = <<a, b, c>> /\ SessionComplete(info),
             a.op = "exit", b.op = "backfill", c.op = "ended",
             a.sid = SessionOf(info), b.sid = SessionOf(info), c.sid = SessionOf(info)
      PROVE  /\ \A n \in DOMAIN todo' : /\ todo'[n].sid = SessionOf(info)
                                        /\ todo'[n].op # "session"
             /\ SessionComplete(info) => \E n \in DOMAIN todo' : todo'[n].op = "ended"
    <2>1. CASE todo' = <<a, b>> /\ ~SessionComplete(info)
        BY <1>2, <2>1, TwoStatements
    <2>2. CASE todo' = <<a, b, c>> /\ SessionComplete(info)
        <3>1. 3 \in DOMAIN todo' /\ todo'[3].op = "ended"
            BY <1>2, <2>2, ThreeStatements
        <3>2. \A n \in DOMAIN todo' : todo'[n] = a \/ todo'[n] = b \/ todo'[n] = c
            BY <2>2, ThreeStatements
        <3> QED
            BY <1>2, <3>1, <3>2
    <2> QED
        BY <1>2, <2>1, <2>2
<1>3. /\ Stmt("exit", info, id, code).sid = SessionOf(info)
      /\ Stmt("backfill", info, id, code).sid = SessionOf(info)
      /\ Stmt("ended", info, id, code).sid = SessionOf(info)
    BY StatementTyped
<1> QED
    BY <1>1, <1>2, <1>3, TodoAfterExit

LEMMA InitEmptyInv == Init => EmptyInv
BY DEF Init, EmptyInv, EmptyMap

LEMMA NextEmptyInv ==
    OsInv /\ CorrInv /\ EndedInv /\ EmptyInv /\ StatementsRun /\ Unfiltered /\ [Next]_vars
        => EmptyInv'
<1> SUFFICES ASSUME OsInv, CorrInv, EndedInv, EmptyInv, StatementsRun, Unfiltered, [Next]_vars
             PROVE  EmptyInv'
    OBVIOUS
<1>1. ASSUME NEW info \in EventInfos, OnExec(info) \/ OnIo(info), UNCHANGED dbVars, todo = << >>,
             \A n \in DOMAIN todo' : todo'[n].sid = SessionOf(info)
      PROVE  EmptyInv'
    <2>1. /\ \A q \in DOMAIN pidMap : q \in DOMAIN pidMap' /\ pidMap'[q].sid = pidMap[q].sid
          /\ info.pid \in DOMAIN pidMap' /\ pidMap'[info.pid].sid = SessionOf(info)
        BY <1>1, OthersStayInSession
    <2>2. ASSUME NEW sid \in DOMAIN sessions'
          PROVE  (\E p \in DOMAIN pidMap' : pidMap'[p].sid = sid) \/ Ended(sid)'
        BY <1>1, <2>1 DEF EmptyInv, Ended, dbVars
    <2> QED
        BY <1>1, <2>1, <2>2 DEF EmptyInv
<1>2. ASSUME NEW info \in EventInfos, NEW id \in Nat, HandleExec(info, id), UNCHANGED dbVars,
             todo = << >>
      PROVE  EmptyInv'
    <2>1. \A n \in DOMAIN todo' : todo'[n].sid = SessionOf(info)
        <3>1. ASSUME NEW a \in Statements, NEW b \in Statements, todo' = <<a, b>>,
                     a.sid = SessionOf(info), b.sid = SessionOf(info)
              PROVE  \A n \in DOMAIN todo' : todo'[n].sid = SessionOf(info)
            BY <3>1, TwoStatements
        <3>2. /\ Stmt("session", info, id, NoCode).sid = SessionOf(info)
              /\ Stmt("exec", info, id, NoCode).sid = SessionOf(info)
            BY StatementTyped
        <3> QED
            BY <1>2, <3>1, <3>2, TodoAfterExec
    <2> QED
        BY <1>1, <1>2, <2>1 DEF HandleExec
<1>3. ASSUME NEW info \in EventInfos, NEW id \in Nat, NEW fd \in Fds, HandleIo(info, id, fd),
             UNCHANGED dbVars, todo = << >>
      PROVE  EmptyInv'
    <2>1. \A n \in DOMAIN todo' : todo'[n].sid = SessionOf(info)
        BY <1>3, TodoAfterIo
    <2> QED
        BY <1>1, <1>3, <2>1 DEF HandleIo
<1>4. ASSUME NEW info \in EventInfos, NEW id \in Nat, NEW code \in Codes,
             HandleExit(info, id, code), UNCHANGED dbVars, todo = << >>
      PROVE  EmptyInv'
    <2>1. /\ \A n \in DOMAIN todo' : todo'[n].sid = SessionOf(info) /\ todo'[n].op # "session"
          /\ SessionComplete(info) => \E n \in DOMAIN todo' : todo'[n].op = "ended"
        BY <1>4, UnfilteredExit
    <2>2. \A q \in DOMAIN pidMap \ {info.pid} : q \in DOMAIN pidMap' /\ pidMap'[q] = pidMap[q]
        BY <1>4, OthersStayAfterExit DEF HandleExit
    <2>3. /\ PidMapAfterIo(info)[info.pid].tty = 0
          /\ PidMapAfterIo(info)[info.pid].sid = SessionOf(info)
        <3>1. CASE Tracked(info.pid)
            <4>1. pidMap[info.pid] \in ProcessInfos
                BY <3>1 DEF CorrInv, CorrTypeOK, IsMap, Tracked
            <4> QED
                BY <3>1, <4>1 DEF PidMapAfterIo, SessionOf, ProcessInfos, Unfiltered
        <3>2. CASE ~Tracked(info.pid)
            <4>1. PidMapAfterIo(info)[info.pid] = Entry(info, SessionOf(info))
                BY <3>2 DEF PidMapAfterIo, Put
            <4> QED
                BY <4>1 DEF Entry, EventInfos, Unfiltered
        <3> QED
            BY <3>1, <3>2
    <2>4. SessionComplete(info) \/ \E q \in DOMAIN pidMap \ {info.pid} :
                                        pidMap[q].sid = SessionOf(info)
        BY <2>3 DEF SessionComplete
    <2>5. ASSUME NEW sid \in DOMAIN sessions'
          PROVE  \/ \E p \in DOMAIN pidMap' : pidMap'[p].sid = sid
                 \/ Ended(sid)'
                 \/ \E n \in DOMAIN todo' : todo'[n].op = "ended" /\ todo'[n].sid = sid
        <3>1. sid \in DOMAIN sessions /\ (Ended(sid) => Ended(sid)')
            BY <1>4 DEF dbVars, Ended
        <3>2. CASE Ended(sid)
            BY <3>1, <3>2
        <3>3. ASSUME NEW p \in DOMAIN pidMap, pidMap[p].sid = sid, p # info.pid
              PROVE  \E q \in DOMAIN pidMap' : pidMap'[q].sid = sid
            BY <2>2, <3>3
        <3>4. ASSUME info.pid \in DOMAIN pidMap, pidMap[info.pid].sid = sid
              PROVE  sid = SessionOf(info)
            BY <3>4 DEF SessionOf, Tracked
        <3>5. CASE sid = SessionOf(info)
            BY <2>1, <2>2, <2>4, <3>5
        <3> QED
            BY <1>4, <3>1, <3>2, <3>3, <3>4, <3>5 DEF EmptyInv
    <2> QED
        BY <2>1, <2>5 DEF EmptyInv
<1>5. CASE UNCHANGED <<corrVars, execPids, todo, dbVars>>
    BY <1>5 DEF EmptyInv, Ended, corrVars, dbVars
<1>6. CASE RunStatement
    <2>1. /\ todo \in Seq(Statements) /\ todo # << >> /\ todo' = Tail(todo) /\ pidMap' = pidMap
        BY <1>6 DEF RunStatement, EndedInv, corrVars
    <2>2. /\ 1 \in DOMAIN todo /\ Head(todo) = todo[1]
          /\ \A n \in DOMAIN todo' : n + 1 \in DOMAIN todo /\ todo'[n] = todo[n + 1]
          /\ \A n \in DOMAIN todo : \/ n = 1
                                    \/ n - 1 \in DOMAIN todo' /\ (n - 1) + 1 = n
        BY <2>1, StatementTaken
    <2>3. \/ todo[1].op = "session" /\ todo[1].sid \notin DOMAIN sessions
             /\ sessions' = Put(sessions, todo[1].sid, "open")
          \/ todo[1].op # "ended" /\ sessions' = sessions
          \/ todo[1].op = "ended" /\ todo[1].sid \in DOMAIN sessions
             /\ sessions' = Put(sessions, todo[1].sid, "ended")
          \/ todo[1].op = "ended" /\ todo[1].sid \notin DOMAIN sessions /\ sessions' = sessions
        BY <1>6, <2>2 DEF RunStatement
    <2>4. ASSUME NEW sid \in DOMAIN sessions'
          PROVE  \/ \E p \in DOMAIN pidMap' : pidMap'[p].sid = sid
                 \/ Ended(sid)'
                 \/ \E n \in DOMAIN todo' : todo'[n].op = "ended" /\ todo'[n].sid = sid
        <3>1. CASE todo[1].op = "session" /\ sid = todo[1].sid
            BY <2>1, <2>2, <3>1 DEF EmptyInv
        <3>2. CASE todo[1].op = "ended" /\ sid = todo[1].sid
            BY <2>3, <3>2 DEF Ended, Put
        <3>3. CASE ~(todo[1].op \in {"session", "ended"} /\ sid = todo[1].sid)
            <4>1. sid \in DOMAIN sessions /\ sessions'[sid] = sessions[sid]
                BY <2>3, <3>3 DEF Put
            <4>2. CASE Ended(sid)
                BY <4>1, <4>2 DEF Ended
            <4>3. CASE \E p \in DOMAIN pidMap : pidMap[p].sid = sid
                BY <2>1, <4>3
            <4>4. ASSUME NEW n \in DOMAIN todo, todo[n].op = "ended", todo[n].sid = sid
                  PROVE  \E m \in DOMAIN todo' : todo'[m].op = "ended" /\ todo'[m].sid = sid
                <5>1. n # 1
                    BY <3>3, <4>4
                <5>2. n - 1 \in DOMAIN todo' /\ todo'[n - 1] = todo[n]
                    BY <2>2, <5>1
                <5> QED
                    BY <4>4, <5>2
            <4> QED
                BY <4>1, <4>2, <4>3, <4>4 DEF EmptyInv
        <3> QED
            BY <3>1, <3>2, <3>3
    <2>5. /\ \A n \in DOMAIN todo' : todo'[n].op = "session" =>
                \E p \in DOMAIN pidMap' : pidMap'[p].sid = todo'[n].sid
          /\ \A m, n \in DOMAIN todo' : todo'[m].sid = todo'[n].sid
        BY <2>1, <2>2 DEF EmptyInv
    <2> QED
        BY <2>4, <2>5 DEF EmptyInv
<1>7. CASE FailStatement
    <2>1. /\ todo \in Seq(Statements) /\ todo # << >> /\ "sqlerror" \notin Faults
        BY <1>7 DEF FailStatement, EndedInv, StatementsRun
    <2>2. 1 \in DOMAIN todo /\ Head(todo) = todo[1]
        BY <2>1, StatementTaken
    <2>3. /\ todo[1].sid \notin DOMAIN sessions /\ todo' = << >>
          /\ UNCHANGED <<pidMap, sessions>>
        BY <1>7, <2>1, <2>2 DEF FailStatement, Accepts, corrVars
    <2>4. \A n \in DOMAIN todo : todo[n].sid \notin DOMAIN sessions
        BY <2>2, <2>3 DEF EmptyInv
    <2>5. ASSUME NEW sid \in DOMAIN sessions'
          PROVE  (\E p \in DOMAIN pidMap' : pidMap'[p].sid = sid) \/ Ended(sid)'
        BY <2>3, <2>4 DEF EmptyInv, Ended
    <2> QED
        BY <2>3, <2>5 DEF EmptyInv
<1>8. CASE Crash
    BY <1>8 DEF Crash, StatementsRun
<1>9. CASE UNCHANGED vars
    BY <1>5, <1>9 DEF vars
<1>10. \A p \in DOMAIN execPids : execPids[p] \in Nat
    BY DEF OsInv, IsMap
<1>11. clock + 1 \in Nat /\ \A p \in Pids : Get(execPids, p, 0) \in Nat
    BY <1>10 DEF OsInv, Get
<1> QED
    BY <1>2, <1>3, <1>4, <1>5, <1>6, <1>7, <1>8, <1>9, <1>10, <1>11, HandledEvents DEF dbVars

\* Without terminals and filter, and where statements run, a session without
\* processes has its ended_at set once the event is handled, whatever records
\* are lost and whichever processes are killed.
THEOREM EmptySessionsAreEnded ==
    ASSUME StatementsRun, Unfiltered
    PROVE  Spec => []EmptyMeansEnded
<1>1. Spec => []EmptyInv
    BY InitEmptyInv, NextEmptyInv, OsInvAlways, SessionsAsProved, EndedInvAlways, PTL DEF Spec
<1>2. EmptyInv => EmptyMeansEnded
    BY DEF EmptyInv, EmptyMeansEnded, Idle
<1> QED
    BY <1>1, <1>2, PTL
=============================================================================
