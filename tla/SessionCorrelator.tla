-------------------------- MODULE SessionCorrelator --------------------------
(***************************************************************************)
(* The session correlator (shspectr/src/session.rs): which session each    *)
(* event belongs to, decided from the events alone.  It keeps a map of     *)
(* tracked processes and a map from terminals to sessions.                 *)
(*                                                                         *)
(* The module assumes nothing about the stream of events: the ring buffer  *)
(* drops records when it is full, processes die without an exit event, and *)
(* pids are recycled, so every sequence of events can reach the            *)
(* correlator.  A restart of the recorder begins with empty maps.          *)
(*                                                                         *)
(* Session ids are 1, 2, ...: generate_session_id draws from 36^8 random   *)
(* names, which the model takes never to collide.  completed is history:   *)
(* the sessions on_exit has reported complete.                             *)
(***************************************************************************)
EXTENDS BpfMap

CONSTANTS
    Pids,        \* process ids
    Ttys,        \* terminal numbers; 0 stands for no terminal
    Comms,       \* process names
    AncestorCap, \* how many levels ancestor_comms climbs (32 in the code)
    MaxSessions  \* bound on generated session ids, for model checking

ASSUME TtysAssumption == Ttys \subseteq Nat /\ 0 \in Ttys
ASSUME AncestorCapAssumption == AncestorCap \in Nat
ASSUME MaxSessionsAssumption == MaxSessions \in Nat

VARIABLES
    pidMap,      \* pid -> what is known of the tracked process
    ttySessions, \* terminal -> session
    used,        \* session ids generated so far
    completed    \* sessions reported complete (history)

corrVars == <<pidMap, ttySessions, used, completed>>

-----------------------------------------------------------------------------
EventInfos == [pid : Pids, ppid : Pids, tty : Ttys, comm : Comms]
ProcessInfos == [sid : Nat, ppid : Pids, tty : Ttys, comm : Comms]

Tracked(pid) == pid \in DOMAIN pidMap

\* generate_session_id.
Fresh == used + 1

\* MUTANT of ResolveSession: a new terminal inherits the parent's session.
ResolveSessionInherits(info) ==
    LET parents == IF Tracked(info.ppid) THEN pidMap[info.ppid].sid ELSE Fresh
    IN IF info.tty # 0 THEN Get(ttySessions, info.tty, parents) ELSE parents

\* resolve_session: the terminal's session, else the parent's, else a new one.
ResolveSession(info) ==
    IF info.tty # 0 THEN Get(ttySessions, info.tty, Fresh)
    ELSE IF Tracked(info.ppid) THEN pidMap[info.ppid].sid
    ELSE Fresh

\* The session an event belongs to.
SessionOf(info) ==
    IF Tracked(info.pid) THEN pidMap[info.pid].sid ELSE ResolveSession(info)

Entry(info, sid) ==
    [sid |-> sid, ppid |-> info.ppid, tty |-> info.tty, comm |-> info.comm]

\* The map after resolve_session has been asked about an untracked process.
TtySessionsAfter(info) ==
    IF Tracked(info.pid) \/ info.tty = 0 THEN ttySessions
    ELSE Put(ttySessions, info.tty, ResolveSession(info))
UsedAfter(info) == IF SessionOf(info) = Fresh THEN Fresh ELSE used

\* session_for: tracks the process if it was not, and refreshes nothing.
PidMapAfterIo(info) ==
    IF Tracked(info.pid) THEN pidMap
    ELSE Put(pidMap, info.pid, Entry(info, SessionOf(info)))

\* MUTANT of PidMapAfterExec: every exec resolves its session anew.
PidMapAfterExecAnew(info) == Put(pidMap, info.pid, Entry(info, ResolveSession(info)))

\* on_exec: a process that is tracked stays in its session, whatever its
\* terminal and parent are now; everything else about it is replaced.
PidMapAfterExec(info) == Put(pidMap, info.pid, Entry(info, SessionOf(info)))

\* MUTANT of SessionComplete: only children keep a session open.
SessionCompleteChildless(info) ==
    LET leaving == PidMapAfterIo(info)[info.pid] IN
    /\ leaving.tty = 0
    /\ \A p \in DOMAIN pidMap \ {info.pid} : pidMap[p].ppid # info.pid
\* MUTANT of SessionComplete: asked before the process is removed.
SessionCompleteTooSoon(info) ==
    LET leaving == PidMapAfterIo(info)[info.pid] IN
    /\ leaving.tty = 0
    /\ \A p \in DOMAIN PidMapAfterIo(info) : PidMapAfterIo(info)[p].sid # leaving.sid

\* on_exit, after session_for: is the session over?
SessionComplete(info) ==
    LET leaving == PidMapAfterIo(info)[info.pid] IN
    /\ leaving.tty = 0
    /\ \A p \in DOMAIN pidMap \ {info.pid} : pidMap[p].sid # leaving.sid

\* ancestor_comms: the names found climbing the ppid chain of the map m.
\* climb[n] is the set holding the n-th ancestor, empty once the chain ends
\* at an untracked process or at one that is its own parent.
AncestorComms(m, pid) ==
    LET Parent(q) == IF q \in DOMAIN m /\ m[q].ppid # q /\ m[q].ppid \in DOMAIN m
                     THEN {m[q].ppid} ELSE {}
        climb[n \in 0..AncestorCap] ==
            IF n = 0 THEN {pid} ELSE UNION {Parent(q) : q \in climb[n - 1]}
    IN {m[q].comm : q \in UNION {climb[n] : n \in 1..AncestorCap}}

-----------------------------------------------------------------------------
CorrInit ==
    /\ pidMap = EmptyMap
    /\ ttySessions = EmptyMap
    /\ used = 0
    /\ completed = {}

Resolve(info) ==
    /\ UsedAfter(info) <= MaxSessions
    /\ used' = UsedAfter(info)
    /\ ttySessions' = TtySessionsAfter(info)

OnExec(info) ==
    /\ Resolve(info)
    /\ pidMap' = PidMapAfterExec(info)
    /\ UNCHANGED completed

OnIo(info) ==
    /\ Resolve(info)
    /\ pidMap' = PidMapAfterIo(info)
    /\ UNCHANGED completed

\* handle_exit_event: session_for and then on_exit.
OnExit(info) ==
    /\ Resolve(info)
    /\ pidMap' = Remove(pidMap, info.pid)
    /\ completed' = IF SessionComplete(info) THEN completed \cup {SessionOf(info)}
                    ELSE completed

\* A new run of the recorder: SessionCorrelator::default().
Restart ==
    /\ pidMap' = EmptyMap
    /\ ttySessions' = EmptyMap
    /\ UNCHANGED <<used, completed>>

CorrNext ==
    \/ Restart
    \/ \E info \in EventInfos : OnExec(info) \/ OnIo(info) \/ OnExit(info)

CorrSpec == CorrInit /\ [][CorrNext]_corrVars
-----------------------------------------------------------------------------
CorrTypeOK ==
    /\ IsMap(pidMap, Pids, ProcessInfos)
    /\ IsMap(ttySessions, Ttys \ {0}, Nat)
    /\ used \in 0..MaxSessions
    /\ completed \subseteq 1..used

\* The sessions some terminal leads to.
TtySessionIds == {ttySessions[t] : t \in DOMAIN ttySessions}

\* Two terminals never lead to the same session.
TtySessionsDistinct ==
    \A s, t \in DOMAIN ttySessions : ttySessions[s] = ttySessions[t] => s = t

\* A session that was reported complete and that no terminal leads to stays
\* without processes: nothing is added to a session whose ended_at is set,
\* in whatever order events come and whichever of them are lost.
CompletedStaysEmpty ==
    \A p \in DOMAIN pidMap : pidMap[p].sid \in completed => pidMap[p].sid \in TtySessionIds

\* A process stays in one session for as long as it is tracked.
SessionIsStable ==
    [][\A p \in DOMAIN pidMap \cap DOMAIN pidMap' : pidMap'[p].sid = pidMap[p].sid]_corrVars
=============================================================================
