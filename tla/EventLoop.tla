------------------------------ MODULE EventLoop ------------------------------
(***************************************************************************)
(* The recorder's event loop (consume_events in shspectr/src/ebpf.rs): it  *)
(* sleeps until the ring buffer's descriptor is readable, drains the ring, *)
(* clears the readiness and sleeps again, and leaves when the cancellation *)
(* token is set, by the Ctrl+C task or by the end of the web server.       *)
(*                                                                         *)
(* The ring is shared with the programs of the probe.  A slot is "busy"    *)
(* from reserve to submit or discard, which happen in any order on         *)
(* different CPUs; the reader stops at a busy slot.  The kernel wakes the  *)
(* reader only for the commit of the slot the reader is at, so the loop    *)
(* must not go to sleep over a complete record: nothing would wake it.     *)
(* Readiness is tokio's: a flag that an event sets and that clear_ready    *)
(* resets, unless an event came since the guard was taken.                 *)
(*                                                                         *)
(* marked is a ghost: the place in the ring of one arbitrary record, 0 if  *)
(* none is followed.                                                       *)
(***************************************************************************)
EXTENDS Naturals, Sequences

CONSTANTS
    RingCap,  \* slots of the ring buffer
    Web,      \* is the web server enabled (--web)?
    MaxConns  \* live streams open at a time

ASSUME RingCapAssumption == RingCap \in Nat \ {0}
ASSUME WebAssumption == Web \in BOOLEAN /\ MaxConns \in Nat

VARIABLES
    ring,      \* unread slots, oldest first
    marked,    \* ghost
    ready,     \* readiness of the descriptor, as the runtime knows it
    fresh,     \* has an event come since the loop took its guard?
    loop,      \* where the event loop is
    cancelled, \* the cancellation token
    web,       \* the task that runs the web server
    conns,     \* open connections with a live event stream
    signals    \* signals sent so far

ringVars == <<ring, marked>>
wakeVars == <<ready, fresh>>
webVars == <<web, conns>>
vars == <<ringVars, wakeVars, loop, cancelled, webVars, signals>>

Running == loop \notin {"stopped", "killed"}
Stopped == ~Running

\* Is the oldest slot committed?
RecordWaits == ring # << >> /\ Head(ring) # "busy"
-----------------------------------------------------------------------------
Init ==
    /\ ring = << >>
    /\ marked = 0
    /\ ready = FALSE /\ fresh = FALSE
    /\ loop = "start"
    /\ cancelled = FALSE
    /\ web = IF Web THEN "starting" ELSE "off"
    /\ conns = 0
    /\ signals = {}

\* A program of the probe reserves a slot, if there is one.
Reserve ==
    /\ Len(ring) < RingCap
    /\ ring' = Append(ring, "busy")
    /\ marked' \in {marked, IF marked = 0 THEN Len(ring) + 1 ELSE marked}
    /\ UNCHANGED <<wakeVars, loop, cancelled, webVars, signals>>

\* It submits ("data") or discards ("void") the slot.
Commit(i, content) ==
    /\ i \in DOMAIN ring /\ ring[i] = "busy"
    /\ ring' = [ring EXCEPT ![i] = content]
    /\ IF i = 1 THEN ready' = TRUE /\ fresh' = TRUE ELSE UNCHANGED wakeVars
    /\ UNCHANGED <<marked, loop, cancelled, webVars, signals>>
-----------------------------------------------------------------------------
\* AsyncFd::new: the descriptor is readable at once if the ring is in use.
StartLoop ==
    /\ loop = "start"
    /\ loop' = "select"
    /\ ready' = (ready \/ ring # << >>)
    /\ UNCHANGED <<ringVars, fresh, cancelled, webVars, signals>>

\* The biased select looks at the token first.
SelectCancelled ==
    /\ loop = "select" /\ cancelled
    /\ loop' = "stopped"
    /\ UNCHANGED <<ringVars, wakeVars, cancelled, webVars, signals>>

\* MUTANT of SelectReadable: select without "biased".
SelectReadableUnbiased ==
    /\ loop = "select" /\ ready
    /\ loop' = "drain"
    /\ fresh' = FALSE
    /\ UNCHANGED <<ringVars, ready, cancelled, webVars, signals>>

SelectReadable ==
    /\ loop = "select" /\ ~cancelled /\ ready
    /\ loop' = "drain"
    /\ fresh' = FALSE
    /\ UNCHANGED <<ringVars, ready, cancelled, webVars, signals>>

\* MUTANT of Take: one record for each wakeup.
TakeOne ==
    /\ loop = "drain" /\ RecordWaits
    /\ ring' = Tail(ring)
    /\ marked' = IF marked = 0 THEN 0 ELSE marked - 1
    /\ loop' = "clear"
    /\ UNCHANGED <<wakeVars, cancelled, webVars, signals>>

\* ring_buf.next() yields the oldest record, which is handled and released;
\* discarded slots are skipped.
Take ==
    /\ loop = "drain" /\ RecordWaits
    /\ ring' = Tail(ring)
    /\ marked' = IF marked = 0 THEN 0 ELSE marked - 1
    /\ UNCHANGED <<wakeVars, loop, cancelled, webVars, signals>>

\* next() yields nothing: the ring is empty or the next slot is still busy.
EndDrain ==
    /\ loop = "drain" /\ ~RecordWaits
    /\ loop' = "clear"
    /\ UNCHANGED <<ringVars, wakeVars, cancelled, webVars, signals>>

\* MUTANT of ClearReady: the readiness is cleared, event or no event.
ClearReadyAlways ==
    /\ loop = "clear"
    /\ loop' = "select"
    /\ ready' = FALSE
    /\ UNCHANGED <<ringVars, fresh, cancelled, webVars, signals>>

ClearReady ==
    /\ loop = "clear"
    /\ loop' = "select"
    /\ ready' = (ready /\ fresh)
    /\ UNCHANGED <<ringVars, fresh, cancelled, webVars, signals>>

LoopStep ==
    \/ StartLoop
    \/ SelectCancelled
    \/ SelectReadable
    \/ Take
    \/ EndDrain
    \/ ClearReady
-----------------------------------------------------------------------------
\* The Ctrl+C task.
CtrlC ==
    /\ Running /\ "int" \in signals /\ ~cancelled
    /\ cancelled' = TRUE
    /\ UNCHANGED <<ringVars, wakeVars, loop, webVars, signals>>

\* start_server: the database opens and the address binds, or the task ends.
WebServes ==
    /\ Running /\ web = "starting"
    /\ web' = "serving"
    /\ UNCHANGED <<ringVars, wakeVars, loop, cancelled, conns, signals>>

WebFails ==
    /\ Running /\ web = "starting"
    /\ web' = "failed"
    /\ cancelled' = TRUE
    /\ UNCHANGED <<ringVars, wakeVars, loop, conns, signals>>

\* shutdown_signal: no new connection is accepted from here on.
WebSignal ==
    /\ Running /\ web = "serving" /\ signals # {}
    /\ web' = "closing"
    /\ UNCHANGED <<ringVars, wakeVars, loop, cancelled, conns, signals>>

\* MUTANT of WebEnds: the end of the server does not cancel the loop.
WebEndsQuietly ==
    /\ Running /\ web = "closing" /\ conns = 0
    /\ web' = "closed"
    /\ UNCHANGED <<ringVars, wakeVars, loop, cancelled, conns, signals>>

\* Graceful shutdown is over when the last connection is.
WebEnds ==
    /\ Running /\ web = "closing" /\ conns = 0
    /\ web' = "closed"
    /\ cancelled' = TRUE
    /\ UNCHANGED <<ringVars, wakeVars, loop, conns, signals>>

\* A live stream has no end of its own: the browser opens and closes it.
Connect ==
    /\ Running /\ web = "serving" /\ conns < MaxConns
    /\ conns' = conns + 1
    /\ UNCHANGED <<ringVars, wakeVars, loop, cancelled, web, signals>>
Disconnect ==
    /\ Running /\ conns > 0
    /\ conns' = conns - 1
    /\ UNCHANGED <<ringVars, wakeVars, loop, cancelled, web, signals>>

\* SIGINT, once its task listens; SIGTERM, which kills the process unless the
\* web server has installed its handler.
Interrupt ==
    /\ Running /\ "int" \notin signals
    /\ signals' = signals \cup {"int"}
    /\ UNCHANGED <<ringVars, wakeVars, loop, cancelled, webVars>>
Terminate ==
    /\ Running /\ "term" \notin signals
    /\ signals' = signals \cup {"term"}
    /\ loop' = IF web \in {"serving", "closing", "closed"} THEN loop ELSE "killed"
    /\ UNCHANGED <<ringVars, wakeVars, cancelled, webVars>>

TaskStep == CtrlC \/ WebServes \/ WebFails \/ WebSignal \/ WebEnds
-----------------------------------------------------------------------------
Next ==
    \/ Reserve
    \/ \E i \in 1..RingCap, content \in {"data", "void"} : Commit(i, content)
    \/ LoopStep
    \/ TaskStep
    \/ Connect \/ Disconnect
    \/ Interrupt \/ Terminate

\* The threads of the runtime keep running, and so does a probe program that
\* has reserved a slot.  Nothing makes the browser leave, or the probe pause.
Fairness ==
    /\ WF_vars(LoopStep)
    /\ WF_vars(CtrlC)
    /\ WF_vars(WebServes \/ WebFails)
    /\ WF_vars(WebSignal)
    /\ WF_vars(WebEnds)
    /\ \A i \in 1..RingCap : WF_vars(\E content \in {"data", "void"} : Commit(i, content))

Spec == Init /\ [][Next]_vars /\ Fairness
-----------------------------------------------------------------------------
\* Types; and once the web server's task is over the token is set, so that the
\* event loop never outlives it unnoticed.
TypeOK ==
    /\ ring \in Seq({"busy", "data", "void"}) /\ Len(ring) <= RingCap
    /\ marked \in 0..Len(ring)
    /\ ready \in BOOLEAN /\ fresh \in BOOLEAN
    /\ loop \in {"start", "select", "drain", "clear", "stopped", "killed"}
    /\ cancelled \in BOOLEAN
    /\ web \in {"off", "starting", "serving", "closing", "closed", "failed"}
    /\ web \in {"closed", "failed"} => cancelled
    /\ conns \in 0..MaxConns
    /\ signals \subseteq {"int", "term"}

\* The loop never sleeps over a complete record: whenever the select waits
\* for the descriptor, the oldest slot is missing or not committed yet, so a
\* wakeup is still to come.
NoLostWakeup == loop = "select" /\ ~ready => ~RecordWaits

\* Every record that is reserved leaves the ring, unless the loop stops.
EveryRecordTaken == marked # 0 ~> marked = 0 \/ Stopped

\* The loop finds the ring empty, or a busy slot, again and again.
Drains == []<>(loop = "clear" \/ Stopped)

\* Once cancelled the loop stops, if the probe ever lets it finish a drain.
\* Ctrl+C and SIGTERM stop the recorder if moreover the browsers leave: the
\* web server's shutdown waits for live streams, which have no end.
StopsWhenAsked ==
    Drains => /\ cancelled ~> Stopped
              /\ []<>(conns = 0) => (signals # {} ~> Stopped)
=============================================================================
