--------------------------- MODULE EventLoopProofs ---------------------------
(***************************************************************************)
(* The event loop cannot sleep over a complete record, whatever the size   *)
(* of the ring, the number of streams and the order of the commits.        *)
(***************************************************************************)
EXTENDS EventLoop, TLAPS

LEMMA RingSteps ==
    ASSUME ring \in Seq({"busy", "data", "void"})
    PROVE  /\ ring = << >> => Head(Append(ring, "busy")) = "busy"
           /\ ring # << >> => Head(Append(ring, "busy")) = Head(ring)
           /\ Append(ring, "busy") \in Seq({"busy", "data", "void"})
           /\ Append(ring, "busy") # << >>
           /\ Len(Append(ring, "busy")) = Len(ring) + 1
           /\ ring # << >> => /\ Tail(ring) \in Seq({"busy", "data", "void"})
                              /\ Len(Tail(ring)) = Len(ring) - 1
                              /\ Len(ring) >= 1
           /\ \A i \in DOMAIN ring, c \in {"data", "void"} :
                /\ [ring EXCEPT ![i] = c] \in Seq({"busy", "data", "void"})
                /\ Len([ring EXCEPT ![i] = c]) = Len(ring)
                /\ i # 1 => Head([ring EXCEPT ![i] = c]) = Head(ring)
OBVIOUS

\* The state machine keeps to its types.
THEOREM EventLoopTypeOK == Spec => []TypeOK
<1>1. Init => TypeOK
    <2>1. << >> \in Seq({"busy", "data", "void"}) /\ Len(<< >>) = 0
        OBVIOUS
    <2>2. ASSUME Init PROVE marked \in 0..Len(ring) /\ conns \in 0..MaxConns
        BY <2>1, <2>2, WebAssumption DEF Init
    <2>3. ASSUME Init PROVE ring \in Seq({"busy", "data", "void"}) /\ Len(ring) <= RingCap
        BY <2>1, <2>3, RingCapAssumption DEF Init
    <2> QED
        BY <2>2, <2>3 DEF Init, TypeOK
<1>2. TypeOK /\ [Next]_vars => TypeOK'
    <2> SUFFICES ASSUME TypeOK, [Next]_vars PROVE TypeOK'
        OBVIOUS
    <2>1. CASE Reserve
        BY <2>1, RingSteps, RingCapAssumption DEF Reserve, TypeOK, wakeVars, webVars
    <2>2. ASSUME NEW i \in 1..RingCap, NEW content \in {"data", "void"}, Commit(i, content)
          PROVE  TypeOK'
        <3>1. ring' \in Seq({"busy", "data", "void"}) /\ Len(ring') = Len(ring)
            BY <2>2, RingSteps DEF Commit, TypeOK
        <3> QED
            BY <2>2, <3>1 DEF Commit, TypeOK, wakeVars, webVars
    <2>3. CASE Take
        <3>1. /\ ring' \in Seq({"busy", "data", "void"}) /\ Len(ring') = Len(ring) - 1
              /\ Len(ring) >= 1
            BY <2>3, RingSteps DEF Take, RecordWaits, TypeOK
        <3>2. marked' \in 0..Len(ring')
            BY <2>3, <3>1 DEF Take, TypeOK
        <3> QED
            BY <2>3, <3>1, <3>2, RingCapAssumption DEF Take, TypeOK, wakeVars, webVars
    <2>4. CASE StartLoop \/ SelectCancelled \/ SelectReadable \/ EndDrain \/ ClearReady
        BY <2>4 DEF StartLoop, SelectCancelled, SelectReadable, EndDrain, ClearReady, TypeOK,
                    ringVars, wakeVars, webVars
    <2>5. CASE TaskStep
        BY <2>5 DEF TaskStep, CtrlC, WebServes, WebFails, WebSignal, WebEnds, TypeOK,
                    ringVars, wakeVars, webVars
    <2>6. CASE Connect \/ Disconnect \/ Interrupt \/ Terminate
        <3>1. MaxConns \in Nat /\ conns \in 0..MaxConns
            BY WebAssumption DEF TypeOK
        <3>2. conns' \in 0..MaxConns
            BY <2>6, <3>1 DEF Connect, Disconnect, Interrupt, Terminate, webVars
        <3>3. loop' \in {loop, "killed"} /\ signals' \subseteq signals \cup {"int", "term"}
            BY <2>6 DEF Connect, Disconnect, Interrupt, Terminate
        <3>4. UNCHANGED <<ringVars, wakeVars, cancelled, web>>
            BY <2>6 DEF Connect, Disconnect, Interrupt, Terminate, webVars
        <3> QED
            BY <3>2, <3>3, <3>4 DEF TypeOK, ringVars, wakeVars
    <2>7. CASE UNCHANGED vars
        BY <2>7 DEF vars, TypeOK, ringVars, wakeVars, webVars
    <2> QED
        BY <2>1, <2>2, <2>3, <2>4, <2>5, <2>6, <2>7 DEF Next, LoopStep
<1> QED
    BY <1>1, <1>2, PTL DEF Spec

-----------------------------------------------------------------------------
\* NoLostWakeup is not inductive: while the loop is between its last look at
\* the ring and clear_ready, a record that completes must have set fresh.
WakeInv ==
    /\ NoLostWakeup
    /\ loop = "clear" /\ RecordWaits => ready /\ fresh

LEMMA NextWakeInv == TypeOK /\ WakeInv /\ [Next]_vars => WakeInv'
<1> SUFFICES ASSUME TypeOK, WakeInv, [Next]_vars PROVE WakeInv'
    OBVIOUS
<1>1. CASE Reserve
    <2>1. RecordWaits' => RecordWaits
        BY <1>1, RingSteps DEF Reserve, RecordWaits, TypeOK
    <2> QED
        BY <1>1, <2>1 DEF Reserve, WakeInv, NoLostWakeup, wakeVars
<1>2. ASSUME NEW i \in 1..RingCap, NEW content \in {"data", "void"}, Commit(i, content)
      PROVE  WakeInv'
    <2>1. CASE i = 1
        BY <1>2, <2>1 DEF Commit, WakeInv, NoLostWakeup
    <2>2. CASE i # 1
        <3>1. RecordWaits' => RecordWaits
            BY <1>2, <2>2, RingSteps DEF Commit, RecordWaits, TypeOK
        <3> QED
            BY <1>2, <2>2, <3>1 DEF Commit, WakeInv, NoLostWakeup, wakeVars
    <2> QED
        BY <2>1, <2>2
<1>3. CASE Take \/ SelectReadable \/ SelectCancelled
    BY <1>3 DEF Take, SelectReadable, SelectCancelled, WakeInv, NoLostWakeup
<1>4. CASE StartLoop
    BY <1>4 DEF StartLoop, WakeInv, NoLostWakeup, RecordWaits, ringVars
<1>5. CASE EndDrain
    BY <1>5 DEF EndDrain, WakeInv, NoLostWakeup, RecordWaits, ringVars
<1>6. CASE ClearReady
    BY <1>6 DEF ClearReady, WakeInv, NoLostWakeup, RecordWaits, ringVars
<1>7. CASE TaskStep \/ Connect \/ Disconnect \/ Interrupt \/ UNCHANGED vars
    BY <1>7 DEF TaskStep, CtrlC, WebServes, WebFails, WebSignal, WebEnds, Connect, Disconnect,
                Interrupt, vars, WakeInv, NoLostWakeup, RecordWaits, ringVars, wakeVars
<1>8. CASE Terminate
    BY <1>8 DEF Terminate, WakeInv, NoLostWakeup, RecordWaits, ringVars, wakeVars
<1> QED
    BY <1>1, <1>2, <1>3, <1>4, <1>5, <1>6, <1>7, <1>8 DEF Next, LoopStep

\* Whenever the loop waits for the descriptor, the wakeup for the oldest
\* record is still to come: no record is left behind in a sleeping loop.
THEOREM EventLoopNoLostWakeup == Spec => []NoLostWakeup
<1>1. Init => WakeInv
    BY DEF Init, WakeInv, NoLostWakeup
<1>2. TypeOK /\ WakeInv /\ TypeOK' /\ [Next]_vars => WakeInv'
    BY NextWakeInv
<1>3. WakeInv => NoLostWakeup
    BY DEF WakeInv
<1> QED
    BY <1>1, <1>2, <1>3, EventLoopTypeOK, PTL DEF Spec
=============================================================================
