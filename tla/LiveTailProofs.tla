--------------------------- MODULE LiveTailProofs ----------------------------
(***************************************************************************)
(* The live view shows every row once and in order, skips none up to its   *)
(* mark, and keeps the promise of Tail, whatever the limit of a poll, the  *)
(* size of the table and the number of streams that break.                 *)
(***************************************************************************)
EXTENDS LiveTail, TLAPS

Event == [rows : SUBSET RowIds, id : RowIds]

\* What was received is at or below Last-Event-ID, and nothing at or below
\* it is missing, also between two streams.
ReceivedToLastId ==
    /\ lastId = 0 => shown = << >>
    /\ \A i \in Shown : i <= lastId
    /\ \A i \in DOMAIN selected :
         base < i /\ i <= lastId /\ selected[i] /\ i \notin settled => i \in Shown

\* The events on the wire continue what was received, up to the mark.
WireContinues ==
    /\ wire # << >> => stream
    /\ \A n \in DOMAIN wire :
         /\ lastId < wire[n].id /\ wire[n].id <= lastSeen
         /\ \A i \in wire[n].rows :
              /\ lastId < i /\ i <= wire[n].id
              /\ i \in DOMAIN selected /\ (selected[i] \/ i \in settled)
    /\ \A m, n \in DOMAIN wire :
         m < n => /\ wire[m].id < wire[n].id
                  /\ \A i \in wire[n].rows : wire[m].id < i

TailInv ==
    TypeOK /\ ShownOnceInOrder /\ NothingSkipped /\ ReceivedToLastId /\ WireContinues

-----------------------------------------------------------------------------
LEMMA Received ==
    ASSUME shown \in Seq(SUBSET RowIds), NEW rows \in SUBSET RowIds
    PROVE  /\ Append(shown, rows) \in Seq(SUBSET RowIds)
           /\ Append(shown, rows) # << >>
           /\ DOMAIN Append(shown, rows) = DOMAIN shown \cup {Len(shown) + 1}
           /\ \A n \in DOMAIN shown : n < Len(shown) + 1 /\ Append(shown, rows)[n] = shown[n]
           /\ Append(shown, rows)[Len(shown) + 1] = rows
OBVIOUS

LEMMA Sent ==
    ASSUME wire \in Seq(Event), NEW e \in Event
    PROVE  /\ Append(wire, e) \in Seq(Event)
           /\ DOMAIN Append(wire, e) = DOMAIN wire \cup {Len(wire) + 1}
           /\ \A n \in DOMAIN wire : n < Len(wire) + 1 /\ Append(wire, e)[n] = wire[n]
           /\ Append(wire, e)[Len(wire) + 1] = e
OBVIOUS

LEMMA TakenOff ==
    ASSUME wire \in Seq(Event), wire # << >>
    PROVE  /\ Head(wire) = wire[1] /\ wire[1] \in Event /\ 1 \in DOMAIN wire
           /\ Tail(wire) \in Seq(Event)
           /\ \A n \in DOMAIN Tail(wire) : /\ n + 1 \in DOMAIN wire /\ 1 < n + 1
                                           /\ Tail(wire)[n] = wire[n + 1]
           /\ \A n \in DOMAIN wire : n = 1 \/ n - 1 \in DOMAIN Tail(wire)
OBVIOUS

LEMMA Nothing ==
    /\ << >> \in Seq(Event) /\ DOMAIN << >> = {}
    /\ << >> \in Seq(SUBSET RowIds)
OBVIOUS

LEMMA Typed ==
    ASSUME TypeOK
    PROVE  /\ selected \in Seq(BOOLEAN) /\ Len(selected) \in Nat
           /\ DOMAIN selected = 1..Len(selected) /\ Len(selected) <= MaxRows
           /\ shown \in Seq(SUBSET RowIds) /\ wire \in Seq(Event)
           /\ lastSeen \in Nat /\ lastSeen <= Len(selected)
           /\ lastId \in Nat /\ lastId <= lastSeen
           /\ base \in Nat /\ base <= Len(selected)
<1>1. /\ selected \in Seq(BOOLEAN) /\ Len(selected) <= MaxRows
      /\ shown \in Seq(SUBSET RowIds) /\ wire \in Seq(Event)
      /\ lastSeen \in 0..Len(selected) /\ lastId \in 0..lastSeen /\ base \in 0..Len(selected)
    BY DEF TypeOK, MaxEventId, Event
<1>2. Len(selected) \in Nat /\ DOMAIN selected = 1..Len(selected)
    BY <1>1
<1> QED
    BY <1>1, <1>2

LEMMA ShownAreRows ==
    ASSUME TypeOK
    PROVE  \A i \in Shown : i \in Nat
<1>1. \A n \in DOMAIN shown : shown[n] \in SUBSET RowIds
    BY Typed
<1> QED
    BY <1>1 DEF Shown, RowIds

\* The event that a poll sends.
LEMMA Polled ==
    ASSUME TypeOK, NEW last \in Select(lastSeen)
    PROVE  /\ last \in 1..MaxEventId /\ last \in Nat /\ lastSeen < last
           /\ [rows |-> ListSince(lastSeen, last), id |-> last] \in Event
           /\ \A i \in ListSince(lastSeen, last) :
                /\ i \in DOMAIN selected /\ i \in Nat /\ selected[i]
                /\ lastSeen < i /\ i <= last
<1>1. /\ DOMAIN selected \subseteq RowIds /\ DOMAIN selected = 1..MaxEventId
      /\ lastSeen \in Nat /\ MaxEventId \in Nat
    BY Typed, BoundsAssumption DEF RowIds, MaxEventId
<1>2. last \in DOMAIN selected /\ lastSeen < last
    BY <1>1 DEF Select
<1>3. \A i \in ListSince(lastSeen, last) :
        i \in DOMAIN selected /\ i \in Nat /\ selected[i] /\ lastSeen < i /\ i <= last
    BY <1>1 DEF Select, ListSince
<1>4. ListSince(lastSeen, last) \in SUBSET RowIds /\ last \in RowIds
    BY <1>1, <1>2, <1>3
<1> QED
    BY <1>1, <1>2, <1>3, <1>4 DEF Event

\* Types are kept.
LEMMA TypeStep == TypeOK /\ WireContinues /\ [Next]_vars => TypeOK'
<1> SUFFICES ASSUME TypeOK, WireContinues, [Next]_vars PROVE TypeOK'
    OBVIOUS
<1>1. ASSUME NEW yes \in BOOLEAN, Insert(yes) PROVE TypeOK'
    <2>1. selected' \in Seq(BOOLEAN) /\ Len(selected') = Len(selected) + 1
          /\ DOMAIN selected \subseteq DOMAIN selected'
        BY <1>1 DEF Insert, TypeOK
    <2> QED
        BY <1>1, <2>1, BoundsAssumption DEF Insert, TypeOK, MaxEventId, browserVars
<1>2. ASSUME NEW i \in 1..MaxRows, Backfill(i) PROVE TypeOK'
    <2>1. selected' \in Seq(BOOLEAN) /\ Len(selected') = Len(selected)
          /\ DOMAIN selected' = DOMAIN selected
        BY <1>2 DEF Backfill, TypeOK
    <2> QED
        BY <1>2, <2>1 DEF Backfill, TypeOK, MaxEventId, browserVars
<1>3. CASE Resume \/ StartAtNewest \/ StartBlind
    <2>1. UNCHANGED <<selected, settled, wire, shown, lastId, breaks>> /\ stream' = TRUE
        BY <1>3 DEF Resume, StartAtNewest, StartBlind, Start, tableVars, browserVars
    <2>2. Len(selected) \in Nat /\ lastId \in Nat /\ lastId <= Len(selected) /\ base \in 0..Len(selected)
        BY DEF TypeOK, MaxEventId
    <2>3. lastSeen' \in 0..Len(selected) /\ lastId <= lastSeen' /\ base' \in 0..Len(selected)
        BY <1>3, <2>2 DEF Resume, StartAtNewest, StartBlind, Start, MaxEventId
    <2> QED
        BY <2>1, <2>2, <2>3 DEF TypeOK, MaxEventId
<1>4. CASE PollOk
    <2>1. PICK last \in Select(lastSeen) :
             /\ lastSeen' = last
             /\ wire' = Append(wire, [rows |-> ListSince(lastSeen, last), id |-> last])
        BY <1>4 DEF PollOk
    <2>2. last \in 1..MaxEventId /\ lastSeen < last
        BY <2>1, Polled
    <2>3. [rows |-> ListSince(lastSeen, last), id |-> last] \in Event
        BY <2>1, Polled
    <2>4. wire' \in Seq(Event)
        BY <2>1, <2>3, Sent DEF TypeOK, Event
    <2> QED
        BY <1>4, <2>1, <2>2, <2>4 DEF PollOk, TypeOK, MaxEventId, tableVars, browserVars, Event
<1>5. CASE Receive
    <2>1. wire \in Seq(Event) /\ wire # << >>
        BY <1>5 DEF Receive, TypeOK, Event
    <2>2. wire' \in Seq(Event) /\ Head(wire) \in Event /\ Head(wire).id <= lastSeen
        BY <1>5, <2>1, TakenOff DEF Receive, WireContinues
    <2>3. shown' \in Seq(SUBSET RowIds)
        BY <1>5, <2>2, Received DEF Receive, TypeOK, Event
    <2> QED
        BY <1>5, <2>2, <2>3, BoundsAssumption
        DEF Receive, TypeOK, MaxEventId, tableVars, Event, RowIds
<1>6. CASE Break
    <2>1. UNCHANGED <<selected, settled, lastSeen, shown, lastId, base>> /\ stream' = FALSE
        BY <1>6 DEF Break, tableVars, browserVars
    <2>2. wire' \in Seq(Event) /\ breaks' \in 0..MaxBreaks
        BY <1>6, Nothing, BoundsAssumption DEF Break, TypeOK
    <2> QED
        BY <2>1, <2>2 DEF TypeOK, MaxEventId, Event
<1>7. CASE UNCHANGED vars
    BY <1>7 DEF vars, TypeOK, MaxEventId, tableVars, browserVars
<1> QED
    BY <1>1, <1>2, <1>3, <1>4, <1>5, <1>6, <1>7 DEF Next

\* What was received stays in order, and complete up to Last-Event-ID.
LEMMA ReceivedStep ==
    TailInv /\ TypeOK' /\ [Next]_vars => ShownOnceInOrder' /\ ReceivedToLastId'
<1> SUFFICES ASSUME TailInv, TypeOK', [Next]_vars
             PROVE  ShownOnceInOrder' /\ ReceivedToLastId'
    OBVIOUS
<1>0. TypeOK /\ wire \in Seq(Event) /\ ShownOnceInOrder /\ ReceivedToLastId
    BY DEF TailInv, TypeOK, Event
<1>1. ASSUME NEW yes \in BOOLEAN, Insert(yes) PROVE ReceivedToLastId'
    <2>1. /\ DOMAIN selected' = DOMAIN selected \cup {Len(selected) + 1}
          /\ \A i \in DOMAIN selected : selected'[i] = selected[i]
          /\ lastId < Len(selected) + 1
        BY <1>0, <1>1 DEF Insert, TypeOK, MaxEventId
    <2> QED
        BY <1>0, <1>1, <2>1 DEF Insert, ReceivedToLastId, Shown, browserVars, TypeOK
<1>2. ASSUME NEW i \in 1..MaxRows, Backfill(i) PROVE ReceivedToLastId'
    BY <1>0, <1>2 DEF Backfill, ReceivedToLastId, Shown, browserVars, TypeOK
<1>3. ASSUME Resume \/ PollOk \/ Break \/ UNCHANGED vars PROVE ReceivedToLastId'
    <2>1. UNCHANGED <<selected, settled, shown, lastId, base>>
        BY <1>3 DEF Resume, Start, PollOk, Break, vars, tableVars, browserVars
    <2> QED
        BY <1>0, <2>1 DEF ReceivedToLastId, Shown
<1>4. ASSUME StartAtNewest \/ StartBlind PROVE ReceivedToLastId'
    <2>1. UNCHANGED <<selected, settled, shown, lastId>> /\ lastId = 0
        BY <1>4 DEF StartAtNewest, StartBlind, Start, tableVars, browserVars
    <2>2. \A i \in DOMAIN selected : ~(i <= lastId)
        BY <1>0, <2>1 DEF TypeOK
    <2> QED
        BY <1>0, <2>1, <2>2 DEF ReceivedToLastId, Shown
<1>5. CASE Receive
    <2> DEFINE e == Head(wire)
    <2>1. /\ e \in Event /\ e = wire[1] /\ 1 \in DOMAIN wire /\ stream
          /\ shown' = Append(shown, e.rows) /\ lastId' = e.id
          /\ UNCHANGED <<selected, settled, base>>
        BY <1>0, <1>5, TakenOff DEF Receive, TailInv, WireContinues, tableVars
    <2>2. e.rows \in SUBSET RowIds /\ e.id \in Nat /\ e.id > 0 /\ lastId < e.id /\ e.id <= lastSeen
        BY <2>1 DEF Event, RowIds, TailInv, WireContinues
    <2>3. \A i \in e.rows : lastId < i /\ i <= e.id
        BY <2>1 DEF TailInv, WireContinues
    <2> HIDE DEF e
    <2>4. Shown' = Shown \cup e.rows
        <3>1. /\ DOMAIN shown' = DOMAIN shown \cup {Len(shown) + 1}
              /\ \A n \in DOMAIN shown : shown'[n] = shown[n]
              /\ shown'[Len(shown) + 1] = e.rows
            BY <1>0, <2>1, <2>2, Received, Typed
        <3> QED
            BY <3>1 DEF Shown
    <2>5. \A i \in Shown : i \in Nat /\ i <= lastId
        BY <1>0, ShownAreRows DEF ReceivedToLastId
    <2>6. ShownOnceInOrder'
        <3> SUFFICES ASSUME NEW m \in DOMAIN shown', NEW n \in DOMAIN shown', m < n,
                            NEW i \in shown'[m], NEW j \in shown'[n]
                     PROVE  i < j
            BY DEF ShownOnceInOrder
        <3>0. /\ DOMAIN shown' = DOMAIN shown \cup {Len(shown) + 1}
              /\ \A k \in DOMAIN shown : k < Len(shown) + 1 /\ shown'[k] = shown[k]
              /\ shown'[Len(shown) + 1] = e.rows
              /\ \A k \in DOMAIN shown' : k \in Nat
            BY <1>0, <2>1, <2>2, Received, Typed
        <3>1. m \in DOMAIN shown /\ i \in shown[m]
          <4>1. m # Len(shown) + 1
              BY <3>0
          <4> QED
              BY <3>0, <4>1
        <3>2. CASE n \in DOMAIN shown
            BY <1>0, <3>0, <3>1, <3>2 DEF ShownOnceInOrder
        <3>3. CASE n = Len(shown) + 1
            <4>1. j \in e.rows
                BY <3>0, <3>3
            <4>2. i \in Shown
                BY <3>1 DEF Shown
            <4> QED
              <5>1. i \in Nat /\ i <= lastId
                  BY <2>5, <4>2
              <5>2. j \in Nat /\ lastId < j
                  BY <2>2, <2>3, <4>1 DEF RowIds
              <5>3. lastId \in Nat
                  BY <1>0 DEF TypeOK
              <5> QED
                  BY <5>1, <5>2, <5>3
        <3> QED
            BY <3>0, <3>2, <3>3
    <2>7. ASSUME NEW i \in DOMAIN selected, base < i, i <= e.id, selected[i], i \notin settled
          PROVE  i \in Shown \cup e.rows
        <3>1. i \in Shown \cup InFlight
          <4>1. i <= lastSeen
              BY <1>0, <2>2, <2>7, Typed
          <4> QED
              BY <1>0, <2>1, <2>7, <4>1 DEF TailInv, NothingSkipped
        <3>2. ASSUME NEW n \in DOMAIN wire, i \in wire[n].rows PROVE n = 1
            <4>1. n \in Nat /\ 1 <= n /\ i \in Nat
                BY <1>0, Typed
            <4>2. 1 < n => e.id < i
                BY <2>1, <3>2 DEF TailInv, WireContinues
            <4> QED
                BY <2>2, <2>7, <4>1, <4>2
        <3> QED
            BY <2>1, <3>1, <3>2 DEF InFlight
    <2>8. \A i \in Shown' : i <= lastId'
      <3>1. lastId \in Nat /\ \A i \in e.rows : i <= e.id
          BY <1>0, <2>3, Typed
      <3>2. \A i \in Shown : i <= e.id
          BY <2>2, <2>5, <3>1
      <3> QED
          BY <2>1, <2>4, <3>1, <3>2
    <2>9. lastId' # 0
        BY <2>1, <2>2
    <2> QED
        BY <2>1, <2>4, <2>6, <2>7, <2>8, <2>9 DEF ReceivedToLastId
<1>6. ASSUME ~Receive PROVE UNCHANGED shown
    BY <1>6 DEF Next, Insert, Backfill, Resume, StartAtNewest, StartBlind, Start, PollOk, Break,
                vars, browserVars
<1>7. ASSUME ~Receive PROVE ShownOnceInOrder'
    BY <1>0, <1>6, <1>7 DEF ShownOnceInOrder
<1> QED
    BY <1>1, <1>2, <1>3, <1>4, <1>5, <1>7 DEF Next

\* Up to the mark nothing is missing.
LEMMA MarkStep == TailInv /\ TypeOK' /\ [Next]_vars => NothingSkipped'
<1> SUFFICES ASSUME TailInv, TypeOK', [Next]_vars PROVE NothingSkipped'
    OBVIOUS
<1>0. TypeOK /\ wire \in Seq(Event) /\ NothingSkipped /\ ReceivedToLastId /\ WireContinues
    BY DEF TailInv, TypeOK, Event
<1>1. ASSUME NEW yes \in BOOLEAN, Insert(yes) PROVE NothingSkipped'
    <2>1. /\ DOMAIN selected' = DOMAIN selected \cup {Len(selected) + 1}
          /\ \A i \in DOMAIN selected : selected'[i] = selected[i]
          /\ ~(Len(selected) + 1 <= lastSeen)
        BY <1>0, <1>1 DEF Insert, TypeOK, MaxEventId
    <2>2. UNCHANGED <<settled, stream, lastSeen, wire, shown, base>>
        BY <1>1 DEF Insert, browserVars
    <2> QED
        BY <1>0, <2>1, <2>2 DEF NothingSkipped, Shown, InFlight
<1>2. ASSUME NEW i \in 1..MaxRows, Backfill(i) PROVE NothingSkipped'
    <2>1. UNCHANGED <<stream, lastSeen, wire, shown, base>>
        BY <1>2 DEF Backfill, browserVars
    <2>2. /\ settled' = settled \cup {i} /\ DOMAIN selected' = DOMAIN selected
          /\ \A j \in DOMAIN selected : j # i => selected'[j] = selected[j]
        BY <1>0, <1>2 DEF Backfill, TypeOK
    <2> QED
        BY <1>0, <2>1, <2>2 DEF NothingSkipped, Shown, InFlight
<1>3. CASE Resume
    <2>1. UNCHANGED <<selected, settled, shown, wire, base>> /\ lastSeen' = lastId
        BY <1>3 DEF Resume, Start, tableVars, browserVars
    <2> QED
        BY <1>0, <2>1 DEF NothingSkipped, ReceivedToLastId, Shown, InFlight
<1>4. CASE StartAtNewest \/ StartBlind
    <2>1. UNCHANGED selected /\ base' = Len(selected)
        BY <1>4 DEF StartAtNewest, StartBlind, Start, tableVars, MaxEventId
    <2>2. \A i \in DOMAIN selected : ~(Len(selected) < i)
        BY <1>0 DEF TypeOK
    <2> QED
        BY <2>1, <2>2 DEF NothingSkipped
<1>5. CASE PollOk
    <2>1. PICK last \in Select(lastSeen) :
             /\ lastSeen' = last
             /\ wire' = Append(wire, [rows |-> ListSince(lastSeen, last), id |-> last])
        BY <1>5 DEF PollOk
    <2> DEFINE e == [rows |-> ListSince(lastSeen, last), id |-> last]
    <2>2. last \in 1..MaxEventId /\ e \in Event
        BY <1>0, <2>1, Polled
    <2>3. /\ \A n \in DOMAIN wire : n \in DOMAIN wire' /\ wire'[n] = wire[n]
          /\ Len(wire) + 1 \in DOMAIN wire' /\ wire'[Len(wire) + 1] = e
        BY <1>0, <2>1, <2>2, Sent
    <2>4. InFlight \cup e.rows \subseteq InFlight'
        BY <2>3 DEF InFlight
    <2>5. UNCHANGED <<selected, settled, stream, shown, base>> /\ stream
        BY <1>5 DEF PollOk, tableVars, browserVars
    <2>6. ASSUME NEW i \in DOMAIN selected, base < i, i <= last, selected[i], i \notin settled
          PROVE  i \in Shown \cup InFlight'
        <3>1. CASE i <= lastSeen
            BY <1>0, <2>4, <2>5, <2>6, <3>1 DEF NothingSkipped
        <3>2. CASE lastSeen < i
            BY <2>4, <2>6, <3>2 DEF ListSince, Select
        <3> QED
            BY <1>0, <2>6, <3>1, <3>2, Typed
    <2> QED
        BY <2>1, <2>5, <2>6 DEF NothingSkipped, Shown
<1>6. CASE Receive
    <2>1. /\ Head(wire) = wire[1] /\ Head(wire) \in Event
          /\ wire' = Tail(wire) /\ shown' = Append(shown, wire[1].rows)
          /\ UNCHANGED <<selected, settled, stream, lastSeen, base>>
        BY <1>0, <1>6, TakenOff DEF Receive, tableVars
    <2>2. wire[1].rows \in SUBSET RowIds
        BY <2>1 DEF Event
    <2>3. Shown \cup wire[1].rows \subseteq Shown'
        <3>1. /\ \A n \in DOMAIN shown : n \in DOMAIN shown' /\ shown'[n] = shown[n]
              /\ Len(shown) + 1 \in DOMAIN shown' /\ shown'[Len(shown) + 1] = wire[1].rows
            BY <1>0, <2>1, <2>2, Received, Typed
        <3> QED
            BY <3>1 DEF Shown
    <2>4. \A n \in DOMAIN wire : wire[n].rows \subseteq InFlight' \cup Shown'
        <3> SUFFICES ASSUME NEW n \in DOMAIN wire PROVE wire[n].rows \subseteq InFlight' \cup Shown'
            OBVIOUS
        <3>1. CASE n = 1
            BY <2>3, <3>1
        <3>2. CASE n # 1
            <4>1. n - 1 \in DOMAIN wire' /\ wire'[n - 1] = wire[(n - 1) + 1] /\ n \in Nat
                BY <1>0, <1>6, <2>1, <3>2, TakenOff DEF Receive
            <4> QED
                BY <4>1 DEF InFlight
        <3> QED
            BY <3>1, <3>2
    <2>5. Shown \cup InFlight \subseteq Shown' \cup InFlight'
        BY <2>3, <2>4 DEF InFlight
    <2> QED
        BY <1>0, <2>1, <2>5 DEF NothingSkipped
<1>7. CASE Break
    BY <1>7 DEF Break, NothingSkipped
<1>8. CASE UNCHANGED vars
    BY <1>0, <1>8 DEF vars, NothingSkipped, Shown, InFlight, tableVars, browserVars
<1> QED
    BY <1>1, <1>2, <1>3, <1>4, <1>5, <1>6, <1>7, <1>8 DEF Next

\* The wire stays in order.
LEMMA WireStep == TailInv /\ TypeOK' /\ [Next]_vars => WireContinues'
<1> SUFFICES ASSUME TailInv, TypeOK', [Next]_vars PROVE WireContinues'
    OBVIOUS
<1>0. TypeOK /\ wire \in Seq(Event) /\ WireContinues
    BY DEF TailInv, TypeOK, Event
<1>1. ASSUME NEW yes \in BOOLEAN, Insert(yes) PROVE WireContinues'
    <2>1. /\ DOMAIN selected \subseteq DOMAIN selected'
          /\ \A i \in DOMAIN selected : selected'[i] = selected[i]
        BY <1>0, <1>1 DEF Insert, TypeOK
    <2>2. UNCHANGED <<settled, stream, lastSeen, wire, lastId>>
        BY <1>1 DEF Insert, browserVars
    <2> QED
        BY <1>0, <2>1, <2>2 DEF WireContinues
<1>2. ASSUME NEW i \in 1..MaxRows, Backfill(i) PROVE WireContinues'
    <2>1. UNCHANGED <<stream, lastSeen, wire, lastId>>
        BY <1>2 DEF Backfill, browserVars
    <2>2. /\ settled' = settled \cup {i} /\ DOMAIN selected' = DOMAIN selected
          /\ \A j \in DOMAIN selected : j # i => selected'[j] = selected[j]
        BY <1>0, <1>2 DEF Backfill, TypeOK
    <2> QED
        BY <1>0, <2>1, <2>2 DEF WireContinues
<1>3. CASE Resume \/ StartAtNewest \/ StartBlind
    <2>1. wire = << >> /\ wire' = wire
        BY <1>0, <1>3 DEF Resume, StartAtNewest, StartBlind, Start, WireContinues
    <2> QED
        BY <2>1, Nothing DEF WireContinues
<1>4. CASE PollOk
    <2>1. PICK last \in Select(lastSeen) :
             /\ lastSeen' = last
             /\ wire' = Append(wire, [rows |-> ListSince(lastSeen, last), id |-> last])
        BY <1>4 DEF PollOk
    <2> DEFINE e == [rows |-> ListSince(lastSeen, last), id |-> last]
    <2>2. /\ last \in Nat /\ lastSeen < last /\ e \in Event /\ e.id = last
          /\ \A i \in e.rows : /\ i \in DOMAIN selected /\ i \in Nat /\ selected[i]
                                /\ lastSeen < i /\ i <= last
        BY <1>0, <2>1, Polled
    <2> HIDE DEF e
    <2>3. /\ DOMAIN wire' = DOMAIN wire \cup {Len(wire) + 1} /\ Len(wire) \in Nat
          /\ \A n \in DOMAIN wire : n \in 1..Len(wire) /\ wire'[n] = wire[n]
          /\ wire'[Len(wire) + 1] = e
        BY <1>0, <2>1, <2>2, Sent DEF e
    <2>4. UNCHANGED <<selected, settled, stream, lastId>> /\ stream
        BY <1>4 DEF PollOk, tableVars, browserVars
    <2>5. lastSeen \in Nat /\ lastId \in Nat /\ lastId <= lastSeen
        BY <1>0 DEF TypeOK, MaxEventId
    <2>6. \A n \in DOMAIN wire : wire[n].id \in Nat /\ wire[n].id <= lastSeen
        <3>1. \A n \in DOMAIN wire : wire[n] \in Event
            BY <1>0
        <3> QED
            BY <1>0, <3>1 DEF WireContinues, Event, RowIds
    <2>7. ASSUME NEW n \in DOMAIN wire'
          PROVE  /\ lastId < wire'[n].id /\ wire'[n].id <= last
                 /\ \A i \in wire'[n].rows :
                      /\ lastId < i /\ i <= wire'[n].id
                      /\ i \in DOMAIN selected /\ (selected[i] \/ i \in settled)
        <3>1. CASE n \in DOMAIN wire
            BY <1>0, <2>2, <2>3, <2>5, <2>6, <3>1 DEF WireContinues
        <3>2. CASE n = Len(wire) + 1
            BY <2>2, <2>3, <2>5, <3>2
        <3> QED
            BY <2>3, <2>7, <3>1, <3>2
    <2>8. ASSUME NEW m \in DOMAIN wire', NEW n \in DOMAIN wire', m < n
          PROVE  /\ wire'[m].id < wire'[n].id
                 /\ \A i \in wire'[n].rows : wire'[m].id < i
        <3>1. m \in DOMAIN wire
            BY <2>3, <2>8
        <3>2. CASE n \in DOMAIN wire
            BY <1>0, <2>3, <2>8, <3>1, <3>2 DEF WireContinues
        <3>3. CASE n = Len(wire) + 1
            BY <2>2, <2>3, <2>5, <2>6, <3>1, <3>3
        <3> QED
            BY <2>3, <2>8, <3>2, <3>3
    <2> QED
        BY <2>1, <2>4, <2>7, <2>8 DEF WireContinues
<1>5. CASE Receive
    <2>1. /\ wire' = Tail(wire) /\ lastId' = wire[1].id /\ 1 \in DOMAIN wire
          /\ UNCHANGED <<selected, settled, stream, lastSeen>> /\ stream
        BY <1>0, <1>5, TakenOff DEF Receive, tableVars, WireContinues
    <2>2. \A n \in DOMAIN wire' : /\ n + 1 \in DOMAIN wire /\ 1 < n + 1 /\ n \in Nat
                                  /\ wire'[n] = wire[n + 1]
        BY <1>0, <1>5, TakenOff DEF Receive
    <2>3. ASSUME NEW n \in DOMAIN wire'
          PROVE  /\ lastId' < wire'[n].id /\ wire'[n].id <= lastSeen'
                 /\ \A i \in wire'[n].rows :
                      /\ lastId' < i /\ i <= wire'[n].id
                      /\ i \in DOMAIN selected /\ (selected[i] \/ i \in settled)
        <3>1. n + 1 \in DOMAIN wire /\ 1 < n + 1 /\ wire'[n] = wire[n + 1]
            BY <2>2
        <3> QED
            BY <1>0, <2>1, <3>1 DEF WireContinues
    <2>4. ASSUME NEW m \in DOMAIN wire', NEW n \in DOMAIN wire', m < n
          PROVE  /\ wire'[m].id < wire'[n].id
                 /\ \A i \in wire'[n].rows : wire'[m].id < i
        <3>1. /\ m + 1 \in DOMAIN wire /\ wire'[m] = wire[m + 1]
              /\ n + 1 \in DOMAIN wire /\ wire'[n] = wire[n + 1] /\ m + 1 < n + 1
            BY <2>2, <2>4
        <3> QED
            BY <1>0, <3>1 DEF WireContinues
    <2> QED
        BY <2>1, <2>3, <2>4 DEF WireContinues
<1>6. CASE Break
    BY <1>6, Nothing DEF Break, WireContinues
<1>7. CASE UNCHANGED vars
    BY <1>0, <1>7 DEF vars, WireContinues, tableVars, browserVars
<1> QED
    BY <1>1, <1>2, <1>3, <1>4, <1>5, <1>6, <1>7 DEF Next

-----------------------------------------------------------------------------
LEMMA TailInvInit == Init => TailInv
<1> SUFFICES ASSUME Init PROVE TailInv
    OBVIOUS
<1>1. settled = {} /\ stream = FALSE /\ lastSeen = 0 /\ lastId = 0 /\ base = 0 /\ breaks = 0
    BY DEF Init
<1>2. wire \in Seq(Event) /\ DOMAIN wire = {} /\ shown \in Seq(SUBSET RowIds) /\ DOMAIN shown = {}
    BY Nothing DEF Init
<1>3. Shown = {} /\ wire = << >> /\ shown = << >>
    BY <1>2 DEF Shown, Init
<1>4. TypeOK
    <2>1. selected \in Seq(BOOLEAN) /\ Len(selected) = 1
        <3>1. PICK yes \in BOOLEAN : selected = <<yes>>
            BY DEF Init
        <3> QED
            BY <3>1
    <2>2. 1 <= MaxRows /\ breaks \in 0..MaxBreaks
        BY <1>1, BoundsAssumption
    <2>3. Len(selected) <= MaxRows /\ lastSeen \in 0..MaxEventId /\ base \in 0..MaxEventId
          /\ lastId \in 0..lastSeen
        BY <1>1, <2>1, <2>2, BoundsAssumption DEF MaxEventId
    <2>4. wire \in Seq([rows : SUBSET RowIds, id : RowIds])
        BY <1>2 DEF Event
    <2> QED
        BY <1>1, <1>2, <2>1, <2>2, <2>3, <2>4 DEF TypeOK
<1>5. ReceivedToLastId /\ ShownOnceInOrder
    BY <1>1, <1>2, <1>3 DEF ReceivedToLastId, ShownOnceInOrder
<1>6. WireContinues /\ NothingSkipped
    BY <1>1, <1>2, <1>3 DEF WireContinues, NothingSkipped
<1> QED
    BY <1>4, <1>5, <1>6 DEF TailInv

\* Whatever fails, the four parts of TailInv hold.
LEMMA TailInvHolds == Spec => []TailInv
<1>1. TailInv /\ [Next]_vars => TailInv'
    BY TypeStep, ReceivedStep, MarkStep, WireStep DEF TailInv
<1> QED
    BY TailInvInit, <1>1, PTL DEF Spec

\* No row is shown twice and the rows appear in the order they were written,
\* for every limit, table and number of broken streams.
THEOREM LiveTailShownOnceInOrder == Spec => []ShownOnceInOrder
<1>1. TailInv => ShownOnceInOrder
    BY DEF TailInv
<1> QED
    BY TailInvHolds, <1>1, PTL

\* No row that is selected all along is skipped by the stream that is open.
THEOREM LiveTailNothingSkipped == Spec => []NothingSkipped
<1>1. TailInv => NothingSkipped
    BY DEF TailInv
<1> QED
    BY TailInvHolds, <1>1, PTL

-----------------------------------------------------------------------------
\* What is received next is a page that Tail allows.
LEMMA ReceiveShows ==
    TailInv /\ ReceivedToLastId' /\ Receive => View!Show(Head(wire).rows)
<1> SUFFICES ASSUME TailInv, ReceivedToLastId', Receive PROVE View!Show(Head(wire).rows)
    OBVIOUS
<1> DEFINE rows == Head(wire).rows
<1>1. /\ Head(wire) = wire[1] /\ wire[1] \in Event /\ 1 \in DOMAIN wire
      /\ shown' = Append(shown, rows) /\ lastId' = wire[1].id
      /\ UNCHANGED <<selected, settled, base>>
    BY TakenOff DEF Receive, TailInv, TypeOK, Event, tableVars
<1>2. \A i \in rows : /\ lastId < i /\ i <= wire[1].id
                      /\ i \in DOMAIN selected /\ (selected[i] \/ i \in settled)
    BY <1>1 DEF TailInv, WireContinues
<1>3. rows \in SUBSET RowIds
    BY <1>1 DEF Event
<1> HIDE DEF rows
<1>4. View!ShownRows = Shown
    BY DEF View!ShownRows, Shown
<1>5. ASSUME NEW i \in rows, NEW j \in Shown PROVE j < i
    <2>1. i \in Nat /\ lastId < i /\ lastId \in Nat
        BY <1>2, <1>3 DEF RowIds, TailInv, TypeOK, MaxEventId
    <2>2. j \in Nat /\ j <= lastId
        BY DEF TailInv, ReceivedToLastId, TypeOK, Shown, RowIds
    <2> QED
        BY <2>1, <2>2
<1>6. Shown' \subseteq rows \cup Shown
    BY <1>1, <1>3, Received DEF Shown, TailInv, TypeOK
<1>7. ASSUME NEW i \in DOMAIN selected, NEW j \in rows,
             base < i, i < j, selected[i], i \notin settled
      PROVE  i \in rows \cup Shown
    <2>1. i <= wire[1].id
        BY <1>1, <1>2, <1>3, <1>7 DEF TailInv, TypeOK, Event, RowIds
    <2> QED
        BY <1>1, <1>6, <1>7, <2>1 DEF ReceivedToLastId
<1> QED
    BY <1>1, <1>2, <1>4, <1>5, <1>7 DEF View!Show, rows

LEMMA StepMaps == TailInv /\ TailInv' /\ [Next]_vars => [View!Next]_(View!vars)
<1> SUFFICES ASSUME TailInv, TailInv', [Next]_vars PROVE [View!Next]_(View!vars)
    OBVIOUS
<1>1. ASSUME NEW yes \in BOOLEAN, Insert(yes) PROVE View!Write(yes)
    BY <1>1 DEF Insert, View!Write, browserVars
<1>2. ASSUME NEW i \in 1..MaxRows, Backfill(i) PROVE i \in DOMAIN selected /\ View!Change(i)
    BY <1>2 DEF Backfill, View!Change, browserVars
<1>3. ASSUME StartAtNewest \/ StartBlind PROVE View!Begin
    BY <1>3 DEF StartAtNewest, StartBlind, Start, View!Begin, tableVars, browserVars, MaxEventId,
                TailInv, ReceivedToLastId
<1>4. ASSUME Receive PROVE Head(wire).rows \in SUBSET DOMAIN selected /\ View!Show(Head(wire).rows)
    <2>1. Head(wire) = wire[1] /\ 1 \in DOMAIN wire
        BY <1>4, TakenOff DEF Receive, TailInv, TypeOK, Event
    <2> QED
        BY <1>4, <2>1, ReceiveShows DEF TailInv, WireContinues
<1>5. ASSUME Resume \/ PollOk \/ Break \/ UNCHANGED vars PROVE UNCHANGED View!vars
    BY <1>5 DEF Resume, Start, PollOk, Break, vars, View!vars, tableVars, browserVars
<1> QED
    BY <1>1, <1>2, <1>3, <1>4, <1>5 DEF Next, View!Next

\* The live view implements Tail: nobody who looks at the table and at the
\* pages shown can tell that streams break and polls are cut.
THEOREM LiveTailImplementsTail == Spec => TailSpec
<1>1. Init => View!Init
    BY DEF Init, View!Init
<1> QED
    BY TailInvHolds, StepMaps, <1>1, PTL DEF Spec, TailSpec, View!Spec
=============================================================================
