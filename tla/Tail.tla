-------------------------------- MODULE Tail ---------------------------------
(***************************************************************************)
(* What a live view promises, whatever connections break and however its   *)
(* rows are cut into pages: each page has only rows newer than everything  *)
(* shown, and leaves out none that the filter has selected all along.      *)
(***************************************************************************)
EXTENDS Naturals, Sequences

VARIABLES
    answer,  \* row -> does the filter select it now?
    changed, \* rows for which the answer has changed
    from,    \* the view is about the rows above this one
    pages    \* sets of rows, in the order they were shown

vars == <<answer, changed, from, pages>>

ShownRows == UNION {pages[n] : n \in DOMAIN pages}

Init ==
    /\ answer \in {<<yes>> : yes \in BOOLEAN}
    /\ changed = {}
    /\ from = 0
    /\ pages = << >>

Write(yes) ==
    /\ answer' = Append(answer, yes)
    /\ UNCHANGED <<changed, from, pages>>

Change(i) ==
    /\ i \notin changed
    /\ changed' = changed \cup {i}
    /\ answer' = [answer EXCEPT ![i] = ~@]
    /\ UNCHANGED <<from, pages>>

\* The view starts, or starts over, and forgets the rows there are.
Begin ==
    /\ pages = << >>
    /\ from' = Len(answer)
    /\ UNCHANGED <<answer, changed, pages>>

Show(rows) ==
    /\ \A i \in rows : answer[i] \/ i \in changed
    /\ \A i \in rows, j \in ShownRows : j < i
    /\ \A i \in DOMAIN answer, j \in rows :
         from < i /\ i < j /\ answer[i] /\ i \notin changed => i \in rows \cup ShownRows
    /\ pages' = Append(pages, rows)
    /\ UNCHANGED <<answer, changed, from>>

Next ==
    \/ \E yes \in BOOLEAN : Write(yes)
    \/ \E i \in DOMAIN answer : Change(i)
    \/ Begin
    \/ \E rows \in SUBSET DOMAIN answer : Show(rows)

Spec == Init /\ [][Next]_vars
=============================================================================
