------------------------------ MODULE EventView ------------------------------
(***************************************************************************)
(* From a row to a filter: what the event list and the detail panel show   *)
(* of a row (shspectr-web/src/presentation/web/event.rs) and the query     *)
(* that a click on a shown value makes (shspectrBuildQuery in              *)
(* templates/base.html, called from event_row.html and                     *)
(* event_detail.html), which FilterDsl then reads.                         *)
(*                                                                         *)
(* A row has, beside FilterDsl's columns, args: the argument list whose    *)
(* JSON is the text in argv.  In a path a directory's name is kept as one  *)
(* character.  No name of a command holds a colon or an exclamation mark.  *)
(***************************************************************************)
EXTENDS FilterDsl

VARIABLES
    input,   \* tokens of the query a click made that are still to be read
    clicked  \* the row and the key clicked last, if the query selected the row;
             \* none once the user types

viewVars == <<vars, input, clicked>>

-----------------------------------------------------------------------------
(* What is shown of a row. *)

\* serde_json::to_string of the arguments, as the sink stores them.
Json(args) ==
    LET Quoted(s) == <<"\"">> \o FlattenSeq([i \in DOMAIN s |->
            IF s[i] \in {"\\", "\""} THEN <<"\\", s[i]>> ELSE <<s[i]>>]) \o <<"\"">>
    IN  <<"[">> \o FlattenSeq([i \in DOMAIN args |->
            IF i = 1 THEN Quoted(args[i]) ELSE <<",">> \o Quoted(args[i])]) \o <<"]">>
ASSUME ArgvAssumption == \A row \in ExecRows : row.argv = {Json(a) : a \in row.args}

\* /dev/fd/<number>, or /proc/<one name>/fd/<number>.
IsFdPath(path) ==
    \E k \in DOMAIN path :
        LET dir == SubSeq(path, 1, k)
            number == SubSeq(path, k + 1, Len(path))
        IN  /\ number # << >> /\ ToSet(number) \subseteq DOMAIN Digit
            /\ \/ dir = <<"/", "dev", "/", "fd", "/">>
               \/ \E name \in {SubSeq(dir, 4, k - 3)} :
                    /\ "/" \notin ToSet(name)
                    /\ dir = <<"/", "proc", "/">> \o name \o <<"/", "fd", "/">>

\* The member of a set of at most one, or what stands in for it.
OrElse(option, default) == IF option = {} THEN default ELSE CHOOSE v \in option : TRUE

\* The name in the command cell.  Without a file name the code means to fall
\* back on argv[0], and takes the text of the whole column.
CommandName(row) ==
    LET file == {f \in row.filename : f # << >>}
        argv0 == {a[1] : a \in {b \in row.args : b # << >> /\ b[1] # << >>}}
        comm == OrElse(row.comm, <<"dash">>)
        path == OrElse(file, OrElse(IF argv0 = {} THEN {} ELSE row.argv, << >>))
    IN  IF \E f \in file : IsFdPath(f) THEN OrElse({BaseName(a) : a \in argv0}, comm)
        ELSE IF path = << >> THEN comm
        ELSE BaseName(path)

Decimal(n) ==
    LET digits[k \in 0..MaxU32] ==
            (IF k < 10 THEN << >> ELSE digits[k \div 10]) \o
            <<CHOOSE c \in DOMAIN Digit : Digit[c] = k % 10>>
    IN  IF n < 0 THEN <<"-">> \o digits[-n] ELSE digits[n]

\* The clickable values, by the key of the filter they make: the list has
\* user, cmd, exit and session, the panel all but cmd.
Shown(row, key) ==
    CASE key \in {"pid", "ppid", "gid", "euid"} -> {Decimal(row[key])}
      [] key = "user" -> {Decimal(row.uid)}
      [] key = "tty" -> {Decimal(t) : t \in row.tty \ {0}}
      [] key = "exit" -> {Decimal(code) : code \in row.exit}
      [] key = "session" -> {row.session}
      [] key = "cmd" -> {CommandName(row)}
ClickKeys == {"pid", "ppid", "gid", "euid", "user", "tty", "exit", "session", "cmd"}
-----------------------------------------------------------------------------
(* What a click makes of the query. *)

\* The words of key:value; only the first of them has the key.
Words(key, value) ==
    LET words == FoldLeft(LAMBDA ws, c : IF c = " " THEN Append(ws, << >>)
                                         ELSE [ws EXCEPT ![Len(ws)] = Append(@, c)],
                          << << >> >>, value)
        bare == SelectSeq(Tail(words), LAMBDA w : w # << >>)
    IN  <<[bangs |-> 0, key |-> key, rest |-> Head(words)]>> \o
        [i \in DOMAIN bare |-> [bangs |-> 0, key |-> NoKey, rest |-> bare[i]]]

\* MUTANT of Without: the expression is not anchored at a blank, and cuts
\* pid:1 out of ppid:1.
WithoutUnanchored(key) ==
    LET cut == SelectSeq(query, LAMBDA t : ~(t.key = key /\ t.bangs < 2 /\ t.rest # << >>)) IN
    [i \in DOMAIN cut |-> IF key = "pid" /\ cut[i].key = "ppid"
                          THEN [bangs |-> 0, key |-> NoKey, rest |-> <<"p">>] ELSE cut[i]]
\* The query without its tokens for key, negated or not.
Without(key) ==
    SelectSeq(query, LAMBDA t : ~(t.key = key /\ t.bangs < 2 /\ t.rest # << >>))

\* shspectrBuildQuery; a session replaces the whole query.
Rebuilt(key, value) ==
    IF key = "session" THEN Words(key, value) ELSE Without(key) \o Words(key, value)
-----------------------------------------------------------------------------
ViewInit == Init /\ input = << >> /\ clicked = {}

Type ==
    /\ input = << >>
    /\ Next
    /\ clicked' = {}
    /\ UNCHANGED input

\* The row need not be one the query selects: the text in the box may have
\* been edited since the list was loaded.
Click(row, key) ==
    /\ input = << >>
    /\ \E value \in Shown(row, key) :
         /\ Len(Rebuilt(key, value)) <= MaxTokens
         /\ input' = Rebuilt(key, value)
    /\ clicked' = IF Selected(row) THEN {<<row, key>>} ELSE {}
    /\ query' = << >>
    /\ filter' = [k \in Keys |-> {}]
    /\ text' = << >>
    /\ warnings' = 0

ReadInput ==
    /\ input # << >>
    /\ Read(Head(input))
    /\ input' = Tail(input)
    /\ UNCHANGED clicked

ViewNext ==
    \/ Type
    \/ \E row \in ExecRows, key \in ClickKeys : Click(row, key)
    \/ ReadInput

ViewSpec == ViewInit /\ [][ViewNext]_viewVars
-----------------------------------------------------------------------------
\* Can a cmd filter find the row by its name?  The file name has a directory
\* and is no descriptor, and its last part has no bar and no blank.
Findable(row) ==
    \E path \in row.filename :
        /\ "/" \in ToSet(path) /\ ~IsFdPath(path)
        /\ {"|", " "} \cap ToSet(BaseName(path)) = {}

\* A row that the query selects stays selected when one of its values is
\* clicked, whatever the query is: what else is in it still holds of the row,
\* and the new token says what the row says.
ClickKeepsRow ==
    input = << >> =>
        \A click \in clicked :
            (click[2] = "cmd" => Findable(click[1])) => Selected(click[1])
=============================================================================
