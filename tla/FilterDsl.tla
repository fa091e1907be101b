----------------------------- MODULE FilterDsl ------------------------------
(***************************************************************************)
(* The filter language of the web UI: EventFilter::parse, which reads a    *)
(* query token by token, and build_where_clause, which turns the filter    *)
(* into the SQL condition of the event list and the live tail.             *)
(*                                                                         *)
(* A string is a sequence of characters.  A token is what parse tells      *)
(* apart: the number of leading exclamation marks, the key before the      *)
(* first colon (NoKey without one) and the rest.  A column that may be     *)
(* NULL, an optional filter and a three-valued truth value are sets of at  *)
(* most one element, the empty set standing for NULL, None and unknown.    *)
(* A key in a bare word counts as one character.  LIKE's folding of case   *)
(* is left out.                                                            *)
(***************************************************************************)
EXTENDS Integers, SequencesExt

CONSTANTS
    Tokens,       \* tokens the user types
    ExecRows,     \* rows of the events table with event_type Exec
    Passwd,       \* /etc/passwd: a function from user names to uids
    MaxU32,       \* u32::MAX
    MaxI32,       \* i32::MAX
    MaxTokens     \* bound on the length of a query, for model checking

ASSUME BoundsAssumption == {MaxU32, MaxI32, MaxTokens} \subseteq Nat
ASSUME RowsAssumption ==
    \A row \in ExecRows :
        /\ \A column \in {row.comm, row.filename, row.argv} : \A a, b \in column : a = b
        /\ \A column \in {row.exit, row.tty} : \A a, b \in column : a = b

\* Tokens and columns are strings, here sequences of characters.
IsString(s) == s \in Seq(ToSet(s))
ASSUME StringsAssumption ==
    /\ \A token \in Tokens : IsString(token.rest) /\ token.bangs \in Nat
    /\ \A row \in ExecRows :
         \A string \in row.comm \cup row.filename \cup row.argv \cup {row.session} : IsString(string)

VARIABLES
    query,     \* the tokens read so far
    filter,    \* the keyword fields of EventFilter
    text,      \* the bare words, in order
    warnings   \* the number of warnings

vars == <<query, filter, text, warnings>>

-----------------------------------------------------------------------------
NoKey == "no colon"
UnsignedKeys == {"pid", "ppid", "gid", "euid", "tty"}
StringKeys == {"user", "comm", "session", "file", "cmd"}
Keys == UnsignedKeys \cup StringKeys \cup {"exit"}

Digit == [c \in {"0", "1", "2", "3", "4", "5", "6", "7", "8", "9"} |->
            CHOOSE n \in 0..9 : ToString(n) = c]

\* str::parse of an integer: a sign (a minus only if the type has one), at
\* least one digit and nothing else, and no overflow.
ParseInt(string, lowest, highest) ==
    LET signs == IF lowest < 0 THEN {"+", "-"} ELSE {"+"}
        signed == string # << >> /\ string[1] \in signs
        digits == IF signed THEN Tail(string) ELSE string
        size == FoldLeft(LAMBDA n, c : 10 * n + Digit[c], 0, digits)
        value == IF signed /\ string[1] = "-" THEN -size ELSE size
    IN  IF digits # << >> /\ ToSet(digits) \subseteq DOMAIN Digit
        THEN {value} \cap lowest..highest
        ELSE {}
ParseU32(string) == ParseInt(string, 0, MaxU32)
ParseI32(string) == ParseInt(string, -MaxI32 - 1, MaxI32)

\* What a keyword makes of its value: one parsed value or none.
Parsed(key, string) ==
    CASE key \in StringKeys -> {string}
      [] key \in UnsignedKeys -> ParseU32(string)
      [] key = "exit" -> ParseI32(string)

\* An exclamation mark negates a keyword only; another token that starts
\* with one, and one without a colon, is a bare word.
IsBare(token) == token.key = NoKey \/ token.bangs > 1

Init ==
    /\ query = << >>
    /\ filter = [key \in Keys |-> {}]
    /\ text = << >>
    /\ warnings = 0

\* One turn of parse's loop for each kind of token.
BareWord(token) ==
    /\ IsBare(token)
    /\ text' = Append(text, token)
    /\ UNCHANGED <<filter, warnings>>

UnknownKeyword(token) ==
    /\ ~IsBare(token) /\ token.key \notin Keys
    /\ text' = Append(text, token)
    /\ warnings' = warnings + 1
    /\ UNCHANGED filter

\* MUTANT of Keyword: a value that does not parse clears the field.
KeywordClears(token) ==
    /\ ~IsBare(token) /\ token.key \in Keys
    /\ filter' = [filter EXCEPT ![token.key] =
                    {[value |-> v, negated |-> token.bangs = 1] :
                       v \in Parsed(token.key, token.rest)}]
    /\ warnings' = IF Parsed(token.key, token.rest) = {} THEN warnings + 1 ELSE warnings
    /\ UNCHANGED text
Keyword(token) ==
    /\ ~IsBare(token) /\ token.key \in Keys
    /\ LET parsed == Parsed(token.key, token.rest) IN
       IF parsed = {}
       THEN warnings' = warnings + 1 /\ UNCHANGED filter
       ELSE /\ filter' = [filter EXCEPT ![token.key] =
                            {[value |-> v, negated |-> token.bangs = 1] : v \in parsed}]
            /\ UNCHANGED warnings
    /\ UNCHANGED text

Read(token) ==
    /\ query' = Append(query, token)
    /\ BareWord(token) \/ UnknownKeyword(token) \/ Keyword(token)

Next == Len(query) < MaxTokens /\ \E token \in Tokens : Read(token)

Spec == Init /\ [][Next]_vars
-----------------------------------------------------------------------------
(* SQL: LIKE with ESCAPE, and logic with NULL. *)

\* Does string match pattern, where % stands for any string, _ for any
\* character, and a backslash takes the character after it literally?  The
\* places of string from which on it matches the pattern from p on:
Like(pattern, string) ==
    LET P == Len(pattern)  S == Len(string)
        match[p \in 1..P + 1] ==
            LET one == match[p + 1]  two == match[p + 2] IN
            IF p > P THEN {S + 1}
            ELSE IF pattern[p] = "%" THEN {s \in 1..S + 1 : \E n \in one : s <= n}
            ELSE IF pattern[p] = "\\"
            THEN {s \in 1..S : p < P /\ pattern[p + 1] = string[s] /\ s + 1 \in two}
            ELSE {s \in 1..S : pattern[p] \in {"_", string[s]} /\ s + 1 \in one}
    IN  1 \in match[1]

Not3(a) == {~x : x \in a}
And3(as) == IF {FALSE} \in as THEN {FALSE} ELSE IF {} \in as THEN {} ELSE {TRUE}
Or3(as) == Not3(And3({Not3(a) : a \in as}))
IsNull(column) == {column = {}}
Equals(column, value) == {v = value : v \in column}

-----------------------------------------------------------------------------
(* build_where_clause *)

\* MUTANT of AddExact: the negation forgets NULL.
AddExactNoNull(column, fv, nullable) ==
    LET equal == Equals(column, fv.value) IN
    IF fv.negated THEN Not3(equal) ELSE equal

AddExact(column, fv, nullable) ==
    LET equal == Equals(column, fv.value) IN
    IF ~fv.negated THEN equal
    ELSE IF nullable THEN Or3({IsNull(column), Not3(equal)})
    ELSE Not3(equal)

\* The alternatives of a pattern: its parts between bars.
Alternatives(pattern) ==
    LET N == Len(pattern)
        bar(i) == i \in {0, N + 1} \/ pattern[i] = "|"
        next(i) == Min({j \in i + 1..N + 1 : bar(j)})
    IN  {SubSeq(pattern, i + 1, next(i) - 1) : i \in {j \in 0..N : bar(j)}}

AddLike(column, patterns, negated, nullable) ==
    LET likes == {{Like(p, s) : s \in column} : p \in patterns}
        none == And3({Not3(a) : a \in likes})
    IN  IF ~negated THEN Or3(likes)
        ELSE IF nullable THEN Or3({IsNull(column), none})
        ELSE none

\* escape_like_pattern and glob_to_like_pattern.
EscapeLike(string) ==
    FlattenSeq([i \in DOMAIN string |->
        IF string[i] \in {"\\", "%", "_"} THEN <<"\\", string[i]>> ELSE <<string[i]>>])
Unglob(string) ==
    [i \in DOMAIN string |-> CASE string[i] = "*" -> "%"
                               [] string[i] = "?" -> "_"
                               [] OTHER -> string[i]]
\* MUTANT of GlobToLike: wildcards first, and then they are escaped.
GlobToLikeSwapped(string) == EscapeLike(Unglob(string))
GlobToLike(string) == Unglob(EscapeLike(string))

\* The uid a user filter asks for: a number, or the name of a known user.
UserId(name) ==
    IF ParseU32(name) # {} THEN ParseU32(name)
    ELSE {Passwd[n] : n \in {name} \cap DOMAIN Passwd}

\* The conditions of one keyword, none if its user is unknown.
Condition(key, fv, row) ==
    CASE key = "comm" ->
           {AddLike(row.comm, Alternatives(GlobToLike(fv.value)), fv.negated, TRUE)}
      [] key = "file" ->
           {AddLike(row.filename, Alternatives(GlobToLike(fv.value)), fv.negated, TRUE)}
      [] key = "cmd" ->
           {AddLike(row.filename,
                    {<<"%", "/">> \o GlobToLike(a) : a \in Alternatives(fv.value)},
                    fv.negated, TRUE)}
      [] key = "session" ->
           {AddLike({row.session}, Alternatives(EscapeLike(fv.value) \o <<"%">>),
                    fv.negated, FALSE)}
      [] key = "exit" -> {AddExact(row.exit, fv, TRUE)}
      [] key = "tty" -> {AddExact(row.tty, fv, TRUE)}
      [] key \in UnsignedKeys \ {"tty"} -> {AddExact({row[key]}, fv, FALSE)}
      [] key = "user" ->
           {AddExact({row.uid}, [fv EXCEPT !.value = u], FALSE) : u \in UserId(fv.value)}

\* A bare word as it was typed; bare words are joined by a space.
Typed(token) ==
    [i \in 1..token.bangs |-> "!"] \o
    (IF token.key = NoKey THEN token.rest ELSE <<token.key, ":">> \o token.rest)
Joined == FlattenSeq([i \in DOMAIN text |->
              IF i = 1 THEN Typed(text[i]) ELSE <<" ">> \o Typed(text[i])])
TextCondition(row) ==
    LET pattern == <<"%">> \o EscapeLike(Joined) \o <<"%">> IN
    IF text = << >> THEN {}
    ELSE {Or3({{Like(pattern, s) : s \in column} :
                 column \in {row.comm, row.filename, row.argv}})}

Selects(f, row) ==
    And3(UNION {UNION {Condition(key, fv, row) : fv \in f[key]} : key \in Keys}) = {TRUE}
Selected(row) == Selects(filter, row) /\ And3(TextCondition(row)) = {TRUE}
-----------------------------------------------------------------------------
\* For each keyword the last token with a value that parses decides; tokens
\* that do not parse change nothing, wherever they stand.
LastTokenWins ==
    \A key \in Keys :
        LET good == {i \in DOMAIN query :
                       /\ query[i].key = key /\ ~(query[i].bangs > 1)
                       /\ Parsed(key, query[i].rest) # {}}
            last == query[Max(good)]
        IN  IF good = {} THEN filter[key] = {}
            ELSE filter[key] = {[value |-> v, negated |-> last.bangs = 1] :
                                  v \in Parsed(key, last.rest)}

Only(key, fv) == [k \in Keys |-> IF k = key THEN {fv} ELSE {}]

\* A negated keyword selects exactly the rows that the same keyword does not
\* select by itself, also where the column is NULL.  (A user that is not in
\* /etc/passwd is no condition at all.)
NegationComplements ==
    \A key \in Keys : \A fv \in filter[key] :
        (key = "user" => UserId(fv.value) # {}) =>
            \A row \in ExecRows :
                Selects(Only(key, [fv EXCEPT !.negated = TRUE]), row)
                    <=> ~Selects(Only(key, [fv EXCEPT !.negated = FALSE]), row)

\* Does string match the glob, where only * and ? are special?  The lengths
\* of the beginnings of string that match the first g characters:
GlobMatch(glob, string) ==
    LET match[g \in 0..Len(glob)] ==
            IF g = 0 THEN {0}
            ELSE LET before == match[g - 1] IN
                 {s \in 0..Len(string) :
                    IF glob[g] = "*" THEN \E n \in before : n <= s
                    ELSE s > 0 /\ glob[g] \in {"?", string[s]} /\ s - 1 \in before}
    IN  Len(string) \in match[Len(glob)]

\* What follows the last slash of a path.
BaseName(path) == SubSeq(path, 1 + Max({0} \cup {i \in DOMAIN path : path[i] = "/"}), Len(path))

\* The globs a keyword's value stands for, and the strings of a row one of
\* them should match: the column, the base name of the file for cmd, and any
\* beginning of the session id.
Meant(key, value, row) ==
    LET strings ==
            CASE key = "comm" -> row.comm
              [] key = "file" -> row.filename
              [] key = "cmd" -> {BaseName(path) : path \in row.filename}
    IN  IF key = "session" THEN IsPrefix(value, row.session)
        ELSE \E glob \in Alternatives(value), string \in strings : GlobMatch(glob, string)

\* cmd looks for a slash and the value at the end of the file name; what in
\* the value can match a slash reaches back over directories.
InDirectory(row) == \E path \in row.filename : "/" \in ToSet(path)
CrossesSlash(value) == {"*", "?", "/"} \cap ToSet(value) # {}

\* Patterns mean what they say, character by character, whatever they contain
\* that LIKE, its escape or a glob would take for something special; and bare
\* words are looked for literally.  (The bar in a session id is excepted: it
\* splits there too, and only the last part is a prefix.  cmd is held to its
\* word for files named with a directory; a value that can match a slash may
\* find rows of other basenames, by a directory that matches.)
PatternsMean ==
    /\ \A key \in {"comm", "file", "cmd", "session"} : \A fv \in filter[key], row \in ExecRows :
         LET selects == Selects(Only(key, [fv EXCEPT !.negated = FALSE]), row)
             meant == Meant(key, fv.value, row)
         IN  CASE key = "cmd" ->
                    InDirectory(row) => /\ meant => selects
                                        /\ selects => meant \/ CrossesSlash(fv.value)
               [] key = "session" -> Contains(fv.value, "|") \/ (selects <=> meant)
               [] OTHER -> selects <=> meant
    /\ text # << >> =>
         \A row \in ExecRows :
             Selected(row) <=> Selects(filter, row) /\
                 \E string \in row.comm \cup row.filename \cup row.argv :
                     \E i \in 0..Len(string) : IsPrefix(Joined, SubSeq(string, i + 1, Len(string)))
=============================================================================
