---------------------------- MODULE FilterProofs ----------------------------
(***************************************************************************)
(* Theorems about FilterDsl, for queries that are typed and for those that *)
(* EventView's clicks make: which token of a query decides a keyword;      *)
(* that a negated keyword is the complement of the plain one in SQL's      *)
(* three-valued logic; and, for typed queries, that the patterns LIKE gets *)
(* mean what the user's globs mean.                                        *)
(***************************************************************************)
EXTENDS EventView, WellFoundedInduction, TLAPS

-----------------------------------------------------------------------------
(* The last token with a value that parses. *)

Good(key, token) ==
    token.key = key /\ ~(token.bangs > 1) /\ Parsed(key, token.rest) # {}
Value(key, token) ==
    {[value |-> v, negated |-> token.bangs = 1] : v \in Parsed(key, token.rest)}

\* What LastTokenWins says of one keyword, with the last good token named.
Decided(key) ==
    \/ /\ filter[key] = {}
       /\ \A i \in DOMAIN query : ~Good(key, query[i])
    \/ \E last \in DOMAIN query :
         /\ Good(key, query[last])
         /\ \A i \in DOMAIN query : i > last => ~Good(key, query[i])
         /\ filter[key] = Value(key, query[last])

FilterInv ==
    /\ \E S : query \in Seq(S)
    /\ filter = [key \in Keys |-> filter[key]]
    /\ \A key \in Keys : Decided(key)

LEMMA LastIsMax ==
    ASSUME NEW S \in SUBSET Int, NEW last \in S, \A i \in S : i <= last
    PROVE  Max(S) = last
<1>1. Max(S) \in S /\ \A i \in S : Max(S) >= i
  BY DEF Max
<1>2. Max(S) \in Int /\ last \in Int
  BY <1>1
<1> QED
  BY <1>1, <1>2

LEMMA EmptyQuery ==
    ASSUME query = << >>, filter = [key \in Keys |-> {}]
    PROVE  FilterInv
<1>1. query \in Seq({}) /\ DOMAIN query = {}
  OBVIOUS
<1>2. filter = [key \in Keys |-> filter[key]] /\ \A key \in Keys : filter[key] = {}
  OBVIOUS
<1> QED
  BY <1>1, <1>2 DEF FilterInv, Decided

LEMMA ReadStep ==
    ASSUME FilterInv, NEW token, Read(token)
    PROVE  FilterInv'
<1>1. PICK S : query \in Seq(S)
  BY DEF FilterInv
<1>2. PICK n \in Nat : n = Len(query)
  BY <1>1
<1>3. query' = Append(query, token)
  BY DEF Read
<1>4. /\ query' \in Seq(S \cup {token})
      /\ DOMAIN query = 1..n /\ DOMAIN query' = 1..n + 1
      /\ query'[n + 1] = token /\ \A i \in 1..n : query'[i] = query[i]
  <2>1. query \in Seq(S \cup {token})
    BY <1>1
  <2> QED
    BY <1>1, <1>2, <1>3, <2>1
<1>5. filter = [key \in Keys |-> filter[key]]
  BY DEF FilterInv
<1>6. /\ filter' = [key \in Keys |-> filter'[key]]
      /\ \A key \in Keys :
           filter'[key] = IF Good(key, token) THEN Value(key, token) ELSE filter[key]
  <2>1. CASE BareWord(token)
    <3>1. filter' = filter
      BY <2>1 DEF BareWord
    <3>2. \A key \in Keys : ~Good(key, token)
      BY <2>1 DEF BareWord, IsBare, Good, NoKey, Keys, UnsignedKeys, StringKeys
    <3> QED
      BY <1>5, <3>1, <3>2
  <2>2. CASE UnknownKeyword(token)
    <3>1. filter' = filter
      BY <2>2 DEF UnknownKeyword
    <3>2. \A key \in Keys : ~Good(key, token)
      BY <2>2 DEF UnknownKeyword, Good
    <3> QED
      BY <1>5, <3>1, <3>2
  <2>3. CASE Keyword(token)
    <3>1. token.key \in Keys /\ ~(token.bangs > 1)
      BY <2>3 DEF Keyword, IsBare
    <3>2. CASE Parsed(token.key, token.rest) = {}
      <4>1. filter' = filter
        BY <2>3, <3>2 DEF Keyword
      <4>2. \A key \in Keys : ~Good(key, token)
        BY <3>2 DEF Good
      <4> QED
        BY <1>5, <4>1, <4>2
    <3>3. CASE Parsed(token.key, token.rest) # {}
      <4>1. filter' = [filter EXCEPT ![token.key] = Value(token.key, token)]
        BY <2>3, <3>3 DEF Keyword, Value
      <4>2. \A key \in Keys : Good(key, token) <=> key = token.key
        BY <3>1, <3>3 DEF Good
      <4> QED
        BY <1>5, <3>1, <4>1, <4>2
    <3> QED
      BY <3>2, <3>3
  <2> QED
    BY <2>1, <2>2, <2>3 DEF Read
<1>7. ASSUME NEW key \in Keys PROVE Decided(key)'
  <2>1. CASE Good(key, token)
    <3>1. n + 1 \in DOMAIN query' /\ \A i \in DOMAIN query' : ~(i > n + 1)
      BY <1>4
    <3> QED
      BY <1>4, <1>6, <2>1, <3>1 DEF Decided
  <2>2. CASE ~Good(key, token)
    <3>1. filter'[key] = filter[key]
      BY <1>6, <2>2
    <3>2. \A i \in DOMAIN query' : i \in DOMAIN query \/ query'[i] = token
      BY <1>4
    <3>3. CASE filter[key] = {} /\ \A i \in DOMAIN query : ~Good(key, query[i])
      BY <1>4, <2>2, <3>1, <3>2, <3>3 DEF Decided
    <3>4. ASSUME NEW last \in DOMAIN query, Good(key, query[last]),
                 \A i \in DOMAIN query : i > last => ~Good(key, query[i]),
                 filter[key] = Value(key, query[last])
          PROVE  Decided(key)'
      <4>1. last \in DOMAIN query' /\ query'[last] = query[last]
        BY <1>4
      <4>2. \A i \in DOMAIN query' : i > last => ~Good(key, query'[i])
        BY <1>4, <2>2, <3>2, <3>4
      <4> QED
        BY <3>1, <3>4, <4>1, <4>2 DEF Decided
    <3> QED
      BY <3>3, <3>4 DEF FilterInv, Decided
  <2> QED
    BY <2>1, <2>2
<1> QED
  BY <1>4, <1>6, <1>7 DEF FilterInv

LEMMA FilterFrame ==
    ASSUME FilterInv, UNCHANGED <<query, filter>>
    PROVE  FilterInv'
BY DEF FilterInv, Decided

THEOREM FilterIsInductive == Spec => []FilterInv
<1>1. Init => FilterInv
  BY EmptyQuery DEF Init
<1>2. FilterInv /\ [Next]_vars => FilterInv'
  BY ReadStep, FilterFrame DEF Next, vars
<1> QED
  BY <1>1, <1>2, PTL DEF Spec

THEOREM ClickedFilterIsInductive == ViewSpec => []FilterInv
<1>1. ViewInit => FilterInv
  BY EmptyQuery DEF ViewInit, Init
<1>2. FilterInv /\ [ViewNext]_viewVars => FilterInv'
  <2> SUFFICES ASSUME FilterInv, [ViewNext]_viewVars PROVE FilterInv'
    OBVIOUS
  <2>1. CASE Type
    BY <2>1, ReadStep DEF Type, Next
  <2>2. ASSUME NEW row \in ExecRows, NEW key \in ClickKeys, Click(row, key)
        PROVE  FilterInv'
    <3>1. query' = << >> /\ filter' = [k \in Keys |-> {}]
      BY <2>2 DEF Click
    <3>2. query' \in Seq({}) /\ DOMAIN query' = {}
      BY <3>1
    <3>3. filter' = [k \in Keys |-> filter'[k]] /\ \A k \in Keys : filter'[k] = {}
      BY <3>1
    <3> QED
      BY <3>2, <3>3 DEF FilterInv, Decided
  <2>3. CASE ReadInput
    BY <2>3, ReadStep DEF ReadInput
  <2>4. CASE UNCHANGED viewVars
    BY <2>4, FilterFrame DEF viewVars, vars
  <2> QED
    BY <2>1, <2>2, <2>3, <2>4 DEF ViewNext
<1> QED
  BY <1>1, <1>2, PTL DEF ViewSpec

LEMMA DecidedMeansLast == ASSUME FilterInv PROVE LastTokenWins
<1> SUFFICES ASSUME NEW key \in Keys
             PROVE  LET good == {i \in DOMAIN query : Good(key, query[i])} IN
                    IF good = {} THEN filter[key] = {}
                    ELSE filter[key] = Value(key, query[Max(good)])
  BY Zenon DEF LastTokenWins, Good, Value
<1> DEFINE good == {i \in DOMAIN query : Good(key, query[i])}
<1>1. PICK S : query \in Seq(S)
  BY DEF FilterInv
<1>2. good \in SUBSET Int
  BY <1>1
<1>3. CASE filter[key] = {} /\ \A i \in DOMAIN query : ~Good(key, query[i])
  BY <1>3
<1>4. ASSUME NEW last \in DOMAIN query, Good(key, query[last]),
             \A i \in DOMAIN query : i > last => ~Good(key, query[i]),
             filter[key] = Value(key, query[last])
      PROVE  filter[key] = Value(key, query[Max(good)]) /\ good # {}
  <2>1. last \in good
    BY <1>4
  <2>2. \A i \in good : i <= last
    BY <1>1, <1>4
  <2>3. Max(good) = last
    BY <1>2, <2>1, <2>2, LastIsMax
  <2> QED
    BY <1>4, <2>1, <2>3
<1> QED
  BY <1>3, <1>4 DEF FilterInv, Decided

\* For each keyword the last token with a value that parses decides, in a
\* query that was typed ...
THEOREM LastTokenDecides == Spec => []LastTokenWins
BY FilterIsInductive, DecidedMeansLast, PTL

\* ... and in one that was built by clicks and typed on.
THEOREM LastTokenDecidesClicks == ViewSpec => []LastTokenWins
BY ClickedFilterIsInductive, DecidedMeansLast, PTL

-----------------------------------------------------------------------------
(* SQL's three-valued logic. *)

Known == {{TRUE}, {FALSE}}
Three == Known \cup {{}}

LEMMA ThreeDiffer ==
    {TRUE} # {FALSE} /\ {TRUE} # {} /\ {FALSE} # {}
BY Zenon

LEMMA Not3Table ==
    /\ Not3({TRUE}) = {FALSE} /\ Not3({FALSE}) = {TRUE} /\ Not3({}) = {}
    /\ \A a \in Three : Not3(a) \in Three /\ Not3(Not3(a)) = a
    /\ \A a \in Known : Not3(a) \in Known
<1>1. Not3({TRUE}) = {FALSE}
  <2>1. (~TRUE) = FALSE
    OBVIOUS
  <2> QED
    BY <2>1, Zenon DEF Not3
<1>2. Not3({FALSE}) = {TRUE}
  <2>1. (~FALSE) = TRUE
    OBVIOUS
  <2> QED
    BY <2>1, Zenon DEF Not3
<1>3. Not3({}) = {}
  BY Zenon DEF Not3
<1> QED
  BY <1>1, <1>2, <1>3, Zenon DEF Three, Known

LEMMA And3Table ==
    /\ \A a \in Three : And3({a}) = a
    /\ \A as \in SUBSET Three : And3(as) \in Three
    /\ \A as \in SUBSET Known : And3(as) \in Known
    /\ \A a \in Three : And3({{FALSE}, a}) = {FALSE}
    /\ \A a \in Three : And3({{TRUE}, a}) = a
<1>1. ASSUME NEW a \in Three PROVE And3({a}) = a
  BY ThreeDiffer, Zenon DEF And3, Three, Known
<1>2. \A as \in SUBSET Three : And3(as) \in Three
  BY Zenon DEF And3, Three, Known
<1>3. ASSUME NEW as \in SUBSET Known PROVE And3(as) \in Known
  BY ThreeDiffer, Zenon DEF And3, Known
<1>4. ASSUME NEW a \in Three PROVE And3({{FALSE}, a}) = {FALSE}
  BY Zenon DEF And3
<1>5. ASSUME NEW a \in Three PROVE And3({{TRUE}, a}) = a
  BY ThreeDiffer, Zenon DEF And3, Three, Known
<1> QED
  BY <1>1, <1>2, <1>3, <1>4, <1>5, Zenon

LEMMA Or3Table ==
    /\ \A a \in Three : Or3({{TRUE}, a}) = {TRUE}
    /\ \A a \in Three : Or3({{FALSE}, a}) = a
<1>1. ASSUME NEW a \in Three, NEW b \in Three
      PROVE  Or3({a, b}) = Not3(And3({Not3(a), Not3(b)}))
  <2>1. {Not3(c) : c \in {a, b}} = {Not3(a), Not3(b)}
    BY Zenon
  <2> QED
    BY <2>1, Zenon DEF Or3
<1>2. {TRUE} \in Three /\ {FALSE} \in Three
  BY Zenon DEF Three, Known
<1>3. ASSUME NEW a \in Three PROVE Or3({{TRUE}, a}) = {TRUE}
  <2>1. Or3({{TRUE}, a}) = Not3(And3({{FALSE}, Not3(a)}))
    <3>1. Or3({{TRUE}, a}) = Not3(And3({Not3({TRUE}), Not3(a)}))
      BY <1>1, <1>2, Zenon
    <3> QED
      BY <3>1, Not3Table, Zenon
  <2>2. And3({{FALSE}, Not3(a)}) = {FALSE}
    BY And3Table, Not3Table, Zenon
  <2> QED
    BY <2>1, <2>2, Not3Table, Zenon
<1>4. ASSUME NEW a \in Three PROVE Or3({{FALSE}, a}) = a
  <2>1. Or3({{FALSE}, a}) = Not3(And3({{TRUE}, Not3(a)}))
    <3>1. Or3({{FALSE}, a}) = Not3(And3({Not3({FALSE}), Not3(a)}))
      BY <1>1, <1>2, Zenon
    <3> QED
      BY <3>1, Not3Table, Zenon
  <2>2. And3({{TRUE}, Not3(a)}) = Not3(a)
    BY And3Table, Not3Table, Zenon
  <2> QED
    BY <2>1, <2>2, Not3Table, Zenon
<1> QED
  BY <1>3, <1>4

\* One condition is true just when the other is not.
Opposite(a, b) == a \in Three /\ b \in Three /\ (a = {TRUE} <=> b # {TRUE})

LEMMA OptionCases ==
    ASSUME NEW column, \A a, b \in column : a = b
    PROVE  column = {} \/ \E x : column = {x}
<1>1. CASE column # {}
  <2>1. PICK x \in column : TRUE
    BY <1>1
  <2>2. column = {x}
    BY <2>1
  <2> QED
    BY <2>2
<1> QED
  BY <1>1

LEMMA IsNullTable ==
    /\ IsNull({}) = {TRUE}
    /\ \A x : IsNull({x}) = {FALSE}
<1>1. ({} = {}) = TRUE
  OBVIOUS
<1>2. ASSUME NEW x PROVE ({x} = {}) = FALSE
  BY Zenon
<1> QED
  BY <1>1, <1>2, Zenon DEF IsNull

LEMMA KnownOpposite ==
    ASSUME NEW a \in Known
    PROVE  Opposite(Not3(a), a)
BY Not3Table, ThreeDiffer, Zenon DEF Opposite, Three, Known

LEMMA ExactOpposite ==
    ASSUME NEW column, \A a, b \in column : a = b,
           NEW nullable \in BOOLEAN, nullable \/ column # {},
           NEW no, NEW yes, no.negated = TRUE, yes.negated = FALSE, no.value = yes.value
    PROVE  Opposite(AddExact(column, no, nullable), AddExact(column, yes, nullable))
<1> DEFINE equal == Equals(column, yes.value)
<1>1. AddExact(column, yes, nullable) = equal
  BY Zenon DEF AddExact
<1>2. AddExact(column, no, nullable)
        = IF nullable THEN Or3({IsNull(column), Not3(equal)}) ELSE Not3(equal)
  BY Zenon DEF AddExact
<1>3. CASE column = {}
  <2>1. equal = {} /\ nullable
    BY <1>3, Zenon DEF Equals
  <2>2. Or3({IsNull(column), Not3(equal)}) = {TRUE}
    <3> HIDE DEF equal
    <3> QED
      BY <1>3, <2>1, IsNullTable, Not3Table, Or3Table, Zenon DEF Three
  <2> HIDE DEF equal
  <2> QED
    BY <1>1, <1>2, <2>1, <2>2, ThreeDiffer, Zenon DEF Opposite, Three, Known
<1>4. ASSUME NEW x, column = {x}
      PROVE  Opposite(AddExact(column, no, nullable), AddExact(column, yes, nullable))
  <2>1. PICK e \in BOOLEAN : e = (x = yes.value)
    BY Zenon
  <2>2. equal = {e}
    <3>1. equal = {s = yes.value : s \in {x}}
      BY <1>4, Zenon DEF Equals
    <3>2. {s = yes.value : s \in {x}} = {x = yes.value}
      BY Zenon
    <3> QED
      BY <2>1, <3>1, <3>2, Zenon
  <2>3. equal \in Known
    BY <2>2, Zenon DEF Known
  <2> HIDE DEF equal
  <2>4. Not3(equal) \in Three
    BY <2>3, Not3Table, Zenon DEF Three
  <2>5. AddExact(column, no, nullable) = Not3(equal)
    BY <1>2, <1>4, <2>4, IsNullTable, Or3Table, Zenon
  <2> QED
    BY <1>1, <2>3, <2>5, KnownOpposite, Zenon
<1> QED
  BY <1>3, <1>4, OptionCases, Zenon

LEMMA LikeOpposite ==
    ASSUME NEW column, \A a, b \in column : a = b, NEW patterns,
           NEW nullable \in BOOLEAN, nullable \/ column # {}
    PROVE  Opposite(AddLike(column, patterns, TRUE, nullable),
                    AddLike(column, patterns, FALSE, nullable))
<1> DEFINE likes == {{Like(p, s) : s \in column} : p \in patterns}
           none == And3({Not3(a) : a \in likes})
<1>1. AddLike(column, patterns, FALSE, nullable) = Not3(none)
  BY Zenon DEF AddLike, Or3
<1>2. AddLike(column, patterns, TRUE, nullable)
        = IF nullable THEN Or3({IsNull(column), none}) ELSE none
  BY Zenon DEF AddLike
<1>3. CASE column = {}
  <2>1. \A a \in likes : a = {}
    BY <1>3, Zenon
  <2>2. none \in Three /\ Not3(none) # {TRUE}
    <3>1. CASE likes = {}
      <4>1. {Not3(a) : a \in likes} = {}
        BY <3>1, Zenon
      <4>2. none = {TRUE}
        BY <4>1, Zenon DEF And3
      <4> HIDE DEF none
      <4> QED
        BY <4>2, Not3Table, ThreeDiffer, Zenon DEF Three, Known
    <3>2. CASE likes # {}
      <4>1. {Not3(a) : a \in likes} = {{}}
        <5> HIDE DEF likes
        <5>1. PICK l \in likes : TRUE
          BY <3>2
        <5>2. \A a \in likes : Not3(a) = {}
          BY <2>1, Not3Table, Zenon
        <5> QED
          BY <5>1, <5>2, Zenon
      <4>2. none = {}
        BY <4>1, And3Table, Zenon DEF Three
      <4> HIDE DEF none
      <4> QED
        BY <4>2, Not3Table, ThreeDiffer, Zenon DEF Three, Known
    <3> QED
      BY <3>1, <3>2
  <2>3. Or3({IsNull(column), none}) = {TRUE} /\ nullable
    <3> HIDE DEF none
    <3> QED
      BY <1>3, <2>2, IsNullTable, Or3Table, Zenon
  <2> HIDE DEF none
  <2> QED
    BY <1>1, <1>2, <2>2, <2>3, Not3Table, Zenon DEF Opposite, Three, Known
<1>4. ASSUME NEW x, column = {x}
      PROVE  Opposite(AddLike(column, patterns, TRUE, nullable),
                      AddLike(column, patterns, FALSE, nullable))
  <2>1. \A p : Like(p, x) \in BOOLEAN
    BY DEF Like
  <2>2. \A a \in likes : a \in Known
    BY <1>4, <2>1, Zenon DEF Known
  <2>3. {Not3(a) : a \in likes} \in SUBSET Known
    <3> HIDE DEF likes
    <3>1. {Not3(a) : a \in likes} \in SUBSET Known
      <4>1. \A a \in likes : Not3(a) \in Known
        BY <2>2, Not3Table, Zenon
      <4> QED
        BY <4>1, Zenon
    <3> QED
      BY <3>1
  <2>4. none \in Known
    BY <2>3, And3Table, Zenon
  <2> HIDE DEF none
  <2>5. AddLike(column, patterns, TRUE, nullable) = none
    BY <1>2, <1>4, <2>4, IsNullTable, Or3Table, Zenon DEF Three
  <2>6. Opposite(none, Not3(none))
    BY <2>4, Not3Table, ThreeDiffer, Zenon DEF Opposite, Three, Known
  <2> QED
    BY <1>1, <2>5, <2>6, Zenon
<1> QED
  BY <1>3, <1>4, OptionCases, Zenon

-----------------------------------------------------------------------------
(* A filter of one keyword. *)

LEMMA OnlySelects ==
    ASSUME NEW key \in Keys, NEW fv, NEW row, NEW c \in Three,
           Condition(key, fv, row) = {c}
    PROVE  Selects(Only(key, fv), row) <=> c = {TRUE}
<1> DEFINE only == Only(key, fv)
           Of(k) == UNION {Condition(k, g, row) : g \in only[k]}
<1>1. \A k \in Keys : only[k] = IF k = key THEN {fv} ELSE {}
  BY DEF Only
<1>2. Of(key) = {c}
  <2>1. only[key] = {fv}
    BY <1>1
  <2> HIDE DEF only
  <2> QED
    BY <2>1, Zenon
<1>3. ASSUME NEW k \in Keys, k # key PROVE Of(k) = {}
  <2>1. only[k] = {}
    BY <1>1, <1>3
  <2> HIDE DEF only
  <2> QED
    BY <2>1, Zenon
<1>4. UNION {Of(k) : k \in Keys} = {c}
  <2> HIDE DEF Of
  <2>1. ASSUME NEW x \in UNION {Of(k) : k \in Keys} PROVE x = c
    <3>1. PICK k \in Keys : x \in Of(k)
      BY <2>1, Zenon
    <3>2. k = key
      BY <3>1, <1>3, Zenon
    <3> QED
      BY <3>1, <3>2, <1>2, Zenon
  <2>2. c \in UNION {Of(k) : k \in Keys}
    BY <1>2, Zenon
  <2> QED
    BY <2>1, <2>2, Zenon
<1>5. And3({c}) = c
  BY And3Table, Zenon
<1> QED
  BY <1>4, <1>5, Zenon DEF Selects

\* The two conditions of a keyword with one value, negated and plain.
Complements(key, no, yes, row) ==
    \E a, b : /\ Condition(key, no, row) = {a} /\ Condition(key, yes, row) = {b}
              /\ Opposite(a, b)

LEMMA ComplementsSelect ==
    ASSUME NEW key \in Keys, NEW no, NEW yes, NEW row, Complements(key, no, yes, row)
    PROVE  Selects(Only(key, no), row) <=> ~Selects(Only(key, yes), row)
<1>1. PICK a \in Three, b \in Three :
        /\ Condition(key, no, row) = {a} /\ Condition(key, yes, row) = {b}
        /\ a = {TRUE} <=> b # {TRUE}
  BY Zenon DEF Complements, Opposite
<1> QED
  BY <1>1, OnlySelects, Zenon

LEMMA UserIsOne ==
    ASSUME NEW name, UserId(name) # {}
    PROVE  \E u : UserId(name) = {u}
<1>1. \A a, b \in ParseU32(name) : a = b
  BY Zenon DEF ParseU32, ParseInt
<1>2. \A a, b \in {Passwd[n] : n \in {name} \cap DOMAIN Passwd} : a = b
  BY Zenon
<1>3. \A a, b \in UserId(name) : a = b
  BY <1>1, <1>2, Zenon DEF UserId
<1> QED
  BY <1>3, OptionCases, Zenon

(* The conditions of each keyword. *)

LEMMA UnsignedCondition ==
    ASSUME NEW key \in UnsignedKeys \ {"tty"}, NEW fv, NEW row
    PROVE  Condition(key, fv, row) = {AddExact({row[key]}, fv, FALSE)}
<1>1. key \notin {"comm", "file", "cmd", "session", "exit", "tty", "user"}
  BY DEF UnsignedKeys
<1> QED
  BY <1>1, Zenon DEF Condition

LEMMA CommCondition ==
    ASSUME NEW key \in {"comm"}, NEW fv, NEW row
    PROVE  Condition(key, fv, row) =
             {AddLike(row.comm, Alternatives(GlobToLike(fv.value)), fv.negated, TRUE)}
<1>1. /\ key # "file" /\ key # "cmd" /\ key # "session" /\ key # "exit" /\ key # "tty"
      /\ key # "user" /\ key \notin UnsignedKeys \ {"tty"}
  BY DEF UnsignedKeys
<1> QED
  BY <1>1, Zenon DEF Condition

LEMMA FileCondition ==
    ASSUME NEW key \in {"file"}, NEW fv, NEW row
    PROVE  Condition(key, fv, row) =
             {AddLike(row.filename, Alternatives(GlobToLike(fv.value)), fv.negated, TRUE)}
<1>1. /\ key # "comm" /\ key # "cmd" /\ key # "session" /\ key # "exit" /\ key # "tty"
      /\ key # "user" /\ key \notin UnsignedKeys \ {"tty"}
  BY DEF UnsignedKeys
<1> QED
  BY <1>1, Zenon DEF Condition

LEMMA CmdCondition ==
    ASSUME NEW key \in {"cmd"}, NEW fv, NEW row
    PROVE  Condition(key, fv, row) =
             {AddLike(row.filename, {<<"%", "/">> \o GlobToLike(a) : a \in Alternatives(fv.value)},
                     fv.negated, TRUE)}
<1>1. /\ key # "comm" /\ key # "file" /\ key # "session" /\ key # "exit" /\ key # "tty"
      /\ key # "user" /\ key \notin UnsignedKeys \ {"tty"}
  BY DEF UnsignedKeys
<1> QED
  BY <1>1, Zenon DEF Condition

LEMMA SessionCondition ==
    ASSUME NEW key \in {"session"}, NEW fv, NEW row
    PROVE  Condition(key, fv, row) =
             {AddLike({row.session}, Alternatives(EscapeLike(fv.value) \o <<"%">>),
                     fv.negated, FALSE)}
<1>1. /\ key # "comm" /\ key # "file" /\ key # "cmd" /\ key # "exit" /\ key # "tty"
      /\ key # "user" /\ key \notin UnsignedKeys \ {"tty"}
  BY DEF UnsignedKeys
<1> QED
  BY <1>1, Zenon DEF Condition

LEMMA ExitCondition ==
    ASSUME NEW key \in {"exit"}, NEW fv, NEW row
    PROVE  Condition(key, fv, row) =
             {AddExact(row.exit, fv, TRUE)}
<1>1. /\ key # "comm" /\ key # "file" /\ key # "cmd" /\ key # "session" /\ key # "tty"
      /\ key # "user" /\ key \notin UnsignedKeys \ {"tty"}
  BY DEF UnsignedKeys
<1> QED
  BY <1>1, Zenon DEF Condition

LEMMA TtyCondition ==
    ASSUME NEW key \in {"tty"}, NEW fv, NEW row
    PROVE  Condition(key, fv, row) =
             {AddExact(row.tty, fv, TRUE)}
<1>1. /\ key # "comm" /\ key # "file" /\ key # "cmd" /\ key # "session" /\ key # "exit"
      /\ key # "user" /\ key \notin UnsignedKeys \ {"tty"}
  BY DEF UnsignedKeys
<1> QED
  BY <1>1, Zenon DEF Condition

LEMMA UserCondition ==
    ASSUME NEW key \in {"user"}, NEW fv, NEW row
    PROVE  Condition(key, fv, row) =
             {AddExact({row.uid}, [fv EXCEPT !.value = u], FALSE) : u \in UserId(fv.value)}
<1>1. /\ key # "comm" /\ key # "file" /\ key # "cmd" /\ key # "session" /\ key # "exit"
      /\ key # "tty" /\ key \notin UnsignedKeys \ {"tty"}
  BY DEF UnsignedKeys
<1> QED
  BY <1>1, Zenon DEF Condition

\* The negated and the plain filter with one value.
Negates(no, yes, value) ==
    no = [value |-> value, negated |-> TRUE] /\ yes = [value |-> value, negated |-> FALSE]

LEMMA ConditionsComplement ==
    ASSUME NEW key \in Keys, NEW value, NEW row \in ExecRows,
           key = "user" => UserId(value) # {},
           NEW no, NEW yes, Negates(no, yes, value)
    PROVE  Complements(key, no, yes, row)
<1>1. /\ no.value = value /\ yes.value = value
      /\ no.negated = TRUE /\ yes.negated = FALSE
  BY DEF Negates
<1>2. ASSUME NEW column, \A a, b \in column : a = b, NEW nullable \in BOOLEAN,
             nullable \/ column # {}
      PROVE  /\ Opposite(AddExact(column, no, nullable), AddExact(column, yes, nullable))
             /\ \A patterns : Opposite(AddLike(column, patterns, no.negated, nullable),
                                       AddLike(column, patterns, yes.negated, nullable))
  BY <1>1, <1>2, ExactOpposite, LikeOpposite, Zenon
<1>3. /\ \A a, b \in row.comm : a = b
      /\ \A a, b \in row.filename : a = b
      /\ \A a, b \in row.exit : a = b
      /\ \A a, b \in row.tty : a = b
      /\ \A x : {x} # {} /\ \A a, b \in {x} : a = b
  BY RowsAssumption, Zenon
<1>4. CASE key = "comm"
  <2>1. /\ Condition(key, no, row) = {AddLike(row.comm, Alternatives(GlobToLike(value)), no.negated, TRUE)}
        /\ Condition(key, yes, row) = {AddLike(row.comm, Alternatives(GlobToLike(value)), yes.negated, TRUE)}
    BY <1>1, <1>4, CommCondition, Zenon
  <2>2. Opposite(AddLike(row.comm, Alternatives(GlobToLike(value)), no.negated, TRUE),
                 AddLike(row.comm, Alternatives(GlobToLike(value)), yes.negated, TRUE))
    BY <1>2, <1>3, Zenon
  <2> QED
    BY <2>1, <2>2, Zenon DEF Complements
<1>5. CASE key = "file"
  <2>1. /\ Condition(key, no, row) = {AddLike(row.filename, Alternatives(GlobToLike(value)), no.negated, TRUE)}
        /\ Condition(key, yes, row) = {AddLike(row.filename, Alternatives(GlobToLike(value)), yes.negated, TRUE)}
    BY <1>1, <1>5, FileCondition, Zenon
  <2>2. Opposite(AddLike(row.filename, Alternatives(GlobToLike(value)), no.negated, TRUE),
                 AddLike(row.filename, Alternatives(GlobToLike(value)), yes.negated, TRUE))
    BY <1>2, <1>3, Zenon
  <2> QED
    BY <2>1, <2>2, Zenon DEF Complements
<1>6. CASE key = "cmd"
  <2>0. PICK globs : globs = {<<"%", "/">> \o GlobToLike(a) : a \in Alternatives(value)}
    OBVIOUS
  <2>1. /\ Condition(key, no, row) = {AddLike(row.filename, globs, no.negated, TRUE)}
        /\ Condition(key, yes, row) = {AddLike(row.filename, globs, yes.negated, TRUE)}
    BY <2>0, <1>1, <1>6, CmdCondition, Zenon
  <2>2. Opposite(AddLike(row.filename, globs, no.negated, TRUE),
                 AddLike(row.filename, globs, yes.negated, TRUE))
    BY <1>2, <1>3, Zenon
  <2> QED
    BY <2>1, <2>2, Zenon DEF Complements
<1>7. CASE key = "session"
  <2>1. /\ Condition(key, no, row) = {AddLike({row.session}, Alternatives(EscapeLike(value) \o <<"%">>), no.negated, FALSE)}
        /\ Condition(key, yes, row) = {AddLike({row.session}, Alternatives(EscapeLike(value) \o <<"%">>), yes.negated, FALSE)}
    BY <1>1, <1>7, SessionCondition, Zenon
  <2>2. Opposite(AddLike({row.session}, Alternatives(EscapeLike(value) \o <<"%">>), no.negated, FALSE),
                 AddLike({row.session}, Alternatives(EscapeLike(value) \o <<"%">>), yes.negated, FALSE))
    BY <1>2, <1>3, Zenon
  <2> QED
    BY <2>1, <2>2, Zenon DEF Complements
<1>8. CASE key = "exit"
  <2>1. /\ Condition(key, no, row) = {AddExact(row.exit, no, TRUE)}
        /\ Condition(key, yes, row) = {AddExact(row.exit, yes, TRUE)}
    BY <1>1, <1>8, ExitCondition, Zenon
  <2>2. Opposite(AddExact(row.exit, no, TRUE),
                 AddExact(row.exit, yes, TRUE))
    BY <1>2, <1>3, Zenon
  <2> QED
    BY <2>1, <2>2, Zenon DEF Complements
<1>9. CASE key = "tty"
  <2>1. /\ Condition(key, no, row) = {AddExact(row.tty, no, TRUE)}
        /\ Condition(key, yes, row) = {AddExact(row.tty, yes, TRUE)}
    BY <1>1, <1>9, TtyCondition, Zenon
  <2>2. Opposite(AddExact(row.tty, no, TRUE),
                 AddExact(row.tty, yes, TRUE))
    BY <1>2, <1>3, Zenon
  <2> QED
    BY <2>1, <2>2, Zenon DEF Complements
<1>10. CASE key \in UnsignedKeys \ {"tty"}
  <2>1. /\ Condition(key, no, row) = {AddExact({row[key]}, no, FALSE)}
        /\ Condition(key, yes, row) = {AddExact({row[key]}, yes, FALSE)}
    BY <1>1, <1>10, UnsignedCondition, Zenon
  <2>2. Opposite(AddExact({row[key]}, no, FALSE),
                 AddExact({row[key]}, yes, FALSE))
    BY <1>2, <1>3, Zenon
  <2> QED
    BY <2>1, <2>2, Zenon DEF Complements
<1>11. CASE key = "user"
  <2>1. PICK u : UserId(value) = {u}
    BY <1>11, UserIsOne, Zenon
  <2>2. PICK noUser, yesUser : /\ noUser = [no EXCEPT !.value = u]
                               /\ yesUser = [yes EXCEPT !.value = u]
    OBVIOUS
  <2>3. /\ noUser.negated = TRUE /\ yesUser.negated = FALSE
        /\ noUser.value = yesUser.value
    BY <2>2 DEF Negates
  <2>4. Opposite(AddExact({row.uid}, noUser, FALSE), AddExact({row.uid}, yesUser, FALSE))
    BY <1>3, <2>3, ExactOpposite, Zenon
  <2>5. /\ Condition(key, no, row) = {AddExact({row.uid}, noUser, FALSE)}
        /\ Condition(key, yes, row) = {AddExact({row.uid}, yesUser, FALSE)}
    <3>1. /\ Condition(key, no, row) =
               {AddExact({row.uid}, [no EXCEPT !.value = v], FALSE) : v \in UserId(no.value)}
          /\ Condition(key, yes, row) =
               {AddExact({row.uid}, [yes EXCEPT !.value = v], FALSE) : v \in UserId(yes.value)}
      BY <1>11, UserCondition, Zenon
    <3>2. UserId(no.value) = {u} /\ UserId(yes.value) = {u}
      BY <1>1, <2>1
    <3> QED
      BY <3>1, <3>2, <2>2, Zenon
  <2> QED
    BY <2>4, <2>5, Zenon DEF Complements
<1>12. key \in UnsignedKeys \ {"tty"}
       \/ key \in {"comm", "file", "cmd", "session", "exit", "tty", "user"}
  BY DEF Keys, UnsignedKeys, StringKeys
<1> QED
  BY <1>4, <1>5, <1>6, <1>7, <1>8, <1>9, <1>10, <1>11, <1>12

LEMMA DecidedIsOne ==
    ASSUME FilterInv, NEW key \in Keys, NEW fv \in filter[key]
    PROVE  \E v, n : fv = [value |-> v, negated |-> n]
<1>1. PICK last \in DOMAIN query : filter[key] = Value(key, query[last])
  BY DEF FilterInv, Decided
<1>2. PICK v \in Parsed(key, query[last].rest) :
        fv = [value |-> v, negated |-> query[last].bangs = 1]
  BY <1>1, Zenon DEF Value
<1> QED
  BY <1>2, Zenon

LEMMA ExceptNegated ==
    ASSUME NEW v, NEW old, NEW new
    PROVE  [[value |-> v, negated |-> old] EXCEPT !.negated = new]
             = [value |-> v, negated |-> new]
OBVIOUS

LEMMA FilterComplements == ASSUME FilterInv PROVE NegationComplements
<1> SUFFICES ASSUME NEW key \in Keys, NEW fv \in filter[key],
                    key = "user" => UserId(fv.value) # {}, NEW row \in ExecRows
             PROVE  Selects(Only(key, [fv EXCEPT !.negated = TRUE]), row)
                      <=> ~Selects(Only(key, [fv EXCEPT !.negated = FALSE]), row)
  BY Zenon DEF NegationComplements
<1>1. PICK v, n : fv = [value |-> v, negated |-> n]
  BY DecidedIsOne, Zenon
<1>2. PICK no, yes : /\ no = [value |-> v, negated |-> TRUE]
                     /\ yes = [value |-> v, negated |-> FALSE]
  OBVIOUS
<1>3. fv.value = v /\ Negates(no, yes, v) /\ no = [fv EXCEPT !.negated = TRUE] /\ yes = [fv EXCEPT !.negated = FALSE]
  <2>1. fv.value = v
    BY <1>1
  <2>2. no = [fv EXCEPT !.negated = TRUE]
    BY <1>1, <1>2, ExceptNegated, Zenon
  <2>3. yes = [fv EXCEPT !.negated = FALSE]
    BY <1>1, <1>2, ExceptNegated, Zenon
  <2>4. Negates(no, yes, v)
    BY <1>2, Zenon DEF Negates
  <2> QED
    BY <2>1, <2>2, <2>3, <2>4
<1>4. Complements(key, no, yes, row)
  BY <1>3, ConditionsComplement, Zenon
<1> QED
  BY <1>3, <1>4, ComplementsSelect, Zenon

\* A negated keyword selects exactly the rows the plain one does not, NULL or
\* not, for every table of rows and every user database.
THEOREM NegationIsComplement == Spec => []NegationComplements
BY FilterIsInductive, FilterComplements, PTL

THEOREM NegationIsComplementClicks == ViewSpec => []NegationComplements
BY ClickedFilterIsInductive, FilterComplements, PTL

-----------------------------------------------------------------------------
(* The patterns of LIKE and of globs, for PatternsMeanWhatTheySay at the     *)
(* end.  First the community modules' FlattenSeq, which is recursive: what   *)
(* it returns is its arguments one after the other.                          *)

\* A set of natural numbers has a least one.
LEMMA LeastExists ==
    ASSUME NEW T \in SUBSET Nat, T # {}
    PROVE  \E n \in T : \A m \in T : n <= m
<1> DEFINE R == {ss \in Nat \X Nat : ss[1] < ss[2]}
<1>1. IsWellFoundedOn(R, Nat)
    BY NatLessThanWellFounded, Zenon DEF OpToRel
<1> HIDE DEF R
<1>2. PICK n \in T : \A m \in T : ~ (<<m, n>> \in R)
    BY <1>1, WFMin
<1>3. ASSUME NEW m \in T PROVE n <= m
  <2>1. m \in Nat /\ n \in Nat /\ (m < n => <<m, n>> \in R)
      BY DEF R
  <2> QED
      BY <1>2, <2>1
<1> QED
    BY <1>3

\* Induction, over a set in the place of a predicate.
LEMMA Induction ==
    ASSUME NEW S, 0 \in S, \A n \in Nat : n \in S => n + 1 \in S
    PROVE  Nat \subseteq S
<1> SUFFICES ASSUME Nat \ S # {} PROVE FALSE
    OBVIOUS
<1>1. PICK n \in Nat \ S : \A m \in Nat \ S : n <= m
    BY LeastExists
<1>2. n # 0 /\ n - 1 \in Nat /\ n - 1 \in S
    BY <1>1
<1> QED
    BY <1>1, <1>2

\* What is in a concatenation, and where.
LEMMA ConcatParts ==
    ASSUME NEW X, NEW s \in Seq(X), NEW t \in Seq(X)
    PROVE  /\ s \o t \in Seq(X) /\ Len(s \o t) = Len(s) + Len(t)
           /\ \A j \in 1..Len(s) : j \in 1..Len(s \o t) /\ (s \o t)[j] = s[j]
           /\ \A j \in 1..Len(t) : Len(s) + j \in 1..Len(s \o t) /\ (s \o t)[Len(s) + j] = t[j]
OBVIOUS

\* The recursion in FlattenSeq has a solution.
LEMMA FlattenExists ==
    ASSUME NEW X, NEW seqs \in Seq(Seq(X))
    PROVE  \E f \in [1..Len(seqs) -> Seq(X)] :
             f = [i \in 1..Len(seqs) |-> IF i = 1 THEN seqs[i] ELSE f[i - 1] \o seqs[i]]
<1> DEFINE N == Len(seqs)
           Solves(g, n) == /\ g \in [1..n -> Seq(X)]
                         /\ \A i \in 1..n : g[i] = IF i = 1 THEN seqs[i] ELSE g[i - 1] \o seqs[i]
           S == {n \in Nat : n <= N => \E g \in [1..n -> Seq(X)] : Solves(g, n)}
<1>1. N \in Nat
    OBVIOUS
<1>2. 0 \in S
  <2>1. Solves([i \in 1..0 |-> << >>], 0)
      OBVIOUS
  <2> QED
      BY <2>1
<1>3. ASSUME NEW n \in Nat, n \in S PROVE n + 1 \in S
  <2> HIDE DEF Solves
  <2> SUFFICES ASSUME n + 1 <= N PROVE \E g \in [1..n + 1 -> Seq(X)] : Solves(g, n + 1)
      BY <1>3
  <2>1. PICK g \in [1..n -> Seq(X)] : Solves(g, n)
      BY <1>1, <1>3
  <2> USE DEF Solves
  <2> DEFINE new == IF n = 0 THEN seqs[n + 1] ELSE g[n] \o seqs[n + 1]
             h == [i \in 1..n + 1 |-> IF i = n + 1 THEN new ELSE g[i]]
  <2>2. new \in Seq(X)
      BY <2>1
  <2>3. h \in [1..n + 1 -> Seq(X)]
      BY <2>2
  <2>4. ASSUME NEW i \in 1..n + 1
        PROVE  h[i] = IF i = 1 THEN seqs[i] ELSE h[i - 1] \o seqs[i]
    <3>1. CASE i = n + 1
        BY <2>1, <3>1
    <3>2. CASE i # n + 1
      <4>1. i \in 1..n /\ h[i] = g[i] /\ (i # 1 => h[i - 1] = g[i - 1])
          BY <3>2
      <4> QED
          BY <2>1, <4>1
    <3> QED
        BY <3>1, <3>2
  <2> QED
      BY <2>3, <2>4
<1>4. N \in S
    BY ONLY <1>1, <1>2, <1>3, Induction
<1>5. PICK g \in [1..N -> Seq(X)] : Solves(g, N)
    BY <1>4
<1>6. g = [i \in 1..N |-> IF i = 1 THEN seqs[i] ELSE g[i - 1] \o seqs[i]]
    BY <1>5
<1> QED
    BY <1>6

\* FlattenSeq adds one sequence after the other.
LEMMA FlattenSteps ==
    ASSUME NEW X, NEW seqs \in Seq(Seq(X)), seqs # << >>
    PROVE  \E f \in [1..Len(seqs) -> Seq(X)] :
             /\ f[1] = seqs[1]
             /\ \A i \in 2..Len(seqs) : f[i] = f[i - 1] \o seqs[i]
             /\ FlattenSeq(seqs) = f[Len(seqs)]
<1> DEFINE N == Len(seqs)
           F == CHOOSE f : f = [i \in 1..N |-> IF i = 1 THEN seqs[i] ELSE f[i - 1] \o seqs[i]]
<1>1. N \in Nat /\ N # 0
    OBVIOUS
<1>2. PICK g \in [1..N -> Seq(X)] : g = [i \in 1..N |-> IF i = 1 THEN seqs[i] ELSE g[i - 1] \o seqs[i]]
    BY FlattenExists
<1>3. F = [i \in 1..N |-> IF i = 1 THEN seqs[i] ELSE F[i - 1] \o seqs[i]]
    BY <1>2, Zenon
<1>4. FlattenSeq(seqs) = F[N]
    BY <1>1, Zenon DEF FlattenSeq
<1> HIDE DEF F
<1>5. \A i \in 1..N : F[i] = IF i = 1 THEN seqs[i] ELSE F[i - 1] \o seqs[i]
    BY <1>3, Zenon
<1>6. F \in [1..N -> Seq(X)]
  <2> DEFINE S == {n \in Nat : n + 1 \in 1..N => F[n + 1] \in Seq(X)}
  <2>1. 0 \in S
      BY <1>1, <1>5
  <2>2. ASSUME NEW n \in Nat, n \in S PROVE n + 1 \in S
    <3> SUFFICES ASSUME n + 2 \in 1..N PROVE F[n + 2] \in Seq(X)
        OBVIOUS
    <3>1. F[n + 2] = F[n + 1] \o seqs[n + 2]
      <4>1. n + 2 # 1 /\ (n + 2) - 1 = n + 1
          OBVIOUS
      <4> QED
          BY <1>5, <4>1
    <3>2. F[n + 1] \in Seq(X) /\ seqs[n + 2] \in Seq(X)
        BY <1>1, <2>2
    <3> QED
        BY <3>1, <3>2
  <2>3. Nat \subseteq S
      BY ONLY <2>1, <2>2, Induction
  <2>4. ASSUME NEW i \in 1..N PROVE F[i] \in Seq(X)
    <3>1. i - 1 \in Nat /\ (i - 1) + 1 = i
        BY <1>1
    <3>2. i - 1 \in S
        BY <2>3, <3>1
    <3> QED
        BY <3>1, <3>2
  <2> QED
      BY <1>3, <2>4
<1>7. 1 \in 1..N /\ \A i \in 2..N : i \in 1..N /\ i # 1
    BY <1>1
<1>8. F[1] = seqs[1] /\ \A i \in 2..N : F[i] = F[i - 1] \o seqs[i]
    BY <1>5, <1>7, Zenon
<1> QED
    BY <1>4, <1>6, <1>8

\* The sequences in seqs, of elements of X, make up whole one after the other,
\* and start says where each of them begins.
MakeUp(X, seqs, whole, start) ==
    /\ start \in [1..Len(seqs) + 1 -> Nat] /\ start[1] = 0
    /\ \A i \in 1..Len(seqs) : start[i + 1] = start[i] + Len(seqs[i])
    /\ whole \in Seq(X) /\ Len(whole) = start[Len(seqs) + 1]
    /\ \A i \in 1..Len(seqs) : \A j \in 1..Len(seqs[i]) :
         start[i] + j \in 1..Len(whole) /\ whole[start[i] + j] = seqs[i][j]

\* FlattenSeq makes its sequences up into one.
LEMMA FlattenParts ==
    ASSUME NEW X, NEW seqs \in Seq(Seq(X))
    PROVE  \E start : MakeUp(X, seqs, FlattenSeq(seqs), start)
<1> DEFINE N == Len(seqs)
           flat == FlattenSeq(seqs)
<1>1. N \in Nat /\ \A i \in 1..N : seqs[i] \in Seq(X)
    OBVIOUS
<1>2. CASE N = 0
  <2>1. flat = << >>
      BY <1>2 DEF FlattenSeq
  <2> DEFINE start == [i \in 1..1 |-> 0]
  <2>2. start \in [1..N + 1 -> Nat]
      BY <1>2
  <2>3. MakeUp(X, seqs, << >>, start)
      BY <1>2, <2>2 DEF MakeUp
  <2> QED
      BY <2>1, <2>3
<1>3. CASE N # 0
  <2>1. PICK f \in [1..N -> Seq(X)] : /\ f[1] = seqs[1]
                                      /\ \A i \in 2..N : f[i] = f[i - 1] \o seqs[i]
                                      /\ flat = f[N]
    <3>1. seqs # << >>
        BY <1>3
    <3> QED
        BY <3>1, FlattenSteps
  <2> HIDE DEF flat, N
  <2> DEFINE start == [i \in 1..N + 1 |-> IF i = 1 THEN 0 ELSE Len(f[i - 1])]
  <2>2. start \in [1..N + 1 -> Nat]
    <3> SUFFICES ASSUME NEW i \in 1..N + 1, i # 1 PROVE Len(f[i - 1]) \in Nat
        OBVIOUS
    <3>1. f[i - 1] \in Seq(X)
        BY <1>1
    <3> QED
        BY <3>1
  <2>3. start[1] = 0 /\ \A i \in 1..N : start[i + 1] = Len(f[i])
      BY <1>1, <1>3
  <2> HIDE DEF start
  <2>4. ASSUME NEW i \in 1..N PROVE start[i + 1] = start[i] + Len(seqs[i])
    <3>1. CASE i = 1
        BY <1>1, <2>1, <2>3, <3>1
    <3>2. CASE i # 1
      <4>1. i - 1 \in 1..N /\ i \in 2..N /\ (i - 1) + 1 = i
          BY <1>1, <3>2
      <4>2. start[i] = Len(f[i - 1])
          BY <2>3, <4>1
      <4>3. f[i] = f[i - 1] \o seqs[i] /\ f[i - 1] \in Seq(X)
          BY <2>1, <4>1
      <4>4. Len(f[i]) = Len(f[i - 1]) + Len(seqs[i])
          BY <1>1, <4>3, ConcatParts
      <4> QED
          BY <2>3, <4>2, <4>4
    <3> QED
        BY <3>1, <3>2
  <2> DEFINE In(n, i, j) == start[i] + j \in 1..Len(f[n]) /\ f[n][start[i] + j] = seqs[i][j]
             Placed(n) == \A i \in 1..n : \A j \in 1..Len(seqs[i]) : In(n, i, j)
             S == {n \in Nat : n + 1 \in 1..N => Placed(n + 1)}
  <2>5. 0 \in S
    <3>1. \A j \in 1..Len(seqs[1]) : In(1, 1, j)
        BY <1>1, <1>3, <2>1, <2>3
    <3> QED
        BY <3>1
  <2>6. ASSUME NEW n \in Nat, n \in S PROVE n + 1 \in S
    <3> HIDE DEF In
    <3> SUFFICES ASSUME n + 2 \in 1..N,
                        NEW i \in 1..n + 2, NEW j \in 1..Len(seqs[i])
                 PROVE  In(n + 2, i, j)
        OBVIOUS
    <3> USE DEF In
    <3> DEFINE s == f[n + 1]
               t == seqs[n + 2]
    <3>1. n + 1 \in 1..N /\ n + 2 \in 2..N /\ (n + 2) - 1 = n + 1 /\ (n + 1) + 1 = n + 2
        BY <1>1
    <3>2. f[n + 2] = s \o t /\ s \in Seq(X) /\ t \in Seq(X) /\ start[n + 2] = Len(s)
        BY <1>1, <2>1, <2>3, <3>1
    <3> HIDE DEF s, t
    <3>3. CASE i = n + 2
      <4>1. start[i] = Len(s) /\ seqs[i] = t /\ f[n + 2] = s \o t
          BY <3>2, <3>3 DEF t
      <4> QED
          BY <3>2, <4>1, ConcatParts
    <3>4. CASE i # n + 2
      <4>1. start[i] + j \in 1..Len(s) /\ s[start[i] + j] = seqs[i][j]
          BY <2>6, <3>1, <3>4 DEF s
      <4>2. In(n + 2, i, j) <=> /\ start[i] + j \in 1..Len(s \o t)
                                /\ (s \o t)[start[i] + j] = seqs[i][j]
          BY <3>2
      <4> HIDE DEF In
      <4> QED
          BY <3>2, <4>1, <4>2, ConcatParts
    <3> QED
        BY <3>3, <3>4
  <2> HIDE DEF In
  <2>7. Nat \subseteq S
      BY ONLY <2>5, <2>6, Induction
  <2>8. Placed(N)
    <3>1. N - 1 \in Nat /\ (N - 1) + 1 = N /\ N \in 1..N
        BY <1>1, <1>3
    <3>2. N - 1 \in S
        BY <2>7, <3>1
    <3> QED
        BY <3>1, <3>2
  <2>9. start[N + 1] = Len(f[N]) /\ f[N] \in Seq(X)
      BY <1>1, <1>3, <2>3
  <2>10. MakeUp(X, seqs, f[N], start)
      BY <2>2, <2>3, <2>4, <2>8, <2>9 DEF N, In, MakeUp
  <2> QED
      BY <2>1, <2>10 DEF flat
<1> QED
    BY <1>2, <1>3

\* Sequences of the same elements are the same.
LEMMA SameElements ==
    ASSUME NEW X, NEW s \in Seq(X), NEW t \in Seq(X), Len(s) = Len(t),
           \A i \in 1..Len(s) : s[i] = t[i]
    PROVE  s = t
OBVIOUS

\* What is in a subsequence, and where.
LEMMA SubSeqParts ==
    ASSUME NEW X, NEW s \in Seq(X), NEW c \in Int, NEW d \in Int, c >= 1, d <= Len(s)
    PROVE  /\ SubSeq(s, c, d) \in Seq(X)
           /\ Len(SubSeq(s, c, d)) = IF c <= d THEN (d - c) + 1 ELSE 0
           /\ \A i \in 1..(d - c) + 1 : SubSeq(s, c, d)[i] = s[(c + i) - 1]
OBVIOUS

IsInPart(seqs, start, q) ==
    \E i \in 1..Len(seqs) : \E j \in 1..Len(seqs[i]) : q = start[i] + j

\* Every place of a flattened sequence is in one of its parts.
LEMMA Covered ==
    ASSUME NEW X, NEW seqs \in Seq(Seq(X)), NEW whole, NEW start, MakeUp(X, seqs, whole, start),
           NEW q \in 1..Len(whole)
    PROVE  IsInPart(seqs, start, q)
<1> DEFINE n == Len(seqs)
           T == {i \in 1..n : q <= start[i + 1]}
<1>1. /\ n \in Nat /\ start \in [1..n + 1 -> Nat] /\ start[1] = 0
      /\ \A i \in 1..n : start[i + 1] = start[i] + Len(seqs[i]) /\ Len(seqs[i]) \in Nat
      /\ Len(whole) = start[n + 1] /\ q \in Nat /\ q >= 1 /\ q <= start[n + 1]
  <2>1. Len(whole) \in Nat
      BY DEF MakeUp
  <2>2. \A i \in 1..n : seqs[i] \in Seq(X)
      OBVIOUS
  <2> QED
      BY <2>1, <2>2 DEF MakeUp
<1> HIDE DEF n
<1>2. n # 0
    BY <1>1
<1>3. n \in T
    BY <1>1, <1>2
<1>4. PICK i \in T : \A k \in T : i <= k
  <2>1. T # {} /\ n \in Nat
      BY <1>1, <1>3
  <2> HIDE DEF T
  <2>2. T \in SUBSET Nat
      BY ONLY <2>1 DEF T
  <2> QED
      BY <2>1, <2>2, LeastExists
<1>5. i \in 1..n /\ q <= start[i + 1]
    OBVIOUS
<1>6. start[i] < q
  <2>1. CASE i = 1
      BY <1>1, <2>1
  <2>2. CASE i # 1
    <3>1. i - 1 \in 1..n /\ (i - 1) + 1 = i /\ ~(i <= i - 1)
        BY <1>1, <1>5, <2>2
    <3>2. i - 1 \notin T
        BY <1>4, <3>1
    <3>3. ~(q <= start[i])
        BY <3>1, <3>2
    <3> QED
        BY <1>1, <1>5, <3>3
  <2> QED
      BY <2>1, <2>2
<1>7. q - start[i] \in 1..Len(seqs[i]) /\ q = start[i] + (q - start[i])
  <2>1. start[i + 1] = start[i] + Len(seqs[i]) /\ Len(seqs[i]) \in Nat /\ start[i] \in Nat
      BY <1>1, <1>5
  <2> DEFINE a == start[i]
             b == Len(seqs[i])
  <2>2. a \in Nat /\ b \in Nat /\ q <= a + b /\ a < q /\ q \in Nat
      BY <1>1, <1>5, <1>6, <2>1
  <2> HIDE DEF a, b
  <2>3. q - a \in 1..b /\ q = a + (q - a)
      BY <2>2
  <2> QED
      BY <2>3 DEF a, b
<1> QED
    BY <1>5, <1>7 DEF n, IsInPart

\* A part of the sequences makes up a part of the whole.
LEMMA SubParts ==
    ASSUME NEW X, NEW seqs \in Seq(Seq(X)), NEW whole, NEW start, MakeUp(X, seqs, whole, start),
           NEW a \in 1..Len(seqs) + 1, NEW b \in 0..Len(seqs), a <= b + 1
    PROVE  FlattenSeq(SubSeq(seqs, a, b)) = SubSeq(whole, start[a] + 1, start[b + 1])
<1> DEFINE n == Len(seqs)
           sub == SubSeq(seqs, a, b)
           m == (b - a) + 1
           w == FlattenSeq(sub)
<1>1. /\ n \in Nat /\ start \in [1..n + 1 -> Nat]
      /\ \A i \in 1..n : start[i + 1] = start[i] + Len(seqs[i])
      /\ \A i \in 1..n : \A j \in 1..Len(seqs[i]) :
           start[i] + j \in 1..Len(whole) /\ whole[start[i] + j] = seqs[i][j]
      /\ whole \in Seq(X) /\ Len(whole) \in Nat
    BY DEF MakeUp
<1>2. a \in 1..n + 1 /\ b \in 0..n /\ a \in Int /\ b \in Int /\ a >= 1 /\ b <= n
    BY <1>1
<1>3. /\ sub \in Seq(Seq(X)) /\ Len(sub) = m /\ m \in Nat
      /\ \A i \in 1..m : sub[i] = seqs[(a + i) - 1]
  <2>1. m \in Nat /\ m = IF a <= b THEN (b - a) + 1 ELSE 0
      BY <1>2
  <2> QED
      BY <1>2, <2>1, SubSeqParts
<1> HIDE DEF sub, w, n
<1>4. PICK st : MakeUp(X, sub, w, st)
    BY <1>3, FlattenParts DEF w
<1>5. /\ st \in [1..m + 1 -> Nat] /\ st[1] = 0
      /\ \A i \in 1..m : st[i + 1] = st[i] + Len(sub[i])
      /\ \A i \in 1..m : \A j \in 1..Len(sub[i]) : w[st[i] + j] = sub[i][j]
      /\ w \in Seq(X) /\ Len(w) = st[m + 1]
    BY <1>3, <1>4 DEF MakeUp
<1> HIDE DEF m
<1>6. m = (b - a) + 1 /\ m \in Nat
    BY <1>3 DEF m
<1>7. \A k \in Nat : k <= m => start[a + k] = start[a] + st[k + 1]
  <2> DEFINE S == {k \in Nat : k <= m => start[a + k] = start[a] + st[k + 1]}
  <2>1. 0 \in S
      BY <1>1, <1>2, <1>5
  <2>2. ASSUME NEW k \in Nat, k \in S PROVE k + 1 \in S
    <3> SUFFICES ASSUME k + 1 <= m PROVE start[a + (k + 1)] = start[a] + st[(k + 1) + 1]
        OBVIOUS
    <3>1. /\ k + 1 \in 1..m /\ k <= m /\ a + k \in 1..n /\ (a + (k + 1)) - 1 = a + k
          /\ a + (k + 1) = (a + k) + 1 /\ a \in 1..n + 1
        BY <1>1, <1>2, <1>6
    <3>2. sub[k + 1] = seqs[a + k]
        BY <1>3, <3>1
    <3>3. seqs[a + k] \in Seq(X)
        BY <3>1 DEF n
    <3> DEFINE l == Len(seqs[a + k])
    <3>4. l \in Nat
        BY <3>3
    <3> HIDE DEF l
    <3>5. start[(a + k) + 1] = start[a + k] + l
        BY <1>1, <3>1 DEF l
    <3>6. st[(k + 1) + 1] = st[k + 1] + l
        BY <1>5, <3>1, <3>2 DEF l
    <3>7. start[a + k] = start[a] + st[k + 1]
        BY <2>2, <3>1
    <3>8. start[a] \in Nat /\ st[k + 1] \in Nat
      <4>1. k + 1 \in 1..m + 1
          BY <1>6, <3>1
      <4> QED
          BY <1>1, <1>5, <3>1, <4>1
    <3> QED
        BY <3>1, <3>4, <3>5, <3>6, <3>7, <3>8
  <2>3. Nat \subseteq S
      BY ONLY <2>1, <2>2, Induction
  <2> QED
      BY <2>3
<1> DEFINE base == start[a]
<1>8. base \in Nat /\ Len(w) \in Nat /\ start[b + 1] = base + Len(w)
  <2>1. a + m = b + 1 /\ m <= m /\ m + 1 \in 1..m + 1
      BY <1>2, <1>6
  <2>2. start[b + 1] = base + st[m + 1]
      BY <1>6, <1>7, <2>1
  <2>3. base \in Nat /\ st[m + 1] \in Nat
      BY <1>1, <1>2, <1>5, <2>1
  <2> QED
      BY <1>5, <2>2, <2>3
<1>9. ASSUME NEW q \in 1..Len(w)
      PROVE  base + q \in 1..Len(whole) /\ w[q] = whole[base + q]
  <2>1. PICK i \in 1..Len(sub) : \E j \in 1..Len(sub[i]) : q = st[i] + j
    <3>1. sub \in Seq(Seq(X)) /\ MakeUp(X, sub, w, st) /\ q \in 1..Len(w)
        BY <1>3, <1>4
    <3>2. IsInPart(sub, st, q)
        BY ONLY <3>1, Covered
    <3> QED
        BY <3>2 DEF IsInPart
  <2>2. PICK j \in 1..Len(sub[i]) : q = st[i] + j
      BY <2>1
  <2>3. i \in 1..m /\ i - 1 \in Nat /\ i - 1 <= m /\ a + (i - 1) = (a + i) - 1 /\ (i - 1) + 1 = i
        /\ (a + i) - 1 \in 1..n
      BY <1>1, <1>2, <1>3, <1>6
  <2> DEFINE p == (a + i) - 1
  <2>4. start[p] = base + st[i]
      BY <1>7, <2>3
  <2>5. sub[i] = seqs[p]
      BY <1>3, <2>3
  <2>6. start[p] + j \in 1..Len(whole) /\ whole[start[p] + j] = seqs[p][j] /\ w[q] = sub[i][j]
      BY <1>1, <1>5, <2>2, <2>3, <2>5
  <2>7. start[p] + j = base + q
    <3>1. j \in Int
        OBVIOUS
    <3>2. i \in 1..m + 1
        BY <1>6, <2>3
    <3>3. \A k \in 1..m + 1 : st[k] \in Nat
        BY <1>5
    <3>4. st[i] \in Nat
        BY <3>2, <3>3, Zenon
    <3>5. base \in Nat
        BY <1>8
    <3> DEFINE there == start[p]
               here == st[i]
    <3>6. there = base + here /\ q = here + j /\ here \in Nat
        BY <2>2, <2>4, <3>4, Zenon
    <3> HIDE DEF base, there, here
    <3>7. there + j = base + q
        BY <3>1, <3>5, <3>6
    <3> QED
        BY <3>7 DEF there
  <2> QED
      BY <2>5, <2>6, <2>7
<1> HIDE DEF base
<1>10. CASE Len(w) = 0
  <2>1. w = << >>
      BY <1>5, <1>10
  <2>2. SubSeq(whole, base + 1, base + 0) = << >>
      BY <1>1, <1>8
  <2> QED
      BY <1>8, <1>10, <2>1, <2>2 DEF base, w, sub
<1>11. CASE Len(w) # 0
  <2>1. Len(w) \in 1..Len(w)
      BY <1>8, <1>11
  <2>2. base + Len(w) \in 1..Len(whole)
      BY <1>9, <2>1
  <2> DEFINE c == base + 1
             d == base + Len(w)
             part == SubSeq(whole, c, d)
  <2>3. c \in Int /\ d \in Int /\ c >= 1 /\ d <= Len(whole) /\ c <= d /\ (d - c) + 1 = Len(w)
      BY <1>8, <1>11, <2>2
  <2>4. part \in Seq(X) /\ Len(part) = Len(w) /\ \A i \in 1..Len(w) : part[i] = whole[(c + i) - 1]
    <3> HIDE DEF c, d
    <3>1. /\ part \in Seq(X)
          /\ Len(part) = IF c <= d THEN (d - c) + 1 ELSE 0
          /\ \A i \in 1..(d - c) + 1 : part[i] = whole[(c + i) - 1]
      <4>1. whole \in Seq(X) /\ c \in Int /\ d \in Int /\ c >= 1 /\ d <= Len(whole)
          BY <1>1, <2>3
      <4> QED
          BY ONLY <4>1, SubSeqParts
    <3> QED
        BY <2>3, <3>1
  <2> HIDE DEF part
  <2>5. ASSUME NEW q \in 1..Len(w) PROVE w[q] = part[q]
    <3>1. (c + q) - 1 = base + q
        BY <1>8
    <3> QED
        BY <1>9, <2>4, <3>1
  <2>6. w = part
      BY <1>5, <2>4, <2>5, SameElements
  <2> QED
      BY <1>8, <2>6 DEF part, c, d, base, w, sub
<1> QED
    BY <1>10, <1>11

-----------------------------------------------------------------------------
(* LIKE, solved by induction on the places of the pattern that are left.     *)

\* What the recursion in Like says of the place p, given the rest of it.
LikeRow(pattern, string, match, p) ==
    LET P == Len(pattern)  S == Len(string)
        one == match[p + 1]  two == match[p + 2]
    IN  IF p > P THEN {S + 1}
        ELSE IF pattern[p] = "%" THEN {s \in 1..S + 1 : \E n \in one : s <= n}
        ELSE IF pattern[p] = "\\"
        THEN {s \in 1..S : p < P /\ pattern[p + 1] = string[s] /\ s + 1 \in two}
        ELSE {s \in 1..S : pattern[p] \in {"_", string[s]} /\ s + 1 \in one}

\* A place depends only on the two places after it.
LEMMA LikeRowDepends ==
    ASSUME NEW pattern, NEW string, NEW v, NEW w, NEW p \in Nat, Len(pattern) \in Nat,
           p <= Len(pattern) => v[p + 1] = w[p + 1], p < Len(pattern) => v[p + 2] = w[p + 2]
    PROVE  LikeRow(pattern, string, v, p) = LikeRow(pattern, string, w, p)
<1>1. CASE p > Len(pattern)
    BY <1>1 DEF LikeRow
<1>2. CASE p = Len(pattern)
  <2>1. v[p + 1] = w[p + 1] /\ ~(p > Len(pattern)) /\ ~(p < Len(pattern))
      BY <1>2
  <2> QED
      BY <2>1, Zenon DEF LikeRow
<1>3. CASE p < Len(pattern)
  <2>1. v[p + 1] = w[p + 1] /\ v[p + 2] = w[p + 2]
      BY <1>3
  <2> QED
      BY <2>1, Zenon DEF LikeRow
<1> QED
    BY <1>1, <1>2, <1>3

Rows(pattern, string, match) ==
    match = [p \in 1..Len(pattern) + 1 |-> LikeRow(pattern, string, match, p)]

\* The recursion in Like has a solution.
LEMMA RowsExist ==
    ASSUME NEW pattern, NEW string, Len(pattern) \in Nat
    PROVE  \E match : Rows(pattern, string, match)
<1> DEFINE P == Len(pattern)
           Row(w, p) == LikeRow(pattern, string, w, p)
           Solved(w, k) == \A p \in 1..P + 1 : p + k > P => w[p] = Row(w, p)
           S == {k \in Nat : \E w : Solved(w, k)}
<1>1. 0 \in S
  <2> DEFINE w == [p \in 1..P + 1 |-> {Len(string) + 1}]
  <2>1. ASSUME NEW p \in 1..P + 1, p + 0 > P PROVE w[p] = Row(w, p)
    <3>1. p > P
        BY <2>1
    <3> QED
        BY <3>1 DEF LikeRow
  <2> HIDE DEF w
  <2>2. Solved(w, 0)
      BY <2>1
  <2> QED
      BY <2>2
<1>2. ASSUME NEW k \in Nat, k \in S PROVE k + 1 \in S
  <2>1. PICK v : Solved(v, k)
      BY <1>2
  <2> DEFINE w == [p \in 1..P + 1 |-> IF p + k > P THEN v[p] ELSE Row(v, p)]
  <2> HIDE DEF Row
  <2>2. \A p \in 1..P + 1 : p + k > P => w[p] = v[p]
      OBVIOUS
  <2>3. \A p \in 1..P + 1 : ~(p + k > P) => w[p] = Row(v, p)
      OBVIOUS
  <2> HIDE DEF w
  <2>4. ASSUME NEW p \in 1..P + 1, p + (k + 1) > P PROVE w[p] = Row(w, p)
    <3>1. p <= P => v[p + 1] = w[p + 1]
      <4> SUFFICES ASSUME p <= P PROVE v[p + 1] = w[p + 1]
          OBVIOUS
      <4>1. p + 1 \in 1..P + 1 /\ (p + 1) + k > P
          BY <2>4
      <4> QED
          BY <2>2, <4>1
    <3>2. p < P => v[p + 2] = w[p + 2]
      <4> SUFFICES ASSUME p < P PROVE v[p + 2] = w[p + 2]
          OBVIOUS
      <4>1. p + 2 \in 1..P + 1 /\ (p + 2) + k > P
          BY <2>4
      <4> QED
          BY <2>2, <4>1
    <3>3. Row(v, p) = Row(w, p)
      <4>1. p \in Nat
          OBVIOUS
      <4> QED
          BY <3>1, <3>2, <4>1, LikeRowDepends DEF Row
    <3>4. w[p] = Row(v, p)
        BY <2>1, <2>2, <2>3
    <3> QED
        BY <3>3, <3>4
  <2>5. Solved(w, k + 1)
      BY <2>4
  <2> HIDE DEF Solved
  <2> QED
      BY <2>5
<1>3. Nat \subseteq S
    BY ONLY <1>1, <1>2, Induction
<1>4. PICK v : Solved(v, P)
    BY <1>3
<1> DEFINE w == [p \in 1..P + 1 |-> v[p]]
<1>5. ASSUME NEW p \in 1..P + 1 PROVE w[p] = Row(w, p)
  <2>1. v[p] = Row(v, p)
      BY <1>4
  <2>2. \A q \in 1..P + 1 : w[q] = v[q]
      OBVIOUS
  <2> HIDE DEF w
  <2>3. /\ p \in Nat /\ p <= P => p + 1 \in 1..P + 1
        /\ p < P => p + 2 \in 1..P + 1
      OBVIOUS
  <2>4. Row(v, p) = Row(w, p)
    <3>1. p \in Nat /\ (p <= P => v[p + 1] = w[p + 1]) /\ (p < P => v[p + 2] = w[p + 2])
        BY <2>2, <2>3
    <3> QED
        BY <3>1, LikeRowDepends
  <2> QED
      BY <2>1, <2>2, <2>4
<1> HIDE DEF Row
<1>6. w = [p \in 1..P + 1 |-> Row(w, p)]
    BY <1>5
<1> HIDE DEF w
<1> QED
    BY <1>6 DEF Row, Rows

\* Like is that solution's answer.
LEMMA LikeIsSolved ==
    ASSUME NEW pattern, NEW string, Len(pattern) \in Nat
    PROVE  \E match : /\ Like(pattern, string) <=> 1 \in match[1]
                      /\ \A p \in 1..Len(pattern) + 1 :
                           match[p] = LikeRow(pattern, string, match, p)
<1> DEFINE w == CHOOSE match :
                    match = [p \in 1..Len(pattern) + 1 |-> LikeRow(pattern, string, match, p)]
<1>1. \E match : Rows(pattern, string, match)
    BY RowsExist
<1>2. w = [p \in 1..Len(pattern) + 1 |-> LikeRow(pattern, string, w, p)]
    BY <1>1, Zenon DEF Rows
<1>3. Like(pattern, string) <=> 1 \in w[1]
    BY Zenon DEF Like, LikeRow
<1> HIDE DEF w
<1>4. \A p \in 1..Len(pattern) + 1 : w[p] = LikeRow(pattern, string, w, p)
    BY <1>2, Zenon
<1> QED
    BY <1>3, <1>4

-----------------------------------------------------------------------------
(* LIKE again, over the pieces a pattern is made of.                         *)

\* The pieces patterns are made of: a wildcard or a character taken literally.
Many == <<"%">>
One == <<"_">>
Literal(c) == IF c \in {"\\", "%", "_"} THEN <<"\\", c>> ELSE <<c>>
IsPiece(piece) == piece = Many \/ piece = One \/ \E c : piece = Literal(c)
\* A piece other than Many matches these characters.
Takes(piece, c) == piece = One \/ piece = Literal(c)

LEMMA OneElement == \A c : Len(<<c>>) = 1 /\ <<c>>[1] = c
OBVIOUS

\* No two pieces are the same.
LEMMA PiecesDiffer ==
    /\ Many # One
    /\ \A c : Literal(c) # Many /\ Literal(c) # One
    /\ \A c, d : Literal(c) = Literal(d) => c = d
<1>1. Many # One
    BY DEF Many, One
<1>2. ASSUME NEW c PROVE Literal(c) # Many /\ Literal(c) # One
  <2>1. CASE c \in {"\\", "%", "_"}
    <3>1. Literal(c)[1] = "\\" /\ Many[1] = "%" /\ One[1] = "_"
        BY <2>1 DEF Literal, Many, One
    <3> QED
        BY <3>1
  <2>2. CASE c \notin {"\\", "%", "_"}
    <3>1. Literal(c)[1] = c /\ Many[1] = "%" /\ One[1] = "_"
        BY <2>2 DEF Literal, Many, One
    <3> QED
        BY <2>2, <3>1
  <2> QED
      BY <2>1, <2>2
<1>3. ASSUME NEW c, NEW d, Literal(c) = Literal(d) PROVE c = d
  <2> DEFINE special == {"\\", "%", "_"}
  <2>1. ASSUME NEW e, e \in special PROVE Literal(e)[1] = "\\" /\ Literal(e)[2] = e
      BY <2>1 DEF Literal
  <2>2. ASSUME NEW e, e \notin special PROVE Literal(e)[1] = e
      BY <2>2 DEF Literal
  <2>3. "\\" \in special
      OBVIOUS
  <2> HIDE DEF special
  <2> QED
      BY <1>3, <2>1, <2>2, <2>3
<1> QED
    BY <1>1, <1>2, <1>3

\* From where on in string the piece matches what comes before one of these
\* places.
Before(piece, string, places) ==
    LET S == Len(string) IN
    IF piece = Many THEN {s \in 1..S + 1 : \E m \in places : s <= m}
    ELSE {s \in 1..S : Takes(piece, string[s]) /\ s + 1 \in places}

\* From where on in string the pieces from the k-th on match.
Reaches(pieces, string, reach) ==
    /\ reach[Len(pieces) + 1] = {Len(string) + 1}
    /\ \A k \in 1..Len(pieces) : reach[k] = Before(pieces[k], string, reach[k + 1])

\* The l words of the piece are in the pattern at p.
PieceAt(pattern, piece, p, l) ==
    /\ IsPiece(piece) /\ l = Len(piece)
    /\ p \in Nat /\ p >= 1 /\ Len(pattern) \in Nat /\ p + l <= Len(pattern) + 1
    /\ \A j \in 1..l : pattern[(p + j) - 1] = piece[j]

\* The recursion steps over a whole piece at once.
LEMMA PieceRow ==
    ASSUME NEW pattern, NEW string, NEW match, NEW piece, NEW p, NEW l,
           PieceAt(pattern, piece, p, l), match[p] = LikeRow(pattern, string, match, p)
    PROVE  match[p] = Before(piece, string, match[p + l])
<1> DEFINE S == Len(string)
<1> USE DEF PieceAt
<1>1. CASE piece = Many
  <2>1. l = 1 /\ 1 \in 1..l /\ piece[1] = "%" /\ (p + 1) - 1 = p
      BY <1>1 DEF Many
  <2>2. pattern[p] = "%" /\ ~(p > Len(pattern))
      BY <2>1
  <2> QED
      BY <1>1, <2>1, <2>2, Zenon DEF LikeRow, Before
<1>2. CASE piece = One
  <2>6. Len(One) = 1 /\ One[1] = "_"
      BY OneElement, Zenon DEF One
  <2>1. l = 1 /\ 1 \in 1..l /\ piece[1] = One[1] /\ (p + 1) - 1 = p
    <3>1. l = 1
        BY <1>2, <2>6, Zenon
    <3> QED
        BY <1>2, <3>1
  <2>7. pattern[p] = One[1] /\ ~(p > Len(pattern))
      BY <2>1
  <2>2. pattern[p] = "_" /\ ~(p > Len(pattern)) /\ pattern[p] # "%" /\ pattern[p] # "\\"
      BY <2>6, <2>7, Zenon
  <2>3. match[p] = {s \in 1..S : pattern[p] \in {"_", string[s]} /\ s + 1 \in match[p + 1]}
      BY <2>2, Zenon DEF LikeRow, Before
  <2>4. \A s : pattern[p] \in {"_", string[s]} /\ Takes(piece, string[s])
      BY <1>2, <2>2 DEF Takes
  <2>5. piece # Many
      BY <1>2, PiecesDiffer
  <2> QED
      BY <2>1, <2>3, <2>4, <2>5 DEF Before
<1>3. ASSUME NEW c, piece = Literal(c) PROVE match[p] = Before(piece, string, match[p + l])
  <2>1. piece # Many /\ \A s : Takes(piece, string[s]) <=> string[s] = c
      BY <1>3, PiecesDiffer DEF Takes
  <2>2. CASE c \in {"\\", "%", "_"}
    <3>1. l = 2 /\ piece[1] = "\\" /\ piece[2] = c
        BY <1>3, <2>2 DEF Literal
    <3>2. 1 \in 1..l /\ 2 \in 1..l /\ (p + 1) - 1 = p /\ (p + 2) - 1 = p + 1
        BY <3>1
    <3>3. pattern[p] = "\\" /\ pattern[p + 1] = c /\ p < Len(pattern) /\ ~(p > Len(pattern))
          /\ pattern[p] # "%"
        BY <3>1, <3>2
    <3>4. match[p] = {s \in 1..S : p < Len(pattern) /\ pattern[p + 1] = string[s]
                                   /\ s + 1 \in match[p + 2]}
        BY <3>3, Zenon DEF LikeRow, Before
    <3>5. match[p] = {s \in 1..S : Takes(piece, string[s]) /\ s + 1 \in match[p + 2]}
        BY <2>1, <3>3, <3>4
    <3> QED
        BY <2>1, <3>1, <3>5 DEF Before
  <2>3. CASE c \notin {"\\", "%", "_"}
    <3>1. l = 1 /\ piece[1] = c
        BY <1>3, <2>3 DEF Literal
    <3>2. 1 \in 1..l /\ (p + 1) - 1 = p
        BY <3>1
    <3>6. pattern[p] = c /\ ~(p > Len(pattern))
        BY <3>1, <3>2
    <3>3. pattern[p] = c /\ ~(p > Len(pattern)) /\ c # "%" /\ c # "\\" /\ c # "_"
        BY <2>3, <3>6, Zenon
    <3>4. match[p] = {s \in 1..S : pattern[p] \in {"_", string[s]} /\ s + 1 \in match[p + 1]}
        BY <3>3, Zenon DEF LikeRow, Before
    <3>5. match[p] = {s \in 1..S : Takes(piece, string[s]) /\ s + 1 \in match[p + 1]}
        BY <2>1, <3>3, <3>4
    <3> QED
        BY <2>1, <3>1, <3>5 DEF Before
  <2> QED
      BY <2>2, <2>3
<1> QED
    BY <1>1, <1>2, <1>3 DEF IsPiece

\* Like reads a pattern made of pieces piece by piece.
LEMMA LikeByPieces ==
    ASSUME NEW X, NEW pieces \in Seq(Seq(X)), \A k \in 1..Len(pieces) : IsPiece(pieces[k]),
           NEW string
    PROVE  \E reach : /\ Reaches(pieces, string, reach)
                      /\ Like(FlattenSeq(pieces), string) <=> 1 \in reach[1]
<1> DEFINE n == Len(pieces)
           whole == FlattenSeq(pieces)
           P == Len(whole)
<1>1. PICK start : MakeUp(X, pieces, whole, start)
    BY FlattenParts
<1>2. /\ n \in Nat /\ start \in [1..n + 1 -> Nat] /\ start[1] = 0
      /\ \A k \in 1..n : start[k + 1] = start[k] + Len(pieces[k])
      /\ P \in Nat /\ P = start[n + 1]
      /\ \A k \in 1..n : \A j \in 1..Len(pieces[k]) :
           start[k] + j \in 1..P /\ whole[start[k] + j] = pieces[k][j]
    BY <1>1 DEF MakeUp
<1> HIDE DEF whole, P, n
<1>3. PICK match : /\ Like(whole, string) <=> 1 \in match[1]
                   /\ \A p \in 1..P + 1 : match[p] = LikeRow(whole, string, match, p)
    BY <1>2, LikeIsSolved DEF P
<1> DEFINE reach == [k \in 1..n + 1 |-> match[start[k] + 1]]
<1>4. reach[1] = match[1] /\ reach[n + 1] = {Len(string) + 1}
  <2>1. 1 \in 1..n + 1 /\ n + 1 \in 1..n + 1 /\ P + 1 \in 1..P + 1 /\ P + 1 > P
      BY <1>2
  <2>2. reach[1] = match[0 + 1] /\ reach[n + 1] = match[P + 1]
      BY <1>2, <2>1
  <2>3. match[P + 1] = {Len(string) + 1}
      BY <1>3, <2>1 DEF LikeRow, P
  <2> QED
      BY <2>2, <2>3
<1>5. ASSUME NEW k \in 1..n PROVE reach[k] = Before(pieces[k], string, reach[k + 1])
  <2> DEFINE p == start[k] + 1
             l == Len(pieces[k])
  <2>1. k \in 1..n + 1 /\ k + 1 \in 1..n + 1
      BY <1>2
  <2>2. IsPiece(pieces[k]) /\ pieces[k] \in Seq(X)
      BY DEF n
  <2>3. l \in Nat /\ l >= 1
    <3>1. l \in Nat
        BY <2>2
    <3>2. \A c, d : Len(<<c>>) = 1 /\ Len(<<c, d>>) = 2
        OBVIOUS
    <3>3. l = 1 \/ l = 2
        BY <2>2, <3>2, Zenon DEF IsPiece, Many, One, Literal
    <3> HIDE DEF l
    <3> QED
        BY ONLY <3>1, <3>3
  <2>4. start[k] \in Nat /\ start[k + 1] = start[k] + l
      BY <1>2, <2>1
  <2> HIDE DEF l
  <2>5. start[k] + l \in 1..P
    <3>1. l \in 1..l
        BY <2>3
    <3> QED
        BY <1>2, <3>1 DEF l
  <2>6. p \in 1..P + 1 /\ p \in Nat /\ p >= 1 /\ p + l <= P + 1 /\ p + l = start[k + 1] + 1
      BY <1>2, <2>3, <2>4, <2>5
  <2>7. \A j \in 1..l : whole[(p + j) - 1] = pieces[k][j]
    <3> SUFFICES ASSUME NEW j \in 1..l PROVE whole[(p + j) - 1] = pieces[k][j]
        OBVIOUS
    <3>1. (p + j) - 1 = start[k] + j
        BY <2>3, <2>4
    <3> QED
        BY <1>2, <3>1 DEF l
  <2>8. match[p] = LikeRow(whole, string, match, p)
      BY <1>3, <2>6
  <2>9. reach[k] = match[p] /\ reach[k + 1] = match[p + l]
    <3>1. reach[k] = match[start[k] + 1] /\ reach[k + 1] = match[start[k + 1] + 1]
        BY <2>1
    <3> QED
        BY <2>6, <3>1
  <2> HIDE DEF p, reach
  <2>10. match[p] = Before(pieces[k], string, match[p + l])
    <3> DEFINE piece == pieces[k]
    <3>1. PieceAt(whole, piece, p, l)
        BY <1>2, <2>2, <2>6, <2>7 DEF P, l, PieceAt
    <3> HIDE DEF piece
    <3>2. match[p] = Before(piece, string, match[p + l])
        BY ONLY <2>8, <3>1, PieceRow
    <3> QED
        BY <3>2 DEF piece
  <2> QED
      BY <2>9, <2>10
<1> HIDE DEF reach
<1>6. Reaches(pieces, string, reach)
    BY <1>4, <1>5 DEF Reaches, n
<1> QED
    BY <1>3, <1>4, <1>6 DEF whole

SameSizes(a, b) == Len(a) = Len(b) /\ \A i \in 1..Len(a) : Len(a[i]) = Len(b[i])

BothMakeUp(X, a, b, u, v, s, t) ==
    a \in Seq(Seq(X)) /\ b \in Seq(Seq(X)) /\ SameSizes(a, b) /\ MakeUp(X, a, u, s) /\ MakeUp(X, b, v, t)

AgreeTo(n, s, t) == \A i \in 1..n : s[i] = t[i]

\* Parts of the same sizes begin at the same places.
LEMMA SamePlaces ==
    ASSUME NEW X, NEW a, NEW b, NEW u, NEW v, NEW s, NEW t, BothMakeUp(X, a, b, u, v, s, t)
    PROVE  Len(u) = Len(v) /\ AgreeTo(Len(a) + 1, s, t)
<1> USE DEF BothMakeUp
<1> DEFINE n == Len(a)
<1>1. n \in Nat /\ s[1] = 0 /\ t[1] = 0
    BY DEF MakeUp
<1>2. \A i \in 1..n : s[i + 1] = s[i] + Len(a[i])
    BY DEF MakeUp
<1>3. \A i \in 1..n : t[i + 1] = t[i] + Len(a[i])
    BY DEF MakeUp, SameSizes
<1>4. Len(u) = s[n + 1] /\ Len(v) = t[n + 1]
    BY DEF MakeUp, SameSizes
<1> HIDE DEF n
<1> DEFINE S == {k \in Nat : k <= n => s[k + 1] = t[k + 1]}
<1>5. 0 \in S
    BY <1>1
<1>6. ASSUME NEW k \in Nat, k \in S PROVE k + 1 \in S
  <2> SUFFICES ASSUME k + 1 <= n PROVE s[(k + 1) + 1] = t[(k + 1) + 1]
      OBVIOUS
  <2>1. k + 1 \in 1..n /\ k <= n
      BY <1>1
  <2> QED
      BY <1>2, <1>3, <1>6, <2>1
<1>7. Nat \subseteq S
    BY ONLY <1>5, <1>6, Induction
<1>8. ASSUME NEW i \in 1..n + 1 PROVE s[i] = t[i]
  <2>1. i - 1 \in Nat /\ i - 1 <= n /\ (i - 1) + 1 = i
      BY <1>1
  <2> QED
      BY <1>7, <2>1
<1> QED
    BY <1>1, <1>4, <1>8 DEF n, AgreeTo

-----------------------------------------------------------------------------
(* The translation of a glob and of a literal string into pieces.            *)

GlobPiece(c) == IF c = "*" THEN Many ELSE IF c = "?" THEN One ELSE Literal(c)
LiteralPieces(string) == [i \in DOMAIN string |-> Literal(string[i])]
GlobPieces(glob) == [i \in DOMAIN glob |-> GlobPiece(glob[i])]

\* What Unglob makes of one character.
Wild(c) == CASE c = "*" -> "%" [] c = "?" -> "_" [] OTHER -> c
Special == {"\\", "%", "_"}

LEMMA ShortStrings ==
    ASSUME NEW C
    PROVE  \A x, y \in C : <<x>> \in Seq(C) /\ <<x, y>> \in Seq(C)
OBVIOUS

LEMMA SpecialMembers ==
    ASSUME NEW C, Special \subseteq C
    PROVE  "\\" \in C /\ "%" \in C /\ "_" \in C
BY Zenon DEF Special

\* An escaped string is the pattern of its literal characters.
LEMMA LiteralParts ==
    ASSUME NEW C, Special \subseteq C, NEW string \in Seq(C)
    PROVE  /\ LiteralPieces(string) \in Seq(Seq(C))
           /\ Len(LiteralPieces(string)) = Len(string)
           /\ \A i \in 1..Len(string) : LiteralPieces(string)[i] = Literal(string[i])
           /\ EscapeLike(string) = FlattenSeq(LiteralPieces(string))
<1> DEFINE n == Len(string)
<1>1. n \in Nat /\ DOMAIN string = 1..n /\ \A i \in 1..n : string[i] \in C
    OBVIOUS
<1>3. \A c \in C : Literal(c) \in Seq(C)
    BY SpecialMembers, ShortStrings, Zenon DEF Literal
<1>4. EscapeLike(string) = FlattenSeq(LiteralPieces(string))
    BY Zenon DEF EscapeLike, LiteralPieces, Literal
<1>5. LiteralPieces(string) = [i \in 1..n |-> Literal(string[i])]
    BY <1>1 DEF LiteralPieces
<1> QED
    BY <1>1, <1>3, <1>4, <1>5

LEMMA PieceOfChar ==
    ASSUME NEW c
    PROVE  /\ IsPiece(GlobPiece(c)) /\ Len(GlobPiece(c)) = Len(Literal(c))
           /\ Len(Literal(c)) \in Nat
           /\ \A j \in 1..Len(Literal(c)) : GlobPiece(c)[j] = Wild(Literal(c)[j])
<1>1. \A x, y : /\ Len(<<x>>) = 1 /\ <<x>>[1] = x
                /\ Len(<<x, y>>) = 2 /\ <<x, y>>[1] = x /\ <<x, y>>[2] = y
    OBVIOUS
<1>2. IsPiece(GlobPiece(c))
    BY Zenon DEF GlobPiece, IsPiece
<1>3. CASE c = "*"
  <2>1. Literal(c) = <<"*">> /\ GlobPiece(c) = <<"%">> /\ Wild("*") = "%"
      BY <1>3, Zenon DEF Literal, GlobPiece, Many, Wild
  <2>2. Len(Literal(c)) = 1 /\ Len(GlobPiece(c)) = 1 /\ Literal(c)[1] = "*" /\ GlobPiece(c)[1] = "%"
      BY <1>1, <2>1, Zenon
  <2> QED
      BY <1>2, <2>1, <2>2
<1>4. CASE c = "?"
  <2>1. Literal(c) = <<"?">> /\ GlobPiece(c) = <<"_">> /\ Wild("?") = "_"
      BY <1>4, Zenon DEF Literal, GlobPiece, One, Wild
  <2> DEFINE u == "_"
  <2>2. Len(Literal(c)) = 1 /\ Len(GlobPiece(c)) = 1 /\ Literal(c)[1] = "?" /\ GlobPiece(c)[1] = u
        /\ Wild("?") = u
      BY <1>1, <2>1, Zenon
  <2> HIDE DEF u
  <2> QED
      BY <1>2, <2>2
<1>5. CASE c # "*" /\ c # "?"
  <2>1. GlobPiece(c) = Literal(c)
      BY <1>5, Zenon DEF GlobPiece
  <2>2. Wild(c) = c /\ Wild("\\") = "\\"
      BY <1>5, Zenon DEF Wild
  <2>3. Literal(c) = <<"\\", c>> \/ Literal(c) = <<c>>
      BY Zenon DEF Literal
  <2>4. \A j \in 1..Len(Literal(c)) : Literal(c)[j] \in {"\\", c} /\ Len(Literal(c)) \in Nat
      BY <2>3
  <2> QED
      BY <1>1, <1>2, <2>1, <2>2, <2>3, <2>4
<1> QED
    BY <1>3, <1>4, <1>5

\* A glob becomes the pattern of its pieces.
LEMMA GlobParts ==
    ASSUME NEW C, Special \subseteq C, NEW glob \in Seq(C)
    PROVE  /\ GlobPieces(glob) \in Seq(Seq(C))
           /\ Len(GlobPieces(glob)) = Len(glob)
           /\ \A i \in 1..Len(glob) : /\ GlobPieces(glob)[i] = GlobPiece(glob[i])
                                      /\ IsPiece(GlobPieces(glob)[i])
           /\ GlobToLike(glob) = FlattenSeq(GlobPieces(glob))
<1> DEFINE n == Len(glob)
           as == LiteralPieces(glob)
           bs == GlobPieces(glob)
           u == FlattenSeq(as)
           v == FlattenSeq(bs)
<1>1. n \in Nat /\ DOMAIN glob = 1..n /\ \A i \in 1..n : glob[i] \in C
    OBVIOUS
<1>2. /\ as \in Seq(Seq(C)) /\ Len(as) = n /\ \A i \in 1..n : as[i] = Literal(glob[i])
      /\ EscapeLike(glob) = u
    BY LiteralParts
<1>3. \A i \in 1..n : bs[i] = GlobPiece(glob[i])
    BY <1>1 DEF GlobPieces
<1>4. bs \in Seq(Seq(C)) /\ Len(bs) = n
  <2>1. \A c \in C : GlobPiece(c) \in Seq(C)
    <3>1. \A c : \/ GlobPiece(c) = <<"%">> \/ GlobPiece(c) = <<"_">>
                 \/ GlobPiece(c) = <<"\\", c>> \/ GlobPiece(c) = <<c>>
        BY Zenon DEF GlobPiece, Literal, Many, One
    <3> QED
        BY <3>1, SpecialMembers, ShortStrings, Zenon
  <2>2. bs = [i \in 1..n |-> GlobPiece(glob[i])]
      BY <1>1 DEF GlobPieces
  <2> QED
      BY <1>1, <2>1, <2>2
<1>5. \A i \in 1..n : IsPiece(bs[i])
    BY <1>3, PieceOfChar
<1> HIDE DEF as, bs, u, v, n
<1>6. PICK s : MakeUp(C, as, u, s)
    BY <1>2, FlattenParts DEF u
<1>7. PICK t : MakeUp(C, bs, v, t)
    BY <1>4, FlattenParts DEF v
<1>8. SameSizes(as, bs)
  <2>1. \A i \in 1..n : Len(as[i]) = Len(bs[i])
      BY <1>2, <1>3, PieceOfChar, Zenon
  <2> QED
      BY <1>2, <1>4, <2>1, Zenon DEF SameSizes
<1>9. Len(u) = Len(v) /\ \A i \in 1..n + 1 : s[i] = t[i]
  <2>1. BothMakeUp(C, as, bs, u, v, s, t)
      BY <1>2, <1>4, <1>6, <1>7, <1>8, Zenon DEF BothMakeUp
  <2>2. \A a, b, x, y, p, q :
            BothMakeUp(C, a, b, x, y, p, q) => Len(x) = Len(y) /\ AgreeTo(Len(a) + 1, p, q)
      BY SamePlaces, Zenon
  <2>3. Len(u) = Len(v) /\ AgreeTo(Len(as) + 1, s, t)
      BY <2>1, <2>2, Zenon
  <2>4. AgreeTo(n + 1, s, t)
      BY <1>2, <2>3
  <2> QED
      BY <2>3, <2>4, Zenon DEF AgreeTo
<1>10. u \in Seq(C) /\ v \in Seq(C)
    BY <1>6, <1>7 DEF MakeUp
<1>16. Len(u) \in Nat /\ DOMAIN u = 1..Len(u) /\ DOMAIN v = 1..Len(v)
    BY ONLY <1>10
<1>11. Unglob(u) = [q \in 1..Len(u) |-> Wild(u[q])]
    BY <1>16, Zenon DEF Unglob, Wild
<1>12. ASSUME NEW q \in 1..Len(u) PROVE Wild(u[q]) = v[q]
  <2>1. IsInPart(as, s, q)
      BY <1>2, <1>6, Covered
  <2>2. PICK i \in 1..n : \E j \in 1..Len(as[i]) : q = s[i] + j
      BY <1>2, <2>1 DEF IsInPart
  <2>3. PICK j \in 1..Len(as[i]) : q = s[i] + j
      BY <2>2
  <2>4. u[q] = as[i][j]
      BY <1>2, <1>6, <2>3 DEF MakeUp
  <2>5. v[t[i] + j] = bs[i][j]
    <3>1. \A k \in 1..Len(bs) : \A l \in 1..Len(bs[k]) : v[t[k] + l] = bs[k][l]
        BY <1>7 DEF MakeUp
    <3>2. i \in 1..Len(bs) /\ j \in 1..Len(bs[i])
        BY <1>2, <1>4, <1>8 DEF SameSizes
    <3> QED
        BY <3>1, <3>2, Zenon
  <2>6. s[i] = t[i]
      BY <1>1, <1>9 DEF n
  <2>7. as[i] = Literal(glob[i]) /\ bs[i] = GlobPiece(glob[i])
      BY <1>2, <1>3
  <2>8. bs[i][j] = Wild(as[i][j])
      BY <2>7, PieceOfChar
  <2> QED
      BY <2>3, <2>4, <2>5, <2>6, <2>8
<1>13. Unglob(u) = [q \in 1..Len(u) |-> v[q]]
    BY <1>11, <1>12
<1>14. v = [q \in 1..Len(u) |-> v[q]]
    BY <1>9, <1>10, <1>16
<1>15. GlobToLike(glob) = v
    BY <1>2, <1>13, <1>14, Zenon DEF GlobToLike
<1> QED
    BY <1>3, <1>4, <1>5, <1>15 DEF bs, v, n

-----------------------------------------------------------------------------
(* Sequences of sequences, split and joined.                                 *)

\* The parts are in order.
LEMMA PlacesGrow ==
    ASSUME NEW X, NEW seqs \in Seq(Seq(X)), NEW whole, NEW start, MakeUp(X, seqs, whole, start)
    PROVE  \A i, j \in 1..Len(seqs) + 1 : i <= j => start[i] <= start[j]
<1> DEFINE n == Len(seqs)
<1>1. n \in Nat /\ \A i \in 1..n + 1 : start[i] \in Nat
    BY DEF MakeUp
<1>2. \A i \in 1..n : start[i + 1] >= start[i]
  <2> SUFFICES ASSUME NEW i \in 1..n PROVE start[i + 1] >= start[i]
      OBVIOUS
  <2>1. Len(seqs[i]) \in Nat
      OBVIOUS
  <2>2. start[i + 1] = start[i] + Len(seqs[i])
      BY DEF MakeUp
  <2>3. i \in 1..n + 1
      BY <1>1
  <2> QED
      BY <1>1, <2>1, <2>2, <2>3
<1> HIDE DEF n
<1> SUFFICES ASSUME NEW i \in 1..n + 1
             PROVE  \A j \in 1..n + 1 : i <= j => start[i] <= start[j]
    BY DEF n
<1> DEFINE S == {k \in Nat : i + k <= n + 1 => start[i] <= start[i + k]}
<1>3. 0 \in S
    BY <1>1
<1>4. ASSUME NEW k \in Nat, k \in S PROVE k + 1 \in S
  <2> SUFFICES ASSUME i + (k + 1) <= n + 1 PROVE start[i] <= start[i + (k + 1)]
      OBVIOUS
  <2>1. /\ i + k \in 1..n /\ i + k \in 1..n + 1 /\ i + (k + 1) = (i + k) + 1
        /\ (i + k) + 1 \in 1..n + 1 /\ i + k <= n + 1
      BY <1>1
  <2>2. start[i] <= start[i + k] /\ start[i + k] <= start[(i + k) + 1]
      BY <1>2, <1>4, <2>1
  <2>3. start[i] \in Nat /\ start[i + k] \in Nat /\ start[(i + k) + 1] \in Nat
      BY <1>1, <2>1
  <2> QED
      BY <2>1, <2>2, <2>3
<1>5. Nat \subseteq S
    BY ONLY <1>3, <1>4, Induction
<1>6. ASSUME NEW j \in 1..n + 1, i <= j PROVE start[i] <= start[j]
  <2>1. j - i \in Nat /\ i + (j - i) = j /\ j <= n + 1
      BY <1>1, <1>6
  <2> QED
      BY <1>5, <2>1
<1> QED
    BY <1>6

\* A sequence is its beginning and its rest.
LEMMA SplitSeq ==
    ASSUME NEW X, NEW s \in Seq(X), NEW c \in 0..Len(s)
    PROVE  s = SubSeq(s, 1, c) \o SubSeq(s, c + 1, Len(s))
<1> DEFINE a == SubSeq(s, 1, c)
           b == SubSeq(s, c + 1, Len(s))
<1>1. c \in Int /\ Len(s) \in Nat /\ c + 1 >= 1 /\ c <= Len(s)
    OBVIOUS
<1>2. a \in Seq(X) /\ Len(a) = c /\ \A i \in 1..c : a[i] = s[i]
    BY <1>1
<1>3. b \in Seq(X) /\ Len(b) = Len(s) - c /\ \A i \in 1..Len(s) - c : b[i] = s[c + i]
    BY <1>1
<1> HIDE DEF a, b
<1>4. a \o b \in Seq(X) /\ Len(a \o b) = Len(s)
    BY <1>1, <1>2, <1>3
<1>5. ASSUME NEW i \in 1..Len(s) PROVE s[i] = (a \o b)[i]
  <2>1. CASE i <= c
    <3>1. i \in 1..Len(a)
        BY <1>1, <1>2, <2>1
    <3> QED
        BY <1>2, <1>3, <3>1
  <2>2. CASE i > c
    <3>1. i - c \in 1..Len(b) /\ i = Len(a) + (i - c) /\ c + (i - c) = i
        BY <1>1, <1>2, <1>3, <2>2
    <3>2. (a \o b)[Len(a) + (i - c)] = b[i - c]
        BY <1>2, <1>3, <3>1, ConcatParts
    <3> QED
        BY <1>3, <3>1, <3>2
  <2>3. i <= c \/ i > c
      BY <1>1
  <2> QED
      BY <2>1, <2>2, <2>3, Zenon
<1>6. s = a \o b
    BY <1>4, <1>5, SameElements
<1> QED
    BY <1>6 DEF a, b

\* What was joined comes apart again.
LEMMA JoinedParts ==
    ASSUME NEW X, NEW a \in Seq(X), NEW b \in Seq(X)
    PROVE  /\ SubSeq(a \o b, 1, Len(a)) = a
           /\ SubSeq(a \o b, Len(a) + 1, Len(a \o b)) = b
<1> DEFINE s == a \o b
           c == SubSeq(s, 1, Len(a))
           d == SubSeq(s, Len(a) + 1, Len(s))
<1>1. /\ s \in Seq(X) /\ Len(s) = Len(a) + Len(b) /\ Len(a) \in Nat /\ Len(b) \in Nat
      /\ \A i \in 1..Len(a) : s[i] = a[i]
      /\ \A i \in 1..Len(b) : s[Len(a) + i] = b[i]
    BY ConcatParts
<1> HIDE DEF s
<1>2. c \in Seq(X) /\ Len(c) = Len(a) /\ \A i \in 1..Len(a) : c[i] = s[i]
    BY <1>1
<1>3. d \in Seq(X) /\ Len(d) = Len(b) /\ \A i \in 1..Len(b) : d[i] = s[Len(a) + i]
    BY <1>1
<1> HIDE DEF c, d
<1>4. c = a
    BY <1>1, <1>2, SameElements
<1>5. d = b
    BY <1>1, <1>3, SameElements
<1> QED
    BY <1>4, <1>5 DEF c, d, s

\* FlattenSeq distributes over concatenation.
LEMMA FlattenConcat ==
    ASSUME NEW X, NEW a \in Seq(Seq(X)), NEW b \in Seq(Seq(X))
    PROVE  FlattenSeq(a \o b) = FlattenSeq(a) \o FlattenSeq(b)
<1> DEFINE s == a \o b
           m == Len(a)
           n == Len(s)
           whole == FlattenSeq(s)
<1>1. s \in Seq(Seq(X)) /\ n \in Nat /\ m \in Nat /\ m <= n
    BY ConcatParts
<1>2. SubSeq(s, 1, m) = a /\ SubSeq(s, m + 1, n) = b
    BY JoinedParts
<1> HIDE DEF s, m, n, whole
<1>3. PICK start : MakeUp(X, s, whole, start)
    BY <1>1, FlattenParts DEF whole
<1>4. /\ 1 \in 1..n + 1 /\ m \in 0..n /\ 1 <= m + 1 /\ m + 1 \in 1..n + 1 /\ n \in 0..n
      /\ m + 1 <= n + 1 /\ n + 1 \in 1..n + 1
    BY <1>1
<1>5. FlattenSeq(SubSeq(s, 1, m)) = SubSeq(whole, start[1] + 1, start[m + 1])
    BY <1>1, <1>3, <1>4, SubParts DEF n
<1>6. FlattenSeq(SubSeq(s, m + 1, n)) = SubSeq(whole, start[m + 1] + 1, start[n + 1])
  <2>1. /\ s \in Seq(Seq(X)) /\ MakeUp(X, s, whole, start) /\ m + 1 \in 1..Len(s) + 1
        /\ n \in 0..Len(s) /\ m + 1 <= n + 1
      BY <1>1, <1>3, <1>4 DEF n
  <2> QED
      BY ONLY <2>1, SubParts
<1>7. start[1] = 0 /\ start[n + 1] = Len(whole) /\ whole \in Seq(X) /\ start[m + 1] \in Nat
    BY <1>3, <1>4 DEF MakeUp, n
<1>8. start[m + 1] <= start[n + 1]
    BY <1>1, <1>3, <1>4, PlacesGrow DEF n
<1>9. start[m + 1] \in 0..Len(whole)
    BY <1>7, <1>8
<1>10. whole = SubSeq(whole, 1, start[m + 1]) \o SubSeq(whole, start[m + 1] + 1, Len(whole))
    BY <1>7, <1>9, SplitSeq
<1>11. start[1] + 1 = 1
    BY <1>7
<1> QED
    BY <1>2, <1>5, <1>6, <1>7, <1>10, <1>11, Zenon DEF whole, s

LEMMA FlattenOne ==
    ASSUME NEW X, NEW a \in Seq(X)
    PROVE  FlattenSeq(<<a>>) = a
<1>1. <<a>> \in Seq(Seq(X)) /\ <<a>> # << >> /\ Len(<<a>>) = 1 /\ <<a>>[1] = a
    OBVIOUS
<1> DEFINE s == <<a>>
<1> HIDE DEF s
<1>2. PICK f \in [1..Len(s) -> Seq(X)] : f[1] = s[1] /\ FlattenSeq(s) = f[Len(s)]
    BY <1>1, FlattenSteps DEF s
<1> QED
    BY <1>1, <1>2 DEF s

LEMMA FlattenNone == FlattenSeq(<< >>) = << >>
<1> DEFINE none == << >>
<1>1. none \in Seq(Seq({})) /\ Len(none) = 0
    OBVIOUS
<1> HIDE DEF none
<1>2. PICK start : MakeUp({}, none, FlattenSeq(none), start)
    BY <1>1, FlattenParts
<1>3. FlattenSeq(none) \in Seq({}) /\ Len(FlattenSeq(none)) = 0
    BY <1>1, <1>2 DEF MakeUp
<1>4. FlattenSeq(none) = << >>
    BY <1>3
<1> QED
    BY <1>4 DEF none

-----------------------------------------------------------------------------
(* LIKE, piece by piece from the first.                                      *)

From(string, s) == SubSeq(string, s, Len(string))

LEMMA FromParts ==
    ASSUME NEW C, NEW string \in Seq(C), NEW s \in 1..Len(string) + 1
    PROVE  /\ From(string, s) \in Seq(C)
           /\ Len(From(string, s)) = (Len(string) + 1) - s
           /\ \A i \in 1..(Len(string) + 1) - s : From(string, s)[i] = string[(s + i) - 1]
<1> DEFINE S == Len(string)
<1>1. S \in Nat /\ s \in Int /\ S \in Int /\ s >= 1 /\ S <= Len(string) /\ s <= S + 1
    OBVIOUS
<1>2. /\ SubSeq(string, s, S) \in Seq(C)
      /\ Len(SubSeq(string, s, S)) = IF s <= S THEN (S - s) + 1 ELSE 0
      /\ \A i \in 1..(S - s) + 1 : SubSeq(string, s, S)[i] = string[(s + i) - 1]
    BY <1>1, SubSeqParts
<1>3. (S - s) + 1 = (S + 1) - s /\ (IF s <= S THEN (S - s) + 1 ELSE 0) = (S + 1) - s
    BY <1>1
<1> QED
    BY <1>2, <1>3 DEF From

\* The same places, counted in string and in what follows from s on.
Shifted(string, s, places, rest) ==
    /\ places \subseteq 1..Len(string) + 1
    /\ rest \subseteq 1..Len(From(string, s)) + 1
    /\ \A t \in 1..Len(From(string, s)) + 1 : t \in rest <=> (s + t) - 1 \in places

LEMMA ShiftBefore ==
    ASSUME NEW C, NEW string \in Seq(C), NEW s \in 1..Len(string) + 1,
           NEW piece, NEW places, NEW rest, Shifted(string, s, places, rest)
    PROVE  Shifted(string, s, Before(piece, string, places), Before(piece, From(string, s), rest))
<1> DEFINE S == Len(string)
           u == From(string, s)
           R == Len(u)
           b == Before(piece, string, places)
           r == Before(piece, u, rest)
<1>1. S \in Nat /\ s \in Int /\ s >= 1 /\ s <= S + 1
    OBVIOUS
<1>2. R = (S + 1) - s /\ \A i \in 1..R : u[i] = string[(s + i) - 1]
    BY FromParts
<1>3. /\ places \subseteq 1..S + 1 /\ rest \subseteq 1..R + 1
      /\ \A t \in 1..R + 1 : t \in rest <=> (s + t) - 1 \in places
    BY DEF Shifted
<1> HIDE DEF S, u, R
<1>4. R \in Nat
    BY <1>1, <1>2
<1>5. CASE piece = Many
  <2>1. b = {x \in 1..S + 1 : \E m \in places : x <= m}
      BY <1>5 DEF Before, S
  <2>2. r = {t \in 1..R + 1 : \E m \in rest : t <= m}
      BY <1>5 DEF Before, R
  <2> HIDE DEF b, r
  <2>3. ASSUME NEW t \in 1..R + 1 PROVE t \in r <=> (s + t) - 1 \in b
    <3>1. (s + t) - 1 \in 1..S + 1
        BY <1>1, <1>2
    <3>2. ASSUME NEW m \in rest, t <= m PROVE \E l \in places : (s + t) - 1 <= l
      <4>1. m \in 1..R + 1 /\ (s + m) - 1 \in places /\ (s + t) - 1 <= (s + m) - 1
          BY <1>1, <1>3, <1>4, <3>2
      <4> QED
          BY <4>1
    <3>3. ASSUME NEW l \in places, (s + t) - 1 <= l PROVE \E m \in rest : t <= m
      <4> DEFINE m == (l - s) + 1
      <4>1. l \in 1..S + 1
          BY <1>3
      <4>2. m \in 1..R + 1 /\ t <= m /\ (s + m) - 1 = l
          BY <1>1, <1>2, <3>3, <4>1
      <4> HIDE DEF m
      <4>3. m \in rest
          BY <1>3, <4>2
      <4> QED
          BY <4>2, <4>3
    <3> QED
        BY <2>1, <2>2, <3>1, <3>2, <3>3
  <2>4. b \subseteq 1..S + 1 /\ r \subseteq 1..R + 1
      BY <2>1, <2>2
  <2> QED
      BY <2>3, <2>4 DEF Shifted, b, r, S, R, u
<1>6. CASE piece # Many
  <2>1. b = {x \in 1..S : Takes(piece, string[x]) /\ x + 1 \in places}
      BY <1>6 DEF Before, S
  <2>2. r = {t \in 1..R : Takes(piece, u[t]) /\ t + 1 \in rest}
      BY <1>6 DEF Before, R
  <2> HIDE DEF b, r
  <2>3. ASSUME NEW t \in 1..R + 1 PROVE t \in r <=> (s + t) - 1 \in b
    <3>1. CASE t = R + 1
      <4>1. t \notin 1..R /\ (s + t) - 1 \notin 1..S
          BY <1>1, <1>2, <1>4, <3>1
      <4> QED
          BY <2>1, <2>2, <4>1
    <3>2. CASE t # R + 1
      <4> DEFINE x == (s + t) - 1
      <4>1. t \in 1..R /\ x \in 1..S /\ t + 1 \in 1..R + 1 /\ (s + (t + 1)) - 1 = x + 1
          BY <1>1, <1>2, <1>4, <3>2
      <4>2. u[t] = string[x]
          BY <1>2, <4>1
      <4> HIDE DEF x
      <4>3. t + 1 \in rest <=> x + 1 \in places
          BY <1>3, <4>1
      <4> QED
          BY <2>1, <2>2, <4>1, <4>2, <4>3 DEF x
    <3> QED
        BY <3>1, <3>2
  <2>4. b \subseteq 1..S + 1 /\ r \subseteq 1..R + 1
      BY <1>1, <1>4, <2>1, <2>2
  <2> QED
      BY <2>3, <2>4 DEF Shifted, b, r, S, R, u
<1> QED
    BY <1>5, <1>6

\* A pattern of pieces matches from where on its first piece takes what is
\* before a match of the others.
LEMMA LikeFirst ==
    ASSUME NEW C, NEW piece \in Seq(C), IsPiece(piece), NEW pieces \in Seq(Seq(C)),
           \A k \in 1..Len(pieces) : IsPiece(pieces[k]), NEW string \in Seq(C)
    PROVE  Like(piece \o FlattenSeq(pieces), string)
               <=> 1 \in Before(piece, string, {s \in 1..Len(string) + 1 :
                                                  Like(FlattenSeq(pieces), From(string, s))})
<1> DEFINE n == Len(pieces)
           S == Len(string)
           all == <<piece>> \o pieces
           after == {s \in 1..S + 1 : Like(FlattenSeq(pieces), From(string, s))}
<1>1. <<piece>> \in Seq(Seq(C)) /\ Len(<<piece>>) = 1 /\ <<piece>>[1] = piece
    OBVIOUS
<1>2. /\ n \in Nat /\ all \in Seq(Seq(C)) /\ Len(all) = n + 1 /\ all[1] = piece
      /\ \A k \in 1..n : all[k + 1] = pieces[k]
    BY <1>1
<1>3. FlattenSeq(all) = piece \o FlattenSeq(pieces)
  <2>1. FlattenSeq(<<piece>>) = piece
      BY FlattenOne
  <2>2. FlattenSeq(<<piece>> \o pieces) = FlattenSeq(<<piece>>) \o FlattenSeq(pieces)
      BY <1>1, FlattenConcat
  <2> QED
      BY <2>1, <2>2
<1> HIDE DEF all, n, S
<1>4. \A k \in 1..Len(all) : IsPiece(all[k])
  <2> SUFFICES ASSUME NEW k \in 1..n + 1 PROVE IsPiece(all[k])
      BY <1>2
  <2>1. CASE k = 1
      BY <1>2, <2>1
  <2>2. CASE k # 1
    <3>1. k - 1 \in 1..n /\ (k - 1) + 1 = k
        BY <1>2, <2>2
    <3>2. all[k] = pieces[k - 1] /\ IsPiece(pieces[k - 1])
        BY <1>2, <3>1 DEF n
    <3> QED
        BY <3>2
  <2> QED
      BY <2>1, <2>2
<1>5. PICK reach : Reaches(all, string, reach) /\ (Like(FlattenSeq(all), string) <=> 1 \in reach[1])
    BY <1>2, <1>4, LikeByPieces
<1>6. /\ reach[(n + 1) + 1] = {S + 1}
      /\ \A k \in 1..n + 1 : reach[k] = Before(all[k], string, reach[k + 1])
    BY <1>2, <1>5 DEF Reaches, S
<1>7. ASSUME NEW s \in 1..S + 1
      PROVE  s \in reach[2] <=> Like(FlattenSeq(pieces), From(string, s))
  <2> DEFINE u == From(string, s)
             R == Len(u)
  <2>1. PICK r : Reaches(pieces, u, r) /\ (Like(FlattenSeq(pieces), u) <=> 1 \in r[1])
      BY LikeByPieces
  <2>2. r[n + 1] = {R + 1} /\ \A k \in 1..n : r[k] = Before(pieces[k], u, r[k + 1])
      BY <2>1 DEF Reaches, n
  <2>3. R = (S + 1) - s /\ R \in Nat /\ S \in Nat /\ s \in Int
    <3>1. R = (S + 1) - s
        BY FromParts DEF S
    <3>2. S \in Nat
        BY DEF S
    <3> QED
        BY <3>1, <3>2
  <2> DEFINE J == {j \in Nat : j <= n => Shifted(string, s, reach[((n + 1) - j) + 1], r[(n + 1) - j])}
  <2> HIDE DEF u, R
  <2>4. 0 \in J
    <3>1. \A t \in 1..R + 1 : t \in {R + 1} <=> (s + t) - 1 \in {S + 1}
        BY <2>3
    <3>2. {S + 1} \subseteq 1..S + 1 /\ {R + 1} \subseteq 1..R + 1
        BY <2>3
    <3>3. Shifted(string, s, {S + 1}, {R + 1})
        BY <3>1, <3>2 DEF Shifted, S, R, u
    <3>4. ((n + 1) - 0) + 1 = (n + 1) + 1 /\ (n + 1) - 0 = n + 1
        BY <1>2
    <3> QED
        BY <1>6, <2>2, <3>3, <3>4
  <2>5. ASSUME NEW j \in Nat, j \in J PROVE j + 1 \in J
    <3> DEFINE k == (n + 1) - (j + 1)
    <3> SUFFICES ASSUME j + 1 <= n PROVE Shifted(string, s, reach[k + 1], r[k])
        OBVIOUS
    <3>1. /\ k \in 1..n /\ k + 1 \in 1..n + 1 /\ (n + 1) - j = k + 1
          /\ ((n + 1) - j) + 1 = (k + 1) + 1 /\ j <= n
        BY <1>2
    <3>2. Shifted(string, s, reach[(k + 1) + 1], r[k + 1])
        BY <2>5, <3>1
    <3> HIDE DEF k
    <3>3. reach[k + 1] = Before(pieces[k], string, reach[(k + 1) + 1])
        BY <1>2, <1>6, <3>1
    <3>4. r[k] = Before(pieces[k], u, r[k + 1])
        BY <2>2, <3>1
    <3>5. Shifted(string, s, Before(pieces[k], string, reach[(k + 1) + 1]),
                  Before(pieces[k], From(string, s), r[k + 1]))
        BY <3>2, ShiftBefore DEF S
    <3> QED
        BY <3>3, <3>4, <3>5 DEF u
  <2> HIDE DEF J
  <2>6. Nat \subseteq J
      BY ONLY <2>4, <2>5, Induction
  <2>7. Shifted(string, s, reach[2], r[1])
    <3>1. n \in J /\ n <= n /\ ((n + 1) - n) + 1 = 2 /\ (n + 1) - n = 1
        BY <1>2, <2>6
    <3> QED
        BY <3>1 DEF J
  <2>8. 1 \in r[1] <=> s \in reach[2]
    <3>1. 1 \in 1..R + 1 /\ (s + 1) - 1 = s
        BY <2>3
    <3> QED
        BY <2>7, <3>1 DEF Shifted, R, u
  <2> QED
      BY <2>1, <2>8 DEF u
<1>8. reach[2] \subseteq 1..S + 1
  <2>1. S \in Nat
      BY DEF S
  <2>2. CASE n = 0
      BY <1>6, <2>1, <2>2
  <2>3. CASE n # 0
    <3>1. 2 \in 1..n + 1
        BY <1>2, <2>3
    <3>2. reach[2] = Before(all[2], string, reach[3])
        BY <1>6, <3>1
    <3> QED
        BY <2>1, <3>2 DEF Before, S
  <2> QED
      BY <2>2, <2>3
<1>9. reach[2] = after
    BY <1>7, <1>8
<1>10. reach[1] = Before(piece, string, after)
  <2>1. 1 \in 1..n + 1 /\ 1 + 1 = 2
      BY <1>2
  <2> QED
      BY <1>2, <1>6, <1>9, <2>1
<1> QED
    BY <1>3, <1>5, <1>10 DEF S

-----------------------------------------------------------------------------
(* What the pieces match: nothing, any string, one character, a prefix.      *)

ArePieces(C, pieces) == pieces \in Seq(Seq(C)) /\ \A k \in 1..Len(pieces) : IsPiece(pieces[k])

\* From where on the rest of string matches these pieces.
Follow(pieces, string) ==
    {s \in 1..Len(string) + 1 : Like(FlattenSeq(pieces), From(string, s))}

LEMMA LikePieceFirst ==
    ASSUME NEW C, NEW piece \in Seq(C), IsPiece(piece), NEW pieces, ArePieces(C, pieces),
           NEW string \in Seq(C)
    PROVE  Like(piece \o FlattenSeq(pieces), string)
               <=> 1 \in Before(piece, string, Follow(pieces, string))
<1>1. pieces \in Seq(Seq(C)) /\ \A k \in 1..Len(pieces) : IsPiece(pieces[k])
    BY DEF ArePieces
<1> QED
    BY <1>1, LikeFirst DEF Follow

\* The pattern of no pieces matches the empty string.
LEMMA LikeNone ==
    ASSUME NEW C, NEW string \in Seq(C)
    PROVE  Like(<< >>, string) <=> Len(string) = 0
<1> DEFINE none == << >>
<1>1. none \in Seq(Seq(C)) /\ Len(none) = 0 /\ \A k \in 1..Len(none) : IsPiece(none[k])
    OBVIOUS
<1> HIDE DEF none
<1>2. PICK reach : Reaches(none, string, reach) /\ (Like(FlattenSeq(none), string) <=> 1 \in reach[1])
    BY <1>1, LikeByPieces
<1>3. reach[1] = {Len(string) + 1} /\ Len(string) \in Nat
    BY <1>1, <1>2 DEF Reaches
<1>4. Like(FlattenSeq(none), string) <=> Len(string) = 0
    BY <1>2, <1>3
<1> QED
    BY <1>4, FlattenNone, Zenon DEF none

\* A percent sign skips any number of characters.
LEMMA LikeAny ==
    ASSUME NEW C, Special \subseteq C, NEW pieces, ArePieces(C, pieces), NEW string \in Seq(C)
    PROVE  Like(<<"%">> \o FlattenSeq(pieces), string)
               <=> \E s \in 1..Len(string) + 1 : Like(FlattenSeq(pieces), From(string, s))
<1> DEFINE after == Follow(pieces, string)
           percent == <<"%">>
<1>1. percent \in Seq(C) /\ percent = Many /\ IsPiece(percent)
    BY SpecialMembers, ShortStrings, Zenon DEF IsPiece, Many
<1> HIDE DEF percent
<1>2. Like(percent \o FlattenSeq(pieces), string) <=> 1 \in Before(percent, string, after)
    BY <1>1, LikePieceFirst, Zenon
<1>3. 1 \in Before(percent, string, after) <=> \E m \in after : 1 <= m
  <2>1. Len(string) \in Nat
      OBVIOUS
  <2> QED
      BY <1>1, <2>1 DEF Before
<1>4. (\E m \in after : 1 <= m) <=> \E s \in 1..Len(string) + 1 : Like(FlattenSeq(pieces), From(string, s))
    BY DEF Follow
<1> QED
    BY <1>2, <1>3, <1>4 DEF percent

\* A literal takes its character and leaves the rest.
LEMMA LikeLiteral ==
    ASSUME NEW C, Special \subseteq C, NEW c \in C, NEW pieces, ArePieces(C, pieces),
           NEW string \in Seq(C)
    PROVE  Like(Literal(c) \o FlattenSeq(pieces), string)
               <=> /\ Len(string) >= 1 /\ string[1] = c
                   /\ Like(FlattenSeq(pieces), From(string, 2))
<1> DEFINE after == Follow(pieces, string)
<1>1. Literal(c) \in Seq(C)
    BY SpecialMembers, ShortStrings, Zenon DEF Literal
<1>2. IsPiece(Literal(c)) /\ Literal(c) # Many
    BY PiecesDiffer, Zenon DEF IsPiece
<1>3. Like(Literal(c) \o FlattenSeq(pieces), string) <=> 1 \in Before(Literal(c), string, after)
    BY <1>1, <1>2, LikePieceFirst, Zenon
<1>4. Takes(Literal(c), string[1]) <=> string[1] = c
    BY PiecesDiffer, Zenon DEF Takes
<1>5. 1 \in Before(Literal(c), string, after)
          <=> 1 \in 1..Len(string) /\ Takes(Literal(c), string[1]) /\ 1 + 1 \in after
    BY <1>2 DEF Before
<1>6. Len(string) \in Nat
    OBVIOUS
<1>7. 1 \in 1..Len(string) => 1 + 1 = 2 /\ 2 \in 1..Len(string) + 1
    BY <1>6
<1>8. 1 \in 1..Len(string) <=> Len(string) >= 1
    BY <1>6
<1>9. 2 \in 1..Len(string) + 1 => (2 \in after <=> Like(FlattenSeq(pieces), From(string, 2)))
    BY DEF Follow
<1> HIDE DEF after
<1>10. 1 \in 1..Len(string) => (1 + 1 \in after <=> Like(FlattenSeq(pieces), From(string, 2)))
    BY <1>7, <1>9
<1> QED
    BY <1>3, <1>4, <1>5, <1>8, <1>10, Zenon

\* A percent sign alone matches every string.
LEMMA LikeAnyString ==
    ASSUME NEW C, Special \subseteq C, NEW string \in Seq(C)
    PROVE  Like(<<"%">>, string)
<1> DEFINE none == << >>
           end == Len(string) + 1
<1>1. ArePieces(C, none)
    BY DEF ArePieces
<1>2. end \in 1..Len(string) + 1 /\ Len(string) \in Nat
    OBVIOUS
<1>3. From(string, end) \in Seq(C) /\ Len(From(string, end)) = 0
    BY <1>2, FromParts
<1>4. Like(<< >>, From(string, end))
    BY <1>3, LikeNone
<1>5. FlattenSeq(none) = << >>
    BY FlattenNone
<1> HIDE DEF none, end
<1>6. Like(<<"%">> \o FlattenSeq(none), string)
  <2>1. Like(FlattenSeq(none), From(string, end))
      BY <1>4, <1>5, Zenon
  <2> QED
      BY <1>1, <1>2, <2>1, LikeAny
<1>7. <<"%">> \o << >> = <<"%">>
    OBVIOUS
<1> QED
    BY <1>5, <1>6, <1>7, Zenon

AreIn(C, a, b, c) == a \in Seq(C) /\ b \in Seq(C) /\ c \in Seq(C)

LEMMA Associative ==
    ASSUME NEW C, NEW a, NEW b, NEW c, AreIn(C, a, b, c)
    PROVE  (a \o b) \o c = a \o (b \o c)
BY DEF AreIn

LEMMA NothingBefore ==
    ASSUME NEW X, NEW s \in Seq(X), Len(s) = 0, NEW t \in Seq(X)
    PROVE  s \o t = t
OBVIOUS

LEMMA PiecesJoin ==
    ASSUME NEW C, NEW a, NEW b, ArePieces(C, a), ArePieces(C, b)
    PROVE  ArePieces(C, a \o b)
<1>1. /\ a \in Seq(Seq(C)) /\ b \in Seq(Seq(C)) /\ Len(a) \in Nat /\ Len(b) \in Nat
      /\ \A k \in 1..Len(a) : IsPiece(a[k])
      /\ \A k \in 1..Len(b) : IsPiece(b[k])
    BY DEF ArePieces
<1> DEFINE s == a \o b
<1>2. /\ s \in Seq(Seq(C)) /\ Len(s) = Len(a) + Len(b)
      /\ \A j \in 1..Len(a) : s[j] = a[j]
      /\ \A j \in 1..Len(b) : s[Len(a) + j] = b[j]
    BY <1>1, ConcatParts
<1> HIDE DEF s
<1>3. ASSUME NEW k \in 1..Len(s) PROVE IsPiece(s[k])
  <2>1. CASE k <= Len(a)
    <3>1. k \in 1..Len(a)
        BY <1>1, <1>2, <2>1
    <3> QED
        BY <1>1, <1>2, <3>1
  <2>2. CASE ~(k <= Len(a))
    <3>1. k - Len(a) \in 1..Len(b) /\ Len(a) + (k - Len(a)) = k
        BY <1>1, <1>2, <2>2
    <3>2. s[Len(a) + (k - Len(a))] = b[k - Len(a)]
        BY <1>2, <3>1
    <3> QED
        BY <1>1, <3>1, <3>2
  <2> QED
      BY <2>1, <2>2
<1> QED
    BY <1>2, <1>3 DEF ArePieces, s

LEMMA LiteralsArePieces ==
    ASSUME NEW C, Special \subseteq C, NEW string \in Seq(C)
    PROVE  ArePieces(C, LiteralPieces(string)) /\ EscapeLike(string) = FlattenSeq(LiteralPieces(string))
<1>1. /\ LiteralPieces(string) \in Seq(Seq(C))
      /\ Len(LiteralPieces(string)) = Len(string)
      /\ \A i \in 1..Len(string) : LiteralPieces(string)[i] = Literal(string[i])
      /\ EscapeLike(string) = FlattenSeq(LiteralPieces(string))
    BY LiteralParts
<1>2. \A c : IsPiece(Literal(c))
    BY Zenon DEF IsPiece
<1> QED
    BY <1>1, <1>2 DEF ArePieces

LEMMA OnePiece ==
    ASSUME NEW C, NEW piece \in Seq(C), IsPiece(piece)
    PROVE  ArePieces(C, <<piece>>) /\ FlattenSeq(<<piece>>) = piece
<1>1. <<piece>> \in Seq(Seq(C)) /\ Len(<<piece>>) = 1 /\ <<piece>>[1] = piece
    OBVIOUS
<1>2. \A k \in 1..Len(<<piece>>) : IsPiece(<<piece>>[k])
    BY <1>1
<1> QED
    BY <1>1, <1>2, FlattenOne DEF ArePieces

LEMMA HeadSplit ==
    ASSUME NEW C, NEW w \in Seq(C), Len(w) >= 1
    PROVE  w = <<w[1]>> \o From(w, 2)
<1>1. 1 \in 0..Len(w) /\ 1 + 1 = 2
    OBVIOUS
<1>2. w = SubSeq(w, 1, 1) \o SubSeq(w, 1 + 1, Len(w))
    BY <1>1, SplitSeq
<1>3. SubSeq(w, 1, 1) = <<w[1]>>
  <2> DEFINE a == SubSeq(w, 1, 1)
             b == <<w[1]>>
  <2>1. a \in Seq(C) /\ Len(a) = 1 /\ a[1] = w[1]
      BY <1>1
  <2>2. w[1] \in C
      BY <1>1
  <2>3. b \in Seq(C) /\ Len(b) = 1 /\ b[1] = w[1]
      BY <2>2
  <2> HIDE DEF a, b
  <2>4. \A i \in 1..Len(a) : a[i] = b[i]
      BY <2>1, <2>3
  <2>5. a = b
      BY <2>1, <2>3, <2>4, SameElements
  <2> QED
      BY <2>5 DEF a, b
<1> QED
    BY <1>1, <1>2, <1>3, Zenon DEF From

LEMMA HeadRest ==
    ASSUME NEW C, NEW w \in Seq(C), Len(w) >= 1
    PROVE  /\ w[1] \in C /\ From(w, 2) \in Seq(C) /\ Len(From(w, 2)) = Len(w) - 1
           /\ \A i \in 1..Len(w) - 1 : From(w, 2)[i] = w[i + 1]
           /\ w = <<w[1]>> \o From(w, 2)
<1> DEFINE r == From(w, 2)
<1>1. Len(w) \in Nat /\ 2 \in 1..Len(w) + 1 /\ (Len(w) + 1) - 2 = Len(w) - 1 /\ w[1] \in C
    OBVIOUS
<1>2. /\ r \in Seq(C) /\ Len(r) = Len(w) - 1
      /\ \A i \in 1..Len(w) - 1 : r[i] = w[(2 + i) - 1]
  <2>1. /\ r \in Seq(C) /\ Len(r) = (Len(w) + 1) - 2
        /\ \A i \in 1..(Len(w) + 1) - 2 : r[i] = w[(2 + i) - 1]
      BY <1>1, FromParts, Zenon
  <2> QED
      BY <1>1, <2>1, Zenon
<1> HIDE DEF r
<1>3. \A i \in 1..Len(w) - 1 : r[i] = w[i + 1]
  <2> SUFFICES ASSUME NEW i \in 1..Len(w) - 1 PROVE r[i] = w[i + 1]
      OBVIOUS
  <2>1. (2 + i) - 1 = i + 1
      OBVIOUS
  <2> QED
      BY <1>2, <2>1
<1>4. w = <<w[1]>> \o From(w, 2)
    BY HeadSplit
<1> QED
    BY <1>1, <1>2, <1>3, <1>4 DEF r

LEMMA LiteralsHead ==
    ASSUME NEW C, Special \subseteq C, NEW w \in Seq(C), Len(w) >= 1
    PROVE  LiteralPieces(w) = <<Literal(w[1])>> \o LiteralPieces(From(w, 2))
<1> DEFINE r == From(w, 2)
           a == <<Literal(w[1])>>
           b == LiteralPieces(r)
           p == LiteralPieces(w)
<1>0. Len(w) \in Nat
    OBVIOUS
<1>1. /\ w[1] \in C /\ r \in Seq(C) /\ Len(r) = Len(w) - 1 /\ Len(w) \in Nat
      /\ \A i \in 1..Len(w) - 1 : r[i] = w[i + 1]
    BY <1>0, HeadRest, Zenon
<1> HIDE DEF r
<1>2. p \in Seq(Seq(C)) /\ Len(p) = Len(w) /\ \A i \in 1..Len(w) : p[i] = Literal(w[i])
    BY LiteralParts
<1>3. b \in Seq(Seq(C)) /\ Len(b) = Len(r) /\ \A i \in 1..Len(r) : b[i] = Literal(r[i])
    BY <1>1, LiteralParts
<1>4. From(p, 2) = b
  <2>1. /\ From(p, 2) \in Seq(Seq(C)) /\ Len(From(p, 2)) = Len(p) - 1
        /\ \A i \in 1..Len(p) - 1 : From(p, 2)[i] = p[i + 1]
      BY <1>1, <1>2, HeadRest
  <2> DEFINE d == From(p, 2)
  <2> HIDE DEF d, p, b
  <2>2. d \in Seq(Seq(C)) /\ Len(d) = Len(b)
      BY <1>1, <1>2, <1>3, <2>1 DEF d
  <2>3. ASSUME NEW i \in 1..Len(d) PROVE d[i] = b[i]
    <3>1. i \in 1..Len(r) /\ i \in 1..Len(p) - 1 /\ i \in 1..Len(w) - 1 /\ i + 1 \in 1..Len(w)
      <4>1. Len(d) = Len(r) /\ Len(r) = Len(w) - 1 /\ Len(p) = Len(w) /\ Len(w) \in Nat
          BY <1>1, <1>2, <1>3, <2>2, Zenon
      <4> QED
          BY <4>1
    <3>2. d[i] = p[i + 1] /\ p[i + 1] = Literal(w[i + 1]) /\ b[i] = Literal(r[i]) /\ r[i] = w[i + 1]
        BY <1>1, <1>2, <1>3, <2>1, <3>1 DEF d
    <3> QED
        BY <3>2
  <2>4. d = b
      BY <1>3, <2>2, <2>3, SameElements
  <2> QED
      BY <2>4 DEF d
<1>5. p = <<p[1]>> \o From(p, 2)
    BY <1>1, <1>2, HeadSplit
<1>6. p[1] = Literal(w[1])
    BY <1>1, <1>2
<1> QED
    BY <1>4, <1>5, <1>6, Zenon DEF r

Begins(w, string) == Len(w) <= Len(string) /\ \A i \in 1..Len(w) : string[i] = w[i]

\* An escaped string and a percent sign: the strings that begin like it.
LEMMA LikeBegins ==
    ASSUME NEW C, Special \subseteq C, NEW v \in Seq(C), NEW t \in Seq(C)
    PROVE  Like(EscapeLike(v) \o <<"%">>, t) <=> Begins(v, t)
<1> DEFINE percent == <<"%">>
           Rest(w) == LiteralPieces(w) \o <<Many>>
           Claim(w) == \A string \in Seq(C) : Like(FlattenSeq(Rest(w)), string) <=> Begins(w, string)
           L == {m \in Nat : \A w \in Seq(C) : Len(w) = m => Claim(w)}
<1>1. Many \in Seq(C) /\ IsPiece(Many) /\ percent = Many
    BY SpecialMembers, ShortStrings, Zenon DEF IsPiece, Many
<1> HIDE DEF percent
<1>2. ArePieces(C, <<Many>>) /\ FlattenSeq(<<Many>>) = Many
    BY <1>1, OnePiece
<1>3. ASSUME NEW w \in Seq(C)
      PROVE  ArePieces(C, Rest(w)) /\ FlattenSeq(Rest(w)) = EscapeLike(w) \o percent
  <2>1. ArePieces(C, LiteralPieces(w)) /\ EscapeLike(w) = FlattenSeq(LiteralPieces(w))
      BY LiteralsArePieces
  <2>2. ArePieces(C, LiteralPieces(w) \o <<Many>>)
      BY <1>2, <2>1, PiecesJoin
  <2>3. FlattenSeq(LiteralPieces(w) \o <<Many>>) = FlattenSeq(LiteralPieces(w)) \o FlattenSeq(<<Many>>)
      BY <1>2, <2>1, FlattenConcat DEF ArePieces
  <2> QED
      BY <1>1, <1>2, <2>1, <2>2, <2>3
<1>4. 0 \in L
  <2> SUFFICES ASSUME NEW w \in Seq(C), Len(w) = 0, NEW string \in Seq(C)
               PROVE  Like(FlattenSeq(Rest(w)), string) <=> Begins(w, string)
      OBVIOUS
  <2>1. LiteralPieces(w) \in Seq(Seq(C)) /\ Len(LiteralPieces(w)) = 0
      BY LiteralParts
  <2>2. LiteralPieces(w) \o <<Many>> = <<Many>>
    <3>1. <<Many>> \in Seq(Seq(C))
        BY <1>1
    <3> QED
        BY <2>1, <3>1, NothingBefore
  <2>3. Like(percent, string)
      BY LikeAnyString DEF percent
  <2>4. Begins(w, string)
      BY DEF Begins
  <2> QED
      BY <1>1, <1>2, <2>2, <2>3, <2>4, Zenon
<1>5. ASSUME NEW m \in Nat, m \in L PROVE m + 1 \in L
  <2> SUFFICES ASSUME NEW w \in Seq(C), Len(w) = m + 1, NEW string \in Seq(C)
               PROVE  Like(FlattenSeq(Rest(w)), string) <=> Begins(w, string)
      OBVIOUS
  <2> DEFINE r == From(w, 2)
  <2>1. /\ Len(w) >= 1 /\ w[1] \in C /\ r \in Seq(C) /\ Len(r) = m
        /\ \A i \in 1..m : r[i] = w[i + 1]
    <3>1. Len(w) >= 1 /\ Len(w) - 1 = m
        OBVIOUS
    <3> QED
        BY <3>1, HeadRest
  <2>2. LiteralPieces(w) = <<Literal(w[1])>> \o LiteralPieces(r)
      BY <2>1, LiteralsHead
  <2> HIDE DEF r
  <2> DEFINE a == <<Literal(w[1])>>
             b == LiteralPieces(r)
             c == <<Many>>
  <2>3. ArePieces(C, a) /\ FlattenSeq(a) = Literal(w[1])
    <3>1. Literal(w[1]) \in Seq(C) /\ IsPiece(Literal(w[1]))
        BY <2>1, SpecialMembers, ShortStrings, Zenon DEF Literal, IsPiece
    <3> QED
        BY <3>1, OnePiece
  <2>4. ArePieces(C, b)
      BY <2>1, LiteralsArePieces
  <2>5. ArePieces(C, b \o c) /\ b \o c = Rest(r)
      BY <1>2, <2>4, PiecesJoin
  <2>6. Rest(w) = a \o (b \o c)
    <3>1. a \in Seq(Seq(C)) /\ b \in Seq(Seq(C)) /\ c \in Seq(Seq(C))
        BY <1>2, <2>3, <2>4 DEF ArePieces
    <3>2. Rest(w) = (a \o b) \o c
        BY <2>2
    <3> HIDE DEF a, b, c, Rest
    <3>3. (a \o b) \o c = a \o (b \o c)
      <4>1. AreIn(Seq(C), a, b, c)
          BY <3>1, Zenon DEF AreIn
      <4> QED
          BY <4>1, Associative
    <3> QED
        BY <3>2, <3>3, Zenon
  <2>7. FlattenSeq(Rest(w)) = Literal(w[1]) \o FlattenSeq(Rest(r))
    <3>1. a \in Seq(Seq(C)) /\ b \o c \in Seq(Seq(C))
        BY <2>3, <2>5 DEF ArePieces
    <3>2. FlattenSeq(a \o (b \o c)) = FlattenSeq(a) \o FlattenSeq(b \o c)
      <4> HIDE DEF a, b, c
      <4> QED
          BY <3>1, FlattenConcat
    <3> QED
        BY <2>3, <2>5, <2>6, <3>2, Zenon
  <2> DEFINE after == From(string, 2)
  <2>8. Like(FlattenSeq(Rest(w)), string)
            <=> Len(string) >= 1 /\ string[1] = w[1] /\ Like(FlattenSeq(Rest(r)), after)
    <3> HIDE DEF Rest
    <3>1. ArePieces(C, Rest(r))
        BY <1>3, <2>1
    <3>2. Like(Literal(w[1]) \o FlattenSeq(Rest(r)), string)
              <=> Len(string) >= 1 /\ string[1] = w[1] /\ Like(FlattenSeq(Rest(r)), From(string, 2))
      <4> DEFINE d == w[1]
                 p == Rest(r)
      <4>1. d \in C /\ ArePieces(C, p)
          BY <2>1, <3>1
      <4> HIDE DEF d, p
      <4>2. Like(Literal(d) \o FlattenSeq(p), string)
              <=> Len(string) >= 1 /\ string[1] = d /\ Like(FlattenSeq(p), From(string, 2))
          BY <4>1, LikeLiteral
      <4> QED
          BY <4>2 DEF d, p
    <3> QED
        BY <2>7, <3>2, Zenon
  <2>9. ASSUME Len(string) >= 1
        PROVE  Like(FlattenSeq(Rest(r)), after) <=> Begins(r, after)
    <3>1. after \in Seq(C)
        BY <2>9, HeadRest
    <3> HIDE DEF Rest, after
    <3> QED
        BY <1>5, <2>1, <3>1
  <2>10. Begins(w, string) <=> Len(string) >= 1 /\ string[1] = w[1] /\ Begins(r, after)
    <3>1. Len(string) \in Nat /\ m \in Nat
        OBVIOUS
    <3>2. CASE Len(string) = 0
        BY <3>1, <3>2 DEF Begins
    <3>3. CASE Len(string) # 0
      <4>1. /\ Len(string) >= 1 /\ Len(after) = Len(string) - 1
            /\ \A i \in 1..Len(string) - 1 : after[i] = string[i + 1]
        <5>1. Len(string) >= 1
            BY <3>1, <3>3
        <5>2. Len(From(string, 2)) = Len(string) - 1
              /\ \A i \in 1..Len(string) - 1 : From(string, 2)[i] = string[i + 1]
            BY <5>1, HeadRest, Zenon
        <5> QED
            BY <5>1, <5>2, Zenon
      <4> HIDE DEF after
      <4>2. ASSUME Begins(w, string) PROVE string[1] = w[1] /\ Begins(r, after)
        <5>1. Len(w) <= Len(string) /\ \A i \in 1..m + 1 : string[i] = w[i]
            BY <4>2 DEF Begins
        <5>2. string[1] = w[1] /\ Len(r) <= Len(after)
            BY <2>1, <3>1, <4>1, <5>1
        <5>3. ASSUME NEW i \in 1..m PROVE after[i] = r[i]
          <6>1. i + 1 \in 1..m + 1 /\ i \in 1..Len(string) - 1
              BY <3>1, <5>1
          <6> QED
              BY <2>1, <4>1, <5>1, <6>1
        <5> QED
            BY <2>1, <5>2, <5>3 DEF Begins
      <4>3. ASSUME string[1] = w[1], Begins(r, after) PROVE Begins(w, string)
        <5>1. m <= Len(after) /\ \A i \in 1..m : after[i] = r[i]
            BY <2>1, <4>3 DEF Begins
        <5>2. ASSUME NEW i \in 1..m + 1 PROVE string[i] = w[i]
          <6>1. CASE i = 1
              BY <4>3, <6>1
          <6>2. CASE i # 1
            <7>1. i - 1 \in 1..m /\ i - 1 \in 1..Len(string) - 1 /\ (i - 1) + 1 = i
                BY <3>1, <4>1, <5>1, <6>2
            <7> QED
                BY <2>1, <4>1, <5>1, <7>1
          <6> QED
              BY <6>1, <6>2
        <5> QED
            BY <3>1, <4>1, <5>1, <5>2 DEF Begins
      <4> QED
          BY <4>1, <4>2, <4>3
    <3> QED
        BY <3>2, <3>3
  <2> QED
      BY <2>8, <2>9, <2>10
<1> HIDE DEF L
<1>6. Nat \subseteq L
    BY ONLY <1>4, <1>5, Induction
<1>7. Claim(v)
  <2>1. Len(v) \in Nat
      OBVIOUS
  <2> HIDE DEF Claim
  <2> QED
      BY <1>6, <2>1 DEF L
<1>8. Like(FlattenSeq(Rest(v)), t) <=> Begins(v, t)
  <2> HIDE DEF Rest
  <2> QED
      BY <1>7
<1>9. FlattenSeq(Rest(v)) = EscapeLike(v) \o percent
    BY <1>3
<1> QED
    BY <1>8, <1>9, Zenon DEF percent

-----------------------------------------------------------------------------
(* The reference matcher of globs agrees with LIKE on the translation.       *)

GlobStep(glob, string, match, g) ==
    IF g = 0 THEN {0}
    ELSE LET before == match[g - 1] IN
         {s \in 0..Len(string) :
            IF glob[g] = "*" THEN \E n \in before : n <= s
            ELSE s > 0 /\ glob[g] \in {"?", string[s]} /\ s - 1 \in before}
GlobTable(glob, string, match) ==
    match = [g \in 0..Len(glob) |-> GlobStep(glob, string, match, g)]

LEMMA GlobStepDepends ==
    ASSUME NEW glob, NEW string, NEW v, NEW w, NEW g, g # 0 => v[g - 1] = w[g - 1]
    PROVE  GlobStep(glob, string, v, g) = GlobStep(glob, string, w, g)
BY Zenon DEF GlobStep

\* The recursion in GlobMatch has a solution.
LEMMA GlobTableExists ==
    ASSUME NEW glob, NEW string, Len(glob) \in Nat
    PROVE  \E match : GlobTable(glob, string, match)
<1> DEFINE N == Len(glob)
           Step(w, g) == GlobStep(glob, string, w, g)
           Solved(w, k) == \A g \in 0..N : g <= k => w[g] = Step(w, g)
           S == {k \in Nat : \E w : Solved(w, k)}
<1>1. 0 \in S
  <2> DEFINE w == [g \in 0..N |-> {0}]
  <2>1. ASSUME NEW g \in 0..N, g <= 0 PROVE w[g] = Step(w, g)
    <3>1. g = 0
        BY <2>1
    <3> QED
        BY <3>1 DEF GlobStep
  <2> HIDE DEF w
  <2>2. Solved(w, 0)
      BY <2>1
  <2> QED
      BY <2>2
<1>2. ASSUME NEW k \in Nat, k \in S PROVE k + 1 \in S
  <2>1. PICK v : Solved(v, k)
      BY <1>2
  <2> DEFINE w == [g \in 0..N |-> IF g <= k THEN v[g] ELSE Step(v, g)]
  <2> HIDE DEF Step
  <2>2. \A g \in 0..N : g <= k => w[g] = v[g]
      OBVIOUS
  <2>3. \A g \in 0..N : ~(g <= k) => w[g] = Step(v, g)
      OBVIOUS
  <2> HIDE DEF w
  <2>4. ASSUME NEW g \in 0..N, g <= k + 1 PROVE w[g] = Step(w, g)
    <3>1. ASSUME g # 0 PROVE v[g - 1] = w[g - 1]
      <4>1. g - 1 \in 0..N /\ g - 1 <= k
          BY <2>4, <3>1
      <4> QED
          BY <2>2, <4>1
    <3>2. Step(v, g) = Step(w, g)
        BY <3>1, GlobStepDepends DEF Step
    <3>3. w[g] = Step(v, g)
        BY <2>1, <2>2, <2>3
    <3> QED
        BY <3>2, <3>3
  <2>5. Solved(w, k + 1)
      BY <2>4
  <2> HIDE DEF Solved
  <2> QED
      BY <2>5
<1> HIDE DEF S
<1>3. Nat \subseteq S
    BY ONLY <1>1, <1>2, Induction
<1>4. PICK v : Solved(v, N)
    BY <1>3 DEF S
<1> DEFINE w == [g \in 0..N |-> v[g]]
<1>5. ASSUME NEW g \in 0..N PROVE w[g] = Step(w, g)
  <2>1. v[g] = Step(v, g)
      BY <1>4
  <2>2. \A h \in 0..N : w[h] = v[h]
      OBVIOUS
  <2> HIDE DEF w
  <2>3. ASSUME g # 0 PROVE v[g - 1] = w[g - 1]
    <3>1. g - 1 \in 0..N
        BY <2>3
    <3> QED
        BY <2>2, <3>1
  <2>4. Step(v, g) = Step(w, g)
      BY <2>3, GlobStepDepends
  <2> QED
      BY <2>1, <2>2, <2>4
<1> HIDE DEF Step
<1>6. w = [g \in 0..N |-> Step(w, g)]
    BY <1>5
<1> HIDE DEF w
<1> QED
    BY <1>6 DEF Step, GlobTable

\* GlobMatch is that solution's answer.
LEMMA GlobIsSolved ==
    ASSUME NEW glob, NEW string, Len(glob) \in Nat
    PROVE  \E match : /\ GlobMatch(glob, string) <=> Len(string) \in match[Len(glob)]
                      /\ \A g \in 0..Len(glob) : match[g] = GlobStep(glob, string, match, g)
<1> DEFINE w == CHOOSE match :
                    match = [g \in 0..Len(glob) |-> GlobStep(glob, string, match, g)]
<1>1. \E match : GlobTable(glob, string, match)
    BY GlobTableExists
<1>2. w = [g \in 0..Len(glob) |-> GlobStep(glob, string, w, g)]
    BY <1>1, Zenon DEF GlobTable
<1>3. GlobMatch(glob, string) <=> Len(string) \in w[Len(glob)]
    BY Zenon DEF GlobMatch, GlobStep
<1> HIDE DEF w
<1>4. \A g \in 0..Len(glob) : w[g] = GlobStep(glob, string, w, g)
    BY <1>2, Zenon
<1> QED
    BY <1>3, <1>4

\* What the matcher makes of one character of the glob.
LEMMA GlobStepByPiece ==
    ASSUME NEW glob, NEW string, NEW match, NEW g, g # 0
    PROVE  GlobStep(glob, string, match, g) =
             IF GlobPiece(glob[g]) = Many
             THEN {s \in 0..Len(string) : \E n \in match[g - 1] : n <= s}
             ELSE {s \in 0..Len(string) : s > 0 /\ Takes(GlobPiece(glob[g]), string[s])
                                                /\ s - 1 \in match[g - 1]}
<1> DEFINE c == glob[g]
<1>1. CASE c = "*"
  <2>1. GlobPiece(c) = Many
      BY <1>1, Zenon DEF GlobPiece
  <2> QED
      BY <1>1, <2>1, Zenon DEF GlobStep
<1>2. CASE c = "?"
  <2>1. c # "*"
      BY <1>2
  <2>2. GlobPiece(c) = One /\ One # Many
      BY <1>2, <2>1, PiecesDiffer, Zenon DEF GlobPiece
  <2>3. \A s : (c \in {"?", string[s]}) <=> Takes(GlobPiece(c), string[s])
      BY <1>2, <2>2, Zenon DEF Takes
  <2> HIDE DEF c
  <2>4. GlobStep(glob, string, match, g) =
            {s \in 0..Len(string) : s > 0 /\ c \in {"?", string[s]} /\ s - 1 \in match[g - 1]}
      BY <2>1, Zenon DEF GlobStep, c
  <2>5. GlobStep(glob, string, match, g) =
            {s \in 0..Len(string) : s > 0 /\ Takes(GlobPiece(c), string[s]) /\ s - 1 \in match[g - 1]}
      BY <2>3, <2>4
  <2> QED
      BY <2>2, <2>5, Zenon DEF c
<1>3. CASE c # "*" /\ c # "?"
  <2>1. GlobPiece(c) = Literal(c) /\ Literal(c) # Many /\ Literal(c) # One
      BY <1>3, PiecesDiffer, Zenon DEF GlobPiece
  <2>2. \A d : Takes(Literal(c), d) <=> d = c
      BY PiecesDiffer, Zenon DEF Takes
  <2>3. \A s : (c \in {"?", string[s]}) <=> Takes(GlobPiece(c), string[s])
      BY <1>3, <2>1, <2>2, Zenon
  <2> HIDE DEF c
  <2>4. GlobStep(glob, string, match, g) =
            {s \in 0..Len(string) : s > 0 /\ c \in {"?", string[s]} /\ s - 1 \in match[g - 1]}
      BY <1>3, Zenon DEF GlobStep, c
  <2>5. GlobStep(glob, string, match, g) =
            {s \in 0..Len(string) : s > 0 /\ Takes(GlobPiece(c), string[s]) /\ s - 1 \in match[g - 1]}
      BY <2>3, <2>4
  <2> QED
      BY <2>1, <2>5, Zenon DEF c
<1> QED
    BY <1>1, <1>2, <1>3

\* A glob matches what the pattern it is translated to matches.
LEMMA GlobIsLike ==
    ASSUME NEW C, Special \subseteq C, NEW glob \in Seq(C), NEW string \in Seq(C)
    PROVE  Like(GlobToLike(glob), string) <=> GlobMatch(glob, string)
<1> DEFINE n == Len(glob)
           S == Len(string)
           pieces == GlobPieces(glob)
<1>1. n \in Nat /\ S \in Nat
    OBVIOUS
<1>2. /\ pieces \in Seq(Seq(C)) /\ Len(pieces) = n
      /\ \A k \in 1..n : pieces[k] = GlobPiece(glob[k]) /\ IsPiece(pieces[k])
      /\ GlobToLike(glob) = FlattenSeq(pieces)
    BY GlobParts
<1> HIDE DEF pieces, n, S
<1>3. PICK reach : Reaches(pieces, string, reach) /\ (Like(FlattenSeq(pieces), string) <=> 1 \in reach[1])
    BY <1>2, LikeByPieces
<1>4. reach[n + 1] = {S + 1} /\ \A k \in 1..n : reach[k] = Before(pieces[k], string, reach[k + 1])
    BY <1>2, <1>3 DEF Reaches, S
<1>5. PICK match : /\ GlobMatch(glob, string) <=> S \in match[n]
                   /\ \A g \in 0..n : match[g] = GlobStep(glob, string, match, g)
    BY <1>1, GlobIsSolved DEF n, S
<1> DEFINE Meet(k) == \E s \in match[k] : s + 1 \in reach[k + 1]
           J == {k \in Nat : k <= n => (Meet(k) <=> 1 \in reach[1])}
<1>6. match[0] = {0}
  <2>1. 0 \in 0..n
      BY <1>1
  <2> QED
      BY <1>5, <2>1 DEF GlobStep
<1>7. 0 \in J
  <2>1. Meet(0) <=> 1 \in reach[1]
      BY <1>6
  <2> QED
      BY <2>1
<1>8. ASSUME NEW k \in Nat, k \in J PROVE k + 1 \in J
  <2> SUFFICES ASSUME k + 1 <= n PROVE Meet(k + 1) <=> 1 \in reach[1]
      OBVIOUS
  <2>1. k + 1 \in 1..n /\ k + 1 \in 0..n /\ k \in 0..n /\ (k + 1) - 1 = k /\ k + 1 # 0
      BY <1>1
  <2> DEFINE piece == pieces[k + 1]
             now == match[k]
             next == match[k + 1]
             here == reach[k + 1]
             then == reach[(k + 1) + 1]
  <2>2. Meet(k) <=> 1 \in reach[1]
      BY <1>8, <2>1
  <2>3. here = Before(piece, string, then)
      BY <1>4, <2>1
  <2>4. next = IF piece = Many THEN {s \in 0..S : \E m \in now : m <= s}
               ELSE {s \in 0..S : s > 0 /\ Takes(piece, string[s]) /\ s - 1 \in now}
    <3>1. next = GlobStep(glob, string, match, k + 1) /\ piece = GlobPiece(glob[k + 1])
        BY <1>2, <1>5, <2>1
    <3>2. GlobStep(glob, string, match, k + 1) =
             IF GlobPiece(glob[k + 1]) = Many
             THEN {s \in 0..S : \E m \in match[(k + 1) - 1] : m <= s}
             ELSE {s \in 0..S : s > 0 /\ Takes(GlobPiece(glob[k + 1]), string[s])
                                                /\ s - 1 \in match[(k + 1) - 1]}
      <4>1. \A g : g # 0 => GlobStep(glob, string, match, g) =
                IF GlobPiece(glob[g]) = Many
                THEN {s \in 0..Len(string) : \E m \in match[g - 1] : m <= s}
                ELSE {s \in 0..Len(string) : s > 0 /\ Takes(GlobPiece(glob[g]), string[s])
                                                   /\ s - 1 \in match[g - 1]}
          BY GlobStepByPiece, Zenon
      <4> QED
          BY <2>1, <4>1, Zenon DEF S
    <3>3. match[(k + 1) - 1] = now
        BY <2>1
    <3> QED
        BY <3>1, <3>2, <3>3, Zenon
  <2>5. now \subseteq 0..S
    <3>1. CASE k = 0
        BY <1>1, <1>6, <3>1
    <3>2. CASE k # 0
      <4>1. now = GlobStep(glob, string, match, k)
          BY <1>5, <2>1
      <4> QED
          BY <3>2, <4>1 DEF GlobStep, S
    <3> QED
        BY <3>1, <3>2
  <2>6. then \subseteq 1..S + 1
    <3>1. CASE k + 1 = n
        BY <1>1, <1>4, <3>1
    <3>2. CASE k + 1 # n
      <4>1. (k + 1) + 1 \in 1..n
          BY <1>1, <2>1, <3>2
      <4>2. then = Before(pieces[(k + 1) + 1], string, reach[((k + 1) + 1) + 1])
          BY <1>4, <4>1
      <4> QED
          BY <1>1, <4>2 DEF Before, S
    <3> QED
        BY <3>1, <3>2
  <2> HIDE DEF piece, now, next, here, then
  <2>7. (\E s \in now : s + 1 \in here) <=> \E s \in next : s + 1 \in then
    <3>1. CASE piece = Many
      <4>1. here = {s \in 1..S + 1 : \E m \in then : s <= m}
          BY <2>3, <3>1 DEF Before, S
      <4>2. next = {s \in 0..S : \E m \in now : m <= s}
          BY <2>4, <3>1
      <4>3. ASSUME NEW s \in now, s + 1 \in here PROVE \E t \in next : t + 1 \in then
        <5>1. PICK m \in then : s + 1 <= m
            BY <4>1, <4>3
        <5>2. m \in 1..S + 1 /\ s \in 0..S
            BY <2>5, <2>6
        <5>3. m - 1 \in 0..S /\ s <= m - 1 /\ (m - 1) + 1 = m
            BY <1>1, <5>1, <5>2
        <5>4. m - 1 \in next
            BY <4>2, <5>3
        <5> QED
            BY <5>1, <5>3, <5>4
      <4>4. ASSUME NEW t \in next, t + 1 \in then PROVE \E s \in now : s + 1 \in here
        <5>1. t \in 0..S
            BY <4>2
        <5>2. PICK s \in now : s <= t
            BY <4>2
        <5>3. s \in 0..S
            BY <2>5
        <5>4. s + 1 \in 1..S + 1 /\ s + 1 <= t + 1
            BY <1>1, <5>1, <5>2, <5>3
        <5>5. s + 1 \in here
            BY <4>1, <4>4, <5>4
        <5> QED
            BY <5>5
      <4> QED
          BY <4>3, <4>4
    <3>2. CASE piece # Many
      <4>1. here = {s \in 1..S : Takes(piece, string[s]) /\ s + 1 \in then}
          BY <2>3, <3>2 DEF Before, S
      <4>2. next = {s \in 0..S : s > 0 /\ Takes(piece, string[s]) /\ s - 1 \in now}
          BY <2>4, <3>2
      <4>3. ASSUME NEW s \in now, s + 1 \in here PROVE \E t \in next : t + 1 \in then
        <5>1. s + 1 \in 1..S /\ Takes(piece, string[s + 1]) /\ (s + 1) + 1 \in then
            BY <4>1, <4>3
        <5>2. s \in 0..S
            BY <2>5
        <5>3. s + 1 \in 0..S /\ s + 1 > 0 /\ (s + 1) - 1 = s
            BY <1>1, <5>1, <5>2
        <5>4. s + 1 \in next
            BY <4>2, <5>1, <5>3
        <5> QED
            BY <5>1, <5>4
      <4>4. ASSUME NEW t \in next, t + 1 \in then PROVE \E s \in now : s + 1 \in here
        <5>1. t \in 0..S /\ t > 0 /\ Takes(piece, string[t]) /\ t - 1 \in now
            BY <4>2
        <5>2. t \in 1..S /\ (t - 1) + 1 = t
            BY <1>1, <5>1
        <5>3. (t - 1) + 1 \in here
            BY <4>1, <4>4, <5>1, <5>2
        <5> QED
            BY <5>1, <5>3
      <4> QED
          BY <4>3, <4>4
    <3> QED
        BY <3>1, <3>2
  <2> QED
      BY <2>2, <2>7, Zenon DEF now, next, here, then
<1> HIDE DEF J
<1>9. Nat \subseteq J
    BY ONLY <1>7, <1>8, Induction
<1>10. Meet(n) <=> 1 \in reach[1]
  <2>1. n \in J /\ n <= n
      BY <1>1, <1>9
  <2> QED
      BY <2>1 DEF J
<1>11. Meet(n) <=> S \in match[n]
  <2>1. match[n] \subseteq 0..S
    <3>1. CASE n = 0
        BY <1>1, <1>6, <3>1
    <3>2. CASE n # 0
      <4>1. match[n] = GlobStep(glob, string, match, n)
          BY <1>1, <1>5
      <4> QED
          BY <3>2, <4>1 DEF GlobStep, S
    <3> QED
        BY <3>1, <3>2
  <2> QED
      BY <1>1, <1>4, <2>1
<1> QED
    BY <1>2, <1>3, <1>5, <1>10, <1>11, Zenon

-----------------------------------------------------------------------------
(* Alternatives: the parts of a pattern between its bars.                    *)

Bar == "|"
IsBar(s, i) == i \in {0, Len(s) + 1} \/ s[i] = Bar
\* i and j are neighbours among the bars of s and its two ends.
Gap(s, i, j) ==
    /\ i \in 0..Len(s) /\ j \in i + 1..Len(s) + 1 /\ IsBar(s, i) /\ IsBar(s, j)
    /\ \A k \in i + 1..j - 1 : s[k] # Bar

\* Alternatives cuts a pattern at its bars.
LEMMA AlternativesAreGaps ==
    ASSUME NEW s, Len(s) \in Nat, NEW a
    PROVE  a \in Alternatives(s) <=> \E i, j \in Int : Gap(s, i, j) /\ a = SubSeq(s, i + 1, j - 1)
<1> DEFINE N == Len(s)
           T(i) == {j \in i + 1..N + 1 : IsBar(s, j)}
           next(i) == Min(T(i))
<1>1. Alternatives(s) = {SubSeq(s, i + 1, next(i) - 1) : i \in {j \in 0..N : IsBar(s, j)}}
    BY Zenon DEF Alternatives, IsBar, Bar
<1> HIDE DEF N
<1>2. N \in Nat
    BY DEF N
<1>3. ASSUME NEW i \in 0..N PROVE next(i) \in T(i) /\ \A j \in T(i) : next(i) <= j
  <2>1. T(i) \in SUBSET Nat
      BY <1>2
  <2>2. N + 1 \in T(i)
      BY <1>2 DEF IsBar, N
  <2> HIDE DEF T
  <2>3. PICK m \in T(i) : \A j \in T(i) : m <= j
      BY <2>1, <2>2, LeastExists
  <2> QED
      BY <2>3, Zenon DEF Min
<1>4. ASSUME NEW i \in 0..N, IsBar(s, i) PROVE Gap(s, i, next(i)) /\ next(i) \in Int
  <2> DEFINE j == next(i)
  <2>1. j \in T(i) /\ \A k \in T(i) : j <= k
      BY <1>3
  <2> HIDE DEF j
  <2>2. j \in i + 1..N + 1 /\ IsBar(s, j) /\ j \in Int
      BY <1>2, <2>1
  <2>3. ASSUME NEW k \in i + 1..j - 1 PROVE s[k] # Bar
    <3>1. k \in i + 1..N + 1 /\ ~(j <= k)
        BY <1>2, <2>2
    <3>2. k \notin T(i)
        BY <2>1, <3>1
    <3> QED
        BY <3>1, <3>2 DEF IsBar
  <2> QED
      BY <1>4, <2>2, <2>3 DEF Gap, N, j
<1>5. ASSUME NEW i \in Int, NEW j \in Int, Gap(s, i, j) PROVE j = next(i) /\ i \in 0..N /\ IsBar(s, i)
  <2>1. i \in 0..N /\ j \in i + 1..N + 1 /\ IsBar(s, i) /\ IsBar(s, j)
        /\ \A k \in i + 1..j - 1 : s[k] # Bar
      BY <1>5 DEF Gap, N
  <2> DEFINE m == next(i)
  <2>2. m \in T(i) /\ \A k \in T(i) : m <= k
      BY <1>3, <2>1
  <2> HIDE DEF m
  <2>3. j \in T(i)
      BY <2>1
  <2>4. m <= j /\ m \in i + 1..N + 1 /\ IsBar(s, m)
      BY <2>2, <2>3
  <2>5. ~(m < j)
    <3> SUFFICES ASSUME m < j PROVE FALSE
        OBVIOUS
    <3>1. m \in i + 1..j - 1 /\ m # 0 /\ m # N + 1
        BY <1>2, <2>1, <2>4
    <3>2. s[m] # Bar
        BY <2>1, <3>1
    <3> QED
        BY <2>4, <3>1, <3>2 DEF IsBar, N
  <2>6. m = j
      BY <2>1, <2>4, <2>5
  <2> QED
      BY <2>1, <2>6 DEF m
<1> HIDE DEF next
<1>6. ASSUME a \in Alternatives(s)
      PROVE  \E i, j \in Int : Gap(s, i, j) /\ a = SubSeq(s, i + 1, j - 1)
  <2>1. PICK i \in 0..N : IsBar(s, i) /\ a = SubSeq(s, i + 1, next(i) - 1)
      BY <1>1, <1>6
  <2>2. i \in Int /\ Gap(s, i, next(i)) /\ next(i) \in Int
      BY <1>4, <2>1
  <2> QED
      BY <2>1, <2>2
<1>7. ASSUME NEW i \in Int, NEW j \in Int, Gap(s, i, j), a = SubSeq(s, i + 1, j - 1)
      PROVE  a \in Alternatives(s)
  <2>1. j = next(i) /\ i \in 0..N /\ IsBar(s, i)
      BY <1>5, <1>7
  <2> QED
      BY <1>1, <1>7, <2>1
<1> QED
    BY <1>6, <1>7

\* An alternative is a part of the pattern.
LEMMA AlternativesAreParts ==
    ASSUME NEW C, NEW s \in Seq(C)
    PROVE  Alternatives(s) \subseteq Seq(C) /\ Alternatives(s) # {}
<1>1. Len(s) \in Nat
    OBVIOUS
<1>2. ASSUME NEW a \in Alternatives(s) PROVE a \in Seq(C)
  <2>1. PICK i, j \in Int : Gap(s, i, j) /\ a = SubSeq(s, i + 1, j - 1)
      BY <1>1, <1>2, AlternativesAreGaps
  <2>2. i + 1 \in Int /\ j - 1 \in Int /\ i + 1 >= 1 /\ j - 1 <= Len(s)
      BY <1>1, <2>1 DEF Gap
  <2>3. SubSeq(s, i + 1, j - 1) \in Seq(C)
      BY <2>2, SubSeqParts
  <2> QED
      BY <2>1, <2>3
<1>3. Alternatives(s) # {}
  <2>1. 0 \in {j \in 0..Len(s) : j \in {0, Len(s) + 1} \/ s[j] = "|"}
      BY <1>1
  <2> QED
      BY <2>1 DEF Alternatives
<1> QED
    BY <1>2, <1>3

\* Without a bar there is one alternative.
LEMMA OneAlternative ==
    ASSUME NEW C, NEW s \in Seq(C), \A i \in 1..Len(s) : s[i] # Bar
    PROVE  Alternatives(s) = {s}
<1>1. Len(s) \in Nat
    OBVIOUS
<1>2. Gap(s, 0, Len(s) + 1)
    BY <1>1 DEF Gap, IsBar
<1>3. ASSUME NEW i \in Int, NEW j \in Int, Gap(s, i, j) PROVE i = 0 /\ j = Len(s) + 1
  <2>1. i \in 0..Len(s) /\ j \in i + 1..Len(s) + 1 /\ IsBar(s, i) /\ IsBar(s, j)
      BY <1>3 DEF Gap
  <2>2. (i \in 1..Len(s) => s[i] # Bar) /\ (j \in 1..Len(s) => s[j] # Bar)
      OBVIOUS
  <2> QED
      BY <1>1, <2>1, <2>2 DEF IsBar
<1>4. SubSeq(s, 0 + 1, (Len(s) + 1) - 1) = s
  <2> DEFINE t == SubSeq(s, 0 + 1, (Len(s) + 1) - 1)
  <2>1. t \in Seq(C) /\ Len(t) = Len(s) /\ \A i \in 1..Len(s) : t[i] = s[i]
      BY <1>1
  <2> HIDE DEF t
  <2>2. t = s
      BY <2>1, SameElements
  <2> QED
      BY <2>2 DEF t
<1>5. \A a : a \in Alternatives(s) <=> a = s
  <2> SUFFICES ASSUME NEW a PROVE a \in Alternatives(s) <=> a = s
      OBVIOUS
  <2>1. a \in Alternatives(s) <=> \E i, j \in Int : Gap(s, i, j) /\ a = SubSeq(s, i + 1, j - 1)
      BY <1>1, AlternativesAreGaps
  <2>2. ASSUME NEW i \in Int, NEW j \in Int, Gap(s, i, j), a = SubSeq(s, i + 1, j - 1) PROVE a = s
    <3>1. i = 0 /\ j = Len(s) + 1
        BY <1>3, <2>2
    <3> QED
        BY <1>4, <2>2, <3>1, Zenon
  <2>3. 0 \in Int /\ Len(s) + 1 \in Int
      BY <1>1
  <2> QED
      BY <1>2, <1>4, <2>1, <2>2, <2>3, Zenon
<1> QED
    BY <1>5

LEMMA BarOfPiece ==
    ASSUME NEW piece, IsPiece(piece), NEW j \in 1..Len(piece), piece[j] = Bar
    PROVE  piece = Literal(Bar) /\ j = 1 /\ Len(piece) = 1
<1>1. \A x, y : /\ Len(<<x>>) = 1 /\ <<x>>[1] = x
                /\ Len(<<x, y>>) = 2 /\ <<x, y>>[1] = x /\ <<x, y>>[2] = y
    OBVIOUS
<1> DEFINE under == "_"
<1>2. Bar # "%" /\ Bar # under /\ Bar # "\\"
    BY DEF Bar
<1>3. CASE piece = Many
  <2>1. Len(piece) = 1 /\ piece[1] = "%"
      BY <1>1, <1>3, Zenon DEF Many
  <2>2. j = 1
      BY <2>1
  <2> QED
      BY <1>2, <2>1, <2>2
<1>4. CASE piece = One
  <2>1. Len(piece) = 1 /\ piece[1] = under
      BY <1>1, <1>4, Zenon DEF One
  <2> HIDE DEF under
  <2>2. j = 1
      BY <2>1
  <2> QED
      BY <1>2, <2>1, <2>2
<1>5. ASSUME NEW c, piece = Literal(c)
      PROVE  piece = Literal(Bar) /\ j = 1 /\ Len(piece) = 1
  <2>1. CASE c \in {"\\", "%", under}
    <3>1. Len(piece) = 2 /\ piece[1] = "\\" /\ piece[2] = c /\ c # Bar
        BY <1>1, <1>2, <1>5, <2>1, Zenon DEF Literal
    <3>2. j = 1 \/ j = 2
        BY <3>1
    <3> QED
        BY <1>2, <3>1, <3>2, Zenon
  <2>2. CASE c \notin {"\\", "%", under}
    <3>1. Len(piece) = 1 /\ piece[1] = c
        BY <1>1, <1>5, <2>2, Zenon DEF Literal
    <3>2. j = 1
        BY <3>1
    <3> QED
        BY <1>5, <3>1, <3>2, Zenon
  <2> QED
      BY <2>1, <2>2, Zenon
<1> QED
    BY <1>3, <1>4, <1>5, Zenon DEF IsPiece

\* The bars of a pattern are the pieces that are one.
LEMMA BarsOfPieces ==
    ASSUME NEW C, NEW pieces, ArePieces(C, pieces), NEW whole, NEW start,
           MakeUp(C, pieces, whole, start)
    PROVE  /\ \A q \in 1..Len(whole) : whole[q] = Bar =>
                \E k \in 1..Len(pieces) : pieces[k] = Literal(Bar) /\ q = start[k] + 1
           /\ \A k \in 1..Len(pieces) : pieces[k] = Literal(Bar) =>
                whole[start[k] + 1] = Bar /\ start[k + 1] = start[k] + 1
<1>1. pieces \in Seq(Seq(C)) /\ \A k \in 1..Len(pieces) : IsPiece(pieces[k])
    BY DEF ArePieces
<1>2. /\ \A i \in 1..Len(pieces) : start[i + 1] = start[i] + Len(pieces[i])
      /\ \A i \in 1..Len(pieces) : \A j \in 1..Len(pieces[i]) : whole[start[i] + j] = pieces[i][j]
    BY DEF MakeUp
<1>3. ASSUME NEW q \in 1..Len(whole), whole[q] = Bar
      PROVE  \E k \in 1..Len(pieces) : pieces[k] = Literal(Bar) /\ q = start[k] + 1
  <2>1. IsInPart(pieces, start, q)
      BY <1>1, Covered
  <2>2. PICK k \in 1..Len(pieces) : \E j \in 1..Len(pieces[k]) : q = start[k] + j
      BY <2>1 DEF IsInPart
  <2>3. PICK j \in 1..Len(pieces[k]) : q = start[k] + j
      BY <2>2
  <2> DEFINE piece == pieces[k]
  <2>4. piece[j] = Bar /\ IsPiece(piece) /\ j \in 1..Len(piece)
      BY <1>1, <1>2, <1>3, <2>3
  <2> HIDE DEF piece
  <2>5. piece = Literal(Bar) /\ j = 1
      BY <2>4, BarOfPiece
  <2> QED
      BY <2>3, <2>5 DEF piece
<1>4. ASSUME NEW k \in 1..Len(pieces), pieces[k] = Literal(Bar)
      PROVE  whole[start[k] + 1] = Bar /\ start[k + 1] = start[k] + 1
  <2>1. Literal(Bar) = <<Bar>>
      BY Zenon DEF Literal, Bar
  <2>2. Len(pieces[k]) = 1 /\ pieces[k][1] = Bar
      BY <1>4, <2>1, OneElement, Zenon
  <2>3. 1 \in 1..Len(pieces[k])
      BY <2>2
  <2> QED
      BY <1>2, <2>2, <2>3
<1> QED
    BY <1>3, <1>4

LEMMA GlobBars == \A c : GlobPiece(c) = Literal(Bar) <=> c = Bar
<1>1. Bar # "*" /\ Bar # "?"
    BY DEF Bar
<1> QED
    BY <1>1, PiecesDiffer, Zenon DEF GlobPiece

\* The pieces of a part of a glob are a part of its pieces.
LEMMA GlobOfPart ==
    ASSUME NEW C, Special \subseteq C, NEW v \in Seq(C), NEW a \in Int, NEW b \in Int,
           a >= 1, b <= Len(v)
    PROVE  GlobPieces(SubSeq(v, a, b)) = SubSeq(GlobPieces(v), a, b)
<1> DEFINE u == SubSeq(v, a, b)
           p == GlobPieces(v)
           q == GlobPieces(u)
           r == SubSeq(p, a, b)
           m == IF a <= b THEN (b - a) + 1 ELSE 0
<1>1. u \in Seq(C) /\ Len(u) = m /\ \A i \in 1..(b - a) + 1 : u[i] = v[(a + i) - 1]
    BY SubSeqParts
<1>2. p \in Seq(Seq(C)) /\ Len(p) = Len(v) /\ \A i \in 1..Len(v) : p[i] = GlobPiece(v[i])
    BY GlobParts
<1> HIDE DEF u, p
<1>3. q \in Seq(Seq(C)) /\ Len(q) = Len(u) /\ \A i \in 1..Len(u) : q[i] = GlobPiece(u[i])
    BY <1>1, GlobParts
<1>4. r \in Seq(Seq(C)) /\ Len(r) = m /\ \A i \in 1..(b - a) + 1 : r[i] = p[(a + i) - 1]
    BY <1>2, SubSeqParts
<1> HIDE DEF q, r
<1>5. ASSUME NEW i \in 1..Len(q) PROVE q[i] = r[i]
  <2>1. i \in 1..(b - a) + 1 /\ i \in 1..Len(u) /\ (a + i) - 1 \in 1..Len(v)
    <3>1. Len(q) = m /\ Len(v) \in Nat
        BY <1>1, <1>3
    <3> QED
        BY <1>1, <1>3, <3>1
  <2> QED
      BY <1>1, <1>2, <1>3, <1>4, <2>1
<1>6. q = r
    BY <1>1, <1>3, <1>4, <1>5, SameElements
<1> QED
    BY <1>6 DEF q, r, u, p

\* Translating a glob keeps its bars, so that its alternatives are translated
\* one by one.
LEMMA AlternativesTranslated ==
    ASSUME NEW C, Special \subseteq C, NEW v \in Seq(C)
    PROVE  Alternatives(GlobToLike(v)) = {GlobToLike(a) : a \in Alternatives(v)}
<1> DEFINE n == Len(v)
           pieces == GlobPieces(v)
           w == GlobToLike(v)
           W == Len(w)
<1>1. /\ pieces \in Seq(Seq(C)) /\ Len(pieces) = n
      /\ \A k \in 1..n : pieces[k] = GlobPiece(v[k]) /\ IsPiece(pieces[k])
      /\ w = FlattenSeq(pieces) /\ n \in Nat
    BY GlobParts
<1> HIDE DEF pieces, w
<1>2. PICK start : MakeUp(C, pieces, w, start)
    BY <1>1, FlattenParts
<1>3. ArePieces(C, pieces)
    BY <1>1 DEF ArePieces
<1>4. /\ \A q \in 1..W : w[q] = Bar => \E k \in 1..n : v[k] = Bar /\ q = start[k] + 1
      /\ \A k \in 1..n : v[k] = Bar => w[start[k] + 1] = Bar /\ start[k + 1] = start[k] + 1
  <2>1. /\ \A q \in 1..W : w[q] = Bar =>
             \E k \in 1..Len(pieces) : pieces[k] = Literal(Bar) /\ q = start[k] + 1
        /\ \A k \in 1..Len(pieces) : pieces[k] = Literal(Bar) =>
             w[start[k] + 1] = Bar /\ start[k + 1] = start[k] + 1
      BY <1>2, <1>3, BarsOfPieces
  <2>2. \A k \in 1..n : pieces[k] = Literal(Bar) <=> v[k] = Bar
      BY <1>1, GlobBars
  <2> QED
      BY <1>1, <2>1, <2>2
<1>5. /\ \A i \in 1..n + 1 : start[i] \in Nat
      /\ start[1] = 0 /\ W = start[n + 1] /\ w \in Seq(C) /\ W \in Nat
    BY <1>1, <1>2 DEF MakeUp
<1>6. \A i, j \in 1..n + 1 : i <= j => start[i] <= start[j]
    BY <1>1, <1>2, PlacesGrow
<1> HIDE DEF n, W
<1>7. ASSUME NEW i \in Int, NEW j \in Int, Gap(v, i, j)
      PROVE  /\ start[i + 1] \in Int /\ start[j] + 1 \in Int
             /\ Gap(w, start[i + 1], start[j] + 1)
  <2>1. /\ i \in 0..n /\ j \in i + 1..n + 1 /\ IsBar(v, i) /\ IsBar(v, j)
        /\ \A k \in i + 1..j - 1 : v[k] # Bar
      BY <1>7 DEF Gap, n
  <2> DEFINE p == start[i + 1]
             q == start[j] + 1
  <2>2. i + 1 \in 1..n + 1 /\ j \in 1..n + 1 /\ i + 1 <= j /\ n + 1 \in 1..n + 1 /\ j <= n + 1
      BY <1>1, <2>1
  <2>3. p \in Nat /\ start[j] \in Nat /\ p <= start[j] /\ start[j] <= W
      BY <1>5, <1>6, <2>2
  <2>4. IsBar(w, p)
    <3>1. CASE i = 0
        BY <1>5, <3>1 DEF IsBar
    <3>2. CASE i # 0
      <4>1. i \in 1..n /\ v[i] = Bar
          BY <1>1, <2>1, <3>2 DEF IsBar, n
      <4> QED
          BY <1>4, <4>1 DEF IsBar
    <3> QED
        BY <3>1, <3>2
  <2>5. IsBar(w, q)
    <3>1. CASE j = n + 1
        BY <1>5, <3>1 DEF IsBar, W
    <3>2. CASE j # n + 1
      <4>1. j \in 1..n /\ v[j] = Bar
        <5>1. j \in 1..n /\ j # 0
            BY <1>1, <2>1, <3>2
        <5> QED
            BY <2>1, <3>2, <5>1, Zenon DEF IsBar, n
      <4> QED
          BY <1>4, <4>1 DEF IsBar
    <3> QED
        BY <3>1, <3>2
  <2>6. ASSUME NEW x \in p + 1..q - 1, w[x] = Bar PROVE FALSE
    <3>1. x \in 1..W
        BY <1>5, <2>3
    <3>2. PICK k \in 1..n : v[k] = Bar /\ x = start[k] + 1
        BY <1>4, <2>6, <3>1
    <3>3. k <= i \/ k >= j
        BY <1>1, <2>1, <3>2
    <3>4. start[k + 1] = start[k] + 1 /\ k \in 1..n + 1 /\ k + 1 \in 1..n + 1
        BY <1>1, <1>4, <3>2
    <3>5. CASE k <= i
      <4>1. k + 1 <= i + 1
          BY <2>1, <3>5
      <4>2. start[k + 1] <= p
          BY <1>6, <2>2, <3>4, <4>1
      <4> HIDE DEF p, q
      <4> QED
          BY <2>3, <3>2, <3>4, <4>2 DEF q
    <3>6. CASE k >= j
      <4>1. start[j] <= start[k]
          BY <1>6, <2>2, <3>4, <3>6
      <4>2. start[k] \in Nat
          BY <1>5, <3>4
      <4> QED
          BY <2>3, <3>2, <4>1, <4>2
    <3> QED
        BY <3>3, <3>5, <3>6
  <2>7. p \in 0..W /\ q \in p + 1..W + 1
    <3>1. W \in Nat
        BY <1>5
    <3> HIDE DEF W
    <3>2. p \in 0..W
        BY <2>3, <3>1
    <3>3. start[j] + 1 \in p + 1..W + 1
        BY <2>3, <3>1
    <3> QED
        BY <3>2, <3>3, Zenon DEF q
  <2> HIDE DEF p, q
  <2>8. Gap(w, p, q)
      BY <2>4, <2>5, <2>6, <2>7 DEF Gap, W
  <2>9. p \in Int /\ q \in Int
      BY <2>3 DEF q
  <2> QED
      BY <2>8, <2>9 DEF p, q
<1>8. ASSUME NEW p \in Int, NEW q \in Int, Gap(w, p, q)
      PROVE  \E i, j \in Int : Gap(v, i, j) /\ p = start[i + 1] /\ q = start[j] + 1
  <2>1. /\ p \in 0..W /\ q \in p + 1..W + 1 /\ IsBar(w, p) /\ IsBar(w, q)
        /\ \A x \in p + 1..q - 1 : w[x] # Bar
      BY <1>8 DEF Gap, W
  <2>2. \E i \in 0..n : IsBar(v, i) /\ p = start[i + 1] /\ (i = 0 \/ p = start[i] + 1)
    <3>1. CASE p = 0
      <4>1. 0 \in 0..n /\ IsBar(v, 0) /\ p = start[0 + 1]
          BY <1>1, <1>5, <3>1 DEF IsBar
      <4> QED
          BY <4>1
    <3>2. CASE p # 0
      <4>1. p \in 1..W /\ p # W + 1
          BY <1>5, <2>1, <3>2
      <4>2. w[p] = Bar
          BY <2>1, <3>2, <4>1 DEF IsBar, W
      <4>3. PICK k \in 1..n : v[k] = Bar /\ p = start[k] + 1
          BY <1>4, <4>1, <4>2
      <4>4. IsBar(v, k) /\ p = start[k + 1] /\ k \in 0..n
          BY <1>1, <1>4, <4>3 DEF IsBar
      <4> QED
          BY <4>3, <4>4
    <3> QED
        BY <3>1, <3>2
  <2>3. PICK i \in 0..n : IsBar(v, i) /\ p = start[i + 1] /\ (i = 0 \/ p = start[i] + 1)
      BY <2>2
  <2>4. \E j \in 1..n + 1 : IsBar(v, j) /\ q = start[j] + 1
    <3>1. CASE q = W + 1
      <4>1. n + 1 \in 1..n + 1 /\ IsBar(v, n + 1) /\ q = start[n + 1] + 1
          BY <1>1, <1>5, <3>1 DEF IsBar, n
      <4> QED
          BY <4>1
    <3>2. CASE q # W + 1
      <4>1. q \in 1..W /\ q # 0
          BY <1>5, <2>1, <3>2
      <4>2. w[q] = Bar
          BY <2>1, <3>2, <4>1 DEF IsBar, W
      <4>3. PICK k \in 1..n : v[k] = Bar /\ q = start[k] + 1
          BY <1>4, <4>1, <4>2
      <4>4. IsBar(v, k) /\ k \in 1..n + 1
          BY <1>1, <4>3 DEF IsBar
      <4> QED
          BY <4>3, <4>4
    <3> QED
        BY <3>1, <3>2
  <2>5. PICK j \in 1..n + 1 : IsBar(v, j) /\ q = start[j] + 1
      BY <2>4
  <2>6. i < j
    <3> SUFFICES ASSUME ~(i < j) PROVE FALSE
        OBVIOUS
    <3>1. i # 0 /\ i \in 1..n + 1 /\ j <= i
        BY <1>1
    <3>2. p = start[i] + 1 /\ start[j] <= start[i] /\ start[i] \in Nat /\ start[j] \in Nat
        BY <1>5, <1>6, <2>3, <3>1
    <3>3. p < q
        BY <2>1
    <3> QED
        BY <2>5, <3>2, <3>3
  <2>7. ASSUME NEW k \in i + 1..j - 1, v[k] = Bar PROVE FALSE
    <3>1. /\ k \in 1..n /\ k \in 1..n + 1 /\ i + 1 \in 1..n + 1 /\ k + 1 \in 1..n + 1
          /\ i + 1 <= k /\ k + 1 <= j
        BY <1>1
    <3>2. w[start[k] + 1] = Bar /\ start[k + 1] = start[k] + 1
        BY <1>4, <2>7, <3>1
    <3>3. start[i + 1] <= start[k] /\ start[k + 1] <= start[j]
        BY <1>6, <3>1
    <3>4. start[k] \in Nat /\ start[j] \in Nat
        BY <1>5, <3>1
    <3> DEFINE x == start[k]
               y == start[j]
    <3>5. p <= x /\ x + 1 <= y /\ q = y + 1 /\ x \in Nat /\ y \in Nat
        BY <2>3, <2>5, <3>2, <3>3, <3>4, Zenon
    <3> HIDE DEF x, y
    <3>6. x + 1 \in p + 1..q - 1
        BY <2>1, <3>5
    <3> QED
        BY <2>1, <3>2, <3>6 DEF x
  <2>8. j \in i + 1..n + 1 /\ i \in Int /\ j \in Int
      BY <1>1, <2>6
  <2>9. Gap(v, i, j)
      BY <2>3, <2>5, <2>7, <2>8 DEF Gap, n
  <2> QED
      BY <2>3, <2>5, <2>8, <2>9
<1>9. ASSUME NEW i \in Int, NEW j \in Int, Gap(v, i, j)
      PROVE  SubSeq(w, start[i + 1] + 1, (start[j] + 1) - 1) = GlobToLike(SubSeq(v, i + 1, j - 1))
  <2>1. i \in 0..n /\ j \in i + 1..n + 1
      BY <1>9 DEF Gap, n
  <2> DEFINE a == i + 1
             b == j - 1
             u == SubSeq(v, a, b)
  <2>2. /\ a \in 1..n + 1 /\ b \in 0..n /\ a <= b + 1 /\ b + 1 = j
        /\ a \in Int /\ b \in Int /\ a >= 1 /\ b <= n /\ j \in 1..n + 1
      BY <1>1, <2>1
  <2> HIDE DEF a, b
  <2>3. FlattenSeq(SubSeq(pieces, a, b)) = SubSeq(w, start[a] + 1, start[b + 1])
    <3>1. a \in 1..Len(pieces) + 1 /\ b \in 0..Len(pieces) /\ a <= b + 1
        BY <1>1, <2>2
    <3>2. pieces \in Seq(Seq(C)) /\ MakeUp(C, pieces, w, start)
        BY <1>1, <1>2
    <3> QED
        BY ONLY <3>1, <3>2, SubParts
  <2>4. GlobPieces(u) = SubSeq(pieces, a, b)
      BY <2>2, GlobOfPart DEF pieces, n
  <2>5. u \in Seq(C)
    <3>1. b <= Len(v)
        BY <2>2 DEF n
    <3> QED
        BY <2>2, <3>1, SubSeqParts
  <2> HIDE DEF u
  <2>6. GlobToLike(u) = FlattenSeq(GlobPieces(u))
      BY <2>5, GlobParts
  <2>7. start[j] \in Nat /\ (start[j] + 1) - 1 = start[j]
      BY <1>5, <2>2
  <2> QED
      BY <2>2, <2>3, <2>4, <2>6, <2>7, Zenon DEF a, b, u
<1>10. Len(v) \in Nat /\ Len(w) \in Nat
    BY <1>1, <1>5 DEF n, W
<1>11. ASSUME NEW x \in Alternatives(w) PROVE \E a \in Alternatives(v) : x = GlobToLike(a)
  <2>1. PICK p, q \in Int : Gap(w, p, q) /\ x = SubSeq(w, p + 1, q - 1)
      BY <1>10, <1>11, AlternativesAreGaps
  <2>2. PICK i, j \in Int : Gap(v, i, j) /\ p = start[i + 1] /\ q = start[j] + 1
      BY <1>8, <2>1
  <2>3. x = GlobToLike(SubSeq(v, i + 1, j - 1))
      BY <1>9, <2>1, <2>2, Zenon
  <2>4. SubSeq(v, i + 1, j - 1) \in Alternatives(v)
      BY <1>10, <2>2, AlternativesAreGaps
  <2> QED
      BY <2>3, <2>4
<1>12. ASSUME NEW a \in Alternatives(v) PROVE GlobToLike(a) \in Alternatives(w)
  <2>1. PICK i, j \in Int : Gap(v, i, j) /\ a = SubSeq(v, i + 1, j - 1)
      BY <1>10, <1>12, AlternativesAreGaps
  <2>2. /\ start[i + 1] \in Int /\ start[j] + 1 \in Int
        /\ Gap(w, start[i + 1], start[j] + 1)
      BY <1>7, <2>1
  <2>3. GlobToLike(a) = SubSeq(w, start[i + 1] + 1, (start[j] + 1) - 1)
      BY <1>9, <2>1, Zenon
  <2> QED
      BY <1>10, <2>2, <2>3, AlternativesAreGaps
<1> QED
    BY <1>11, <1>12 DEF w

\* Two sequences without a bar make up one without.
LEMMA NoBarJoined ==
    ASSUME NEW C, NEW s \in Seq(C), NEW t \in Seq(C),
           \A q \in 1..Len(s) : s[q] # Bar, \A q \in 1..Len(t) : t[q] # Bar
    PROVE  s \o t \in Seq(C) /\ \A q \in 1..Len(s \o t) : (s \o t)[q] # Bar
<1>1. /\ s \o t \in Seq(C) /\ Len(s \o t) = Len(s) + Len(t) /\ Len(s) \in Nat /\ Len(t) \in Nat
      /\ \A j \in 1..Len(s) : (s \o t)[j] = s[j]
      /\ \A j \in 1..Len(t) : (s \o t)[Len(s) + j] = t[j]
    BY ConcatParts
<1>2. ASSUME NEW q \in 1..Len(s \o t) PROVE (s \o t)[q] # Bar
  <2>1. CASE q <= Len(s)
    <3>1. q \in 1..Len(s)
        BY <1>1, <2>1
    <3> QED
        BY <1>1, <3>1
  <2>2. CASE ~(q <= Len(s))
    <3>1. q - Len(s) \in 1..Len(t) /\ Len(s) + (q - Len(s)) = q
        BY <1>1, <2>2
    <3>2. (s \o t)[Len(s) + (q - Len(s))] = t[q - Len(s)]
        BY <1>1, <3>1
    <3> QED
        BY <3>1, <3>2
  <2> QED
      BY <2>1, <2>2
<1> QED
    BY <1>1, <1>2

\* What a session filter looks for has no bar if its value has none.
LEMMA NoBarAdded ==
    ASSUME NEW C, Special \subseteq C, NEW v \in Seq(C), \A i \in 1..Len(v) : v[i] # Bar
    PROVE  Alternatives(EscapeLike(v) \o <<"%">>) = {EscapeLike(v) \o <<"%">>}
<1> DEFINE percent == <<"%">>
           pieces == LiteralPieces(v)
           u == EscapeLike(v)
           w == u \o percent
<1>1. /\ pieces \in Seq(Seq(C)) /\ Len(pieces) = Len(v)
      /\ \A i \in 1..Len(v) : pieces[i] = Literal(v[i])
      /\ u = FlattenSeq(pieces)
    BY LiteralParts
<1>2. ArePieces(C, pieces)
    BY LiteralsArePieces
<1>3. percent \in Seq(C) /\ Len(percent) = 1 /\ percent[1] = "%" /\ "%" # Bar
  <2>1. percent \in Seq(C)
      BY SpecialMembers, ShortStrings, Zenon
  <2> QED
      BY <2>1 DEF Bar
<1> HIDE DEF pieces, percent, u
<1>4. PICK start : MakeUp(C, pieces, u, start)
    BY <1>1, FlattenParts
<1>5. u \in Seq(C)
    BY <1>4 DEF MakeUp
<1>6. \A q \in 1..Len(u) : u[q] # Bar
  <2>1. \A q \in 1..Len(u) : u[q] = Bar =>
            \E k \in 1..Len(pieces) : pieces[k] = Literal(Bar) /\ q = start[k] + 1
      BY <1>2, <1>4, BarsOfPieces
  <2>2. \A k \in 1..Len(pieces) : pieces[k] # Literal(Bar)
      BY <1>1, PiecesDiffer
  <2> QED
      BY <2>1, <2>2
<1>9. \A q \in 1..Len(percent) : percent[q] # Bar
    BY <1>3
<1>7. w \in Seq(C) /\ \A q \in 1..Len(w) : w[q] # Bar
    BY <1>3, <1>5, <1>6, <1>9, NoBarJoined
<1> HIDE DEF w
<1>8. Alternatives(w) = {w}
    BY <1>7, OneAlternative
<1> QED
    BY <1>8 DEF w, u, percent

-----------------------------------------------------------------------------
(* Each keyword's patterns, and the bare words', against what they mean.     *)

LEMMA StringIn ==
    ASSUME NEW s, IsString(s), NEW C, ToSet(s) \subseteq C
    PROVE  s \in Seq(C)
<1>1. s \in Seq(ToSet(s))
    BY DEF IsString
<1> HIDE DEF ToSet
<1> QED
    BY <1>1

\* comm: and file: match the strings that one of their globs matches.
LEMMA GlobsMean ==
    ASSUME NEW v, IsString(v), NEW x, IsString(x)
    PROVE  (\E p \in Alternatives(GlobToLike(v)) : Like(p, x))
               <=> \E g \in Alternatives(v) : GlobMatch(g, x)
<1> DEFINE C == ToSet(v) \cup ToSet(x) \cup Special
<1>1. ToSet(v) \subseteq C /\ ToSet(x) \subseteq C /\ Special \subseteq C
    BY Zenon
<1> HIDE DEF C
<1>2. v \in Seq(C) /\ x \in Seq(C)
    BY <1>1, StringIn
<1>3. Alternatives(GlobToLike(v)) = {GlobToLike(g) : g \in Alternatives(v)}
    BY <1>1, <1>2, AlternativesTranslated
<1>4. Alternatives(v) \subseteq Seq(C)
    BY <1>2, AlternativesAreParts
<1>5. \A g \in Alternatives(v) : Like(GlobToLike(g), x) <=> GlobMatch(g, x)
    BY <1>1, <1>2, <1>4, GlobIsLike, Zenon
<1> QED
    BY <1>3, <1>5, Zenon

LEMMA FromAgain ==
    ASSUME NEW C, NEW x \in Seq(C), NEW s \in 1..Len(x)
    PROVE  /\ From(x, s) \in Seq(C) /\ Len(From(x, s)) >= 1 /\ From(x, s)[1] = x[s]
           /\ From(From(x, s), 2) = From(x, s + 1)
<1> DEFINE u == From(x, s)
           v == From(u, 2)
           w == From(x, s + 1)
           S == Len(x)
<1>1. S \in Nat /\ s \in 1..S + 1 /\ s + 1 \in 1..S + 1 /\ s \in Int /\ s >= 1 /\ s <= S
    OBVIOUS
<1>2. u \in Seq(C) /\ Len(u) = (S + 1) - s /\ \A i \in 1..(S + 1) - s : u[i] = x[(s + i) - 1]
    BY <1>1, FromParts
<1>3. w \in Seq(C) /\ Len(w) = (S + 1) - (s + 1) /\ \A i \in 1..(S + 1) - (s + 1) : w[i] = x[((s + 1) + i) - 1]
    BY <1>1, FromParts
<1> HIDE DEF u, w
<1>4. Len(u) >= 1 /\ u[1] = x[s]
  <2>1. 1 \in 1..(S + 1) - s /\ (s + 1) - 1 = s
      BY <1>1
  <2> QED
      BY <1>1, <1>2, <2>1
<1>5. v \in Seq(C) /\ Len(v) = Len(u) - 1 /\ \A i \in 1..Len(u) - 1 : v[i] = u[i + 1]
    BY <1>2, <1>4, HeadRest
<1> HIDE DEF v
<1>6. ASSUME NEW i \in 1..Len(v) PROVE v[i] = w[i]
  <2>1. /\ i \in 1..Len(u) - 1 /\ i + 1 \in 1..(S + 1) - s /\ i \in 1..(S + 1) - (s + 1)
        /\ (s + (i + 1)) - 1 = ((s + 1) + i) - 1
      BY <1>1, <1>2, <1>5
  <2>2. v[i] = u[i + 1] /\ u[i + 1] = x[(s + (i + 1)) - 1]
      BY <1>2, <1>5, <2>1
  <2>3. w[i] = x[((s + 1) + i) - 1]
      BY <1>3, <2>1
  <2> QED
      BY <2>1, <2>2, <2>3
<1>7. v = w
  <2>1. Len(v) = Len(w)
      BY <1>1, <1>2, <1>3, <1>5
  <2> QED
      BY <1>3, <1>5, <1>6, <2>1, SameElements
<1> QED
    BY <1>2, <1>4, <1>7 DEF u, v, w

\* cmd: matches a path one of whose endings after a slash its glob matches.
LEMMA CommandsMean ==
    ASSUME NEW C, Special \subseteq C, "/" \in C, NEW a \in Seq(C), NEW x \in Seq(C)
    PROVE  Like(<<"%", "/">> \o GlobToLike(a), x)
               <=> \E i \in DOMAIN x : x[i] = "/" /\ GlobMatch(a, SubSeq(x, i + 1, Len(x)))
<1> DEFINE slash == "/"
           percent == "%"
           g == GlobToLike(a)
           pieces == GlobPieces(a)
           all == <<Literal(slash)>> \o pieces
           S == Len(x)
<1>1. percent \in C /\ slash \in C
    BY SpecialMembers
<1>2. Literal(slash) = <<slash>>
    BY Zenon DEF Literal
<1>3. ArePieces(C, pieces) /\ g = FlattenSeq(pieces)
    BY GlobParts DEF ArePieces
<1>4. g \in Seq(C)
  <2>1. \E start : MakeUp(C, pieces, FlattenSeq(pieces), start)
      BY <1>3, FlattenParts DEF ArePieces
  <2> QED
      BY <1>3, <2>1 DEF MakeUp
<1> HIDE DEF slash, percent, g, pieces
<1>5. <<slash>> \in Seq(C) /\ <<percent>> \in Seq(C)
    BY <1>1, ShortStrings
<1>6. ArePieces(C, <<Literal(slash)>>) /\ FlattenSeq(<<Literal(slash)>>) = Literal(slash)
  <2>1. IsPiece(Literal(slash)) /\ Literal(slash) \in Seq(C)
      BY <1>2, <1>5, Zenon DEF IsPiece
  <2> QED
      BY <2>1, OnePiece
<1>7. ArePieces(C, all)
    BY <1>3, <1>6, PiecesJoin
<1>8. FlattenSeq(all) = Literal(slash) \o FlattenSeq(pieces)
  <2>1. <<Literal(slash)>> \in Seq(Seq(C)) /\ pieces \in Seq(Seq(C))
      BY <1>3, <1>6 DEF ArePieces
  <2>2. FlattenSeq(<<Literal(slash)>> \o pieces) = FlattenSeq(<<Literal(slash)>>) \o FlattenSeq(pieces)
    <3> DEFINE one == <<Literal(slash)>>
    <3> HIDE DEF one
    <3>1. one \in Seq(Seq(C))
        BY <2>1 DEF one
    <3>2. FlattenSeq(one \o pieces) = FlattenSeq(one) \o FlattenSeq(pieces)
        BY <2>1, <3>1, FlattenConcat
    <3> QED
        BY <3>2 DEF one
  <2> QED
      BY <1>6, <2>2
<1> HIDE DEF all
<1>9. <<percent, slash>> \o g = <<percent>> \o FlattenSeq(all)
  <2>1. <<percent, slash>> = <<percent>> \o <<slash>>
      BY <1>1
  <2>2. (<<percent>> \o <<slash>>) \o g = <<percent>> \o (<<slash>> \o g)
      BY <1>4, <1>5, Associative DEF AreIn
  <2> QED
      BY <1>2, <1>3, <1>8, <2>1, <2>2, Zenon
<1>10. Like(<<percent>> \o FlattenSeq(all), x) <=> \E s \in 1..S + 1 : Like(FlattenSeq(all), From(x, s))
    BY <1>7, LikeAny DEF percent
<1>11. S \in Nat
    OBVIOUS
<1>12. ASSUME NEW s \in 1..S
       PROVE  Like(FlattenSeq(all), From(x, s)) <=> x[s] = slash /\ GlobMatch(a, From(x, s + 1))
  <2>1. /\ From(x, s) \in Seq(C) /\ Len(From(x, s)) >= 1 /\ From(x, s)[1] = x[s]
        /\ From(From(x, s), 2) = From(x, s + 1)
      BY FromAgain
  <2>2. From(x, s + 1) \in Seq(C)
    <3>1. s + 1 \in 1..S + 1
        BY <1>11
    <3> QED
        BY <3>1, FromParts
  <2>3. Like(Literal(slash) \o FlattenSeq(pieces), From(x, s))
            <=> /\ Len(From(x, s)) >= 1 /\ From(x, s)[1] = slash
                /\ Like(FlattenSeq(pieces), From(From(x, s), 2))
      BY <1>1, <1>3, <2>1, LikeLiteral
  <2>4. Like(g, From(x, s + 1)) <=> GlobMatch(a, From(x, s + 1))
      BY <2>2, GlobIsLike DEF g
  <2> QED
      BY <1>3, <1>8, <2>1, <2>3, <2>4, Zenon
<1>13. ~Like(FlattenSeq(all), From(x, S + 1))
  <2> DEFINE none == From(x, S + 1)
  <2>1. none \in Seq(C) /\ Len(none) = 0
    <3>1. S + 1 \in 1..S + 1
        BY <1>11
    <3>2. none \in Seq(C) /\ Len(none) = (S + 1) - (S + 1)
        BY <3>1, FromParts
    <3> QED
        BY <1>11, <3>2
  <2> HIDE DEF none
  <2>2. Like(Literal(slash) \o FlattenSeq(pieces), none)
            <=> /\ Len(none) >= 1 /\ none[1] = slash
                /\ Like(FlattenSeq(pieces), From(none, 2))
      BY <1>1, <1>3, <2>1, LikeLiteral
  <2>3. ~(Len(none) >= 1)
      BY <2>1
  <2> QED
      BY <1>8, <2>2, <2>3, Zenon DEF none
<1>14. (\E s \in 1..S + 1 : Like(FlattenSeq(all), From(x, s)))
          <=> \E s \in 1..S : x[s] = slash /\ GlobMatch(a, From(x, s + 1))
  <2>1. \A s : s \in 1..S + 1 <=> s \in 1..S \/ s = S + 1
      BY <1>11
  <2> HIDE DEF S
  <2> QED
      BY <1>12, <1>13, <2>1, Zenon
<1>15. DOMAIN x = 1..S
    OBVIOUS
<1> QED
    BY <1>9, <1>10, <1>14, <1>15, Zenon DEF From, g, percent, slash

\* A glob without wildcards matches itself only; one that cannot match a slash
\* matches no string with a slash.
LEMMA PlainGlob ==
    ASSUME NEW C, NEW a \in Seq(C), NEW x \in Seq(C),
           {"*", "?", "/"} \cap ToSet(a) = {}, GlobMatch(a, x)
    PROVE  \A j \in 1..Len(x) : x[j] # "/"
<1>1. PICK N \in Nat, S \in Nat :
        N = Len(a) /\ S = Len(x) /\ DOMAIN a = 1..N /\ DOMAIN x = 1..S
    OBVIOUS
<1>2. \A j \in 1..N : a[j] # "*" /\ a[j] # "?" /\ a[j] # "/"
  <2>1. \A j \in 1..N : a[j] \in ToSet(a)
      BY <1>1 DEF ToSet
  <2> QED
      BY <2>1, Zenon
<1>3. PICK match : /\ S \in match[N]
                   /\ \A g \in 0..N : match[g] = GlobStep(a, x, match, g)
    BY <1>1, GlobIsSolved, Zenon
<1> DEFINE Same(g) == \A s \in match[g] : s = g /\ \A j \in 1..g : x[j] = a[j]
           G == {g \in Nat : g <= N => Same(g)}
<1>4. 0 \in G
  <2>1. 0 \in 0..N
      OBVIOUS
  <2>2. match[0] = {0}
      BY <1>3, <2>1 DEF GlobStep
  <2> QED
      BY <2>2
<1>5. ASSUME NEW g \in Nat, g \in G PROVE g + 1 \in G
  <2> SUFFICES ASSUME g + 1 <= N, NEW s \in match[g + 1]
               PROVE  s = g + 1 /\ \A j \in 1..g + 1 : x[j] = a[j]
      OBVIOUS
  <2>1. g + 1 \in 1..N /\ g + 1 \in 0..N /\ g + 1 # 0 /\ (g + 1) - 1 = g
      OBVIOUS
  <2>2. match[g + 1] = {t \in 0..S : t > 0 /\ a[g + 1] \in {"?", x[t]} /\ t - 1 \in match[g]}
    <3>1. match[g + 1] = GlobStep(a, x, match, g + 1)
        BY <1>3, <2>1, Zenon
    <3>2. a[g + 1] # "*"
        BY <1>2, <2>1
    <3> QED
        BY <1>1, <2>1, <3>1, <3>2, Zenon DEF GlobStep
  <2>3. s \in 0..S /\ a[g + 1] = x[s] /\ s - 1 \in match[g]
      BY <1>2, <2>1, <2>2
  <2>4. s - 1 = g /\ \A j \in 1..g : x[j] = a[j]
      BY <1>5, <2>1, <2>3
  <2>5. s = g + 1
      BY <2>3, <2>4
  <2>6. ASSUME NEW j \in 1..g + 1 PROVE x[j] = a[j]
    <3>1. CASE j = g + 1
        BY <2>3, <2>5, <3>1
    <3>2. CASE j # g + 1
      <4>1. j \in 1..g
          BY <3>2
      <4> QED
          BY <2>4, <4>1
    <3> QED
        BY <3>1, <3>2
  <2> QED
      BY <2>5, <2>6
<1>6. N \in G
  <2> HIDE DEF G
  <2>1. Nat \subseteq G
      BY ONLY <1>4, <1>5, Induction
  <2> QED
      BY <2>1
<1>7. S = N /\ \A j \in 1..N : x[j] = a[j]
    BY <1>3, <1>6
<1> QED
    BY <1>1, <1>2, <1>7

\* The base name of a path with a directory follows its last slash.
LEMMA BaseNameParts ==
    ASSUME NEW C, NEW x \in Seq(C), "/" \in ToSet(x)
    PROVE  \E i \in DOMAIN x : /\ x[i] = "/" /\ BaseName(x) = SubSeq(x, i + 1, Len(x))
                              /\ \A j \in DOMAIN x : x[j] = "/" => j <= i
<1> DEFINE Slashes == {i \in DOMAIN x : x[i] = "/"}
           T == {n \in Nat : \E i \in Slashes : n = Len(x) - i}
<1>1. PICK S \in Nat : S = Len(x) /\ DOMAIN x = 1..S
    OBVIOUS
<1>2. T # {}
  <2>1. PICK i \in DOMAIN x : x[i] = "/"
      BY DEF ToSet
  <2>2. S - i \in T
      BY <1>1, <2>1
  <2> QED
      BY <2>2
<1>3. PICK n \in T : \A m \in T : n <= m
    BY <1>2, LeastExists
<1>4. PICK last \in Slashes : n = S - last
    BY <1>1, <1>3
<1>5. ASSUME NEW i \in Slashes PROVE i <= last
  <2>1. S - i \in T
      BY <1>1, <1>5
  <2> QED
      BY <1>1, <1>3, <1>4, <2>1
<1>6. Max({0} \cup Slashes) = last
  <2>1. {0} \cup Slashes \in SUBSET Int /\ last \in {0} \cup Slashes
      BY <1>1
  <2>2. \A i \in {0} \cup Slashes : i <= last
      BY <1>1, <1>5
  <2> HIDE DEF Slashes
  <2> QED
      BY <2>1, <2>2, LastIsMax
<1>7. BaseName(x) = SubSeq(x, last + 1, Len(x))
  <2>1. 1 + last = last + 1
      BY <1>1
  <2> QED
      BY <1>6, <2>1, Zenon DEF BaseName
<1> QED
    BY <1>5, <1>7

\* Only the last slash of a path is followed by none.
LEMMA LastPart ==
    ASSUME NEW C, NEW x \in Seq(C), NEW last \in DOMAIN x, x[last] = "/",
           \A j \in DOMAIN x : x[j] = "/" => j <= last,
           NEW i \in DOMAIN x, x[i] = "/",
           \A j \in 1..Len(SubSeq(x, i + 1, Len(x))) : SubSeq(x, i + 1, Len(x))[j] # "/"
    PROVE  i = last
<1>1. PICK S \in Nat : S = Len(x) /\ DOMAIN x = 1..S
    OBVIOUS
<1>2. i <= last
    OBVIOUS
<1>3. ASSUME i < last PROVE FALSE
  <2>1. i + 1 \in 1..Len(x) + 1 /\ last - i \in 1..(Len(x) + 1) - (i + 1)
      BY <1>1, <1>3
  <2>2. /\ Len(From(x, i + 1)) = (Len(x) + 1) - (i + 1)
        /\ From(x, i + 1)[last - i] = x[((i + 1) + (last - i)) - 1]
    <3>1. /\ Len(From(x, i + 1)) = (Len(x) + 1) - (i + 1)
          /\ \A j \in 1..(Len(x) + 1) - (i + 1) : From(x, i + 1)[j] = x[((i + 1) + j) - 1]
        BY <2>1, FromParts, Zenon
    <3> QED
        BY <2>1, <3>1, Zenon
  <2>3. ((i + 1) + (last - i)) - 1 = last
      BY <1>1
  <2> QED
      BY <2>1, <2>2, <2>3, Zenon DEF From
<1> QED
    BY <1>1, <1>2, <1>3

LEMMA BeginsIsPrefix ==
    ASSUME NEW C, NEW v \in Seq(C), NEW x \in Seq(C)
    PROVE  Begins(v, x) <=> IsPrefix(v, x)
<1> DEFINE n == Len(v)
           a == SubSeq(v, 1, n)
           b == SubSeq(x, 1, n)
<1>1. n \in Nat /\ Len(x) \in Nat
    OBVIOUS
<1>2. CASE n <= Len(x)
  <2>1. a \in Seq(C) /\ Len(a) = n /\ \A i \in 1..n : a[i] = v[i]
      BY <1>1
  <2>2. b \in Seq(C) /\ Len(b) = n /\ \A i \in 1..n : b[i] = x[i]
      BY <1>1, <1>2
  <2> HIDE DEF a, b
  <2>3. a = b <=> \A i \in 1..n : x[i] = v[i]
    <3>1. ASSUME a = b PROVE \A i \in 1..n : x[i] = v[i]
        BY <2>1, <2>2, <3>1
    <3>2. ASSUME \A i \in 1..n : x[i] = v[i] PROVE a = b
      <4>1. \A i \in 1..Len(a) : a[i] = b[i]
          BY <2>1, <2>2, <3>2
      <4> QED
          BY <2>1, <2>2, <4>1, SameElements
    <3> QED
        BY <3>1, <3>2
  <2> QED
      BY <1>2, <2>3, Zenon DEF Begins, IsPrefix, a, b
<1>3. CASE ~(n <= Len(x))
    BY <1>3 DEF Begins, IsPrefix
<1> QED
    BY <1>2, <1>3

\* session: matches the strings that begin with its value.
LEMMA SessionsMean ==
    ASSUME NEW v, IsString(v), NEW x, IsString(x), ~Contains(v, "|")
    PROVE  (\E p \in Alternatives(EscapeLike(v) \o <<"%">>) : Like(p, x)) <=> IsPrefix(v, x)
<1> DEFINE C == ToSet(v) \cup ToSet(x) \cup Special
<1>1. ToSet(v) \subseteq C /\ ToSet(x) \subseteq C /\ Special \subseteq C
    BY Zenon
<1> HIDE DEF C
<1>2. v \in Seq(C) /\ x \in Seq(C)
    BY <1>1, StringIn
<1>3. \A i \in 1..Len(v) : v[i] # Bar
    BY Zenon DEF Contains, Bar
<1>4. Alternatives(EscapeLike(v) \o <<"%">>) = {EscapeLike(v) \o <<"%">>}
    BY <1>1, <1>2, <1>3, NoBarAdded
<1>5. Like(EscapeLike(v) \o <<"%">>, x) <=> Begins(v, x)
    BY <1>1, <1>2, LikeBegins
<1> QED
    BY <1>2, <1>4, <1>5, BeginsIsPrefix, Zenon

\* Bare words match the strings they are a part of.
LEMMA TextMeans ==
    ASSUME NEW C, Special \subseteq C, NEW v \in Seq(C), NEW x \in Seq(C)
    PROVE  Like(<<"%">> \o EscapeLike(v) \o <<"%">>, x)
               <=> \E i \in 0..Len(x) : IsPrefix(v, SubSeq(x, i + 1, Len(x)))
<1> DEFINE percent == <<"%">>
           pieces == LiteralPieces(v) \o <<Many>>
           w == EscapeLike(v) \o percent
           S == Len(x)
<1>1. percent \in Seq(C) /\ percent = Many /\ IsPiece(Many)
    BY SpecialMembers, ShortStrings, Zenon DEF IsPiece, Many
<1>2. ArePieces(C, LiteralPieces(v)) /\ EscapeLike(v) = FlattenSeq(LiteralPieces(v))
    BY LiteralsArePieces
<1>3. ArePieces(C, <<Many>>) /\ FlattenSeq(<<Many>>) = Many
    BY <1>1, OnePiece
<1>4. ArePieces(C, pieces)
    BY <1>2, <1>3, PiecesJoin
<1>5. w = FlattenSeq(pieces)
  <2>1. FlattenSeq(LiteralPieces(v) \o <<Many>>) = FlattenSeq(LiteralPieces(v)) \o FlattenSeq(<<Many>>)
      BY <1>2, <1>3, FlattenConcat DEF ArePieces
  <2> QED
      BY <1>1, <1>2, <1>3, <2>1, Zenon
<1>6. EscapeLike(v) \in Seq(C)
  <2>1. \E start : MakeUp(C, LiteralPieces(v), FlattenSeq(LiteralPieces(v)), start)
      BY <1>2, FlattenParts DEF ArePieces
  <2> QED
      BY <1>2, <2>1 DEF MakeUp
<1>7. Like(<<"%">> \o FlattenSeq(pieces), x) <=> \E s \in 1..S + 1 : Like(FlattenSeq(pieces), From(x, s))
    BY <1>4, LikeAny
<1>8. (percent \o EscapeLike(v)) \o percent = percent \o w
    BY <1>1, <1>6, Associative DEF AreIn
<1>9. ASSUME NEW s \in 1..S + 1 PROVE Like(w, From(x, s)) <=> IsPrefix(v, From(x, s))
  <2>1. From(x, s) \in Seq(C)
      BY FromParts
  <2>2. Like(EscapeLike(v) \o <<"%">>, From(x, s)) <=> Begins(v, From(x, s))
      BY <2>1, LikeBegins
  <2> QED
      BY <2>1, <2>2, BeginsIsPrefix, Zenon
<1> HIDE DEF pieces, w, percent
<1>10. (\E s \in 1..S + 1 : IsPrefix(v, From(x, s))) <=> \E i \in 0..S : IsPrefix(v, From(x, i + 1))
  <2>1. S \in Nat
      OBVIOUS
  <2>2. ASSUME NEW s \in 1..S + 1 PROVE s - 1 \in 0..S /\ (s - 1) + 1 = s
      BY <2>1
  <2>3. \A i \in 0..S : i + 1 \in 1..S + 1
      BY <2>1
  <2> HIDE DEF S
  <2> QED
      BY <2>2, <2>3, Zenon
<1>11. Like(percent \o w, x) <=> \E s \in 1..S + 1 : Like(w, From(x, s))
    BY <1>5, <1>7, Zenon DEF percent
<1> QED
    BY <1>8, <1>9, <1>10, <1>11, Zenon DEF From, w, percent

-----------------------------------------------------------------------------
(* SQL's conditions made of them, the strings a query holds, and the theorem.*)

\* A disjunction is true exactly when one of its parts is.
LEMMA OrTrue ==
    ASSUME NEW as \in SUBSET Three
    PROVE  Or3(as) \in Three /\ (Or3(as) = {TRUE} <=> {TRUE} \in as)
<1> DEFINE nots == {Not3(a) : a \in as}
<1>1. nots \in SUBSET Three
    BY Not3Table, Zenon
<1>2. {FALSE} \in nots <=> {TRUE} \in as
  <2>1. ASSUME NEW a \in as, Not3(a) = {FALSE} PROVE a = {TRUE}
      BY <2>1, Not3Table, Zenon
  <2>2. {TRUE} \in as => {FALSE} \in nots
      BY Not3Table, Zenon
  <2> QED
      BY <2>1, <2>2, Zenon
<1> HIDE DEF nots
<1>3. Or3(as) = Not3(And3(nots))
    BY Zenon DEF Or3, nots
<1>4. And3(nots) \in Three
    BY <1>1, And3Table, Zenon
<1>5. And3(nots) = {FALSE} <=> {FALSE} \in nots
    BY ThreeDiffer, Zenon DEF And3
<1>6. Not3(And3(nots)) = {TRUE} <=> And3(nots) = {FALSE}
    BY <1>4, Not3Table, Zenon
<1> QED
    BY <1>2, <1>3, <1>4, <1>5, <1>6, Not3Table, Zenon

\* LIKE on a column that may be NULL: true when it has a value that matches.
LEMMA LikesOfColumn ==
    ASSUME NEW column, \A a, b \in column : a = b, NEW p
    PROVE  /\ {Like(p, s) : s \in column} \in Three
           /\ {Like(p, s) : s \in column} = {TRUE} <=> \E s \in column : Like(p, s)
<1>1. CASE column = {}
  <2>1. {Like(p, s) : s \in column} = {}
      BY <1>1, Zenon
  <2> QED
      BY <1>1, <2>1, ThreeDiffer, Zenon DEF Three
<1>2. ASSUME NEW x, column = {x}
      PROVE  /\ {Like(p, s) : s \in column} \in Three
             /\ {Like(p, s) : s \in column} = {TRUE} <=> \E s \in column : Like(p, s)
  <2>1. PICK e \in BOOLEAN : e = Like(p, x)
    <3>1. Like(p, x) \in BOOLEAN
        BY DEF Like
    <3> QED
        BY <3>1, Zenon
  <2>2. {Like(p, s) : s \in column} = {e}
      BY <1>2, <2>1, Zenon
  <2>3. (\E s \in column : Like(p, s)) <=> e
      BY <1>2, <2>1, Zenon
  <2> QED
      BY <2>2, <2>3, ThreeDiffer, Zenon DEF Three, Known
<1> QED
    BY <1>1, <1>2, OptionCases, Zenon

\* A condition of several patterns selects what one of them matches.
LEMMA LikeSelects ==
    ASSUME NEW column, \A a, b \in column : a = b, NEW patterns, NEW nullable
    PROVE  /\ AddLike(column, patterns, FALSE, nullable) \in Three
           /\ AddLike(column, patterns, FALSE, nullable) = {TRUE}
                  <=> \E s \in column : \E p \in patterns : Like(p, s)
<1> DEFINE likes == {{Like(p, s) : s \in column} : p \in patterns}
<1>1. AddLike(column, patterns, FALSE, nullable) = Or3(likes)
    BY Zenon DEF AddLike
<1>2. likes \in SUBSET Three
  <2>1. \A p : {Like(p, s) : s \in column} \in Three
      BY LikesOfColumn, Zenon
  <2> QED
      BY <2>1, Zenon
<1>3. {TRUE} \in likes <=> \E s \in column : \E p \in patterns : Like(p, s)
  <2>1. \A p : {TRUE} = {Like(p, s) : s \in column} <=> \E s \in column : Like(p, s)
      BY LikesOfColumn, Zenon
  <2> QED
      BY <2>1, Zenon
<1> HIDE DEF likes
<1> QED
    BY <1>1, <1>2, <1>3, OrTrue, Zenon

\* One keyword of a text, with its value.
LEMMA PatternMeans ==
    ASSUME NEW key \in {"comm", "file", "session"}, NEW value, IsString(value),
           key = "session" => ~Contains(value, "|"), NEW row \in ExecRows,
           NEW yes, yes = [value |-> value, negated |-> FALSE]
    PROVE  Selects(Only(key, yes), row) <=> Meant(key, value, row)
<1>1. yes.value = value /\ yes.negated = FALSE
    OBVIOUS
<1>2. key \in Keys
    BY DEF Keys, StringKeys
<1>3. /\ \A a, b \in row.comm : a = b
      /\ \A a, b \in row.filename : a = b
      /\ \A x : \A a, b \in {x} : a = b
    BY RowsAssumption, Zenon
<1>4. \A x : x \in row.comm \/ x \in row.filename \/ x = row.session => IsString(x)
    BY StringsAssumption, Zenon
<1>5. CASE key = "comm"
  <2> DEFINE globs == Alternatives(GlobToLike(value))
             c == AddLike(row.comm, globs, FALSE, TRUE)
  <2>1. c \in Three /\ (c = {TRUE} <=> \E s \in row.comm : \E p \in globs : Like(p, s))
      BY <1>3, LikeSelects, Zenon
  <2>2. Condition(key, yes, row) = {c}
      BY <1>1, <1>5, CommCondition, Zenon
  <2>3. Selects(Only(key, yes), row) <=> c = {TRUE}
    <3> HIDE DEF c
    <3> QED
        BY <1>2, <2>1, <2>2, OnlySelects, Zenon
  <2>4. \A s \in row.comm : (\E p \in globs : Like(p, s)) <=> \E g \in Alternatives(value) : GlobMatch(g, s)
      BY <1>4, GlobsMean, Zenon
  <2>5. Meant(key, value, row) <=> \E g \in Alternatives(value), s \in row.comm : GlobMatch(g, s)
    <3>1. key # "session"
        BY <1>5
    <3> QED
        BY <1>5, <3>1, Zenon DEF Meant
  <2> QED
      BY <2>1, <2>3, <2>4, <2>5, Zenon
<1>6. CASE key = "file"
  <2> DEFINE globs == Alternatives(GlobToLike(value))
             c == AddLike(row.filename, globs, FALSE, TRUE)
  <2>1. c \in Three /\ (c = {TRUE} <=> \E s \in row.filename : \E p \in globs : Like(p, s))
      BY <1>3, LikeSelects, Zenon
  <2>2. Condition(key, yes, row) = {c}
      BY <1>1, <1>6, FileCondition, Zenon
  <2>3. Selects(Only(key, yes), row) <=> c = {TRUE}
    <3> HIDE DEF c
    <3> QED
        BY <1>2, <2>1, <2>2, OnlySelects, Zenon
  <2>4. \A s \in row.filename : (\E p \in globs : Like(p, s)) <=> \E g \in Alternatives(value) : GlobMatch(g, s)
      BY <1>4, GlobsMean, Zenon
  <2>5. Meant(key, value, row) <=> \E g \in Alternatives(value), s \in row.filename : GlobMatch(g, s)
    <3>1. key # "session" /\ key # "comm"
        BY <1>6
    <3> QED
        BY <1>6, <3>1, Zenon DEF Meant
  <2> QED
      BY <2>1, <2>3, <2>4, <2>5, Zenon
<1>8. CASE key = "session"
  <2> DEFINE patterns == Alternatives(EscapeLike(value) \o <<"%">>)
  <2>0. PICK column : column = {row.session}
      OBVIOUS
  <2> DEFINE c == AddLike(column, patterns, FALSE, FALSE)
  <2>1. c \in Three /\ (c = {TRUE} <=> \E s \in column : \E p \in patterns : Like(p, s))
    <3>1. \A a, b \in column : a = b
        BY <2>0, Zenon
    <3> HIDE DEF patterns
    <3> QED
        BY <3>1, LikeSelects, Zenon
  <2>2. Condition(key, yes, row) = {c}
    <3>1. Condition(key, yes, row)
              = {AddLike({row.session}, Alternatives(EscapeLike(value) \o <<"%">>), FALSE, FALSE)}
        BY <1>1, <1>8, SessionCondition, Zenon
    <3> QED
        BY <2>0, <3>1, Zenon
  <2>3. Selects(Only(key, yes), row) <=> c = {TRUE}
    <3> HIDE DEF c
    <3> QED
        BY <1>2, <2>1, <2>2, OnlySelects, Zenon
  <2>4. (\E p \in patterns : Like(p, row.session)) <=> IsPrefix(value, row.session)
      BY <1>4, <1>8, SessionsMean, Zenon
  <2>5. Meant(key, value, row) <=> IsPrefix(value, row.session)
      BY <1>8, Zenon DEF Meant
  <2>6. (\E s \in column : \E p \in patterns : Like(p, s)) <=> \E p \in patterns : Like(p, row.session)
    <3> HIDE DEF patterns
    <3> QED
        BY <2>0, Zenon
  <2> QED
      BY <2>1, <2>3, <2>4, <2>5, <2>6, Zenon
<1> QED
    BY <1>5, <1>6, <1>8

\* cmd selects the rows one of whose globs matches what follows some slash.
LEMMA CommandSelects ==
    ASSUME NEW value, IsString(value), NEW row \in ExecRows,
           NEW yes, yes = [value |-> value, negated |-> FALSE]
    PROVE  Selects(Only("cmd", yes), row)
             <=> \E s \in row.filename, a \in Alternatives(value) :
                   \E i \in DOMAIN s : s[i] = "/" /\ GlobMatch(a, SubSeq(s, i + 1, Len(s)))
<1>1. yes.value = value /\ yes.negated = FALSE /\ "cmd" \in Keys
    BY DEF Keys, StringKeys
<1>2. \A a, b \in row.filename : a = b
    BY RowsAssumption, Zenon
<1>3. \A x : x \in row.filename => IsString(x)
    BY StringsAssumption, Zenon
<1>4. PICK globs : globs = {<<"%", "/">> \o GlobToLike(a) : a \in Alternatives(value)}
    OBVIOUS
<1> DEFINE c == AddLike(row.filename, globs, FALSE, TRUE)
<1>5. c \in Three /\ (c = {TRUE} <=> \E s \in row.filename : \E p \in globs : Like(p, s))
    BY <1>2, LikeSelects, Zenon
<1>6. Condition("cmd", yes, row) = {c}
  <2>1. Condition("cmd", yes, row)
            = {AddLike(row.filename, {<<"%", "/">> \o GlobToLike(a) : a \in Alternatives(value)}, FALSE, TRUE)}
      BY <1>1, CmdCondition, Zenon
  <2> QED
      BY <1>4, <2>1, Zenon
<1>7. Selects(Only("cmd", yes), row) <=> c = {TRUE}
  <2> HIDE DEF c
  <2> QED
      BY <1>1, <1>5, <1>6, OnlySelects, Zenon
<1>8. ASSUME NEW s \in row.filename, NEW a \in Alternatives(value)
      PROVE  Like(<<"%", "/">> \o GlobToLike(a), s)
               <=> \E i \in DOMAIN s : s[i] = "/" /\ GlobMatch(a, SubSeq(s, i + 1, Len(s)))
  <2> DEFINE C == ToSet(value) \cup ToSet(s) \cup Special \cup {"/"}
  <2>1. ToSet(value) \subseteq C /\ ToSet(s) \subseteq C /\ Special \subseteq C /\ "/" \in C
      BY Zenon
  <2> HIDE DEF C
  <2>2. value \in Seq(C) /\ s \in Seq(C)
      BY <1>3, <2>1, StringIn
  <2>3. a \in Seq(C)
      BY <2>2, AlternativesAreParts
  <2> QED
      BY <2>1, <2>2, <2>3, CommandsMean
<1>9. (\E s \in row.filename : \E p \in globs : Like(p, s))
        <=> \E s \in row.filename, a \in Alternatives(value) : Like(<<"%", "/">> \o GlobToLike(a), s)
  <2>1. \A p : p \in globs <=> \E a \in Alternatives(value) : p = <<"%", "/">> \o GlobToLike(a)
      BY <1>4, Zenon
  <2> QED
      BY <2>1, Zenon
<1> QED
    BY <1>5, <1>7, <1>8, <1>9, Zenon

\* For a file named with a directory: no fewer rows than the globs mean, and no
\* more if nothing in the value can match a slash.
LEMMA CommandMeans ==
    ASSUME NEW value, IsString(value), NEW row \in ExecRows, InDirectory(row),
           NEW yes, yes = [value |-> value, negated |-> FALSE]
    PROVE  /\ Meant("cmd", value, row) => Selects(Only("cmd", yes), row)
           /\ Selects(Only("cmd", yes), row) => Meant("cmd", value, row) \/ CrossesSlash(value)
<1>1. PICK path \in row.filename : "/" \in ToSet(path)
    BY DEF InDirectory
<1>2. \A s \in row.filename : s = path
    BY <1>1, RowsAssumption, Zenon
<1> DEFINE C == ToSet(value) \cup ToSet(path)
<1>3. path \in Seq(C)
  <2>1. IsString(path) /\ ToSet(path) \subseteq C
      BY <1>1, StringsAssumption, Zenon
  <2> HIDE DEF C
  <2> QED
      BY <2>1, StringIn
<1>4. \A a \in Alternatives(value) : a \in Seq(ToSet(value)) /\ a \in Seq(C)
  <2>1. ToSet(value) \subseteq C
      OBVIOUS
  <2>2. value \in Seq(ToSet(value)) /\ value \in Seq(C)
    <3> HIDE DEF C
    <3> QED
        BY <2>1, StringIn DEF IsString
  <2> HIDE DEF C
  <2> QED
      BY <2>2, AlternativesAreParts
<1> HIDE DEF C
<1>5. PICK last \in DOMAIN path :
        /\ path[last] = "/" /\ BaseName(path) = SubSeq(path, last + 1, Len(path))
        /\ \A j \in DOMAIN path : path[j] = "/" => j <= last
    BY <1>1, <1>3, BaseNameParts
<1>6. Meant("cmd", value, row) <=> \E a \in Alternatives(value) : GlobMatch(a, BaseName(path))
  <2>1. Meant("cmd", value, row)
          <=> \E g \in Alternatives(value), s \in {BaseName(p) : p \in row.filename} : GlobMatch(g, s)
      BY Zenon DEF Meant
  <2> QED
      BY <1>1, <1>2, <2>1, Zenon
<1>7. Selects(Only("cmd", yes), row)
        <=> \E a \in Alternatives(value), i \in DOMAIN path :
              path[i] = "/" /\ GlobMatch(a, SubSeq(path, i + 1, Len(path)))
    BY <1>1, <1>2, CommandSelects, Zenon
<1>8. ASSUME ~CrossesSlash(value), NEW a \in Alternatives(value), NEW i \in DOMAIN path,
             path[i] = "/", GlobMatch(a, SubSeq(path, i + 1, Len(path)))
      PROVE  GlobMatch(a, BaseName(path))
  <2>1. {"*", "?", "/"} \cap ToSet(a) = {}
    <3>1. a \in Seq(ToSet(value))
        BY <1>4
    <3>2. ToSet(a) \subseteq ToSet(value)
      <4> DEFINE V == ToSet(value)
      <4>1. a \in Seq(V)
          BY <3>1
      <4> HIDE DEF V
      <4>2. \A j \in DOMAIN a : a[j] \in V
          BY <4>1
      <4>3. ToSet(a) \subseteq V
          BY <4>2, Zenon DEF ToSet
      <4> QED
          BY <4>3 DEF V
    <3> QED
        BY <1>8, <3>2, Zenon DEF CrossesSlash
  <2>2. PICK part : part = SubSeq(path, i + 1, Len(path))
      OBVIOUS
  <2>3. part \in Seq(C)
    <3>1. i + 1 \in 1..Len(path) + 1
        BY <1>3
    <3>2. From(path, i + 1) \in Seq(C)
        BY <1>3, <3>1, FromParts
    <3> QED
        BY <2>2, <3>2, Zenon DEF From
  <2>4. \A j \in 1..Len(part) : part[j] # "/"
    <3>1. a \in Seq(C) /\ GlobMatch(a, part)
        BY <1>4, <1>8, <2>2, Zenon
    <3> QED
        BY <2>1, <2>3, <3>1, PlainGlob
  <2>5. i = last
    <3>1. \A j \in 1..Len(SubSeq(path, i + 1, Len(path))) : SubSeq(path, i + 1, Len(path))[j] # "/"
        BY <2>2, <2>4, Zenon
    <3> QED
        BY <1>3, <1>5, <1>8, <3>1, LastPart, Zenon
  <2> QED
      BY <1>5, <1>8, <2>5, Zenon
<1>9. ASSUME NEW a \in Alternatives(value), GlobMatch(a, BaseName(path))
      PROVE  \E i \in DOMAIN path : path[i] = "/" /\ GlobMatch(a, SubSeq(path, i + 1, Len(path)))
    BY <1>5, <1>9, Zenon
<1> QED
    BY <1>6, <1>7, <1>8, <1>9, Zenon

\* What the filter and the bare words hold are strings.
StringsInv ==
    /\ \A key \in StringKeys : \A fv \in filter[key] : IsString(fv.value)
    /\ text \in Seq(Tokens)

\* Reading a token keeps them strings.
LEMMA StringsStep ==
    ASSUME FilterInv, StringsInv, NEW token \in Tokens, Read(token)
    PROVE  StringsInv'
<1>1. \A key \in StringKeys : \A fv \in filter[key] : IsString(fv.value)
    BY DEF StringsInv
<1>2. text \in Seq(Tokens)
    BY DEF StringsInv
<1>3. filter = [key \in Keys |-> filter[key]] /\ StringKeys \subseteq Keys
    BY DEF FilterInv, Keys
<1>4. CASE BareWord(token)
  <2>1. filter' = filter /\ text' = Append(text, token)
      BY <1>4 DEF BareWord
  <2>2. text' \in Seq(Tokens)
      BY <1>2, <2>1
  <2> QED
      BY <1>1, <2>1, <2>2 DEF StringsInv
<1>5. CASE UnknownKeyword(token)
  <2>1. filter' = filter /\ text' = Append(text, token)
      BY <1>5 DEF UnknownKeyword
  <2>2. text' \in Seq(Tokens)
      BY <1>2, <2>1
  <2> QED
      BY <1>1, <2>1, <2>2 DEF StringsInv
<1>6. CASE Keyword(token)
  <2>1. text' = text /\ token.key \in Keys
      BY <1>6 DEF Keyword
  <2>2. ASSUME NEW key \in StringKeys, NEW fv \in filter'[key] PROVE IsString(fv.value)
    <3>1. CASE Parsed(token.key, token.rest) = {}
      <4>1. filter' = filter
          BY <1>6, <3>1 DEF Keyword
      <4> QED
          BY <1>1, <2>2, <4>1
    <3>2. CASE Parsed(token.key, token.rest) # {}
      <4>1. filter' = [filter EXCEPT ![token.key] = Value(token.key, token)]
          BY <1>6, <3>2 DEF Keyword, Value
      <4>2. CASE key # token.key
        <5>1. filter'[key] = filter[key]
            BY <1>3, <4>1, <4>2
        <5> QED
            BY <1>1, <2>2, <5>1
      <4>3. CASE key = token.key
        <5>1. filter'[key] = Value(key, token)
            BY <1>3, <4>1, <4>3
        <5>2. Parsed(key, token.rest) = {token.rest}
          <6>1. key \notin UnsignedKeys /\ key # "exit" /\ key \in StringKeys
              BY <2>2 DEF StringKeys, UnsignedKeys
          <6> QED
              BY <6>1, Zenon DEF Parsed
        <5>3. fv.value = token.rest
          <6>1. PICK v \in Parsed(key, token.rest) : fv = [value |-> v, negated |-> token.bangs = 1]
              BY <2>2, <5>1, Zenon DEF Value
          <6> QED
              BY <5>2, <6>1
        <5> QED
            BY <5>3, StringsAssumption, Zenon
      <4> QED
          BY <4>2, <4>3
    <3> QED
        BY <3>1, <3>2
  <2> QED
      BY <1>2, <2>1, <2>2 DEF StringsInv
<1> QED
    BY <1>4, <1>5, <1>6 DEF Read

LEMMA RepeatedIn ==
    ASSUME NEW C, NEW c \in C, NEW n \in Nat
    PROVE  [i \in 1..n |-> c] \in Seq(C)
OBVIOUS

\* The bare words, joined, are a string.
LEMMA JoinedIsString ==
    ASSUME text \in Seq(Tokens)
    PROVE  \E C : Joined \in Seq(C)
<1>a. PICK R : R = UNION {ToSet(t.rest) : t \in Tokens}
    OBVIOUS
<1>b. PICK K : K = {t.key : t \in Tokens}
    OBVIOUS
<1> DEFINE C == R \cup K \cup {"!", ":", " "}
<1>1. /\ \A t \in Tokens : ToSet(t.rest) \subseteq C /\ t.key \in C
      /\ "!" \in C /\ ":" \in C /\ " " \in C
  <2>1. \A t \in Tokens : ToSet(t.rest) \subseteq R
      BY <1>a, Zenon
  <2>2. \A t \in Tokens : t.key \in K
      BY <1>b, Zenon
  <2> QED
      BY <2>1, <2>2, Zenon
<1> HIDE DEF C
<1>2. ASSUME NEW t \in Tokens PROVE Typed(t) \in Seq(C)
  <2> DEFINE a == [i \in 1..t.bangs |-> "!"]
             b == IF t.key = NoKey THEN t.rest ELSE <<t.key, ":">> \o t.rest
  <2>1. t.rest \in Seq(C)
      BY <1>1, StringsAssumption, StringIn, Zenon
  <2>2. a \in Seq(C)
    <3>1. t.bangs \in Nat
        BY StringsAssumption
    <3> QED
        BY <1>1, <3>1, RepeatedIn, Zenon
  <2>3. b \in Seq(C)
    <3>1. <<t.key, ":">> \in Seq(C)
        BY <1>1, ShortStrings, Zenon
    <3>2. <<t.key, ":">> \o t.rest \in Seq(C)
        BY <2>1, <3>1, ConcatParts
    <3> QED
        BY <2>1, <3>2, Zenon
  <2>4. Typed(t) = a \o b
      BY Zenon DEF Typed
  <2> HIDE DEF a, b
  <2> QED
      BY <2>2, <2>3, <2>4, ConcatParts
<1>3. <<" ">> \in Seq(C)
    BY <1>1, ShortStrings, Zenon
<1> DEFINE Word(i) == IF i = 1 THEN Typed(text[i]) ELSE <<" ">> \o Typed(text[i])
           words == [i \in DOMAIN text |-> Word(i)]
<1>4. \A i \in DOMAIN text : Word(i) \in Seq(C)
  <2> SUFFICES ASSUME NEW i \in DOMAIN text PROVE Word(i) \in Seq(C)
      OBVIOUS
  <2>1. text[i] \in Tokens
      OBVIOUS
  <2> DEFINE typed == Typed(text[i])
             blank == <<" ">>
  <2>2. typed \in Seq(C) /\ blank \in Seq(C)
      BY <1>2, <1>3, <2>1
  <2> HIDE DEF typed, blank
  <2>3. blank \o typed \in Seq(C)
      BY <2>2, ConcatParts
  <2> QED
      BY <2>2, <2>3, Zenon DEF typed, blank
<1>5. words \in Seq(Seq(C))
  <2> HIDE DEF Word
  <2>1. Len(text) \in Nat /\ DOMAIN text = 1..Len(text)
      OBVIOUS
  <2> QED
      BY <1>4, <2>1
<1>6. Joined = FlattenSeq(words)
    BY Zenon DEF Joined
<1> HIDE DEF words
<1>7. \E start : MakeUp(C, words, FlattenSeq(words), start)
    BY <1>5, FlattenParts
<1> QED
    BY <1>6, <1>7 DEF MakeUp

\* The condition of the bare words, on one row.
LEMMA WordsMean ==
    ASSUME text \in Seq(Tokens), text # << >>, NEW row \in ExecRows
    PROVE  And3(TextCondition(row)) = {TRUE} <=>
             \E string \in row.comm \cup row.filename \cup row.argv :
                 \E i \in 0..Len(string) : IsPrefix(Joined, SubSeq(string, i + 1, Len(string)))
<1> DEFINE pattern == <<"%">> \o EscapeLike(Joined) \o <<"%">>
           columns == {row.comm, row.filename, row.argv}
           likes == {{Like(pattern, s) : s \in column} : column \in columns}
<1>1. TextCondition(row) = {Or3(likes)}
    BY Zenon DEF TextCondition
<1>2. \A column \in columns : \A a, b \in column : a = b
    BY RowsAssumption, Zenon
<1>3. ASSUME NEW column \in columns
      PROVE  /\ {Like(pattern, s) : s \in column} \in Three
             /\ {Like(pattern, s) : s \in column} = {TRUE} <=> \E s \in column : Like(pattern, s)
  <2> HIDE DEF pattern, columns
  <2> QED
      BY <1>2, LikesOfColumn, Zenon
<1>4. \A s \in row.comm \cup row.filename \cup row.argv : IsString(s)
    BY StringsAssumption, Zenon
<1>5. PICK B : Joined \in Seq(B)
    BY JoinedIsString
<1>6. ASSUME NEW s \in row.comm \cup row.filename \cup row.argv
      PROVE  Like(pattern, s) <=> \E i \in 0..Len(s) : IsPrefix(Joined, SubSeq(s, i + 1, Len(s)))
  <2> DEFINE C == B \cup ToSet(s) \cup Special
  <2>1. B \subseteq C /\ ToSet(s) \subseteq C /\ Special \subseteq C
      BY Zenon
  <2> HIDE DEF C
  <2>2. s \in Seq(C) /\ Joined \in Seq(C)
      BY <1>4, <1>5, <2>1, StringIn
  <2> QED
      BY <2>1, <2>2, TextMeans, Zenon
<1> HIDE DEF pattern
<1>7. likes \in SUBSET Three
    BY <1>3, Zenon
<1>8. {TRUE} \in likes <=> \E s \in row.comm \cup row.filename \cup row.argv : Like(pattern, s)
  <2>1. {TRUE} \in likes <=> \E column \in columns : \E s \in column : Like(pattern, s)
    <3> HIDE DEF columns
    <3> QED
        BY <1>3, Zenon
  <2> QED
      BY <2>1, Zenon
<1> HIDE DEF likes
<1>9. And3({Or3(likes)}) = Or3(likes) /\ (Or3(likes) = {TRUE} <=> {TRUE} \in likes)
    BY <1>7, OrTrue, And3Table, Zenon
<1> QED
    BY <1>1, <1>6, <1>8, <1>9, Zenon

\* What PatternsMean says of one keyword and one row.
PatternHolds(key, fv, row) ==
    LET selects == Selects(Only(key, [fv EXCEPT !.negated = FALSE]), row)
        meant == Meant(key, fv.value, row)
    IN  CASE key = "cmd" ->
               InDirectory(row) => /\ meant => selects
                                   /\ selects => meant \/ CrossesSlash(fv.value)
          [] key = "session" -> Contains(fv.value, "|") \/ (selects <=> meant)
          [] OTHER -> selects <=> meant

\* The property, from the invariant of the filter and of its strings.
LEMMA FilterMeans == ASSUME FilterInv, StringsInv PROVE PatternsMean
<1>00. ASSUME NEW key \in {"comm", "file", "cmd", "session"}, NEW fv \in filter[key]
       PROVE  \E yes, v : /\ yes = [value |-> v, negated |-> FALSE]
                          /\ yes = [fv EXCEPT !.negated = FALSE]
                          /\ fv.value = v /\ IsString(v)
  <2>1. key \in Keys /\ key \in StringKeys
      BY DEF Keys, StringKeys
  <2>2. PICK v, n : fv = [value |-> v, negated |-> n]
      BY <2>1, DecidedIsOne, Zenon
  <2>3. PICK yes : yes = [value |-> v, negated |-> FALSE]
      OBVIOUS
  <2>4. fv.value = v
      BY <2>2
  <2>5. yes = [fv EXCEPT !.negated = FALSE]
      BY <2>2, <2>3, ExceptNegated, Zenon
  <2>6. IsString(v)
      BY <2>1, <2>4 DEF StringsInv
  <2> QED
      BY <2>3, <2>4, <2>5, <2>6, Zenon
<1>0. ASSUME NEW key \in {"comm", "file", "session"}, NEW fv \in filter[key],
             ~(key = "session" /\ Contains(fv.value, "|")), NEW row \in ExecRows
      PROVE  Selects(Only(key, [fv EXCEPT !.negated = FALSE]), row) <=> Meant(key, fv.value, row)
  <2>1. PICK yes, v : /\ yes = [value |-> v, negated |-> FALSE]
                      /\ yes = [fv EXCEPT !.negated = FALSE]
                      /\ fv.value = v /\ IsString(v)
      BY <1>00, Zenon
  <2>2. Selects(Only(key, yes), row) <=> Meant(key, v, row)
      BY <1>0, <2>1, PatternMeans, Zenon
  <2> QED
      BY <2>1, <2>2, Zenon
<1>1. ASSUME NEW fv \in filter["cmd"], NEW row \in ExecRows, InDirectory(row)
      PROVE  LET selects == Selects(Only("cmd", [fv EXCEPT !.negated = FALSE]), row)
                 meant == Meant("cmd", fv.value, row)
             IN  (meant => selects) /\ (selects => meant \/ CrossesSlash(fv.value))
  <2>1. PICK yes, v : /\ yes = [value |-> v, negated |-> FALSE]
                      /\ yes = [fv EXCEPT !.negated = FALSE]
                      /\ fv.value = v /\ IsString(v)
      BY <1>00, Zenon
  <2>2. /\ Meant("cmd", v, row) => Selects(Only("cmd", yes), row)
        /\ Selects(Only("cmd", yes), row) => Meant("cmd", v, row) \/ CrossesSlash(v)
      BY <1>1, <2>1, CommandMeans, Zenon
  <2> QED
      BY <2>1, <2>2, Zenon
<1>2. ASSUME text # << >>, NEW row \in ExecRows
      PROVE  Selected(row) <=> Selects(filter, row) /\
                 \E string \in row.comm \cup row.filename \cup row.argv :
                     \E i \in 0..Len(string) : IsPrefix(Joined, SubSeq(string, i + 1, Len(string)))
  <2>1. text \in Seq(Tokens)
      BY DEF StringsInv
  <2> QED
      BY <1>2, <2>1, WordsMean, Zenon DEF Selected
<1>3. ASSUME NEW key \in {"comm", "file", "cmd", "session"}, NEW fv \in filter[key],
             NEW row \in ExecRows
      PROVE  PatternHolds(key, fv, row)
  <2>1. CASE key = "cmd"
      BY <1>1, <1>3, <2>1, Zenon DEF PatternHolds
  <2>2. CASE key = "session"
      BY <1>0, <1>3, <2>2, Zenon DEF PatternHolds
  <2>3. CASE key \in {"comm", "file"}
      BY <1>0, <1>3, <2>3, Zenon DEF PatternHolds
  <2> QED
      BY <2>1, <2>2, <2>3
<1> QED
    BY <1>2, <1>3, Zenon DEF PatternsMean, PatternHolds

\* Whatever was typed, comm and file select exactly the rows whose column the
\* user's globs match, session those whose name begins with the value, and bare
\* words those that hold them as they were typed; cmd selects every row with a
\* directory whose base name the globs match, and no other one unless the value
\* can match a slash.  Nothing in a value is special to LIKE that is not special
\* to the user, whatever the alphabet and the length of the strings (event.rs's
\* glob_to_like_pattern, escape_like_pattern, add_like and the text search of
\* build_where_clause).
THEOREM PatternsMeanWhatTheySay == Spec => []PatternsMean
<1>1. Init => StringsInv
  <2> SUFFICES ASSUME Init PROVE StringsInv
      OBVIOUS
  <2>1. text = << >> /\ \A key \in Keys : filter[key] = {}
      BY DEF Init
  <2>2. StringKeys \subseteq Keys
      BY DEF Keys
  <2> QED
      BY <2>1, <2>2 DEF StringsInv
<1>2. FilterInv /\ StringsInv /\ [Next]_vars => StringsInv'
  <2> SUFFICES ASSUME FilterInv, StringsInv, [Next]_vars PROVE StringsInv'
      OBVIOUS
  <2>1. CASE Next
      BY <2>1, StringsStep DEF Next
  <2>2. CASE UNCHANGED vars
      BY <2>2 DEF StringsInv, vars
  <2> QED
      BY <2>1, <2>2
<1>3. FilterInv /\ StringsInv => PatternsMean
    BY FilterMeans
<1> QED
    BY <1>1, <1>2, <1>3, FilterIsInductive, PTL DEF Spec

=============================================================================
