----------------------------- MODULE MCEventView -----------------------------
(* Tokens for each kind of keyword, valid and invalid, plain and negated,  *)
(* over rows whose columns are NULL or contain the characters that LIKE    *)
(* and globs give a meaning, or name no path or a descriptor.              *)
EXTENDS EventView

T(bangs, key, rest) == [bangs |-> bangs, key |-> key, rest |-> rest]

McTokens ==
    {T(0, NoKey, <<"a">>), T(0, NoKey, <<"%">>), T(1, NoKey, << >>), T(2, "pid", <<"1">>),
     T(0, "pdi", <<"1">>), T(0, "ppid", <<"1">>),
     T(1, "pid", <<"+", "1">>), T(0, "tty", <<"1">>),
     T(0, "exit", <<"-", "1">>), T(1, "exit", <<"0">>), T(0, "exit", <<"a">>),
     T(1, "comm", <<"_", "|", "\\", "?">>),
     T(0, "file", <<"/", "?">>), T(1, "file", <<"%">>),
     T(0, "cmd", <<"a", "|", "%">>), T(1, "cmd", <<"*">>), T(0, "cmd", <<"a", "*">>),
     T(0, "session", <<"a", "_">>), T(1, "session", <<"a", "|", "b">>),
     T(0, "user", <<"a">>), T(1, "user", <<"b">>)}

Row(comm, filename, args, exit, tty, pid, session, uid) ==
    [comm |-> comm, filename |-> filename, args |-> args, argv |-> {Json(a) : a \in args},
     exit |-> exit, tty |-> tty,
     pid |-> pid, ppid |-> 1, gid |-> uid, euid |-> uid, uid |-> uid, session |-> session]

McRows ==
    {Row({}, {}, {}, {}, {}, 1, <<"a", "_">>, 1),
     Row({<<"a">>}, {<<"/", "a">>}, {<< <<"a">>, <<"%">> >>}, {0}, {1}, 2, <<"a", "b">>, 2),
     Row({<<"_">>}, {<<"/", "b", "/", "%">>}, {<< <<"b">> >>}, {-1}, {0}, 1, <<"b">>, 1),
     Row({<<"\\", "a">>}, {<<"%">>}, {}, {}, {1}, 12, <<"a">>, 2),
     Row({<<"a", "%">>}, {<<"/", "\\">>}, {<< <<"!", " ", "a">> >>}, {1}, {}, 3,
         <<"a", "_", "b">>, 2),
     Row({<<"b">>}, {<<"/", "proc", "/", "a", "/", "fd", "/", "9">>},
         {<< <<"/", "b">>, <<"\"">> >>}, {0}, {1}, 1, << >>, 1),
     Row({<<"a">>}, {<<"/", "a", " ", "*">>}, {<< << >> >>}, {0}, {0}, 1, <<"a">>, 2)}

McPasswd == [n \in {<<"a">>} |-> 1]
=============================================================================
