----------------------------- MODULE MCRecorder ------------------------------
(* Databases of every version, kernels of two layouts, of an older one that *)
(* lacks a field, and with damaged BTF, and calls that fit and do not fit.  *)
EXTENDS Recorder

AnyVersion ==
    {Absent} \cup [rows : {{}, {1}}, executionId : BOOLEAN, eventType : {"TEXT", "INTEGER"}]

Names == <<Anonymous, "int", "task_struct", "real_parent", "tgid", "cred", "euid", "signal",
           "signal_struct", "tty", "tty_struct", "index", "files", "files_struct", "fdt",
           "fdtable", "fd", "file", "f_inode", "inode", "i_rdev">>
Off(name) == NameIndex(Names, name) - 1

StructOf(name, fields, first, step) ==
    [kind |-> Struct, name |-> name,
     members |-> [i \in DOMAIN fields |-> [name |-> fields[i], at |-> first + step * i]]]
Other(kind, vlen, tail) ==
    [kind |-> kind, name |-> "int", vlen |-> vlen, tail |-> tail]

\* Types of every kind with words after the header, some of which look like
\* the beginning of a structure.
Others ==
    <<Other(1, 0, <<32>>), Other(2, 0, << >>), Other(3, 0, <<1, 1, 7>>),
      Other(5, 1, <<Off("euid"), 1, 0>>), Other(6, 2, <<Off("tty"), 0, Off("cred"), 1>>),
      Other(8, 0, << >>), Other(13, 1, <<Off("fd"), 1>>), Other(14, 0, <<1>>),
      Other(15, 1, <<1, 0, 4>>), Other(17, 0, <<Off("task_struct")>>),
      Other(19, 3, <<Off("tty"), 0, 0, Off("fd"), 1, 0,
                     Off("task_struct"), Struct * KindUnit + 1, 0>>)>>

Structs(first, step) ==
    <<StructOf("task_struct", <<"real_parent", Anonymous, "tgid", "cred", "signal", "files">>, first, step),
      StructOf("cred", <<"tgid", "euid">>, first, step),
      StructOf("signal_struct", <<Anonymous, "tty">>, first, step),
      StructOf("tty_struct", <<"index", "tty">>, first, step),
      StructOf("files_struct", <<"fdt">>, first, step),
      StructOf("fdtable", <<"cred", "fd">>, first, step),
      StructOf("file", <<"f_inode">>, first, step),
      StructOf("inode", <<"i_rdev", "fd">>, first, step)>>

Kernel(types) ==
    [names |-> Names, types |-> types, image |-> Image(Names, types), intact |-> TRUE]
Damaged(k, image) == [k EXCEPT !.image = image, !.intact = FALSE]

PlainKernel == Kernel(Structs(0, 8))
McKernels ==
    [plain |-> PlainKernel,
     varied |-> Kernel(Others \o Structs(16, 4)),
     old |-> Kernel(Others \o SubSeq(Structs(0, 8), 1, 3) \o SubSeq(Structs(0, 8), 5, 8)),
     cut |-> Damaged(PlainKernel, [PlainKernel.image EXCEPT !.typeLen = @ - 4]),
     torn |-> Damaged(PlainKernel, [PlainKernel.image EXCEPT !.strLen = @ + 1])]

McTasks ==
    [shell |-> [pid |-> 2, ppid |-> 1, euid |-> 0, tty |-> {},
                devices |-> [fd \in {0, 3} |-> {}]],
     editor |-> [pid |-> 3, ppid |-> 2, euid |-> 7, tty |-> {4},
                 devices |-> [fd \in {0, 3} |-> IF fd = 3 THEN {136 * 1048576 + 4} ELSE {}]]]

McExecCalls ==
    {[filename |-> <<1>>, argv |-> << <<1>>, <<2, 2>> >>],
     [filename |-> <<1, 2, 1>>, argv |-> << Unreadable, << >>, <<1>> >>],
     [filename |-> Unreadable, argv |-> << >>]}
McIoCalls ==
    {[op |-> "read", fd |-> 0, buffer |-> <<0, 1, 2>>, ret |-> 2],
     [op |-> "write", fd |-> 1, buffer |-> <<1, 2, 2>>, ret |-> 3],
     [op |-> "write", fd |-> 2, buffer |-> Unreadable, ret |-> 1],
     [op |-> "read", fd |-> 3, buffer |-> <<1>>, ret |-> 1]}
McExitCodes == {0, 256}
McArtifacts == {0, 1}

\* What the proofs suppose of damaged images.
ASSUME DamageIsHarmless
=============================================================================
