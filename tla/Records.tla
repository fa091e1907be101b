------------------------------- MODULE Records -------------------------------
(***************************************************************************)
(* What is in an event: how the probe (shspectr-ebpf/src/main.rs) reads it *)
(* from the task and from the process's memory, lays it out in a record of *)
(* fixed size (shspectr-common/src/event.rs), and how the recorder reads   *)
(* it back (shspectr/src/event.rs, called by handler.rs).                  *)
(*                                                                         *)
(* Probe has the maps and the interleavings of the programs; here a record *)
(* is taken as soon as it is published, and a read or write is one step.   *)
(* The enter and exit programs of execve stay two steps, for the record is *)
(* built in scratch space that all tasks of a CPU share; there is one CPU. *)
(*                                                                         *)
(* A byte is a number, 0 ending a string; user memory that cannot be read  *)
(* is Unreadable.  Kernel memory is a tree of objects, read by the offsets *)
(* that Btf found for the kernel that runs.                                *)
(***************************************************************************)
EXTENDS Btf, BpfMap, Integers

CONSTANTS
    Kernels,      \* name -> a kernel the machine may run: [names, types, image, intact]
    Tasks,        \* task -> what the kernel knows of it
    ExecCalls,    \* calls of execve: [filename, argv]
    IoCalls,      \* reads and writes that return: [op, fd, buffer, ret]
    ExitCodes,    \* arguments of exit_group
    Unreadable,   \* what a pointer into unmapped memory leads to
    MaxFilename,  \* MAX_FILENAME_LEN
    MaxArgs,      \* MAX_ARGV_COUNT
    MaxArg,       \* MAX_ARG_LEN
    MaxData,      \* MAX_DATA_LEN
    MaxCalls      \* bound on the system calls, for model checking

ASSUME LimitsAssumption == {MaxFilename, MaxArgs, MaxArg, MaxData} \subseteq Nat \ {0}

\* A task has one terminal or none.
ASSUME TasksAssumption ==
    \A t \in DOMAIN Tasks :
        /\ {Tasks[t].pid, Tasks[t].ppid, Tasks[t].euid} \cup Tasks[t].tty \subseteq Nat
        /\ \A x, y \in Tasks[t].tty : x = y

\* The kernel returns no more than the buffer holds.
Strings == Seq(1..255) \cup {Unreadable}
ASSUME CallsAssumption ==
    /\ Unreadable \notin Seq(0..255)
    /\ ExecCalls \subseteq [filename : Strings, argv : Seq(Strings)]
    /\ IoCalls \subseteq [op : {"read", "write"}, fd : Nat,
                          buffer : Seq(0..255) \cup {Unreadable}, ret : Nat]
    /\ \A call \in IoCalls : call.buffer = Unreadable \/ call.ret <= Len(call.buffer)

\* No two of the fields the probe reads share their place in a structure.
ASSUME KernelsAssumption ==
    \A k \in DOMAIN Kernels : \A m, n \in DOMAIN TaskFields :
        LET at(i) == TrueOffset(Kernels[k].types, TaskFields[i].of, TaskFields[i].field)
        IN  TaskFields[m].of = TaskFields[n].of /\ at(m) = at(n) /\ at(m) # {} => m = n

VARIABLES
    kernel,   \* the running kernel
    artifact, \* the wire version the loaded probe was built with
    offsets,  \* OFFSETS
    scratch,  \* EXEC_SCRATCH of the CPU
    pending,  \* PENDING_EXEC: task -> record
    doing,    \* the call each task is in (history)
    last,     \* the last call recorded, and the event made of it (history)
    calls     \* calls so far

probeVars == <<kernel, artifact, offsets, scratch, pending, doing, last, calls>>

-----------------------------------------------------------------------------
(* The kernel's memory. *)

U32(n) == [struct |-> "u32", value |-> n]
Null == [struct |-> "null"]
Junk == U32(99)

\* The task_struct of each task and what its pointers lead to.  A device
\* number is major * 2^20 + minor.
TaskStructs ==
    LET File(device) == [struct |-> "file", f_inode |->
                           [struct |-> "inode", i_rdev |-> U32(device)]]
        Tty(index) == [struct |-> "tty_struct", index |-> U32(index)]
        OrNull(Object(_), option) ==
            IF option = {} THEN Null ELSE Object(CHOOSE x \in option : TRUE)
    IN  [t \in DOMAIN Tasks |->
           [struct |-> "task_struct",
            tgid |-> U32(Tasks[t].pid),
            real_parent |-> [struct |-> "task_struct", tgid |-> U32(Tasks[t].ppid)],
            cred |-> [struct |-> "cred", euid |-> U32(Tasks[t].euid)],
            signal |-> [struct |-> "signal_struct", tty |-> OrNull(Tty, Tasks[t].tty)],
            files |-> [struct |-> "files_struct", fdt |->
                         [struct |-> "fdtable", fd |->
                            [struct |-> "array", at |->
                               [fd \in DOMAIN Tasks[t].devices |->
                                  OrNull(File, Tasks[t].devices[fd])]]]]]]

\* Where the fields are in each kernel.
Layout ==
    [k \in DOMAIN Kernels |->
       {[of |-> f.of, field |-> f.field, at |-> TrueOffset(Kernels[k].types, f.of, f.field)] :
          f \in {TaskFields[n] : n \in DOMAIN TaskFields}}]

\* read_ptr and read_u32: nothing where the address is no object's, and
\* something else where no field of interest is at the offset.
Peek(object, offset) ==
    LET there == {f \in Layout[kernel] : f.of = object.struct /\ f.at = {offset}} IN
    IF object.struct \in {"u32", "null"} THEN {}
    ELSE IF there = {} THEN {Junk}
    ELSE {object[f.field] : f \in there}

\* A pointer followed from each of the objects, at the offset of that index.
At(objects, index) == UNION {Peek(o, offsets[index + 1]) : o \in objects}

\* unwrap_or(0).
Value(read) ==
    IF read = {} THEN 0
    ELSE LET object == CHOOSE o \in read : TRUE
         IN  IF object.struct = "u32" THEN object.value ELSE Junk.value

ReadPpid(t) == Value(At(At({TaskStructs[t]}, 0), 1))
ReadEuid(t) == Value(At(At({TaskStructs[t]}, 2), 3))
ReadTtyNr(t) == Value(At(At(At({TaskStructs[t]}, 4), 5), 6))

\* is_pty_fd, with the major number taken from where the code takes it.
IsPtyFd(t, fd) ==
    LET array == At(At(At({TaskStructs[t]}, 7), 8), 9)
        file == UNION {{a.at[n] : n \in {fd} \cap DOMAIN a.at} :
                         a \in {o \in array : o.struct = "array"}}
        device == Value(At(At(file, 10), 11))
    IN  fd <= 255 /\ (device \div 256) % 4096 \in {136, 128}

-----------------------------------------------------------------------------
(* The probe's side of the wire. *)

WireVersion == 1
\* Sizes that tell the records apart, as those of the structures do.
HeaderSize == 1
SizeOf == [exec |-> 4, exit |-> 2, read |-> 3, write |-> 3]

\* fill_header, by a probe of the recorder's own version; what another one
\* lays out is read as something else.
FillHeader(t, type) ==
    IF artifact = WireVersion
    THEN [version |-> artifact, type |-> type, pid |-> Tasks[t].pid,
          ppid |-> ReadPpid(t), euid |-> ReadEuid(t), tty |-> ReadTtyNr(t)]
    ELSE [version |-> artifact, type |-> type, pid |-> ReadPpid(t),
          ppid |-> Tasks[t].pid, euid |-> 99, tty |-> 99]

Zeros(n) == [i \in 1..n |-> 0]
\* bpf_probe_read_user_str: at most one byte less than fits, and a 0; the
\* rest of the buffer stays as it is.  A failed read clears the buffer.
ReadUserStr(buffer, source) ==
    IF source = Unreadable THEN Zeros(Len(buffer))
    ELSE LET n == Min({Len(source), Len(buffer) - 1}) IN
         [i \in DOMAIN buffer |->
            IF i <= n THEN source[i] ELSE IF i = n + 1 THEN 0 ELSE buffer[i]]

\* The arguments up to the first pointer that is null or cannot be read, and
\* no more than fit.
Argc(call) == Min({Len(call.argv), MaxArgs})
FillExec(t, call) ==
    [header |-> FillHeader(t, "exec"),
     filename |-> ReadUserStr(Zeros(MaxFilename), call.filename),
     argv |-> [i \in 1..MaxArgs |->
                 IF i <= Argc(call) THEN ReadUserStr(Zeros(MaxArg), call.argv[i])
                 ELSE Zeros(MaxArg)],
     argc |-> Argc(call), retval |-> 0]

\* fill_io_data: nothing if the buffer cannot be read, and the record is
\* discarded.
FillIo(t, call) ==
    LET toRead == Min({call.ret, MaxData}) IN
    IF call.buffer = Unreadable THEN {}
    ELSE {[header |-> FillHeader(t, call.op), fd |-> call.fd, count |-> call.ret,
           dataLen |-> toRead,
           data |-> [i \in 1..MaxData |-> IF i <= toRead THEN call.buffer[i] ELSE 0]]}

\* The descriptors the enter programs let pass.
Watches(t, call) ==
    \/ call.op = "read" /\ call.fd = 0
    \/ call.op = "write" /\ call.fd \in {1, 2}
    \/ IsPtyFd(t, call.fd)

-----------------------------------------------------------------------------
(* The recorder's side. *)

\* EventHeader::try_from: a header of this version and of a known type.
HeaderOk(record, size) ==
    /\ size >= HeaderSize
    /\ record.header.version = WireVersion
    /\ record.header.type \in DOMAIN SizeOf

CStr(buffer) ==
    SubSeq(buffer, 1, Min({Len(buffer) + 1} \cup {i \in DOMAIN buffer : buffer[i] = 0}) - 1)

\* ParsedExecEvent::try_from.
ParseExec(record) ==
    [header |-> record.header, filename |-> CStr(record.filename),
     argv |-> [i \in 1..Min({record.argc, MaxArgs}) |-> CStr(record.argv[i])],
     retval |-> record.retval]

\* ParsedIoEvent::try_from.
ParseIo(record) ==
    [header |-> record.header, fd |-> record.fd, count |-> record.count,
     data |-> SubSeq(record.data, 1, Min({record.dataLen, MaxData}))]

\* ParsedExitEvent::try_from.
ParseExit(record) == [header |-> record.header, code |-> record.code]

\* handle_event: the event made of a record of that many bytes, or none.
Handled(record, size) ==
    IF ~HeaderOk(record, size) \/ size < SizeOf[record.header.type] THEN {}
    ELSE CASE record.header.type = "exec" -> {ParseExec(record)}
           [] record.header.type = "exit" -> {ParseExit(record)}
           [] OTHER -> {ParseIo(record)}

-----------------------------------------------------------------------------
NoScratch == [header |-> << >>]
NoKernel == "none"

\* Nothing is loaded.
ProbeGone ==
    /\ kernel' = NoKernel
    /\ artifact' = 0
    /\ offsets' = << >>
    /\ scratch' = NoScratch
    /\ pending' = EmptyMap
    /\ doing' = EmptyMap
    /\ last' = {}
    /\ UNCHANGED calls

ProbeInit ==
    /\ kernel = NoKernel
    /\ artifact = 0
    /\ offsets = << >>
    /\ scratch = NoScratch
    /\ pending = EmptyMap
    /\ doing = EmptyMap
    /\ last = {}
    /\ calls = 0

CallBegins == calls < MaxCalls /\ calls' = calls + 1

\* A record is published, taken and handled.
Publish(t, call, records) ==
    LET size(type) == IF artifact = WireVersion THEN SizeOf[type] ELSE HeaderSize IN
    last' = {[by |-> t, call |-> call,
              got |-> UNION {Handled(r, size(r.header.type)) : r \in records}]}

EnterExec(t, call) ==
    /\ t \notin DOMAIN doing
    /\ CallBegins
    /\ scratch' = FillExec(t, call)
    /\ pending' = Put(pending, t, FillExec(t, call))
    /\ doing' = Put(doing, t, call)
    /\ UNCHANGED <<kernel, artifact, offsets, last>>

\* MUTANT of ExitExec: the record is copied from the scratch space.
ExitExecScratch(t, retval) ==
    /\ t \in DOMAIN pending
    /\ Publish(t, doing[t], {[scratch EXCEPT !.retval = retval]})
    /\ pending' = Remove(pending, t)
    /\ doing' = Remove(doing, t)
    /\ UNCHANGED <<kernel, artifact, offsets, scratch, calls>>

ExitExec(t, retval) ==
    /\ t \in DOMAIN pending
    /\ Publish(t, doing[t], {[pending[t] EXCEPT !.retval = retval]})
    /\ pending' = Remove(pending, t)
    /\ doing' = Remove(doing, t)
    /\ UNCHANGED <<kernel, artifact, offsets, scratch, calls>>

\* A read or write of a process that has executed, on a watched descriptor.
ReadWrite(t, call) ==
    /\ t \notin DOMAIN doing
    /\ CallBegins
    /\ call.ret > 0 /\ Watches(t, call)
    /\ Publish(t, call, FillIo(t, call))
    /\ UNCHANGED <<kernel, artifact, offsets, scratch, pending, doing>>

ExitGroup(t, code) ==
    /\ t \notin DOMAIN doing
    /\ CallBegins
    /\ Publish(t, [code |-> code], {[header |-> FillHeader(t, "exit"), code |-> code]})
    /\ UNCHANGED <<kernel, artifact, offsets, scratch, pending, doing>>

Call ==
    \E t \in DOMAIN Tasks :
        \/ \E call \in ExecCalls : EnterExec(t, call)
        \/ \E retval \in {0, -2} : ExitExec(t, retval)
        \/ \E call \in IoCalls : ReadWrite(t, call)
        \/ \E code \in ExitCodes : ExitGroup(t, code)
-----------------------------------------------------------------------------
\* What an event says of the task that made the call.
NamesTask(t, header) ==
    /\ header.pid = Tasks[t].pid /\ header.ppid = Tasks[t].ppid
    /\ header.euid = Tasks[t].euid
    /\ {header.tty} = IF Tasks[t].tty = {} THEN {0} ELSE Tasks[t].tty

\* The first n bytes of what the call points to.
Cut(source, n) ==
    IF source = Unreadable THEN << >> ELSE SubSeq(source, 1, Min({Len(source), n}))

\* What it says of the call.
NamesCall(call, event) ==
    /\ "argv" \in DOMAIN event =>
         /\ event.filename = Cut(call.filename, MaxFilename - 1)
         /\ event.argv = [i \in 1..Min({Len(call.argv), MaxArgs}) |->
                            Cut(call.argv[i], MaxArg - 1)]
    /\ "data" \in DOMAIN event =>
         /\ event.data = Cut(SubSeq(call.buffer, 1, call.ret), MaxData)
         /\ event.fd = call.fd /\ event.count = call.ret
    /\ "code" \in DOMAIN event => event.code = call.code

\* The calls of which there is no event.
Silent(call) ==
    \/ artifact # WireVersion
    \/ "buffer" \in DOMAIN call /\ call.buffer = Unreadable

Tells(t, call, got) ==
    /\ got = {} <=> Silent(call)
    /\ \A event \in got : NamesTask(t, event.header) /\ NamesCall(call, event)

\* An event says what was true of the call it comes from: who made it, and
\* as much of its strings and data as fits a record, from the beginning and
\* nothing else, also if another task's call on the same CPU came between
\* its entry and its return.  Records of another wire version make no
\* events; of this version only those whose data cannot be read make none.
EventsTellTheCalls == \A l \in last : Tells(l.by, l.call, l.got)
=============================================================================
