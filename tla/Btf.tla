--------------------------------- MODULE Btf ---------------------------------
(***************************************************************************)
(* Where the fields of the kernel's structures are: the BTF reader of      *)
(* shspectr/src/btf.rs, as operators.                                      *)
(*                                                                         *)
(* A BTF image is a sequence of 4-byte words, and lengths and offsets are  *)
(* in words where the code has bytes.  The type section holds numbers; a   *)
(* word of the string section is a whole name, so that the offset of a     *)
(* name is its index.  A type's info word is its kind above its vlen.      *)
(*                                                                         *)
(* Image is the kernel's side of it: what include/uapi/linux/btf.h says    *)
(* of a list of types.                                                     *)
(***************************************************************************)
EXTENDS Naturals, Sequences, FiniteSetsExt, Functions

Lists == INSTANCE SequencesExt

Struct == 4
Magic == 60319   \* 0xEB9F

KindUnit == 16777216   \* 2^24
KindOf(info) == (info \div KindUnit) % 32
VlenOf(info) == info % 65536

-----------------------------------------------------------------------------
(* The kernel's side.  A type has a kind, a name, members (of a structure) *)
(* and the words that follow its header (of any other kind).               *)

NameIndex(names, name) == CHOOSE i \in DOMAIN names : names[i] = name

TypeWords(names, type) ==
    LET tail == IF type.kind = Struct
                THEN Lists!FlattenSeq([i \in DOMAIN type.members |->
                        <<NameIndex(names, type.members[i].name) - 1, 0,
                          8 * type.members[i].at>>])
                ELSE type.tail
        vlen == IF type.kind = Struct THEN Len(type.members) ELSE type.vlen
    IN  <<NameIndex(names, type.name) - 1, type.kind * KindUnit + vlen, 0>> \o tail

\* The image of a list of types whose names are in names, the empty one
\* first.
Image(names, types) ==
    LET words == Lists!FlattenSeq([i \in DOMAIN types |-> TypeWords(names, types[i])]) IN
    [magic |-> Magic, hdrLen |-> 6, typeOff |-> 0, typeLen |-> Len(words),
     strOff |-> Len(words), strLen |-> Len(names),
     words |-> [i \in 1..6 |-> 0] \o words \o names]

\* The words after the header of a type that is no structure: those of kinds
\* 1 to 19 themselves, and those of each of their vlen elements.
TailOfKind == <<1, 0, 3, 0, 0, 0, 0, 0, 0, 0, 0, 0, 0, 1, 0, 0, 1, 0, 0>>
TailOfElement == <<0, 0, 0, 3, 3, 2, 0, 0, 0, 0, 0, 0, 2, 0, 3, 0, 0, 0, 3>>

\* The empty name, that of a member which has none.
Anonymous == "anonymous"
\* vlen has 16 bits.
MaxVlen == 65535

\* The words that follow the header are as many as the kind asks for.
HasTail(type) ==
    /\ type.kind \in DOMAIN TailOfKind /\ type.vlen \in 0..MaxVlen
    /\ type.tail \in Seq(Nat)
    /\ Len(type.tail) = TailOfKind[type.kind] + TailOfElement[type.kind] * type.vlen

\* No two members of a structure have the same name, but several may have none.
HasMembers(names, members) ==
    /\ members \in Seq(Range(members)) /\ Len(members) <= MaxVlen
    /\ \A m \in DOMAIN members : members[m].name \in Range(names) /\ members[m].at \in Nat
    /\ \A m, n \in DOMAIN members :
         members[m].name = members[n].name /\ members[m].name # Anonymous => m = n

\* What the kernel promises of its types.
WellFormed(names, types) ==
    /\ names \in Seq(Range(names)) /\ types \in Seq(Range(types))
    /\ \A type \in Range(types) :
         /\ type.name \in Range(names)
         /\ type.kind = Struct => HasMembers(names, type.members)
         /\ type.kind # Struct => HasTail(type)

\* What a list of types says of a field, the empty set if nothing.
TrueOffset(types, struct, field) ==
    LET named == {i \in DOMAIN types : types[i].kind = Struct /\ types[i].name = struct}
        members == types[Min(named)].members
    IN  IF named = {} THEN {}
        ELSE {members[i].at : i \in {j \in DOMAIN members : members[j].name = field}}

-----------------------------------------------------------------------------
(* The reader. *)

\* from_bytes.
Loads(btf) ==
    LET size == Len(btf.words)
        typeEnd == btf.hdrLen + btf.typeOff + btf.typeLen
        strStart == btf.hdrLen + btf.strOff
    IN  /\ size >= 6
        /\ btf.magic = Magic
        /\ btf.hdrLen \in 6..size
        /\ typeEnd <= size /\ strStart + btf.strLen <= size /\ strStart >= typeEnd

Word(btf, at) == IF at < Len(btf.words) THEN btf.words[at + 1] ELSE 0

\* string: a set of at most one name, empty where the code bails.
Name(btf, offset) ==
    LET start == btf.hdrLen + btf.strOff + offset IN
    IF offset < btf.strLen THEN {Word(btf, start)} ELSE {}

\* MUTANT of ExtraWords: the values of a 64-bit enumeration are taken for
\* those of a plain one.
ExtraWordsEnum(kind, vlen) ==
    CASE kind \in {1, 14, 17} -> 1
      [] kind = 3 -> 3
      [] kind \in {4, 5, 15} -> 3 * vlen
      [] kind \in {6, 13, 19} -> 2 * vlen
      [] OTHER -> 0
\* extra_bytes: the words after the header of a type.
ExtraWords(kind, vlen) ==
    CASE kind \in {1, 14, 17} -> 1
      [] kind = 3 -> 3
      [] kind \in {4, 5, 15, 19} -> 3 * vlen
      [] kind \in {6, 13} -> 2 * vlen
      [] OTHER -> 0

\* The members of the structure at pos are looked at in turn; one that
\* reaches past the section, or has no name, ends the search.
MemberOffset(btf, pos, end, field) ==
    LET at(i) == pos + 3 + 3 * i
        members == 0..(VlenOf(Word(btf, pos + 1)) - 1)
        ends == {i \in members : at(i) + 3 > end \/ Name(btf, Word(btf, at(i))) = {}}
        found == {i \in members : Name(btf, Word(btf, at(i))) = {field}} \ ends
    IN  IF found = {} \/ \E i \in ends : i < Min(found) THEN {}
        ELSE {Word(btf, at(Min(found)) + 2) \div 8}

\* struct_field_offset: the type section is walked from its beginning to the
\* first structure of that name.
FieldOffset(btf, struct, field) ==
    LET base == btf.hdrLen + btf.typeOff
        end == base + btf.typeLen
        walk[pos \in Nat] ==
            LET info == Word(btf, pos + 1)
                name == Name(btf, Word(btf, pos))
            IN  IF pos + 3 > end THEN {}
                ELSE IF KindOf(info) = Struct /\ name = {} THEN {}
                ELSE IF KindOf(info) = Struct /\ name = {struct}
                THEN MemberOffset(btf, pos, end, field)
                ELSE walk[pos + 3 + ExtraWords(KindOf(info), VlenOf(info))]
    IN  walk[base]

-----------------------------------------------------------------------------
\* The fields of TaskFieldOffsets, in the order of as_array: the n-th goes to
\* index n - 1 of the OFFSETS map, which offset_idx names for the probe.
TaskFields ==
    <<[of |-> "task_struct", field |-> "real_parent"],
      [of |-> "task_struct", field |-> "tgid"],
      [of |-> "task_struct", field |-> "cred"],
      [of |-> "cred", field |-> "euid"],
      [of |-> "task_struct", field |-> "signal"],
      [of |-> "signal_struct", field |-> "tty"],
      [of |-> "tty_struct", field |-> "index"],
      [of |-> "task_struct", field |-> "files"],
      [of |-> "files_struct", field |-> "fdt"],
      [of |-> "fdtable", field |-> "fd"],
      [of |-> "file", field |-> "f_inode"],
      [of |-> "inode", field |-> "i_rdev"]>>

\* resolve_task_field_offsets: all of them, or none if one is missing.
Resolved(btf) ==
    LET found == [n \in DOMAIN TaskFields |->
                    FieldOffset(btf, TaskFields[n].of, TaskFields[n].field)]
    IN  IF ~Loads(btf) \/ \E n \in DOMAIN found : found[n] = {} THEN {}
        ELSE {[n \in DOMAIN found |-> CHOOSE at \in found[n] : TRUE]}
=============================================================================
