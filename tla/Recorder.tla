------------------------------ MODULE Recorder -------------------------------
(***************************************************************************)
(* A run of the recorder from main (shspectr/src/main.rs) to its end: the  *)
(* sink is opened (Migration), the probe is loaded and given the offsets   *)
(* that Btf finds in the kernel, its programs are attached, and from then  *)
(* on system calls become events (Records).                                *)
(*                                                                         *)
(* Every error on the way ends the process, and the probe's programs and   *)
(* maps go with it; what Migration did to the database stays.              *)
(***************************************************************************)
EXTENDS Migration, Records

CONSTANTS
    Artifacts  \* wire versions of the probe that may be installed

\* The kernel shows its own types, unless the image is damaged.
ASSUME ImagesAssumption ==
    \A k \in DOMAIN Kernels : Kernels[k].intact =>
        /\ WellFormed(Kernels[k].names, Kernels[k].types)
        /\ Kernels[k].image = Image(Kernels[k].names, Kernels[k].types)

VARIABLE
    stage      \* how far main has come; "down" when no process runs

recorderVars == <<vars, probeVars, stage>>

-----------------------------------------------------------------------------
RecorderInit == Init /\ ProbeInit /\ stage = "down"

\* --output stdout opens no database, and is refused together with --web.
StartStdout ==
    /\ stage = "down"
    /\ stage' = "load"
    /\ UNCHANGED <<vars, probeVars>>

StartSqlite ==
    /\ stage = "down"
    /\ Open
    /\ stage' = "sink"
    /\ UNCHANGED probeVars

OpenSink ==
    /\ stage = "sink"
    /\ Statement
    /\ UNCHANGED <<probeVars, stage>>

\* Ebpf::load, and SELF_TGID.
Load ==
    /\ \/ stage = "sink" /\ pc = "open"
       \/ stage = "load"
    /\ artifact' \in Artifacts
    /\ stage' = "resolve"
    /\ UNCHANGED <<vars, kernel, offsets, scratch, pending, doing, last, calls>>

\* What resolve_task_field_offsets finds in each kernel.
OffsetsOf == [k \in DOMAIN Kernels |-> Resolved(Kernels[k].image)]

\* resolve_task_field_offsets, and OFFSETS.
Resolve ==
    /\ stage = "resolve"
    /\ \E k \in DOMAIN Kernels :
         /\ kernel' = k
         /\ IF OffsetsOf[k] = {} THEN stage' = "refused" /\ UNCHANGED offsets
            ELSE offsets' \in OffsetsOf[k] /\ stage' = "attach"
    /\ UNCHANGED <<vars, artifact, scratch, pending, doing, last, calls>>

\* The seven programs, which Probe attaches one by one, and the event loop.
Attach ==
    /\ stage = "attach"
    /\ stage' = "running"
    /\ UNCHANGED <<vars, probeVars>>

Record ==
    /\ stage = "running"
    /\ Call
    /\ UNCHANGED <<vars, stage>>

\* The process ends: by itself, by an error main returns, or by force.
End ==
    /\ stage # "down"
    /\ \/ Close
       \/ Crash
       \/ CrashInSchema
       \/ pc \in {"closed", "failed"} /\ UNCHANGED vars
    /\ stage' = "down"
    /\ ProbeGone

RecorderNext ==
    \/ StartStdout
    \/ StartSqlite
    \/ OpenSink
    \/ Load
    \/ Resolve
    \/ Attach
    \/ Record
    \/ End

RecorderSpec == RecorderInit /\ [][RecorderNext]_recorderVars
-----------------------------------------------------------------------------
\* What the reader takes for the offsets of a kernel are the places its types
\* give the fields.
OffsetsAreTrue(k) ==
    \A found \in OffsetsOf[k] : \A n \in DOMAIN TaskFields :
        TrueOffset(Kernels[k].types, TaskFields[n].of, TaskFields[n].field) = {found[n]}

\* A damaged image is refused, or damaged where it does not matter.
DamageIsHarmless ==
    \A k \in DOMAIN Kernels : ~Kernels[k].intact => OffsetsAreTrue(k)

\* A kernel is refused only if its BTF is damaged or a field that the probe
\* needs is not in it: whatever types come before the structures, the reader
\* finds its way through them.
RefusesOnlyTheUnknown ==
    stage = "refused" =>
        \/ ~Kernels[kernel].intact
        \/ \E n \in DOMAIN TaskFields :
             TrueOffset(Kernels[kernel].types, TaskFields[n].of, TaskFields[n].field) = {}
=============================================================================
