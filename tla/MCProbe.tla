------------------------------ MODULE MCProbe -------------------------------
(***************************************************************************)
(* Small instances of Probe.  Fds 0 and 1 are the interesting pair: 0 is   *)
(* watched by the read programs only and 1 by the write programs only, so  *)
(* each is the other's unwatched descriptor.                               *)
(***************************************************************************)
EXTENDS Probe, TLC

CONSTANTS self, p1, p2, t1, t2

OneProcess == {self, p1}
TwoProcesses == {self, p1, p2}
OneThread == {t1}
TwoThreads == {t1, t2}
StdFds == {0, 1}
NoFds == {}
Booted == {Len(BootOrder)}
FromScratch == {0}
NoOther == Permutations({p1, p2})
=============================================================================
