----------------------------- MODULE MCCollector -----------------------------
(* Init and two more processes, under chosen faults and filters. *)
EXTENDS Collector, TLC

CONSTANTS init, p, q

ThreePids == {init, p, q}
NoTerminal == {0}
OneTerminal == 0..1
OneCode == {0}
TwoCodes == {0, 1}
NoFilter == {}
NoFaults == {}
Losses == {"lost", "killed"}
AllFaults == {"killed", "lost", "sqlerror", "crash", "terminals"}
AnyProcess == Permutations({p, q})
=============================================================================
