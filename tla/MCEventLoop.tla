----------------------------- MODULE MCEventLoop -----------------------------
(* The event loop over a ring of a few slots.  The state space is finite *)
(* as it stands: probe, browsers and signals are bounded by the ring, by *)
(* MaxConns and by the two signals.                                      *)
EXTENDS EventLoop
=============================================================================
