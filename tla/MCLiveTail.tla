----------------------------- MODULE MCLiveTail ------------------------------
(* One browser and a table of a few rows, with polls of two rows. *)
EXTENDS LiveTail
=============================================================================
