------------------------------ MODULE MCDetails ------------------------------
(* The recorder of MCCollector with a browser that opens detail panels. *)
EXTENDS MCCollector, Details

OutputAndOther == {1, 3}
=============================================================================
