------------------------------ MODULE MCPaging ------------------------------
(* Pages of two rows over a table of up to three commands.  The filter     *)
(* exit:+1 becomes, in a link, one for commands with a 1 in their          *)
(* arguments, which the rows have.                                         *)
EXTENDS Paging

All == << >>
Failed == <<"exit:", "+", "1">>

Filters == {All, Failed, Linked(Failed)}

FiltersSelect == [query \in Filters |->
    [comms |-> Comms,
     exits |-> IF query = Failed THEN {1} ELSE {NoExit} \cup ExitCodes]]
=============================================================================
