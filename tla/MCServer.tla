------------------------------ MODULE MCServer ------------------------------
(***************************************************************************)
(* Small instances of Server: two workers, with one request of each in     *)
(* flight at most.                                                         *)
(***************************************************************************)
EXTENDS Server

=============================================================================
