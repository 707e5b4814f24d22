------------------------------- MODULE MCNode -------------------------------
(***************************************************************************)
(* Small instances of Node.  The constants are bounds on the queues, on    *)
(* the scores and on the loops of the scheduler.                           *)
(***************************************************************************)
EXTENDS Node

=============================================================================
