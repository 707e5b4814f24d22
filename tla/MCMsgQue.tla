------------------------------ MODULE MCMsgQue ------------------------------
(***************************************************************************)
(* A small instance of MsgQue: three tasks, two of which have the same     *)
(* score.                                                                  *)
(***************************************************************************)
EXTENDS MsgQue, TLC

CONSTANTS t1, t2, t3

MCTask == {t1, t2, t3}
MCScore == (t1 :> 1) @@ (t2 :> 2) @@ (t3 :> 2)
MCIncrements == {0, 1}

=============================================================================
