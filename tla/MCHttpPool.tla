----------------------------- MODULE MCHttpPool -----------------------------
(***************************************************************************)
(* A small instance of HttpPool: three handlers at most, one kept if idle. *)
(***************************************************************************)
EXTENDS HttpPool

=============================================================================
