------------------------------ MODULE MCCluster ------------------------------
(***************************************************************************)
(* Small instances of Cluster: two workers, with one request of each in     *)
(* flight at most, one of which spreads its genes.                          *)
(***************************************************************************)
EXTENDS Cluster

=============================================================================
