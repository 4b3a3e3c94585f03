--------------------------- MODULE MCPartitions -----------------------------
(***************************************************************************)
(* Small instances of Partitions.                                          *)
(***************************************************************************)
EXTENDS Partitions
=============================================================================
