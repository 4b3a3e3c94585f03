---------------------------- MODULE MCUploadQueue ---------------------------
(***************************************************************************)
(* Small instances of UploadQueue.                                         *)
(***************************************************************************)
EXTENDS UploadQueue
=============================================================================
