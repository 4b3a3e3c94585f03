----------------------------- MODULE MCSmsCode ------------------------------
(***************************************************************************)
(* Small instances of SmsCode.                                             *)
(***************************************************************************)
EXTENDS SmsCode
=============================================================================
