----------------------------- MODULE MCSession ------------------------------
(***************************************************************************)
(* Small instances of Session.                                             *)
(***************************************************************************)
EXTENDS Session

\* Production with MySQL and aliyun_pns; development with SQLite and codes that are
\* compared here.
MCSetups == {[reuse |-> FALSE, awaits |-> TRUE], [reuse |-> TRUE, awaits |-> FALSE]}
=============================================================================
