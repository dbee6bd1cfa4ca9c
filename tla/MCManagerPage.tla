---------------------------- MODULE MCManagerPage ---------------------------
(* Two calls at a time beside the polls of two logins.                     *)
EXTENDS ManagerPage
=============================================================================
