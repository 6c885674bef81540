------------------------------ MODULE MCReentry ------------------------------
(* Transactions of a few invocations of two or three programs.             *)
EXTENDS Reentry
MCAllowlists == {{}, {"token"}}
=============================================================================
