------------------------------ MODULE MCHostFs ------------------------------
(* TLC instances of HostFs. *)
EXTENDS HostFs
=============================================================================
