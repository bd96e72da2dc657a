---------------------------- MODULE MCHostCalls ----------------------------
(* TLC instances of HostCalls: every budget is 1, as config may set it. *)
EXTENDS HostCalls

OneEach == [c \in Classes |-> 1]
=============================================================================
