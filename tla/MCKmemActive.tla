---------------------------- MODULE MCKmemActive ----------------------------
(* Two processes and the allocator system calls.                           *)
EXTENDS KmemActive

CONSTANTS p1, p2, c1, c2

=============================================================================
