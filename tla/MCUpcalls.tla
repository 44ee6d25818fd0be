------------------------------ MODULE MCUpcalls ------------------------------
(* An instance of Upcalls for TLC.                                          *)
EXTENDS Upcalls

ReadWrite == {"read", "write"}
=============================================================================
