--------------------------- MODULE MCAddressSpaces ---------------------------
(* A small instance of AddressSpaces for TLC: a program of one page, and   *)
(* one of two that begins at the same address.                             *)
EXTENDS AddressSpaces

MCPrograms == {{NumFrames}, {NumFrames, NumFrames + 1}}
=============================================================================
