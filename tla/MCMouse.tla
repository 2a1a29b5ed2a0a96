-------------------------------- MODULE MCMouse --------------------------------
(* A small screen, and a cursor that leaves one point of its square out.   *)
EXTENDS Mouse

MCShape == Offsets \ {<<1, 0>>}
=============================================================================
