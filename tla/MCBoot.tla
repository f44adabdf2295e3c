-------------------------------- MODULE MCBoot ---------------------------------
(* Instance of Boot: every size of memory up to twice the address space.     *)
EXTENDS Boot

SomeMemories == 0..(8 * AddressPages)
=============================================================================
