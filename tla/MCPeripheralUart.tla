-------------------------- MODULE MCPeripheralUart --------------------------
(* PeripheralUart for TLC: it has no constants and finitely many states.     *)
EXTENDS PeripheralUart
=============================================================================
