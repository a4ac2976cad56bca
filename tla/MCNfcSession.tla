---------------------------- MODULE MCNfcSession ----------------------------
(* The instance of NfcSession for TLC: the whole of it, there are no         *)
(* parameters.                                                               *)
EXTENDS NfcSession
=============================================================================
