------------------------------ MODULE MCNciSetup ------------------------------
(* NciSetup with the mode of this build and with combinations of modes.      *)
EXTENDS NciSetup

SomeModes == {{"rw"}, {"cardemu"}, {"cardemu", "p2p", "rw"}}
=============================================================================
