--------------------------- MODULE MCRemoteShell ---------------------------
(* Instances of RemoteShell for TLC.                                         *)
EXTENDS RemoteShell
=============================================================================
