------------------------------ MODULE MCCardEmu ------------------------------
(* CardEmu with a message of two bytes, reads at every offset around it, and *)
(* writes of the length, of the message whole and in parts, and of both.     *)
EXTENDS CardEmu

OwnMessage == <<5, 6>>

SomeReads  == {[off |-> o, len |-> 2] : o \in 0 .. 2} \cup {[off |-> 0, len |-> 4]}

SomeWrites ==
  {[off |-> 0, data |-> <<0, 2>>], [off |-> 2, data |-> <<0, 7>>], [off |-> 3, data |-> <<8>>],
   [off |-> 0, data |-> <<0, 1, 9>>]}
=============================================================================
