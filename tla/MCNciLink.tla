------------------------------ MODULE MCNciLink ------------------------------
(* Instances of NciLink for TLC: a tag of each kind.                         *)
EXTENDS NciLink

CONSTANTS T1T, T2T, T3T, T5T, IsoDep, Mifare

AllTags == {T1T, T2T, T3T, T5T, IsoDep, Mifare}

ProtocolOf ==
  [t \in AllTags |-> CASE t = T1T -> "t1t" [] t = T2T -> "t2t" [] t = T3T -> "t3t" [] t = T5T -> "t5t"
                       [] t = IsoDep -> "isodep" [] t = Mifare -> "mifare"]

(* Three of those that differ most; any two, one of which is one of these.   *)
SomeCrowds ==
  LET three == {T2T, IsoDep, Mifare}
  IN  {three} \cup {S \in SUBSET AllTags : Cardinality(S) = 2 /\ S \cap three # {}}
              \cup {{t} : t \in AllTags}
=============================================================================
