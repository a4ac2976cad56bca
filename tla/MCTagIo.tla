------------------------------- MODULE MCTagIo -------------------------------
(* Instances of TagIo for TLC, with the sizes of the code.                   *)
EXTENDS TagIo

(* Messages that end with a block of some type or not, that cross a sector,  *)
(* that have a long length or are too long, behind other TLVs or not.        *)
SomeLayouts ==
  {<<0, 0>>, <<9, 5>>, <<46, 20>>, <<110, 0>>,
   <<300, 5>>, <<301, 0>>}

AllTypes == {"T1T", "T2T", "T3T", "T4T", "T5T", "MIFARE"}
=============================================================================
