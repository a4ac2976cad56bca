----------------------------- MODULE TagIoProofs -----------------------------
(***************************************************************************)
(* Theorems of TagIo, for messages, cards, buffers and pieces of every      *)
(* size: the MIFARE engine respects the sectors of the card, the write of a *)
(* T4T is all or nothing wherever it is cut off, what is reported is the    *)
(* message on the tag, neither the buffer nor the data area is left, a read *)
(* that is not disturbed reports the message, and every operation ends.     *)
(***************************************************************************)
EXTENDS TagIo, TLAPS, WellFoundedInduction

-----------------------------------------------------------------------------
(* MIFARE.  The property speaks of the command on its way.  What makes it    *)
(* inductive is the sector each state of the engine relies on: while the     *)
(* card has to answer, either that sector is authenticated or the command    *)
(* authenticates it, and once a good answer has come it is.  If something    *)
(* else has passed for a good answer, only the engine's own bookkeeping is   *)
(* left.                                                                     *)

(* The sector that the state of the engine relies on.                        *)
Sector ==
  IF ndef.state \in {"Authenticated0", "Reading_GPB"} THEN 0
  ELSE IF ndef.state = "Authenticated" /\ ndef.blk # 4 THEN (ndef.blk + 1) \div 4
  ELSE ndef.blk \div 4

(* Where the block pointer stands in each state.                             *)
PlaceOK ==
  /\ ndef.state = "Authenticated" => ndef.blk = 4 \/ (ndef.blk >= 4 /\ ndef.blk % 4 = 3)
  /\ ndef.state = "Reading_FirstBlk" => ndef.blk = 4
  /\ ndef.state = "Reading_Data" => ndef.blk >= 4 /\ ndef.blk % 4 # 3
  /\ ndef.state = "Writing_Data1" => ndef.blk >= 4
  /\ ndef.state = "Writing_Data2" => ndef.blk >= 4 /\ ndef.blk % 4 # 3

(* The commands of each state.                                               *)
CmdOK ==
  /\ cmd.what = "gpb" => cmd.at = 1 /\ ndef.state = "Reading_GPB"
  /\ cmd.what \in {"read", "write_at"} =>
       cmd.at = ndef.blk /\ ndef.state \in {"Reading_FirstBlk", "Reading_Data", "Writing_Data2"}
  /\ cmd.what = "auth" => cmd.at = Sector
  /\ cmd.what # "auth" => misled \/ auth = Sector

Shape ==
  /\ ndef = [state |-> ndef.state, blk |-> ndef.blk, ptr |-> ndef.ptr, size |-> ndef.size]
  /\ ndef.blk \in Nat

MifareInv ==
  type = "MIFARE" =>
    /\ Shape
    /\ pc = "tag" => ndef.state # "Initial"
    /\ pc \in {"tag", "engine"} /\ ndef.state # "Initial" =>
         /\ PlaceOK
         /\ pc = "tag" => CmdOK
         /\ pc = "engine" /\ rsp.ok => misled \/ auth = Sector

-----------------------------------------------------------------------------
(* Each engine runs on its own type of tag only, and leaves the type and     *)
(* what has happened to answers alone.                                       *)
LEMMA EngineTypes ==
  /\ T1T => type = "T1T" /\ type' = type /\ misled' = misled
  /\ T2T => type = "T2T" /\ type' = type /\ misled' = misled
  /\ T3T => type = "T3T" /\ type' = type /\ misled' = misled
  /\ T4T => type = "T4T" /\ type' = type /\ misled' = misled
  /\ T5T => type = "T5T" /\ type' = type /\ misled' = misled
  /\ Mifare => type = "MIFARE" /\ type' = type /\ misled' = misled
<1>1. ASSUME T1T PROVE type = "T1T" /\ type' = type /\ misled' = misled
  BY <1>1 DEF T1T, T1TInitial, T1TGettingID, T1TReadingCardContent, T1TReadingNDEF, In, tagVars
<1>2. ASSUME T2T PROVE type = "T2T" /\ type' = type /\ misled' = misled
  BY <1>2 DEF T2T, T2TInitial, T2TReadingCC, T2TReadingData, T2TReadingNDEF, T2TWriteCC,
              T2TWritingData, In, tagVars
<1>3. ASSUME T3T PROVE type = "T3T" /\ type' = type /\ misled' = misled
  BY <1>3 DEF T3T, T3TInitial, T3TGettingAttributeInfo, T3TReadingCardContent, In, tagVars
<1>4. ASSUME T4T PROVE type = "T4T" /\ type' = type /\ misled' = misled
  BY <1>4 DEF T4T, SelectApp20, App20Answered, App10Selected, CCSelected, CCRead,
              NdefSelected, SizeRead, ReadingNdef, ClearSize, WritingNdef, WritingSize,
              WriteComplete, In, tagVars
<1>5. ASSUME T5T PROVE type = "T5T" /\ type' = type /\ misled' = misled
  BY <1>5 DEF T5T, T5TInitial, T5TReadingCC, T5TReadingData, T5TReadingNDEF, T5TWriteCC,
              T5TWritingData, In, tagVars
<1>6. ASSUME Mifare PROVE type = "MIFARE" /\ type' = type /\ misled' = misled
  BY <1>6 DEF Mifare, Authenticate0, ReadGpb, GpbRead, Authenticated, ReadingFirstBlk,
              ReadingData, GpbReadToWrite, WritingData1, WritingData2, In, tagVars
<1>7. QED
  BY <1>1, <1>2, <1>3, <1>4, <1>5, <1>6

(* Once a packet has passed for an answer that it is not, this stays so; and *)
(* unless it is so, an exchange that fails is seen to fail.                  *)
LEMMA MisledStays ==
  ASSUME [Next]_vars
  PROVE  /\ misled => misled'
         /\ TagFails => misled' \/ ~rsp'.ok
<1>1. ASSUME Begin PROVE misled => misled'
  BY <1>1 DEF Begin, BeginRead, BeginWrite, Reset
<1>2. ASSUME TagAnswers PROVE misled => misled'
  BY <1>2 DEF TagAnswers
<1>3. ASSUME TagFails PROVE (misled => misled') /\ (misled' \/ ~rsp'.ok)
  BY <1>3, Zenon DEF TagFails
<1>4. ASSUME Engine PROVE misled => misled'
  BY <1>4, EngineTypes DEF Engine, GivesUp
<1>5. ASSUME UNCHANGED vars PROVE misled => misled'
  BY <1>5 DEF vars
<1>6. QED
  BY <1>1, <1>2, <1>3, <1>4, <1>5, Zenon DEF Next, Tag

-----------------------------------------------------------------------------
(* The application, the tag and a failed answer *)

(* A new operation starts without a sector.                                  *)
LEMMA BeginKeeps ==
  ASSUME MifareInv, Begin
  PROVE  MifareInv'
<1>1. Reset
  BY DEF Begin, BeginRead, BeginWrite
<1>2. pc' = "engine" /\ type' = type /\ ndef' = [ndef EXCEPT !.state = "Initial"]
  BY <1>1 DEF Reset
<1>3. ASSUME type = "MIFARE" PROVE Shape'
  BY <1>2, <1>3 DEF MifareInv, Shape
<1>4. ASSUME type = "MIFARE" PROVE ndef'.state = "Initial"
  BY <1>2, <1>4 DEF MifareInv, Shape
<1>5. QED
  BY <1>2, <1>3, <1>4 DEF MifareInv

(* A good answer to an authentication is what makes a sector authenticated.  *)
LEMMA TagKeeps ==
  ASSUME MifareInv, Tag
  PROVE  MifareInv'
<1>1. pc = "tag" /\ pc' = "engine" /\ type' = type /\ ndef' = ndef
  BY DEF Tag, TagAnswers, TagFails, hostVars
<1>2. /\ misled => misled'
      /\ type = "MIFARE" /\ rsp'.ok =>
           misled' \/ auth' = IF cmd.what = "auth" THEN cmd.at ELSE auth
  <2>1. CASE TagAnswers
    <3>1. rsp'.ok => Executed
      BY <2>1 DEF TagAnswers, Useless
    <3>2. QED
      BY <2>1, <3>1 DEF Executed, TagAnswers
  <2>2. CASE TagFails
    BY <2>2, Zenon DEF TagFails
  <2>3. QED
    BY <2>1, <2>2 DEF Tag
<1>3. type = "MIFARE" => PlaceOK /\ CmdOK
  BY <1>1 DEF MifareInv
<1>4. Sector' = Sector /\ (PlaceOK' <=> PlaceOK) /\ (Shape' <=> Shape)
  BY <1>1 DEF Sector, PlaceOK, Shape
<1>5. type = "MIFARE" /\ rsp'.ok => misled' \/ auth' = Sector
  BY <1>2, <1>3 DEF CmdOK
<1>6. QED
  BY <1>1, <1>3, <1>4, <1>5 DEF MifareInv

(* A step that ends the operation.                                           *)
LEMMA IdleKeeps ==
  ASSUME MifareInv, pc' = "idle", type' = type, type = "MIFARE" => Shape'
  PROVE  MifareInv'
  BY DEF MifareInv

-----------------------------------------------------------------------------
(* The engine of the MIFARE card: one step per action.  An action that sends *)
(* a command leads to a state whose conjuncts are shown one by one.          *)

(* A step that sends a command that fits its state.                          *)
LEMMA SendKeeps ==
  ASSUME type' = type, pc' = "tag", Shape', ndef'.state # "Initial", PlaceOK', CmdOK'
  PROVE  MifareInv'
  BY DEF MifareInv

(* Every step of the engine.                                                 *)
LEMMA MifareKeeps ==
  ASSUME MifareInv, Mifare
  PROVE  MifareInv'
<1> USE DEF Mifare
<1>0. /\ type = "MIFARE" /\ type' = type /\ pc = "engine" /\ auth' = auth /\ Shape
      /\ misled' = misled
  BY DEF MifareInv, Authenticate0, ReadGpb, GpbRead, Authenticated, ReadingFirstBlk,
         ReadingData, GpbReadToWrite, WritingData1, WritingData2, In, tagVars
<1>1. ASSUME NEW o \in {"read", "write"}, Authenticate0(o) PROVE MifareInv'
  <2>1. ndef' = [ndef EXCEPT !.state = "Authenticated0"] /\ cmd' = Auth(0) /\ pc' = "tag"
    BY <1>1 DEF Authenticate0, Goto, Send
  <2>2. Shape' /\ ndef'.state = "Authenticated0"
    BY <1>0, <2>1 DEF Shape
  <2>3. PlaceOK' /\ CmdOK'
    BY <2>1, <2>2 DEF PlaceOK, CmdOK, Sector, Auth, Cmd
  <2>4. QED
    BY <1>0, <2>1, <2>2, <2>3, SendKeeps
<1>2. ASSUME NEW o \in {"read", "write"}, ReadGpb(o) PROVE MifareInv'
  <2>1. /\ ndef' = [ndef EXCEPT !.state = "Reading_GPB"]
        /\ cmd' = Cmd("gpb", GpbBlock, 0, <<>>) /\ pc' = "tag"
    BY <1>2 DEF ReadGpb, Goto, Send
  <2>2. Shape' /\ ndef'.state = "Reading_GPB"
    BY <1>0, <2>1 DEF Shape
  <2>3. misled' \/ auth' = 0
    BY <1>0, <1>2 DEF ReadGpb, In, MifareInv, Sector
  <2>4. PlaceOK' /\ CmdOK'
    BY <2>1, <2>2, <2>3 DEF PlaceOK, CmdOK, Sector, Cmd, GpbBlock
  <2>5. QED
    BY <1>0, <2>1, <2>2, <2>4, SendKeeps
<1>3. CASE GpbRead
  <2>1. /\ ndef' = [ndef EXCEPT !.state = "Authenticated", !.blk = 4]
        /\ cmd' = Auth(1) /\ pc' = "tag"
    BY <1>3 DEF GpbRead, Send
  <2>2. Shape' /\ ndef'.state = "Authenticated" /\ ndef'.blk = 4
    BY <1>0, <2>1 DEF Shape
  <2>3. PlaceOK' /\ CmdOK'
    BY <2>1, <2>2 DEF PlaceOK, CmdOK, Sector, Auth, Cmd
  <2>4. QED
    BY <1>0, <2>1, <2>2, <2>3, SendKeeps
<1>4. CASE Authenticated
  <2>1. /\ ndef' = IF ndef.blk = 4 THEN [ndef EXCEPT !.state = "Reading_FirstBlk"]
                   ELSE [ndef EXCEPT !.state = "Reading_Data", !.blk = ndef.blk + 1]
        /\ cmd' = Read(ndef'.blk) /\ pc' = "tag"
    BY <1>4, <1>0 DEF Authenticated, Send, Shape
  <2>2. /\ PlaceOK /\ ndef.state = "Authenticated" /\ (misled \/ auth = Sector)
    BY <1>0, <1>4 DEF Authenticated, In, MifareInv
  <2>3. CASE ndef.blk = 4
    <3>1. Shape' /\ ndef'.state = "Reading_FirstBlk" /\ ndef'.blk = 4
      BY <1>0, <2>1, <2>3 DEF Shape
    <3>2. PlaceOK' /\ CmdOK'
      BY <1>0, <2>1, <2>2, <2>3, <3>1 DEF PlaceOK, CmdOK, Sector, Read, Cmd
    <3>3. QED
      BY <1>0, <2>1, <3>1, <3>2, SendKeeps
  <2>4. CASE ndef.blk # 4
    <3>0. ndef' = [state |-> "Reading_Data", blk |-> ndef.blk + 1,
                   ptr |-> ndef.ptr, size |-> ndef.size]
      BY <1>0, <2>1, <2>4 DEF Shape
    <3>1. Shape' /\ ndef'.state = "Reading_Data" /\ ndef'.blk = ndef.blk + 1
      BY <1>0, <3>0 DEF Shape
    <3>2. /\ ndef.blk \in Nat /\ ndef.blk >= 4 /\ ndef.blk % 4 = 3
          /\ misled \/ auth = (ndef.blk + 1) \div 4
      BY <1>0, <2>2, <2>4 DEF PlaceOK, Sector, Shape
    <3>3. (ndef.blk + 1) % 4 # 3 /\ ndef.blk + 1 >= 4
      BY <3>2
    <3>4. PlaceOK' /\ CmdOK'
      BY <1>0, <2>1, <3>1, <3>2, <3>3 DEF PlaceOK, CmdOK, Sector, Read, Cmd
    <3>5. QED
      BY <1>0, <2>1, <3>1, <3>4, SendKeeps
  <2>5. QED
    BY <2>3, <2>4
<1>5. CASE ReadingFirstBlk
  <2>0. PlaceOK /\ ndef.state = "Reading_FirstBlk" /\ ndef.blk = 4 /\ (misled \/ auth = Sector)
    BY <1>0, <1>5 DEF ReadingFirstBlk, In, MifareInv, PlaceOK
  <2>1. CASE Quits
    BY <1>0, <2>1, IdleKeeps DEF Quits, Ends, Shape
  <2>2. ASSUME NEW p, NEW d, FirstPart(d, p, TRUE, 5, "Reading_Data") PROVE MifareInv'
    <3>1. CASE pc' = "idle" /\ \E n : ndef' = [ndef EXCEPT !.size = n]
      <4>1. Shape'
        BY <1>0, <3>1 DEF Shape
      <4>2. QED
        BY <1>0, <3>1, <4>1, IdleKeeps
    <3>2. CASE /\ pc' = "tag" /\ cmd' = Read(5)
               /\ \E q, n : ndef' = [state |-> "Reading_Data", blk |-> 5, ptr |-> q, size |-> n]
      <4>1. Shape' /\ ndef'.state = "Reading_Data" /\ ndef'.blk = 5
        BY <3>2 DEF Shape
      <4>2. PlaceOK' /\ CmdOK'
        BY <1>0, <2>0, <3>2, <4>1 DEF PlaceOK, CmdOK, Sector, Read, Cmd
      <4>3. QED
        BY <1>0, <3>2, <4>1, <4>2, SendKeeps
    <3>3. QED
      BY <2>2, <3>1, <3>2 DEF FirstPart, Refuse, Deliver, Ends, Send
  <2>3. QED
    BY <1>5, <2>1, <2>2 DEF ReadingFirstBlk
<1>6. CASE ReadingData
  <2>0. /\ PlaceOK /\ ndef.state = "Reading_Data" /\ (misled \/ auth = Sector)
        /\ ndef.blk \in Nat /\ ndef.blk >= 4 /\ ndef.blk % 4 # 3
        /\ misled \/ auth = ndef.blk \div 4
    BY <1>0, <1>6 DEF ReadingData, In, MifareInv, PlaceOK, Sector, Shape
  <2>1. CASE LastPart(rsp.data)
    BY <1>0, <2>1, IdleKeeps DEF LastPart, Deliver, Ends, Shape
  <2>2. CASE NextPart(rsp.data, 1) /\ ~Trailer(ndef.blk + 1)
    <3>0. ndef' = [state |-> "Reading_Data", blk |-> ndef.blk + 1,
                   ptr |-> ndef.ptr + Len(rsp.data), size |-> ndef.size]
      BY <1>0, <2>0, <2>2 DEF NextPart, Shape
    <3>1. Shape' /\ ndef'.state = "Reading_Data" /\ ndef'.blk = ndef.blk + 1
      BY <2>0, <3>0 DEF Shape
    <3>2. /\ ndef.blk + 1 >= 4 /\ (ndef.blk + 1) % 4 # 3
          /\ (ndef.blk + 1) \div 4 = ndef.blk \div 4
      BY <2>0, <2>2 DEF Trailer
    <3>3. pc' = "tag" /\ cmd' = Read(ndef'.blk)
      BY <2>2 DEF NextPart, Send
    <3>4. PlaceOK' /\ CmdOK'
      BY <1>0, <2>0, <3>1, <3>2, <3>3 DEF PlaceOK, CmdOK, Sector, Read, Cmd
    <3>5. QED
      BY <1>0, <3>1, <3>3, <3>4, SendKeeps
  <2>3. CASE /\ Trailer(ndef.blk + 1)
             /\ ndef' = [state |-> "Authenticated", blk |-> ndef.blk + 1,
                         ptr |-> ndef.ptr + Len(rsp.data), size |-> ndef.size]
             /\ Send(Auth((ndef.blk + 2) \div 4))
    <3>1. Shape' /\ ndef'.state = "Authenticated" /\ ndef'.blk = ndef.blk + 1
      BY <2>0, <2>3 DEF Shape
    <3>2. /\ ndef.blk + 1 >= 4 /\ (ndef.blk + 1) % 4 = 3 /\ ndef.blk + 1 # 4
          /\ (ndef.blk + 1) + 1 = ndef.blk + 2
      BY <2>0, <2>3 DEF Trailer
    <3>3. pc' = "tag" /\ cmd'.what = "auth" /\ cmd'.at = (ndef.blk + 2) \div 4
      BY <2>3 DEF Send, Auth, Cmd
    <3>4. PlaceOK' /\ CmdOK'
      BY <1>0, <2>0, <3>1, <3>2, <3>3 DEF PlaceOK, CmdOK, Sector
    <3>5. QED
      BY <1>0, <3>1, <3>3, <3>4, SendKeeps
  <2>4. QED
    BY <1>6, <2>1, <2>2, <2>3 DEF ReadingData
<1>7. CASE GpbReadToWrite
  <2>1. /\ ndef' = [ndef EXCEPT !.state = "Writing_Data1", !.blk = 4, !.ptr = 0]
        /\ cmd' = Auth(1) /\ pc' = "tag"
    BY <1>7 DEF GpbReadToWrite, WriteNext, Send
  <2>2. Shape' /\ ndef'.state = "Writing_Data1" /\ ndef'.blk = 4
    BY <1>0, <2>1 DEF Shape
  <2>3. PlaceOK' /\ CmdOK'
    BY <2>1, <2>2 DEF PlaceOK, CmdOK, Sector, Auth, Cmd
  <2>4. QED
    BY <1>0, <2>1, <2>2, <2>3, SendKeeps
<1>8. CASE WritingData1
  <2>0. /\ ndef.state = "Writing_Data1"
        /\ ndef.blk \in Nat /\ ndef.blk >= 4 /\ (misled \/ auth = ndef.blk \div 4)
    BY <1>0, <1>8 DEF WritingData1, In, MifareInv, PlaceOK, Sector, Shape
  <2>1. CASE Written
    BY <1>0, <2>1, IdleKeeps DEF Written, Pushed, Ends, Shape
  <2>2. CASE /\ Trailer(ndef.blk)
             /\ WriteNext("Writing_Data1", ndef.blk + 1, ndef.ptr, Auth((ndef.blk + 1) \div 4))
    <3>0. ndef' = [state |-> "Writing_Data1", blk |-> ndef.blk + 1,
                   ptr |-> ndef.ptr, size |-> ndef.size]
      BY <1>0, <2>2 DEF WriteNext, Shape
    <3>1. Shape' /\ ndef'.state = "Writing_Data1" /\ ndef'.blk = ndef.blk + 1
      BY <2>0, <3>0 DEF Shape
    <3>2. ndef.blk + 1 >= 4
      BY <2>0
    <3>3. pc' = "tag" /\ cmd'.what = "auth" /\ cmd'.at = (ndef.blk + 1) \div 4
      BY <2>2 DEF WriteNext, Send, Auth, Cmd
    <3>4. PlaceOK' /\ CmdOK'
      BY <3>1, <3>2, <3>3 DEF PlaceOK, CmdOK, Sector
    <3>5. QED
      BY <1>0, <3>1, <3>3, <3>4, SendKeeps
  <2>3. CASE /\ ~Trailer(ndef.blk)
             /\ WriteNext("Writing_Data2", ndef.blk, ndef.ptr,
                          Cmd("write_at", ndef.blk, 0, <<>>))
    <3>0. ndef' = [state |-> "Writing_Data2", blk |-> ndef.blk,
                   ptr |-> ndef.ptr, size |-> ndef.size]
      BY <1>0, <2>3 DEF WriteNext, Shape
    <3>1. Shape' /\ ndef'.state = "Writing_Data2" /\ ndef'.blk = ndef.blk
      BY <2>0, <3>0 DEF Shape
    <3>2. ndef.blk % 4 # 3
      BY <2>0, <2>3 DEF Trailer
    <3>3. pc' = "tag" /\ cmd'.what = "write_at" /\ cmd'.at = ndef.blk
      BY <2>3 DEF WriteNext, Send, Cmd
    <3>4. PlaceOK' /\ CmdOK'
      BY <1>0, <2>0, <3>1, <3>2, <3>3 DEF PlaceOK, CmdOK, Sector
    <3>5. QED
      BY <1>0, <3>1, <3>3, <3>4, SendKeeps
  <2>4. QED
    BY <1>8, <2>1, <2>2, <2>3 DEF WritingData1
<1>9. CASE WritingData2
  <2>0. /\ ndef.state = "Writing_Data2"
        /\ ndef.blk \in Nat /\ ndef.blk >= 4 /\ ndef.blk % 4 # 3
        /\ misled \/ auth = ndef.blk \div 4
    BY <1>0, <1>9 DEF WritingData2, In, MifareInv, PlaceOK, Sector, Shape
  <2>1. PICK q, c : /\ WriteNext("Writing_Data1", ndef.blk + 1, q, c)
                    /\ c.what = "write_data"
    <3>1. ASSUME ndef.blk = 4,
                 WriteNext("Writing_Data1", 5, IF Size > 255 THEN 10 ELSE 12,
                           Cmd("write_data", 0, 16, FirstBlock))
          PROVE  \E q, c : /\ WriteNext("Writing_Data1", ndef.blk + 1, q, c)
                           /\ c.what = "write_data"
      <4>1. ndef.blk + 1 = 5 /\ Cmd("write_data", 0, 16, FirstBlock).what = "write_data"
        BY <3>1 DEF Cmd
      <4>2. QED
        BY <3>1, <4>1, Zenon
    <3>2. ASSUME WriteNext("Writing_Data1", ndef.blk + 1, ndef.ptr + 16,
                           Cmd("write_data", 0, 16, Chunk(16)))
          PROVE  \E q, c : /\ WriteNext("Writing_Data1", ndef.blk + 1, q, c)
                           /\ c.what = "write_data"
      <4>1. Cmd("write_data", 0, 16, Chunk(16)).what = "write_data"
        BY DEF Cmd
      <4>2. QED
        BY <3>2, <4>1, Zenon
    <3>3. QED
      BY <1>9, <3>1, <3>2 DEF WritingData2
  <2>2. Shape' /\ ndef'.state = "Writing_Data1" /\ ndef'.blk = ndef.blk + 1
    <3>1. ndef' = [state |-> "Writing_Data1", blk |-> ndef.blk + 1, ptr |-> q, size |-> ndef.size]
      BY <1>0, <2>1 DEF WriteNext, Shape
    <3>2. QED
      BY <2>0, <3>1 DEF Shape
  <2>3. ndef.blk + 1 >= 4 /\ (ndef.blk + 1) \div 4 = ndef.blk \div 4
    BY <2>0
  <2>4. PlaceOK' /\ CmdOK'
    BY <1>0, <2>0, <2>1, <2>2, <2>3 DEF PlaceOK, CmdOK, Sector, WriteNext, Send
  <2>5. QED
    BY <1>0, <2>1, <2>2, <2>4, SendKeeps DEF WriteNext, Send
<1>10. QED
  BY <1>1, <1>2, <1>3, <1>4, <1>5, <1>6, <1>7, <1>8, <1>9

-----------------------------------------------------------------------------
(* The sectors are right at every moment.                                    *)
LEMMA SectorsAlways == Spec => []MifareInv
<1>1. ASSUME Init PROVE MifareInv
  BY <1>1 DEF Init, MifareInv, Shape
<1>2. ASSUME MifareInv, [Next]_vars PROVE MifareInv'
  <2>1. CASE Begin
    BY <1>2, <2>1, BeginKeeps
  <2>2. CASE Tag
    BY <1>2, <2>2, TagKeeps
  <2>3. CASE Mifare
    BY <1>2, <2>3, MifareKeeps
  <2>4. CASE T1T \/ T2T \/ T3T \/ T4T \/ T5T
    BY <2>4, EngineTypes DEF MifareInv
  <2>5. CASE GivesUp
    BY <1>2, <2>5, IdleKeeps DEF GivesUp, hostVars, tagVars, MifareInv, Shape
  <2>6. CASE UNCHANGED vars
    BY <1>2, <2>6 DEF vars, hostVars, tagVars, MifareInv, Shape, PlaceOK, CmdOK, Sector
  <2>7. QED
    BY <1>2, <2>1, <2>2, <2>3, <2>4, <2>5, <2>6 DEF Next, Engine
<1>3. QED
  BY <1>1, <1>2, PTL DEF Spec

(* A trailer or a block of the directory is never read or announced,         *)
(* whatever passes for an answer, and a block only in the authenticated      *)
(* sector unless something has passed for the answer, whatever lengths and   *)
(* cards there are: the engine's bookkeeping of blocks and sectors is right. *)
THEOREM SectorsCorrect == Spec => []SectorsRespected
<1>1. ASSUME MifareInv PROVE SectorsRespected
  <2>1. SUFFICES ASSUME pc = "tag", type = "MIFARE", cmd.what \in {"gpb", "read", "write_at"}
                 PROVE  /\ misled \/ cmd.at \div 4 = auth
                        /\ cmd.at % 4 # 3
                        /\ cmd.what # "gpb" => cmd.at >= 4
    BY DEF SectorsRespected
  <2>2. PlaceOK /\ CmdOK /\ (misled \/ auth = Sector) /\ ndef.blk \in Nat
    BY <1>1, <2>1 DEF MifareInv, CmdOK, Shape
  <2>3. QED
    BY <2>1, <2>2 DEF PlaceOK, CmdOK, Sector
<1>2. QED
  BY <1>1, SectorsAlways, PTL

-----------------------------------------------------------------------------
(* T4T.  The engine clears the size, writes the message in pieces and writes *)
(* the size.  The invariant says how far the file agrees with the message:   *)
(* up to the pointer once the card has confirmed a piece, up to the          *)
(* beginning of the piece while it is on its way; meanwhile the size is 0.   *)

Writing == {"Writing_NDEF", "Writing_NDEFsize", "Write_NDEFcomplete"}

Agrees(p) == Cells(mem, 0, p) = Cells(message, 0, p)

(* n bytes from place p of the message on are on their way.                  *)
Carries(p, n) ==
  /\ cmd.at = p + 2
  /\ cmd.data = Cells(message, p, n)
  /\ nlen = 0
  /\ Agrees(p)

OnItsWay ==
  /\ cmd.what # "write_data"
  /\ ndef.state \in Writing <=> cmd.what = "write"
  /\ ndef.state = "Writing_NDEF" =>
       \/ cmd.at = 0 /\ cmd.data = SizeOf(0) /\ ndef.ptr = 0
       \/ /\ ndef.ptr \in Nat /\ WriteSz <= ndef.ptr /\ ndef.ptr <= Size
          /\ Carries(ndef.ptr - WriteSz, WriteSz)
  /\ ndef.state = "Writing_NDEFsize" =>
       ndef.ptr \in Nat /\ ndef.ptr <= Size /\ Carries(ndef.ptr, Size - ndef.ptr)
  /\ ndef.state = "Write_NDEFcomplete" => cmd.at = 0 /\ cmd.data = SizeOf(Size) /\ Agrees(Size)

Confirmed ==
  /\ ndef.state = "Writing_NDEF" =>
       nlen = 0 /\ ndef.ptr \in Nat /\ ndef.ptr <= Size /\ Agrees(ndef.ptr)
  /\ ndef.state = "Writing_NDEFsize" => Agrees(Size)
  /\ ndef.state = "Write_NDEFcomplete" => nlen = Size /\ Agrees(Size)

MessageOK == \E k \in 1 .. ops + 1 : message = Message(k, Size)

AllOrNothing == \E k \in 1 .. ops + 1 : Cells(mem, 0, nlen) = Message(k, nlen)

Literal ==
  ndef = [state |-> ndef.state, blk |-> ndef.blk, ptr |-> ndef.ptr, size |-> ndef.size]

T4TInv ==
  type = "T4T" =>
    /\ Literal
    /\ mem \in Seq(Int) /\ nlen \in Nat /\ ops \in Nat /\ Size \in Nat
    /\ MessageOK
    /\ AllOrNothing
    /\ pc = "tag" => OnItsWay
    /\ pc = "engine" /\ rsp.ok /\ ndef.state # "Initial" => Confirmed

-----------------------------------------------------------------------------
(* What the helpers return *)

(* A message has the length asked for, and its cells are the message.        *)
LEMMA MessageFacts ==
  ASSUME NEW k \in Int, NEW n \in Nat
  PROVE  /\ Message(k, n) \in Seq(Int) /\ Len(Message(k, n)) = n
         /\ Cells(Message(k, n), 0, n) = Message(k, n)
  <1>1. Message(k, n) \in Seq(Int) /\ Len(Message(k, n)) = n
    BY DEF Message
  <1>2. Cells(Message(k, n), 0, n) = Message(k, n)
    BY DEF Message, Cells
  <1>3. QED
    BY <1>1, <1>2

(* No cells, and the empty message of any number, are the empty sequence.    *)
LEMMA NothingFacts ==
  ASSUME NEW k, NEW m
  PROVE  Message(k, 0) = <<>> /\ Cells(m, 0, 0) = <<>>
  BY DEF Message, Cells

(* The two bytes of a size hold it.                                          *)
LEMMA SizeFacts ==
  ASSUME NEW n \in Nat
  PROVE  256 * SizeOf(n)[1] + SizeOf(n)[2] = n
<1>1. 256 * (n \div 256) + (n % 256) = n
  BY SMT
<1>2. SizeOf(n)[1] = n \div 256 /\ SizeOf(n)[2] = n % 256
  BY DEF SizeOf
<1>3. QED
  BY <1>1, <1>2

(* Cells of integers are integers.                                           *)
LEMMA CellsType ==
  ASSUME NEW m \in Seq(Int), NEW p \in Nat, NEW n \in Nat
  PROVE  Cells(m, p, n) \in Seq(Int) /\ Len(Cells(m, p, n)) = n
  BY DEF Cells, Pad

(* What a store returns: the data behind what lay before them.               *)
LEMMA StoreFacts ==
  ASSUME NEW m \in Seq(Int), NEW d \in Seq(Int), NEW p \in Nat, NEW n \in Nat, Len(d) = n
  PROVE  /\ Store(m, p, d) \in Seq(Int)
         /\ \A i \in 1 .. p + n :
              Cells(Store(m, p, d), 0, p + n)[i] =
                IF i > p THEN d[i - p] ELSE Cells(m, 0, p)[i]
  <1>1. Store(m, p, d) \in Seq(Int)
    BY DEF Store, Pad
  <1>2. ASSUME NEW i \in 1 .. p + n
        PROVE  Cells(Store(m, p, d), 0, p + n)[i] =
                 IF i > p THEN d[i - p] ELSE Cells(m, 0, p)[i]
    <2>1. DOMAIN Store(m, p, d) = 1 .. (IF p + n > Len(m) THEN p + n ELSE Len(m))
      BY DEF Store
    <2>2. i \in DOMAIN Store(m, p, d)
      BY <2>1
    <2>3. Cells(Store(m, p, d), 0, p + n)[i] = Store(m, p, d)[i]
      BY <2>2 DEF Cells
    <2>4. DOMAIN d = 1 .. n /\ DOMAIN m = 1 .. Len(m)
      OBVIOUS
    <2>5. CASE i > p
      BY <2>2, <2>3, <2>4, <2>5 DEF Store
    <2>6. CASE ~(i > p)
      <3>1. i \in 1 .. p /\ i - p \notin DOMAIN d
        BY <2>4, <2>6
      <3>2. Cells(m, 0, p)[i] = IF i \in DOMAIN m THEN m[i] ELSE Pad
        BY <3>1 DEF Cells
      <3>3. Store(m, p, d)[i] = IF i \in DOMAIN m THEN m[i] ELSE Pad
        BY <2>1, <2>2, <3>1 DEF Store
      <3>4. QED
        BY <2>3, <2>6, <3>2, <3>3
    <2>7. QED
      BY <2>5, <2>6
  <1>3. QED
    BY <1>1, <1>2

(* A piece of a message stored where the memory agrees up to it: the memory  *)
(* agrees up to its end.                                                     *)
LEMMA StoreAgrees ==
  ASSUME NEW m \in Seq(Int), NEW a \in Seq(Int), NEW p \in Nat, NEW n \in Nat,
         Cells(m, 0, p) = Cells(a, 0, p)
  PROVE  /\ Store(m, p, Cells(a, p, n)) \in Seq(Int)
         /\ Cells(Store(m, p, Cells(a, p, n)), 0, p + n) = Cells(a, 0, p + n)
  <1> DEFINE d == Cells(a, p, n)
             s == Cells(Store(m, p, d), 0, p + n)
  <1>1. d \in Seq(Int) /\ Len(d) = n
    BY CellsType
  <1>2. /\ Store(m, p, d) \in Seq(Int)
        /\ \A i \in 1 .. p + n : s[i] = IF i > p THEN d[i - p] ELSE Cells(m, 0, p)[i]
    BY <1>1, StoreFacts
  <1>3. ASSUME NEW i \in 1 .. p + n PROVE s[i] = Cells(a, 0, p + n)[i]
    <2>1. Cells(a, 0, p + n)[i] = IF i \in DOMAIN a THEN a[i] ELSE Pad
      BY DEF Cells
    <2>2. CASE i > p
      <3>1. i - p \in 1 .. n /\ p + (i - p) = i
        BY <2>2
      <3>2. d[i - p] = IF i \in DOMAIN a THEN a[i] ELSE Pad
        BY <3>1 DEF Cells
      <3>3. QED
        BY <1>2, <2>1, <2>2, <3>2
    <2>3. CASE ~(i > p)
      <3>1. i \in 1 .. p
        BY <2>3
      <3>2. Cells(a, 0, p)[i] = IF i \in DOMAIN a THEN a[i] ELSE Pad
        BY <3>1 DEF Cells
      <3>3. QED
        BY <1>2, <2>1, <2>3, <3>2
    <2>4. QED
      BY <2>2, <2>3
  <1>4. /\ s = [i \in 1 .. p + n |-> s[i]]
      /\ Cells(a, 0, p + n) = [i \in 1 .. p + n |-> Cells(a, 0, p + n)[i]]
    BY DEF Cells
  <1>5. s = Cells(a, 0, p + n)
    BY <1>3, <1>4
  <1>6. QED
    BY <1>2, <1>5

-----------------------------------------------------------------------------
(* The application and the tag *)

(* A new message may be set; the one on the tag stays what it is.            *)
LEMMA T4TBeginKeeps ==
  ASSUME T4TInv, Begin
  PROVE  T4TInv'
<1>1. /\ Reset
      /\ \/ message' = message
         \/ message' = <<>>
         \/ \E n \in Lengths : message' = Message(ops + 2, n)
  BY DEF Begin, BeginRead, BeginWrite, SetMessage
<1>2. SUFFICES ASSUME type = "T4T" PROVE T4TInv'
  BY <1>1 DEF T4TInv, Reset
<1>3. /\ pc' = "engine" /\ type' = type /\ ops' = ops + 1 /\ ops \in Nat
      /\ mem' = mem /\ nlen' = nlen /\ ndef' = [ndef EXCEPT !.state = "Initial"]
      /\ mem \in Seq(Int) /\ nlen \in Nat
  BY <1>1, <1>2 DEF Reset, T4TInv
<1>4. Literal' /\ ndef'.state = "Initial"
  BY <1>2, <1>3 DEF T4TInv, Literal
<1>5. AllOrNothing'
  BY <1>2, <1>3 DEF T4TInv, AllOrNothing
<1>6. Size' \in Nat /\ MessageOK'
  <2>1. CASE message' = message
    BY <1>2, <1>3, <2>1 DEF T4TInv, MessageOK, Size
  <2>2. CASE message' = <<>>
    <3>1. Size' = 0 /\ 1 \in 1 .. ops' + 1
      BY <1>3, <2>2 DEF Size
    <3>2. QED
      BY <2>2, <3>1, NothingFacts DEF MessageOK
  <2>3. ASSUME NEW n \in Lengths, message' = Message(ops + 2, n) PROVE Size' \in Nat /\ MessageOK'
    <3>1. n \in Nat
      BY RwAssumption
    <3>2. Size' = n /\ ops + 2 \in 1 .. ops' + 1
      BY <1>3, <2>3, <3>1, MessageFacts DEF Size
    <3>3. QED
      BY <2>3, <3>1, <3>2 DEF MessageOK
  <2>4. QED
    BY <1>1, <2>1, <2>2, <2>3
<1>7. QED
  BY <1>3, <1>4, <1>5, <1>6 DEF T4TInv

(* A command that is executed: the pieces of a message meet, and the size    *)
(* that makes them a message comes behind the last one.                      *)
LEMMA ExecutedKeeps ==
  ASSUME T4TInv, type = "T4T", pc = "tag", Executed,
         type' = type, ndef' = ndef, message' = message, ops' = ops
  PROVE  mem' \in Seq(Int) /\ nlen' \in Nat /\ AllOrNothing' /\ Confirmed'
<1>1. /\ mem \in Seq(Int) /\ nlen \in Nat /\ ops \in Nat /\ Size \in Nat /\ Size' = Size
      /\ MessageOK /\ AllOrNothing /\ OnItsWay
  BY DEF T4TInv, Size
<1>2. message \in Seq(Int) /\ 1 \in 1 .. ops + 1
  BY <1>1, MessageFacts DEF MessageOK
<1>3. ASSUME nlen' = 0 PROVE AllOrNothing'
  BY <1>2, <1>3, NothingFacts DEF AllOrNothing
<1>4. CASE ndef.state \notin Writing
  <2>1. mem' = mem /\ nlen' = nlen
    BY <1>1, <1>4 DEF OnItsWay, Executed
  <2>2. QED
    BY <1>1, <1>4, <2>1 DEF AllOrNothing, Confirmed, Writing
<1>5. CASE ndef.state \in Writing /\ cmd.at = 0 /\ cmd.data = SizeOf(0) /\ ndef.ptr = 0
           /\ ndef.state = "Writing_NDEF"
  <2>1. nlen' = 0 /\ mem' = mem
    BY <1>1, <1>5 DEF OnItsWay, Executed, SizeOf
  <2>2. Agrees(0)'
    BY NothingFacts DEF Agrees
  <2>3. QED
    BY <1>1, <1>3, <1>5, <2>1, <2>2 DEF Confirmed
<1>6. ASSUME NEW p \in Nat, NEW n \in Nat, Carries(p, n), ndef.state \in Writing
      PROVE  mem' \in Seq(Int) /\ nlen' = 0 /\ Agrees(p + n)'
  <2>1. cmd.at # 0 /\ cmd.at - 2 = p
    BY <1>6 DEF Carries
  <2>2. cmd.what = "write"
    BY <1>1, <1>6 DEF OnItsWay
  <2>3. mem' = Store(mem, p, Cells(message, p, n)) /\ nlen' = 0
    BY <1>6, <2>1, <2>2 DEF Carries, Executed
  <2>4. QED
    BY ZenonT(60), <1>1, <1>2, <1>6, <2>3, StoreAgrees DEF Carries, Agrees
<1>7. CASE /\ ndef.state = "Writing_NDEF"
           /\ ndef.ptr \in Nat /\ WriteSz <= ndef.ptr /\ ndef.ptr <= Size
           /\ Carries(ndef.ptr - WriteSz, WriteSz)
  <2>1. /\ WriteSz \in Nat /\ ndef.ptr - WriteSz \in Nat
        /\ (ndef.ptr - WriteSz) + WriteSz = ndef.ptr
    BY <1>7, RwAssumption
  <2>2. mem' \in Seq(Int) /\ nlen' = 0 /\ Agrees((ndef.ptr - WriteSz) + WriteSz)'
    BY <1>6, <1>7, <2>1 DEF Writing
  <2>3. QED
    BY <1>1, <1>3, <1>7, <2>1, <2>2 DEF Confirmed
<1>8. CASE ndef.state = "Writing_NDEFsize"
  <2>1. ndef.ptr \in Nat /\ Size - ndef.ptr \in Nat /\ ndef.ptr + (Size - ndef.ptr) = Size
    BY <1>1, <1>8 DEF OnItsWay
  <2>2. mem' \in Seq(Int) /\ nlen' = 0 /\ Agrees(ndef.ptr + (Size - ndef.ptr))'
    BY <1>1, <1>6, <1>8, <2>1 DEF OnItsWay, Writing
  <2>3. QED
    BY <1>1, <1>3, <1>8, <2>1, <2>2 DEF Confirmed
<1>9. CASE ndef.state = "Write_NDEFcomplete"
  <2>1. nlen' = 256 * SizeOf(Size)[1] + SizeOf(Size)[2] /\ mem' = mem
    BY <1>1, <1>9 DEF OnItsWay, Executed, Writing
  <2>2. nlen' = Size
    BY <1>1, <2>1, SizeFacts
  <2>3. PICK k \in 1 .. ops + 1 : message = Message(k, Size)
    BY <1>1 DEF MessageOK
  <2>4. Cells(mem, 0, Size) = Message(k, Size)
    BY <1>1, <1>9, <2>3, MessageFacts DEF OnItsWay, Agrees
  <2>5. Agrees(Size)'
    BY <1>1, <1>9, <2>1 DEF OnItsWay, Agrees
  <2>6. QED
    BY <1>1, <1>9, <2>1, <2>2, <2>4, <2>5 DEF AllOrNothing, Confirmed
<1>10. QED
  BY <1>1, <1>4, <1>5, <1>7, <1>8, <1>9 DEF OnItsWay, Writing

(* An answer, good or bad, after the command has been executed or not.       *)
LEMMA T4TTagKeeps ==
  ASSUME T4TInv, Tag, TagFails => ~rsp'.ok
  PROVE  T4TInv'
<1>1. /\ pc = "tag" /\ pc' = "engine" /\ type' = type /\ ndef' = ndef
      /\ message' = message /\ ops' = ops
  BY DEF Tag, TagAnswers, TagFails, hostVars
<1>2. \/ Executed
      \/ mem' = mem /\ nlen' = nlen /\ ~rsp'.ok
  <2>1. CASE TagAnswers
    BY <2>1 DEF TagAnswers, Useless
  <2>2. CASE TagFails
    BY <2>2 DEF TagFails
  <2>3. QED
    BY <2>1, <2>2 DEF Tag
<1>3. Size' = Size /\ (MessageOK' <=> MessageOK) /\ (Literal' <=> Literal)
  BY <1>1 DEF Size, MessageOK, Literal
<1>4. CASE Executed
  BY <1>1, <1>3, <1>4, ExecutedKeeps DEF T4TInv
<1>5. CASE mem' = mem /\ nlen' = nlen /\ ~rsp'.ok
  <2>1. AllOrNothing' <=> AllOrNothing
    BY <1>1, <1>5 DEF AllOrNothing
  <2>2. QED
    BY <1>1, <1>3, <1>5, <2>1 DEF T4TInv
<1>6. QED
  BY <1>2, <1>4, <1>5

-----------------------------------------------------------------------------
(* The engine *)

(* What every action of the engine leaves alone.                             *)
Calm ==
  /\ type' = type /\ message' = message /\ ops' = ops /\ mem' = mem /\ nlen' = nlen

(* A step of the engine that ends the operation, or sends a command that     *)
(* continues the write where the memory agrees.                              *)
LEMMA CalmKeeps ==
  ASSUME T4TInv, type = "T4T", Calm, Literal',
         pc' \in {"idle", "lost"} \/ (pc' = "tag" /\ OnItsWay')
  PROVE  T4TInv'
<1>1. Size' = Size /\ (MessageOK' <=> MessageOK) /\ (AllOrNothing' <=> AllOrNothing)
  BY DEF Calm, Size, MessageOK, AllOrNothing
<1>2. QED
  BY <1>1 DEF T4TInv, Calm

(* A command that writes nothing, and a state in which nothing is written.   *)
LEMMA SelectKeeps ==
  ASSUME T4TInv, type = "T4T", Calm, pc' = "tag",
         NEW s, ndef' = [ndef EXCEPT !.state = s], s \notin Writing,
         cmd'.what \notin {"write", "write_data"}
  PROVE  T4TInv'
<1>1. Literal' /\ ndef'.state = s
  BY DEF T4TInv, Literal
<1>2. OnItsWay'
  BY <1>1 DEF OnItsWay, Writing
<1>3. QED
  BY <1>1, <1>2, CalmKeeps

(* Every action of the engine, the writing ones by what they send.           *)
LEMMA T4TEngineKeeps ==
  ASSUME T4TInv, T4T
  PROVE  T4TInv'
<1>0. type = "T4T" /\ pc = "engine" /\ Calm /\ Literal
  BY DEF T4T, T4TInv, Calm, SelectApp20, App20Answered, App10Selected, CCSelected, CCRead,
         NdefSelected, SizeRead, ReadingNdef, ClearSize, WritingNdef, WritingSize,
         WriteComplete, In, tagVars
<1>1. ASSUME NEW o \in {"read", "write"},
             SelectApp20(o) \/ App20Answered(o) \/ App10Selected(o) \/ CCSelected(o) \/ CCRead(o)
      PROVE  T4TInv'
  <2>1. CASE SelectApp20(o)
    BY <1>0, <2>1, SelectKeeps DEF SelectApp20, Goto, Send, Cmd, Writing
  <2>2. CASE App20Answered(o) /\ rsp.ok
    BY <1>0, <2>2, SelectKeeps DEF App20Answered, Goto, Send, Cmd, Writing
  <2>3. CASE App20Answered(o) /\ ~rsp.ok
    <3>1. /\ ndef' = [ndef EXCEPT !.state = "Selecting_NDEF_Application10"]
          /\ pc' = "tag" /\ cmd' = Cmd("app10", 0, 0, <<>>)
      BY <2>3 DEF App20Answered, Goto, Send
    <3>2. cmd'.what \notin {"write", "write_data"}
      BY <3>1 DEF Cmd
    <3>3. QED
      BY <1>0, <3>1, <3>2, SelectKeeps DEF Writing
  <2>4. CASE App10Selected(o)
    BY <1>0, <2>4, SelectKeeps DEF App10Selected, Goto, Send, Cmd, Writing
  <2>5. CASE CCSelected(o)
    BY <1>0, <2>5, SelectKeeps DEF CCSelected, Goto, Send, Cmd, Writing
  <2>6. CASE CCRead(o)
    BY <1>0, <2>6, SelectKeeps DEF CCRead, Goto, Send, Cmd, Writing
  <2>7. QED
    BY <1>1, <2>1, <2>2, <2>3, <2>4, <2>5, <2>6
<1>2. CASE NdefSelected
  BY <1>0, <1>2, SelectKeeps DEF NdefSelected, Goto, Send, Cmd, Writing
<1>3. CASE SizeRead
  <2>1. CASE pc' = "idle" /\ \E n : ndef' = [ndef EXCEPT !.size = n]
    <3>1. Literal'
      BY <1>0, <2>1 DEF Literal
    <3>2. QED
      BY <1>0, <2>1, <3>1, CalmKeeps
  <2>2. CASE /\ \E n : ndef' = [ndef EXCEPT !.state = "Reading_NDEF", !.ptr = 0, !.size = n]
             /\ pc' = "tag" /\ cmd'.what = "read"
    <3>1. Literal' /\ ndef'.state = "Reading_NDEF"
      BY <1>0, <2>2 DEF Literal
    <3>2. OnItsWay'
      BY <2>2, <3>1 DEF OnItsWay, Writing
    <3>3. QED
      BY <1>0, <2>2, <3>1, <3>2, CalmKeeps
  <2> DEFINE n == FirstWord(rsp.data)
  <2>3. CASE n > MaxFile
    BY <1>3, <2>1, <2>3 DEF SizeRead, Refuse, Ends
  <2>4. CASE ~(n > MaxFile)
    <3>1. /\ ndef' = [ndef EXCEPT !.state = "Reading_NDEF", !.ptr = 0, !.size = n]
          /\ pc' = "tag" /\ cmd' = ReadBinary(n, 0)
      BY <1>3, <2>4 DEF SizeRead, Send
    <3>2. cmd'.what = "read"
      BY <3>1 DEF ReadBinary, Cmd
    <3>3. QED
      BY <2>2, <3>1, <3>2
  <2>5. QED
    BY <2>3, <2>4
<1>4. CASE ReadingNdef
  <2>1. \E q : ndef' = [ndef EXCEPT !.ptr = q]
    BY <1>4 DEF ReadingNdef
  <2>2. Literal' /\ ndef'.state = "Reading_NDEF"
    BY <1>0, <1>4, <2>1 DEF Literal, ReadingNdef, In
  <2>3. pc' \in {"idle", "lost"} \/ (pc' = "tag" /\ cmd'.what = "read")
    BY <1>4 DEF ReadingNdef, Deliver, Ends, Send, ReadBinary, Cmd
  <2>4. cmd'.what = "read" => OnItsWay'
    BY <2>2 DEF OnItsWay, Writing
  <2>5. QED
    BY <1>0, <2>2, <2>3, <2>4, CalmKeeps
<1>5. CASE ClearSize
  <2>1. /\ ndef' = [ndef EXCEPT !.state = "Writing_NDEF", !.blk = ndef.blk, !.ptr = 0]
        /\ pc' = "tag" /\ cmd' = Write(0, SizeOf(0))
    BY <1>5 DEF ClearSize, WriteNext, Send
  <2>2. Literal' /\ ndef'.state = "Writing_NDEF" /\ ndef'.ptr = 0
    BY <1>0, <2>1 DEF Literal
  <2>3. cmd'.what = "write" /\ cmd'.at = 0 /\ cmd'.data = SizeOf(0)
    BY <2>1 DEF Write, Cmd
  <2>4. OnItsWay'
    BY <2>2, <2>3 DEF OnItsWay, Writing
  <2>5. QED
    BY <1>0, <2>1, <2>2, <2>4, CalmKeeps
<1>6. CASE WritingNdef
  <2>0. /\ nlen = 0 /\ ndef.ptr \in Nat /\ ndef.ptr <= Size /\ Agrees(ndef.ptr)
        /\ Size \in Nat /\ Size' = Size
    BY <1>0, <1>6 DEF WritingNdef, In, T4TInv, Confirmed, Calm, Size
  <2>1. CASE WriteNext("Writing_NDEFsize", ndef.blk, ndef.ptr,
                       Write(ndef.ptr + 2, Chunk(Size - ndef.ptr)))
    <3>1. ndef' = [state |-> "Writing_NDEFsize", blk |-> ndef.blk, ptr |-> ndef.ptr,
                   size |-> ndef.size]
      BY <1>0, <2>1 DEF WriteNext, Literal
    <3>2. Literal' /\ ndef'.state = "Writing_NDEFsize" /\ ndef'.ptr = ndef.ptr
      BY <3>1 DEF Literal
    <3>3. /\ pc' = "tag" /\ cmd'.what = "write" /\ cmd'.at = ndef.ptr + 2
          /\ cmd'.data = Cells(message, ndef.ptr, Size - ndef.ptr)
      BY <2>1 DEF WriteNext, Send, Write, Cmd, Chunk
    <3>4. Carries(ndef.ptr, Size - ndef.ptr)'
      BY <1>0, <2>0, <3>2, <3>3 DEF Carries, Agrees, Calm
    <3>5. OnItsWay'
      BY <2>0, <3>2, <3>3, <3>4 DEF OnItsWay, Writing
    <3>6. QED
      BY <1>0, <3>2, <3>3, <3>5, CalmKeeps
  <2>2. CASE /\ ~(Size - ndef.ptr < WriteSz)
             /\ WriteNext("Writing_NDEF", ndef.blk, ndef.ptr + WriteSz,
                          Write(ndef.ptr + 2, Chunk(WriteSz)))
    <3>1. ndef' = [state |-> "Writing_NDEF", blk |-> ndef.blk, ptr |-> ndef.ptr + WriteSz,
                   size |-> ndef.size]
      BY <1>0, <2>2 DEF WriteNext, Literal
    <3>2. Literal' /\ ndef'.state = "Writing_NDEF" /\ ndef'.ptr = ndef.ptr + WriteSz
      BY <3>1 DEF Literal
    <3>3. /\ pc' = "tag" /\ cmd'.what = "write" /\ cmd'.at = ndef.ptr + 2
          /\ cmd'.data = Cells(message, ndef.ptr, WriteSz)
      BY <2>2 DEF WriteNext, Send, Write, Cmd, Chunk
    <3>4. /\ WriteSz \in Nat /\ (ndef.ptr + WriteSz) - WriteSz = ndef.ptr
          /\ ndef.ptr + WriteSz \in Nat /\ WriteSz <= ndef.ptr + WriteSz
          /\ ndef.ptr + WriteSz <= Size
      BY <2>0, <2>2, RwAssumption
    <3>5. Carries(ndef.ptr - WriteSz, WriteSz)'
      BY <1>0, <2>0, <3>2, <3>3, <3>4 DEF Carries, Agrees, Calm
    <3>6. OnItsWay'
      BY <2>0, <3>2, <3>3, <3>4, <3>5 DEF OnItsWay, Writing
    <3>7. QED
      BY <1>0, <3>2, <3>3, <3>6, CalmKeeps
  <2>3. QED
    BY <1>6, <2>1, <2>2 DEF WritingNdef
<1>7. CASE WritingSize
  <2>1. /\ ndef' = [state |-> "Write_NDEFcomplete", blk |-> ndef.blk, ptr |-> ndef.ptr,
                    size |-> ndef.size]
        /\ pc' = "tag" /\ cmd' = Write(0, SizeOf(Size))
    BY <1>0, <1>7 DEF WritingSize, WriteNext, Send, Literal
  <2>2. Literal' /\ ndef'.state = "Write_NDEFcomplete"
    BY <2>1 DEF Literal
  <2>3. cmd'.what = "write" /\ cmd'.at = 0 /\ cmd'.data = SizeOf(Size)
    BY <2>1 DEF Write, Cmd
  <2>4. Size' = Size /\ Agrees(Size)'
    BY <1>0, <1>7 DEF WritingSize, In, T4TInv, Confirmed, Calm, Agrees, Size
  <2>5. OnItsWay'
    BY <2>2, <2>3, <2>4 DEF OnItsWay, Writing
  <2>6. QED
    BY <1>0, <2>1, <2>2, <2>5, CalmKeeps
<1>8. CASE WriteComplete
  <2>1. pc' = "idle" /\ ndef' = ndef
    BY <1>8 DEF WriteComplete, Written, Pushed, Ends
  <2>2. QED
    BY <1>0, <2>1, CalmKeeps DEF Literal
<1>9. QED
  BY <1>1, <1>2, <1>3, <1>4, <1>5, <1>6, <1>7, <1>8 DEF T4T

-----------------------------------------------------------------------------
(* The file and the message agree so far at every moment, unless a packet    *)
(* has passed for an answer that it is not.                                  *)
LEMMA FileAlways == Spec => [](misled \/ T4TInv)
<1>1. ASSUME Init PROVE T4TInv
  <2>1. SUFFICES ASSUME type = "T4T" PROVE T4TInv
    BY DEF T4TInv
  <2>2. PICK l \in Layouts : mem = Message(1, l[1]) /\ nlen = l[1]
    BY <1>1, <2>1 DEF Init, Sized
  <2>3. l[1] \in Nat
    BY <2>2, RwAssumption
  <2>4. /\ ops = 0 /\ pc = "idle" /\ message = <<>>
        /\ ndef = [state |-> "Initial", blk |-> 0, ptr |-> 0, size |-> 0]
    BY <1>1 DEF Init
  <2>5. Size = 0 /\ MessageOK
    BY <2>4, NothingFacts DEF Size, MessageOK
  <2>6. AllOrNothing /\ mem \in Seq(Int)
    BY <2>2, <2>3, <2>4, MessageFacts DEF AllOrNothing
  <2>7. Literal
    BY <2>4 DEF Literal
  <2>8. QED
    BY <2>2, <2>3, <2>4, <2>5, <2>6, <2>7 DEF T4TInv
<1>2. ASSUME misled \/ T4TInv, [Next]_vars PROVE misled' \/ T4TInv'
  <2>0. SUFFICES ASSUME ~misled' PROVE T4TInv'
    OBVIOUS
  <2>1. T4TInv /\ (TagFails => ~rsp'.ok)
    BY <1>2, <2>0, MisledStays
  <2>2. CASE Begin
    BY <2>1, <2>2, T4TBeginKeeps
  <2>3. CASE Tag
    BY <2>1, <2>3, T4TTagKeeps
  <2>4. CASE T4T
    BY <2>1, <2>4, T4TEngineKeeps
  <2>5. CASE T1T \/ T2T \/ T3T \/ T5T \/ Mifare
    BY <2>5, EngineTypes DEF T4TInv
  <2>6. CASE GivesUp
    BY <2>1, <2>6, CalmKeeps DEF GivesUp, hostVars, tagVars, Calm, Literal, T4TInv
  <2>7. CASE UNCHANGED vars
    BY <2>1, <2>7 DEF vars, hostVars, tagVars, T4TInv, Literal, Size, MessageOK,
                      AllOrNothing, OnItsWay, Carries, Agrees, Confirmed
  <2>8. QED
    BY <1>2, <2>2, <2>3, <2>4, <2>5, <2>6, <2>7 DEF Next, Engine
<1>3. QED
  BY <1>1, <1>2, PTL DEF Spec

(* Whenever a write is cut off, even between two of its commands or with its *)
(* last command lost or executed, the T4T holds no message or one of those   *)
(* that were to be stored, complete; for every size of message and piece,    *)
(* unless an acknowledgement has passed for that of another piece.           *)
THEOREM AllOrNothingCorrect == Spec => []T4TAllOrNothing
<1>1. ASSUME misled \/ T4TInv PROVE T4TAllOrNothing
  BY <1>1 DEF T4TInv, AllOrNothing, T4TAllOrNothing
<1>2. QED
  BY <1>1, FileAlways, PTL

-----------------------------------------------------------------------------
(* What is read and what is in bounds.  From here on a place of the data     *)
(* area or of a message is looked at one by one: a cell.                     *)

(* Byte i of memory m, as far as it is not empty.                            *)
Cell(m, i) == IF i \in DOMAIN m THEN m[i] ELSE Pad

(* A cell of bytes is a number.                                              *)
LEMMA CellNat ==
  ASSUME NEW m \in Bytes, NEW i
  PROVE  Cell(m, i) \in Nat
  BY DEF Cell, Bytes, Pad

(* Cells are the cells from an offset on.                                    *)
LEMMA CellsFacts ==
  ASSUME NEW m \in Bytes, NEW p \in Int, NEW n \in Nat
  PROVE  /\ Cells(m, p, n) \in Bytes /\ Len(Cells(m, p, n)) = n
         /\ \A i \in 1 .. n : Cells(m, p, n)[i] = Cell(m, p + i)
  BY DEF Cells, Cell, Bytes, Pad

(* The cells from the beginning on.                                          *)
LEMMA CellsFront ==
  ASSUME NEW m \in Bytes, NEW n \in Nat
  PROVE  /\ Cells(m, 0, n) \in Bytes /\ Len(Cells(m, 0, n)) = n
         /\ \A i \in 1 .. n : Cells(m, 0, n)[i] = Cell(m, i)
  BY DEF Cells, Cell, Bytes, Pad

(* Storing replaces the cells that it names and no others.                   *)
LEMMA StoreCells ==
  ASSUME NEW m \in Bytes, NEW p \in Nat, NEW d \in Bytes
  PROVE  /\ Store(m, p, d) \in Bytes
         /\ \A i \in Nat \ {0} :
              Cell(Store(m, p, d), i) = IF i \in p + 1 .. p + Len(d) THEN d[i - p] ELSE Cell(m, i)
<1> DEFINE s == Store(m, p, d)
           n == IF p + Len(d) > Len(m) THEN p + Len(d) ELSE Len(m)
<1>1. /\ m \in Seq(Nat) /\ d \in Seq(Nat) /\ Len(m) \in Nat /\ Len(d) \in Nat /\ n \in Nat
      /\ DOMAIN d = 1 .. Len(d) /\ DOMAIN m = 1 .. Len(m)
  BY DEF Bytes
<1>2. s = [i \in 1 .. n |-> IF i - p \in DOMAIN d THEN d[i - p] ELSE Cell(m, i)]
  BY DEF Store, Cell
<1>3. s \in Bytes
  <2>1. ASSUME NEW i \in 1 .. n
        PROVE  (IF i - p \in DOMAIN d THEN d[i - p] ELSE Cell(m, i)) \in Nat
    BY <1>1, CellNat
  <2> HIDE DEF s, n
  <2> QED
    BY <1>1, <1>2, <2>1 DEF Bytes
<1>4. ASSUME NEW i \in Nat \ {0}
      PROVE  Cell(s, i) = IF i \in p + 1 .. p + Len(d) THEN d[i - p] ELSE Cell(m, i)
  <2>1. DOMAIN s = 1 .. n
    BY <1>2
  <2>2. i - p \in DOMAIN d <=> i \in p + 1 .. p + Len(d)
    BY <1>1
  <2>3. CASE i \in 1 .. n
    <3>1. Cell(s, i) = IF i - p \in DOMAIN d THEN d[i - p] ELSE Cell(m, i)
      <4> HIDE DEF n
      <4> QED
        BY <1>2, <2>1, <2>3 DEF Cell
    <3> QED
      BY <2>2, <3>1
  <2>4. CASE i \notin 1 .. n
    <3>1. i \notin DOMAIN m /\ i \notin p + 1 .. p + Len(d)
      BY <1>1, <2>4
    <3> QED
      BY <2>1, <2>4, <3>1 DEF Cell
  <2> QED
    BY <2>3, <2>4
<1> QED
  BY <1>3, <1>4

(* Every set of numbers but the empty one has a least element.               *)
LEMMA Least ==
  ASSUME NEW T \in SUBSET Nat, T # {}
  PROVE  \E m \in T : \A k \in T : m <= k
PROOF
<1> DEFINE R == OpToRel(<, Nat)
<1>1. IsWellFoundedOn(R, Nat)
  BY NatLessThanWellFounded
<1>2. \A x, y \in Nat : <<y, x>> \in R <=> y < x
  BY DEF OpToRel
<1> HIDE DEF R
<1>3. PICK m \in T : \A k \in T : ~(<<k, m>> \in R)
  BY <1>1, WFMin
<1>4. ASSUME NEW k \in T
      PROVE  m <= k
  <2>1. k \in Nat /\ m \in Nat
    OBVIOUS
  <2>2. ~(k < m)
    BY <1>2, <1>3, <2>1
  <2> QED
    BY <2>1, <2>2
<1> QED
  BY <1>4

(* The place behind the TLV in place i, and where the loop ends up.          *)
Skip(d, i) == i + 2 + (IF i < Len(d) THEN d[i + 1] ELSE 0)
Walk(f, d, i) == IF d[i] = NdefTlv THEN i ELSE IF Skip(d, i) > Len(d) THEN 0 ELSE f[Skip(d, i)]

(* The loop that looks for the TLV has a result for every answer.            *)
LEMMA WalkExists ==
  ASSUME NEW d \in Bytes
  PROVE  \E f : f = [i \in 1 .. Len(d) |-> Walk(f, d, i)]
<1> DEFINE n == Len(d)
           Upto(f, k) == /\ f = [i \in 1 .. n |-> f[i]]
                         /\ \A i \in 1 .. n : i > n - k => f[i] = Walk(f, d, i)
           T == {k \in 0 .. n : ~ \E f : Upto(f, k)}
<1>1. n \in Nat /\ \A i \in 1 .. n : Skip(d, i) \in Nat /\ Skip(d, i) > i
  BY DEF Bytes, Skip
<1>2. T = {}
  <2>1. SUFFICES ASSUME T # {} PROVE FALSE
    OBVIOUS
  <2>2. PICK m \in T : \A k \in T : m <= k
    <3>1. T \in SUBSET Nat
      BY <1>1
    <3> HIDE DEF T
    <3> QED
      BY <2>1, <3>1, Least
  <2>3. m \in 0 .. n /\ ~ \E f : Upto(f, m)
    BY <2>2
  <2>4. m # 0
    <3>1. Upto([i \in 1 .. n |-> 0], 0)
      BY <1>1
    <3> QED
      BY <2>3, <3>1
  <2>5. m - 1 \in 0 .. n /\ m - 1 \notin T
    <3> HIDE DEF T, n
    <3> QED
      BY <1>1, <2>2, <2>3, <2>4
  <2>6. PICK f : Upto(f, m - 1)
    BY <2>5
  <2> DEFINE j == n - m + 1
             g == [i \in 1 .. n |-> IF i = j THEN Walk(f, d, j) ELSE f[i]]
  <2>7. j \in 1 .. n
    <3> HIDE DEF n
    <3> QED
      BY <1>1, <2>3, <2>4
  <2>8. ASSUME NEW i \in 1 .. n, i > n - m PROVE g[i] = Walk(g, d, i)
    <3>1. i >= j /\ (i # j => i > n - (m - 1))
      BY <1>1, <2>3, <2>8
    <3>2. g[i] = Walk(f, d, i)
      BY <2>6, <3>1
    <3>3. CASE d[i] # NdefTlv /\ ~(Skip(d, i) > Len(d))
      <4>1. Skip(d, i) \in 1 .. n /\ Skip(d, i) # j
        <5> HIDE DEF j
        <5> QED
          BY <1>1, <2>7, <3>1, <3>3
      <4>2. g[Skip(d, i)] = f[Skip(d, i)]
        BY <4>1
      <4> HIDE DEF g
      <4> QED
        BY <3>2, <3>3, <4>2 DEF Walk
    <3>4. CASE d[i] = NdefTlv \/ Skip(d, i) > Len(d)
      <4> HIDE DEF g
      <4> QED
        BY <3>2, <3>4 DEF Walk
    <3> QED
      BY <3>3, <3>4
  <2>9. g = [i \in 1 .. n |-> g[i]]
    OBVIOUS
  <2>10. Upto(g, m)
    <3> HIDE DEF g, n
    <3> QED
      BY <2>8, <2>9
  <2> QED
    BY <2>3, <2>10
<1>3. PICK f : Upto(f, n)
  <2>1. n \in 0 .. n
    BY <1>1
  <2> QED
    BY <1>2, <2>1
<1>4. \A i \in 1 .. n : f[i] = Walk(f, d, i)
  BY <1>1, <1>3
<1>5. f = [i \in 1 .. n |-> Walk(f, d, i)]
  BY <1>3, <1>4
<1> QED
  BY <1>5

(* The place found is that of the first TLV, or of the one behind it.        *)
LEMMA FindFacts ==
  ASSUME NEW d \in Bytes, Len(d) > 1
  PROVE  /\ d[1] = NdefTlv => FindNdefTlv(d) = 1
         /\ d[1] # NdefTlv /\ d[2] + 3 > Len(d) => FindNdefTlv(d) = 0
         /\ d[1] # NdefTlv /\ d[2] + 3 <= Len(d) /\ d[d[2] + 3] = NdefTlv =>
              FindNdefTlv(d) = d[2] + 3
<1> DEFINE F(f) == f = [i \in 1 .. Len(d) |->
                     IF d[i] = NdefTlv THEN i
                     ELSE LET next == i + 2 + (IF i < Len(d) THEN d[i + 1] ELSE 0)
                          IN IF next > Len(d) THEN 0 ELSE f[next]]
           from == CHOOSE f : F(f)
<1>1. \E f : F(f)
  BY WalkExists DEF Walk, Skip
<1>2. F(from)
  <2> HIDE DEF F
  <2> QED
    BY <1>1
<1>3. FindNdefTlv(d) = from[1]
  BY DEF FindNdefTlv
<1> HIDE DEF from
<1>4. /\ Len(d) \in Nat /\ d[2] \in Nat /\ 1 \in 1 .. Len(d)
      /\ from[1] = IF d[1] = NdefTlv THEN 1
                   ELSE IF d[2] + 3 > Len(d) THEN 0 ELSE from[d[2] + 3]
  <2>1. Len(d) \in Nat /\ d[2] \in Nat /\ 1 \in 1 .. Len(d) /\ 1 < Len(d) /\ 1 + 1 = 2
    BY DEF Bytes
  <2>2. 1 + 2 + d[2] = d[2] + 3
    BY <2>1
  <2>3. from[1] = IF d[1] = NdefTlv THEN 1
                  ELSE IF 1 + 2 + d[1 + 1] > Len(d) THEN 0 ELSE from[1 + 2 + d[1 + 1]]
    BY <1>2, <2>1
  <2> QED
    BY <2>1, <2>2, <2>3
<1>5. ASSUME d[2] + 3 <= Len(d), d[d[2] + 3] = NdefTlv PROVE from[d[2] + 3] = d[2] + 3
  <2>1. d[2] + 3 \in 1 .. Len(d)
    BY <1>4, <1>5
  <2> QED
    BY <1>2, <1>5, <2>1
<1> QED
  BY <1>3, <1>4, <1>5

-----------------------------------------------------------------------------
(* The inductive invariant.  While a message is read, the cells behind what  *)
(* is in the buffer are the rest of the message, and the command on its way  *)
(* asks for the next of them (ReadFits, PartsFit).  While one is written,    *)
(* the cells of the tag are an image of it up to the pointer, once the       *)
(* command on its way has been executed (WriteFits).  And between the        *)
(* operations the tag has a header that leads to the message (Laid).         *)

(* An operation is under way.                                                *)
Busy == pc \in {"engine", "tag"} /\ ndef.state # "Initial"
InState(s) == op = "read" /\ ndef.state = s

(* A good answer is still what the tag would answer, unless it was to the    *)
(* data of a block, which has to be announced anew.                          *)
AnswerStands ==
  pc = "engine" /\ ndef.state # "Initial" /\ rsp.ok /\ cmd.what # "write_data" =>
    rsp.data = Answer /\ Answer # NoAnswer

(* The file that a T4T has selected when the answer of a state is there, and *)
(* when the command of the state is on its way.                              *)
OpenedBy(s) ==
  CASE s \in {"Selecting_NDEF_Application20", "Selecting_NDEF_Application10"} -> 0
    [] s \in {"Selecting_CC", "Reading_CC"} -> 1
    [] OTHER -> 2

Opens(s, what) ==
  CASE s = "Selecting_NDEF_Application20" -> what = "app20"
    [] s = "Selecting_NDEF_Application10" -> what = "app10"
    [] s = "Selecting_CC" -> what = "cc_file" /\ auth = 0
    [] s = "Reading_CC" -> what = "cc" /\ auth = 1
    [] s = "Selecting_NDEF" -> what = "ndef_file" /\ auth = 1
    [] OTHER -> what \in {"read", "write"} /\ auth = 2

OpenInv ==
  type = "T4T" /\ Busy =>
    /\ pc = "engine" /\ rsp.ok => auth = OpenedBy(ndef.state)
    /\ pc = "tag" => Opens(ndef.state, cmd.what)

(* The engine reads the message part by part.                                *)
InParts ==
  /\ op = "read"
  /\ \/ type \in {"T1T", "T2T", "T4T", "T5T"} /\ ndef.state = "Reading_NDEF"
     \/ type = "T3T" /\ ndef.state = "Reading_CardContent"
     \/ type = "MIFARE" /\ ndef.state = "Reading_Data"
     \/ type = "MIFARE" /\ ndef.state = "Authenticated" /\ ndef.blk # 4

(* The command on its way is the one the state expects an answer to.         *)
ReadFits ==
  /\ InParts /\ ndef.state # "Authenticated" =>
       cmd = IF type = "T4T" THEN ReadBinary(ndef.size, ndef.ptr) ELSE Read(ndef.blk)
  /\ type = "T1T" /\ InState("Reading_CardContent") => cmd.what = "rall"
  /\ type = "T2T" /\ InState("Reading_Data") => cmd = Read(4)
  /\ type = "T3T" /\ InState("Getting_AttributeInfo") => cmd.what = "attribute"
  /\ type = "T4T" /\ InState("Reading_NDEF_Size") => cmd = Cmd("read", 0, 2, <<>>)
  /\ type = "T5T" /\ InState("Reading_Data") => cmd = Read(1)
  /\ type = "MIFARE" /\ InState("Reading_FirstBlk") => cmd = Read(4)
  /\ pc = "tag" /\ op = "read" => cmd.what \notin {"write", "write_data"}

(* Where the next part of the message lies.                                  *)
Place ==
  IF type = "T4T" THEN ndef.ptr
  ELSE Offset(IF ndef.state = "Authenticated" THEN ndef.blk + 1 ELSE ndef.blk)

(* A message that the engine can read is on the tag.                         *)
Exact == whole /\ Readable(type, Len(content))

(* The parts read are those of the message, and the rest of it is where the  *)
(* engine goes on.                                                           *)
Progress ==
  /\ ndef.size = Len(content)
  /\ \A i \in 1 .. ndef.ptr : i <= ndef.size => buffer[i] = content[i]
  /\ \A i \in Nat \ {0} : ndef.ptr + i <= ndef.size =>
       Cell(mem, Place + i) = content[ndef.ptr + i]

(* How far the reading has come.                                             *)
PartsFit ==
  InParts =>
    /\ ndef.size <= MaxFile /\ ndef.ptr <= Len(buffer)
    /\ type # "T4T" => ndef.ptr <= ndef.size
    /\ type = "T4T" => ndef.size = nlen /\ (ndef.size = 0 \/ ndef.ptr < ndef.size)
    /\ Exact => Progress

(* The data area once the command on its way has been executed.              *)
MemAfter ==
  CASE cmd.what = "write" /\ type # "T4T" -> Store(mem, Offset(cmd.at), cmd.data)
    [] cmd.what = "write_data" -> Store(mem, Offset(sel), cmd.data)
    [] OTHER -> mem

(* What precedes the TLV that is written, and the length of its header.      *)
Front == IF type = "MIFARE" THEN 2 ELSE 0
HeaderLen(n) == IF n > 255 THEN 4 ELSE 2

(* Memory m begins with the header for message c and its first p bytes.      *)
Image(m, c, p) ==
  /\ type = "MIFARE" => Cell(m, 1) = 0 /\ Cell(m, 2) = 0
  /\ Cell(m, Front + 1) = NdefTlv
  /\ Len(c) <= 255 => Cell(m, Front + 2) = Len(c)
  /\ Len(c) > 255 => /\ Cell(m, Front + 2) = 255
                     /\ Cell(m, Front + 3) = Len(c) \div 256
                     /\ Cell(m, Front + 4) = Len(c) % 256
  /\ \A i \in 1 .. Len(c) : i <= p => Cell(m, Front + HeaderLen(Len(c)) + i) = c[i]

(* Some of the message that is written is on the tag.                        *)
Began ==
  /\ op = "write"
  /\ \/ type \in {"T2T", "T5T"} /\ ndef.state = "Writing_Data"
     \/ type = "MIFARE" /\ ndef.state \in {"Writing_Data1", "Writing_Data2"} /\ ndef.blk # 4

(* How far the writing has come, and where its commands go.                  *)
WriteFits ==
  /\ Began =>
       /\ pc = "tag" => Image(MemAfter, message, ndef.ptr)
       /\ pc = "engine" /\ rsp.ok => Image(mem, message, ndef.ptr)
       /\ Offset(ndef.blk) = Front + HeaderLen(Size) + ndef.ptr
       /\ type = "T5T" => Size <= 255
  /\ op = "write" /\ type = "MIFARE" /\ ndef.state = "Writing_Data1" /\ ndef.blk = 4 =>
       ndef.ptr = 0
  /\ op = "write" /\ type = "MIFARE" /\ ndef.state = "Writing_Data2" =>
       /\ pc = "tag" => cmd = Cmd("write_at", ndef.blk, 0, <<>>)
       /\ pc = "engine" /\ rsp.ok => sel = ndef.blk
  /\ pc = "tag" /\ cmd.what = "write" /\ type # "T4T" =>
       /\ op = "write" /\ type \in {"T2T", "T5T"} /\ ndef.state = "Writing_Data"
       /\ Len(cmd.data) = 4 /\ cmd.at = ndef.blk - 1
       /\ Offset(cmd.at) = 0 \/ ndef.ptr < Size + 4
  /\ pc = "tag" /\ cmd.what = "write_data" =>
       /\ op = "write" /\ type = "MIFARE" /\ ndef.state = "Writing_Data1" /\ ndef.blk # 4
       /\ sel = ndef.blk - 1

(* The header that a message of n bytes needs, when it is read.              *)
Long(n) == n > 254

(* Message c lies behind the header in place k.                              *)
Holds(m, k, c) ==
  /\ ~Long(Len(c)) => Cell(m, k + 2) = Len(c)
  /\ Long(Len(c)) => /\ Cell(m, k + 2) = 255
                     /\ Cell(m, k + 3) = Len(c) \div 256
                     /\ Cell(m, k + 4) = Len(c) % 256
  /\ \A i \in 1 .. Len(c) : Cell(m, k + (IF Long(Len(c)) THEN 4 ELSE 2) + i) = c[i]

(* The NDEF TLV begins behind k bytes, which are none or a TLV themselves.   *)
Headed(m, k) ==
  /\ k \in {0} \cup 2 .. 12 \cup 16 .. 88 /\ (type = "T5T" => k = 0)
  /\ Cell(m, k + 1) = NdefTlv
  /\ k # 0 => Cell(m, 1) # NdefTlv /\ Cell(m, 2) = k - 2

(* The tag has an NDEF TLV, and behind it the message if it is whole.        *)
Laid ==
  /\ type \notin Sized => \E k \in Nat : Headed(mem, k) /\ (Exact => Holds(mem, k, content))
  /\ type \in Sized /\ whole =>
       nlen = Len(content) /\ \A i \in 1 .. Len(content) : Cell(mem, i) = content[i]

(* What the application has been told.                                       *)
HeardFits ==
  /\ pc # "idle" => heard.kind = None
  /\ pc = "tag" => ndef.state # "Initial"
  /\ heard.kind = "message" /\ Exact => heard.data = content

DataCaps == cap \in Nat /\ (type \in {"T2T", "T5T"} => cap % 8 = 0)

(* All of it together.                                                       *)
TagInv ==
  /\ TypeOK /\ BufferHolds /\ DataCaps
  /\ AnswerStands /\ Laid /\ HeardFits
  /\ Busy => ReadFits /\ PartsFit /\ WriteFits

-----------------------------------------------------------------------------
(* What the steps of the engines have in common.                             *)
Ndefs == [state : States, blk : Nat, ptr : Nat, size : Nat]

EngineStep ==
  /\ pc = "engine"
  /\ UNCHANGED <<op, message, rsp, tagVars, ops, intact, fails, misled>>

Heards(h) == h.kind \in {None, "message", "refused", "pushed"} /\ h.data \in Bytes
Cmds(c) == c.what \in Commands /\ c.at \in Nat /\ c.n \in 0 .. 255 /\ c.data \in Bytes

(* The fields of the engine's structure.                                     *)
LEMMA NdefFacts ==
  /\ \A s \in States, b, p, n \in Nat :
       /\ [state |-> s, blk |-> b, ptr |-> p, size |-> n] \in Ndefs
  /\ \A x \in Ndefs :
       /\ x = [state |-> x.state, blk |-> x.blk, ptr |-> x.ptr, size |-> x.size]
       /\ x.state \in States /\ x.blk \in Nat /\ x.ptr \in Nat /\ x.size \in Nat
  BY DEF Ndefs

(* A step of an engine keeps the types if it keeps those it changes.         *)
LEMMA TypedStep ==
  ASSUME TypeOK, EngineStep, pc' \in {"idle", "tag", "lost"},
         ndef' \in Ndefs, buffer' \in Bytes, Heards(heard'), Cmds(cmd'),
         content' \in Bytes, whole' \in BOOLEAN
  PROVE  TypeOK'
  BY DEF TypeOK, EngineStep, tagVars, Heards, Cmds, Ndefs, Bytes

(* What the tag holds is not touched by the engine.                          *)
LEMMA LaidStep ==
  ASSUME Laid, EngineStep, UNCHANGED <<content, whole>>
  PROVE  Laid' /\ (Exact' <=> Exact)
<1>1. /\ type' = type /\ mem' = mem /\ nlen' = nlen /\ content' = content /\ whole' = whole
  BY DEF EngineStep, tagVars
<1> QED
  BY <1>1 DEF Laid, Exact, Headed, Holds

(* A step that ends the operation.                                           *)
LEMMA EndKeeps ==
  ASSUME TagInv, EngineStep, pc' \in {"idle", "lost"},
         ndef' \in Ndefs, buffer' \in Bytes, Len(buffer') <= MaxFile, cmd' = cmd,
         Heards(heard'), pc' = "lost" => heard' = heard /\ type = "T4T" /\ nlen = 0,
         heard'.kind = "message" /\ Exact' => heard'.data = content',
         content' \in Bytes, whole' \in BOOLEAN, Laid'
  PROVE  TagInv'
<1>1. TypeOK' /\ DataCaps'
  <2>1. Cmds(cmd')
    BY DEF TagInv, TypeOK, Cmds
  <2>2. TypeOK'
    BY <2>1, TypedStep DEF TagInv
  <2> QED
    BY <2>2 DEF TagInv, DataCaps, EngineStep, tagVars
<1>2. BufferHolds'
  BY DEF TagInv, BufferHolds, EngineStep, tagVars
<1>3. AnswerStands' /\ ~Busy'
  BY DEF AnswerStands, Busy
<1>4. HeardFits'
  BY DEF TagInv, HeardFits, EngineStep
<1> QED
  BY <1>1, <1>2, <1>3, <1>4 DEF TagInv

(* A step that sends a command.                                              *)
LEMMA CommandKeeps ==
  ASSUME TagInv, EngineStep, Send(cmd'), Cmds(cmd'),
         ndef' \in Ndefs, ndef'.state # "Initial",
         buffer' \in Bytes, Len(buffer') <= MaxFile,
         ReadFits', PartsFit', WriteFits'
  PROVE  TagInv'
<1>0. pc' = "tag" /\ heard' = heard /\ content' = content /\ whole' = whole
  BY DEF Send
<1>1. TypeOK' /\ DataCaps'
  <2>1. Heards(heard') /\ content' \in Bytes /\ whole' \in BOOLEAN
    BY <1>0 DEF TagInv, TypeOK, Heards
  <2>2. TypeOK'
    BY <1>0, <2>1, TypedStep DEF TagInv
  <2> QED
    BY <2>2 DEF TagInv, DataCaps, EngineStep, tagVars
<1>2. BufferHolds'
  BY <1>0 DEF TagInv, BufferHolds, EngineStep, tagVars
<1>3. AnswerStands' /\ Laid'
  BY <1>0, LaidStep DEF AnswerStands, TagInv
<1>4. HeardFits'
  BY <1>0 DEF TagInv, HeardFits, EngineStep, None
<1> QED
  BY <1>1, <1>2, <1>3, <1>4 DEF TagInv

Marked ==
  {"Initial", "Reading_NDEF", "Reading_CardContent", "Reading_Data", "Reading_FirstBlk",
   "Getting_AttributeInfo", "Reading_NDEF_Size", "Authenticated",
   "Writing_Data", "Writing_Data1", "Writing_Data2"}

-----------------------------------------------------------------------------
(* The first operation, and the beginning of each                            *)

(* What precedes the TLV of the message.                                     *)
LEMMA OtherFacts ==
  ASSUME NEW k \in {0} \cup 2 .. 12 \cup 16 .. 88
  PROVE  /\ Other(k) \in Bytes /\ Len(Other(k)) = k
         /\ k # 0 => Other(k)[1] = 1 /\ Other(k)[2] = k - 2
<1>1. CASE k = 0
  BY <1>1 DEF Other, Bytes
<1>2. CASE k # 0
  <2> DEFINE z == [i \in 1 .. k - 2 |-> Pad]
  <2>1. k - 2 \in Nat /\ z \in Seq(Nat) /\ Len(z) = k - 2
    BY <1>2 DEF Pad
  <2>2. Other(k) = <<1, k - 2>> \o z
    BY <1>2 DEF Other
  <2> HIDE DEF z
  <2> QED
    BY <1>2, <2>1, <2>2 DEF Bytes
<1> QED
  BY <1>1, <1>2

(* Two sequences joined.                                                     *)
LEMMA JoinFacts ==
  ASSUME NEW h \in Seq(Nat), NEW c \in Seq(Nat)
  PROVE  /\ h \o c \in Seq(Nat) /\ Len(h \o c) = Len(h) + Len(c)
         /\ \A i \in 1 .. Len(h) : (h \o c)[i] = h[i]
         /\ \A i \in 1 .. Len(c) : (h \o c)[Len(h) + i] = c[i]
  OBVIOUS

HeadOf(n) == IF n > 254 THEN 4 ELSE 2

(* The TLV of a message: its header and the message.                         *)
LEMMA TlvFacts ==
  ASSUME NEW c \in Bytes
  PROVE  /\ Tlv(c) \in Bytes /\ Len(Tlv(c)) = HeadOf(Len(c)) + Len(c)
         /\ Tlv(c)[1] = NdefTlv
         /\ Len(c) <= 254 => Tlv(c)[2] = Len(c)
         /\ Len(c) > 254 => /\ Tlv(c)[2] = 255 /\ Tlv(c)[3] = Len(c) \div 256
                            /\ Tlv(c)[4] = Len(c) % 256
         /\ \A i \in 1 .. Len(c) : Tlv(c)[HeadOf(Len(c)) + i] = c[i]
<1>1. c \in Seq(Nat) /\ Len(c) \in Nat
  BY DEF Bytes
<1>2. CASE Len(c) > 254
  <2> DEFINE h == <<NdefTlv, 255, Len(c) \div 256, Len(c) % 256>>
  <2>1. Len(c) \div 256 \in Nat /\ Len(c) % 256 \in Nat
    BY <1>1
  <2>2. h \in Seq(Nat) /\ Len(h) = 4 /\ h[1] = NdefTlv /\ h[2] = 255 /\ h[3] = Len(c) \div 256
        /\ h[4] = Len(c) % 256
    BY <2>1 DEF NdefTlv
  <2>3. Tlv(c) = h \o c /\ HeadOf(Len(c)) = 4
    BY <1>2 DEF Tlv, HeadOf
  <2> HIDE DEF h
  <2>4. /\ h \o c \in Seq(Nat) /\ Len(h \o c) = Len(h) + Len(c)
        /\ \A i \in 1 .. Len(h) : (h \o c)[i] = h[i]
        /\ \A i \in 1 .. Len(c) : (h \o c)[Len(h) + i] = c[i]
    <3>1. h \in Seq(Nat)
      BY <2>2
    <3> QED
      BY <1>1, <3>1, JoinFacts
  <2>5. 1 \in 1 .. 4 /\ 2 \in 1 .. 4 /\ 3 \in 1 .. 4 /\ 4 \in 1 .. 4
    OBVIOUS
  <2>6. /\ Len(Tlv(c)) = HeadOf(Len(c)) + Len(c)
        /\ \A i \in 1 .. Len(c) : Tlv(c)[HeadOf(Len(c)) + i] = c[i]
    BY <2>2, <2>3, <2>4, SMTT(30)
  <2>7. Tlv(c) \in Bytes /\ \A i \in 1 .. 4 : Tlv(c)[i] = h[i]
    BY <2>2, <2>3, <2>4 DEF Bytes
  <2> QED
    BY <1>1, <1>2, <2>2, <2>5, <2>6, <2>7
<1>3. CASE ~(Len(c) > 254)
  <2> DEFINE h == <<NdefTlv, Len(c)>>
  <2>2. h \in Seq(Nat) /\ Len(h) = 2 /\ h[1] = NdefTlv /\ h[2] = Len(c)
    BY <1>1 DEF NdefTlv
  <2>3. Tlv(c) = h \o c /\ HeadOf(Len(c)) = 2
    BY <1>3 DEF Tlv, HeadOf
  <2> HIDE DEF h
  <2>4. /\ h \o c \in Seq(Nat) /\ Len(h \o c) = Len(h) + Len(c)
        /\ \A i \in 1 .. Len(h) : (h \o c)[i] = h[i]
        /\ \A i \in 1 .. Len(c) : (h \o c)[Len(h) + i] = c[i]
    <3>1. h \in Seq(Nat)
      BY <2>2
    <3> QED
      BY <1>1, <3>1, JoinFacts
  <2>5. 1 \in 1 .. 2 /\ 2 \in 1 .. 2
    OBVIOUS
  <2>6. /\ Len(Tlv(c)) = HeadOf(Len(c)) + Len(c)
        /\ \A i \in 1 .. Len(c) : Tlv(c)[HeadOf(Len(c)) + i] = c[i]
    BY <2>2, <2>3, <2>4
  <2>7. Tlv(c) \in Bytes /\ \A i \in 1 .. 2 : Tlv(c)[i] = h[i]
    BY <2>2, <2>3, <2>4 DEF Bytes
  <2> QED
    BY <1>1, <1>3, <2>2, <2>5, <2>6, <2>7
<1> QED
  BY <1>2, <1>3

(* What is on the tag at first.                                              *)
LEMMA FirstLaid ==
  ASSUME NEW k \in {0} \cup 2 .. 12 \cup 16 .. 88, NEW c \in Bytes, type = "T5T" => k = 0
  PROVE  /\ Other(k) \o Tlv(c) \in Bytes
         /\ Headed(Other(k) \o Tlv(c), k) /\ Holds(Other(k) \o Tlv(c), k, c)
<1> DEFINE o == Other(k)
           t == Tlv(c)
           m == o \o t
<1>1. /\ o \in Seq(Nat) /\ t \in Seq(Nat) /\ Len(o) = k /\ k \in Nat /\ Len(t) \in Nat
      /\ Len(c) \in Nat /\ Len(t) = HeadOf(Len(c)) + Len(c) /\ HeadOf(Len(c)) \in {2, 4}
      /\ c \in Seq(Nat)
  <2>1. HeadOf(Len(c)) \in {2, 4} /\ k \in Nat
    BY DEF HeadOf
  <2>2. c \in Seq(Nat) /\ Len(c) \in Nat
    BY DEF Bytes
  <2>3. o \in Seq(Nat) /\ Len(o) = k
    BY OtherFacts DEF Bytes
  <2>4. t \in Seq(Nat) /\ Len(t) = HeadOf(Len(c)) + Len(c)
    BY TlvFacts DEF Bytes
  <2> HIDE DEF o, t
  <2> QED
    BY <2>1, <2>2, <2>3, <2>4
<1>2. /\ m \in Bytes
      /\ \A i \in 1 .. Len(t) : Cell(m, k + i) = t[i]
      /\ k # 0 => Cell(m, 1) = o[1] /\ Cell(m, 2) = o[2]
  <2> HIDE DEF o, t
  <2>1. m \in Seq(Nat) /\ DOMAIN m = 1 .. k + Len(t)
    BY <1>1
  <2>j. o \in Seq(Nat) /\ t \in Seq(Nat) /\ Len(o) = k
    BY <1>1
  <2>2. ASSUME NEW i \in 1 .. Len(t) PROVE Cell(m, k + i) = t[i]
    <3>1. m[k + i] = t[i]
      BY <2>j, JoinFacts
    <3>2. k + i \in DOMAIN m
      <4> HIDE DEF m
      <4> QED
        BY <1>1, <2>1
    <3> HIDE DEF m
    <3> QED
      BY <3>1, <3>2 DEF Cell
  <2>3. ASSUME k # 0 PROVE Cell(m, 1) = o[1] /\ Cell(m, 2) = o[2]
    <3>1. 1 \in 1 .. k /\ 2 \in 1 .. k
      BY <2>3
    <3> QED
      BY <1>1, <2>1, <3>1 DEF Cell
  <2> QED
    BY <2>1, <2>2, <2>3 DEF Bytes
<1>3. Headed(m, k)
  <2>1. Cell(m, k + 1) = NdefTlv
    <3>1. 1 \in 1 .. Len(t)
      BY <1>1
    <3>2. Cell(m, k + 1) = t[1]
      BY <1>2, <3>1
    <3> QED
      BY <3>2, TlvFacts
  <2>2. k # 0 => Cell(m, 1) = 1 /\ Cell(m, 2) = k - 2
    BY <1>2, OtherFacts
  <2> HIDE DEF m
  <2> QED
    BY <2>1, <2>2 DEF Headed, NdefTlv
<1>4. Holds(m, k, c)
  <2>1. Len(c) > 254 => /\ Cell(m, k + 2) = 255 /\ Cell(m, k + 3) = Len(c) \div 256
                        /\ Cell(m, k + 4) = Len(c) % 256
    <3>1. SUFFICES ASSUME Len(c) > 254
                   PROVE  /\ Cell(m, k + 2) = t[2] /\ Cell(m, k + 3) = t[3] /\ Cell(m, k + 4) = t[4]
      BY TlvFacts
    <3>2. 2 \in 1 .. Len(t) /\ 3 \in 1 .. Len(t) /\ 4 \in 1 .. Len(t)
      BY <1>1, <3>1, SMTT(30)
    <3> QED
      BY <1>2, <3>2
  <2>2. ~(Len(c) > 254) => Cell(m, k + 2) = Len(c)
    <3>1. 2 \in 1 .. Len(t)
      BY <1>1
    <3>2. Cell(m, k + 2) = t[2]
      BY <1>2, <3>1
    <3>3. ~(Len(c) > 254) => t[2] = Len(c)
      <4>1. Len(c) <= 254 => t[2] = Len(c)
        BY TlvFacts
      <4> HIDE DEF t
      <4> QED
        BY <1>1, <4>1
    <3> QED
      BY <3>2, <3>3
  <2>3. ASSUME NEW i \in 1 .. Len(c) PROVE Cell(m, k + HeadOf(Len(c)) + i) = c[i]
    <3>1. /\ HeadOf(Len(c)) + i \in 1 .. Len(t)
          /\ k + HeadOf(Len(c)) + i = k + (HeadOf(Len(c)) + i)
      <4>1. \A x \in {2, 4}, n \in Nat : \A j \in 1 .. n :
              x + j \in 1 .. x + n /\ k + x + j = k + (x + j)
        BY <1>1
      <4> HIDE DEF o, t
      <4> QED
        BY <1>1, <4>1
    <3>2. Cell(m, k + (HeadOf(Len(c)) + i)) = t[HeadOf(Len(c)) + i]
      BY <1>2, <3>1
    <3> QED
      BY <3>1, <3>2, TlvFacts
  <2> HIDE DEF m
  <2> QED
    BY <2>1, <2>2, <2>3 DEF Holds, Long, HeadOf
<1> QED
  BY <1>2, <1>3, <1>4

(* A message has the length asked for.                                       *)
LEMMA MessageNat ==
  ASSUME NEW k \in Nat, NEW n \in Nat
  PROVE  Message(k, n) \in Bytes /\ Len(Message(k, n)) = n
  BY DEF Message, Bytes

(* At first the message lies on the tag.                                     *)
LEMMA InitTag ==
  ASSUME Init
  PROVE  TagInv
<1>1. PICK l \in Layouts :
        /\ content = Message(1, l[1])
        /\ mem = IF type \in Sized THEN content ELSE Other(l[2]) \o Tlv(content)
        /\ nlen = IF type \in Sized THEN l[1] ELSE 0
        /\ cap \in Caps
        /\ type \in Sized \cup {"T5T"} => l[2] = 0
        /\ type \in {"T2T", "T5T"} => cap % 8 = 0
  BY DEF Init
<1>2. l[1] \in Nat /\ l[2] \in {0} \cup 2 .. 12 \cup 16 .. 88 /\ cap \in Nat /\ l[2] \in Nat
  <2>1. l \in Nat \X ({0} \cup 2 .. 12 \cup 16 .. 88)
    BY RwAssumption
  <2>2. l[1] \in Nat /\ l[2] \in {0} \cup 2 .. 12 \cup 16 .. 88
    BY <2>1
  <2>3. cap \in Nat
    BY <1>1, RwAssumption, Zenon
  <2>4. l[2] \in Nat
    BY <2>2
  <2> QED
    BY <2>2, <2>3, <2>4
<1>3. content \in Bytes /\ Len(content) = l[1]
  BY <1>1, <1>2, MessageNat
<1>4. mem \in Bytes /\ nlen \in Nat /\ Laid
  <2>1. CASE type \in Sized
    <3>1. \A i \in 1 .. Len(content) : Cell(mem, i) = content[i]
      BY <1>1, <1>3, <2>1 DEF Cell, Bytes
    <3> QED
      BY <1>1, <1>2, <1>3, <2>1, <3>1 DEF Laid
  <2>2. CASE type \notin Sized
    <3>1. mem \in Bytes /\ Headed(mem, l[2]) /\ Holds(mem, l[2], content)
      BY <1>1, <1>2, <1>3, <2>2, FirstLaid
    <3> QED
      BY <1>1, <1>2, <2>2, <3>1 DEF Laid
  <2> QED
    BY <2>1, <2>2
<1>5. /\ pc = "idle" /\ op = "read"
      /\ ndef = [state |-> "Initial", blk |-> 0, ptr |-> 0, size |-> 0]
      /\ buffer = <<>> /\ message = <<>> /\ heard = [kind |-> None, data |-> <<>>]
      /\ cmd = Cmd(None, 0, 0, <<>>) /\ rsp = [ok |-> FALSE, what |-> None, data |-> <<>>]
      /\ sel = 0 /\ auth = 0 - 1 /\ ops = 0 /\ intact = TRUE /\ whole = TRUE
      /\ fails = 0 /\ misled = FALSE /\ type \in Types /\ v1 \in BOOLEAN
  BY DEF Init, Useless
<1>6. MaxFile \in Nat /\ MaxOps \in Nat /\ MaxFails \in Nat
  BY RwAssumption
<1>7. TypeOK
  <2>1. ndef \in Ndefs
    BY <1>5, NdefFacts DEF States
  <2>2. cmd.what \in Commands /\ cmd.at \in Nat /\ cmd.n \in 0 .. 255 /\ cmd.data \in Bytes
    <3>1. cmd = [what |-> "none", at |-> 0, n |-> 0, data |-> <<>>]
      BY <1>5 DEF Cmd, None
    <3>2. <<>> \in Bytes /\ 0 \in 0 .. 255
      BY DEF Bytes
    <3>3. "none" \in Commands
      BY DEF Commands, None
    <3> QED
      BY <3>1, <3>2, <3>3
  <2>3. heard.kind \in {None, "message", "refused", "pushed"} /\ heard.data \in Bytes
    BY <1>5 DEF None, Bytes
  <2>4. buffer \in Bytes /\ message \in Bytes /\ Len(message) <= MaxFile /\ Len(buffer) <= MaxFile
    BY <1>5, <1>6 DEF Bytes
  <2>5. rsp.ok \in BOOLEAN /\ rsp.what \in Packets /\ rsp.data \in Seq(Int)
    BY <1>5 DEF Packets, Commands
  <2>6. sel \in Nat /\ auth \in Int /\ ops \in 0 .. MaxOps /\ fails \in 0 .. MaxFails
    BY <1>5, <1>6
  <2> QED
    BY <1>1, <1>3, <1>4, <1>5, <2>1, <2>2, <2>3, <2>4, <2>5, <2>6 DEF TypeOK, Ndefs
<1>8. DataCaps /\ BufferHolds
  BY <1>1, <1>2, <1>5, <1>6 DEF DataCaps, BufferHolds
<1>9. AnswerStands /\ HeardFits /\ ~Busy
  BY <1>5 DEF AnswerStands, HeardFits, Busy, None
<1> QED
  BY <1>4, <1>7, <1>8, <1>9 DEF TagInv

(* A new operation starts from what the tag holds.                           *)
LEMMA BeginTag ==
  ASSUME TagInv, Begin
  PROVE  TagInv'
<1>1. /\ Reset /\ op' \in {"read", "write"}
      /\ \/ message' = message
         \/ message' = <<>>
         \/ \E n \in Lengths : message' = Message(ops + 2, n) /\ Len(Message(ops + 2, n)) <= MaxFile
      /\ rsp' = [ok |-> FALSE, what |-> None, data |-> <<>>]
         \/ rsp' = [ok |-> FALSE, what |-> "stack", data |-> <<>>]
  BY DEF Begin, BeginRead, BeginWrite, SetMessage, Useless, Stack
<1>2. /\ pc' = "engine" /\ ops' = ops + 1 /\ ops < MaxOps
      /\ ndef' = [ndef EXCEPT !.state = "Initial"]
      /\ heard' = [kind |-> None, data |-> <<>>] /\ intact' = TRUE
      /\ sel' = 0 /\ auth' = 0 - 1
      /\ UNCHANGED <<buffer, cmd, type, v1, cap, mem, nlen, content, whole, fails, misled>>
  BY <1>1 DEF Reset
<1>3. ndef' \in Ndefs /\ ndef'.state = "Initial"
  <2>1. ndef \in Ndefs
    BY DEF TagInv, TypeOK, Ndefs
  <2>2. ndef' = [state |-> "Initial", blk |-> ndef.blk, ptr |-> ndef.ptr, size |-> ndef.size]
    BY <1>2, <2>1, NdefFacts
  <2> QED
    BY <2>1, <2>2, NdefFacts DEF States
<1>4. message' \in Bytes /\ Len(message') <= MaxFile
  <2>1. ASSUME NEW n \in Lengths, message' = Message(ops + 2, n),
               Len(Message(ops + 2, n)) <= MaxFile
        PROVE  message' \in Bytes /\ Len(message') <= MaxFile
    <3>1. n \in Nat /\ ops + 2 \in Nat
      BY RwAssumption DEF TagInv, TypeOK
    <3> QED
      BY <2>1, <3>1, MessageNat
  <2>2. ASSUME message' = <<>> PROVE message' \in Bytes /\ Len(message') <= MaxFile
    BY <2>2, RwAssumption DEF Bytes
  <2> QED
    BY <1>1, <2>1, <2>2 DEF TagInv, TypeOK
<1>5. TypeOK'
  <2>1. heard'.kind \in {None, "message", "refused", "pushed"} /\ heard'.data \in Bytes
    BY <1>2 DEF Bytes
  <2>2. ops' \in 0 .. MaxOps
    <3>1. ops \in 0 .. MaxOps
      BY DEF TagInv, TypeOK
    <3>2. MaxOps \in Nat
      BY RwAssumption
    <3> QED
      BY <1>2, <3>1, <3>2
  <2>3. rsp'.ok \in BOOLEAN /\ rsp'.what \in Packets /\ rsp'.data \in Seq(Int)
    <3>1. None \in Packets /\ "stack" \in Packets /\ <<>> \in Seq(Int)
      BY DEF Packets, Commands, None
    <3>2. rsp'.ok = FALSE /\ rsp'.what \in {None, "stack"} /\ rsp'.data = <<>>
      BY <1>1
    <3> QED
      BY <3>1, <3>2
  <2> QED
    BY <1>1, <1>2, <1>3, <1>4, <2>1, <2>2, <2>3 DEF TagInv, TypeOK, Ndefs
<1>6. DataCaps' /\ BufferHolds' /\ Laid'
  BY <1>2 DEF TagInv, DataCaps, BufferHolds, Laid, Exact, Headed, Holds
<1>7. AnswerStands' /\ HeardFits' /\ ~Busy'
  BY <1>2, <1>3 DEF AnswerStands, HeardFits, Busy, None
<1> QED
  BY <1>5, <1>6, <1>7 DEF TagInv

-----------------------------------------------------------------------------
(* The tag                                                                   *)

(* A good answer consists of numbers.                                        *)
LEMMA AnswerType ==
  ASSUME TypeOK, DataCaps
  PROVE  Answer \in Seq(Int)
<1>1. mem \in Bytes /\ cap \in Nat /\ nlen \in Nat /\ cmd.at \in Nat /\ cmd.n \in 0 .. 255
  BY DEF TypeOK, DataCaps
<1>2. NoAnswer \in Seq(Int) /\ <<>> \in Seq(Int) /\ <<nlen>> \in Seq(Int) /\ <<cap>> \in Seq(Int)
  BY <1>1 DEF NoAnswer
<1>3. \A n \in Nat : Cells(mem, 0, n) \in Seq(Int) /\ [i \in 1 .. n |-> Pad] \in Seq(Int)
  BY <1>1 DEF Cells, Bytes, Pad
<1>4. CCFile \in Seq(Int) /\ NdefFile \in Seq(Int)
  <2>1. nlen \div 256 \in Int /\ nlen % 256 \in Int /\ 15 \in Int
    BY <1>1
  <2>2. <<0, 15>> \in Seq(Int) /\ <<nlen \div 256, nlen % 256>> \in Seq(Int)
    BY <2>1
  <2>3. Cells(mem, 0, cap) \in Seq(Int) /\ [i \in 1 .. 13 |-> Pad] \in Seq(Int)
    BY <1>1, <1>3
  <2> QED
    BY <2>2, <2>3 DEF CCFile, NdefFile
<1>5. T4TRead \in Seq(Int)
  <2> DEFINE file == IF auth = 1 THEN CCFile ELSE NdefFile
  <2>1. file \in Seq(Int)
    BY <1>4
  <2>2. \A a, b \in Int : a >= 1 /\ b <= Len(file) => SubSeq(file, a, b) \in Seq(Int)
    <3> HIDE DEF file
    <3> QED
      BY <2>1
  <2> HIDE DEF file
  <2>3. Len(file) \in Nat
    BY <2>1
  <2> DEFINE last == cmd.at + (IF cmd.n = 0 THEN 256 ELSE cmd.n)
  <2>4. last \in Nat /\ cmd.at + 1 >= 1
    BY <1>1
  <2> HIDE DEF last
  <2>5. SubSeq(file, cmd.at + 1, IF last > Len(file) THEN Len(file) ELSE last) \in Seq(Int)
    BY <1>1, <2>2, <2>3, <2>4
  <2>6. T4TRead = IF cmd.at >= Len(file) THEN NoAnswer
                  ELSE SubSeq(file, cmd.at + 1, IF last > Len(file) THEN Len(file) ELSE last)
    BY DEF T4TRead, file, last
  <2> QED
    BY <1>2, <2>5, <2>6
<1>6. T4TAnswer \in Seq(Int)
  BY <1>2, <1>4, <1>5 DEF T4TAnswer
<1>7. Cells(mem, Offset(cmd.at), Width) \in Seq(Int)
  <2>1. Width \in Nat
    BY DEF Width
  <2>2. \A w \in Nat : Cells(mem, Offset(cmd.at), w) \in Seq(Int)
    BY <1>1 DEF Cells, Bytes, Pad
  <2> QED
    BY <2>1, <2>2
<1>8. /\ Cells(mem, 0, 92) \o [i \in 1 .. 16 |-> Pad] \in Seq(Int)
      /\ <<nlen>> \o [i \in 1 .. 15 |-> Pad] \in Seq(Int)
  <2>1. Cells(mem, 0, 92) \in Seq(Int)
    BY <1>3
  <2>2. [i \in 1 .. 16 |-> Pad] \in Seq(Int) /\ [i \in 1 .. 15 |-> Pad] \in Seq(Int)
    BY DEF Pad
  <2> QED
    BY <1>2, <2>1, <2>2
<1> QED
  BY <1>2, <1>6, <1>7, <1>8 DEF Answer

(* A command that has been answered would be answered in the same way again. *)
LEMMA AnswerSame ==
  ASSUME UNCHANGED <<cmd, type, v1, cap>>, cmd.what # "write_data",
         cmd.what \in {"read", "rall", "attribute"} => mem' = mem /\ nlen' = nlen,
         \/ auth' = auth
         \/ cmd.what = "auth"
         \/ type = "T4T" /\ cmd.what \in {"app20", "app10", "cc_file", "ndef_file"} /\ auth' >= 0,
         Answer # NoAnswer
  PROVE  Answer' = Answer
<1>1. CASE cmd.what = "read"
  <2>1. mem' = mem /\ nlen' = nlen /\ auth' = auth
    BY <1>1
  <2>2. NdefFile' = NdefFile /\ CCFile' = CCFile
    BY <2>1 DEF NdefFile, CCFile, Cells
  <2>3. T4TRead' = T4TRead
    BY <2>1, <2>2 DEF T4TRead, NoAnswer
  <2>4. T4TAnswer' = T4TAnswer
    BY <1>1, <2>1, <2>3 DEF T4TAnswer, NoAnswer
  <2> QED
    BY <1>1, <2>1, <2>4 DEF Answer, Refused, Offset, Width, NoAnswer, Cells
<1>2. CASE cmd.what \in {"write", "write_at"}
  BY <1>2 DEF Answer, T4TAnswer, Refused, Offset, NoAnswer
<1>3. CASE cmd.what \notin {"read", "write", "write_at"}
  <2>1. CASE type = "T4T"
    BY <1>3, <2>1 DEF Answer, T4TAnswer, NoAnswer, CCFile
  <2>2. CASE type # "T4T"
    BY <1>3, <2>2 DEF Answer, NoAnswer, Cells
  <2> QED
    BY <2>1, <2>2
<1> QED
  BY <1>1, <1>2, <1>3

(* What a command does to the tag.                                           *)
LEMMA Effect ==
  ASSUME TagInv, MifareInv, T4TInv, pc = "tag", Executed, type' = type, cmd' = cmd
  PROVE  /\ mem' \in Bytes /\ nlen' \in Nat /\ auth' \in Int /\ sel' \in Nat
         /\ type # "T4T" => mem' = MemAfter /\ nlen' = nlen
         /\ whole' \in BOOLEAN
         /\ IF cmd.what \in {"write", "write_data"} THEN whole' = FALSE
            ELSE mem' = mem /\ nlen' = nlen /\ whole' = whole
         /\ \/ auth' = auth
            \/ cmd.what = "auth"
            \/ /\ type = "T4T" /\ cmd.what \in {"app20", "app10", "cc_file", "ndef_file"}
               /\ auth' >= 0
         /\ sel' = IF cmd.what = "write_at" THEN cmd.at ELSE 0
<1>1. WriteFits
  BY DEF TagInv, HeardFits, Busy
<1>2. /\ mem \in Bytes /\ nlen \in Nat /\ auth \in Int /\ sel \in Nat /\ whole \in BOOLEAN
      /\ cmd.at \in Nat /\ cmd.data \in Bytes /\ ndef.blk \in Nat /\ ndef.ptr \in Nat
      /\ message \in Bytes
  BY DEF TagInv, TypeOK
<1>3. auth' \in Int /\ sel' \in Nat /\ whole' \in BOOLEAN
  <2>1. /\ auth' = IF cmd.what = "auth" THEN cmd.at
                   ELSE IF type = "T4T" /\ cmd.what \in DOMAIN SelectedBy
                   THEN SelectedBy[cmd.what] ELSE auth
        /\ sel' = IF cmd.what = "write_at" THEN cmd.at ELSE 0
        /\ whole' = IF cmd.what \in {"write", "write_data"} THEN FALSE ELSE whole
    BY DEF Executed
  <2>2. auth' \in Int /\ sel' \in Nat
    BY <1>2, <2>1 DEF SelectedBy
  <2>3. whole' \in BOOLEAN
    BY <1>2, <2>1, Zenon
  <2> QED
    BY <2>2, <2>3
<1>4. ASSUME type # "T4T" PROVE mem' = MemAfter /\ nlen' = nlen
  BY <1>4 DEF Executed, MemAfter
<1>5. ASSUME cmd.what = "write_data", type # "T4T" PROVE mem' \in Bytes
  <2>1. type = "MIFARE" /\ sel = ndef.blk - 1 /\ ndef.blk # 4 /\ ndef.state = "Writing_Data1"
    BY <1>1, <1>5 DEF WriteFits
  <2>2. ndef.blk >= 4
    BY <2>1 DEF MifareInv, PlaceOK
  <2>3. sel >= 4 /\ Offset(sel) = 16 * (3 * (sel \div 4 - 1) + (sel % 4))
    BY <1>2, <2>1, <2>2 DEF Offset
  <2>4. Offset(sel) \in Nat
    BY <1>2, <2>3
  <2> QED
    BY <1>2, <1>4, <1>5, <2>4, StoreCells DEF MemAfter
<1>6. ASSUME cmd.what = "write", type # "T4T" PROVE mem' \in Bytes
  <2>1. /\ type \in {"T2T", "T5T"} /\ Began /\ cmd.at = ndef.blk - 1
        /\ Offset(ndef.blk) = Front + HeaderLen(Size) + ndef.ptr
    BY <1>1, <1>6 DEF WriteFits, Began
  <2>2. Front + HeaderLen(Size) > 0 /\ Front + HeaderLen(Size) \in Nat
    BY DEF Front, HeaderLen
  <2>3. Offset(cmd.at) \in Nat
    BY <1>2, <2>1, <2>2 DEF Offset
  <2> QED
    BY <1>2, <1>4, <1>6, <2>3, StoreCells DEF MemAfter
<1>7. ASSUME cmd.what = "write", type = "T4T" PROVE mem' \in Bytes /\ nlen' \in Nat
  <2>1. OnItsWay /\ ndef.state \in Writing /\ Size \in Nat
    BY <1>7 DEF T4TInv, OnItsWay
  <2>2. \/ cmd.at = 0 /\ \E n \in Nat : cmd.data = SizeOf(n)
        \/ cmd.at # 0 /\ cmd.at - 2 \in Nat
    <3>1. \A p, n : p \in Nat /\ Carries(p, n) => cmd.at # 0 /\ cmd.at - 2 \in Nat
      BY DEF Carries
    <3>2. WriteSz \in Nat
      BY RwAssumption
    <3>3. CASE ndef.state = "Writing_NDEF"
      <4>1. CASE cmd.at = 0 /\ cmd.data = SizeOf(0)
        BY <4>1
      <4>2. CASE ndef.ptr \in Nat /\ WriteSz <= ndef.ptr /\ Carries(ndef.ptr - WriteSz, WriteSz)
        <5>1. ndef.ptr - WriteSz \in Nat
          BY <3>2, <4>2
        <5> QED
          BY <3>1, <4>2, <5>1
      <4> QED
        BY <2>1, <3>3, <4>1, <4>2 DEF OnItsWay
    <3>4. CASE ndef.state = "Writing_NDEFsize"
      BY <2>1, <3>1, <3>4 DEF OnItsWay
    <3>5. CASE ndef.state = "Write_NDEFcomplete"
      BY <2>1, <3>5 DEF OnItsWay
    <3> QED
      BY <2>1, <3>3, <3>4, <3>5 DEF Writing
  <2>3. CASE cmd.at = 0 /\ \E n \in Nat : cmd.data = SizeOf(n)
    <3>1. PICK n \in Nat : cmd.data = SizeOf(n)
      BY <2>3
    <3>2. mem' = mem /\ nlen' = 256 * SizeOf(n)[1] + SizeOf(n)[2]
      BY <1>7, <2>3, <3>1 DEF Executed
    <3> QED
      BY <1>2, <3>2, SizeFacts
  <2>4. CASE cmd.at # 0 /\ cmd.at - 2 \in Nat
    <3>1. mem' = Store(mem, cmd.at - 2, cmd.data) /\ nlen' = nlen
      BY <1>7, <2>4 DEF Executed
    <3> QED
      BY <1>2, <2>4, <3>1, StoreCells
  <2> QED
    BY <2>2, <2>3, <2>4
<1>8. type = "T4T" => cmd.what # "write_data"
  BY DEF T4TInv, OnItsWay
<1>9. ASSUME cmd.what \notin {"write", "write_data"}
      PROVE  mem' = mem /\ nlen' = nlen /\ whole' = whole
  BY <1>9 DEF Executed
<1>10. /\ cmd.what \in {"write", "write_data"} => whole' = FALSE
       /\ \/ auth' = auth
          \/ cmd.what = "auth"
          \/ /\ type = "T4T" /\ cmd.what \in {"app20", "app10", "cc_file", "ndef_file"}
             /\ auth' >= 0
       /\ sel' = IF cmd.what = "write_at" THEN cmd.at ELSE 0
  BY DEF Executed, SelectedBy
<1> QED
  BY <1>2, <1>3, <1>4, <1>5, <1>6, <1>7, <1>8, <1>9, <1>10

(* A tag on which a write has begun has its TLV at the first place.          *)
LEMMA ImageHeaded ==
  ASSUME NEW m \in Bytes, NEW c, NEW p, Image(m, c, p), type \in {"T2T", "T5T", "MIFARE"}
  PROVE  \E k \in Nat : Headed(m, k)
<1>1. CASE type = "MIFARE"
  <2>1. Headed(m, 2)
    BY <1>1 DEF Image, Headed, Front, NdefTlv
  <2> QED
    BY <2>1
<1>2. CASE type # "MIFARE"
  <2>1. Headed(m, 0)
    BY <1>2 DEF Image, Headed, Front
  <2> QED
    BY <2>1
<1> QED
  BY <1>1, <1>2

(* The tag answers or fails, and keeps the invariant.                        *)
LEMMA TagTag ==
  ASSUME TagInv, MifareInv, T4TInv, Tag, TagFails => ~rsp'.ok
  PROVE  TagInv'
<1>1. /\ pc = "tag" /\ pc' = "engine"
      /\ UNCHANGED <<hostVars, cmd, type, v1, cap, ops, content>>
      /\ intact' \in BOOLEAN /\ fails' \in 0 .. MaxFails /\ misled' \in BOOLEAN
      /\ \/ rsp' = [ok |-> TRUE, what |-> cmd.what, data |-> Answer] /\ Answer # NoAnswer /\ Executed
         \/ rsp' = [ok |-> FALSE, what |-> None, data |-> <<>>]
      /\ \/ Executed
         \/ UNCHANGED <<mem, nlen, sel, auth, whole>>
  <2>1. CASE TagAnswers
    BY <2>1 DEF TagAnswers, TagInv, TypeOK, Useless
  <2>2. CASE TagFails
    <3>1. fails' \in 0 .. MaxFails /\ misled' \in BOOLEAN /\ ~rsp'.ok
      <4>1. fails \in 0 .. MaxFails /\ MaxFails \in Nat
        BY RwAssumption DEF TagInv, TypeOK
      <4>2. fails' \in {fails + 1, fails + 2} /\ fails' <= MaxFails /\ ~rsp'.ok
        BY <2>2 DEF TagFails
      <4>3. misled' \in BOOLEAN
        BY <2>2 DEF TagFails
      <4> QED
        BY <4>1, <4>2, <4>3
    <3>2. rsp' \in Before \cup Instead
      BY <2>2 DEF TagFails
    <3>3. rsp' = Useless
      BY <3>1, <3>2 DEF Before, Instead, Packet
    <3> QED
      BY <2>2, <3>1, <3>3 DEF TagFails, Useless
  <2> QED
    BY <2>1, <2>2 DEF Tag
<1>2. ReadFits /\ PartsFit /\ WriteFits /\ ndef.state # "Initial"
  BY <1>1 DEF TagInv, HeardFits, Busy
<1>3. /\ mem' \in Bytes /\ nlen' \in Nat /\ auth' \in Int /\ sel' \in Nat /\ whole' \in BOOLEAN
      /\ \/ mem' = mem /\ nlen' = nlen /\ whole' = whole
         \/ cmd.what \in {"write", "write_data"} /\ whole' = FALSE
            /\ (type # "T4T" => mem' = MemAfter)
      /\ \/ auth' = auth
         \/ cmd.what = "auth"
         \/ /\ type = "T4T" /\ cmd.what \in {"app20", "app10", "cc_file", "ndef_file"}
            /\ auth' >= 0
  <2>1. CASE Executed
    BY <1>1, <2>1, Effect
  <2>2. CASE UNCHANGED <<mem, nlen, sel, auth, whole>>
    BY <2>2 DEF TagInv, TypeOK
  <2> QED
    BY <1>1, <2>1, <2>2
<1>4. TypeOK'
  <2>1. Answer \in Seq(Int) /\ <<>> \in Seq(Int)
    BY AnswerType DEF TagInv
  <2>2. cmd.what \in Packets /\ None \in Packets
    BY DEF TagInv, TypeOK, Packets, Commands
  <2>3. rsp'.ok \in BOOLEAN /\ rsp'.what \in {None, cmd.what} /\ rsp'.data \in {<<>>, Answer}
    <3>1. CASE rsp' = [ok |-> TRUE, what |-> cmd.what, data |-> Answer]
      BY <3>1
    <3>2. CASE rsp' = [ok |-> FALSE, what |-> None, data |-> <<>>]
      BY <3>2
    <3> QED
      BY <1>1, <3>1, <3>2
  <2>4. rsp'.what \in Packets /\ rsp'.data \in Seq(Int)
    BY <2>1, <2>2, <2>3
  <2> QED
    BY <1>1, <1>3, <2>3, <2>4 DEF TagInv, TypeOK, hostVars
<1>5. DataCaps' /\ BufferHolds'
  BY <1>1 DEF TagInv, DataCaps, BufferHolds, hostVars
<1>6. HeardFits'
  BY <1>1, <1>2 DEF TagInv, HeardFits, hostVars, None
<1>7. AnswerStands'
  <2>1. SUFFICES ASSUME rsp'.ok, cmd.what # "write_data"
                 PROVE  rsp'.data = Answer' /\ Answer' # NoAnswer'
    BY <1>1 DEF AnswerStands
  <2>2. Executed /\ rsp'.data = Answer /\ Answer # NoAnswer
    BY <1>1, <2>1
  <2>3. cmd.what \in {"read", "rall", "attribute"} => mem' = mem /\ nlen' = nlen
    BY <2>2 DEF Executed
  <2>4. Answer' = Answer
    BY <1>1, <1>3, <2>1, <2>2, <2>3, AnswerSame
  <2> QED
    BY <2>2, <2>4 DEF NoAnswer
<1>8. Laid'
  <2>1. CASE mem' = mem /\ nlen' = nlen /\ whole' = whole
    <3>1. type' = type /\ content' = content /\ Laid
      BY <1>1 DEF TagInv
    <3> QED
      BY <2>1, <3>1 DEF Laid, Exact, Headed, Holds
  <2>2. CASE /\ cmd.what \in {"write", "write_data"} /\ whole' = FALSE
             /\ (type # "T4T" => mem' = MemAfter)
    <3>1. ASSUME type \notin Sized PROVE \E k \in Nat : Headed(mem', k)
      <4>1. type \in {"T2T", "T5T", "MIFARE"} /\ Began
        BY <1>1, <1>2, <2>2, <3>1 DEF WriteFits, Began, Sized
      <4>2. Image(mem', message, ndef.ptr)
        BY <1>1, <1>2, <2>2, <3>1, <4>1 DEF WriteFits, Sized
      <4> QED
        BY <1>3, <4>1, <4>2, ImageHeaded
    <3>2. type \notin Sized => \E k \in Nat : Headed(mem, k)'
      BY <1>1, <3>1 DEF Headed
    <3> QED
      BY <1>1, <2>2, <3>2 DEF Laid, Exact
  <2> QED
    BY <1>3, <2>1, <2>2
<1>9. ReadFits'
  BY <1>1, <1>2 DEF ReadFits, InParts, InState, hostVars
<1>10. PartsFit'
  <2>1. SUFFICES ASSUME InParts PROVE PartsFit'
    BY <1>1 DEF PartsFit, InParts, hostVars
  <2>2. op = "read" /\ cmd.what \notin {"write", "write_data"}
    BY <1>1, <1>2, <2>1 DEF InParts, ReadFits
  <2>3. mem' = mem /\ nlen' = nlen /\ whole' = whole
    BY <1>3, <2>2
  <2> QED
    BY <1>1, <1>2, <2>3 DEF PartsFit, InParts, Exact, Progress, Place, Offset, hostVars
<1>11. WriteFits'
  <2>1. Began' <=> Began
    BY <1>1 DEF Began, hostVars
  <2>2. ASSUME Began, rsp'.ok PROVE Image(mem', message, ndef.ptr)
    <3>1. type # "T4T" /\ Executed
      BY <1>1, <2>2 DEF Began
    <3>2. mem' = MemAfter
      BY <1>1, <3>1, Effect
    <3> QED
      BY <1>1, <1>2, <2>2, <3>2 DEF WriteFits
  <2>3. ASSUME op = "write", type = "MIFARE", ndef.state = "Writing_Data2", rsp'.ok
        PROVE  sel' = ndef.blk
    <3>1. cmd = Cmd("write_at", ndef.blk, 0, <<>>)
      BY <1>1, <1>2, <2>3 DEF WriteFits
    <3> QED
      BY <1>1, <2>3, <3>1, Effect DEF Cmd
  <2>4. /\ (Image(mem, message, ndef.ptr))' <=> Image(mem', message, ndef.ptr)
        /\ Front' = Front /\ Size' = Size /\ Offset(ndef.blk)' = Offset(ndef.blk)
    BY <1>1 DEF Image, Front, Size, Offset, hostVars
  <2> QED
    BY <1>1, <1>2, <2>1, <2>2, <2>3, <2>4 DEF WriteFits, hostVars
<1> QED
  BY <1>4, <1>5, <1>6, <1>7, <1>8, <1>9, <1>10, <1>11 DEF TagInv

-----------------------------------------------------------------------------
(* Parts of a message that are read                                          *)

(* What memcpy leaves in NdefBuffer.                                         *)
LEMMA CopyFacts ==
  ASSUME NEW b \in Bytes, NEW p \in Nat, p <= Len(b), NEW d \in Bytes
  PROVE  /\ SubSeq(b, 1, p) \o d \in Bytes /\ Len(SubSeq(b, 1, p) \o d) = p + Len(d)
         /\ \A i \in 1 .. p : (SubSeq(b, 1, p) \o d)[i] = b[i]
         /\ \A i \in 1 .. Len(d) : (SubSeq(b, 1, p) \o d)[p + i] = d[i]
<1> DEFINE h == SubSeq(b, 1, p)
<1>1. b \in Seq(Nat) /\ d \in Seq(Nat)
  BY DEF Bytes
<1>2. h \in Seq(Nat) /\ Len(h) = p /\ \A i \in 1 .. p : h[i] = b[i]
  BY <1>1
<1> HIDE DEF h
<1>3. /\ h \o d \in Seq(Nat) /\ Len(h \o d) = Len(h) + Len(d)
      /\ \A i \in 1 .. Len(h) : (h \o d)[i] = h[i]
      /\ \A i \in 1 .. Len(d) : (h \o d)[Len(h) + i] = d[i]
  BY <1>1, <1>2, JoinFacts
<1>4. /\ h \o d \in Bytes /\ Len(h \o d) = p + Len(d)
      /\ \A i \in 1 .. p : (h \o d)[i] = b[i]
      /\ \A i \in 1 .. Len(d) : (h \o d)[p + i] = d[i]
  BY <1>2, <1>3 DEF Bytes
<1> QED
  BY <1>4 DEF h

(* The beginning of a part that has been copied.                             *)
LEMMA PrefixFacts ==
  ASSUME NEW d \in Bytes, NEW a \in Nat \ {0}, NEW n \in Nat, a - 1 + n <= Len(d)
  PROVE  /\ SubSeq(d, a, a - 1 + n) \in Bytes /\ Len(SubSeq(d, a, a - 1 + n)) = n
         /\ \A i \in 1 .. n : SubSeq(d, a, a - 1 + n)[i] = d[a - 1 + i]
<1>1. d \in Seq(Nat) /\ Len(d) \in Nat
  BY DEF Bytes
<1>2. SubSeq(d, a, a - 1 + n) = [i \in 1 .. n |-> d[a - 1 + i]]
  <2>1. SubSeq(d, a, a - 1 + n) = [i \in 1 .. (a - 1 + n) - a + 1 |-> d[i + a - 1]]
    BY <1>1
  <2>2. (a - 1 + n) - a + 1 = n /\ \A i \in 1 .. n : i + a - 1 = a - 1 + i
    OBVIOUS
  <2> QED
    BY <2>1, <2>2
<1>3. \A i \in 1 .. n : d[a - 1 + i] \in Nat
  BY <1>1
<1>4. [i \in 1 .. n |-> d[a - 1 + i]] \in Seq(Nat) /\ Len([i \in 1 .. n |-> d[a - 1 + i]]) = n
  BY <1>3
<1> QED
  BY <1>2, <1>4 DEF Bytes

(* The beginning of a sequence.                                              *)
LEMMA BeginFacts ==
  ASSUME NEW d \in Bytes, NEW n \in Nat, n <= Len(d)
  PROVE  /\ SubSeq(d, 1, n) \in Bytes /\ Len(SubSeq(d, 1, n)) = n
         /\ \A i \in 1 .. n : SubSeq(d, 1, n)[i] = d[i]
  BY DEF Bytes

(* Sequences of the same bytes are the same.                                 *)
LEMMA SameBytes ==
  ASSUME NEW a \in Bytes, NEW b \in Bytes, Len(a) = Len(b), \A i \in 1 .. Len(a) : a[i] = b[i]
  PROVE  a = b
  BY DEF Bytes

-----------------------------------------------------------------------------
(* Reading *)

(* Every block of a tag with blocks lies somewhere.                          *)
LEMMA OffsetType ==
  ASSUME TypeOK, type # "T4T", NEW b \in Nat
  PROVE  Offset(b) \in Int
<1>1. type \in {"T1T", "T2T", "T3T", "T5T", "MIFARE"}
  BY RwAssumption DEF TypeOK
<1> QED
  BY <1>1 DEF Offset

(* What a good answer to the reading of a block holds.                       *)
LEMMA BlockRead ==
  ASSUME TagInv, pc = "engine", ndef.state # "Initial", rsp.ok, type # "T4T",
         NEW b \in Nat, cmd = Read(b)
  PROVE  /\ rsp.data \in Bytes /\ Len(rsp.data) = Width
         /\ \A i \in 1 .. Width : rsp.data[i] = Cell(mem, Offset(b) + i)
<1>1. rsp.data = Answer /\ Answer # NoAnswer /\ mem \in Bytes
  BY DEF TagInv, AnswerStands, TypeOK, Read, Cmd
<1>2. cmd.what = "read" /\ cmd.at = b
  BY DEF Read, Cmd
<1>3. rsp.data = Cells(mem, Offset(b), Width)
  BY <1>1, <1>2 DEF Answer
<1>4. Offset(b) \in Int /\ Width \in Nat
  BY OffsetType DEF TagInv, Width
<1> QED
  BY <1>1, <1>3, <1>4, CellsFacts

(* The same for a part of the message.                                       *)
LEMMA PartRead ==
  ASSUME TagInv, pc = "engine", InParts, type # "T4T", ndef.state # "Authenticated", rsp.ok
  PROVE  /\ rsp.data \in Bytes /\ Len(rsp.data) = Width
         /\ \A i \in 1 .. Width : rsp.data[i] = Cell(mem, Place + i)
         /\ Place \in Int
<1>1. ndef.state # "Initial" /\ ndef.blk \in Nat
  BY DEF InParts, TagInv, TypeOK
<1>2. cmd = Read(ndef.blk) /\ Place = Offset(ndef.blk)
  BY <1>1 DEF TagInv, Busy, ReadFits, Place
<1> QED
  BY <1>1, <1>2, BlockRead, OffsetType DEF TagInv

(* What the invariant says while parts are read.                             *)
LEMMA PartsOf ==
  ASSUME TagInv, pc = "engine", InParts
  PROVE  /\ PartsFit /\ ReadFits
         /\ ndef \in Ndefs /\ ndef.blk \in Nat /\ ndef.ptr \in Nat /\ ndef.size \in Nat
         /\ buffer \in Bytes /\ Len(buffer) \in Nat /\ Len(buffer) <= MaxFile
         /\ content \in Bytes /\ MaxFile \in Nat /\ mem \in Bytes
         /\ ndef.state \in States /\ Width \in Nat
<1>1. ndef.state # "Initial"
  BY DEF InParts
<1>2. MaxFile \in Nat /\ Width \in Nat
  BY RwAssumption DEF Width
<1> QED
  BY <1>1, <1>2 DEF TagInv, Busy, TypeOK, Ndefs, BufferHolds, Bytes

(* The last part: the message is delivered, and is that on the tag.          *)
LEMMA LastPartKeeps ==
  ASSUME TagInv, EngineStep, InParts, type # "T4T", ndef.state # "Authenticated", rsp.ok,
         Remaining <= Width, LastPart(rsp.data)
  PROVE  TagInv'
<1>0. pc = "engine"
  BY DEF EngineStep
<1>1. /\ PartsFit /\ ndef \in Ndefs /\ ndef.ptr \in Nat /\ ndef.size \in Nat
      /\ buffer \in Bytes /\ content \in Bytes /\ MaxFile \in Nat
      /\ ndef.ptr <= Len(buffer) /\ ndef.ptr <= ndef.size /\ ndef.size <= MaxFile
      /\ rsp.data \in Bytes /\ Len(rsp.data) = Width /\ Width \in Nat
      /\ \A i \in 1 .. Width : rsp.data[i] = Cell(mem, Place + i)
  BY <1>0, PartsOf, PartRead DEF PartsFit
<1> DEFINE n == ndef.size - ndef.ptr
           d == SubSeq(rsp.data, 1, n)
<1>2. n \in Nat /\ n <= Width /\ ndef.ptr + n = ndef.size
  BY <1>1 DEF Remaining
<1>3. d \in Bytes /\ Len(d) = n /\ \A i \in 1 .. n : d[i] = rsp.data[i]
  <2> HIDE DEF n
  <2> QED
    BY <1>1, <1>2, BeginFacts
<1>4. /\ buffer' = SubSeq(buffer, 1, ndef.ptr) \o d
      /\ pc' = "idle" /\ heard' = [kind |-> "message", data |-> SubSeq(buffer', 1, ndef.size)]
      /\ UNCHANGED <<cmd, ndef, content, whole>>
  BY DEF LastPart, Copied, Deliver, Ends
<1> HIDE DEF d, n
<1>5. /\ buffer' \in Bytes /\ Len(buffer') = ndef.size
      /\ \A i \in 1 .. ndef.ptr : buffer'[i] = buffer[i]
      /\ \A i \in 1 .. n : buffer'[ndef.ptr + i] = d[i]
  <2> DEFINE c == SubSeq(buffer, 1, ndef.ptr) \o d
  <2>1. /\ c \in Bytes /\ Len(c) = ndef.ptr + Len(d)
        /\ \A i \in 1 .. ndef.ptr : c[i] = buffer[i]
        /\ \A i \in 1 .. Len(d) : c[ndef.ptr + i] = d[i]
    BY <1>1, <1>3, CopyFacts, ZenonT(30)
  <2> HIDE DEF c
  <2>2. buffer' = c
    BY <1>4 DEF c
  <2> QED
    BY <1>2, <1>3, <2>1, <2>2
<1>6. SubSeq(buffer', 1, ndef.size) = buffer'
  BY <1>1, <1>5 DEF Bytes
<1>7. Heards(heard')
  BY <1>4, <1>5, <1>6 DEF Heards
<1>8. ASSUME Exact PROVE heard'.data = content
  <2>1. Progress
    BY <1>1, <1>8 DEF PartsFit
  <2>2. ASSUME NEW i \in 1 .. Len(content) PROVE buffer'[i] = content[i]
    <3>1. i \in 1 .. ndef.size
      BY <2>1 DEF Progress
    <3>2. CASE i <= ndef.ptr
      <4>1. i \in 1 .. ndef.ptr /\ i <= ndef.size
        BY <1>1, <3>1, <3>2
      <4> QED
        BY <1>5, <2>1, <4>1 DEF Progress
    <3>3. CASE ~(i <= ndef.ptr)
      <4> DEFINE j == i - ndef.ptr
      <4>1. /\ j \in 1 .. n /\ ndef.ptr + j = i /\ j \in 1 .. Width /\ j \in Nat \ {0}
            /\ ndef.ptr + j <= ndef.size
        BY <1>1, <1>2, <3>1, <3>3
      <4> HIDE DEF j
      <4>2. buffer'[i] = Cell(mem, Place + j)
        BY <1>1, <1>3, <1>5, <4>1
      <4>3. Cell(mem, Place + j) = content[i]
        BY <2>1, <4>1 DEF Progress
      <4> QED
        BY <4>2, <4>3
    <3> QED
      BY <3>2, <3>3
  <2>3. Len(content) = Len(buffer')
    BY <1>5, <2>1 DEF Progress
  <2>4. buffer' = content
    BY <1>1, <1>5, <2>2, <2>3, SameBytes
  <2> QED
    BY <1>4, <1>6, <2>4
<1>9. content' \in Bytes /\ whole' \in BOOLEAN /\ Laid' /\ (Exact' <=> Exact)
  BY <1>4, LaidStep DEF TagInv, TypeOK
<1>10. ndef' \in Ndefs /\ Len(buffer') <= MaxFile
  BY <1>1, <1>4, <1>5
<1> QED
  BY <1>4, <1>5, <1>7, <1>8, <1>9, <1>10, EndKeeps

(* A further part: the message is read up to the new pointer.                *)
LEMMA NextPartKeeps ==
  ASSUME TagInv, EngineStep, InParts, type # "T4T", ndef.state # "Authenticated", rsp.ok,
         Remaining >= Width, Send(cmd'), Cmds(cmd'), buffer' = Copied(rsp.data),
         NEW s \in States, NEW b \in Nat,
         ndef' = [state |-> s, blk |-> b, ptr |-> ndef.ptr + Len(rsp.data), size |-> ndef.size],
         InParts', Place' = Place + Width, ReadFits'
  PROVE  TagInv'
<1>0. pc = "engine" /\ type' = type /\ mem' = mem /\ content' = content /\ whole' = whole
      /\ op' = op
  BY DEF EngineStep, tagVars, Send
<1>1. /\ PartsFit /\ ndef \in Ndefs /\ ndef.ptr \in Nat /\ ndef.size \in Nat
      /\ buffer \in Bytes /\ content \in Bytes /\ MaxFile \in Nat
      /\ ndef.ptr <= Len(buffer) /\ ndef.ptr <= ndef.size /\ ndef.size <= MaxFile
      /\ rsp.data \in Bytes /\ Len(rsp.data) = Width /\ Width \in Nat /\ Place \in Int
      /\ \A i \in 1 .. Width : rsp.data[i] = Cell(mem, Place + i)
  BY <1>0, PartsOf, PartRead DEF PartsFit
<1>2. /\ ndef.ptr + Width <= ndef.size /\ ndef.ptr + Width \in Nat
      /\ ndef'.ptr = ndef.ptr + Width /\ ndef'.size = ndef.size /\ ndef'.state = s
      /\ ndef' \in Ndefs
  <2>1. ndef.ptr + Width <= ndef.size /\ ndef.ptr + Width \in Nat
    BY <1>1 DEF Remaining
  <2> QED
    BY <1>1, <2>1, NdefFacts
<1>3. /\ buffer' \in Bytes /\ Len(buffer') = ndef.ptr + Width
      /\ \A i \in 1 .. ndef.ptr : buffer'[i] = buffer[i]
      /\ \A i \in 1 .. Width : buffer'[ndef.ptr + i] = rsp.data[i]
  <2> DEFINE c == SubSeq(buffer, 1, ndef.ptr) \o rsp.data
  <2>1. /\ c \in Bytes /\ Len(c) = ndef.ptr + Len(rsp.data)
        /\ \A i \in 1 .. ndef.ptr : c[i] = buffer[i]
        /\ \A i \in 1 .. Len(rsp.data) : c[ndef.ptr + i] = rsp.data[i]
    BY <1>1, CopyFacts, ZenonT(30)
  <2> HIDE DEF c
  <2>2. buffer' = c
    BY DEF c, Copied
  <2> QED
    BY <1>1, <2>1, <2>2
<1>4. ASSUME Exact PROVE Progress'
  <2>1. Progress
    BY <1>1, <1>4 DEF PartsFit
  <2>2. ASSUME NEW i \in 1 .. ndef.ptr + Width, i <= ndef.size
        PROVE  buffer'[i] = content[i]
    <3>1. CASE i <= ndef.ptr
      <4>1. i \in 1 .. ndef.ptr
        BY <1>1, <3>1
      <4> QED
        BY <1>3, <2>1, <2>2, <4>1 DEF Progress
    <3>2. CASE ~(i <= ndef.ptr)
      <4> DEFINE j == i - ndef.ptr
      <4>1. j \in 1 .. Width /\ ndef.ptr + j = i /\ j \in Nat \ {0} /\ ndef.ptr + j <= ndef.size
        BY <1>1, <2>2, <3>2
      <4> HIDE DEF j
      <4>2. buffer'[i] = Cell(mem, Place + j)
        BY <1>1, <1>3, <4>1
      <4>3. Cell(mem, Place + j) = content[i]
        BY <2>1, <4>1 DEF Progress
      <4> QED
        BY <4>2, <4>3
    <3> QED
      BY <3>1, <3>2
  <2>3. ASSUME NEW i \in Nat \ {0}, ndef.ptr + Width + i <= ndef.size
        PROVE  Cell(mem, Place + Width + i) = content[ndef.ptr + Width + i]
    <3> DEFINE j == Width + i
    <3>1. /\ j \in Nat \ {0} /\ ndef.ptr + j <= ndef.size
          /\ Place + j = Place + Width + i /\ ndef.ptr + j = ndef.ptr + Width + i
      BY <1>1, <2>3
    <3> HIDE DEF j
    <3>2. Cell(mem, Place + j) = content[ndef.ptr + j]
      BY <2>1, <3>1 DEF Progress
    <3> QED
      BY <3>1, <3>2
  <2>4. ndef.size = Len(content)
    BY <2>1 DEF Progress
  <2> QED
    BY <1>0, <1>2, <2>2, <2>3, <2>4 DEF Progress
<1>5. PartsFit'
  <2>1. Exact' <=> Exact
    BY <1>0 DEF Exact
  <2> QED
    BY <1>0, <1>1, <1>2, <1>3, <1>4, <2>1 DEF PartsFit
<1>6. WriteFits'
  BY <1>0 DEF WriteFits, Began, InParts, ReadFits, Send
<1>7. Len(buffer') <= MaxFile /\ ndef'.state # "Initial"
  <2>1. ndef'.state # "Initial"
    BY DEF InParts
  <2> QED
    BY <1>1, <1>2, <1>3, <2>1
<1> QED
  BY <1>2, <1>3, <1>5, <1>6, <1>7, CommandKeeps

LongLengths == type \in {"T2T", "MIFARE"}

(* The length of a message, and where it begins, as the first part tells.    *)
LEMMA LengthRead ==
  ASSUME Exact, type \in {"T1T", "T2T", "T5T", "MIFARE"}, content \in Bytes,
         NEW k \in Nat, Holds(mem, k, content)
  PROVE  LET three == LongLengths /\ Cell(mem, k + 2) = 255
         IN /\ Len(content) = IF three THEN 256 * Cell(mem, k + 3) + Cell(mem, k + 4)
                                       ELSE Cell(mem, k + 2)
            /\ \A i \in 1 .. Len(content) : Cell(mem, k + (IF three THEN 4 ELSE 2) + i) = content[i]
<1>1. Len(content) \in Nat
  BY DEF Bytes
<1>2. CASE type \in {"T1T", "T5T"}
  <2>1. Len(content) \in 0 .. 254
    <3>1. Readable(type, Len(content))
      BY DEF Exact
    <3>2. CASE type = "T1T"
      BY <3>1, <3>2 DEF Readable
    <3>3. CASE type = "T5T"
      BY <3>1, <3>3 DEF Readable
    <3> QED
      BY <1>2, <3>2, <3>3
  <2>2. ~Long(Len(content))
    <3>1. \A n \in 0 .. 254 : ~(n > 254)
      OBVIOUS
    <3> QED
      BY <2>1, <3>1, Zenon DEF Long
  <2> QED
    BY <1>2, <2>2 DEF Holds, LongLengths
<1>3. CASE type \in {"T2T", "MIFARE"} /\ Long(Len(content))
  <2>1. \A n \in Nat : 256 * (n \div 256) + (n % 256) = n
    OBVIOUS
  <2>2. 256 * (Len(content) \div 256) + (Len(content) % 256) = Len(content)
    BY <1>1, <2>1, Zenon
  <2> QED
    BY <1>3, <2>2 DEF Holds, LongLengths
<1>4. CASE type \in {"T2T", "MIFARE"} /\ ~Long(Len(content))
  <2>1. Len(content) # 255
    BY <1>4 DEF Exact, Readable
  <2>2. Cell(mem, k + 2) = Len(content)
    BY <1>4 DEF Holds
  <2> QED
    BY <1>4, <2>1, <2>2 DEF Holds, LongLengths
<1> QED
  BY <1>2, <1>3, <1>4

(* The first part of a message, whole or followed by others.                 *)
LEMMA FirstPartKeeps ==
  ASSUME TagInv, EngineStep, op = "read",
         NEW p \in Nat \ {0}, Exact => Holds(mem, p - 1, content),
         NEW d \in Bytes, \A i \in 1 .. Len(d) : d[i] = Cell(mem, i),
         p + 1 <= Len(d), LongLengths => p + 3 <= Len(d),
         NEW next \in Nat, Offset(next) = Len(d),
         NEW state, \/ type \in {"T1T", "T2T", "T5T"} /\ state = "Reading_NDEF"
                    \/ type = "MIFARE" /\ state = "Reading_Data" /\ next >= 4,
         FirstPart(d, p, LongLengths, next, state)
  PROVE  TagInv'
<1>k. PICK k \in Nat : p = k + 1 /\ (Exact => Holds(mem, k, content))
  <2>1. p - 1 \in Nat /\ p = (p - 1) + 1
    OBVIOUS
  <2> QED
    BY <2>1
<1>w. PICK w \in Nat : /\ Len(d) = w /\ \A i \in 1 .. w : d[i] = Cell(mem, i)
                       /\ k + 2 <= w /\ (LongLengths => k + 4 <= w) /\ Offset(next) = w
  <2>1. Len(d) \in Nat
    BY DEF Bytes
  <2> QED
    BY <1>k, <2>1
<1> DEFINE three == LongLengths /\ d[p + 1] = 255
           n == IF three THEN 256 * d[p + 2] + d[p + 3] ELSE d[p + 1]
           h == IF three THEN 4 ELSE 2
           rest == SubSeq(d, IF three THEN p + 4 ELSE p + 2, Len(d))
<1>0. /\ pc = "engine" /\ type' = type /\ mem' = mem /\ nlen' = nlen /\ op' = op
      /\ type \in {"T1T", "T2T", "T5T", "MIFARE"} /\ type # "T4T" /\ type # "T3T"
      /\ state \in States /\ state \notin {"Initial", "Authenticated"}
  BY DEF EngineStep, tagVars, States
<1>1. /\ ndef \in Ndefs /\ buffer \in Bytes /\ Len(buffer) <= MaxFile /\ content \in Bytes
      /\ whole \in BOOLEAN /\ MaxFile \in Nat
  BY RwAssumption DEF TagInv, TypeOK, Ndefs, BufferHolds
<1>2. /\ p + 1 = k + 2 /\ p + 2 = k + 3 /\ p + 3 = k + 4 /\ p + 1 \in 1 .. w
      /\ LongLengths => p + 2 \in 1 .. w /\ p + 3 \in 1 .. w
      /\ (IF three THEN p + 4 ELSE p + 2) = k + h + 1
      /\ k + h <= w /\ h \in {2, 4} /\ w - (k + h) \in Nat
  BY <1>k, <1>w
<1>3. n \in Nat
  <2>1. d \in Seq(Nat)
    BY DEF Bytes
  <2>2. d[p + 1] \in Nat /\ (LongLengths => d[p + 2] \in Nat /\ d[p + 3] \in Nat)
    BY <1>2, <2>1
  <2> QED
    BY <2>2
<1>4. /\ rest \in Bytes /\ Len(rest) = w - (k + h)
      /\ \A i \in 1 .. w - (k + h) : rest[i] = Cell(mem, k + h + i)
  <2> DEFINE m == w - (k + h)
             a == k + h + 1
  <2>1. /\ rest = SubSeq(d, a, a - 1 + m) /\ a - 1 + m = w /\ a - 1 + m <= Len(d)
        /\ a \in Nat \ {0} /\ m \in Nat /\ a - 1 = k + h
    <3>1. a - 1 + m = w /\ a \in Nat \ {0} /\ m \in Nat /\ a - 1 = k + h
      <4> HIDE DEF h
      <4> QED
        BY <1>2
    <3>2. rest = SubSeq(d, a, w) /\ w = Len(d)
      BY <1>2, <1>w
    <3> HIDE DEF rest, a, m
    <3> QED
      BY <3>1, <3>2
  <2>2. \A i \in 1 .. m : a - 1 + i \in 1 .. w
    <3> HIDE DEF a, h, m
    <3> QED
      BY <2>1
  <2> HIDE DEF a, h, rest, m
  <2>3. /\ SubSeq(d, a, a - 1 + m) \in Bytes /\ Len(SubSeq(d, a, a - 1 + m)) = m
        /\ \A i \in 1 .. m : SubSeq(d, a, a - 1 + m)[i] = d[a - 1 + i]
    BY <2>1, PrefixFacts
  <2>4. rest \in Bytes /\ Len(rest) = m /\ \A i \in 1 .. m : rest[i] = Cell(mem, k + h + i)
    BY <2>1, <2>2, <2>3
  <2> QED
    BY <2>4 DEF m
<1>5. ASSUME Exact
      PROVE  /\ Len(content) = n
             /\ \A i \in 1 .. Len(content) : Cell(mem, k + h + i) = content[i]
  <2>1. /\ d[p + 1] = Cell(mem, k + 2)
        /\ LongLengths => d[p + 2] = Cell(mem, k + 3) /\ d[p + 3] = Cell(mem, k + 4)
    BY <1>2, <1>w
  <2>2. Holds(mem, k, content)
    BY <1>k, <1>5
  <2>3. type \in {"T1T", "T2T", "T5T", "MIFARE"} /\ content \in Bytes
    BY <1>0, <1>1
  <2>4. LET t == LongLengths /\ Cell(mem, k + 2) = 255
        IN /\ Len(content) = IF t THEN 256 * Cell(mem, k + 3) + Cell(mem, k + 4)
                                  ELSE Cell(mem, k + 2)
           /\ \A i \in 1 .. Len(content) : Cell(mem, k + (IF t THEN 4 ELSE 2) + i) = content[i]
    BY <1>5, <2>2, <2>3, LengthRead
  <2> QED
    BY <2>1, <2>4
<1>6. \/ /\ Refuse /\ ndef' = [ndef EXCEPT !.size = n] /\ UNCHANGED buffer
      \/ /\ n <= MaxFile /\ n <= Len(rest)
         /\ buffer' = SubSeq(rest, 1, n) /\ Deliver(buffer') /\ ndef' = [ndef EXCEPT !.size = n]
      \/ /\ n <= MaxFile /\ ~(n <= Len(rest))
         /\ buffer' = rest /\ Send(Read(next))
         /\ ndef' = [state |-> state, blk |-> next, ptr |-> Len(rest), size |-> n]
  <2>1. ~(n > MaxFile \/ (n = 0 /\ type # "T1T")) => n <= MaxFile
    <3> HIDE DEF n
    <3> QED
      BY <1>1, <1>3
  <2> QED
    BY <2>1, ZenonT(30) DEF FirstPart
<1> HIDE DEF n, rest, h
<1>7. ASSUME ndef' = [ndef EXCEPT !.size = n] PROVE ndef' \in Ndefs
  <2>1. ndef' = [state |-> ndef.state, blk |-> ndef.blk, ptr |-> ndef.ptr, size |-> n]
    BY <1>1, <1>7, NdefFacts
  <2> QED
    BY <1>1, <1>3, <2>1, NdefFacts
<1>8. CASE Refuse /\ ndef' = [ndef EXCEPT !.size = n] /\ UNCHANGED buffer
  <2>1. /\ pc' = "idle" /\ heard' = [kind |-> "refused", data |-> <<>>]
        /\ UNCHANGED <<cmd, content, whole, buffer>>
    BY <1>8 DEF Refuse, Ends
  <2>2. Heards(heard')
    BY <2>1 DEF Heards, Bytes
  <2>3. Laid'
    BY <2>1, LaidStep DEF TagInv
  <2> QED
    BY <1>1, <1>7, <1>8, <2>1, <2>2, <2>3, EndKeeps
<1>9. CASE /\ n <= MaxFile /\ n <= Len(rest)
           /\ buffer' = SubSeq(rest, 1, n) /\ Deliver(buffer') /\ ndef' = [ndef EXCEPT !.size = n]
  <2>1. /\ pc' = "idle" /\ heard' = [kind |-> "message", data |-> buffer']
        /\ UNCHANGED <<cmd, content, whole>>
    BY <1>9 DEF Deliver, Ends
  <2>2. buffer' \in Bytes /\ Len(buffer') = n /\ \A i \in 1 .. n : buffer'[i] = rest[i]
    BY <1>3, <1>4, <1>9, BeginFacts
  <2>3. Heards(heard')
    BY <2>1, <2>2 DEF Heards
  <2>4. Laid' /\ (Exact' <=> Exact)
    BY <2>1, LaidStep DEF TagInv
  <2>5. ASSUME Exact PROVE buffer' = content
    <3>1. Len(content) = n /\ \A i \in 1 .. n : Cell(mem, k + h + i) = content[i]
      BY <1>5, <2>5
    <3>2. \A i \in 1 .. n : i \in 1 .. w - (k + h)
      BY <1>2, <1>3, <1>4, <1>9
    <3>3. \A i \in 1 .. n : buffer'[i] = content[i]
      BY <1>4, <2>2, <3>1, <3>2
    <3> QED
      BY <1>1, <2>2, <3>1, <3>3, SameBytes
  <2> QED
    BY <1>1, <1>7, <1>9, <2>1, <2>2, <2>3, <2>4, <2>5, EndKeeps
<1>10. CASE /\ n <= MaxFile /\ ~(n <= Len(rest))
            /\ buffer' = rest /\ Send(Read(next))
            /\ ndef' = [state |-> state, blk |-> next, ptr |-> Len(rest), size |-> n]
  <2> DEFINE q == Len(rest)
  <2>1. q \in Nat /\ q < n /\ q <= MaxFile /\ k + h + q = w /\ q = w - (k + h)
    BY <1>1, <1>2, <1>3, <1>4, <1>10
  <2>2. /\ cmd' = Read(next) /\ pc' = "tag" /\ UNCHANGED <<heard, content, whole>>
        /\ Send(cmd')
    BY <1>10 DEF Send
  <2>3. /\ ndef' \in Ndefs /\ ndef'.state = state /\ ndef'.blk = next
        /\ ndef'.ptr = q /\ ndef'.size = n
    BY <1>0, <1>3, <1>10, <2>1, NdefFacts
  <2>4. Cmds(cmd')
    <3>1. cmd' = [what |-> "read", at |-> next, n |-> 0, data |-> <<>>]
      BY <2>2 DEF Read, Cmd
    <3>2. "read" \in Commands /\ <<>> \in Bytes /\ 0 \in 0 .. 255
      BY DEF Commands, Bytes
    <3> QED
      BY <3>1, <3>2 DEF Cmds
  <2>5. InParts' /\ Place' = w
    <3>1. Offset(next)' = Offset(next)
      BY <1>0 DEF Offset
    <3> QED
      BY <1>0, <1>w, <2>3, <3>1 DEF InParts, Place
  <2>6. ReadFits'
    <3>1. cmd'.what = "read"
      BY <2>2 DEF Read, Cmd
    <3> QED
      BY <1>0, <2>2, <2>3, <3>1 DEF ReadFits, InParts, InState
  <2>7. ASSUME Exact PROVE Progress'
    <3>1. Len(content) = n /\ \A i \in 1 .. n : Cell(mem, k + h + i) = content[i]
      BY <1>5, <2>7
    <3>2. ASSUME NEW i \in 1 .. q PROVE rest[i] = content[i]
      <4>1. i \in 1 .. n /\ i \in 1 .. w - (k + h)
        BY <1>3, <2>1
      <4> QED
        BY <1>4, <3>1, <4>1
    <3>3. ASSUME NEW i \in Nat \ {0}, q + i <= n PROVE Cell(mem, w + i) = content[q + i]
      <4>1. q + i \in 1 .. n /\ k + h + (q + i) = w + i
        BY <1>2, <1>3, <2>1, <3>3
      <4>2. Cell(mem, k + h + (q + i)) = content[q + i]
        BY <3>1, <4>1
      <4> QED
        BY <4>1, <4>2
    <3> HIDE DEF q
    <3> QED
      BY <1>0, <1>10, <2>2, <2>3, <2>5, <3>1, <3>2, <3>3 DEF Progress
  <2>8. PartsFit'
    <3>1. Exact' <=> Exact
      BY <2>2, LaidStep DEF TagInv
    <3>2. Len(buffer') = q /\ q <= q /\ q <= n
      BY <1>3, <1>10, <2>1
    <3> HIDE DEF q
    <3> QED
      BY <1>0, <1>10, <2>3, <2>7, <3>1, <3>2 DEF PartsFit
  <2>9. WriteFits'
    <3>1. cmd'.what = "read" /\ op' = "read"
      BY <1>0, <2>2 DEF Read, Cmd
    <3> QED
      BY <3>1 DEF WriteFits, Began
  <2>10. buffer' \in Bytes /\ Len(buffer') <= MaxFile /\ ndef'.state # "Initial"
    BY <1>0, <1>4, <1>10, <2>1, <2>3
  <2> QED
    BY <2>2, <2>3, <2>4, <2>6, <2>8, <2>9, <2>10, CommandKeeps
<1> QED
  BY <1>6, <1>8, <1>9, <1>10

-----------------------------------------------------------------------------
(* Commands that change nothing on the tag, and T1T                          *)

(* The engine that runs.                                                     *)
LEMMA InFacts ==
  ASSUME NEW t, NEW o, NEW s, In(t, o, s)
  PROVE  EngineStep /\ pc = "engine" /\ type = t /\ op = o /\ ndef.state = s
  BY DEF In, EngineStep

(* Commands without data.                                                    *)
LEMMA AskCmd ==
  ASSUME NEW w \in Commands, NEW a \in Nat, NEW n \in 0 .. 255
  PROVE  /\ Cmds(Cmd(w, a, n, <<>>))
         /\ Cmd(w, a, n, <<>>).what = w /\ Cmd(w, a, n, <<>>).at = a
  BY DEF Cmds, Cmd, Bytes

(* Only the state changes.                                                   *)
LEMMA StateStep ==
  ASSUME TagInv, NEW s \in States, ndef' = [ndef EXCEPT !.state = s]
  PROVE  /\ ndef' \in Ndefs /\ ndef'.state = s
         /\ ndef'.blk = ndef.blk /\ ndef'.ptr = ndef.ptr /\ ndef'.size = ndef.size
<1>1. ndef \in Ndefs
  BY DEF TagInv, TypeOK, Ndefs
<1>2. ndef' = [state |-> s, blk |-> ndef.blk, ptr |-> ndef.ptr, size |-> ndef.size]
  BY <1>1, NdefFacts
<1> QED
  BY <1>1, <1>2, NdefFacts

(* A step that asks the tag for something, on the way to the message.        *)
LEMMA AskKeeps ==
  ASSUME TagInv, EngineStep, NEW s \in States, Goto(s),
         NEW w \in Commands, NEW a \in Nat, NEW n \in 0 .. 255, Send(Cmd(w, a, n, <<>>)),
         w \notin {"write", "write_data"},
         \/ s \notin Marked
         \/ /\ op = "read"
            /\ \/ type = "T1T" /\ s = "Reading_CardContent" /\ w = "rall"
               \/ type = "T2T" /\ s = "Reading_Data" /\ Cmd(w, a, n, <<>>) = Read(4)
               \/ type = "T3T" /\ s = "Getting_AttributeInfo" /\ w = "attribute"
               \/ /\ type = "T4T" /\ s = "Reading_NDEF_Size"
                  /\ Cmd(w, a, n, <<>>) = Cmd("read", 0, 2, <<>>)
               \/ type = "T5T" /\ s = "Reading_Data" /\ Cmd(w, a, n, <<>>) = Read(1)
  PROVE  TagInv'
<1>1. /\ ndef' \in Ndefs /\ ndef'.state = s /\ buffer' = buffer
  BY StateStep DEF Goto
<1>2. /\ Send(cmd') /\ cmd' = Cmd(w, a, n, <<>>) /\ Cmds(cmd') /\ cmd'.what = w
  BY AskCmd DEF Send
<1>3. op' = op /\ type' = type
  BY DEF EngineStep, tagVars
<1>4. s # "Initial" /\ ~InParts'
  BY <1>1, <1>3 DEF Marked, InParts
<1>5. ReadFits'
  BY <1>1, <1>2, <1>3, <1>4 DEF ReadFits, InState, Marked
<1>6. PartsFit' /\ WriteFits'
  BY <1>1, <1>2, <1>3, <1>4 DEF PartsFit, WriteFits, Began, Marked
<1>7. buffer' \in Bytes /\ Len(buffer') <= MaxFile
  BY <1>1 DEF TagInv, TypeOK, BufferHolds
<1> QED
  BY <1>1, <1>2, <1>4, <1>5, <1>6, <1>7, CommandKeeps

(* A command on the way to a state without duties.                           *)
LEMMA PlainAsk ==
  ASSUME TagInv, EngineStep, NEW s \in States \ Marked, Goto(s),
         NEW w \in Commands \ {"write", "write_data"}, NEW a \in Nat, NEW n \in 0 .. 255,
         Send(Cmd(w, a, n, <<>>))
  PROVE  TagInv'
  BY AskKeeps

(* A further part, followed by the next block.                               *)
LEMMA NextPartSends ==
  ASSUME TagInv, EngineStep, InParts, type # "T4T", ndef.state # "Authenticated", rsp.ok,
         ~(Remaining < Width), NEW step \in Nat, NextPart(rsp.data, step),
         Offset(ndef.blk + step) = Offset(ndef.blk) + Width
  PROVE  TagInv'
<1>0. pc = "engine" /\ op' = op /\ type' = type
  BY DEF EngineStep, tagVars
<1>1. /\ ndef \in Ndefs /\ ndef.blk \in Nat /\ ndef.state \in States
      /\ ndef.ptr \in Nat /\ ndef.size \in Nat /\ Width \in Nat
  BY <1>0, PartsOf
<1>2. ndef = [state |-> ndef.state, blk |-> ndef.blk, ptr |-> ndef.ptr, size |-> ndef.size]
  BY <1>1, NdefFacts
<1>3. /\ buffer' = Copied(rsp.data) /\ Send(Read(ndef'.blk))
      /\ ndef' = [ndef EXCEPT !.ptr = ndef.ptr + Len(rsp.data), !.blk = ndef.blk + step]
  BY <1>2 DEF NextPart
<1>4. ndef' = [state |-> ndef.state, blk |-> ndef.blk + step,
               ptr |-> ndef.ptr + Len(rsp.data), size |-> ndef.size]
  BY <1>2, <1>3
<1>5. ndef'.state = ndef.state /\ ndef'.blk = ndef.blk + step /\ ndef.blk + step \in Nat
  BY <1>1, <1>4
<1>6. cmd' = Read(ndef'.blk) /\ Send(cmd')
  BY <1>3 DEF Send
<1>b. PICK b \in Nat : b = ndef.blk + step
  BY <1>1
<1>7. Cmds(cmd') /\ cmd'.what = "read"
  <2>1. "read" \in Commands /\ 0 \in 0 .. 255
    BY DEF Commands
  <2>2. cmd' = Cmd("read", b, 0, <<>>)
    BY <1>5, <1>6, <1>b DEF Read
  <2>3. /\ Cmds(Cmd("read", b, 0, <<>>)) /\ Cmd("read", b, 0, <<>>).what = "read"
    BY <2>1, AskCmd
  <2> QED
    BY <2>2, <2>3
<1>8. InParts' /\ ReadFits'
  <2>1. InParts'
    BY <1>0, <1>5 DEF InParts
  <2> QED
    BY <1>0, <1>5, <1>6, <1>7, <2>1 DEF InParts, ReadFits, InState
<1>9. Place' = Place + Width
  <2>1. Place = Offset(ndef.blk)
    BY DEF Place
  <2>2. ndef'.blk = b /\ ndef'.state # "Authenticated"
    BY <1>5, <1>b
  <2>3. Offset(b)' = Offset(b)
    BY <1>0 DEF Offset
  <2>4. Place' = Offset(b)
    BY <1>0, <2>2, <2>3 DEF Place
  <2>5. Offset(b) = Offset(ndef.blk) + Width
    BY <1>b
  <2> QED
    BY <2>1, <2>4, <2>5
<1>10. Remaining >= Width
  BY <1>1 DEF Remaining
<1> QED
  BY <1>1, <1>3, <1>4, <1>5, <1>6, <1>7, <1>8, <1>9, <1>10, NextPartKeeps

(* The engine ends without a word.                                           *)
LEMMA QuitKeeps ==
  ASSUME TagInv, EngineStep, Quits
  PROVE  TagInv'
<1>1. /\ pc' = "idle" /\ heard' = [kind |-> None, data |-> <<>>]
      /\ UNCHANGED <<cmd, ndef, buffer, content, whole>>
  BY DEF Quits, Ends
<1>2. Heards(heard') /\ heard'.kind # "message"
  BY <1>1 DEF Heards, Bytes, None
<1>3. Laid'
  BY <1>1, LaidStep DEF TagInv
<1>4. /\ ndef' \in Ndefs /\ buffer' \in Bytes /\ Len(buffer') <= MaxFile
      /\ content' \in Bytes /\ whole' \in BOOLEAN
  BY <1>1 DEF TagInv, TypeOK, Ndefs, BufferHolds
<1> QED
  BY <1>1, <1>2, <1>3, <1>4, EndKeeps

(* What the engine finds when it looks for the message in d.                 *)
LEMMA Found ==
  ASSUME NEW k, Headed(mem, k), mem \in Bytes, NEW d \in Bytes, NEW u \in Nat, u >= 2, u <= Len(d),
         \A i \in 1 .. u : d[i] = Cell(mem, i)
  PROVE  /\ k + 1 <= u => FindNdefTlv(d) = k + 1
         /\ k + 1 > Len(d) => FindNdefTlv(d) = 0
<1>1. k \in Nat /\ (k # 0 => k >= 2) /\ Len(d) \in Nat /\ Len(d) > 1
  BY DEF Headed, Bytes
<1>2. 1 \in 1 .. u /\ 2 \in 1 .. u
  OBVIOUS
<1>3. CASE k = 0
  BY <1>1, <1>2, <1>3, FindFacts DEF Headed
<1>4. CASE k # 0
  <2>1. d[1] # NdefTlv /\ d[2] = k - 2 /\ d[2] + 3 = k + 1
    BY <1>1, <1>2, <1>4 DEF Headed
  <2>2. k + 1 <= u => d[k + 1] = NdefTlv /\ k + 1 <= Len(d)
    BY <1>1 DEF Headed
  <2> QED
    BY <1>1, <2>1, <2>2, FindFacts
<1> QED
  BY <1>3, <1>4

(* Where the header is on a tag with blocks.                                 *)
LEMMA Header ==
  ASSUME TagInv, type \notin Sized
  PROVE  \E k \in Nat : Headed(mem, k) /\ (Exact => Holds(mem, k, content))
  BY DEF TagInv, Laid

(* What a T1T returns with RALL.                                             *)
LEMMA CardRead ==
  ASSUME TagInv, pc = "engine", type = "T1T", op = "read", ndef.state = "Reading_CardContent",
         rsp.ok
  PROVE  /\ rsp.data \in Bytes /\ Len(rsp.data) = 108
         /\ \A i \in 1 .. 92 : rsp.data[i] = Cell(mem, i)
         /\ SubSeq(rsp.data, 1, Len(rsp.data) - 16) \in Bytes
         /\ Len(SubSeq(rsp.data, 1, Len(rsp.data) - 16)) = 92
         /\ \A i \in 1 .. 92 : SubSeq(rsp.data, 1, Len(rsp.data) - 16)[i] = Cell(mem, i)
<1> DEFINE a == Cells(mem, 0, 92)
           z == [i \in 1 .. 16 |-> Pad]
           d == SubSeq(rsp.data, 1, Len(rsp.data) - 16)
<1>1. rsp.data = a \o z /\ mem \in Bytes
  <2>1. cmd.what = "rall"
    BY DEF TagInv, Busy, ReadFits, InState
  <2>2. rsp.data = Answer /\ mem \in Bytes
    BY <2>1 DEF TagInv, AnswerStands, TypeOK
  <2> QED
    BY <2>1, <2>2 DEF Answer
<1>2. a \in Bytes /\ Len(a) = 92 /\ \A i \in 1 .. 92 : a[i] = Cell(mem, i)
  <2>1. 92 \in Nat
    OBVIOUS
  <2> QED
    BY <1>1, <2>1, CellsFront
<1>3. z \in Seq(Nat) /\ Len(z) = 16
  BY DEF Pad
<1> HIDE DEF a, z
<1>4. /\ rsp.data \in Bytes /\ Len(rsp.data) = 108
      /\ \A i \in 1 .. 92 : rsp.data[i] = Cell(mem, i)
  <2>1. a \in Seq(Nat)
    BY <1>2 DEF Bytes
  <2>2. /\ a \o z \in Seq(Nat) /\ Len(a \o z) = Len(a) + Len(z)
        /\ \A i \in 1 .. Len(a) : (a \o z)[i] = a[i]
    BY <1>3, <2>1, JoinFacts
  <2>3. Len(a) + Len(z) = 108
    BY <1>2, <1>3
  <2> QED
    BY <1>1, <1>2, <2>2, <2>3, ZenonT(30) DEF Bytes
<1>5. d \in Bytes /\ Len(d) = 92 /\ \A i \in 1 .. 92 : d[i] = Cell(mem, i)
  <2>1. Len(rsp.data) - 16 = 92 /\ 92 \in Nat /\ 92 <= Len(rsp.data)
    BY <1>4
  <2> HIDE DEF d
  <2>2. d = SubSeq(rsp.data, 1, 92)
    BY <2>1 DEF d
  <2>3. PICK u \in Nat : u = 92
    OBVIOUS
  <2>4. rsp.data \in Bytes /\ u <= Len(rsp.data) /\ d = SubSeq(rsp.data, 1, u)
    BY <1>4, <2>1, <2>2, <2>3
  <2>5. d \in Bytes /\ Len(d) = u /\ \A i \in 1 .. u : d[i] = rsp.data[i]
    BY <2>4, BeginFacts
  <2> QED
    BY <1>4, <2>3, <2>5
<1> QED
  BY <1>4, <1>5

(* T1T keeps the invariant.                                                  *)
LEMMA T1TTag ==
  ASSUME TagInv, T1T
  PROVE  TagInv'
<1>1. CASE T1TInitial
  <2>1. EngineStep /\ Goto("Getting_ID") /\ Send(Cmd("rid", 0, 0, <<>>))
    BY <1>1, InFacts DEF T1TInitial
  <2>2. /\ "Getting_ID" \in States \ Marked /\ "rid" \in Commands \ {"write", "write_data"}
        /\ 0 \in Nat /\ 0 \in 0 .. 255
    BY DEF States, Marked, Commands
  <2> QED
    BY <2>1, <2>2, PlainAsk
<1>2. CASE T1TGettingID
  <2>1. /\ EngineStep /\ type = "T1T" /\ op = "read"
        /\ Goto("Reading_CardContent") /\ Send(Cmd("rall", 0, 0, <<>>))
    BY <1>2, InFacts DEF T1TGettingID
  <2>2. /\ "Reading_CardContent" \in States /\ "rall" \in Commands
        /\ 0 \in Nat /\ 0 \in 0 .. 255
    BY DEF States, Commands
  <2> QED
    BY <2>1, <2>2, AskKeeps
<1>3. CASE T1TReadingCardContent
  <2>1. /\ EngineStep /\ pc = "engine" /\ type = "T1T" /\ op = "read"
        /\ ndef.state = "Reading_CardContent" /\ rsp.ok
    BY <1>3, InFacts DEF T1TReadingCardContent
  <2> DEFINE d == SubSeq(rsp.data, 1, Len(rsp.data) - 16)
  <2>2. /\ rsp.data \in Bytes /\ Len(rsp.data) = 108 /\ mem \in Bytes
        /\ \A i \in 1 .. 92 : rsp.data[i] = Cell(mem, i)
    BY <2>1, CardRead DEF TagInv, TypeOK
  <2>3. d \in Bytes /\ Len(d) = 92 /\ \A i \in 1 .. 92 : d[i] = Cell(mem, i)
    BY <2>1, CardRead
  <2>4. PICK k \in Nat : Headed(mem, k) /\ (Exact => Holds(mem, k, content))
    BY <2>1, Header DEF Sized
  <2>5. k <= 88
    BY <2>4 DEF Headed
  <2>6. FindNdefTlv(rsp.data) = k + 1
    <3>1. PICK u \in Nat : u = 92
      OBVIOUS
    <3>2. /\ u >= 2 /\ u <= Len(rsp.data) /\ k + 1 <= u
          /\ \A i \in 1 .. u : rsp.data[i] = Cell(mem, i)
      BY <2>2, <2>5, <3>1
    <3> QED
      BY <2>2, <2>4, <3>2, Found
  <2>7. FirstPart(d, k + 1, FALSE, 16, "Reading_NDEF")
    <3>1. k + 1 # 0
      OBVIOUS
    <3> QED
      BY <1>3, <2>6, <3>1 DEF T1TReadingCardContent
  <2>8. Offset(16) = 92
    BY <2>1 DEF Offset
  <2> HIDE DEF d
  <2> QED
    <3>1. PICK p \in Nat \ {0} : p = k + 1
      OBVIOUS
    <3>2. PICK next \in Nat : next = 16
      OBVIOUS
    <3>3. /\ \A i \in 1 .. Len(d) : d[i] = Cell(mem, i)
          /\ p + 1 <= Len(d) /\ Offset(next) = Len(d)
      BY <2>3, <2>5, <2>8, <3>1, <3>2
    <3>4. ~LongLengths
      BY <2>1 DEF LongLengths
    <3>5. FirstPart(d, p, LongLengths, next, "Reading_NDEF")
      BY <2>7, <3>1, <3>2, <3>4 DEF FirstPart
    <3>6. Exact => Holds(mem, p - 1, content)
      <4>1. p - 1 = k
        BY <3>1
      <4> QED
        BY <2>4, <4>1
    <3> QED
      BY <2>1, <2>3, <3>3, <3>4, <3>5, <3>6, FirstPartKeeps
<1>4. CASE T1TReadingNDEF
  <2>1. /\ EngineStep /\ pc = "engine" /\ type = "T1T" /\ op = "read"
        /\ ndef.state = "Reading_NDEF" /\ rsp.ok
        /\ IF Remaining < 8 THEN LastPart(rsp.data) ELSE NextPart(rsp.data, 1)
    BY <1>4, InFacts DEF T1TReadingNDEF
  <2>2. InParts /\ Width = 8
    BY <2>1 DEF InParts, Width
  <2>3. Remaining \in Int /\ ndef.blk \in Nat
    BY <2>1, <2>2, PartsOf DEF Remaining
  <2>4. CASE Remaining < 8
    <3>1. Remaining <= Width
      BY <2>2, <2>3, <2>4
    <3> QED
      BY <2>1, <2>2, <2>4, <3>1, LastPartKeeps
  <2>5. CASE ~(Remaining < 8)
    <3>1. Offset(ndef.blk + 1) = Offset(ndef.blk) + Width
      BY <2>1, <2>2, <2>3 DEF Offset
    <3> QED
      BY <2>1, <2>2, <2>5, <3>1, NextPartSends
  <2> QED
    BY <2>4, <2>5
<1> QED
  BY <1>1, <1>2, <1>3, <1>4 DEF T1T

-----------------------------------------------------------------------------
(* T2T and T5T reads                                                         *)

(* The first block: the message begins in it, or the engine quits.           *)
LEMMA FirstBlockKeeps ==
  ASSUME TagInv, EngineStep, op = "read", ndef.state # "Initial", rsp.ok,
         NEW b \in Nat, cmd = Read(b), Offset(b) = 0,
         NEW next \in Nat, Offset(next) = Width,
         NEW state, \/ type \in {"T2T", "T5T"} /\ state = "Reading_NDEF"
                    \/ type = "MIFARE" /\ state = "Reading_Data" /\ next >= 4,
         IF FindNdefTlv(rsp.data) = 0 THEN Quits
         ELSE FirstPart(rsp.data, FindNdefTlv(rsp.data), LongLengths, next, state)
  PROVE  TagInv'
<1>0. pc = "engine" /\ type \in {"T2T", "T5T", "MIFARE"} /\ type # "T4T" /\ type \notin Sized
  BY DEF EngineStep, Sized
<1>1. /\ rsp.data \in Bytes /\ Len(rsp.data) = Width /\ mem \in Bytes
      /\ \A i \in 1 .. Len(rsp.data) : rsp.data[i] = Cell(mem, i)
  <2>1. /\ rsp.data \in Bytes /\ Len(rsp.data) = Width
        /\ \A i \in 1 .. Width : rsp.data[i] = Cell(mem, Offset(b) + i)
    BY <1>0, BlockRead
  <2>2. mem \in Bytes /\ \A i \in 1 .. Width : Offset(b) + i = i
    BY DEF TagInv, TypeOK, Width
  <2> QED
    BY <2>1, <2>2
<1>2. PICK k \in Nat : Headed(mem, k) /\ (Exact => Holds(mem, k, content))
  BY <1>0, Header
<1>3. /\ Width = IF type = "T5T" THEN 4 ELSE 16
      /\ k \in {0} \cup 2 .. 12 \cup 16 .. 88 /\ (type = "T5T" => k = 0)
      /\ (LongLengths => type # "T5T")
  BY <1>0, <1>2 DEF Width, Headed, LongLengths
<1>4. PICK w \in Nat : w = Width
  BY <1>0 DEF Width
<1>5. /\ w >= 2 /\ w <= Len(rsp.data) /\ Len(rsp.data) = w
      /\ \A i \in 1 .. w : rsp.data[i] = Cell(mem, i)
  BY <1>0, <1>1, <1>3, <1>4
<1>6. /\ k + 1 <= w => FindNdefTlv(rsp.data) = k + 1
      /\ k + 1 > Len(rsp.data) => FindNdefTlv(rsp.data) = 0
  BY <1>1, <1>2, <1>5, Found
<1>7. CASE k + 1 > w
  BY <1>5, <1>6, <1>7, QuitKeeps
<1>8. CASE ~(k + 1 > w)
  <2>1. PICK p \in Nat \ {0} : p = k + 1
    OBVIOUS
  <2>2. FindNdefTlv(rsp.data) = p /\ p # 0
    BY <1>6, <1>8, <2>1
  <2>3. FirstPart(rsp.data, p, LongLengths, next, state)
    BY <2>2
  <2>4. p + 1 <= Len(rsp.data) /\ (LongLengths => p + 3 <= Len(rsp.data))
    BY <1>3, <1>4, <1>5, <1>8, <2>1
  <2>5. Exact => Holds(mem, p - 1, content)
    <3>1. p - 1 = k
      BY <2>1
    <3> QED
      BY <1>2, <3>1
  <2>6. Offset(next) = Len(rsp.data)
    BY <1>1
  <2>7. /\ TagInv /\ EngineStep /\ op = "read"
        /\ \/ type \in {"T1T", "T2T", "T5T"} /\ state = "Reading_NDEF"
           \/ type = "MIFARE" /\ state = "Reading_Data" /\ next >= 4
    OBVIOUS
  <2> QED
    BY <1>1, <2>3, <2>4, <2>5, <2>6, <2>7, FirstPartKeeps
<1> QED
  BY <1>7, <1>8

(* A further block, or the last one.                                         *)
LEMMA PartKeeps ==
  ASSUME TagInv, EngineStep, InParts, type # "T4T", ndef.state # "Authenticated", rsp.ok,
         NEW step \in Nat, Offset(ndef.blk + step) = Offset(ndef.blk) + Width,
         \/ Remaining <= Width /\ LastPart(rsp.data)
         \/ ~(Remaining < Width) /\ NextPart(rsp.data, step)
  PROVE  TagInv'
<1>1. CASE Remaining <= Width /\ LastPart(rsp.data)
  BY <1>1, LastPartKeeps
<1>2. CASE ~(Remaining < Width) /\ NextPart(rsp.data, step)
  BY <1>2, NextPartSends
<1> QED
  BY <1>1, <1>2

(* T2T, reading, keeps the invariant.                                        *)
LEMMA T2TReads ==
  ASSUME TagInv, T2TReadingCC \/ T2TReadingData \/ T2TReadingNDEF
  PROVE  TagInv'
<1>1. CASE T2TReadingCC
  <2>1. /\ EngineStep /\ type = "T2T" /\ op = "read"
        /\ Goto("Reading_Data") /\ Send(Cmd("read", 4, 0, <<>>))
        /\ Cmd("read", 4, 0, <<>>) = Read(4)
    BY <1>1, InFacts DEF T2TReadingCC, Read
  <2>2. /\ "Reading_Data" \in States /\ "read" \in Commands
        /\ 4 \in Nat /\ 0 \in 0 .. 255
    BY DEF States, Commands
  <2> QED
    BY <2>1, <2>2, AskKeeps
<1>2. CASE T2TReadingData
  <2>1. /\ EngineStep /\ pc = "engine" /\ type = "T2T" /\ op = "read"
        /\ ndef.state = "Reading_Data" /\ rsp.ok
    BY <1>2, InFacts DEF T2TReadingData
  <2>2. cmd = Read(4)
    BY <2>1 DEF TagInv, Busy, ReadFits, InState
  <2>3. Offset(4) = 0 /\ Offset(8) = Width /\ LongLengths
    BY <2>1 DEF Offset, Width, LongLengths
  <2>4. PICK b \in Nat : b = 4
    OBVIOUS
  <2>5. PICK next \in Nat : next = 8
    OBVIOUS
  <2>6. IF FindNdefTlv(rsp.data) = 0 THEN Quits
        ELSE FirstPart(rsp.data, FindNdefTlv(rsp.data), LongLengths, next, "Reading_NDEF")
    BY <1>2, <2>3, <2>5, ZenonT(30) DEF T2TReadingData, FirstPart
  <2>7. Offset(b) = 0 /\ Offset(next) = Width /\ cmd = Read(b) /\ ndef.state # "Initial"
    BY <2>1, <2>2, <2>3, <2>4, <2>5
  <2> QED
    BY <2>1, <2>6, <2>7, FirstBlockKeeps
<1>3. CASE T2TReadingNDEF
  <2>1. /\ EngineStep /\ pc = "engine" /\ type = "T2T" /\ op = "read"
        /\ ndef.state = "Reading_NDEF" /\ rsp.ok
        /\ IF Remaining < 16 THEN LastPart(rsp.data) ELSE NextPart(rsp.data, 4)
    BY <1>3, InFacts DEF T2TReadingNDEF
  <2>2. InParts /\ Width = 16
    BY <2>1 DEF InParts, Width
  <2>3. Remaining \in Int /\ ndef.blk \in Nat
    BY <2>1, <2>2, PartsOf DEF Remaining
  <2>4. Offset(ndef.blk + 4) = Offset(ndef.blk) + Width
    BY <2>1, <2>2, <2>3 DEF Offset
  <2>5. \/ Remaining <= Width /\ LastPart(rsp.data)
        \/ ~(Remaining < Width) /\ NextPart(rsp.data, 4)
    BY <2>1, <2>2, <2>3
  <2> QED
    BY <2>1, <2>2, <2>4, <2>5, PartKeeps
<1> QED
  BY <1>1, <1>2, <1>3

(* The first block of a T5T begins with the NDEF TLV.                        *)
LEMMA T5TFirst ==
  ASSUME TagInv, T5TReadingData, NEW next \in Nat, next = 2
  PROVE  IF FindNdefTlv(rsp.data) = 0 THEN Quits
         ELSE FirstPart(rsp.data, FindNdefTlv(rsp.data), LongLengths, next, "Reading_NDEF")
<1>1. /\ pc = "engine" /\ type = "T5T" /\ op = "read" /\ ndef.state = "Reading_Data" /\ rsp.ok
      /\ ndef.state # "Initial"
  BY InFacts DEF T5TReadingData
<1>2. PICK b \in Nat : b = 1
  OBVIOUS
<1>3. cmd = Read(b) /\ Offset(b) = 0 /\ ~LongLengths
  BY <1>1, <1>2 DEF TagInv, Busy, ReadFits, InState, Offset, LongLengths
<1>4. FindNdefTlv(rsp.data) = 1 /\ rsp.data[1] = NdefTlv
  <2>1. /\ rsp.data \in Bytes /\ Len(rsp.data) = Width /\ mem \in Bytes
        /\ \A i \in 1 .. Width : rsp.data[i] = Cell(mem, Offset(b) + i)
    BY <1>1, <1>3, BlockRead DEF TagInv, TypeOK
  <2>2. Width = 4
    BY <1>1 DEF Width
  <2>3. /\ rsp.data \in Bytes /\ Len(rsp.data) = 4
        /\ \A i \in 1 .. 4 : rsp.data[i] = Cell(mem, i)
    BY <1>3, <2>1, <2>2
  <2>4. PICK k \in Nat : Headed(mem, k)
    BY <1>1, Header DEF Sized
  <2>5. k = 0 /\ Cell(mem, k + 1) = NdefTlv
    BY <1>1, <2>4 DEF Headed
  <2>6. rsp.data[1] = NdefTlv
    BY <2>3, <2>5
  <2>7. PICK u \in Nat : u = 4
    OBVIOUS
  <2>8. u >= 2 /\ u <= Len(rsp.data) /\ \A i \in 1 .. u : rsp.data[i] = Cell(mem, i)
    BY <2>3, <2>7
  <2>9. k + 1 <= u => FindNdefTlv(rsp.data) = k + 1
    BY <2>1, <2>4, <2>8, Found
  <2> QED
    BY <2>5, <2>6, <2>7, <2>9
<1>5. FirstPart(rsp.data, 1, FALSE, 2, "Reading_NDEF")
  BY <1>4 DEF T5TReadingData
<1>6. FirstPart(rsp.data, FindNdefTlv(rsp.data), FALSE, next, "Reading_NDEF")
  BY <1>4, <1>5
<1>7. PICK p : p = FindNdefTlv(rsp.data)
  OBVIOUS
<1>8. FirstPart(rsp.data, p, LongLengths, next, "Reading_NDEF")
  BY <1>3, <1>6, <1>7 DEF FirstPart
<1> QED
  BY <1>4, <1>7, <1>8

(* T5T, reading, keeps the invariant.                                        *)
LEMMA T5TReads ==
  ASSUME TagInv, T5TReadingCC \/ T5TReadingData \/ T5TReadingNDEF
  PROVE  TagInv'
<1>1. CASE T5TReadingCC
  <2>1. /\ EngineStep /\ type = "T5T" /\ op = "read"
        /\ Goto("Reading_Data") /\ Send(Cmd("read", 1, 0, <<>>))
        /\ Cmd("read", 1, 0, <<>>) = Read(1)
    BY <1>1, InFacts DEF T5TReadingCC, Read
  <2>2. /\ "Reading_Data" \in States /\ "read" \in Commands
        /\ 1 \in Nat /\ 0 \in 0 .. 255
    BY DEF States, Commands
  <2> QED
    BY <2>1, <2>2, AskKeeps
<1>2. CASE T5TReadingData
  <2>1. /\ EngineStep /\ pc = "engine" /\ type = "T5T" /\ op = "read"
        /\ ndef.state = "Reading_Data" /\ rsp.ok
    BY <1>2, InFacts DEF T5TReadingData
  <2>2. cmd = Read(1)
    BY <2>1 DEF TagInv, Busy, ReadFits, InState
  <2>3. Offset(1) = 0 /\ Offset(2) = Width
    BY <2>1 DEF Offset, Width
  <2>4. PICK b \in Nat : b = 1
    OBVIOUS
  <2>5. PICK next \in Nat : next = 2
    OBVIOUS
  <2>6. Offset(b) = 0 /\ Offset(next) = Width /\ cmd = Read(b) /\ ndef.state # "Initial"
    BY <2>1, <2>2, <2>3, <2>4, <2>5
  <2>7. IF FindNdefTlv(rsp.data) = 0 THEN Quits
        ELSE FirstPart(rsp.data, FindNdefTlv(rsp.data), LongLengths, next, "Reading_NDEF")
    BY <1>2, <2>5, T5TFirst
  <2> QED
    BY <2>1, <2>6, <2>7, FirstBlockKeeps
<1>3. CASE T5TReadingNDEF
  <2>1. /\ EngineStep /\ pc = "engine" /\ type = "T5T" /\ op = "read"
        /\ ndef.state = "Reading_NDEF" /\ rsp.ok
        /\ IF Remaining <= 4 THEN LastPart(rsp.data) ELSE NextPart(rsp.data, 1)
    BY <1>3, InFacts DEF T5TReadingNDEF
  <2>2. InParts /\ Width = 4
    BY <2>1 DEF InParts, Width
  <2>3. Remaining \in Int /\ ndef.blk \in Nat
    BY <2>1, <2>2, PartsOf DEF Remaining
  <2>4. Offset(ndef.blk + 1) = Offset(ndef.blk) + Width
    BY <2>1, <2>2, <2>3 DEF Offset
  <2>5. \/ Remaining <= Width /\ LastPart(rsp.data)
        \/ ~(Remaining < Width) /\ NextPart(rsp.data, 1)
    BY <2>1, <2>2, <2>3
  <2> QED
    BY <2>1, <2>2, <2>4, <2>5, PartKeeps
<1> QED
  BY <1>1, <1>2, <1>3

-----------------------------------------------------------------------------
(* T3T                                                                       *)

(* The message is refused.                                                   *)
LEMMA RefuseKeeps ==
  ASSUME TagInv, EngineStep, Refuse, ndef' \in Ndefs, buffer' = buffer
  PROVE  TagInv'
<1>1. /\ pc' = "idle" /\ heard' = [kind |-> "refused", data |-> <<>>]
      /\ UNCHANGED <<cmd, content, whole>>
  BY DEF Refuse, Ends
<1>2. Heards(heard') /\ heard'.kind # "message"
  BY <1>1 DEF Heards, Bytes
<1>3. Laid'
  BY <1>1, LaidStep DEF TagInv
<1>4. buffer' \in Bytes /\ Len(buffer') <= MaxFile /\ content' \in Bytes /\ whole' \in BOOLEAN
  BY <1>1 DEF TagInv, TypeOK, BufferHolds
<1> QED
  BY <1>1, <1>2, <1>3, <1>4, EndKeeps

(* Only the size changes.                                                    *)
LEMMA SizeStep ==
  ASSUME TagInv, NEW n \in Nat, ndef' = [ndef EXCEPT !.size = n]
  PROVE  ndef' \in Ndefs
<1>1. ndef \in Ndefs
  BY DEF TagInv, TypeOK, Ndefs
<1>2. ndef' = [state |-> ndef.state, blk |-> ndef.blk, ptr |-> ndef.ptr, size |-> n]
  BY <1>1, NdefFacts
<1> QED
  BY <1>1, <1>2, NdefFacts

(* The command that reads a block.                                           *)
LEMMA ReadCmd ==
  ASSUME NEW b \in Nat
  PROVE  Cmds(Read(b)) /\ Read(b).what = "read" /\ Read(b) = Cmd("read", b, 0, <<>>)
<1>1. "read" \in Commands /\ 0 \in 0 .. 255
  BY DEF Commands
<1> QED
  BY <1>1, AskCmd DEF Read

(* T3T keeps the invariant.                                                  *)
LEMMA T3TTag ==
  ASSUME TagInv, T3T
  PROVE  TagInv'
<1>1. CASE T3TInitial
  <2>1. /\ EngineStep /\ type = "T3T" /\ op = "read"
        /\ Goto("Getting_AttributeInfo") /\ Send(Cmd("attribute", 0, 0, <<>>))
    BY <1>1, InFacts DEF T3TInitial
  <2>2. /\ "Getting_AttributeInfo" \in States /\ "attribute" \in Commands
        /\ 0 \in Nat /\ 0 \in 0 .. 255
    BY DEF States, Commands
  <2> QED
    BY <2>1, <2>2, AskKeeps
<1>2. CASE T3TGettingAttributeInfo
  <2> DEFINE n == rsp.data[1]
  <2>1. /\ EngineStep /\ pc = "engine" /\ type = "T3T" /\ op = "read"
        /\ ndef.state = "Getting_AttributeInfo" /\ rsp.ok /\ buffer' = buffer
    BY <1>2, InFacts DEF T3TGettingAttributeInfo
  <2>2. n = nlen /\ n \in Nat
    <3>1. cmd.what = "attribute"
      BY <2>1 DEF TagInv, Busy, ReadFits, InState
    <3>2. rsp.data = Answer /\ nlen \in Nat
      BY <2>1, <3>1 DEF TagInv, AnswerStands, TypeOK
    <3>3. Answer = <<nlen>> \o [i \in 1 .. 15 |-> Pad]
      BY <2>1, <3>1 DEF Answer
    <3>4. <<nlen>> \in Seq(Nat) /\ [i \in 1 .. 15 |-> Pad] \in Seq(Nat) /\ Len(<<nlen>>) = 1
      BY <3>2 DEF Pad
    <3>5. Answer[1] = nlen
      BY <3>3, <3>4, JoinFacts
    <3> QED
      BY <3>2, <3>5
  <2>3. \/ Refuse /\ ndef' = [ndef EXCEPT !.size = n]
        \/ /\ n <= MaxFile
           /\ ndef' = [state |-> "Reading_CardContent", blk |-> 1, ptr |-> 0, size |-> n]
           /\ Send(Read(1))
    <3>1. ~(n > MaxFile) => n <= MaxFile
      BY <2>2, RwAssumption
    <3> QED
      BY <1>2, <3>1 DEF T3TGettingAttributeInfo
  <2> HIDE DEF n
  <2>4. CASE Refuse /\ ndef' = [ndef EXCEPT !.size = n]
    BY <2>1, <2>2, <2>4, SizeStep, RefuseKeeps
  <2>5. CASE /\ n <= MaxFile
             /\ ndef' = [state |-> "Reading_CardContent", blk |-> 1, ptr |-> 0, size |-> n]
             /\ Send(Read(1))
    <3>1. /\ ndef' \in Ndefs /\ ndef'.state = "Reading_CardContent" /\ ndef'.blk = 1
          /\ ndef'.ptr = 0 /\ ndef'.size = n
      <4>1. "Reading_CardContent" \in States /\ 1 \in Nat /\ 0 \in Nat
        BY DEF States
      <4> QED
        BY <2>2, <2>5, <4>1, NdefFacts
    <3>2. /\ cmd' = Read(1) /\ Send(cmd') /\ Cmds(cmd') /\ cmd'.what = "read"
          /\ UNCHANGED <<content, whole>>
      <4>1. cmd' = Read(1) /\ Send(cmd') /\ UNCHANGED <<content, whole>>
        BY <2>5 DEF Send
      <4>2. 1 \in Nat
        OBVIOUS
      <4> QED
        BY <4>1, <4>2, ReadCmd
    <3>3. op' = "read" /\ type' = "T3T" /\ mem' = mem /\ nlen' = nlen
      BY <2>1 DEF EngineStep, tagVars
    <3>4. ReadFits' /\ WriteFits'
      BY <3>1, <3>2, <3>3 DEF ReadFits, WriteFits, Began, InParts, InState
    <3>5. /\ buffer' \in Bytes /\ Len(buffer') <= MaxFile /\ 0 <= Len(buffer') /\ 0 <= n
          /\ content \in Bytes
      BY <2>1, <2>2 DEF TagInv, TypeOK, BufferHolds, Bytes
    <3>6. Place' = 0
      BY <3>1, <3>3 DEF Place, Offset
    <3>7. ASSUME Exact PROVE Progress'
      <4>1. n = Len(content) /\ \A i \in 1 .. Len(content) : Cell(mem, i) = content[i]
        BY <2>1, <2>2, <3>7 DEF TagInv, Laid, Exact, Sized
      <4>2. ASSUME NEW i \in Nat \ {0}, 0 + i <= n PROVE Cell(mem, 0 + i) = content[0 + i]
        <5>1. 0 + i = i /\ i \in 1 .. Len(content)
          BY <2>2, <4>1, <4>2
        <5> QED
          BY <4>1, <5>1
      <4> QED
        BY <3>1, <3>2, <3>3, <3>6, <4>1, <4>2 DEF Progress
    <3>8. PartsFit'
      <4>1. Exact' <=> Exact
        BY <2>1, <3>2, LaidStep DEF TagInv
      <4> QED
        BY <2>5, <3>1, <3>3, <3>5, <3>7, <4>1 DEF PartsFit
    <3> QED
      BY <2>1, <3>1, <3>2, <3>4, <3>5, <3>8, CommandKeeps
  <2> QED
    BY <2>3, <2>4, <2>5
<1>3. CASE T3TReadingCardContent
  <2>1. /\ EngineStep /\ pc = "engine" /\ type = "T3T" /\ op = "read"
        /\ ndef.state = "Reading_CardContent" /\ rsp.ok
        /\ IF Remaining <= 16 THEN LastPart(rsp.data) ELSE NextPart(rsp.data, 1)
    BY <1>3, InFacts DEF T3TReadingCardContent
  <2>2. InParts /\ Width = 16
    BY <2>1 DEF InParts, Width
  <2>3. Remaining \in Int /\ ndef.blk \in Nat
    BY <2>1, <2>2, PartsOf DEF Remaining
  <2>4. Offset(ndef.blk + 1) = Offset(ndef.blk) + Width
    BY <2>1, <2>2, <2>3 DEF Offset
  <2>5. \/ Remaining <= Width /\ LastPart(rsp.data)
        \/ ~(Remaining < Width) /\ NextPart(rsp.data, 1)
    BY <2>1, <2>2, <2>3
  <2> QED
    BY <2>1, <2>2, <2>4, <2>5, PartKeeps
<1> QED
  BY <1>1, <1>2, <1>3 DEF T3T

-----------------------------------------------------------------------------
(* MIFARE reads: the blocks of a sector but its trailer follow one another.  *)
LEMMA DataBlocks ==
  ASSUME type = "MIFARE", NEW b \in Nat, b % 4 # 3
  PROVE  /\ ~Trailer(b + 1) => Offset(b + 1) = Offset(b) + 16
         /\ Trailer(b + 1) => Offset(b + 2) = Offset(b) + 16
<1>1. /\ ~Trailer(b + 1) => (b + 1) \div 4 = b \div 4 /\ (b + 1) % 4 = (b % 4) + 1
      /\ Trailer(b + 1) => (b + 2) \div 4 = (b \div 4) + 1 /\ (b + 2) % 4 = 0 /\ b % 4 = 2
  BY DEF Trailer
<1> QED
  BY <1>1 DEF Offset

-----------------------------------------------------------------------------
(* MIFARE reads                                                              *)

(* After the authentication, the first block of a sector further on.         *)
LEMMA SectorKeeps ==
  ASSUME TagInv, EngineStep, type = "MIFARE", op = "read", ndef.state = "Authenticated",
         ndef.blk # 4,
         ndef' = [state |-> "Reading_Data", blk |-> ndef.blk + 1, ptr |-> ndef.ptr,
                  size |-> ndef.size],
         Send(Read(ndef'.blk)), UNCHANGED buffer
  PROVE  TagInv'
<1>0. /\ pc = "engine" /\ InParts /\ type' = "MIFARE" /\ op' = "read" /\ mem' = mem
      /\ nlen' = nlen /\ UNCHANGED <<content, whole>>
  BY DEF EngineStep, tagVars, InParts, Send
<1>1. /\ PartsFit /\ ndef \in Ndefs /\ ndef.blk \in Nat /\ ndef.ptr \in Nat /\ ndef.size \in Nat
  BY <1>0, PartsOf
<1>b. PICK b \in Nat : b = ndef.blk + 1
  BY <1>1
<1>2. ndef' = [state |-> "Reading_Data", blk |-> b, ptr |-> ndef.ptr, size |-> ndef.size]
  BY <1>b
<1>3. /\ ndef' \in Ndefs /\ ndef'.state = "Reading_Data" /\ ndef'.blk = b
      /\ ndef'.ptr = ndef.ptr /\ ndef'.size = ndef.size
  <2>1. "Reading_Data" \in States
    BY DEF States
  <2> QED
    BY <1>1, <1>2, <2>1, NdefFacts
<1>4. cmd' = Read(b) /\ Send(cmd') /\ Cmds(cmd') /\ cmd'.what = "read"
  <2>1. cmd' = Read(b) /\ Send(cmd')
    BY <1>3 DEF Send
  <2> QED
    BY <2>1, ReadCmd
<1>5. ReadFits' /\ WriteFits'
  BY <1>0, <1>3, <1>4 DEF ReadFits, WriteFits, Began, InParts, InState
<1>6. Place' = Place
  <2>1. Offset(b)' = Offset(b)
    BY <1>0 DEF Offset
  <2>2. Place = Offset(b)
    BY <1>b DEF Place
  <2> QED
    BY <1>0, <1>3, <2>1, <2>2 DEF Place
<1>7. PartsFit'
  <2>1. Exact' <=> Exact
    BY <1>0 DEF Exact
  <2>2. Exact => Progress'
    BY <1>0, <1>1, <1>3, <1>6 DEF PartsFit, Progress
  <2> QED
    BY <1>0, <1>1, <1>3, <2>1, <2>2 DEF PartsFit
<1>8. buffer' \in Bytes /\ Len(buffer') <= MaxFile
  BY DEF TagInv, TypeOK, BufferHolds
<1> QED
  BY <1>3, <1>4, <1>5, <1>7, <1>8, CommandKeeps

(* Before the authentication of the next sector.                             *)
LEMMA TrailerKeeps ==
  ASSUME TagInv, EngineStep, type = "MIFARE", op = "read", ndef.state = "Reading_Data", rsp.ok,
         ndef.blk >= 4, ndef.blk % 4 # 3, Trailer(ndef.blk + 1), ~(Remaining < 16),
         buffer' = Copied(rsp.data),
         ndef' = [state |-> "Authenticated", blk |-> ndef.blk + 1,
                  ptr |-> ndef.ptr + Len(rsp.data), size |-> ndef.size],
         Send(Auth((ndef.blk + 2) \div 4))
  PROVE  TagInv'
<1>0. /\ pc = "engine" /\ InParts /\ type' = "MIFARE" /\ op' = "read" /\ Width = 16
  BY DEF EngineStep, tagVars, InParts, Width
<1>1. /\ ndef \in Ndefs /\ ndef.blk \in Nat /\ ndef.ptr \in Nat /\ ndef.size \in Nat
  BY <1>0, PartsOf
<1>b. PICK b \in Nat : b = ndef.blk + 1
  BY <1>1
<1>c. PICK c \in Nat : c = ndef.blk + 2 /\ c = b + 1
  BY <1>1, <1>b
<1>2. /\ ndef'.state = "Authenticated" /\ ndef'.blk = b /\ b # 4
  BY <1>1, <1>b
<1>3. cmd' = Auth(c \div 4) /\ Send(cmd') /\ Cmds(cmd') /\ cmd'.what = "auth"
  <2>1. cmd' = Auth(c \div 4) /\ Send(cmd')
    BY <1>c DEF Send
  <2>2. c \div 4 \in Nat /\ "auth" \in Commands /\ 0 \in 0 .. 255
    BY DEF Commands
  <2> QED
    BY <2>1, <2>2, AskCmd DEF Auth
<1>4. InParts' /\ ReadFits'
  BY <1>0, <1>2, <1>3 DEF InParts, ReadFits, InState
<1>5. Place' = Place + Width
  <2>1. Place' = Offset(c)
    <3>1. Offset(c)' = Offset(c)
      BY <1>0 DEF Offset
    <3> QED
      BY <1>0, <1>2, <1>c, <3>1 DEF Place
  <2>2. Place = Offset(ndef.blk) /\ Offset(c) = Offset(ndef.blk) + 16
    BY <1>1, <1>c, DataBlocks DEF Place
  <2> QED
    BY <1>0, <2>1, <2>2
<1>6. Remaining >= Width /\ type # "T4T" /\ ndef.state # "Authenticated"
  BY <1>0, <1>1 DEF Remaining
<1>7. /\ "Authenticated" \in States
      /\ ndef' = [state |-> "Authenticated", blk |-> b,
                  ptr |-> ndef.ptr + Len(rsp.data), size |-> ndef.size]
  BY <1>b DEF States
<1> QED
  BY <1>0, <1>3, <1>4, <1>5, <1>6, <1>7, NextPartKeeps

(* MIFARE, on the way to the sectors of data.                                *)
LEMMA MifareAsks ==
  ASSUME TagInv, NEW o \in {"read", "write"}, Authenticate0(o) \/ ReadGpb(o)
  PROVE  TagInv'
<1>1. CASE Authenticate0(o)
  <2>1. EngineStep /\ Goto("Authenticated0") /\ Send(Cmd("auth", 0, 0, <<>>))
    BY <1>1, InFacts DEF Authenticate0, Auth
  <2>2. /\ "Authenticated0" \in States \ Marked /\ "auth" \in Commands \ {"write", "write_data"}
        /\ 0 \in Nat /\ 0 \in 0 .. 255
    BY DEF States, Marked, Commands
  <2> QED
    BY <2>1, <2>2, PlainAsk
<1>2. CASE ReadGpb(o)
  <2>1. EngineStep /\ Goto("Reading_GPB") /\ Send(Cmd("gpb", 1, 0, <<>>))
    BY <1>2, InFacts DEF ReadGpb, GpbBlock
  <2>2. /\ "Reading_GPB" \in States \ Marked /\ "gpb" \in Commands \ {"write", "write_data"}
        /\ 1 \in Nat /\ 0 \in 0 .. 255
    BY DEF States, Marked, Commands
  <2> QED
    BY <2>1, <2>2, PlainAsk
<1> QED
  BY <1>1, <1>2

(* MIFARE, reading, keeps the invariant.                                     *)
LEMMA MifareReads ==
  ASSUME TagInv, MifareInv, GpbRead \/ Authenticated \/ ReadingFirstBlk \/ ReadingData
  PROVE  TagInv'
<1>0. ndef \in Ndefs /\ ndef.blk \in Nat /\ buffer \in Bytes /\ Len(buffer) <= MaxFile
  BY DEF TagInv, TypeOK, Ndefs, BufferHolds
<1>1. CASE GpbRead
  <2>1. /\ EngineStep /\ type = "MIFARE" /\ op = "read"
        /\ ndef' = [ndef EXCEPT !.state = "Authenticated", !.blk = 4]
        /\ Send(Auth(1)) /\ UNCHANGED buffer
    BY <1>1, InFacts DEF GpbRead
  <2>2. type' = "MIFARE" /\ op' = "read"
    BY <2>1 DEF EngineStep, tagVars
  <2>3. ndef' = [state |-> "Authenticated", blk |-> 4, ptr |-> ndef.ptr, size |-> ndef.size]
    <3>1. ndef = [state |-> ndef.state, blk |-> ndef.blk, ptr |-> ndef.ptr, size |-> ndef.size]
      BY <1>0, NdefFacts
    <3> QED
      BY <2>1, <3>1
  <2>4. ndef' \in Ndefs /\ ndef'.state = "Authenticated" /\ ndef'.blk = 4
    <3>1. "Authenticated" \in States /\ 4 \in Nat
      BY DEF States
    <3> QED
      BY <1>0, <2>3, <3>1, NdefFacts
  <2>5. Send(cmd') /\ Cmds(cmd') /\ cmd'.what = "auth"
    <3>1. cmd' = Cmd("auth", 1, 0, <<>>) /\ Send(cmd')
      BY <2>1 DEF Send, Auth
    <3>2. "auth" \in Commands /\ 1 \in Nat /\ 0 \in 0 .. 255
      BY DEF Commands
    <3> QED
      BY <3>1, <3>2, AskCmd, ZenonT(30)
  <2>6. ReadFits' /\ PartsFit' /\ WriteFits'
    BY <2>2, <2>4, <2>5 DEF ReadFits, PartsFit, WriteFits, Began, InParts, InState
  <2> QED
    BY <1>0, <2>1, <2>4, <2>5, <2>6, CommandKeeps
<1>2. CASE Authenticated
  <2>1. /\ EngineStep /\ type = "MIFARE" /\ op = "read" /\ ndef.state = "Authenticated"
        /\ ndef' = IF ndef.blk = 4 THEN [ndef EXCEPT !.state = "Reading_FirstBlk"]
                   ELSE [ndef EXCEPT !.state = "Reading_Data", !.blk = ndef.blk + 1]
        /\ Send(Read(ndef'.blk)) /\ UNCHANGED buffer
    BY <1>2, InFacts DEF Authenticated
  <2>2. CASE ndef.blk # 4
    <3>1. ndef = [state |-> ndef.state, blk |-> ndef.blk, ptr |-> ndef.ptr, size |-> ndef.size]
      BY <1>0, NdefFacts
    <3>2. ndef' = [ndef EXCEPT !.state = "Reading_Data", !.blk = ndef.blk + 1]
      BY <2>1, <2>2
    <3>3. ndef' = [state |-> "Reading_Data", blk |-> ndef.blk + 1,
                   ptr |-> ndef.ptr, size |-> ndef.size]
      BY <3>1, <3>2
    <3> QED
      BY <2>1, <2>2, <3>3, SectorKeeps
  <2>3. CASE ndef.blk = 4
    <3>1. type' = "MIFARE" /\ op' = "read"
      BY <2>1 DEF EngineStep, tagVars
    <3>2. /\ "Reading_FirstBlk" \in States
          /\ ndef' = [ndef EXCEPT !.state = "Reading_FirstBlk"]
      BY <2>1, <2>3 DEF States
    <3>3. ndef' \in Ndefs /\ ndef'.state = "Reading_FirstBlk" /\ ndef'.blk = 4
      BY <2>3, <3>2, StateStep
    <3>4. cmd' = Read(4) /\ Send(cmd') /\ Cmds(cmd') /\ cmd'.what = "read"
      <4>1. cmd' = Read(4) /\ Send(cmd') /\ 4 \in Nat
        BY <2>1, <3>3 DEF Send
      <4> QED
        BY <4>1, ReadCmd
    <3>5. ReadFits' /\ PartsFit' /\ WriteFits'
      BY <3>1, <3>3, <3>4 DEF ReadFits, PartsFit, WriteFits, Began, InParts, InState
    <3> QED
      BY <1>0, <2>1, <3>3, <3>4, <3>5, CommandKeeps
  <2> QED
    BY <2>2, <2>3
<1>3. CASE ReadingFirstBlk
  <2>1. /\ EngineStep /\ pc = "engine" /\ type = "MIFARE" /\ op = "read"
        /\ ndef.state = "Reading_FirstBlk" /\ rsp.ok
    BY <1>3, InFacts DEF ReadingFirstBlk
  <2>2. cmd = Read(4)
    BY <2>1 DEF TagInv, Busy, ReadFits, InState
  <2>3. Offset(4) = 0 /\ Offset(5) = Width /\ LongLengths
    BY <2>1 DEF Offset, Width, LongLengths
  <2>4. PICK b \in Nat : b = 4
    OBVIOUS
  <2>5. PICK next \in Nat : next = 5 /\ next >= 4
    OBVIOUS
  <2>6. IF FindNdefTlv(rsp.data) = 0 THEN Quits
        ELSE FirstPart(rsp.data, FindNdefTlv(rsp.data), LongLengths, next, "Reading_Data")
    BY <1>3, <2>3, <2>5, ZenonT(30) DEF ReadingFirstBlk, FirstPart
  <2>7. Offset(b) = 0 /\ Offset(next) = Width /\ cmd = Read(b) /\ ndef.state # "Initial"
    BY <2>1, <2>2, <2>3, <2>4, <2>5
  <2> QED
    BY <2>1, <2>5, <2>6, <2>7, FirstBlockKeeps
<1>4. CASE ReadingData
  <2>1. /\ EngineStep /\ pc = "engine" /\ type = "MIFARE" /\ op = "read"
        /\ ndef.state = "Reading_Data" /\ rsp.ok
    BY <1>4, InFacts DEF ReadingData
  <2>2. InParts /\ Width = 16
    BY <2>1 DEF InParts, Width
  <2>3. Remaining \in Int /\ ndef.blk >= 4 /\ ndef.blk % 4 # 3
    <3>1. ndef.blk >= 4 /\ ndef.blk % 4 # 3
      BY <2>1 DEF MifareInv, PlaceOK
    <3> QED
      BY <2>1, <2>2, <3>1, PartsOf DEF Remaining
  <2>4. CASE Remaining < 16
    <3>1. LastPart(rsp.data) /\ Remaining <= Width
      BY <1>4, <2>2, <2>3, <2>4 DEF ReadingData
    <3> QED
      BY <2>1, <2>2, <3>1, LastPartKeeps
  <2>5. CASE ~(Remaining < 16) /\ ~Trailer(ndef.blk + 1)
    <3>1. NextPart(rsp.data, 1)
      BY <1>4, <2>5 DEF ReadingData
    <3>2. Offset(ndef.blk + 1) = Offset(ndef.blk) + Width
      BY <1>0, <2>1, <2>2, <2>3, <2>5, DataBlocks
    <3> QED
      BY <2>1, <2>2, <2>5, <3>1, <3>2, NextPartSends
  <2>6. CASE ~(Remaining < 16) /\ Trailer(ndef.blk + 1)
    <3>1. /\ buffer' = Copied(rsp.data)
          /\ ndef' = [state |-> "Authenticated", blk |-> ndef.blk + 1,
                      ptr |-> ndef.ptr + Len(rsp.data), size |-> ndef.size]
          /\ Send(Auth((ndef.blk + 2) \div 4))
      BY <1>4, <2>6 DEF ReadingData
    <3> QED
      BY <2>1, <2>3, <2>6, <3>1, TrailerKeeps
  <2> QED
    BY <2>4, <2>5, <2>6
<1> QED
  BY <1>1, <1>2, <1>3, <1>4

-----------------------------------------------------------------------------
(* T4T reads                                                                 *)

(* Selecting the application and its files.                                  *)
LEMMA T4TAsks ==
  ASSUME TagInv, NEW o \in {"read", "write"},
         \/ SelectApp20(o) \/ App20Answered(o) \/ App10Selected(o) \/ CCSelected(o) \/ CCRead(o)
         \/ NdefSelected
  PROVE  TagInv'
<1>0. /\ {"app20", "app10", "cc_file", "cc", "ndef_file"}
         \subseteq Commands \ {"write", "write_data"}
      /\ {"Selecting_NDEF_Application20", "Selecting_NDEF_Application10", "Selecting_CC",
          "Reading_CC", "Selecting_NDEF"} \subseteq States \ Marked
      /\ 0 \in Nat /\ 0 \in 0 .. 255 /\ 15 \in 0 .. 255
  BY DEF Commands, States, Marked
<1>1. CASE SelectApp20(o)
  <2>1. EngineStep /\ Goto("Selecting_NDEF_Application20") /\ Send(Cmd("app20", 0, 0, <<>>))
    BY <1>1, InFacts DEF SelectApp20
  <2> QED
    BY <1>0, <2>1, PlainAsk
<1>2. CASE App20Answered(o)
  <2>1. /\ EngineStep
        /\ \/ Goto("Selecting_CC") /\ Send(Cmd("cc_file", 0, 0, <<>>))
           \/ Goto("Selecting_NDEF_Application10") /\ Send(Cmd("app10", 0, 0, <<>>))
    BY <1>2, InFacts DEF App20Answered
  <2> QED
    BY <1>0, <2>1, PlainAsk
<1>3. CASE App10Selected(o)
  <2>1. EngineStep /\ Goto("Selecting_CC") /\ Send(Cmd("cc_file", 0, 0, <<>>))
    BY <1>3, InFacts DEF App10Selected
  <2> QED
    BY <1>0, <2>1, PlainAsk
<1>4. CASE CCSelected(o)
  <2>1. EngineStep /\ Goto("Reading_CC") /\ Send(Cmd("cc", 0, 15, <<>>))
    BY <1>4, InFacts DEF CCSelected
  <2> QED
    BY <1>0, <2>1, PlainAsk
<1>5. CASE CCRead(o)
  <2>1. EngineStep /\ Goto("Selecting_NDEF") /\ Send(Cmd("ndef_file", 0, 0, <<>>))
    BY <1>5, InFacts DEF CCRead
  <2> QED
    BY <1>0, <2>1, PlainAsk
<1>6. CASE NdefSelected
  <2>1. /\ EngineStep /\ type = "T4T" /\ op = "read"
        /\ Goto("Reading_NDEF_Size") /\ Send(Cmd("read", 0, 2, <<>>))
    BY <1>6, InFacts DEF NdefSelected
  <2>2. /\ "read" \in Commands /\ "Reading_NDEF_Size" \in States /\ 0 \in Nat /\ 2 \in 0 .. 255
        /\ "read" \notin {"write", "write_data"}
    BY DEF Commands, States
  <2> QED
    BY <2>1, <2>2, AskKeeps
<1> QED
  BY <1>1, <1>2, <1>3, <1>4, <1>5, <1>6

(* What a good answer to READ BINARY holds: the bytes of the file, the size  *)
(* in front of the message.                                                  *)
LEMMA FileRead ==
  ASSUME TagInv, pc = "engine", ndef.state # "Initial", rsp.ok, type = "T4T", auth = 2,
         NEW a \in Nat, NEW m \in 0 .. 255, cmd = Cmd("read", a, m, <<>>)
  PROVE  /\ rsp.data \in Bytes /\ Len(rsp.data) <= (IF m = 0 THEN 256 ELSE m)
         /\ Len(rsp.data) >= 1
         /\ a = 0 /\ m = 2 => rsp.data[1] = nlen \div 256 /\ rsp.data[2] = nlen % 256
         /\ \A i \in 1 .. Len(rsp.data) : a >= 2 => rsp.data[i] = Cell(mem, a - 2 + i)
<1> DEFINE h == <<nlen \div 256, nlen % 256>>
           c == Cells(mem, 0, cap)
           file == h \o c
           e == IF m = 0 THEN 256 ELSE m
           last == a + e
           end == IF last > Len(file) THEN Len(file) ELSE last
<1>1. rsp.data = Answer /\ Answer # NoAnswer /\ mem \in Bytes /\ nlen \in Nat /\ cap \in Nat
  BY DEF TagInv, AnswerStands, TypeOK, DataCaps, Cmd
<1>2. cmd.what = "read" /\ cmd.at = a /\ cmd.n = m
  BY DEF Cmd
<1>3. /\ h \in Seq(Nat) /\ Len(h) = 2 /\ h[1] = nlen \div 256 /\ h[2] = nlen % 256
  <2>1. nlen \div 256 \in Nat /\ nlen % 256 \in Nat
    BY <1>1
  <2> QED
    BY <2>1
<1>4. /\ c \in Seq(Nat) /\ Len(c) = cap /\ \A i \in 1 .. cap : c[i] = Cell(mem, i)
  BY <1>1, CellsFront DEF Bytes
<1>5. Answer = IF a >= Len(file) THEN NoAnswer ELSE SubSeq(file, a + 1, end)
  <2>1. Answer = T4TRead
    BY <1>2 DEF Answer, T4TAnswer
  <2>2. T4TRead = IF a >= Len(NdefFile) THEN NoAnswer
                  ELSE SubSeq(NdefFile, a + 1,
                              IF last > Len(NdefFile) THEN Len(NdefFile) ELSE last)
    BY <1>2 DEF T4TRead
  <2>3. NdefFile = file
    BY DEF NdefFile
  <2> QED
    BY <2>1, <2>2, <2>3
<1> HIDE DEF h, c
<1>6. /\ file \in Seq(Nat) /\ Len(file) = 2 + cap
      /\ \A i \in 1 .. 2 : file[i] = h[i]
      /\ \A i \in 1 .. cap : file[2 + i] = c[i]
  <2>1. /\ h \o c \in Seq(Nat) /\ Len(h \o c) = Len(h) + Len(c)
        /\ \A i \in 1 .. Len(h) : (h \o c)[i] = h[i]
        /\ \A i \in 1 .. Len(c) : (h \o c)[Len(h) + i] = c[i]
    BY <1>3, <1>4, JoinFacts
  <2> QED
    BY <1>3, <1>4, <2>1
<1> HIDE DEF file
<1>7. a < 2 + cap /\ rsp.data = SubSeq(file, a + 1, end)
  BY <1>1, <1>5, <1>6
<1> DEFINE n == end - a
<1>8. n \in Nat /\ n >= 1 /\ n <= e /\ n <= 2 + cap - a /\ e \in Nat /\ e > 0 /\ end = a + n
  <2>1. Len(file) = 2 + cap /\ cap \in Nat /\ a < 2 + cap
    BY <1>1, <1>6, <1>7
  <2>2. e \in Nat /\ e > 0
    OBVIOUS
  <2> HIDE DEF e
  <2> QED
    BY <2>1, <2>2
<1>e. (m = 2 /\ a = 0) => n = 2
  <2>1. Len(file) = 2 + cap /\ cap \in Nat
    BY <1>1, <1>6
  <2> QED
    BY <2>1
<1> HIDE DEF n, end
<1>9. /\ rsp.data \in Bytes /\ Len(rsp.data) = n
      /\ \A i \in 1 .. n : rsp.data[i] = file[a + i]
  <2>b. PICK b \in Nat \ {0} : b = a + 1
    OBVIOUS
  <2>1. rsp.data = SubSeq(file, b, b - 1 + n) /\ b - 1 + n <= Len(file) /\ file \in Bytes
        /\ b - 1 = a
    <3>1. b - 1 = a /\ b - 1 + n = end /\ end <= Len(file) /\ b = a + 1
      BY <1>1, <1>6, <1>8, <2>b
    <3>2. file \in Bytes
      BY <1>6 DEF Bytes
    <3> QED
      BY <1>7, <3>1, <3>2
  <2>2. /\ SubSeq(file, b, b - 1 + n) \in Bytes /\ Len(SubSeq(file, b, b - 1 + n)) = n
        /\ \A i \in 1 .. n : SubSeq(file, b, b - 1 + n)[i] = file[b - 1 + i]
    BY <1>1, <1>6, <1>8, <2>1, PrefixFacts
  <2> QED
    BY <2>1, <2>2
<1>10. ASSUME a = 0, m = 2 PROVE rsp.data[1] = nlen \div 256 /\ rsp.data[2] = nlen % 256
  <2>1. n = 2 /\ a + 1 = 1 /\ a + 2 = 2
    BY <1>e, <1>10
  <2> QED
    BY <1>3, <1>6, <1>9, <2>1
<1>11. ASSUME NEW i \in 1 .. n, a >= 2 PROVE rsp.data[i] = Cell(mem, a - 2 + i)
  <2> DEFINE j == a - 2 + i
  <2>1. j \in 1 .. cap /\ 2 + j = a + i
    BY <1>1, <1>8, <1>11
  <2> HIDE DEF j
  <2>2. rsp.data[i] = c[j]
    BY <1>6, <1>9, <2>1
  <2>3. rsp.data[i] = Cell(mem, j)
    BY <1>4, <2>1, <2>2
  <2> QED
    BY <2>3 DEF j
<1> QED
  BY <1>8, <1>9, <1>10, <1>11

(* READ BINARY asks for bytes that follow those read.                        *)
LEMMA BinaryCmd ==
  ASSUME NEW n \in Nat, NEW p \in Nat
  PROVE  /\ Cmds(ReadBinary(n, p)) /\ ReadBinary(n, p).what = "read"
         /\ p < n => LET m == ReadBinary(n, p).n
                     IN p + (IF m = 0 THEN 256 ELSE m) <= n
         /\ \E m \in 0 .. 255 : /\ ReadBinary(n, p) = Cmd("read", (p + 2) % 256, m, <<>>)
                                /\ ReadBinary(n, p).n = m
<1> DEFINE m == IF n - p > MLe - 1 THEN (MLe - 1) % 256 ELSE (n - p) % 256
<1>0. MLe \in Nat /\ MLe > 1
  BY RwAssumption
<1>1. m \in 0 .. 255
  BY <1>0
<1>2. p < n => p + (IF m = 0 THEN 256 ELSE m) <= n
  <2>1. SUFFICES ASSUME p < n PROVE p + (IF m = 0 THEN 256 ELSE m) <= n
    OBVIOUS
  <2>2. \A x \in Nat : x > 0 => (IF x % 256 = 0 THEN 256 ELSE x % 256) <= x
    OBVIOUS
  <2>3. CASE n - p > MLe - 1
    <3> DEFINE x == MLe - 1
    <3>1. x \in Nat /\ x > 0 /\ x <= n - p /\ m = x % 256
      BY <1>0, <2>3
    <3> HIDE DEF x, m
    <3>2. (IF m = 0 THEN 256 ELSE m) <= x
      BY <2>2, <3>1
    <3> QED
      BY <1>1, <3>1, <3>2
  <2>4. CASE ~(n - p > MLe - 1)
    <3> DEFINE x == n - p
    <3>1. x \in Nat /\ x > 0 /\ p + x = n /\ m = x % 256
      BY <2>1, <2>4
    <3> HIDE DEF x, m
    <3>2. (IF m = 0 THEN 256 ELSE m) <= x
      BY <2>2, <3>1
    <3> QED
      BY <1>1, <3>1, <3>2
  <2> QED
    BY <2>3, <2>4
<1>3. ReadBinary(n, p) = Cmd("read", (p + 2) % 256, m, <<>>)
  BY DEF ReadBinary
<1> HIDE DEF m
<1>4. (p + 2) % 256 \in Nat /\ "read" \in Commands
  BY DEF Commands
<1>5. /\ Cmds(Cmd("read", (p + 2) % 256, m, <<>>))
      /\ Cmd("read", (p + 2) % 256, m, <<>>).what = "read"
  <2>1. PICK a \in Nat : a = (p + 2) % 256
    BY <1>4
  <2>2. Cmds(Cmd("read", a, m, <<>>)) /\ Cmd("read", a, m, <<>>).what = "read"
    BY <1>1, <1>4, AskCmd
  <2> QED
    BY <2>1, <2>2
<1>6. ReadBinary(n, p).n = m
  BY <1>3 DEF Cmd
<1> QED
  BY <1>1, <1>2, <1>3, <1>5, <1>6

(* The size that a T4T answers.                                              *)
LEMMA SizeOfFile ==
  ASSUME TagInv, OpenInv, pc = "engine", type = "T4T", op = "read",
         ndef.state = "Reading_NDEF_Size", rsp.ok
  PROVE  FirstWord(rsp.data) = nlen /\ nlen \in Nat
<1>1. cmd = Cmd("read", 0, 2, <<>>) /\ nlen \in Nat /\ auth = 2
  BY DEF TagInv, Busy, ReadFits, InState, TypeOK, OpenInv, OpenedBy
<1>2. PICK a \in Nat : a = 0
  OBVIOUS
<1>3. PICK m \in 0 .. 255 : m = 2
  OBVIOUS
<1>4. cmd = Cmd("read", a, m, <<>>) /\ ndef.state # "Initial"
  BY <1>1, <1>2, <1>3
<1>5. a = 0 /\ m = 2 => rsp.data[1] = nlen \div 256 /\ rsp.data[2] = nlen % 256
  BY <1>1, <1>4, FileRead
<1>6. rsp.data[1] = nlen \div 256 /\ rsp.data[2] = nlen % 256 /\ rsp.data # <<>>
  <2>1. rsp.data \in Bytes /\ Len(rsp.data) >= 1
    BY <1>1, <1>4, FileRead
  <2>2. Len(<<>>) = 0
    OBVIOUS
  <2>3. rsp.data # <<>>
    BY <2>1, <2>2
  <2> QED
    BY <1>2, <1>3, <1>5, <2>3
<1>7. \A x \in Nat : 256 * (x \div 256) + (x % 256) = x
  OBVIOUS
<1>8. 256 * (nlen \div 256) + (nlen % 256) = nlen
  BY <1>1, <1>7, Zenon
<1> QED
  BY <1>1, <1>6, <1>8 DEF FirstWord

(* The size of a T4T message has been read.                                  *)
LEMMA SizeReadKeeps ==
  ASSUME TagInv, OpenInv, SizeRead
  PROVE  TagInv'
<1> DEFINE n == FirstWord(rsp.data)
<1>1. /\ EngineStep /\ pc = "engine" /\ type = "T4T" /\ op = "read"
      /\ ndef.state = "Reading_NDEF_Size" /\ rsp.ok /\ buffer' = buffer
  BY InFacts DEF SizeRead
<1>2. n = nlen /\ nlen \in Nat /\ MaxFile \in Nat
  BY <1>1, SizeOfFile, RwAssumption
<1>3. \/ Refuse /\ ndef' = [ndef EXCEPT !.size = n]
      \/ /\ n <= MaxFile
         /\ ndef' = [ndef EXCEPT !.state = "Reading_NDEF", !.ptr = 0, !.size = n]
         /\ Send(ReadBinary(n, 0))
  <2>1. ~(n > MaxFile) => n <= MaxFile
    BY <1>2
  <2> QED
    BY <2>1 DEF SizeRead
<1> HIDE DEF n
<1>4. CASE Refuse /\ ndef' = [ndef EXCEPT !.size = n]
  <2>1. n \in Nat
    BY <1>2
  <2> QED
    BY <1>1, <1>4, <2>1, SizeStep, RefuseKeeps
<1>5. CASE /\ n <= MaxFile
           /\ ndef' = [ndef EXCEPT !.state = "Reading_NDEF", !.ptr = 0, !.size = n]
           /\ Send(ReadBinary(n, 0))
  <2>0. ndef \in Ndefs /\ ndef.blk \in Nat
    BY DEF TagInv, TypeOK, Ndefs
  <2>1. /\ ndef' \in Ndefs /\ ndef'.state = "Reading_NDEF"
        /\ ndef'.ptr = 0 /\ ndef'.size = n
    <3>1. ndef = [state |-> ndef.state, blk |-> ndef.blk, ptr |-> ndef.ptr, size |-> ndef.size]
      BY <2>0, NdefFacts
    <3>2. ndef' = [state |-> "Reading_NDEF", blk |-> ndef.blk, ptr |-> 0, size |-> n]
      BY <1>5, <3>1
    <3>3. "Reading_NDEF" \in States /\ 0 \in Nat /\ n \in Nat
      BY <1>2 DEF States
    <3>4. PICK b \in Nat : b = ndef.blk
      BY <2>0
    <3>5. ndef' = [state |-> "Reading_NDEF", blk |-> b, ptr |-> 0, size |-> n]
      BY <3>2, <3>4
    <3>6. ndef' \in Ndefs
      BY <3>3, <3>5, NdefFacts
    <3> QED
      BY <3>2, <3>6
  <2>2. /\ cmd' = ReadBinary(n, 0) /\ Send(cmd') /\ Cmds(cmd') /\ cmd'.what = "read"
        /\ UNCHANGED <<content, whole>>
    <3>1. cmd' = ReadBinary(n, 0) /\ Send(cmd') /\ UNCHANGED <<content, whole>>
      BY <1>5 DEF Send
    <3>2. n \in Nat /\ 0 \in Nat
      BY <1>2
    <3>3. Cmds(ReadBinary(n, 0)) /\ ReadBinary(n, 0).what = "read"
      BY <3>2, BinaryCmd
    <3> QED
      BY <3>1, <3>3
  <2>3. op' = "read" /\ type' = "T4T" /\ mem' = mem /\ nlen' = nlen
    BY <1>1 DEF EngineStep, tagVars
  <2>4. ReadFits' /\ WriteFits'
    BY <2>1, <2>2, <2>3 DEF ReadFits, WriteFits, Began, InParts, InState
  <2>5. /\ buffer' \in Bytes /\ Len(buffer') <= MaxFile /\ 0 <= Len(buffer')
        /\ n = 0 \/ 0 < n
    BY <1>1, <1>2 DEF TagInv, TypeOK, BufferHolds, Bytes
  <2>6. ASSUME Exact PROVE Progress'
    <3>1. n = Len(content) /\ \A i \in 1 .. Len(content) : Cell(mem, i) = content[i]
      BY <1>1, <1>2, <2>6 DEF TagInv, Laid, Exact, Sized
    <3>2. ASSUME NEW i \in Nat \ {0}, 0 + i <= n PROVE Cell(mem, 0 + i) = content[0 + i]
      <4>1. 0 + i = i /\ i \in 1 .. Len(content)
        BY <1>2, <3>1, <3>2
      <4> QED
        BY <3>1, <4>1
    <3>3. Place' = 0
      BY <2>1, <2>3 DEF Place
    <3> QED
      BY <2>1, <2>2, <2>3, <3>1, <3>2, <3>3 DEF Progress
  <2>7. PartsFit'
    <3>1. Exact' <=> Exact
      BY <1>1, <2>2, LaidStep DEF TagInv
    <3> QED
      BY <1>2, <1>5, <2>1, <2>3, <2>5, <2>6, <3>1 DEF PartsFit
  <2> QED
    BY <1>1, <2>1, <2>2, <2>4, <2>5, <2>7, CommandKeeps
<1> QED
  BY <1>3, <1>4, <1>5

(* A piece of a T4T message has been read.                                   *)
LEMMA ReadingNdefKeeps ==
  ASSUME TagInv, OpenInv, ReadingNdef
  PROVE  TagInv'
<1>1. /\ EngineStep /\ pc = "engine" /\ type = "T4T" /\ op = "read"
      /\ ndef.state = "Reading_NDEF" /\ rsp.ok
      /\ ndef' = [ndef EXCEPT !.ptr = ndef.ptr + Len(rsp.data)]
  BY InFacts DEF ReadingNdef
<1>2. InParts
  BY <1>1 DEF InParts
<1>3. /\ PartsFit /\ ReadFits /\ ndef \in Ndefs /\ ndef.blk \in Nat
      /\ ndef.ptr \in Nat /\ ndef.size \in Nat
      /\ buffer \in Bytes /\ Len(buffer) \in Nat /\ Len(buffer) <= MaxFile
      /\ content \in Bytes /\ MaxFile \in Nat /\ mem \in Bytes /\ ndef.state \in States
  BY <1>1, <1>2, PartsOf
<1>4. /\ ndef.size <= MaxFile /\ ndef.ptr <= Len(buffer)
      /\ ndef.size = nlen /\ (ndef.size = 0 \/ ndef.ptr < ndef.size)
      /\ (Exact => Progress) /\ cmd = ReadBinary(ndef.size, ndef.ptr)
  BY <1>1, <1>2, <1>3 DEF PartsFit, ReadFits
<1> DEFINE q == ndef.ptr + Len(rsp.data)
           a == (ndef.ptr + 2) % 256
<1>5. /\ rsp.data \in Bytes /\ Len(rsp.data) \in Nat /\ q \in Nat
      /\ ndef.size = 0 \/ q <= ndef.size
      /\ \A i \in 1 .. Len(rsp.data) : a >= 2 => rsp.data[i] = Cell(mem, a - 2 + i)
  <2>1. PICK n \in Nat, p \in Nat : n = ndef.size /\ p = ndef.ptr
    BY <1>3
  <2>2. PICK m \in 0 .. 255 : /\ ReadBinary(n, p) = Cmd("read", (p + 2) % 256, m, <<>>)
                              /\ ReadBinary(n, p).n = m
    BY BinaryCmd
  <2>3. p < n => p + (IF m = 0 THEN 256 ELSE m) <= n
    <3>1. p < n => LET x == ReadBinary(n, p).n IN p + (IF x = 0 THEN 256 ELSE x) <= n
      BY BinaryCmd
    <3> QED
      BY <2>2, <3>1
  <2>4. PICK b \in Nat : b = (p + 2) % 256 /\ b = a
    BY <2>1
  <2>5. cmd = Cmd("read", b, m, <<>>) /\ ndef.state # "Initial"
    BY <1>1, <1>4, <2>1, <2>2, <2>4
  <2>6. /\ rsp.data \in Bytes /\ Len(rsp.data) <= (IF m = 0 THEN 256 ELSE m)
        /\ \A i \in 1 .. Len(rsp.data) : b >= 2 => rsp.data[i] = Cell(mem, b - 2 + i)
    <3>1. auth = 2
      BY <1>1 DEF OpenInv, OpenedBy, Busy
    <3> QED
      BY <1>1, <2>5, <3>1, FileRead
  <2>7. Len(rsp.data) \in Nat
    BY <2>6 DEF Bytes
  <2> HIDE DEF a
  <2>8. n = 0 \/ q <= n
    BY <1>4, <2>1, <2>3, <2>6, <2>7
  <2> QED
    BY <1>3, <2>1, <2>4, <2>6, <2>7, <2>8, SMTT(30)
<1> HIDE DEF q, a
<1>6. /\ ndef' \in Ndefs /\ ndef'.state = "Reading_NDEF" /\ ndef'.ptr = q
      /\ ndef'.size = ndef.size
  <2>1. ndef = [state |-> ndef.state, blk |-> ndef.blk, ptr |-> ndef.ptr, size |-> ndef.size]
    BY <1>3, NdefFacts
  <2>2. ndef' = [ndef EXCEPT !.ptr = q]
    BY <1>1 DEF q
  <2>3. ndef' = [state |-> ndef.state, blk |-> ndef.blk, ptr |-> q, size |-> ndef.size]
    BY <2>1, <2>2
  <2>4. ndef' \in Ndefs
    BY <1>3, <1>5, <2>3, NdefFacts
  <2> QED
    BY <1>1, <2>3, <2>4
<1>7. /\ op' = "read" /\ type' = "T4T" /\ mem' = mem /\ nlen' = nlen
  BY <1>1 DEF EngineStep, tagVars
<1>8. \/ q > MaxFile /\ pc' = "lost" /\ UNCHANGED <<buffer, heard, cmd, content, whole>>
      \/ /\ ~(q > MaxFile) /\ buffer' = Copied(rsp.data)
         /\ \/ q = ndef.size /\ Deliver(SubSeq(buffer', 1, ndef.size))
            \/ q # ndef.size /\ Send(ReadBinary(ndef.size, q))
  BY <1>6 DEF ReadingNdef
<1>9. CASE q > MaxFile /\ pc' = "lost" /\ UNCHANGED <<buffer, heard, cmd, content, whole>>
  <2>1. nlen = 0
    BY <1>3, <1>4, <1>5, <1>9
  <2>2. Laid' /\ heard'.kind # "message" /\ Heards(heard')
    <3>1. heard.kind = None /\ Heards(heard)
      BY <1>1 DEF TagInv, HeardFits, TypeOK, Heards
    <3> QED
      BY <1>1, <1>9, <3>1, LaidStep DEF TagInv, None
  <2>3. content' \in Bytes /\ whole' \in BOOLEAN
    BY <1>9 DEF TagInv, TypeOK
  <2> QED
    BY <1>1, <1>3, <1>6, <1>9, <2>1, <2>2, <2>3, EndKeeps
<1>10. ASSUME ~(q > MaxFile), buffer' = Copied(rsp.data)
       PROVE  /\ buffer' \in Bytes /\ Len(buffer') = q /\ q <= MaxFile
              /\ Exact => \A i \in 1 .. q : i <= ndef.size => buffer'[i] = content[i]
  <2>1. /\ buffer' \in Bytes /\ Len(buffer') = q
        /\ \A i \in 1 .. ndef.ptr : buffer'[i] = buffer[i]
        /\ \A i \in 1 .. Len(rsp.data) : buffer'[ndef.ptr + i] = rsp.data[i]
    <3> DEFINE c == SubSeq(buffer, 1, ndef.ptr) \o rsp.data
    <3>1. /\ c \in Bytes /\ Len(c) = ndef.ptr + Len(rsp.data)
          /\ \A i \in 1 .. ndef.ptr : c[i] = buffer[i]
          /\ \A i \in 1 .. Len(rsp.data) : c[ndef.ptr + i] = rsp.data[i]
      BY <1>3, <1>4, <1>5, CopyFacts, ZenonT(30)
    <3> HIDE DEF c
    <3>2. buffer' = c
      BY <1>10 DEF c, Copied
    <3> QED
      BY <3>1, <3>2 DEF q
  <2>2. q <= MaxFile
    BY <1>3, <1>5, <1>10
  <2>3. ASSUME Exact, NEW i \in 1 .. q, i <= ndef.size PROVE buffer'[i] = content[i]
    <3>1. Progress
      BY <1>4, <2>3
    <3>2. CASE i <= ndef.ptr
      <4>1. i \in 1 .. ndef.ptr
        BY <1>3, <2>3, <3>2
      <4> QED
        BY <2>1, <2>3, <3>1, <4>1 DEF Progress
    <3>3. CASE ~(i <= ndef.ptr)
      <4>1. PICK j \in Nat \ {0} : i = ndef.ptr + j
        <5>1. i - ndef.ptr \in Nat \ {0} /\ i = ndef.ptr + (i - ndef.ptr)
          BY <1>3, <3>3
        <5> QED
          BY <5>1
      <4>2. j \in 1 .. Len(rsp.data) /\ ndef.ptr + j <= ndef.size
        BY <1>3, <1>5, <2>3, <4>1 DEF q
      <4>3. a = ndef.ptr + 2
        <5>1. Len(content) <= 254
          <6>1. Len(content) \in 1 .. 254
            BY <1>1, <2>3 DEF Exact, Readable
          <6>2. \A x \in 1 .. 254 : x <= 254
            OBVIOUS
          <6> QED
            BY <6>1, <6>2, Zenon
        <5>2. ndef.size = Len(content)
          BY <3>1 DEF Progress
        <5>3. ndef.ptr + 2 \in 0 .. 255
          <6>1. PICK n \in Nat, p \in Nat : n = ndef.size /\ p = ndef.ptr
            BY <1>3
          <6>2. n <= 254 /\ p + j <= n
            BY <4>2, <5>1, <5>2, <6>1
          <6>3. p + 2 \in 0 .. 255
            BY <6>2
          <6> QED
            BY <6>1, <6>3
        <5>4. \A x \in 0 .. 255 : x % 256 = x
          OBVIOUS
        <5> QED
          BY <5>3, <5>4 DEF a
      <4>4. a >= 2 /\ a - 2 + j = ndef.ptr + j
        BY <1>3, <4>3
      <4>5. rsp.data[j] = Cell(mem, ndef.ptr + j)
        BY <1>5, <4>2, <4>4
      <4>6. Cell(mem, Place + j) = content[ndef.ptr + j]
        BY <3>1, <4>2 DEF Progress
      <4>7. Place = ndef.ptr
        BY <1>1 DEF Place
      <4> QED
        BY <2>1, <4>1, <4>2, <4>5, <4>6, <4>7
    <3> QED
      BY <3>2, <3>3
  <2> QED
    BY <2>1, <2>2, <2>3
<1>11. CASE /\ ~(q > MaxFile) /\ buffer' = Copied(rsp.data)
            /\ q = ndef.size /\ Deliver(SubSeq(buffer', 1, ndef.size))
  <2>1. /\ buffer' \in Bytes /\ Len(buffer') = q /\ q <= MaxFile
        /\ Exact => \A i \in 1 .. q : i <= ndef.size => buffer'[i] = content[i]
    BY <1>10, <1>11
  <2>2. SubSeq(buffer', 1, ndef.size) = buffer'
    BY <1>11, <2>1 DEF Bytes
  <2>3. /\ pc' = "idle" /\ heard' = [kind |-> "message", data |-> buffer']
        /\ UNCHANGED <<cmd, content, whole>>
    BY <1>11, <2>2 DEF Deliver, Ends
  <2>4. Heards(heard') /\ heard'.data = buffer'
    BY <2>1, <2>3 DEF Heards
  <2>5. Laid' /\ (Exact' <=> Exact) /\ content' \in Bytes /\ whole' \in BOOLEAN
    BY <1>1, <2>3, LaidStep DEF TagInv, TypeOK
  <2>6. ASSUME Exact PROVE buffer' = content
    <3>1. Len(content) = Len(buffer')
      BY <1>4, <1>11, <2>1, <2>6 DEF Progress
    <3>2. \A i \in 1 .. q : buffer'[i] = content[i]
      BY <1>5, <1>11, <2>1, <2>6
    <3> QED
      BY <1>3, <2>1, <3>1, <3>2, SameBytes
  <2> QED
    BY <1>1, <1>6, <2>1, <2>3, <2>4, <2>5, <2>6, EndKeeps
<1>12. CASE /\ ~(q > MaxFile) /\ buffer' = Copied(rsp.data)
            /\ q # ndef.size /\ Send(ReadBinary(ndef.size, q))
  <2>1. /\ buffer' \in Bytes /\ Len(buffer') = q /\ q <= MaxFile
        /\ Exact => \A i \in 1 .. q : i <= ndef.size => buffer'[i] = content[i]
    BY <1>10, <1>12
  <2>2. /\ cmd' = ReadBinary(ndef.size, q) /\ Send(cmd') /\ UNCHANGED <<content, whole>>
    BY <1>12 DEF Send
  <2>3. Cmds(cmd') /\ cmd'.what = "read"
    <3>1. PICK n \in Nat : n = ndef.size
      BY <1>3
    <3>2. Cmds(ReadBinary(n, q)) /\ ReadBinary(n, q).what = "read"
      BY <1>5, BinaryCmd
    <3> QED
      BY <2>2, <3>1, <3>2
  <2>4. ReadFits' /\ WriteFits'
    BY <1>6, <1>7, <2>2, <2>3 DEF ReadFits, WriteFits, Began, InParts, InState
  <2>5. ndef.size = 0 \/ q < ndef.size
    BY <1>3, <1>5, <1>12
  <2>6. Place' = q /\ Place = ndef.ptr
    BY <1>1, <1>6, <1>7 DEF Place
  <2>7. ASSUME Exact PROVE Progress'
    <3>1. Progress
      BY <1>4, <2>7
    <3>2. ASSUME NEW i \in Nat \ {0}, q + i <= ndef.size
          PROVE  Cell(mem, q + i) = content[q + i]
      <4>1. PICK j \in Nat \ {0} : j = Len(rsp.data) + i
        BY <1>5
      <4>2. ndef.ptr + j = q + i
        BY <1>3, <1>5, <4>1 DEF q
      <4> QED
        BY <2>6, <3>1, <3>2, <4>2 DEF Progress
    <3>3. ndef.size = Len(content)
      BY <3>1 DEF Progress
    <3> QED
      BY <1>6, <1>7, <2>1, <2>2, <2>6, <2>7, <3>2, <3>3 DEF Progress
  <2>8. PartsFit'
    <3>1. Exact' <=> Exact
      BY <1>1, <2>2, LaidStep DEF TagInv
    <3>2. q <= Len(buffer')
      BY <1>5, <2>1
    <3> QED
      BY <1>4, <1>6, <1>7, <2>5, <2>7, <3>1, <3>2 DEF PartsFit
  <2>9. ndef'.state # "Initial"
    BY <1>6
  <2> QED
    BY <1>1, <1>6, <2>1, <2>2, <2>3, <2>4, <2>8, <2>9, CommandKeeps
<1> QED
  BY <1>8, <1>9, <1>11, <1>12

-----------------------------------------------------------------------------
(* Writes: the image of a message grows                                      *)

(* What is stored at the beginning is found there.                           *)
LEMMA StoreFront ==
  ASSUME NEW m \in Bytes, NEW d \in Bytes
  PROVE  \A i \in 1 .. Len(d) : Cell(Store(m, 0, d), i) = d[i]
<1>1. PICK z \in Nat : z = 0
  OBVIOUS
<1>2. \A i \in Nat \ {0} :
        Cell(Store(m, z, d), i) = IF i \in z + 1 .. z + Len(d) THEN d[i - z] ELSE Cell(m, i)
  BY StoreCells
<1>3. Len(d) \in Nat
  BY DEF Bytes
<1> QED
  BY <1>1, <1>2, <1>3

(* The bytes h are what precedes message c.                                  *)
HeaderOf(h, c) ==
  /\ Len(h) = Front + HeaderLen(Len(c))
  /\ type = "MIFARE" => h[1] = 0 /\ h[2] = 0
  /\ h[Front + 1] = NdefTlv
  /\ Len(c) <= 255 => h[Front + 2] = Len(c)
  /\ Len(c) > 255 => /\ h[Front + 2] = 255
                     /\ h[Front + 3] = Len(c) \div 256 /\ h[Front + 4] = Len(c) % 256

(* The beginning of a message is stored behind its header.                   *)
LEMMA ImageStart ==
  ASSUME NEW m \in Bytes, NEW c \in Bytes, NEW h \in Seq(Nat), NEW n \in Nat, HeaderOf(h, c)
  PROVE  /\ Image(Store(m, 0, h \o Cells(c, 0, n)), c, n)
         /\ h \o Cells(c, 0, n) \in Bytes /\ Len(h \o Cells(c, 0, n)) = Len(h) + n
<1> DEFINE f == Cells(c, 0, n)
           d == h \o f
           s == Store(m, 0, d)
           w == Len(h)
<1>1. /\ Front \in {0, 2} /\ HeaderLen(Len(c)) \in {2, 4} /\ Len(c) \in Nat
      /\ (Len(c) > 255 => HeaderLen(Len(c)) = 4) /\ (type = "MIFARE" => Front = 2)
  BY DEF Front, HeaderLen, Bytes
<1>2. f \in Seq(Nat) /\ Len(f) = n /\ \A i \in 1 .. n : f[i] = Cell(c, i)
  BY CellsFront DEF Bytes
<1> HIDE DEF f
<1>j. h \in Seq(Nat) /\ f \in Seq(Nat)
  BY <1>2
<1>3. /\ d \in Seq(Nat) /\ Len(d) = w + n
      /\ \A i \in 1 .. w : d[i] = h[i]
      /\ \A i \in 1 .. n : d[w + i] = f[i]
  <2>1. PICK g \in Seq(Nat), e \in Seq(Nat) : g = h /\ e = f
    BY <1>j
  <2>2. /\ g \o e \in Seq(Nat) /\ Len(g \o e) = Len(g) + Len(e)
        /\ \A i \in 1 .. Len(g) : (g \o e)[i] = g[i]
        /\ \A i \in 1 .. Len(e) : (g \o e)[Len(g) + i] = e[i]
    BY JoinFacts
  <2> QED
    BY <1>2, <2>1, <2>2
<1> HIDE DEF d
<1>4. w \in Nat /\ w = Front + HeaderLen(Len(c))
  BY DEF HeaderOf
<1>5. \A i \in 1 .. w + n : Cell(s, i) = d[i]
  <2>1. PICK e \in Bytes : e = d
    BY <1>3 DEF Bytes
  <2>2. \A i \in 1 .. Len(e) : Cell(Store(m, 0, e), i) = e[i]
    BY StoreFront
  <2> QED
    BY <1>3, <2>1, <2>2
<1> HIDE DEF s, w
<1>6. \A i \in 1 .. w : Cell(s, i) = h[i]
  <2>1. \A i \in 1 .. w : i \in 1 .. w + n
    BY <1>4
  <2> QED
    BY <1>3, <1>5, <2>1
<1>7. ASSUME NEW i \in 1 .. Len(c), i <= n PROVE Cell(s, Front + HeaderLen(Len(c)) + i) = c[i]
  <2>1. i \in 1 .. n /\ w + i \in 1 .. w + n
    BY <1>4, <1>7
  <2>2. Cell(s, w + i) = f[i]
    BY <1>3, <1>5, <2>1
  <2>3. f[i] = c[i]
    BY <1>2, <2>1 DEF Cell, Bytes
  <2> QED
    BY <1>4, <2>2, <2>3
<1>8. /\ Front + 1 \in 1 .. w /\ Front + 2 \in 1 .. w
      /\ Len(c) > 255 => Front + 3 \in 1 .. w /\ Front + 4 \in 1 .. w
      /\ type = "MIFARE" => 1 \in 1 .. w /\ 2 \in 1 .. w
  BY <1>1, <1>4
<1>9. Image(s, c, n)
  BY <1>6, <1>7, <1>8 DEF Image, HeaderOf
<1> QED
  BY <1>3, <1>9 DEF s, d, f, w, Bytes

(* A further piece of it is stored where the last one ends.                  *)
LEMMA ImageOn ==
  ASSUME NEW m \in Bytes, NEW c \in Bytes, NEW p \in Nat, NEW n \in Nat, Image(m, c, p),
         NEW at \in Nat, at = Front + HeaderLen(Len(c)) + p
  PROVE  /\ Image(Store(m, at, Cells(c, p, n)), c, p + n)
         /\ Cells(c, p, n) \in Bytes /\ Len(Cells(c, p, n)) = n
<1> DEFINE d == Cells(c, p, n)
           s == Store(m, at, d)
           w == Front + HeaderLen(Len(c))
<1>1. /\ Front \in {0, 2} /\ HeaderLen(Len(c)) \in {2, 4} /\ Len(c) \in Nat
      /\ (Len(c) > 255 => HeaderLen(Len(c)) = 4) /\ (type = "MIFARE" => Front = 2)
  BY DEF Front, HeaderLen, Bytes
<1>2. d \in Bytes /\ Len(d) = n /\ \A i \in 1 .. n : d[i] = Cell(c, p + i)
  BY CellsFacts
<1>3. w \in Nat /\ at = w + p
  BY <1>1
<1> HIDE DEF d
<1>4. \A i \in Nat \ {0} : Cell(s, i) = IF i \in at + 1 .. at + n THEN d[i - at] ELSE Cell(m, i)
  <2>1. \A i \in Nat \ {0} :
          Cell(Store(m, at, d), i) =
            IF i \in at + 1 .. at + Len(d) THEN d[i - at] ELSE Cell(m, i)
    <3> HIDE DEF s, w
    <3> QED
      BY <1>2, StoreCells, ZenonT(30)
  <2> QED
    BY <1>2, <2>1
<1> HIDE DEF s
<1>5. \A i \in 1 .. w : Cell(s, i) = Cell(m, i)
  <2>1. \A i \in 1 .. w : i \in Nat \ {0} /\ i \notin at + 1 .. at + n
    <3> HIDE DEF w
    <3> QED
      BY <1>3
  <2> QED
    BY <1>4, <2>1
<1>6. ASSUME NEW i \in 1 .. Len(c), i <= p + n PROVE Cell(s, w + i) = c[i]
  <2> HIDE DEF w
  <2>1. CASE i <= p
    <3>1. w + i \in Nat \ {0} /\ w + i \notin at + 1 .. at + n
      BY <1>3, <2>1
    <3>2. Cell(s, w + i) = Cell(m, w + i)
      BY <1>4, <3>1
    <3> QED
      BY <2>1, <3>2 DEF Image, w
  <2>2. CASE ~(i <= p)
    <3>1. PICK j \in 1 .. n : i = p + j
      <4>1. i - p \in 1 .. n /\ i = p + (i - p)
        BY <1>6, <2>2
      <4> QED
        BY <4>1
    <3>2. w + i \in Nat \ {0} /\ w + i \in at + 1 .. at + n /\ (w + i) - at = j
      BY <1>3, <3>1
    <3>3. Cell(s, w + i) = d[j]
      BY <1>4, <3>2
    <3>4. d[j] = c[i]
      BY <1>2, <3>1 DEF Cell, Bytes
    <3> QED
      BY <3>3, <3>4
  <2> QED
    BY <2>1, <2>2
<1>7. /\ Front + 1 \in 1 .. w /\ Front + 2 \in 1 .. w
      /\ Len(c) > 255 => Front + 3 \in 1 .. w /\ Front + 4 \in 1 .. w
      /\ type = "MIFARE" => 1 \in 1 .. w /\ 2 \in 1 .. w
  BY <1>1
<1>8. Image(s, c, p + n)
  <2>1. /\ type = "MIFARE" => Cell(s, 1) = 0 /\ Cell(s, 2) = 0
        /\ Cell(s, Front + 1) = NdefTlv
        /\ Len(c) <= 255 => Cell(s, Front + 2) = Len(c)
        /\ Len(c) > 255 => /\ Cell(s, Front + 2) = 255
                           /\ Cell(s, Front + 3) = Len(c) \div 256
                           /\ Cell(s, Front + 4) = Len(c) % 256
    <3> HIDE DEF w
    <3> QED
      BY <1>5, <1>7 DEF Image
  <2> QED
    BY <1>6, <2>1 DEF Image
<1> QED
  BY <1>2, <1>8 DEF s, d

(* A command of a write.                                                     *)
LEMMA WriteStep ==
  ASSUME TagInv, EngineStep, NEW s \in States, NEW b \in Nat, NEW p \in Nat, NEW c,
         WriteNext(s, b, p, c)
  PROVE  /\ ndef' \in Ndefs /\ ndef'.state = s /\ ndef'.blk = b /\ ndef'.ptr = p
         /\ cmd' = c /\ Send(cmd') /\ pc' = "tag" /\ UNCHANGED <<heard, content, whole, buffer>>
         /\ UNCHANGED <<op, message, type, mem, sel>>
<1>1. ndef \in Ndefs
  BY DEF TagInv, TypeOK, Ndefs
<1>2. ndef = [state |-> ndef.state, blk |-> ndef.blk, ptr |-> ndef.ptr, size |-> ndef.size]
  BY <1>1, NdefFacts
<1>3. /\ ndef' = [ndef EXCEPT !.state = s, !.blk = b, !.ptr = p]
      /\ cmd' = c /\ Send(cmd') /\ pc' = "tag" /\ UNCHANGED <<heard, content, whole, buffer>>
  BY DEF WriteNext, Send
<1>4. ndef' = [state |-> s, blk |-> b, ptr |-> p, size |-> ndef.size]
  BY <1>2, <1>3
<1>5. ndef' \in Ndefs
  BY <1>1, <1>4, NdefFacts
<1>6. ndef'.state = s /\ ndef'.blk = b /\ ndef'.ptr = p
  BY <1>4
<1> QED
  BY <1>3, <1>5, <1>6 DEF EngineStep, tagVars

(* A command of a write keeps the invariant if it fits the message.          *)
LEMMA WriteKeeps ==
  ASSUME TagInv, EngineStep, op = "write",
         NEW s \in States, s # "Initial", NEW b \in Nat, NEW p \in Nat, NEW c, Cmds(c),
         WriteNext(s, b, p, c), WriteFits'
  PROVE  TagInv'
<1>1. /\ ndef' \in Ndefs /\ ndef'.state # "Initial" /\ cmd' = c /\ Send(cmd') /\ Cmds(cmd')
      /\ op' = "write"
  BY WriteStep
<1>2. buffer' = buffer
  BY DEF WriteNext
<1>3. buffer' \in Bytes /\ Len(buffer') <= MaxFile
  BY <1>2 DEF TagInv, TypeOK, BufferHolds
<1>4. ReadFits' /\ PartsFit'
  <2>1. ~InParts' /\ op' # "read"
    BY <1>1 DEF InParts
  <2> QED
    BY <2>1 DEF ReadFits, PartsFit, InState
<1> QED
  BY <1>1, <1>3, <1>4, CommandKeeps

(* The picture of the message does not depend on what the engine does.       *)
LEMMA ImageStays ==
  ASSUME NEW m, NEW c, NEW p, Image(m, c, p), type' = type
  PROVE  Image(m, c, p)'
  BY DEF Image, Front

(* Four bytes are written to a T2T or T5T.                                   *)
LEMMA BlockKeeps ==
  ASSUME TagInv, EngineStep, op = "write", type \in {"T2T", "T5T"},
         NEW b \in Nat, NEW p \in Nat, NEW d \in Bytes, Len(d) = 4,
         WriteNext("Writing_Data", b + 1, p, Write(b, d)),
         Image(Store(mem, Offset(b), d), message, p),
         Offset(b) = 0 \/ p < Size + 4,
         Offset(b + 1) = Front + HeaderLen(Size) + p,
         type = "T5T" => Size <= 255
  PROVE  TagInv'
<1> DEFINE c == Write(b, d)
<1>1. Cmds(c) /\ c.what = "write" /\ c.at = b /\ c.data = d
  BY DEF Write, Cmd, Cmds, Commands
<1>2. PICK n \in Nat : n = b + 1
  OBVIOUS
<1>3. "Writing_Data" \in States /\ "Writing_Data" # "Initial"
  BY DEF States
<1>4. WriteNext("Writing_Data", n, p, c)
  BY <1>2
<1> HIDE DEF c
<1>5. /\ ndef'.state = "Writing_Data" /\ ndef'.blk = n /\ ndef'.ptr = p /\ cmd' = c /\ pc' = "tag"
      /\ UNCHANGED <<op, message, type, mem, sel>>
  BY <1>3, <1>4, WriteStep
<1>6. Offset(b)' = Offset(b) /\ Offset(n)' = Offset(n) /\ Front' = Front /\ Size' = Size
  BY <1>5 DEF Offset, Front, Size
<1>7. PICK m : m = Store(mem, Offset(b), d)
  OBVIOUS
<1>8. MemAfter' = m
  <2>1. MemAfter' = Store(mem', Offset(b)', d)
    BY <1>1, <1>5 DEF MemAfter
  <2> QED
    BY <1>5, <1>6, <1>7, <2>1
<1>9. Image(MemAfter, message, ndef.ptr)'
  <2>1. Image(m, message, p)
    BY <1>7
  <2> QED
    BY <1>5, <1>8, <2>1 DEF Image, Front
<1>10. (HeaderLen(Size))' = HeaderLen(Size)
  BY <1>6 DEF HeaderLen
<1>11. (Offset(ndef.blk))' = (Front + HeaderLen(Size) + ndef.ptr)'
  <2>1. (Offset(ndef.blk))' = Offset(n)'
    BY <1>5 DEF Offset
  <2> QED
    BY <1>2, <1>5, <1>6, <1>10, <2>1
<1>12. (Offset(cmd.at))' = Offset(b) /\ cmd'.at = ndef'.blk - 1
  <2>1. (Offset(cmd.at))' = Offset(b)'
    BY <1>1, <1>5 DEF Offset
  <2> QED
    BY <1>1, <1>2, <1>5, <1>6, <2>1
<1>13. WriteFits'
  BY <1>1, <1>2, <1>5, <1>6, <1>9, <1>11, <1>12 DEF WriteFits, Began
<1> QED
  BY <1>1, <1>3, <1>4, <1>13, WriteKeeps

(* A block of a MIFARE tag is written.                                       *)
LEMMA SectorBlockKeeps ==
  ASSUME TagInv, EngineStep, op = "write", type = "MIFARE",
         NEW b \in Nat, sel = b, NEW p \in Nat, NEW d \in Bytes, b + 1 # 4,
         WriteNext("Writing_Data1", b + 1, p, Cmd("write_data", 0, 16, d)),
         Image(Store(mem, Offset(b), d), message, p),
         Offset(b + 1) = Front + HeaderLen(Size) + p
  PROVE  TagInv'
<1> DEFINE c == Cmd("write_data", 0, 16, d)
<1>1. Cmds(c) /\ c.what = "write_data" /\ c.data = d
  BY DEF Cmd, Cmds, Commands
<1>2. PICK n \in Nat : n = b + 1
  OBVIOUS
<1>3. "Writing_Data1" \in States /\ "Writing_Data1" # "Initial"
  BY DEF States
<1>4. WriteNext("Writing_Data1", n, p, c)
  BY <1>2
<1> HIDE DEF c
<1>5. /\ ndef'.state = "Writing_Data1" /\ ndef'.blk = n /\ ndef'.ptr = p /\ cmd' = c /\ pc' = "tag"
      /\ UNCHANGED <<op, message, type, mem, sel>>
  BY <1>3, <1>4, WriteStep
<1>6. Offset(b)' = Offset(b) /\ Offset(n)' = Offset(n) /\ Front' = Front /\ Size' = Size
  BY <1>5 DEF Offset, Front, Size
<1>7. PICK m : m = Store(mem, Offset(b), d)
  OBVIOUS
<1>8. MemAfter' = m
  <2>1. (Offset(sel))' = Offset(b)'
    BY <1>5 DEF Offset
  <2>2. MemAfter' = Store(mem', (Offset(sel))', d)
    BY <1>1, <1>5 DEF MemAfter
  <2> QED
    BY <1>5, <1>6, <1>7, <2>1, <2>2
<1>9. Image(MemAfter, message, ndef.ptr)'
  <2>1. Image(m, message, p)
    BY <1>7
  <2> QED
    BY <1>5, <1>8, <2>1 DEF Image, Front
<1>10. (HeaderLen(Size))' = HeaderLen(Size)
  BY <1>6 DEF HeaderLen
<1>11. (Offset(ndef.blk))' = (Front + HeaderLen(Size) + ndef.ptr)'
  <2>1. (Offset(ndef.blk))' = Offset(n)'
    BY <1>5 DEF Offset
  <2> QED
    BY <1>2, <1>5, <1>6, <1>10, <2>1
<1>12. sel' = ndef'.blk - 1 /\ ndef'.blk # 4
  BY <1>2, <1>5
<1>13. WriteFits'
  BY <1>1, <1>5, <1>9, <1>11, <1>12 DEF WriteFits, Began
<1> QED
  BY <1>1, <1>3, <1>4, <1>13, WriteKeeps

(* The next block is announced, or its sector authenticated.                 *)
LEMMA AnnounceKeeps ==
  ASSUME TagInv, EngineStep, op = "write", type = "MIFARE",
         NEW s \in {"Writing_Data1", "Writing_Data2"}, NEW b \in Nat, NEW p \in Nat,
         NEW w \in {"auth", "write_at"}, NEW a \in Nat,
         s = "Writing_Data2" => w = "write_at" /\ a = b,
         WriteNext(s, b, p, Cmd(w, a, 0, <<>>)),
         IF b = 4 THEN p = 0 ELSE Image(mem, message, p) /\ Offset(b) = Front + HeaderLen(Size) + p
  PROVE  TagInv'
<1> DEFINE c == Cmd(w, a, 0, <<>>)
<1>1. Cmds(c) /\ c.what = w
  BY DEF Cmd, Cmds, Commands, Bytes
<1>2. c = Cmd(w, a, 0, <<>>)
  OBVIOUS
<1>3. s \in States /\ s # "Initial"
  BY DEF States
<1>4. WriteNext(s, b, p, c)
  OBVIOUS
<1> HIDE DEF c
<1>5. /\ ndef'.state = s /\ ndef'.blk = b /\ ndef'.ptr = p /\ cmd' = c /\ pc' = "tag"
      /\ UNCHANGED <<op, message, type, mem, sel>>
  BY <1>3, <1>4, WriteStep
<1>6. Offset(b)' = Offset(b) /\ Front' = Front /\ Size' = Size
  BY <1>5 DEF Offset, Front, Size
<1>7. MemAfter' = mem
  BY <1>1, <1>5 DEF MemAfter
<1>8. b # 4 => Image(MemAfter, message, ndef.ptr)'
  BY <1>5, <1>7 DEF Image, Front
<1>9. (HeaderLen(Size))' = HeaderLen(Size)
  BY <1>6 DEF HeaderLen
<1>10. b # 4 => (Offset(ndef.blk))' = (Front + HeaderLen(Size) + ndef.ptr)'
  <2>1. (Offset(ndef.blk))' = Offset(b)'
    BY <1>5 DEF Offset
  <2> QED
    BY <1>5, <1>6, <1>9, <2>1
<1>11. s = "Writing_Data2" => cmd' = Cmd("write_at", ndef'.blk, 0, <<>>)
  BY <1>2, <1>5
<1>12. ndef'.blk = 4 => ndef'.ptr = 0
  BY <1>5
<1>13. WriteFits'
  BY <1>1, <1>5, <1>8, <1>10, <1>11, <1>12 DEF WriteFits, Began
<1> QED
  BY <1>1, <1>3, <1>4, <1>13, WriteKeeps

(* The write is over.                                                        *)
LEMMA WrittenKeeps ==
  ASSUME TagInv, EngineStep, Written, pc = "engine",
         message # <<>> =>
           \/ /\ type \in {"T2T", "T5T", "MIFARE"} /\ Image(mem, message, ndef.ptr)
              /\ Size <= ndef.ptr
           \/ type = "T4T" /\ nlen = Size /\ Agrees(Size)
  PROVE  TagInv'
<1>1. /\ pc' = "idle" /\ heard'.kind # "message" /\ Heards(heard')
      /\ UNCHANGED <<cmd, ndef, buffer>>
      /\ IF message = <<>> THEN UNCHANGED <<content, whole>>
         ELSE content' = message /\ whole' = TRUE
  BY DEF Written, Pushed, Ends, Heards, TagInv, TypeOK, Bytes, None
<1>2. /\ message \in Bytes /\ mem \in Bytes /\ ndef \in Ndefs /\ buffer \in Bytes
      /\ Len(buffer) <= MaxFile /\ content \in Bytes /\ whole \in BOOLEAN /\ ndef.ptr \in Nat
  BY DEF TagInv, TypeOK, BufferHolds, Ndefs
<1>3. type' = type /\ mem' = mem /\ nlen' = nlen
  BY DEF EngineStep, tagVars
<1>4. CASE message = <<>>
  <2>1. Laid'
    BY <1>1, <1>4, LaidStep DEF TagInv
  <2> QED
    BY <1>1, <1>2, <1>4, <2>1, EndKeeps
<1>5. CASE message # <<>>
  <2>1. content' = message /\ whole' = TRUE
    BY <1>1, <1>5
  <2>2. CASE type = "T4T"
    <3>1. Cells(mem, 0, Size) = Cells(message, 0, Size) /\ nlen = Size
      BY <1>5, <2>2 DEF Agrees
    <3>2. Size \in Nat /\ Size = Len(message)
      BY <1>2 DEF Size, Bytes
    <3>3. \A i \in 1 .. Size : Cell(mem, i) = Cell(message, i)
      <4>1. PICK n \in Nat : n = Size
        BY <3>2
      <4>2. /\ \A i \in 1 .. n : Cells(mem, 0, n)[i] = Cell(mem, i)
            /\ \A i \in 1 .. n : Cells(message, 0, n)[i] = Cell(message, i)
        BY <1>2, CellsFront
      <4> QED
        BY <3>1, <4>1, <4>2
    <3>4. \A i \in 1 .. Size : Cell(message, i) = message[i]
      BY <1>2, <3>2 DEF Cell, Bytes
    <3>5. nlen = Len(message) /\ \A i \in 1 .. Len(message) : Cell(mem, i) = message[i]
      BY <3>1, <3>2, <3>3, <3>4
    <3>6. Laid'
      BY <1>3, <2>1, <2>2, <3>5 DEF Laid, Sized
    <3> QED
      BY <1>1, <1>2, <2>1, <3>6, EndKeeps
  <2>3. CASE type # "T4T"
    <3>1. /\ type \in {"T2T", "T5T", "MIFARE"} /\ Image(mem, message, ndef.ptr)
          /\ Len(message) <= ndef.ptr
      BY <1>5, <2>3 DEF Size
    <3>2. Len(message) \in Nat
      BY <1>2 DEF Bytes
    <3>3. PICK k \in Nat : k = Front
      BY DEF Front
    <3>4. Headed(mem, k)
      BY <3>1, <3>3 DEF Image, Headed, Front, NdefTlv
    <3>5. Readable(type, Len(message)) => Holds(mem, k, message)
      <4> SUFFICES ASSUME Readable(type, Len(message)) PROVE Holds(mem, k, message)
        OBVIOUS
      <4>1. Len(message) # 255 /\ (Len(message) <= 255 <=> ~Long(Len(message)))
        <5>1. PICK n \in Nat : n = Len(message)
          BY <3>2
        <5>2. n # 255
          <6>1. Readable(type, n)
            BY <5>1
          <6>2. type = "T5T" \/ type = "T2T" \/ type = "MIFARE"
            BY <3>1
          <6>3. type = "T5T" => (Readable(type, n) => n \in 0 .. 254)
            BY DEF Readable
          <6>4. type \in {"T2T", "MIFARE"} => (Readable(type, n) => n \in Nat \ {255})
            BY DEF Readable
          <6> QED
            BY <6>2, <6>3, <6>4, <6>1
        <5>3. n <= 255 <=> ~(n > 254)
          BY <5>2
        <5> QED
          BY <5>1, <5>2, <5>3 DEF Long
      <4>2. HeaderLen(Len(message)) = IF Long(Len(message)) THEN 4 ELSE 2
        BY <3>2, <4>1 DEF HeaderLen
      <4>3. \A i \in 1 .. Len(message) : i <= ndef.ptr
        BY <1>2, <3>1, <3>2
      <4>4. \A i \in 1 .. Len(message) :
              Cell(mem, k + HeaderLen(Len(message)) + i) = message[i]
        BY <3>1, <3>3, <4>3 DEF Image
      <4>5. /\ ~Long(Len(message)) => Cell(mem, k + 2) = Len(message)
            /\ Long(Len(message)) => /\ Cell(mem, k + 2) = 255
                                     /\ Cell(mem, k + 3) = Len(message) \div 256
                                     /\ Cell(mem, k + 4) = Len(message) % 256
        BY <3>1, <3>2, <3>3, <4>1 DEF Image
      <4> QED
        BY <4>2, <4>4, <4>5 DEF Holds
    <3>6. Headed(mem, k)' /\ (Exact' => Holds(mem, k, content)')
      BY <1>3, <2>1, <3>4, <3>5 DEF Headed, Holds, Exact
    <3>7. Laid'
      BY <1>3, <3>1, <3>6 DEF Laid, Sized
    <3> QED
      BY <1>1, <1>2, <2>1, <3>7, EndKeeps
  <2> QED
    BY <2>2, <2>3
<1> QED
  BY <1>4, <1>5

-----------------------------------------------------------------------------
(* T2T and T5T                                                               *)

(* What a good answer finds while the data of a message are written.         *)
LEMMA WritesOf ==
  ASSUME TagInv, pc = "engine", Began, ndef.state # "Initial", rsp.ok
  PROVE  /\ message \in Bytes /\ mem \in Bytes /\ Size \in Nat /\ Size = Len(message)
         /\ ndef.blk \in Nat /\ ndef.ptr \in Nat
         /\ Image(mem, message, ndef.ptr)
         /\ Offset(ndef.blk) = Front + HeaderLen(Size) + ndef.ptr
         /\ Offset(ndef.blk) \in Nat
         /\ type = "T5T" => Size <= 255
<1>1. WriteFits
  BY DEF TagInv, Busy
<1>2. /\ message \in Bytes /\ mem \in Bytes /\ Size \in Nat /\ Size = Len(message)
      /\ ndef.blk \in Nat /\ ndef.ptr \in Nat
  BY DEF TagInv, TypeOK, Size, Bytes
<1>3. /\ Image(mem, message, ndef.ptr)
      /\ Offset(ndef.blk) = Front + HeaderLen(Size) + ndef.ptr
      /\ type = "T5T" => Size <= 255
  BY <1>1 DEF WriteFits
<1>4. Offset(ndef.blk) \in Nat
  BY <1>2, <1>3 DEF Front, HeaderLen
<1> QED
  BY <1>2, <1>3, <1>4

(* The next four bytes, or the end.                                          *)
LEMMA WritingDataKeeps ==
  ASSUME TagInv, EngineStep, pc = "engine", op = "write", type \in {"T2T", "T5T"},
         ndef.state = "Writing_Data", rsp.ok,
         IF Size <= ndef.ptr THEN Written
         ELSE WriteNext("Writing_Data", ndef.blk + 1, ndef.ptr + 4, Write(ndef.blk, Chunk(4)))
  PROVE  TagInv'
<1>1. Began
  BY DEF Began
<1>2. /\ message \in Bytes /\ mem \in Bytes /\ Size \in Nat /\ Size = Len(message)
      /\ ndef.blk \in Nat /\ ndef.ptr \in Nat
      /\ Image(mem, message, ndef.ptr)
      /\ Offset(ndef.blk) = Front + HeaderLen(Size) + ndef.ptr
      /\ Offset(ndef.blk) \in Nat
      /\ type = "T5T" => Size <= 255
  BY <1>1, WritesOf
<1>3. CASE Size <= ndef.ptr
  BY <1>2, <1>3, WrittenKeeps
<1>4. CASE ~(Size <= ndef.ptr)
  <2>1. PICK b \in Nat, r \in Nat, p \in Nat :
          b = ndef.blk /\ r = ndef.ptr /\ p = ndef.ptr + 4
    BY <1>2
  <2> DEFINE d == Cells(message, r, 4)
  <2>2. WriteNext("Writing_Data", b + 1, p, Write(b, d))
    BY <1>4, <2>1 DEF Chunk
  <2>3. PICK at \in Nat : at = Offset(b)
    BY <1>2, <2>1
  <2>4. at = Front + HeaderLen(Len(message)) + r /\ Image(mem, message, r)
    BY <1>2, <2>1, <2>3
  <2>f. PICK n \in Nat : n = 4
    OBVIOUS
  <2>5. /\ Image(Store(mem, at, Cells(message, r, n)), message, r + n)
        /\ Cells(message, r, n) \in Bytes /\ Len(Cells(message, r, n)) = n
    <3>1. message \in Bytes /\ mem \in Bytes
      BY <1>2
    <3> HIDE DEF d
    <3> QED
      BY <2>4, <3>1, ImageOn
  <2>6. d \in Bytes /\ Len(d) = 4 /\ Image(Store(mem, Offset(b), d), message, p)
    BY <2>1, <2>3, <2>f, <2>5
  <2>7. Offset(b + 1) = Offset(b) + 4
    BY DEF Offset
  <2>8. Offset(b + 1) = Front + HeaderLen(Size) + p
    BY <1>2, <2>1, <2>7 DEF Front, HeaderLen
  <2>9. p < Size + 4
    BY <1>2, <1>4, <2>1
  <2> HIDE DEF d
  <2> QED
    BY <1>2, <2>2, <2>6, <2>8, <2>9, BlockKeeps
<1> QED
  BY <1>3, <1>4

(* The first four bytes, with a header of two bytes.                         *)
LEMMA ShortKeeps ==
  ASSUME TagInv, EngineStep, op = "write", type \in {"T2T", "T5T"}, Size <= 255,
         NEW b \in Nat, Offset(b) = 0,
         WriteNext("Writing_Data", b + 1, 2, Write(b, <<NdefTlv, Size>> \o Cells(message, 0, 2)))
  PROVE  TagInv'
<1> DEFINE h == <<NdefTlv, Size>>
           d == h \o Cells(message, 0, 2)
<1>1. message \in Bytes /\ mem \in Bytes /\ Size \in Nat /\ Size = Len(message)
  BY DEF TagInv, TypeOK, Size, Bytes
<1>2. h \in Seq(Nat) /\ Len(h) = 2 /\ h[1] = NdefTlv /\ h[2] = Size
  BY <1>1 DEF NdefTlv
<1>3. Front = 0 /\ HeaderLen(Size) = 2
  BY <1>1 DEF Front, HeaderLen
<1>4. WriteNext("Writing_Data", b + 1, 2, Write(b, d))
  OBVIOUS
<1> HIDE DEF h
<1>5. PICK n \in Nat : n = 2
  OBVIOUS
<1>6. /\ Image(Store(mem, 0, h \o Cells(message, 0, n)), message, n)
      /\ h \o Cells(message, 0, n) \in Bytes /\ Len(h \o Cells(message, 0, n)) = Len(h) + n
  <2>1. HeaderOf(h, message)
    BY <1>1, <1>2, <1>3 DEF HeaderOf
  <2> QED
    <3>1. message \in Bytes /\ mem \in Bytes /\ h \in Seq(Nat)
      BY <1>1, <1>2
    <3> HIDE DEF d
    <3>2. Image(Store(mem, 0, h \o Cells(message, 0, n)), message, n)
      BY <2>1, <3>1, ImageStart
    <3>3. h \o Cells(message, 0, n) \in Bytes
      BY <2>1, <3>1, ImageStart
    <3>4. Len(h \o Cells(message, 0, n)) = Len(h) + n
      BY <2>1, <3>1, ImageStart
    <3> QED
      BY <3>2, <3>3, <3>4
<1>7. d \in Bytes /\ Len(d) = 4 /\ Image(Store(mem, Offset(b), d), message, n)
  BY <1>2, <1>5, <1>6
<1>8. Offset(b + 1) = Offset(b) + 4
  BY DEF Offset
<1>9. Offset(b + 1) = Front + HeaderLen(Size) + n
  BY <1>3, <1>5, <1>8
<1>10. WriteNext("Writing_Data", b + 1, n, Write(b, d))
  BY <1>4, <1>5
<1> HIDE DEF d
<1> QED
  BY <1>1, <1>7, <1>9, <1>10, BlockKeeps

(* The first four bytes are a header alone.                                  *)
LEMMA LongKeeps ==
  ASSUME TagInv, EngineStep, op = "write", type = "T2T", Size > 255,
         NEW b \in Nat, Offset(b) = 0,
         WriteNext("Writing_Data", b + 1, 0,
                   Write(b, <<NdefTlv, 255, Size \div 256, Size % 256>>))
  PROVE  TagInv'
<1> DEFINE d == <<NdefTlv, 255, Size \div 256, Size % 256>>
<1>1. message \in Bytes /\ mem \in Bytes /\ Size \in Nat /\ Size = Len(message)
  BY DEF TagInv, TypeOK, Size, Bytes
<1>2. /\ d \in Bytes /\ Len(d) = 4
      /\ d[1] = NdefTlv /\ d[2] = 255 /\ d[3] = Size \div 256 /\ d[4] = Size % 256
  <2>1. PICK u \in Nat, v \in Nat : u = Size \div 256 /\ v = Size % 256
    BY <1>1
  <2>2. d = <<NdefTlv, 255, u, v>>
    BY <2>1
  <2> QED
    BY <2>1, <2>2 DEF NdefTlv, Bytes
<1>3. Front = 0 /\ HeaderLen(Size) = 4
  BY <1>1 DEF Front, HeaderLen
<1>4. WriteNext("Writing_Data", b + 1, 0, Write(b, d))
  OBVIOUS
<1> HIDE DEF d
<1>5. \A i \in 1 .. Len(d) : Cell(Store(mem, 0, d), i) = d[i]
  BY <1>1, <1>2, StoreFront, ZenonT(30)
<1>6. PICK m : m = Store(mem, 0, d)
  OBVIOUS
<1>7. /\ Cell(m, 1) = NdefTlv /\ Cell(m, 2) = 255
      /\ Cell(m, 3) = Size \div 256 /\ Cell(m, 4) = Size % 256
  BY <1>2, <1>5, <1>6
<1>8. Image(m, message, 0)
  <2>1. \A i \in 1 .. Len(message) : ~(i <= 0)
    BY <1>1
  <2>2. type # "MIFARE" /\ Len(message) > 255 /\ ~(Len(message) <= 255)
    BY <1>1
  <2> QED
    BY <1>1, <1>3, <1>7, <2>1, <2>2 DEF Image
<1>9. PICK p \in Nat : p = 0
  OBVIOUS
<1>10. Image(Store(mem, Offset(b), d), message, p)
  BY <1>6, <1>8, <1>9
<1>11. Offset(b + 1) = Front + HeaderLen(Size) + p
  BY <1>3, <1>9 DEF Offset
<1>12. WriteNext("Writing_Data", b + 1, p, Write(b, d))
  BY <1>4, <1>9
<1> QED
  BY <1>1, <1>2, <1>10, <1>11, <1>12, BlockKeeps

(* T2T keeps the invariant.                                                  *)
LEMMA T2TTag ==
  ASSUME TagInv, T2T
  PROVE  TagInv'
<1>1. ASSUME NEW o \in {"read", "write"}, T2TInitial(o) PROVE TagInv'
  <2>1. EngineStep /\ Goto("Reading_CC") /\ Send(Cmd("cc", 3, 0, <<>>))
    BY <1>1, InFacts DEF T2TInitial
  <2>2. /\ "Reading_CC" \in States \ Marked /\ "cc" \in Commands \ {"write", "write_data"}
        /\ 3 \in Nat /\ 0 \in 0 .. 255
    BY DEF States, Marked, Commands
  <2> QED
    BY <2>1, <2>2, PlainAsk
<1>2. CASE T2TReadingCC \/ T2TReadingData \/ T2TReadingNDEF
  BY <1>2, T2TReads
<1>3. CASE T2TWriteCC
  <2>1. EngineStep /\ type = "T2T" /\ op = "write"
    BY <1>3, InFacts DEF T2TWriteCC
  <2>2. PICK b \in Nat : b = 4
    OBVIOUS
  <2>3. Offset(b) = 0
    BY <2>1, <2>2 DEF Offset
  <2>4. Size \in Nat
    BY DEF TagInv, TypeOK, Bytes, Size
  <2>5. CASE rsp.data[1] < Size
    <3>1. Quits
      BY <1>3, <2>5 DEF T2TWriteCC
    <3> QED
      BY <2>1, <3>1, QuitKeeps
  <2>6. CASE ~(rsp.data[1] < Size) /\ Size > 255
    <3>1. WriteNext("Writing_Data", b + 1, 0,
                    Write(b, <<NdefTlv, 255, Size \div 256, Size % 256>>))
      BY <1>3, <2>2, <2>6 DEF T2TWriteCC
    <3> QED
      BY <2>1, <2>3, <2>6, <3>1, LongKeeps
  <2>7. CASE ~(rsp.data[1] < Size) /\ ~(Size > 255)
    <3>1. WriteNext("Writing_Data", b + 1, 2,
                    Write(b, <<NdefTlv, Size>> \o Cells(message, 0, 2)))
      BY <1>3, <2>2, <2>7 DEF T2TWriteCC
    <3>2. Size <= 255
      BY <2>4, <2>7
    <3> QED
      BY <2>1, <2>3, <3>1, <3>2, ShortKeeps
  <2> QED
    BY <2>5, <2>6, <2>7
<1>4. CASE T2TWritingData
  <2>1. /\ EngineStep /\ pc = "engine" /\ type = "T2T" /\ op = "write"
        /\ ndef.state = "Writing_Data" /\ rsp.ok
    BY <1>4, InFacts DEF T2TWritingData
  <2>2. IF Size <= ndef.ptr THEN Written
        ELSE WriteNext("Writing_Data", ndef.blk + 1, ndef.ptr + 4, Write(ndef.blk, Chunk(4)))
    BY <1>4 DEF T2TWritingData
  <2> QED
    BY <2>1, <2>2, WritingDataKeeps
<1> QED
  BY <1>1, <1>2, <1>3, <1>4 DEF T2T

(* T5T keeps the invariant.                                                  *)
LEMMA T5TTag ==
  ASSUME TagInv, T5T
  PROVE  TagInv'
<1>1. ASSUME NEW o \in {"read", "write"}, T5TInitial(o) PROVE TagInv'
  <2>1. EngineStep /\ Goto("Reading_CC") /\ Send(Cmd("cc", 0, 0, <<>>))
    BY <1>1, InFacts DEF T5TInitial
  <2>2. /\ "Reading_CC" \in States \ Marked /\ "cc" \in Commands \ {"write", "write_data"}
        /\ 0 \in Nat /\ 0 \in 0 .. 255
    BY DEF States, Marked, Commands
  <2> QED
    BY <2>1, <2>2, PlainAsk
<1>2. CASE T5TReadingCC \/ T5TReadingData \/ T5TReadingNDEF
  BY <1>2, T5TReads
<1>3. CASE T5TWriteCC
  <2>1. EngineStep /\ type = "T5T" /\ op = "write"
    BY <1>3, InFacts DEF T5TWriteCC
  <2>2. PICK b \in Nat : b = 1
    OBVIOUS
  <2>3. Offset(b) = 0
    BY <2>1, <2>2 DEF Offset
  <2>4. Size \in Nat
    BY DEF TagInv, TypeOK, Bytes, Size
  <2>5. CASE rsp.data[1] < Size \/ 255 < Size
    <3>1. Quits
      BY <1>3, <2>5 DEF T5TWriteCC
    <3> QED
      BY <2>1, <3>1, QuitKeeps
  <2>6. CASE ~(rsp.data[1] < Size \/ 255 < Size)
    <3>1. WriteNext("Writing_Data", b + 1, 2,
                    Write(b, <<NdefTlv, Size>> \o Cells(message, 0, 2)))
      BY <1>3, <2>2, <2>6 DEF T5TWriteCC
    <3>2. Size <= 255
      BY <2>4, <2>6
    <3> QED
      BY <2>1, <2>3, <3>1, <3>2, ShortKeeps
  <2> QED
    BY <2>5, <2>6
<1>4. CASE T5TWritingData
  <2>1. /\ EngineStep /\ pc = "engine" /\ type = "T5T" /\ op = "write"
        /\ ndef.state = "Writing_Data" /\ rsp.ok
    BY <1>4, InFacts DEF T5TWritingData
  <2>2. IF Size <= ndef.ptr THEN Written
        ELSE WriteNext("Writing_Data", ndef.blk + 1, ndef.ptr + 4, Write(ndef.blk, Chunk(4)))
    BY <1>4 DEF T5TWritingData
  <2> QED
    BY <2>1, <2>2, WritingDataKeeps
<1> QED
  BY <1>1, <1>2, <1>3, <1>4 DEF T5T

-----------------------------------------------------------------------------
(* MIFARE                                                                    *)

(* The blocks that can be written.                                           *)
LEMMA SectorBlocks ==
  ASSUME type = "MIFARE", NEW b \in Nat
  PROVE  /\ Trailer(b) => Offset(b + 1) = Offset(b) /\ b # 4
         /\ b % 4 # 3 => Offset(b + 1) = Offset(b) + 16
         /\ Trailer(b) <=> b % 4 = 3
<1>1. Trailer(b) <=> b % 4 = 3
  BY DEF Trailer
<1>2. b % 4 = 3 => (b + 1) \div 4 = (b \div 4) + 1 /\ (b + 1) % 4 = 0 /\ b # 4
  OBVIOUS
<1>3. b % 4 # 3 => (b + 1) \div 4 = b \div 4 /\ (b + 1) % 4 = (b % 4) + 1
  OBVIOUS
<1> QED
  BY <1>1, <1>2, <1>3 DEF Offset

(* The first block of a MIFARE tag holds the header and what follows.        *)
LEMMA FirstBlockFacts ==
  ASSUME TagInv, type = "MIFARE"
  PROVE  \E p \in Nat :
           /\ p = IF Size > 255 THEN 10 ELSE 12
           /\ FirstBlock \in Bytes
           /\ Image(Store(mem, 0, FirstBlock), message, p)
           /\ 16 = Front + HeaderLen(Size) + p
<1>1. message \in Bytes /\ mem \in Bytes /\ Size \in Nat /\ Size = Len(message)
  BY DEF TagInv, TypeOK, Size, Bytes
<1>2. Front = 2
  BY DEF Front
<1>3. CASE Size > 255
  <2> DEFINE h == <<0, 0, NdefTlv, 255, Size \div 256, Size % 256>>
  <2>1. /\ h \in Seq(Nat) /\ Len(h) = 6 /\ h[1] = 0 /\ h[2] = 0
        /\ h[3] = NdefTlv /\ h[4] = 255 /\ h[5] = Size \div 256 /\ h[6] = Size % 256
    <3>1. PICK u \in Nat, v \in Nat : u = Size \div 256 /\ v = Size % 256
      BY <1>1
    <3>2. h = <<0, 0, NdefTlv, 255, u, v>>
      BY <3>1
    <3> QED
      BY <3>1, <3>2 DEF NdefTlv
  <2>2. FirstBlock = h \o Cells(message, 0, 10)
    BY <1>3 DEF FirstBlock
  <2> HIDE DEF h
  <2>3. HeaderLen(Size) = 4
    BY <1>3 DEF HeaderLen
  <2>4. HeaderOf(h, message)
    BY <1>1, <1>2, <1>3, <2>1, <2>3 DEF HeaderOf
  <2>5. PICK n \in Nat : n = 10
    OBVIOUS
  <2>6. message \in Bytes /\ mem \in Bytes /\ h \in Seq(Nat)
    BY <1>1, <2>1
  <2>7. Image(Store(mem, 0, h \o Cells(message, 0, n)), message, n)
    BY <2>4, <2>6, ImageStart
  <2>8. h \o Cells(message, 0, n) \in Bytes
    BY <2>4, <2>6, ImageStart
  <2> QED
    BY <1>2, <1>3, <2>2, <2>3, <2>5, <2>7, <2>8
<1>4. CASE ~(Size > 255)
  <2> DEFINE h == <<0, 0, NdefTlv, Size>>
  <2>1. h \in Seq(Nat) /\ Len(h) = 4 /\ h[1] = 0 /\ h[2] = 0 /\ h[3] = NdefTlv /\ h[4] = Size
    BY <1>1 DEF NdefTlv
  <2>2. FirstBlock = h \o Cells(message, 0, 12)
    BY <1>4 DEF FirstBlock
  <2> HIDE DEF h
  <2>3. HeaderLen(Size) = 2
    BY <1>4 DEF HeaderLen
  <2>4. HeaderOf(h, message)
    BY <1>1, <1>2, <1>4, <2>1, <2>3 DEF HeaderOf
  <2>5. PICK n \in Nat : n = 12
    OBVIOUS
  <2>6. message \in Bytes /\ mem \in Bytes /\ h \in Seq(Nat)
    BY <1>1, <2>1
  <2>7. Image(Store(mem, 0, h \o Cells(message, 0, n)), message, n)
    BY <2>4, <2>6, ImageStart
  <2>8. h \o Cells(message, 0, n) \in Bytes
    BY <2>4, <2>6, ImageStart
  <2> QED
    BY <1>2, <1>4, <2>2, <2>3, <2>5, <2>7, <2>8
<1> QED
  BY <1>3, <1>4

(* MIFARE keeps the invariant.                                               *)
LEMMA MifareTag ==
  ASSUME TagInv, MifareInv, Mifare
  PROVE  TagInv'
<1>1. ASSUME NEW o \in {"read", "write"}, Authenticate0(o) \/ ReadGpb(o) PROVE TagInv'
  BY <1>1, MifareAsks
<1>2. CASE GpbRead \/ Authenticated \/ ReadingFirstBlk \/ ReadingData
  BY <1>2, MifareReads
<1>3. CASE GpbReadToWrite
  <2>1. EngineStep /\ type = "MIFARE" /\ op = "write"
    BY <1>3, InFacts DEF GpbReadToWrite
  <2>2. PICK b \in Nat, p \in Nat, a \in Nat : b = 4 /\ p = 0 /\ a = 1
    OBVIOUS
  <2>3. WriteNext("Writing_Data1", b, p, Cmd("auth", a, 0, <<>>))
    BY <1>3, <2>2 DEF GpbReadToWrite, Auth
  <2> QED
    BY <2>1, <2>2, <2>3, AnnounceKeeps
<1>4. CASE WritingData1
  <2>1. /\ EngineStep /\ pc = "engine" /\ type = "MIFARE" /\ op = "write"
        /\ ndef.state = "Writing_Data1" /\ rsp.ok
    BY <1>4, InFacts DEF WritingData1
  <2>2. PICK b \in Nat, p \in Nat : b = ndef.blk /\ p = ndef.ptr
    BY DEF TagInv, TypeOK
  <2>3. IF b = 4 THEN p = 0 ELSE Image(mem, message, p) /\ Offset(b) = Front + HeaderLen(Size) + p
    <3>1. CASE b = 4
      BY <2>1, <2>2, <3>1 DEF TagInv, Busy, WriteFits
    <3>2. CASE b # 4
      <4>1. Began
        BY <2>1, <2>2, <3>2 DEF Began
      <4> QED
        BY <2>1, <2>2, <3>2, <4>1, WritesOf
    <3> QED
      BY <3>1, <3>2
  <2>4. CASE Size <= ndef.ptr
    <3>1. Written
      BY <1>4, <2>4 DEF WritingData1
    <3>2. message # <<>> => b # 4
      BY <2>2, <2>3, <2>4 DEF Size, TagInv, TypeOK, Bytes
    <3>3. message # <<>> => Image(mem, message, ndef.ptr)
      BY <2>2, <2>3, <3>2
    <3> QED
      BY <2>1, <2>4, <3>1, <3>3, WrittenKeeps
  <2>5. CASE ~(Size <= ndef.ptr) /\ Trailer(ndef.blk)
    <3>1. PICK c \in Nat, a \in Nat : c = b + 1 /\ a = (b + 1) \div 4
      OBVIOUS
    <3>2. WriteNext("Writing_Data1", c, p, Cmd("auth", a, 0, <<>>))
      BY <1>4, <2>2, <2>5, <3>1 DEF WritingData1, Auth
    <3>3. Offset(c) = Offset(b) /\ b # 4
      BY <2>1, <2>2, <2>5, <3>1, SectorBlocks
    <3>4. b >= 4
      BY <2>1, <2>2 DEF MifareInv, PlaceOK
    <3>5. c # 4 /\ Image(mem, message, p) /\ Offset(c) = Front + HeaderLen(Size) + p
      BY <2>3, <3>1, <3>3, <3>4
    <3> QED
      BY <2>1, <3>2, <3>5, AnnounceKeeps
  <2>6. CASE ~(Size <= ndef.ptr) /\ ~Trailer(ndef.blk)
    <3>1. WriteNext("Writing_Data2", b, p, Cmd("write_at", b, 0, <<>>))
      BY <1>4, <2>2, <2>6 DEF WritingData1
    <3> QED
      BY <2>1, <2>3, <3>1, AnnounceKeeps
  <2> QED
    BY <2>4, <2>5, <2>6
<1>5. CASE WritingData2
  <2>1. /\ EngineStep /\ pc = "engine" /\ type = "MIFARE" /\ op = "write"
        /\ ndef.state = "Writing_Data2" /\ rsp.ok
    BY <1>5, InFacts DEF WritingData2
  <2>2. PICK b \in Nat, r \in Nat : b = ndef.blk /\ r = ndef.ptr
    BY DEF TagInv, TypeOK
  <2>3. sel = b
    BY <2>1, <2>2 DEF TagInv, Busy, WriteFits
  <2>4. b >= 4 /\ b % 4 # 3
    BY <2>1, <2>2 DEF MifareInv, PlaceOK
  <2>5. CASE b = 4
    <3>1. PICK p \in Nat :
            /\ p = IF Size > 255 THEN 10 ELSE 12
            /\ FirstBlock \in Bytes
            /\ Image(Store(mem, 0, FirstBlock), message, p)
            /\ 16 = Front + HeaderLen(Size) + p
      BY <2>1, FirstBlockFacts
    <3>2. WriteNext("Writing_Data1", b + 1, p, Cmd("write_data", 0, 16, FirstBlock))
      <4>1. WriteNext("Writing_Data1", 5, IF Size > 255 THEN 10 ELSE 12,
                      Cmd("write_data", 0, 16, FirstBlock))
        BY <1>5, <2>2, <2>5 DEF WritingData2
      <4> QED
        BY <2>5, <3>1, <4>1
    <3>3. Offset(b) = 0 /\ Offset(b + 1) = 16
      BY <2>1, <2>5 DEF Offset
    <3>4. PICK d \in Bytes : d = FirstBlock
      BY <3>1
    <3>5. /\ WriteNext("Writing_Data1", b + 1, p, Cmd("write_data", 0, 16, d))
          /\ Image(Store(mem, Offset(b), d), message, p)
          /\ Offset(b + 1) = Front + HeaderLen(Size) + p
      BY <3>1, <3>2, <3>3, <3>4
    <3> QED
      BY <2>1, <2>3, <2>5, <3>5, SectorBlockKeeps
  <2>6. CASE b # 4
    <3>1. Began
      BY <2>1, <2>2, <2>6 DEF Began
    <3>2. /\ message \in Bytes /\ mem \in Bytes /\ Size \in Nat /\ Size = Len(message)
          /\ Image(mem, message, r)
          /\ Offset(b) = Front + HeaderLen(Size) + r
          /\ Offset(b) \in Nat
      BY <2>1, <2>2, <3>1, WritesOf
    <3>3. PICK p \in Nat, n \in Nat, at \in Nat : p = r + 16 /\ n = 16 /\ at = Offset(b)
      <4>1. r + 16 \in Nat /\ 16 \in Nat
        OBVIOUS
      <4> QED
        BY <3>2, <4>1, Zenon
    <3>4. WriteNext("Writing_Data1", b + 1, p, Cmd("write_data", 0, 16, Cells(message, r, 16)))
      BY <1>5, <2>2, <2>6, <3>3 DEF WritingData2, Chunk
    <3>5. /\ Image(Store(mem, at, Cells(message, r, n)), message, r + n)
          /\ Cells(message, r, n) \in Bytes
      <4>1. message \in Bytes /\ mem \in Bytes
        BY <3>2
      <4>2. at = Front + HeaderLen(Len(message)) + r /\ Image(mem, message, r)
        BY <3>2, <3>3
      <4> QED
        BY <4>1, <4>2, ImageOn
    <3>6. PICK d \in Bytes : d = Cells(message, r, n)
      BY <3>5
    <3>7. Offset(b + 1) = Offset(b) + 16
      BY <2>1, <2>4, SectorBlocks
    <3>8. /\ WriteNext("Writing_Data1", b + 1, p, Cmd("write_data", 0, 16, d))
          /\ Image(Store(mem, Offset(b), d), message, p)
      BY <3>3, <3>4, <3>5, <3>6
    <3>9. Offset(b + 1) = Front + HeaderLen(Size) + p
      BY <3>2, <3>3, <3>7 DEF Front, HeaderLen
    <3>10. b + 1 # 4
      BY <2>4
    <3> QED
      BY <2>1, <2>3, <3>8, <3>9, <3>10, SectorBlockKeeps
  <2> QED
    BY <2>5, <2>6
<1> QED
  BY <1>1, <1>2, <1>3, <1>4, <1>5 DEF Mifare

-----------------------------------------------------------------------------
(* T4T, and all steps together                                               *)

(* A piece of a T4T's file.                                                  *)
LEMMA FilePieceKeeps ==
  ASSUME TagInv, EngineStep, op = "write", type = "T4T", NEW s \in States, s # "Initial",
         NEW b \in Nat, NEW p \in Nat, NEW a \in Nat, NEW d \in Bytes, Len(d) \in 0 .. 255,
         WriteNext(s, b, p, Write(a, d))
  PROVE  TagInv'
<1> DEFINE c == Write(a, d)
<1>1. Cmds(c) /\ c.what = "write"
  <2> QED
    BY DEF Write, Cmd, Cmds, Commands
<1>2. WriteNext(s, b, p, c)
  OBVIOUS
<1> HIDE DEF c
<1>3. cmd' = c /\ type' = "T4T"
  BY <1>2, WriteStep
<1>4. WriteFits'
  BY <1>1, <1>3 DEF WriteFits, Began
<1> QED
  BY <1>1, <1>2, <1>4, WriteKeeps

(* The two bytes of a size.                                                  *)
LEMMA SizeBytes ==
  ASSUME NEW n \in Nat
  PROVE  SizeOf(n) \in Bytes /\ Len(SizeOf(n)) = 2
<1>1. n \div 256 \in Nat /\ n % 256 \in Nat
  OBVIOUS
<1> QED
  BY <1>1 DEF SizeOf, Bytes

(* T4T keeps the invariant.                                                  *)
LEMMA T4TTag ==
  ASSUME TagInv, T4TInv, OpenInv, T4T
  PROVE  TagInv'
<1>0. /\ message \in Bytes /\ mem \in Bytes /\ Size \in Nat
      /\ ndef.blk \in Nat /\ ndef.ptr \in Nat /\ WriteSz \in 1 .. 255
  BY RwAssumption DEF TagInv, TypeOK, Size, Bytes
<1>s. {"Writing_NDEF", "Writing_NDEFsize", "Write_NDEFcomplete"} \subseteq States \ {"Initial"}
  BY DEF States
<1>b. PICK b \in Nat, r \in Nat : b = ndef.blk /\ r = ndef.ptr
  BY <1>0
<1>z. PICK z \in Nat, t \in Nat : z = 0 /\ t = 2
  OBVIOUS
<1>1. ASSUME NEW o \in {"read", "write"},
             SelectApp20(o) \/ App20Answered(o) \/ App10Selected(o) \/ CCSelected(o) \/ CCRead(o)
      PROVE  TagInv'
  BY <1>1, T4TAsks
<1>2. CASE NdefSelected
  BY <1>2, T4TAsks
<1>3. CASE SizeRead
  BY <1>3, SizeReadKeeps
<1>4. CASE ReadingNdef
  BY <1>4, ReadingNdefKeeps
<1>5. CASE ClearSize
  <2>1. EngineStep /\ type = "T4T" /\ op = "write"
    BY <1>5, InFacts DEF ClearSize
  <2>2. PICK d \in Bytes : d = SizeOf(z) /\ Len(d) = 2
    BY SizeBytes
  <2>3. WriteNext("Writing_NDEF", b, z, Write(z, d))
    BY <1>5, <1>b, <1>z, <2>2 DEF ClearSize
  <2>4. Len(d) \in 0 .. 255
    BY <2>2
  <2> QED
    BY <1>s, <2>1, <2>3, <2>4, FilePieceKeeps
<1>6. CASE WritingNdef
  <2>1. /\ EngineStep /\ pc = "engine" /\ type = "T4T" /\ op = "write"
        /\ ndef.state = "Writing_NDEF" /\ rsp.ok
    BY <1>6, InFacts DEF WritingNdef
  <2>2. ndef.ptr <= Size
    BY <2>1 DEF T4TInv, Confirmed
  <2>3. PICK n \in Nat : n = Size - r
    BY <1>0, <1>b, <2>2
  <2>4. PICK a \in Nat, p \in Nat : a = r + 2 /\ p = r + WriteSz
    BY <1>0
  <2>5. CASE n < WriteSz
    <3>1. PICK d \in Bytes : d = Cells(message, r, n) /\ Len(d) = n
      BY <1>0, CellsFacts
    <3>2. WriteNext("Writing_NDEFsize", b, r, Write(a, d))
      BY <1>6, <1>b, <2>3, <2>4, <2>5, <3>1 DEF WritingNdef, Chunk
    <3>3. Len(d) \in 0 .. 255
      BY <1>0, <2>5, <3>1
    <3> QED
      BY <1>s, <2>1, <3>2, <3>3, FilePieceKeeps
  <2>6. CASE ~(n < WriteSz)
    <3>1. PICK d \in Bytes : d = Cells(message, r, WriteSz) /\ Len(d) = WriteSz
      BY <1>0, CellsFacts
    <3>2. WriteNext("Writing_NDEF", b, p, Write(a, d))
      BY <1>6, <1>b, <2>3, <2>4, <2>6, <3>1 DEF WritingNdef, Chunk
    <3>3. Len(d) \in 0 .. 255
      BY <1>0, <3>1
    <3> QED
      BY <1>s, <2>1, <3>2, <3>3, FilePieceKeeps
  <2> QED
    BY <2>5, <2>6
<1>7. CASE WritingSize
  <2>1. EngineStep /\ type = "T4T" /\ op = "write"
    BY <1>7, InFacts DEF WritingSize
  <2>2. PICK d \in Bytes : d = SizeOf(Size) /\ Len(d) = 2
    BY <1>0, SizeBytes
  <2>3. WriteNext("Write_NDEFcomplete", b, r, Write(z, d))
    BY <1>7, <1>b, <1>z, <2>2 DEF WritingSize
  <2>4. Len(d) \in 0 .. 255
    BY <2>2
  <2> QED
    BY <1>s, <2>1, <2>3, <2>4, FilePieceKeeps
<1>8. CASE WriteComplete
  <2>1. /\ EngineStep /\ pc = "engine" /\ type = "T4T" /\ op = "write"
        /\ ndef.state = "Write_NDEFcomplete" /\ rsp.ok /\ Written
    BY <1>8, InFacts DEF WriteComplete
  <2>2. nlen = Size /\ Agrees(Size)
    BY <2>1 DEF T4TInv, Confirmed
  <2> QED
    BY <2>1, <2>2, WrittenKeeps
<1> QED
  BY <1>1, <1>2, <1>3, <1>4, <1>5, <1>6, <1>7, <1>8 DEF T4T

(* An answer that fails the tests ends the operation.                        *)
LEMMA GivesUpTag ==
  ASSUME TagInv, GivesUp
  PROVE  TagInv'
<1>1. /\ EngineStep /\ pc' = "idle"
      /\ UNCHANGED <<cmd, ndef, buffer, heard, content, whole>>
  BY DEF GivesUp, EngineStep, hostVars, tagVars
<1>2. Heards(heard') /\ heard'.kind = None
  BY <1>1 DEF TagInv, TypeOK, HeardFits, Heards, EngineStep
<1>3. Laid'
  BY <1>1, LaidStep DEF TagInv
<1>4. /\ ndef' \in Ndefs /\ buffer' \in Bytes /\ Len(buffer') <= MaxFile
      /\ content' \in Bytes /\ whole' \in BOOLEAN
  BY <1>1 DEF TagInv, TypeOK, Ndefs, BufferHolds
<1>5. heard'.kind # "message"
  BY <1>2 DEF None
<1> QED
  BY <1>1, <1>2, <1>3, <1>4, <1>5, EndKeeps

(* Every step keeps the invariant.                                           *)
LEMMA TagStep ==
  ASSUME TagInv, MifareInv, T4TInv, OpenInv, [Next]_vars, TagFails => ~rsp'.ok
  PROVE  TagInv'
<1>1. CASE Begin
  BY <1>1, BeginTag
<1>2. CASE Tag
  BY <1>2, TagTag
<1>3. CASE T1T
  BY <1>3, T1TTag
<1>4. CASE T2T
  BY <1>4, T2TTag
<1>5. CASE T3T
  BY <1>5, T3TTag
<1>6. CASE T4T
  BY <1>6, T4TTag
<1>7. CASE T5T
  BY <1>7, T5TTag
<1>8. CASE Mifare
  BY <1>8, MifareTag
<1>9. CASE GivesUp
  BY <1>9, GivesUpTag
<1>10. CASE UNCHANGED vars
  <2>1. /\ UNCHANGED <<pc, op, ndef, buffer, message, heard, cmd, rsp, type, v1, cap, mem, nlen>>
        /\ UNCHANGED <<sel, auth, ops, content, whole, intact, fails, misled>>
    BY <1>10 DEF vars, hostVars, tagVars
  <2>2. TypeOK' /\ BufferHolds' /\ DataCaps' /\ Exact' = Exact /\ HeardFits'
    BY <2>1 DEF TagInv, TypeOK, BufferHolds, DataCaps, HeardFits, Exact
  <2>3. Laid'
    BY <2>1, <2>2 DEF TagInv, Laid, Headed, Holds
  <2>4. Answer' = Answer \/ cmd.what = "write_data" \/ Answer = NoAnswer
    BY <2>1, AnswerSame
  <2>5. AnswerStands'
    BY <2>1, <2>4 DEF TagInv, AnswerStands, NoAnswer
  <2>6. Busy' = Busy
    BY <2>1 DEF Busy
  <2>7. Busy => ReadFits'
    BY <2>1 DEF TagInv, ReadFits, InParts, InState
  <2>8. Busy => PartsFit'
    BY <2>1, <2>2 DEF TagInv, PartsFit, InParts, Progress, Place, Offset
  <2>9. Busy => WriteFits'
    BY <2>1 DEF TagInv, WriteFits, Began, Image, Front, MemAfter, Offset, HeaderLen, Size
  <2> QED
    BY <2>2, <2>3, <2>5, <2>6, <2>7, <2>8, <2>9 DEF TagInv
<1> QED
  BY <1>1, <1>2, <1>3, <1>4, <1>5, <1>6, <1>7, <1>8, <1>9, <1>10 DEF Next, Engine

-----------------------------------------------------------------------------
(* The theorems                                                              *)

(* A T4T is asked for what suits the file that is selected.                  *)
LEMMA OpenEngine ==
  ASSUME TagInv, OpenInv, T4T
  PROVE  OpenInv'
<1>1. ASSUME NEW s, NEW w, pc' = "tag", ndef'.state = s, cmd'.what = w, auth' = auth, Opens(s, w)
      PROVE  OpenInv'
  BY <1>1 DEF OpenInv, Opens
<1>2. ASSUME pc' \in {"idle", "lost"} PROVE OpenInv'
  BY <1>2 DEF OpenInv, Busy
<1>3. /\ \A s, o : In("T4T", o, s) => /\ pc = "engine" /\ ndef.state = s /\ auth' = auth
                                      /\ rsp.ok /\ s # "Initial" => auth = OpenedBy(s)
      /\ {"Selecting_NDEF_Application20", "Selecting_NDEF_Application10", "Selecting_CC",
          "Reading_CC", "Selecting_NDEF", "Reading_NDEF_Size", "Reading_NDEF",
          "Writing_NDEF", "Writing_NDEFsize", "Write_NDEFcomplete"} \subseteq States
  BY DEF In, tagVars, OpenInv, Busy, States
<1>4. ASSUME NEW s \in States, NEW c, Goto(s), Send(c)
      PROVE  pc' = "tag" /\ ndef'.state = s /\ cmd' = c
  BY <1>4, StateStep DEF Goto, Send
<1>5. ASSUME NEW o, SelectApp20(o) PROVE OpenInv'
  <2>1. pc' = "tag" /\ ndef'.state = "Selecting_NDEF_Application20" /\ cmd'.what = "app20"
        /\ auth' = auth
    BY <1>3, <1>4, <1>5 DEF SelectApp20, Cmd
  <2> QED
    BY <1>1, <2>1 DEF Opens
<1>6. ASSUME NEW o, App20Answered(o) PROVE OpenInv'
  <2>1. CASE rsp.ok
    <3>1. /\ pc' = "tag" /\ ndef'.state = "Selecting_CC" /\ cmd'.what = "cc_file"
          /\ auth' = auth /\ auth = 0
      BY <1>3, <1>4, <1>6, <2>1 DEF App20Answered, Cmd, OpenedBy
    <3> QED
      BY <1>1, <3>1 DEF Opens
  <2>2. CASE ~rsp.ok
    <3>1. pc' = "tag" /\ ndef'.state = "Selecting_NDEF_Application10" /\ cmd'.what = "app10"
          /\ auth' = auth
      BY <1>3, <1>4, <1>6, <2>2 DEF App20Answered, Cmd
    <3> QED
      BY <1>1, <3>1 DEF Opens
  <2> QED
    BY <2>1, <2>2
<1>7. ASSUME NEW o, App10Selected(o) PROVE OpenInv'
  <2>1. /\ pc' = "tag" /\ ndef'.state = "Selecting_CC" /\ cmd'.what = "cc_file"
        /\ auth' = auth /\ auth = 0
    BY <1>3, <1>4, <1>7 DEF App10Selected, Cmd, OpenedBy
  <2> QED
    BY <1>1, <2>1 DEF Opens
<1>8. ASSUME NEW o, CCSelected(o) PROVE OpenInv'
  <2>1. /\ pc' = "tag" /\ ndef'.state = "Reading_CC" /\ cmd'.what = "cc"
        /\ auth' = auth /\ auth = 1
    BY <1>3, <1>4, <1>8 DEF CCSelected, Cmd, OpenedBy
  <2> QED
    BY <1>1, <2>1 DEF Opens
<1>9. ASSUME NEW o, CCRead(o) PROVE OpenInv'
  <2>1. /\ pc' = "tag" /\ ndef'.state = "Selecting_NDEF" /\ cmd'.what = "ndef_file"
        /\ auth' = auth /\ auth = 1
    BY <1>3, <1>4, <1>9 DEF CCRead, Cmd, OpenedBy
  <2> QED
    BY <1>1, <2>1 DEF Opens
<1>10. CASE NdefSelected
  <2>1. /\ pc' = "tag" /\ ndef'.state = "Reading_NDEF_Size" /\ cmd'.what = "read"
        /\ auth' = auth /\ auth = 2
    BY <1>3, <1>4, <1>10 DEF NdefSelected, Cmd, OpenedBy
  <2> QED
    BY <1>1, <2>1 DEF Opens
<1>n. ASSUME NEW x \in Ndefs, NEW s, NEW p, NEW n
      PROVE  /\ [x EXCEPT !.state = s, !.ptr = p, !.size = n].state = s
             /\ [x EXCEPT !.ptr = p].state = x.state
             /\ [x EXCEPT !.state = s, !.blk = n, !.ptr = p].state = s
  BY DEF Ndefs
<1>i. ndef \in Ndefs
  BY DEF TagInv, TypeOK, Ndefs
<1>11. CASE SizeRead
  <2>1. auth' = auth /\ auth = 2
    BY <1>3, <1>11 DEF SizeRead, OpenedBy
  <2> DEFINE n == FirstWord(rsp.data)
  <2>2. \/ pc' = "idle"
        \/ /\ ndef' = [ndef EXCEPT !.state = "Reading_NDEF", !.ptr = 0, !.size = n]
           /\ pc' = "tag" /\ cmd' = ReadBinary(n, 0)
    BY <1>11 DEF SizeRead, Refuse, Ends, Send
  <2> HIDE DEF n
  <2>3. ReadBinary(n, 0).what = "read"
    BY DEF ReadBinary, Cmd
  <2>4. CASE /\ ndef' = [ndef EXCEPT !.state = "Reading_NDEF", !.ptr = 0, !.size = n]
             /\ pc' = "tag" /\ cmd' = ReadBinary(n, 0)
    <3>1. ndef'.state = "Reading_NDEF" /\ cmd'.what = "read"
      BY <1>n, <1>i, <2>3, <2>4
    <3>2. Opens("Reading_NDEF", "read")
      BY <2>1 DEF Opens
    <3> QED
      BY <1>1, <2>1, <2>4, <3>1, <3>2
  <2> QED
    BY <1>2, <2>2, <2>4
<1>12. CASE ReadingNdef
  <2>1. auth' = auth /\ auth = 2 /\ ndef.state = "Reading_NDEF"
    BY <1>3, <1>12 DEF ReadingNdef, OpenedBy
  <2>2. \/ pc' \in {"idle", "lost"}
        \/ pc' = "tag" /\ cmd'.what = "read"
    BY <1>12 DEF ReadingNdef, Deliver, Ends, Send, ReadBinary, Cmd
  <2>3. ndef'.state = "Reading_NDEF"
    BY <1>12, <1>n, <1>i, <2>1 DEF ReadingNdef
  <2> QED
    BY <1>1, <1>2, <2>1, <2>2, <2>3 DEF Opens
<1>13. ASSUME NEW s \in {"Writing_NDEF", "Writing_NDEFsize", "Write_NDEFcomplete"},
              NEW b, NEW p, NEW a, NEW d, WriteNext(s, b, p, Write(a, d)), auth' = auth, auth = 2
       PROVE  OpenInv'
  <2>1. pc' = "tag" /\ cmd'.what = "write"
    BY <1>13 DEF WriteNext, Send, Write, Cmd
  <2>2. ndef'.state = s
    BY <1>13, <1>n, <1>i DEF WriteNext
  <2> QED
    BY <1>1, <1>13, <2>1, <2>2 DEF Opens
<1>14. CASE ClearSize
  <2>1. auth' = auth /\ auth = 2
    BY <1>3, <1>14 DEF ClearSize, OpenedBy
  <2> QED
    BY <1>13, <1>14, <2>1 DEF ClearSize
<1>15. CASE WritingNdef
  <2>1. auth' = auth /\ auth = 2
    BY <1>3, <1>15 DEF WritingNdef, OpenedBy
  <2> QED
    BY <1>13, <1>15, <2>1 DEF WritingNdef
<1>16. CASE WritingSize
  <2>1. auth' = auth /\ auth = 2
    BY <1>3, <1>16 DEF WritingSize, OpenedBy
  <2> QED
    BY <1>13, <1>16, <2>1 DEF WritingSize
<1>17. CASE WriteComplete
  BY <1>2, <1>17 DEF WriteComplete, Written, Pushed, Ends
<1> QED
  BY <1>5, <1>6, <1>7, <1>8, <1>9, <1>10, <1>11, <1>12, <1>14, <1>15, <1>16, <1>17 DEF T4T

(* The file that a T4T has selected is the one that the state expects.       *)
LEMMA OpenStep ==
  ASSUME TagInv, OpenInv, [Next]_vars, TagFails => ~rsp'.ok
  PROVE  OpenInv'
<1>1. CASE Begin
  <2>1. ndef' = [ndef EXCEPT !.state = "Initial"]
    BY <1>1 DEF Begin, BeginRead, BeginWrite, Reset
  <2>2. ndef'.state = "Initial"
    BY <2>1, StateStep DEF States
  <2> QED
    BY <2>2 DEF OpenInv, Busy
<1>2. CASE TagAnswers
  <2>1. /\ pc = "tag" /\ pc' = "engine" /\ ndef' = ndef /\ type' = type /\ cmd' = cmd
        /\ rsp'.ok => Executed
    BY <1>2 DEF TagAnswers, hostVars, Useless
  <2>2. SUFFICES ASSUME type = "T4T", ndef.state # "Initial", Executed
                 PROVE  auth' = OpenedBy(ndef.state)
    BY <2>1 DEF OpenInv, Busy
  <2>3. Opens(ndef.state, cmd.what)
    BY <2>1, <2>2 DEF OpenInv, Busy
  <2> QED
    BY <2>2, <2>3 DEF Opens, OpenedBy, Executed, SelectedBy
<1>3. CASE TagFails
  BY <1>3 DEF TagFails, OpenInv
<1>4. CASE T4T
  BY <1>4, OpenEngine
<1>5. CASE T1T \/ T2T \/ T3T \/ T5T \/ Mifare
  BY <1>5, EngineTypes DEF OpenInv
<1>6. CASE GivesUp
  BY <1>6 DEF GivesUp, OpenInv, Busy
<1>7. CASE UNCHANGED vars
  BY <1>7 DEF vars, hostVars, tagVars, OpenInv, Busy, Opens
<1> QED
  BY <1>1, <1>2, <1>3, <1>4, <1>5, <1>6, <1>7 DEF Next, Engine, Tag

(* At every moment of every operation, as long as nothing has passed for an  *)
(* answer that it is not.                                                    *)
LEMMA TagAlways == Spec => [](misled \/ (TagInv /\ OpenInv))
<1>1. Spec => []MifareInv /\ [](misled \/ T4TInv)
  BY SectorsAlways, FileAlways
<1>2. Init => TagInv /\ OpenInv
  BY InitTag DEF Init, OpenInv, Busy
<1>3. ASSUME misled \/ (TagInv /\ OpenInv), MifareInv, misled \/ T4TInv, [Next]_vars
      PROVE  (misled \/ (TagInv /\ OpenInv))'
  <2>1. SUFFICES ASSUME ~misled' PROVE TagInv' /\ OpenInv'
    OBVIOUS
  <2>2. ~misled /\ (TagFails => ~rsp'.ok)
    BY <1>3, <2>1, MisledStays
  <2> QED
    BY <1>3, <2>2, TagStep, OpenStep
<1> QED
  BY <1>1, <1>2, <1>3, PTL DEF Spec

(* What RW_NDEF reports is the message on the tag, byte for byte, for every  *)
(* length that the engine of the tag can read, whatever was read or written  *)
(* before and wherever that was cut off, as long as no packet has passed for *)
(* an answer that it is not.                                                 *)
THEOREM ExactCorrect == Spec => []ReadableIsExact
<1>1. misled \/ (TagInv /\ OpenInv) => ReadableIsExact
  BY DEF TagInv, HeardFits, Exact, ReadableIsExact
<1> QED
  BY <1>1, TagAlways, PTL

(* As long as no packet has passed for an answer that it is not, NdefBuffer  *)
(* is not left, except by a T4T whose size is 0, and no block outside the    *)
(* data area is written if the TLV of the message fits it, for every tag and *)
(* message.                                                                  *)
THEOREM BoundsCorrect == Spec => [](~misled => InBounds)
<1>1. ASSUME TagInv PROVE InBounds
  <2>1. TypeOK /\ BufferHolds
    BY <1>1 DEF TagInv
  <2>2. ASSUME pc = "tag", cmd.what = "write", type \in {"T2T", "T5T"},
               Len(Tlv(message)) <= cap
        PROVE  Offset(cmd.at) + Len(cmd.data) <= cap
    <3>1. /\ Began /\ Len(cmd.data) = 4 /\ cmd.at = ndef.blk - 1
          /\ Offset(cmd.at) = 0 \/ ndef.ptr < Size + 4
      BY <1>1, <2>2 DEF TagInv, Busy, HeardFits, WriteFits, Began
    <3>2. Offset(ndef.blk) = Front + HeaderLen(Size) + ndef.ptr
      BY <1>1, <2>2, <3>1 DEF TagInv, Busy, HeardFits, WriteFits
    <3>3. /\ cap \in Nat /\ cap % 8 = 0 /\ Size \in Nat /\ message \in Seq(Nat)
          /\ ndef.blk \in Nat /\ ndef.ptr \in Nat /\ cmd.at \in Nat
      BY <1>1, <2>2 DEF TagInv, DataCaps, TypeOK, Size, Bytes
    <3>4. Len(Tlv(message)) = Size + (IF Size > 254 THEN 4 ELSE 2)
      <4>1. Size = Len(message)
        BY DEF Size
      <4> QED
        BY <3>3, <4>1 DEF Tlv, NdefTlv
    <3>5. PICK a \in Nat, r \in Nat : a = cmd.at /\ r = ndef.ptr
      BY <3>3
    <3>6. PICK x \in Int : x = Offset(a) /\ x % 4 = 0
      <4>1. Offset(a) \in Int /\ Offset(a) % 4 = 0
        BY <2>2, SMTT(30) DEF Offset
      <4> QED
        BY <4>1
    <3>7. Offset(ndef.blk) = x + 4
      <4>1. ndef.blk = a + 1
        BY <3>1, <3>3, <3>5
      <4>2. Offset(a + 1) = Offset(a) + 4
        BY <2>2 DEF Offset
      <4> QED
        BY <3>6, <4>1, <4>2
    <3>8. x + 4 = HeaderLen(Size) + r
      BY <2>2, <3>2, <3>5, <3>7 DEF Front, HeaderLen
    <3>9. x = 0 \/ r < Size + 4
      BY <3>1, <3>5, <3>6
    <3>10. x < cap
      BY <2>2, <3>3, <3>4, <3>8, <3>9 DEF HeaderLen
    <3>11. x + 4 <= cap
      BY <3>3, <3>6, <3>10
    <3> QED
      BY <3>1, <3>5, <3>6, <3>11
  <2> QED
    BY <2>1, <2>2 DEF InBounds, WritesStayInside
<1>2. misled \/ (TagInv /\ OpenInv) => (~misled => InBounds)
  BY <1>1
<1> QED
  BY <1>2, TagAlways, PTL

-----------------------------------------------------------------------------
(* Undisturbed reads.  What makes the property inductive is what holds while *)
(* such a read goes on: every command is one that the tag answers, so that   *)
(* the engine never gives up, and the rest of the message is where the next  *)
(* block comes from.                                                         *)

(* A read of a tag that has not failed (nor has a packet passed for an       *)
(* answer that it is not before), of a message that the engine can read,     *)
(* in a place where it looks for it, and that does not reach to the    *)
(* end of the data area where one block more is asked for.                   *)
Undisturbed ==
  /\ op = "read" /\ ops > 0 /\ intact /\ ~misled /\ Exact
  /\ type \notin Sized => Begins # 0 /\ Beyond < cap

(* Where the message ends.                                                   *)
End == IF type \in Sized THEN Len(content) ELSE Beyond

(* Version 1.0 of the application is looked for when that of 2.0 is missing. *)
Excused == ndef.state = "Selecting_NDEF_Application20" /\ v1

(* The tag refuses no command, and the engine stops only with a report.      *)
GoesOn ==
  /\ pc = "idle" => Reported
  /\ pc = "tag" => Answer # NoAnswer \/ Excused
  /\ pc = "engine" /\ ndef.state # "Initial" => rsp.ok \/ Excused
  /\ Busy /\ InParts => ndef.size # 0 /\ Place + (ndef.size - ndef.ptr) = End

(* The message of a T3T or T4T lies within the data area, also once it has   *)
(* been written.                                                             *)
Room ==
  /\ type = "T3T" => op = "read" /\ Len(content) < cap
  /\ type = "T4T" =>
       /\ whole => Len(content) <= cap
       /\ pc = "tag" /\ ndef.state = "Writing_NDEFsize" =>
            cmd.what = "write" /\ cmd.at + cmd.n = Size + 2
       /\ pc = "engine" /\ rsp.ok /\ ndef.state = "Writing_NDEFsize" => Size <= cap
       /\ Busy /\ ndef.state = "Write_NDEFcomplete" => Size <= cap

ReadInv == Undisturbed => GoesOn

-----------------------------------------------------------------------------
(* What the tag answers                                                      *)

(* Commands that no tag refuses, a T4T if the files are selected in order.   *)
Granted == {"rid", "rall", "cc", "attribute", "auth", "gpb", "cc_file", "ndef_file"}
InOrder == type = "T4T" => Opens(ndef.state, cmd.what)

(* Numbers are no refusal.                                                   *)
LEMMA NumbersAnswer ==
  ASSUME NEW d \in Seq(Nat)
  PROVE  d # NoAnswer
<1>1. NoAnswer[1] = 0 - 1 /\ Len(NoAnswer) = 1
  BY DEF NoAnswer
<1> QED
  BY <1>1

(* Their answers are good.                                                   *)
LEMMA GrantedAnswer == TypeOK /\ cmd.what \in Granted /\ InOrder => Answer # NoAnswer
<1> SUFFICES ASSUME TypeOK, cmd.what \in Granted, InOrder PROVE Answer # NoAnswer
  OBVIOUS
<1>0. mem \in Bytes /\ nlen \in Nat /\ cap \in Nat /\ <<>> \in Seq(Nat)
  BY RwAssumption DEF TypeOK
<1>1. CASE type = "T4T"
  <2>1. Opens(ndef.state, cmd.what)
    BY <1>1 DEF InOrder
  <2>2. CCFile \in Seq(Nat)
    <3>1. <<0, 15>> \in Seq(Nat) /\ [i \in 1 .. 13 |-> Pad] \in Seq(Nat)
      BY DEF Pad
    <3> QED
      BY <3>1 DEF CCFile
  <2>3. Answer \in {<<>>, CCFile}
    BY <1>1, <2>1 DEF Opens, Answer, T4TAnswer, Granted
  <2> QED
    BY <1>0, <2>2, <2>3, NumbersAnswer
<1>2. CASE type # "T4T"
  <2>1. Cells(mem, 0, 92) \in Seq(Nat)
    <3>1. PICK n \in Nat : n = 92
      OBVIOUS
    <3>2. Cells(mem, 0, n) \in Bytes
      BY <1>0, CellsFront
    <3> QED
      BY <3>1, <3>2 DEF Bytes
  <2>2. Cells(mem, 0, 92) \o [i \in 1 .. 16 |-> Pad] \in Seq(Nat)
    <3>1. [i \in 1 .. 16 |-> Pad] \in Seq(Nat)
      BY DEF Pad
    <3> QED
      BY <2>1, <3>1
  <2>3. <<nlen>> \o [i \in 1 .. 15 |-> Pad] \in Seq(Nat) /\ <<cap>> \in Seq(Nat)
    <3>1. [i \in 1 .. 15 |-> Pad] \in Seq(Nat) /\ <<nlen>> \in Seq(Nat)
      BY <1>0 DEF Pad
    <3> QED
      BY <1>0, <3>1
  <2>4. \/ Answer = Cells(mem, 0, 92) \o [i \in 1 .. 16 |-> Pad]
        \/ Answer = <<nlen>> \o [i \in 1 .. 15 |-> Pad]
        \/ Answer = <<cap>>
        \/ Answer = <<>>
    BY <1>2 DEF Answer, Granted
  <2> QED
    BY <1>0, <2>2, <2>3, <2>4, NumbersAnswer
<1> QED
  BY <1>1, <1>2

(* A block of the data area is read, in the sector that is authenticated.    *)
BlockInside ==
  /\ type # "T4T" /\ cmd.what = "read" /\ Offset(cmd.at) < cap
  /\ type = "MIFARE" => cmd.at \div 4 = auth

(* Such a block is answered.                                                 *)
LEMMA BlockAnswer == TypeOK /\ BlockInside => Answer # NoAnswer
<1> SUFFICES ASSUME TypeOK, BlockInside PROVE Answer # NoAnswer
  OBVIOUS
<1>1. /\ type # "T4T" /\ cmd.what = "read" /\ Offset(cmd.at) < cap
      /\ type = "MIFARE" => cmd.at \div 4 = auth
  BY DEF BlockInside
<1>2. mem \in Bytes /\ cmd.at \in Nat /\ cap \in Nat
  BY RwAssumption DEF TypeOK
<1>3. Offset(cmd.at) \in Int /\ Width \in Nat
  BY <1>1, <1>2, OffsetType DEF Width
<1>4. ~Refused
  BY <1>1, <1>2, <1>3 DEF Refused
<1>5. Answer = Cells(mem, Offset(cmd.at), Width)
  BY <1>1, <1>4 DEF Answer
<1>6. Cells(mem, Offset(cmd.at), Width) \in Bytes
  BY <1>2, <1>3, CellsFacts
<1> QED
  BY <1>5, <1>6, NumbersAnswer DEF Bytes

(* A part of the file of a T4T is read.                                      *)
FileInside == type = "T4T" /\ auth = 2 /\ cmd.what = "read" /\ cmd.at < cap + 2

(* Such a part is answered.                                                  *)
LEMMA FileAnswer == TypeOK /\ FileInside => Answer # NoAnswer
<1> SUFFICES ASSUME TypeOK, FileInside PROVE Answer # NoAnswer
  OBVIOUS
<1> DEFINE h == <<nlen \div 256, nlen % 256>>
           c == Cells(mem, 0, cap)
           file == h \o c
           last == cmd.at + (IF cmd.n = 0 THEN 256 ELSE cmd.n)
           end == IF last > Len(file) THEN Len(file) ELSE last
<1>1. /\ mem \in Bytes /\ nlen \in Nat /\ cap \in Nat /\ cmd.at \in Nat /\ cmd.n \in 0 .. 255
      /\ type = "T4T" /\ auth = 2 /\ cmd.what = "read" /\ cmd.at < cap + 2
  BY RwAssumption DEF TypeOK, FileInside
<1>2. h \in Seq(Nat) /\ Len(h) = 2
  <2>1. nlen \div 256 \in Nat /\ nlen % 256 \in Nat
    BY <1>1
  <2> QED
    BY <2>1
<1>3. c \in Seq(Nat) /\ Len(c) = cap
  BY <1>1, CellsFront DEF Bytes
<1>4. Answer = IF cmd.at >= Len(file) THEN NoAnswer ELSE SubSeq(file, cmd.at + 1, end)
  <2>1. Answer = T4TRead
    BY <1>1 DEF Answer, T4TAnswer
  <2>2. T4TRead = IF cmd.at >= Len(NdefFile) THEN NoAnswer
                  ELSE SubSeq(NdefFile, cmd.at + 1,
                              IF last > Len(NdefFile) THEN Len(NdefFile) ELSE last)
    BY <1>1 DEF T4TRead
  <2>3. NdefFile = file
    BY DEF NdefFile
  <2> QED
    BY <2>1, <2>2, <2>3
<1> HIDE DEF h, c
<1>5. file \in Seq(Nat) /\ Len(file) = cap + 2
  <2>1. h \o c \in Seq(Nat) /\ Len(h \o c) = Len(h) + Len(c)
    BY <1>2, <1>3, JoinFacts
  <2> QED
    BY <1>1, <1>2, <1>3, <2>1
<1>6. last \in Nat
  BY <1>1
<1> HIDE DEF file, last
<1>7. Answer = SubSeq(file, cmd.at + 1, end) /\ end \in Nat /\ end <= Len(file)
      /\ cmd.at + 1 \in Nat /\ cmd.at + 1 >= 1
  <2>1. Len(file) \in Nat /\ ~(cmd.at >= Len(file))
    BY <1>1, <1>5
  <2>2. Answer = SubSeq(file, cmd.at + 1, end)
    <3> HIDE DEF end
    <3> QED
      BY <1>4, <2>1
  <2>3. end \in Nat /\ end <= Len(file)
    BY <1>6, <2>1
  <2> QED
    BY <1>1, <2>2, <2>3
<1> HIDE DEF end
<1>8. \A a, b \in Nat : a >= 1 /\ b <= Len(file) => SubSeq(file, a, b) \in Seq(Nat)
  BY <1>5
<1>9. SubSeq(file, cmd.at + 1, end) \in Seq(Nat)
  BY <1>7, <1>8
<1> QED
  BY <1>7, <1>9, NumbersAnswer

-----------------------------------------------------------------------------
(* A step of an engine leaves the tag, and what is said of it, as they are.  *)
LEMMA SameTag ==
  ASSUME EngineStep, UNCHANGED <<content, whole>>
  PROVE  (Undisturbed' <=> Undisturbed) /\ End' = End /\ (Reported' <=> heard'.kind =
            IF Len(content) \in 1 .. MaxFile THEN "message" ELSE "refused")
<1>1. /\ type' = type /\ mem' = mem /\ cap' = cap /\ op' = op /\ ops' = ops /\ intact' = intact
      /\ content' = content /\ whole' = whole /\ misled' = misled
  BY DEF EngineStep, tagVars
<1>2. Width' = Width
  BY <1>1 DEF Width
<1>3. Begins' = Begins
  BY <1>1, <1>2 DEF Begins
<1>4. Beyond' = Beyond
  BY <1>1, <1>3 DEF Beyond
<1>5. Exact' <=> Exact
  BY <1>1 DEF Exact
<1> QED
  BY <1>1, <1>3, <1>4, <1>5 DEF Undisturbed, End, Reported

(* Where the rest of the message lies.                                       *)
Rest == InParts => ndef.size # 0 /\ Place + (ndef.size - ndef.ptr) = End

(* A command that no tag refuses.                                            *)
LEMMA GrantedGoes ==
  ASSUME TypeOK', HeardFits', OpenInv', Send(cmd'), cmd'.what \in Granted, Rest'
  PROVE  GoesOn'
<1>1. (TypeOK /\ cmd.what \in Granted /\ InOrder => Answer # NoAnswer)'
  BY GrantedAnswer, PTL
<1>2. pc' = "tag"
  BY DEF Send
<1>3. InOrder'
  BY <1>2 DEF HeardFits, OpenInv, Busy, InOrder
<1>4. Answer' # NoAnswer'
  BY <1>1, <1>3 DEF Granted
<1> QED
  BY <1>2, <1>4 DEF GoesOn, NoAnswer, Rest

(* A block is asked for.                                                     *)
LEMMA BlockGoes ==
  ASSUME TypeOK', MifareInv', EngineStep, Undisturbed, type # "T4T", Send(cmd'),
         NEW b \in Nat, cmd' = Read(b), Offset(b) < cap, Rest'
  PROVE  GoesOn'
<1>1. pc' = "tag" /\ type' = type /\ cap' = cap /\ auth' = auth
  BY DEF Send, EngineStep, tagVars
<1>2. cmd'.what = "read" /\ cmd'.at = b
  BY DEF Read, Cmd
<1>3. Offset(b)' = Offset(b)
  BY <1>1 DEF Offset
<1>4. type = "MIFARE" => b \div 4 = auth'
  <2> SUFFICES ASSUME type = "MIFARE" PROVE b \div 4 = auth'
    OBVIOUS
  <2>1. CmdOK'
    BY <1>1 DEF MifareInv
  <2>2. b = ndef'.blk /\ ndef'.state \in {"Reading_FirstBlk", "Reading_Data", "Writing_Data2"}
        /\ auth' = Sector'
    BY <1>2, <2>1 DEF CmdOK, Undisturbed, EngineStep
  <2> QED
    BY <2>2 DEF Sector
<1>5. BlockInside'
  <2>1. Offset(cmd.at)' = Offset(b)'
    BY <1>2 DEF Offset
  <2> QED
    BY <1>1, <1>2, <1>3, <1>4, <2>1 DEF BlockInside
<1>6. (TypeOK /\ BlockInside => Answer # NoAnswer)'
  BY BlockAnswer, PTL
<1> QED
  BY <1>1, <1>5, <1>6 DEF GoesOn, Rest

(* A step that reports the message, or refuses it.                           *)
LEMMA ReportGoes ==
  ASSUME EngineStep, UNCHANGED <<content, whole>>, pc' = "idle",
         heard'.kind = IF Len(content) \in 1 .. MaxFile THEN "message" ELSE "refused"
  PROVE  GoesOn'
  BY SameTag DEF GoesOn, Busy

(* The lengths that the engines can read.                                    *)
LEMMA ReadableFacts ==
  ASSUME NEW n \in Nat
  PROVE  /\ Readable("T1T", n) => n # 0 /\ ~(n > 254)
         /\ Readable("T4T", n) => n # 0 /\ ~(n > 254)
         /\ Readable("T5T", n) => ~(n > 254)
         /\ Readable("T2T", n) \/ Readable("MIFARE", n) => n # 255
<1>1. Readable("T1T", n) => n # 0 /\ ~(n > 254)
  BY DEF Readable
<1>2. Readable("T4T", n) => n # 0 /\ ~(n > 254)
  BY DEF Readable
<1>3. Readable("T5T", n) => ~(n > 254)
  BY DEF Readable
<1>4. Readable("T2T", n) \/ Readable("MIFARE", n) => n # 255
  BY DEF Readable
<1> QED
  BY <1>1, <1>2, <1>3, <1>4

(* The length that the header of a readable message has.                     *)
LEMMA HeadRead ==
  ASSUME Exact, type \in {"T1T", "T2T", "T5T", "MIFARE"}, content \in Bytes,
         NEW k \in Nat, Holds(mem, k, content)
  PROVE  HeadOf(Len(content)) = IF LongLengths /\ Cell(mem, k + 2) = 255 THEN 4 ELSE 2
<1>1. Len(content) \in Nat /\ Readable(type, Len(content))
  BY DEF Bytes, Exact
<1>2. CASE type \in {"T1T", "T5T"}
  <2>1. ~(Len(content) > 254)
    BY <1>1, <1>2, ReadableFacts
  <2> QED
    BY <1>2, <2>1, Zenon DEF HeadOf, LongLengths
<1>3. CASE type \in {"T2T", "MIFARE"} /\ Len(content) > 254
  BY <1>3 DEF Holds, Long, HeadOf, LongLengths
<1>4. CASE type \in {"T2T", "MIFARE"} /\ ~(Len(content) > 254)
  <2>1. Cell(mem, k + 2) = Len(content)
    BY <1>4 DEF Holds, Long
  <2>2. Len(content) # 255
    BY <1>1, <1>4, ReadableFacts
  <2> QED
    BY <1>4, <2>1, <2>2 DEF HeadOf
<1> QED
  BY <1>2, <1>3, <1>4

(* The first part of the message.                                            *)
LEMMA FirstGoes ==
  ASSUME TagInv, TypeOK', MifareInv', EngineStep, Undisturbed,
         NEW k \in Nat, Holds(mem, k, content), Begins = k + 1,
         NEW w \in Nat, k + 2 <= w, LongLengths => k + 4 <= w,
         NEW d \in Bytes, Len(d) = w, \A i \in 1 .. w : d[i] = Cell(mem, i),
         NEW next \in Nat, Offset(next) = w,
         NEW state, \/ type \in {"T1T", "T2T", "T5T"} /\ state = "Reading_NDEF"
                    \/ type = "MIFARE" /\ state = "Reading_Data",
         NEW p \in Nat, p = k + 1, FirstPart(d, p, LongLengths, next, state)
  PROVE  GoesOn'
<1> DEFINE three == LongLengths /\ d[p + 1] = 255
           n == IF three THEN 256 * d[p + 2] + d[p + 3] ELSE d[p + 1]
           rest == SubSeq(d, IF three THEN p + 4 ELSE p + 2, Len(d))
<1>0. /\ type' = type /\ type \in {"T1T", "T2T", "T5T", "MIFARE"} /\ type # "T4T" /\ type # "T3T"
      /\ state \notin {"Initial", "Authenticated"} /\ type \notin Sized /\ Exact
      /\ content \in Bytes /\ Len(content) \in Nat /\ MaxFile \in Nat
      /\ Readable(type, Len(content))
  <2>1. type' = type /\ Exact /\ content \in Bytes /\ MaxFile \in Nat
    BY RwAssumption DEF EngineStep, tagVars, Undisturbed, TagInv, TypeOK
  <2>2. Len(content) \in Nat /\ Readable(type, Len(content))
    BY <2>1 DEF Bytes, Exact
  <2> QED
    BY <2>1, <2>2 DEF Sized
<1>1. /\ p + 1 = k + 2 /\ p + 2 = k + 3 /\ p + 3 = k + 4 /\ p + 1 \in 1 .. w
      /\ LongLengths => p + 2 \in 1 .. w /\ p + 3 \in 1 .. w
  OBVIOUS
<1>2. /\ d[p + 1] = Cell(mem, k + 2)
      /\ LongLengths => d[p + 2] = Cell(mem, k + 3) /\ d[p + 3] = Cell(mem, k + 4)
  BY <1>1
<1>3. n = Len(content)
  <2>1. LET t == LongLengths /\ Cell(mem, k + 2) = 255
        IN /\ Len(content) = IF t THEN 256 * Cell(mem, k + 3) + Cell(mem, k + 4)
                                  ELSE Cell(mem, k + 2)
           /\ \A i \in 1 .. Len(content) : Cell(mem, k + (IF t THEN 4 ELSE 2) + i) = content[i]
    BY <1>0, LengthRead
  <2> QED
    BY <1>2, <2>1
<1>4. PICK h \in {2, 4} : /\ h = HeadOf(n) /\ h = IF three THEN 4 ELSE 2
                          /\ k + h <= w /\ (IF three THEN p + 4 ELSE p + 2) = k + h + 1
  <2>1. HeadOf(Len(content)) = IF LongLengths /\ Cell(mem, k + 2) = 255 THEN 4 ELSE 2
    BY <1>0, HeadRead
  <2>2. HeadOf(n) = IF three THEN 4 ELSE 2
    BY <1>2, <1>3, <2>1
  <2> HIDE DEF n
  <2> QED
    BY <2>2
<1>5. Len(rest) = w - (k + h) /\ w - (k + h) \in Nat
  <2> DEFINE m == w - (k + h)
             a == k + h + 1
  <2>1. a \in Nat \ {0} /\ m \in Nat /\ a - 1 + m = w
    BY <1>4
  <2>2. rest = SubSeq(d, a, w)
    BY <1>4
  <2> HIDE DEF a, m, rest
  <2>3. rest = SubSeq(d, a, a - 1 + m) /\ a - 1 + m <= Len(d)
    BY <2>1, <2>2
  <2>4. /\ SubSeq(d, a, a - 1 + m) \in Bytes /\ Len(SubSeq(d, a, a - 1 + m)) = m
        /\ \A i \in 1 .. m : SubSeq(d, a, a - 1 + m)[i] = d[a - 1 + i]
    BY <2>1, <2>3, PrefixFacts
  <2>5. Len(rest) = m /\ m \in Nat
    BY <2>1, <2>3, <2>4
  <2> QED
    BY <2>5 DEF m
<1>6. \/ (n > MaxFile \/ (n = 0 /\ type # "T1T")) /\ Refuse
      \/ ~(n > MaxFile \/ (n = 0 /\ type # "T1T")) /\ n <= Len(rest) /\ Deliver(buffer')
      \/ /\ ~(n <= Len(rest)) /\ Send(Read(next))
         /\ ndef' = [state |-> state, blk |-> next, ptr |-> Len(rest), size |-> n]
  BY ZenonT(30) DEF FirstPart
<1> HIDE DEF n, rest, three
<1>7. CASE (n > MaxFile \/ (n = 0 /\ type # "T1T")) /\ Refuse
  <2>1. pc' = "idle" /\ heard'.kind = "refused" /\ UNCHANGED <<content, whole>>
    BY <1>7 DEF Refuse, Ends
  <2>2. Len(content) \notin 1 .. MaxFile
    BY <1>0, <1>3, <1>7
  <2> QED
    BY <2>1, <2>2, ReportGoes
<1>8. CASE ~(n > MaxFile \/ (n = 0 /\ type # "T1T")) /\ n <= Len(rest) /\ Deliver(buffer')
  <2>1. pc' = "idle" /\ heard'.kind = "message" /\ UNCHANGED <<content, whole>>
    BY <1>8 DEF Deliver, Ends
  <2>2. type = "T1T" => Len(content) # 0
    BY <1>0, ReadableFacts
  <2>3. Len(content) \in 1 .. MaxFile
    BY <1>0, <1>3, <1>8, <2>2
  <2> QED
    BY <2>1, <2>3, ReportGoes
<1>9. CASE /\ ~(n <= Len(rest)) /\ Send(Read(next))
           /\ ndef' = [state |-> state, blk |-> next, ptr |-> Len(rest), size |-> n]
  <2>1. PICK q \in Nat : q = Len(rest) /\ q = w - (k + h) /\ q < n /\ n \in Nat
    BY <1>0, <1>3, <1>5, <1>9
  <2>2. cmd' = Read(next) /\ Send(cmd') /\ UNCHANGED <<content, whole>>
    BY <1>9 DEF Send
  <2>3. ndef'.state = state /\ ndef'.blk = next /\ ndef'.ptr = q /\ ndef'.size = n
    BY <1>9, <2>1
  <2>4. Beyond = k + h + n /\ Beyond < cap /\ cap \in Nat
    <3>1. Len(Tlv(content)) = h + n
      BY <1>0, <1>3, <1>4, TlvFacts
    <3>2. Beyond < cap /\ cap \in Nat
      BY <1>0, RwAssumption DEF Undisturbed, TagInv, TypeOK
    <3> QED
      BY <1>3, <1>4, <2>1, <3>1, <3>2 DEF Beyond
  <2>5. End' = Beyond
    BY <1>0, <2>2, SameTag DEF End
  <2>6. Place' = w
    <3>1. Offset(next)' = Offset(next)
      BY <1>0 DEF Offset
    <3> QED
      BY <1>0, <2>3, <3>1 DEF Place
  <2>7. n # 0 /\ w + (n - q) = Beyond /\ w < cap
    BY <1>4, <2>1, <2>4
  <2>8. Rest' /\ Offset(next) < cap
    BY <2>3, <2>5, <2>6, <2>7 DEF Rest
  <2> QED
    BY <1>0, <2>2, <2>8, BlockGoes
<1> QED
  BY <1>6, <1>7, <1>8, <1>9

-----------------------------------------------------------------------------
(* The further parts                                                         *)

(* The message of a tag with blocks ends before the data area does.          *)
LEMMA EndInside == Undisturbed /\ Room /\ type # "T4T" => End < cap
  BY DEF Undisturbed, Room, End, Sized

(* What is known while parts are read.                                       *)
LEMMA RestOf ==
  ASSUME TagInv, pc = "engine", InParts, Undisturbed, GoesOn
  PROVE  /\ ndef.size = Len(content) /\ Len(content) \in 1 .. MaxFile
         /\ Place + (ndef.size - ndef.ptr) = End
         /\ type # "T4T" => ndef.ptr <= ndef.size
<1>1. ndef.state # "Initial"
  BY DEF InParts
<1>2. ndef.size # 0 /\ Place + (ndef.size - ndef.ptr) = End
  BY <1>1 DEF GoesOn, Busy
<1>3. PartsFit /\ ndef.size \in Nat /\ MaxFile \in Nat
  BY PartsOf
<1>4. ndef.size <= MaxFile /\ (type # "T4T" => ndef.ptr <= ndef.size) /\ Progress
  BY <1>3 DEF PartsFit, Undisturbed
<1> QED
  BY <1>2, <1>3, <1>4 DEF Progress

(* The last part.                                                            *)
LEMMA LastGoes ==
  ASSUME TagInv, EngineStep, InParts, Undisturbed, GoesOn, LastPart(rsp.data)
  PROVE  GoesOn'
<1>1. pc' = "idle" /\ heard'.kind = "message" /\ UNCHANGED <<content, whole>>
  BY DEF LastPart, Deliver, Ends
<1>2. Len(content) \in 1 .. MaxFile
  BY RestOf DEF EngineStep
<1> QED
  BY <1>1, <1>2, ReportGoes

(* The place and the pointer move on by a block.                             *)
LEMMA MoveGoes ==
  ASSUME TagInv, TagInv', OpenInv', EngineStep, InParts, Undisturbed, GoesOn, Room, type # "T4T",
         ndef.state # "Authenticated", rsp.ok, UNCHANGED <<content, whole>>,
         Busy', InParts', ndef'.ptr = ndef.ptr + Len(rsp.data), ndef'.size = ndef.size,
         Place' = Place + Width
  PROVE  Rest' /\ Place' < cap
<1>0. pc = "engine" /\ type' = type
  BY DEF EngineStep, tagVars
<1>1. /\ ndef.size = Len(content) /\ Len(content) \in 1 .. MaxFile
      /\ Place + (ndef.size - ndef.ptr) = End
  BY <1>0, RestOf
<1>2. ndef.ptr \in Nat /\ ndef.size \in Nat /\ Width \in Nat /\ MaxFile \in Nat
  BY <1>0, PartsOf
<1>3. Len(rsp.data) = Width /\ Place \in Int
  BY <1>0, PartRead
<1>4. ndef'.ptr <= ndef'.size
  BY <1>0 DEF TagInv, PartsFit
<1>5. End' = End /\ End < cap /\ cap \in Nat
  BY SameTag, EndInside DEF TagInv, DataCaps
<1>6. ndef'.size # 0 /\ Place' + (ndef'.size - ndef'.ptr) = End /\ Place' <= End
  BY <1>1, <1>2, <1>3, <1>4
<1> QED
  BY <1>2, <1>3, <1>5, <1>6 DEF Rest

(* A further part, followed by the next block.                               *)
LEMMA NextGoes ==
  ASSUME TagInv, TagInv', OpenInv', MifareInv', EngineStep, InParts, Undisturbed, GoesOn, Room,
         type # "T4T", ndef.state # "Authenticated", rsp.ok,
         NEW step \in Nat, NextPart(rsp.data, step),
         Offset(ndef.blk + step) = Offset(ndef.blk) + Width
  PROVE  GoesOn'
<1>0. pc = "engine" /\ op' = op /\ type' = type
  BY DEF EngineStep, tagVars
<1>1. /\ ndef \in Ndefs /\ ndef.blk \in Nat /\ ndef.ptr \in Nat /\ ndef.size \in Nat
  BY <1>0, PartsOf
<1>2. ndef = [state |-> ndef.state, blk |-> ndef.blk, ptr |-> ndef.ptr, size |-> ndef.size]
  BY <1>1, NdefFacts
<1>3. /\ Send(Read(ndef'.blk))
      /\ ndef' = [ndef EXCEPT !.ptr = ndef.ptr + Len(rsp.data), !.blk = ndef.blk + step]
  BY <1>2 DEF NextPart
<1>4. ndef' = [state |-> ndef.state, blk |-> ndef.blk + step,
               ptr |-> ndef.ptr + Len(rsp.data), size |-> ndef.size]
  BY <1>2, <1>3
<1>b. PICK b \in Nat : b = ndef.blk + step
  BY <1>1
<1>5. /\ ndef'.state = ndef.state /\ ndef'.blk = b
      /\ ndef'.ptr = ndef.ptr + Len(rsp.data) /\ ndef'.size = ndef.size
  BY <1>4, <1>b
<1>6. cmd' = Read(b) /\ Send(cmd') /\ pc' = "tag" /\ UNCHANGED <<content, whole>>
  BY <1>3, <1>5 DEF Send
<1>7. InParts' /\ Busy'
  BY <1>0, <1>5, <1>6 DEF InParts, Busy
<1>8. Place' = Place + Width /\ Place' = Offset(b)
  <2>1. Place = Offset(ndef.blk)
    BY DEF Place
  <2>3. Offset(b)' = Offset(b)
    BY <1>0 DEF Offset
  <2>4. Place' = Offset(b)
    BY <1>0, <1>5, <2>3 DEF Place
  <2>5. Offset(b) = Offset(ndef.blk) + Width
    BY <1>b
  <2> QED
    BY <2>1, <2>4, <2>5
<1>9. Rest' /\ Place' < cap
  BY <1>5, <1>6, <1>7, <1>8, MoveGoes
<1>10. Offset(b) < cap
  BY <1>8, <1>9
<1>11. TypeOK'
  BY DEF TagInv
<1> QED
  BY <1>6, <1>9, <1>10, <1>11, BlockGoes

(* Before the authentication of the next sector.                             *)
LEMMA TrailerGoes ==
  ASSUME TagInv, TagInv', OpenInv', EngineStep, type = "MIFARE", op = "read", ndef.state = "Reading_Data",
         rsp.ok, Undisturbed, GoesOn, Room,
         ndef.blk >= 4, ndef.blk % 4 # 3, Trailer(ndef.blk + 1),
         ndef' = [state |-> "Authenticated", blk |-> ndef.blk + 1,
                  ptr |-> ndef.ptr + Len(rsp.data), size |-> ndef.size],
         Send(Auth((ndef.blk + 2) \div 4))
  PROVE  GoesOn'
<1>0. /\ pc = "engine" /\ InParts /\ type' = "MIFARE" /\ op' = "read" /\ Width = 16
      /\ ndef.state # "Authenticated" /\ type # "T4T"
  BY DEF EngineStep, tagVars, InParts, Width
<1>1. /\ ndef \in Ndefs /\ ndef.blk \in Nat /\ ndef.ptr \in Nat /\ ndef.size \in Nat
  BY <1>0, PartsOf
<1>b. PICK b \in Nat : b = ndef.blk + 1
  BY <1>1
<1>c. PICK c \in Nat : c = ndef.blk + 2 /\ c = b + 1
  BY <1>1, <1>b
<1>2. /\ ndef'.state = "Authenticated" /\ ndef'.blk = b /\ b # 4
      /\ ndef'.ptr = ndef.ptr + Len(rsp.data) /\ ndef'.size = ndef.size
  BY <1>1, <1>b
<1>3. /\ cmd' = Auth(c \div 4) /\ Send(cmd') /\ pc' = "tag" /\ UNCHANGED <<content, whole>>
  BY <1>c DEF Send
<1>4. cmd'.what \in Granted
  BY <1>3 DEF Auth, Cmd, Granted
<1>5. InParts' /\ Busy'
  BY <1>0, <1>2, <1>3 DEF InParts, Busy
<1>6. Place' = Place + Width
  <2>1. Place' = Offset(c)
    <3>1. Offset(c)' = Offset(c)
      BY <1>0 DEF Offset
    <3> QED
      BY <1>0, <1>2, <1>c, <3>1 DEF Place
  <2>2. Place = Offset(ndef.blk) /\ Offset(c) = Offset(ndef.blk) + 16
    BY <1>1, <1>c, DataBlocks DEF Place
  <2> QED
    BY <1>0, <2>1, <2>2
<1>7. Rest'
  BY <1>0, <1>2, <1>3, <1>5, <1>6, MoveGoes
<1> QED
  BY <1>3, <1>4, <1>7, GrantedGoes DEF TagInv

(* After it, the first block of the sector.                                  *)
LEMMA SectorGoes ==
  ASSUME TagInv, TagInv', OpenInv', MifareInv', EngineStep, type = "MIFARE", op = "read",
         ndef.state = "Authenticated", ndef.blk # 4, Undisturbed, GoesOn, Room,
         ndef' = [state |-> "Reading_Data", blk |-> ndef.blk + 1, ptr |-> ndef.ptr,
                  size |-> ndef.size],
         Send(Read(ndef'.blk))
  PROVE  GoesOn'
<1>0. pc = "engine" /\ InParts /\ type' = "MIFARE" /\ op' = "read" /\ type # "T4T"
  BY DEF EngineStep, tagVars, InParts
<1>1. /\ ndef.blk \in Nat /\ ndef.ptr \in Nat /\ ndef.size \in Nat
  BY <1>0, PartsOf
<1>b. PICK b \in Nat : b = ndef.blk + 1
  BY <1>1
<1>2. /\ ndef'.state = "Reading_Data" /\ ndef'.blk = b
      /\ ndef'.ptr = ndef.ptr /\ ndef'.size = ndef.size
  BY <1>b
<1>3. cmd' = Read(b) /\ Send(cmd') /\ UNCHANGED <<content, whole>>
  BY <1>2 DEF Send
<1>4. Place' = Place /\ Place = Offset(b)
  <2>1. Offset(b)' = Offset(b)
    BY <1>0 DEF Offset
  <2>2. Place = Offset(b)
    BY <1>0, <1>b DEF Place
  <2> QED
    BY <1>0, <1>2, <2>1, <2>2 DEF Place
<1>5. /\ ndef.size = Len(content) /\ Len(content) \in 1 .. MaxFile
      /\ Place + (ndef.size - ndef.ptr) = End /\ ndef.ptr <= ndef.size
  BY <1>0, RestOf
<1>6. End' = End /\ End < cap /\ cap \in Nat
  BY <1>0, <1>3, SameTag, EndInside DEF TagInv, DataCaps
<1>7. Offset(b) \in Int
  BY <1>0, OffsetType DEF TagInv
<1>8. Place < cap /\ ndef.size # 0
  BY <1>1, <1>4, <1>5, <1>6, <1>7
<1>9. Rest' /\ Offset(b) < cap
  BY <1>2, <1>4, <1>5, <1>6, <1>8 DEF Rest
<1>10. TypeOK'
  BY DEF TagInv
<1> QED
  BY <1>0, <1>3, <1>9, <1>10, BlockGoes

-----------------------------------------------------------------------------
(* The engines                                                               *)

(* Where the message begins.                                                 *)
LEMMA BeginsAt ==
  ASSUME TagInv, Undisturbed, type \notin Sized
  PROVE  \E k \in Nat : /\ Headed(mem, k) /\ Holds(mem, k, content)
                        /\ Begins = k + 1 /\ k + 1 <= Width
<1>1. PICK k \in Nat : Headed(mem, k) /\ (Exact => Holds(mem, k, content))
  BY Header
<1>2. mem \in Bytes /\ Exact /\ Begins # 0
  BY DEF TagInv, TypeOK, Undisturbed
<1>3. PICK u \in Nat : u = Width /\ u >= 2
  BY DEF Width
<1>4. PICK d \in Bytes : d = Cells(mem, 0, u) /\ Len(d) = u /\ \A i \in 1 .. u : d[i] = Cell(mem, i)
  BY <1>2, CellsFront
<1>5. /\ k + 1 <= u => FindNdefTlv(d) = k + 1
      /\ k + 1 > Len(d) => FindNdefTlv(d) = 0
  BY <1>1, <1>2, <1>3, <1>4, Found
<1>6. Begins = FindNdefTlv(d)
  BY <1>3, <1>4 DEF Begins
<1>7. k + 1 <= u \/ k + 1 > Len(d)
  BY <1>4
<1> QED
  BY <1>1, <1>2, <1>3, <1>4, <1>5, <1>6, <1>7

(* The data area is not empty.                                               *)
LEMMA CapFacts ==
  ASSUME TagInv, Undisturbed, type \notin Sized
  PROVE  cap \in Nat /\ 0 < cap
<1>1. PICK k \in Nat : Begins = k + 1
  BY BeginsAt
<1>2. content \in Bytes /\ cap \in Nat /\ Beyond < cap
  BY DEF TagInv, TypeOK, DataCaps, Undisturbed
<1>3. Len(Tlv(content)) \in Nat
  <2>1. Tlv(content) \in Bytes
    BY <1>2, TlvFacts
  <2> QED
    BY <2>1 DEF Bytes
<1> QED
  BY <1>1, <1>2, <1>3 DEF Beyond

(* A command on the way to the message.                                      *)
LEMMA AskGoes ==
  ASSUME TagInv, TagInv', OpenInv', EngineStep, NEW s \in States, Goto(s),
         NEW w \in Granted, NEW a, NEW n, Send(Cmd(w, a, n, <<>>)),
         \/ s \notin {"Reading_NDEF", "Reading_CardContent", "Reading_Data", "Authenticated"}
         \/ type = "T1T" /\ s = "Reading_CardContent"
  PROVE  GoesOn'
<1>1. ndef'.state = s
  BY StateStep DEF Goto
<1>2. cmd' = Cmd(w, a, n, <<>>) /\ Send(cmd') /\ type' = type
  BY DEF Send, EngineStep, tagVars
<1>3. cmd'.what \in Granted
  BY <1>2 DEF Cmd
<1>4. ~InParts'
  BY <1>1, <1>2 DEF InParts
<1> QED
  BY <1>2, <1>3, <1>4, GrantedGoes DEF TagInv, Rest

(* The first block of the data area is asked for.                            *)
LEMMA FirstAskGoes ==
  ASSUME TagInv, TagInv', OpenInv', MifareInv', EngineStep, Undisturbed, type \notin Sized,
         NEW b \in Nat, Offset(b) = 0, Send(Read(b)), ~InParts'
  PROVE  GoesOn'
<1>1. cmd' = Read(b) /\ Send(cmd') /\ type # "T4T"
  BY DEF Send, Sized
<1>2. Offset(b) < cap
  BY CapFacts
<1>3. TypeOK' /\ Rest'
  BY DEF TagInv, Rest
<1> QED
  BY <1>1, <1>2, <1>3, BlockGoes

(* The first block, in which the message begins.                             *)
LEMMA FirstBlockGoes ==
  ASSUME TagInv, TagInv', OpenInv', MifareInv', EngineStep, Undisturbed, ndef.state # "Initial", rsp.ok,
         NEW b \in Nat, cmd = Read(b), Offset(b) = 0,
         NEW next \in Nat, Offset(next) = Width,
         NEW state, \/ type \in {"T2T", "T5T"} /\ state = "Reading_NDEF"
                    \/ type = "MIFARE" /\ state = "Reading_Data",
         IF FindNdefTlv(rsp.data) = 0 THEN Quits
         ELSE FirstPart(rsp.data, FindNdefTlv(rsp.data), LongLengths, next, state)
  PROVE  GoesOn'
<1>0. pc = "engine" /\ type \in {"T2T", "T5T", "MIFARE"} /\ type # "T4T" /\ type \notin Sized
  BY DEF EngineStep, Sized
<1>1. PICK w \in Nat : w = Width
  BY <1>0 DEF Width
<1>2. /\ rsp.data \in Bytes /\ Len(rsp.data) = w /\ mem \in Bytes
      /\ \A i \in 1 .. w : rsp.data[i] = Cell(mem, i)
  <2>1. /\ rsp.data \in Bytes /\ Len(rsp.data) = Width
        /\ \A i \in 1 .. Width : rsp.data[i] = Cell(mem, Offset(b) + i)
    BY <1>0, BlockRead
  <2>2. mem \in Bytes /\ \A i \in 1 .. Width : Offset(b) + i = i
    BY DEF TagInv, TypeOK, Width
  <2> QED
    BY <1>1, <2>1, <2>2
<1>3. PICK k \in Nat : /\ Headed(mem, k) /\ Holds(mem, k, content)
                       /\ Begins = k + 1 /\ k + 1 <= Width
  BY <1>0, BeginsAt
<1>4. /\ Width = IF type = "T5T" THEN 4 ELSE 16
      /\ k \in {0} \cup 2 .. 12 \cup 16 .. 88 /\ (type = "T5T" => k = 0)
      /\ (LongLengths => type # "T5T")
  BY <1>0, <1>3 DEF Width, Headed, LongLengths
<1>5. k + 2 <= w /\ (LongLengths => k + 4 <= w) /\ w >= 2 /\ w <= Len(rsp.data)
  <2>1. w = (IF type = "T5T" THEN 4 ELSE 16) /\ k + 1 <= w
    BY <1>1, <1>3, <1>4
  <2>2. CASE type = "T5T"
    BY <1>2, <1>4, <2>1, <2>2
  <2>3. CASE type # "T5T"
    <3>1. w = 16 /\ k <= 12
      BY <1>4, <2>1, <2>3
    <3> QED
      BY <1>2, <3>1
  <2> QED
    BY <2>2, <2>3
<1>6. PICK p \in Nat : p = k + 1 /\ p # 0
  OBVIOUS
<1>7. FindNdefTlv(rsp.data) = p
  BY <1>1, <1>2, <1>3, <1>5, <1>6, Found
<1>8. FirstPart(rsp.data, p, LongLengths, next, state)
  BY <1>6, <1>7
<1>9. Offset(next) = w /\ TypeOK'
  BY <1>1 DEF TagInv
<1>10. \/ type \in {"T1T", "T2T", "T5T"} /\ state = "Reading_NDEF"
       \/ type = "MIFARE" /\ state = "Reading_Data"
  OBVIOUS
<1> QED
  BY <1>2, <1>3, <1>5, <1>6, <1>8, <1>9, <1>10, FirstGoes

(* A further block, or the last one.                                         *)
LEMMA PartGoes ==
  ASSUME TagInv, TagInv', OpenInv', MifareInv', EngineStep, InParts, Undisturbed, GoesOn, Room,
         type # "T4T", ndef.state # "Authenticated", rsp.ok,
         NEW step \in Nat, Offset(ndef.blk + step) = Offset(ndef.blk) + Width,
         LastPart(rsp.data) \/ NextPart(rsp.data, step)
  PROVE  GoesOn'
<1>1. CASE LastPart(rsp.data)
  BY <1>1, LastGoes
<1>2. CASE NextPart(rsp.data, step)
  BY <1>2, NextGoes
<1> QED
  BY <1>1, <1>2

(* T1T goes on.                                                              *)
LEMMA T1TGoes ==
  ASSUME TagInv, TagInv', OpenInv', MifareInv', Undisturbed, GoesOn, Room, T1T
  PROVE  GoesOn'
<1>0. /\ "Getting_ID" \in States /\ "Reading_CardContent" \in States
      /\ "rid" \in Granted /\ "rall" \in Granted
  BY DEF States, Granted
<1>1. CASE T1TInitial
  <2>1. EngineStep /\ Goto("Getting_ID") /\ Send(Cmd("rid", 0, 0, <<>>))
    BY <1>1, InFacts DEF T1TInitial
  <2> QED
    BY <1>0, <2>1, AskGoes
<1>2. CASE T1TGettingID
  <2>1. /\ EngineStep /\ type = "T1T"
        /\ Goto("Reading_CardContent") /\ Send(Cmd("rall", 0, 0, <<>>))
    BY <1>2, InFacts DEF T1TGettingID
  <2> QED
    BY <1>0, <2>1, AskGoes
<1>3. CASE T1TReadingCardContent
  <2>1. /\ EngineStep /\ pc = "engine" /\ type = "T1T" /\ op = "read"
        /\ ndef.state = "Reading_CardContent" /\ rsp.ok /\ type \notin Sized
    BY <1>3, InFacts DEF T1TReadingCardContent, Sized
  <2>w. PICK w \in Nat, next \in Nat : w = 92 /\ next = 16
    OBVIOUS
  <2> DEFINE d == SubSeq(rsp.data, 1, Len(rsp.data) - 16)
  <2>5. /\ rsp.data \in Bytes /\ mem \in Bytes /\ w >= 2 /\ w <= Len(rsp.data)
        /\ \A i \in 1 .. w : rsp.data[i] = Cell(mem, i)
    <3>1. /\ rsp.data \in Bytes /\ Len(rsp.data) = 108
          /\ \A i \in 1 .. 92 : rsp.data[i] = Cell(mem, i)
      BY <2>1, CardRead
    <3>2. mem \in Bytes
      BY DEF TagInv, TypeOK
    <3> QED
      BY <2>w, <3>1, <3>2
  <2>6. d \in Bytes /\ Len(d) = w /\ \A i \in 1 .. w : d[i] = Cell(mem, i)
    BY <2>1, <2>w, CardRead
  <2>7. PICK k \in Nat : /\ Headed(mem, k) /\ Holds(mem, k, content)
                         /\ Begins = k + 1 /\ k + 1 <= Width
    BY <2>1, BeginsAt
  <2>8. k + 2 <= w /\ k + 1 <= w /\ ~LongLengths
    BY <2>1, <2>7, <2>w DEF Width, LongLengths
  <2>p. PICK p \in Nat : p = k + 1 /\ p # 0
    OBVIOUS
  <2>9. FindNdefTlv(rsp.data) = p
    BY <2>5, <2>7, <2>8, <2>p, Found
  <2>10. FirstPart(d, p, LongLengths, next, "Reading_NDEF")
    <3>1. FirstPart(d, p, FALSE, 16, "Reading_NDEF")
      BY <1>3, <2>9, <2>p DEF T1TReadingCardContent
    <3> QED
      BY <2>8, <2>w, <3>1 DEF FirstPart
  <2>11. Offset(next) = w /\ TypeOK'
    BY <2>1, <2>w DEF Offset, TagInv
  <2> HIDE DEF d
  <2> QED
    BY <2>1, <2>6, <2>7, <2>8, <2>p, <2>10, <2>11, FirstGoes
<1>4. CASE T1TReadingNDEF
  <2>1. /\ EngineStep /\ pc = "engine" /\ type = "T1T" /\ op = "read"
        /\ ndef.state = "Reading_NDEF" /\ rsp.ok
        /\ LastPart(rsp.data) \/ NextPart(rsp.data, 1)
    BY <1>4, InFacts DEF T1TReadingNDEF
  <2>2. InParts /\ Width = 8 /\ ndef.blk \in Nat
    BY <2>1 DEF InParts, Width, TagInv, TypeOK
  <2>3. Offset(ndef.blk + 1) = Offset(ndef.blk) + Width
    BY <2>1, <2>2 DEF Offset
  <2> QED
    BY <2>1, <2>2, <2>3, PartGoes
<1> QED
  BY <1>1, <1>2, <1>3, <1>4 DEF T1T

(* T2T goes on.                                                              *)
LEMMA T2TGoes ==
  ASSUME TagInv, TagInv', OpenInv', MifareInv', Undisturbed, GoesOn, Room, T2T
  PROVE  GoesOn'
<1>0. /\ op = "read" /\ "Reading_CC" \in States /\ "Reading_Data" \in States
      /\ "cc" \in Granted
  BY DEF Undisturbed, States, Granted
<1>1. ASSUME NEW o \in {"read", "write"}, T2TInitial(o) PROVE GoesOn'
  <2>1. EngineStep /\ Goto("Reading_CC") /\ Send(Cmd("cc", 3, 0, <<>>))
    BY <1>1, InFacts DEF T2TInitial
  <2> QED
    BY <1>0, <2>1, AskGoes
<1>2. CASE T2TReadingCC
  <2>1. /\ EngineStep /\ type = "T2T" /\ type' = type /\ type \notin Sized
        /\ Goto("Reading_Data") /\ Send(Read(4)) /\ Offset(4) = 0
    BY <1>2, InFacts DEF T2TReadingCC, EngineStep, tagVars, Sized, Offset
  <2>2. ndef'.state = "Reading_Data"
    BY <1>0, <2>1, StateStep DEF Goto
  <2>3. ~InParts'
    BY <2>1, <2>2 DEF InParts
  <2>4. PICK b \in Nat : b = 4
    OBVIOUS
  <2> QED
    BY <2>1, <2>3, <2>4, FirstAskGoes
<1>3. CASE T2TReadingData
  <2>1. /\ EngineStep /\ pc = "engine" /\ type = "T2T" /\ op = "read"
        /\ ndef.state = "Reading_Data" /\ rsp.ok
    BY <1>3, InFacts DEF T2TReadingData
  <2>2. cmd = Read(4)
    BY <2>1 DEF TagInv, Busy, ReadFits, InState
  <2>3. Offset(4) = 0 /\ Offset(8) = Width /\ LongLengths
    BY <2>1 DEF Offset, Width, LongLengths
  <2>4. PICK b \in Nat : b = 4
    OBVIOUS
  <2>5. PICK next \in Nat : next = 8
    OBVIOUS
  <2>6. IF FindNdefTlv(rsp.data) = 0 THEN Quits
        ELSE FirstPart(rsp.data, FindNdefTlv(rsp.data), LongLengths, next, "Reading_NDEF")
    BY <1>3, <2>3, <2>5, ZenonT(30) DEF T2TReadingData, FirstPart
  <2>7. Offset(b) = 0 /\ Offset(next) = Width /\ cmd = Read(b) /\ ndef.state # "Initial"
    BY <2>1, <2>2, <2>3, <2>4, <2>5
  <2> QED
    BY <2>1, <2>6, <2>7, FirstBlockGoes
<1>4. CASE T2TReadingNDEF
  <2>1. /\ EngineStep /\ pc = "engine" /\ type = "T2T" /\ op = "read"
        /\ ndef.state = "Reading_NDEF" /\ rsp.ok
        /\ LastPart(rsp.data) \/ NextPart(rsp.data, 4)
    BY <1>4, InFacts DEF T2TReadingNDEF
  <2>2. InParts /\ Width = 16 /\ ndef.blk \in Nat
    BY <2>1 DEF InParts, Width, TagInv, TypeOK
  <2>3. Offset(ndef.blk + 4) = Offset(ndef.blk) + Width
    BY <2>1, <2>2 DEF Offset
  <2> QED
    BY <2>1, <2>2, <2>3, PartGoes
<1>5. ~T2TWriteCC /\ ~T2TWritingData
  BY <1>0 DEF T2TWriteCC, T2TWritingData, In
<1> QED
  BY <1>1, <1>2, <1>3, <1>4, <1>5 DEF T2T

(* T5T goes on.                                                              *)
LEMMA T5TGoes ==
  ASSUME TagInv, TagInv', OpenInv', MifareInv', Undisturbed, GoesOn, Room, T5T
  PROVE  GoesOn'
<1>0. /\ op = "read" /\ "Reading_CC" \in States /\ "Reading_Data" \in States
      /\ "cc" \in Granted
  BY DEF Undisturbed, States, Granted
<1>1. ASSUME NEW o \in {"read", "write"}, T5TInitial(o) PROVE GoesOn'
  <2>1. EngineStep /\ Goto("Reading_CC") /\ Send(Cmd("cc", 0, 0, <<>>))
    BY <1>1, InFacts DEF T5TInitial
  <2> QED
    BY <1>0, <2>1, AskGoes
<1>2. CASE T5TReadingCC
  <2>1. /\ EngineStep /\ type = "T5T" /\ type' = type /\ type \notin Sized
        /\ Goto("Reading_Data") /\ Send(Read(1)) /\ Offset(1) = 0
    BY <1>2, InFacts DEF T5TReadingCC, EngineStep, tagVars, Sized, Offset
  <2>2. ndef'.state = "Reading_Data"
    BY <1>0, <2>1, StateStep DEF Goto
  <2>3. ~InParts'
    BY <2>1, <2>2 DEF InParts
  <2>4. PICK b \in Nat : b = 1
    OBVIOUS
  <2> QED
    BY <2>1, <2>3, <2>4, FirstAskGoes
<1>3. CASE T5TReadingData
  <2>1. /\ EngineStep /\ pc = "engine" /\ type = "T5T" /\ op = "read"
        /\ ndef.state = "Reading_Data" /\ rsp.ok
    BY <1>3, InFacts DEF T5TReadingData
  <2>2. cmd = Read(1)
    BY <2>1 DEF TagInv, Busy, ReadFits, InState
  <2>3. Offset(1) = 0 /\ Offset(2) = Width
    BY <2>1 DEF Offset, Width
  <2>4. PICK b \in Nat : b = 1
    OBVIOUS
  <2>5. PICK next \in Nat : next = 2
    OBVIOUS
  <2>6. Offset(b) = 0 /\ Offset(next) = Width /\ cmd = Read(b) /\ ndef.state # "Initial"
    BY <2>1, <2>2, <2>3, <2>4, <2>5
  <2>7. IF FindNdefTlv(rsp.data) = 0 THEN Quits
        ELSE FirstPart(rsp.data, FindNdefTlv(rsp.data), LongLengths, next, "Reading_NDEF")
    BY <1>3, <2>5, T5TFirst
  <2> QED
    BY <2>1, <2>6, <2>7, FirstBlockGoes
<1>4. CASE T5TReadingNDEF
  <2>1. /\ EngineStep /\ pc = "engine" /\ type = "T5T" /\ op = "read"
        /\ ndef.state = "Reading_NDEF" /\ rsp.ok
        /\ LastPart(rsp.data) \/ NextPart(rsp.data, 1)
    BY <1>4, InFacts DEF T5TReadingNDEF
  <2>2. InParts /\ Width = 4 /\ ndef.blk \in Nat
    BY <2>1 DEF InParts, Width, TagInv, TypeOK
  <2>3. Offset(ndef.blk + 1) = Offset(ndef.blk) + Width
    BY <2>1, <2>2 DEF Offset
  <2> QED
    BY <2>1, <2>2, <2>3, PartGoes
<1>5. ~T5TWriteCC /\ ~T5TWritingData
  BY <1>0 DEF T5TWriteCC, T5TWritingData, In
<1> QED
  BY <1>1, <1>2, <1>3, <1>4, <1>5 DEF T5T

(* What a T3T or T4T says of the length of its message.                      *)
LEMMA SizedFacts ==
  ASSUME TagInv, Undisturbed, type \in Sized
  PROVE  nlen = Len(content) /\ nlen \in Nat /\ MaxFile \in Nat /\ End = nlen /\ cap \in Nat
  BY RwAssumption DEF TagInv, TypeOK, DataCaps, Laid, Undisturbed, Exact, End

(* T3T goes on.                                                              *)
LEMMA T3TGoes ==
  ASSUME TagInv, TagInv', OpenInv', MifareInv', Undisturbed, GoesOn, Room, T3T
  PROVE  GoesOn'
<1>1. CASE T3TInitial
  <2>1. EngineStep /\ Goto("Getting_AttributeInfo") /\ Send(Cmd("attribute", 0, 0, <<>>))
    BY <1>1, InFacts DEF T3TInitial
  <2>2. "Getting_AttributeInfo" \in States /\ "attribute" \in Granted
    BY DEF States, Granted
  <2> QED
    BY <2>1, <2>2, AskGoes
<1>2. CASE T3TGettingAttributeInfo
  <2> DEFINE n == rsp.data[1]
  <2>1. /\ EngineStep /\ pc = "engine" /\ type = "T3T" /\ op = "read"
        /\ ndef.state = "Getting_AttributeInfo" /\ rsp.ok /\ type \in Sized /\ type' = type
    BY <1>2, InFacts DEF T3TGettingAttributeInfo, Sized, EngineStep, tagVars
  <2>2. n = nlen
    <3>1. cmd.what = "attribute"
      BY <2>1 DEF TagInv, Busy, ReadFits, InState
    <3>2. rsp.data = Answer /\ nlen \in Nat
      BY <2>1, <3>1 DEF TagInv, AnswerStands, TypeOK
    <3>3. Answer = <<nlen>> \o [i \in 1 .. 15 |-> Pad]
      BY <2>1, <3>1 DEF Answer
    <3>4. <<nlen>> \in Seq(Nat) /\ [i \in 1 .. 15 |-> Pad] \in Seq(Nat) /\ Len(<<nlen>>) = 1
      BY <3>2 DEF Pad
    <3>5. Answer[1] = nlen
      BY <3>3, <3>4, JoinFacts
    <3> QED
      BY <3>2, <3>5
  <2>3. \/ (n > MaxFile \/ n = 0) /\ Refuse
        \/ /\ ~(n > MaxFile \/ n = 0)
           /\ ndef' = [state |-> "Reading_CardContent", blk |-> 1, ptr |-> 0, size |-> n]
           /\ Send(Read(1))
    BY <1>2 DEF T3TGettingAttributeInfo
  <2> HIDE DEF n
  <2>4. n = Len(content) /\ n \in Nat /\ MaxFile \in Nat /\ End = n /\ cap \in Nat
    BY <2>1, <2>2, SizedFacts
  <2>5. CASE (n > MaxFile \/ n = 0) /\ Refuse
    <3>1. pc' = "idle" /\ heard'.kind = "refused" /\ UNCHANGED <<content, whole>>
      BY <2>5 DEF Refuse, Ends
    <3>2. Len(content) \notin 1 .. MaxFile
      BY <2>4, <2>5
    <3> QED
      BY <2>1, <3>1, <3>2, ReportGoes
  <2>6. CASE /\ ~(n > MaxFile \/ n = 0)
             /\ ndef' = [state |-> "Reading_CardContent", blk |-> 1, ptr |-> 0, size |-> n]
             /\ Send(Read(1))
    <3>1. /\ ndef'.state = "Reading_CardContent" /\ ndef'.blk = 1
          /\ ndef'.ptr = 0 /\ ndef'.size = n
      BY <2>6
    <3>2. /\ cmd' = Read(1) /\ Send(cmd') /\ UNCHANGED <<content, whole>>
      BY <2>6 DEF Send
    <3>3. Place' = 0 /\ Offset(1) = 0
      BY <2>1, <3>1 DEF Place, Offset
    <3>4. End' = n /\ 0 < cap
      <4>1. End' = n
        BY <2>1, <2>4, <3>2, SameTag
      <4>2. n < cap
        BY <2>1, <2>4 DEF Room
      <4> QED
        BY <2>4, <4>1, <4>2
    <3>5. Rest'
      BY <2>4, <2>6, <3>1, <3>3, <3>4 DEF Rest
    <3>6. PICK b \in Nat : b = 1
      OBVIOUS
    <3>7. Offset(b) < cap /\ cmd' = Read(b) /\ TypeOK' /\ type # "T4T"
      BY <2>1, <3>2, <3>3, <3>4, <3>6 DEF TagInv
    <3> QED
      BY <2>1, <3>2, <3>5, <3>7, BlockGoes
  <2> QED
    BY <2>3, <2>5, <2>6
<1>3. CASE T3TReadingCardContent
  <2>1. /\ EngineStep /\ pc = "engine" /\ type = "T3T" /\ op = "read"
        /\ ndef.state = "Reading_CardContent" /\ rsp.ok
        /\ LastPart(rsp.data) \/ NextPart(rsp.data, 1)
    BY <1>3, InFacts DEF T3TReadingCardContent
  <2>2. InParts /\ Width = 16 /\ ndef.blk \in Nat
    BY <2>1 DEF InParts, Width, TagInv, TypeOK
  <2>3. Offset(ndef.blk + 1) = Offset(ndef.blk) + Width
    BY <2>1, <2>2 DEF Offset
  <2> QED
    BY <2>1, <2>2, <2>3, PartGoes
<1> QED
  BY <1>1, <1>2, <1>3 DEF T3T

(* MIFARE goes on.                                                           *)
LEMMA MifareGoes ==
  ASSUME TagInv, TagInv', OpenInv', MifareInv, MifareInv', Undisturbed, GoesOn, Room, Mifare
  PROVE  GoesOn'
<1>0. /\ op = "read" /\ ndef \in Ndefs /\ ndef.blk \in Nat
      /\ ndef = [state |-> ndef.state, blk |-> ndef.blk, ptr |-> ndef.ptr, size |-> ndef.size]
  <2>1. op = "read" /\ ndef \in Ndefs
    BY DEF Undisturbed, TagInv, TypeOK, Ndefs
  <2> QED
    BY <2>1, NdefFacts
<1>1. ASSUME NEW o \in {"read", "write"}, Authenticate0(o) PROVE GoesOn'
  <2>1. EngineStep /\ Goto("Authenticated0") /\ Send(Cmd("auth", 0, 0, <<>>))
    BY <1>1, InFacts DEF Authenticate0, Auth
  <2>2. "Authenticated0" \in States /\ "auth" \in Granted
    BY DEF States, Granted
  <2> QED
    BY <2>1, <2>2, AskGoes
<1>2. ASSUME NEW o \in {"read", "write"}, ReadGpb(o) PROVE GoesOn'
  <2>1. EngineStep /\ Goto("Reading_GPB") /\ Send(Cmd("gpb", GpbBlock, 0, <<>>))
    BY <1>2, InFacts DEF ReadGpb
  <2>2. "Reading_GPB" \in States /\ "gpb" \in Granted
    BY DEF States, Granted
  <2> QED
    BY <2>1, <2>2, AskGoes
<1>3. CASE GpbRead
  <2>1. /\ EngineStep /\ type = "MIFARE" /\ type' = type
        /\ ndef' = [ndef EXCEPT !.state = "Authenticated", !.blk = 4] /\ Send(Auth(1))
    BY <1>3, InFacts DEF GpbRead, EngineStep, tagVars
  <2>2. ndef'.state = "Authenticated" /\ ndef'.blk = 4
    BY <1>0, <2>1
  <2>3. cmd' = Auth(1) /\ Send(cmd')
    BY <2>1 DEF Send
  <2>4. cmd'.what \in Granted
    BY <2>3 DEF Auth, Cmd, Granted
  <2>5. ~InParts'
    BY <2>1, <2>2 DEF InParts
  <2> QED
    BY <2>3, <2>4, <2>5, GrantedGoes DEF TagInv, Rest
<1>4. CASE Authenticated
  <2>1. /\ EngineStep /\ type = "MIFARE" /\ ndef.state = "Authenticated" /\ type' = type
        /\ ndef' = IF ndef.blk = 4 THEN [ndef EXCEPT !.state = "Reading_FirstBlk"]
                   ELSE [ndef EXCEPT !.state = "Reading_Data", !.blk = ndef.blk + 1]
        /\ Send(Read(ndef'.blk)) /\ type \notin Sized
    BY <1>4, InFacts DEF Authenticated, EngineStep, tagVars, Sized
  <2>2. CASE ndef.blk # 4
    <3>1. ndef' = [ndef EXCEPT !.state = "Reading_Data", !.blk = ndef.blk + 1]
      BY <2>1, <2>2
    <3>2. ndef' = [state |-> "Reading_Data", blk |-> ndef.blk + 1,
                   ptr |-> ndef.ptr, size |-> ndef.size]
      BY <1>0, <3>1
    <3> QED
      BY <1>0, <2>1, <2>2, <3>2, SectorGoes
  <2>3. CASE ndef.blk = 4
    <3>1. ndef' = [ndef EXCEPT !.state = "Reading_FirstBlk"]
      BY <2>1, <2>3
    <3>2. ndef'.state = "Reading_FirstBlk" /\ ndef'.blk = 4
      BY <1>0, <2>3, <3>1
    <3>3. ~InParts'
      BY <2>1, <3>2 DEF InParts
    <3>4. PICK b \in Nat : b = 4
      OBVIOUS
    <3>5. Send(Read(b)) /\ Offset(b) = 0
      BY <2>1, <3>2, <3>4 DEF Offset
    <3> QED
      BY <2>1, <3>3, <3>5, FirstAskGoes
  <2> QED
    BY <2>2, <2>3
<1>5. CASE ReadingFirstBlk
  <2>1. /\ EngineStep /\ pc = "engine" /\ type = "MIFARE"
        /\ ndef.state = "Reading_FirstBlk" /\ rsp.ok
    BY <1>5, InFacts DEF ReadingFirstBlk
  <2>2. cmd = Read(4)
    BY <1>0, <2>1 DEF TagInv, Busy, ReadFits, InState
  <2>3. Offset(4) = 0 /\ Offset(5) = Width /\ LongLengths
    BY <2>1 DEF Offset, Width, LongLengths
  <2>4. PICK b \in Nat : b = 4
    OBVIOUS
  <2>5. PICK next \in Nat : next = 5
    OBVIOUS
  <2>6. IF FindNdefTlv(rsp.data) = 0 THEN Quits
        ELSE FirstPart(rsp.data, FindNdefTlv(rsp.data), LongLengths, next, "Reading_Data")
    BY <1>5, <2>3, <2>5, ZenonT(30) DEF ReadingFirstBlk, FirstPart
  <2>7. Offset(b) = 0 /\ Offset(next) = Width /\ cmd = Read(b) /\ ndef.state # "Initial"
    BY <2>1, <2>2, <2>3, <2>4, <2>5
  <2> QED
    BY <2>1, <2>6, <2>7, FirstBlockGoes
<1>6. CASE ReadingData
  <2>1. /\ EngineStep /\ pc = "engine" /\ type = "MIFARE"
        /\ ndef.state = "Reading_Data" /\ rsp.ok /\ ndef.state # "Authenticated" /\ type # "T4T"
    BY <1>6, InFacts DEF ReadingData
  <2>2. InParts /\ Width = 16
    BY <1>0, <2>1 DEF InParts, Width
  <2>3. ndef.blk >= 4 /\ ndef.blk % 4 # 3
    BY <2>1 DEF MifareInv, PlaceOK
  <2>4. CASE LastPart(rsp.data)
    BY <2>1, <2>2, <2>4, LastGoes
  <2>5. CASE ~Trailer(ndef.blk + 1) /\ NextPart(rsp.data, 1)
    <3>1. Offset(ndef.blk + 1) = Offset(ndef.blk) + Width
      BY <1>0, <2>1, <2>2, <2>3, <2>5, DataBlocks
    <3> QED
      BY <2>1, <2>2, <2>5, <3>1, NextGoes
  <2>6. CASE /\ Trailer(ndef.blk + 1)
             /\ ndef' = [state |-> "Authenticated", blk |-> ndef.blk + 1,
                         ptr |-> ndef.ptr + Len(rsp.data), size |-> ndef.size]
             /\ Send(Auth((ndef.blk + 2) \div 4))
    BY <1>0, <2>1, <2>3, <2>6, TrailerGoes
  <2> QED
    BY <1>6, <2>4, <2>5, <2>6 DEF ReadingData
<1>7. ~GpbReadToWrite /\ ~WritingData1 /\ ~WritingData2
  BY <1>0 DEF GpbReadToWrite, WritingData1, WritingData2, In
<1> QED
  BY <1>1, <1>2, <1>3, <1>4, <1>5, <1>6, <1>7 DEF Mifare

(* A part of the file is asked for.                                          *)
LEMMA FileGoes ==
  ASSUME TypeOK', HeardFits', OpenInv', EngineStep, type = "T4T", Send(cmd'),
         cmd'.what = "read", cmd'.at < cap + 2, Rest'
  PROVE  GoesOn'
<1>1. pc' = "tag" /\ type' = type /\ cap' = cap
  BY DEF Send, EngineStep, tagVars
<1>2. FileInside'
  BY <1>1 DEF FileInside, HeardFits, OpenInv, Busy, Opens
<1>3. (TypeOK /\ FileInside => Answer # NoAnswer)'
  BY FileAnswer, PTL
<1>4. Answer' # NoAnswer'
  BY <1>2, <1>3
<1> QED
  BY <1>1, <1>4 DEF GoesOn, Rest

(* The offset of a part of a readable message of a T4T.                      *)
LEMMA PartAt ==
  ASSUME NEW n \in Nat, n <= 254, NEW p \in Nat, p < n, NEW c \in Nat, n <= c
  PROVE  /\ ReadBinary(n, p).what = "read"
         /\ ReadBinary(n, p).at < c + 2
<1>1. PICK m \in 0 .. 255 : ReadBinary(n, p) = Cmd("read", (p + 2) % 256, m, <<>>)
  BY BinaryCmd
<1>2. (p + 2) % 256 = p + 2
  <2>1. \A x \in 0 .. 255 : x % 256 = x
    OBVIOUS
  <2>2. p + 2 \in 0 .. 255
    OBVIOUS
  <2> QED
    BY <2>1, <2>2
<1>3. ReadBinary(n, p).what = "read" /\ ReadBinary(n, p).at = p + 2
  BY <1>1, <1>2 DEF Cmd
<1> QED
  BY <1>3

(* The message of a T4T that is read lies within its file.                   *)
LEMMA FileFacts ==
  ASSUME TagInv, Undisturbed, Room, type = "T4T"
  PROVE  /\ nlen = Len(content) /\ nlen \in Nat /\ nlen # 0 /\ nlen <= 254 /\ nlen <= cap
         /\ cap \in Nat /\ MaxFile \in Nat /\ End = nlen
<1>1. nlen = Len(content) /\ nlen \in Nat /\ MaxFile \in Nat /\ End = nlen /\ cap \in Nat
  BY SizedFacts DEF Sized
<1>2. Exact
  BY DEF Undisturbed
<1>3. nlen <= cap
  BY <1>1, <1>2 DEF Room, Exact
<1>4. Readable("T4T", nlen)
  BY <1>1, <1>2 DEF Exact
<1>5. PICK n \in Nat : n = nlen
  BY <1>1
<1>6. n # 0 /\ n <= 254
  <2>1. n # 0 /\ ~(n > 254)
    BY <1>4, <1>5, ReadableFacts
  <2> QED
    BY <2>1
<1> QED
  BY <1>1, <1>3, <1>5, <1>6, Zenon

(* The answer to the selection of the application of version 2.0.            *)
LEMMA AppGoes ==
  ASSUME TagInv, TagInv', OpenInv', GoesOn, NEW o \in {"read", "write"},
         SelectApp20(o) \/ App20Answered(o)
  PROVE  GoesOn'
<1>0. /\ {"Selecting_NDEF_Application20", "Selecting_NDEF_Application10", "Selecting_CC"}
         \subseteq States
      /\ "cc_file" \in Granted
  BY DEF States, Granted
<1>1. CASE SelectApp20(o)
  <2>1. /\ EngineStep /\ type' = "T4T" /\ v1' = v1 /\ Goto("Selecting_NDEF_Application20")
        /\ cmd' = Cmd("app20", 0, 0, <<>>) /\ pc' = "tag"
    BY <1>1, InFacts DEF SelectApp20, EngineStep, tagVars, Send
  <2>2. ndef'.state = "Selecting_NDEF_Application20"
    BY <1>0, <2>1, StateStep DEF Goto
  <2>3. ~InParts'
    BY <2>1, <2>2 DEF InParts
  <2>4. Answer' # NoAnswer' \/ Excused'
    <3>1. cmd'.what = "app20"
      BY <2>1 DEF Cmd
    <3>2. ~v1' => Answer' = <<>>
      BY <2>1, <3>1 DEF Answer, T4TAnswer
    <3> QED
      BY <2>2, <3>2 DEF Excused, NoAnswer
  <2> QED
    BY <2>1, <2>3, <2>4 DEF GoesOn
<1>2. CASE App20Answered(o)
  <2>1. /\ EngineStep /\ pc = "engine" /\ type' = "T4T" /\ type = "T4T" /\ v1' = v1
        /\ ndef.state = "Selecting_NDEF_Application20"
    BY <1>2, InFacts DEF App20Answered, EngineStep, tagVars
  <2>2. CASE rsp.ok
    <3>1. Goto("Selecting_CC") /\ Send(Cmd("cc_file", 0, 0, <<>>))
      BY <1>2, <2>2 DEF App20Answered
    <3> QED
      BY <1>0, <2>1, <3>1, AskGoes
  <2>3. CASE ~rsp.ok
    <3>1. /\ Goto("Selecting_NDEF_Application10") /\ pc' = "tag"
          /\ cmd' = Cmd("app10", 0, 0, <<>>)
      BY <1>2, <2>3 DEF App20Answered, Send
    <3>2. ndef'.state = "Selecting_NDEF_Application10"
      BY <1>0, <3>1, StateStep DEF Goto
    <3>3. ~InParts'
      BY <2>1, <3>2 DEF InParts
    <3>4. v1'
      BY <2>1, <2>3 DEF GoesOn, Excused
    <3>5. cmd'.what = "app10"
      BY <3>1 DEF Cmd
    <3>6. Answer' = <<>>
      BY <2>1, <3>4, <3>5 DEF Answer, T4TAnswer
    <3> QED
      BY <3>1, <3>3, <3>6 DEF GoesOn, NoAnswer
  <2> QED
    BY <2>2, <2>3
<1> QED
  BY <1>1, <1>2

(* The size has been read.                                                   *)
LEMMA SizeGoes ==
  ASSUME TagInv, TagInv', OpenInv, OpenInv', Undisturbed, Room, SizeRead
  PROVE  GoesOn'
<1> DEFINE n == FirstWord(rsp.data)
<1>1. /\ EngineStep /\ pc = "engine" /\ type = "T4T" /\ op = "read" /\ type' = type
      /\ ndef.state = "Reading_NDEF_Size" /\ rsp.ok
  BY InFacts DEF SizeRead, EngineStep, tagVars
<1>2. n = nlen
  BY <1>1, SizeOfFile
<1>3. \/ n > MaxFile /\ Refuse
      \/ /\ ~(n > MaxFile)
         /\ ndef' = [ndef EXCEPT !.state = "Reading_NDEF", !.ptr = 0, !.size = n]
         /\ Send(ReadBinary(n, 0))
  BY DEF SizeRead
<1> HIDE DEF n
<1>4. /\ n = Len(content) /\ n \in Nat /\ n # 0 /\ n <= 254 /\ n <= cap
      /\ cap \in Nat /\ MaxFile \in Nat /\ End = n
  <2>1. /\ nlen = Len(content) /\ nlen \in Nat /\ nlen # 0 /\ nlen <= 254 /\ nlen <= cap
        /\ cap \in Nat /\ MaxFile \in Nat /\ End = nlen
    BY <1>1, FileFacts
  <2> QED
    BY <1>2, <2>1
<1>5. CASE n > MaxFile /\ Refuse
  <2>1. pc' = "idle" /\ heard'.kind = "refused" /\ UNCHANGED <<content, whole>>
    BY <1>5 DEF Refuse, Ends
  <2>2. Len(content) \notin 1 .. MaxFile
    BY <1>4, <1>5
  <2> QED
    BY <1>1, <2>1, <2>2, ReportGoes
<1>6. CASE /\ ~(n > MaxFile)
           /\ ndef' = [ndef EXCEPT !.state = "Reading_NDEF", !.ptr = 0, !.size = n]
           /\ Send(ReadBinary(n, 0))
  <2>1. ndef'.state = "Reading_NDEF" /\ ndef'.ptr = 0 /\ ndef'.size = n
    <3>1. ndef \in Ndefs
      BY DEF TagInv, TypeOK, Ndefs
    <3>2. ndef = [state |-> ndef.state, blk |-> ndef.blk, ptr |-> ndef.ptr, size |-> ndef.size]
      BY <3>1, NdefFacts
    <3>3. ndef' = [state |-> "Reading_NDEF", blk |-> ndef.blk, ptr |-> 0, size |-> n]
      BY <1>6, <3>2
    <3> QED
      BY <3>3
  <2>2. cmd' = ReadBinary(n, 0) /\ Send(cmd') /\ UNCHANGED <<content, whole>>
    BY <1>6 DEF Send
  <2>3. Rest'
    <3>1. Place' = 0
      BY <1>1, <2>1 DEF Place
    <3>2. End' = n
      BY <1>1, <1>4, <2>2, SameTag
    <3> QED
      BY <1>4, <2>1, <3>1, <3>2 DEF Rest
  <2>4. cmd'.what = "read" /\ cmd'.at < cap + 2
    <3>1. PICK p \in Nat, c \in Nat : p = 0 /\ c = cap
      BY <1>4
    <3>2. p < n /\ n <= c
      BY <1>4, <3>1
    <3>3. ReadBinary(n, p).what = "read" /\ ReadBinary(n, p).at < c + 2
      BY <1>4, <3>2, PartAt
    <3> QED
      BY <2>2, <3>1, <3>3
  <2> QED
    BY <1>1, <2>2, <2>3, <2>4, FileGoes DEF TagInv
<1> QED
  BY <1>3, <1>5, <1>6

(* A part of the file has been read.                                         *)
LEMMA PieceGoes ==
  ASSUME TagInv, TagInv', OpenInv, OpenInv', Undisturbed, Room, ReadingNdef
  PROVE  GoesOn'
<1> DEFINE q == ndef'.ptr
<1>1. /\ EngineStep /\ pc = "engine" /\ type = "T4T" /\ op = "read" /\ type' = type /\ op' = op
      /\ ndef.state = "Reading_NDEF" /\ nlen' = nlen
      /\ ndef' = [ndef EXCEPT !.ptr = ndef.ptr + Len(rsp.data)]
  BY InFacts DEF ReadingNdef, EngineStep, tagVars
<1>2. PartsFit /\ InParts
  <2>1. InParts
    BY <1>1 DEF InParts
  <2> QED
    BY <1>1, <2>1, PartsOf
<1>3. ndef'.state = "Reading_NDEF" /\ ndef'.size = ndef.size /\ q \in Nat
  <2>1. ndef \in Ndefs
    BY DEF TagInv, TypeOK, Ndefs
  <2>2. ndef = [state |-> ndef.state, blk |-> ndef.blk, ptr |-> ndef.ptr, size |-> ndef.size]
    BY <2>1, NdefFacts
  <2>3. ndef' = [state |-> ndef.state, blk |-> ndef.blk, ptr |-> ndef.ptr + Len(rsp.data),
                 size |-> ndef.size]
    BY <1>1, <2>2
  <2>4. ndef'.ptr \in Nat
    BY DEF TagInv, TypeOK
  <2> QED
    BY <1>1, <2>3, <2>4
<1>4. /\ ndef.size = nlen /\ nlen = Len(content) /\ nlen \in Nat /\ nlen # 0 /\ nlen <= 254
      /\ nlen <= cap /\ cap \in Nat /\ MaxFile \in Nat /\ End = nlen /\ ndef.size <= MaxFile
  BY <1>1, <1>2, FileFacts DEF PartsFit
<1>5. \/ pc' = "lost"
      \/ q = ndef.size /\ Deliver(SubSeq(buffer', 1, ndef.size))
      \/ q # ndef.size /\ Send(ReadBinary(ndef.size, q))
  BY DEF ReadingNdef
<1>6. CASE pc' = "lost"
  BY <1>6 DEF GoesOn, Busy
<1>7. CASE q = ndef.size /\ Deliver(SubSeq(buffer', 1, ndef.size))
  <2>1. pc' = "idle" /\ heard'.kind = "message" /\ UNCHANGED <<content, whole>>
    BY <1>7 DEF Deliver, Ends
  <2>2. Len(content) \in 1 .. MaxFile
    BY <1>4
  <2> QED
    BY <1>1, <2>1, <2>2, ReportGoes
<1>8. CASE q # ndef.size /\ Send(ReadBinary(ndef.size, q))
  <2>1. cmd' = ReadBinary(ndef.size, q) /\ Send(cmd') /\ UNCHANGED <<content, whole>> /\ pc' = "tag"
    BY <1>8 DEF Send
  <2>2. q < ndef.size
    <3>1. InParts' /\ Busy'
      BY <1>1, <1>3, <2>1 DEF InParts, Busy
    <3>2. ndef'.size = 0 \/ q < ndef'.size
      BY <1>1, <3>1 DEF TagInv, PartsFit
    <3> QED
      BY <1>3, <1>4, <3>2
  <2>3. Rest'
    <3>1. Place' = q
      BY <1>1, <1>3 DEF Place
    <3>2. End' = nlen
      BY <1>1, <1>4, <2>1, SameTag
    <3>3. PICK p \in Nat, n \in Nat : p = q /\ n = ndef.size
      BY <1>3, <1>4
    <3>4. p + (n - p) = n /\ n # 0
      BY <1>4, <3>3
    <3> QED
      BY <1>3, <1>4, <3>1, <3>2, <3>3, <3>4 DEF Rest
  <2>4. cmd'.what = "read" /\ cmd'.at < cap + 2
    <3>1. PICK n \in Nat, p \in Nat, c \in Nat : n = ndef.size /\ p = q /\ c = cap
      BY <1>3, <1>4
    <3>2. n <= 254 /\ p < n /\ n <= c
      BY <1>4, <2>2, <3>1
    <3>3. ReadBinary(n, p).what = "read" /\ ReadBinary(n, p).at < c + 2
      BY <3>2, PartAt
    <3> QED
      BY <2>1, <3>1, <3>3
  <2> QED
    BY <1>1, <2>1, <2>3, <2>4, FileGoes DEF TagInv
<1> QED
  BY <1>5, <1>6, <1>7, <1>8

(* T4T goes on.                                                              *)
LEMMA T4TGoes ==
  ASSUME TagInv, TagInv', OpenInv, OpenInv', Undisturbed, GoesOn, Room, T4T
  PROVE  GoesOn'
<1>0. /\ op = "read"
      /\ {"Selecting_CC", "Reading_CC", "Selecting_NDEF", "Reading_NDEF_Size"} \subseteq States
      /\ {"cc_file", "cc", "ndef_file"} \subseteq Granted
  BY DEF Undisturbed, States, Granted
<1>1. ASSUME NEW o \in {"read", "write"}, SelectApp20(o) \/ App20Answered(o) PROVE GoesOn'
  BY <1>1, AppGoes
<1>2. ASSUME NEW o \in {"read", "write"}, App10Selected(o) PROVE GoesOn'
  <2>1. EngineStep /\ Goto("Selecting_CC") /\ Send(Cmd("cc_file", 0, 0, <<>>))
    BY <1>2, InFacts DEF App10Selected
  <2> QED
    BY <1>0, <2>1, AskGoes
<1>3. ASSUME NEW o \in {"read", "write"}, CCSelected(o) PROVE GoesOn'
  <2>1. EngineStep /\ Goto("Reading_CC") /\ Send(Cmd("cc", 0, 15, <<>>))
    BY <1>3, InFacts DEF CCSelected
  <2> QED
    BY <1>0, <2>1, AskGoes
<1>4. ASSUME NEW o \in {"read", "write"}, CCRead(o) PROVE GoesOn'
  <2>1. EngineStep /\ Goto("Selecting_NDEF") /\ Send(Cmd("ndef_file", 0, 0, <<>>))
    BY <1>4, InFacts DEF CCRead
  <2> QED
    BY <1>0, <2>1, AskGoes
<1>5. CASE NdefSelected
  <2>1. /\ EngineStep /\ type = "T4T" /\ type' = type /\ Goto("Reading_NDEF_Size")
        /\ Send(Cmd("read", 0, 2, <<>>))
    BY <1>5, InFacts DEF NdefSelected, EngineStep, tagVars
  <2>2. cmd' = Cmd("read", 0, 2, <<>>) /\ Send(cmd')
    BY <2>1 DEF Send
  <2>3. cmd'.what = "read" /\ cmd'.at = 0
    BY <2>2 DEF Cmd
  <2>4. ndef'.state = "Reading_NDEF_Size"
    BY <1>0, <2>1, StateStep DEF Goto
  <2>5. Rest'
    BY <2>1, <2>4 DEF Rest, InParts
  <2>6. cmd'.at < cap + 2
    <3>1. cap \in Nat
      BY <2>1, FileFacts
    <3> QED
      BY <2>3, <3>1
  <2> QED
    BY <2>1, <2>2, <2>3, <2>5, <2>6, FileGoes DEF TagInv
<1>6. CASE SizeRead
  BY <1>6, SizeGoes
<1>7. CASE ReadingNdef
  BY <1>7, PieceGoes
<1>8. ~ClearSize /\ ~WritingNdef /\ ~WritingSize /\ ~WriteComplete
  BY <1>0 DEF ClearSize, WritingNdef, WritingSize, WriteComplete, In
<1> QED
  BY <1>1, <1>2, <1>3, <1>4, <1>5, <1>6, <1>7, <1>8 DEF T4T

(* What is said of the message on the tag changes only when a write is over. *)
Quiet == UNCHANGED <<content, whole>>

(* The steps of which the engines are made.                                  *)
LEMMA StepsQuiet ==
  /\ \A c : Send(c) => Quiet
  /\ \A d : LastPart(d) => Quiet
  /\ \A d, s : NextPart(d, s) => Quiet
  /\ \A d, p, long, next, s : FirstPart(d, p, long, next, s) => Quiet
  /\ \A s, b, p, c : WriteNext(s, b, p, c) => Quiet
  /\ \A d : Deliver(d) => Quiet
  /\ Refuse => Quiet
  /\ Quits => Quiet
<1>1. \A c : Send(c) => Quiet
  BY DEF Send, Quiet
<1>2. (\A d : Deliver(d) => Quiet) /\ (Refuse => Quiet) /\ (Quits => Quiet)
  BY DEF Deliver, Refuse, Quits, Quiet
<1>3. \A d : LastPart(d) => Quiet
  BY <1>2 DEF LastPart
<1>4. \A d, s : NextPart(d, s) => Quiet
  BY <1>1 DEF NextPart
<1>5. \A d, p, long, next, s : FirstPart(d, p, long, next, s) => Quiet
  <2> SUFFICES ASSUME NEW d, NEW p, NEW long, NEW next, NEW s, FirstPart(d, p, long, next, s)
               PROVE  Quiet
    OBVIOUS
  <2>1. Refuse \/ Deliver(buffer') \/ Send(Read(next))
    BY ZenonT(30) DEF FirstPart
  <2> QED
    BY <1>1, <1>2, <2>1
<1>6. \A s, b, p, c : WriteNext(s, b, p, c) => Quiet
  BY <1>1 DEF WriteNext
<1> QED
  BY <1>1, <1>2, <1>3, <1>4, <1>5, <1>6

(* What a step of an engine leaves alone.                                    *)
LEMMA EngineQuiet ==
  ASSUME Engine
  PROVE  EngineStep /\ (op = "read" => Quiet)
<1>1. ASSUME T1T PROVE EngineStep /\ (op = "read" => Quiet)
  <2>1. EngineStep
    BY <1>1, InFacts DEF T1T, T1TInitial, T1TGettingID, T1TReadingCardContent, T1TReadingNDEF
  <2>2. Quiet
    BY <1>1, StepsQuiet, Zenon DEF T1T, T1TInitial, T1TGettingID, T1TReadingCardContent,
                                   T1TReadingNDEF
  <2> QED
    BY <2>1, <2>2
<1>2. ASSUME T2T PROVE EngineStep /\ (op = "read" => Quiet)
  <2>1. EngineStep
    BY <1>2, InFacts DEF T2T, T2TInitial, T2TReadingCC, T2TReadingData, T2TReadingNDEF,
                         T2TWriteCC, T2TWritingData
  <2>2. ASSUME op = "read" PROVE Quiet
    <3>1. ~T2TWriteCC /\ ~T2TWritingData
      BY <2>2, InFacts DEF T2TWriteCC, T2TWritingData
    <3> QED
      BY <1>2, <3>1, StepsQuiet, Zenon DEF T2T, T2TInitial, T2TReadingCC, T2TReadingData,
                                           T2TReadingNDEF
  <2> QED
    BY <2>1, <2>2
<1>3. ASSUME T3T PROVE EngineStep /\ (op = "read" => Quiet)
  <2>1. EngineStep
    BY <1>3, InFacts DEF T3T, T3TInitial, T3TGettingAttributeInfo, T3TReadingCardContent
  <2>2. Quiet
    BY <1>3, StepsQuiet, Zenon DEF T3T, T3TInitial, T3TGettingAttributeInfo, T3TReadingCardContent
  <2> QED
    BY <2>1, <2>2
<1>4. ASSUME T4T PROVE EngineStep /\ (op = "read" => Quiet)
  <2>1. EngineStep
    BY <1>4, InFacts DEF T4T, SelectApp20, App20Answered, App10Selected, CCSelected, CCRead,
                         NdefSelected, SizeRead, ReadingNdef, ClearSize, WritingNdef, WritingSize,
                         WriteComplete
  <2>2. ASSUME op = "read" PROVE Quiet
    <3>1. ~ClearSize /\ ~WritingNdef /\ ~WritingSize /\ ~WriteComplete
      BY <2>2, InFacts DEF ClearSize, WritingNdef, WritingSize, WriteComplete
    <3>2. SizeRead => Quiet
      BY StepsQuiet, Zenon DEF SizeRead
    <3>3. ReadingNdef => Quiet
      <4>1. \/ UNCHANGED <<content, whole>>
            \/ \E d : Deliver(d)
            \/ \E c : Send(c)
            \/ ~ReadingNdef
        BY DEF ReadingNdef
      <4> QED
        BY <4>1, StepsQuiet DEF Quiet
    <3>4. NdefSelected => Quiet
      BY StepsQuiet, Zenon DEF NdefSelected
    <3>5. ASSUME NEW o \in {"read", "write"},
                 \/ SelectApp20(o) \/ App20Answered(o) \/ App10Selected(o) \/ CCSelected(o)
                 \/ CCRead(o)
          PROVE  Quiet
      BY <3>5, StepsQuiet, Zenon DEF SelectApp20, App20Answered, App10Selected, CCSelected, CCRead
    <3> QED
      BY <1>4, <3>1, <3>2, <3>3, <3>4, <3>5 DEF T4T
  <2> QED
    BY <2>1, <2>2
<1>5. ASSUME T5T PROVE EngineStep /\ (op = "read" => Quiet)
  <2>1. EngineStep
    BY <1>5, InFacts DEF T5T, T5TInitial, T5TReadingCC, T5TReadingData, T5TReadingNDEF,
                         T5TWriteCC, T5TWritingData
  <2>2. ASSUME op = "read" PROVE Quiet
    <3>1. ~T5TWriteCC /\ ~T5TWritingData
      BY <2>2, InFacts DEF T5TWriteCC, T5TWritingData
    <3> QED
      BY <1>5, <3>1, StepsQuiet, Zenon DEF T5T, T5TInitial, T5TReadingCC, T5TReadingData,
                                           T5TReadingNDEF
  <2> QED
    BY <2>1, <2>2
<1>6. ASSUME Mifare PROVE EngineStep /\ (op = "read" => Quiet)
  <2>1. EngineStep
    BY <1>6, InFacts DEF Mifare, Authenticate0, ReadGpb, GpbRead, Authenticated, ReadingFirstBlk,
                         ReadingData, GpbReadToWrite, WritingData1, WritingData2
  <2>2. ASSUME op = "read" PROVE Quiet
    <3>1. ~GpbReadToWrite /\ ~WritingData1 /\ ~WritingData2
      BY <2>2, InFacts DEF GpbReadToWrite, WritingData1, WritingData2
    <3> QED
      BY <1>6, <3>1, StepsQuiet, Zenon DEF Mifare, Authenticate0, ReadGpb, GpbRead, Authenticated,
                                           ReadingFirstBlk, ReadingData
  <2> QED
    BY <2>1, <2>2
<1>7. ASSUME GivesUp PROVE EngineStep /\ (op = "read" => Quiet)
  BY <1>7 DEF GivesUp, EngineStep, hostVars, tagVars, Quiet
<1> QED
  BY <1>1, <1>2, <1>3, <1>4, <1>5, <1>6, <1>7 DEF Engine

-----------------------------------------------------------------------------
(* The tag and the application                                               *)

(* Nothing that is said of the tag changes.                                  *)
LEMMA SameFacts ==
  ASSUME UNCHANGED <<op, ops, type, mem, cap, content, whole>>
  PROVE  Begins' = Begins /\ Beyond' = Beyond /\ (Exact' <=> Exact) /\ End' = End
<1>1. Width' = Width
  BY DEF Width
<1>2. Begins' = Begins
  BY <1>1 DEF Begins
<1>3. Beyond' = Beyond
  BY <1>2 DEF Beyond
<1> QED
  BY <1>2, <1>3 DEF Exact, End

(* An answer of the tag.                                                     *)
LEMMA TagGoes ==
  ASSUME TagInv, MifareInv, T4TInv, ReadInv, Tag, Undisturbed'
  PROVE  GoesOn'
<1>1. TagAnswers
  BY DEF Tag, TagFails, Undisturbed
<1>2. /\ pc = "tag" /\ pc' = "engine" /\ (Answer # NoAnswer => rsp'.ok)
      /\ UNCHANGED <<op, ndef, buffer, message, heard, cmd, type, v1, cap, ops, content, intact>>
      /\ misled' = misled
      /\ Answer # NoAnswer => Executed
      /\ Answer = NoAnswer => UNCHANGED <<mem, nlen, sel, auth, whole>>
  BY <1>1 DEF TagAnswers, hostVars
<1>3. op = "read" /\ ndef.state # "Initial"
  BY <1>2 DEF Undisturbed, TagInv, HeardFits
<1>4. cmd.what \notin {"write", "write_data"}
  BY <1>2, <1>3 DEF TagInv, Busy, ReadFits
<1>5. mem' = mem /\ nlen' = nlen /\ whole' = whole
  <2>1. CASE Answer # NoAnswer
    BY <1>2, <1>4, <2>1, Effect
  <2>2. CASE Answer = NoAnswer
    BY <1>2, <2>2
  <2> QED
    BY <2>1, <2>2
<1>6. Begins' = Begins /\ Beyond' = Beyond /\ (Exact' <=> Exact) /\ End' = End
  BY <1>2, <1>5, SameFacts
<1>7. Undisturbed
  BY <1>2, <1>6 DEF Undisturbed
<1>8. GoesOn
  BY <1>7 DEF ReadInv
<1>9. rsp'.ok \/ Excused'
  <2>1. Answer # NoAnswer \/ Excused
    BY <1>2, <1>8 DEF GoesOn
  <2> QED
    BY <1>2, <2>1 DEF Excused
<1>10. Place' = Place /\ (InParts' <=> InParts)
  BY <1>2 DEF Place, InParts, Offset
<1>11. Rest'
  <2>1. InParts => ndef.size # 0 /\ Place + (ndef.size - ndef.ptr) = End
    BY <1>2, <1>3, <1>8 DEF GoesOn, Busy
  <2> QED
    BY <1>2, <1>6, <1>10, <2>1 DEF Rest
<1> QED
  BY <1>2, <1>9, <1>11 DEF GoesOn, Rest

(* A new operation has asked for nothing.                                    *)
LEMMA BeginGoes ==
  ASSUME TagInv, Begin
  PROVE  GoesOn'
<1>1. pc' = "engine" /\ ndef' = [ndef EXCEPT !.state = "Initial"]
  BY DEF Begin, BeginRead, BeginWrite, Reset
<1>2. "Initial" \in States
  BY DEF States
<1>3. ndef'.state = "Initial"
  BY <1>1, <1>2, StateStep
<1> QED
  BY <1>1, <1>3 DEF GoesOn, Busy

(* A step of the engine comes from an undisturbed read.                      *)
LEMMA EngineGoes ==
  ASSUME TagInv, TagInv', OpenInv, OpenInv', MifareInv, MifareInv', Room, ReadInv, Engine, Undisturbed'
  PROVE  GoesOn'
<1>1. CASE Undisturbed
  <2>1. GoesOn
    BY <1>1 DEF ReadInv
  <2>2. ~GivesUp
    <3> SUFFICES ASSUME GivesUp PROVE FALSE
      OBVIOUS
    <3>1. /\ pc = "engine" /\ ndef.state # "Initial" /\ ~rsp.ok
          /\ ndef.state # "Selecting_NDEF_Application20"
      BY DEF GivesUp
    <3> QED
      BY <2>1, <3>1 DEF GoesOn, Excused
  <2>3. T1T => GoesOn'
    BY <1>1, <2>1, T1TGoes
  <2>4. T2T => GoesOn'
    BY <1>1, <2>1, T2TGoes
  <2>5. T3T => GoesOn'
    BY <1>1, <2>1, T3TGoes
  <2>6. T4T => GoesOn'
    BY <1>1, <2>1, T4TGoes
  <2>7. T5T => GoesOn'
    BY <1>1, <2>1, T5TGoes
  <2>8. Mifare => GoesOn'
    BY <1>1, <2>1, MifareGoes
  <2> QED
    BY <2>2, <2>3, <2>4, <2>5, <2>6, <2>7, <2>8 DEF Engine
<1>2. CASE ~Undisturbed
  <2>1. op' = "read"
    BY DEF Undisturbed
  <2>2. UNCHANGED <<op, ops, type, mem, cap, intact, misled>>
    BY EngineQuiet DEF EngineStep, tagVars
  <2>3. UNCHANGED <<content, whole>>
    BY <2>1, <2>2, EngineQuiet DEF Quiet
  <2>4. Begins' = Begins /\ Beyond' = Beyond /\ (Exact' <=> Exact)
    BY <2>2, <2>3, SameFacts
  <2> QED
    BY <1>2, <2>2, <2>4 DEF Undisturbed
<1> QED
  BY <1>1, <1>2

-----------------------------------------------------------------------------
(* The file of a T4T, and the data area of a T3T, hold their message         *)

(* At first.                                                                 *)
LEMMA FirstRoom ==
  ASSUME Init
  PROVE  Room
<1>1. /\ type \in Sized => content = mem /\ Len(mem) < cap
      /\ pc = "idle" /\ op = "read" /\ cap \in Caps
  BY DEF Init
<1>2. content \in Bytes
  BY <1>1, InitTag DEF TagInv, TypeOK
<1>3. Len(content) \in Nat /\ cap \in Nat
  BY <1>1, <1>2, RwAssumption DEF Bytes
<1>4. type \in Sized => Len(content) < cap /\ Len(content) <= cap
  BY <1>1, <1>3
<1> QED
  BY <1>1, <1>4 DEF Room, Sized, Busy

(* A step that leaves the message on the tag alone, and is not about to      *)
(* confirm another one.                                                      *)
LEMMA RoomKeeps ==
  ASSUME Room, EngineStep, Quiet,
         \/ pc' \in {"idle", "lost"}
         \/ ndef'.state \notin {"Writing_NDEFsize", "Write_NDEFcomplete"}
  PROVE  Room'
<1>1. type' = type /\ op' = op /\ cap' = cap /\ content' = content /\ whole' = whole
  BY DEF EngineStep, tagVars, Quiet
<1> QED
  BY <1>1 DEF Room, Busy

(* A new operation.                                                          *)
LEMMA BeginRoom ==
  ASSUME TagInv, Room, Begin
  PROVE  Room'
<1>1. /\ pc' = "engine" /\ ndef' = [ndef EXCEPT !.state = "Initial"]
      /\ UNCHANGED <<type, cap, content, whole>> /\ (type = "T3T" => op' = "read")
  BY DEF Begin, BeginRead, BeginWrite, Reset
<1>2. "Initial" \in States
  BY DEF States
<1>3. ndef'.state = "Initial"
  BY <1>1, <1>2, StateStep
<1> QED
  BY <1>1, <1>3 DEF Room, Busy

(* A good answer to the last part of a message says that it lies in the file. *)
LEMMA TagRoom ==
  ASSUME TagInv, MifareInv, T4TInv, Room, Tag, TagFails => ~rsp'.ok
  PROVE  Room'
<1>1. /\ pc = "tag" /\ pc' = "engine"
      /\ UNCHANGED <<op, ndef, message, cmd, type, cap, content>>
      /\ rsp'.ok => Answer # NoAnswer
      /\ Executed \/ UNCHANGED <<mem, nlen, sel, auth, whole>>
  <2>1. CASE TagAnswers
    BY <2>1 DEF TagAnswers, hostVars, Useless
  <2>2. CASE TagFails
    BY <2>2 DEF TagFails, hostVars
  <2> QED
    BY <2>1, <2>2 DEF Tag
<1>2. whole' => whole
  BY <1>1 DEF Executed
<1>3. ndef.state # "Initial"
  BY <1>1 DEF TagInv, HeardFits
<1>4. ASSUME type = "T4T", rsp'.ok, ndef.state = "Writing_NDEFsize" PROVE Size <= cap
  <2>1. cmd.what = "write" /\ cmd.at + cmd.n = Size + 2
    BY <1>1, <1>4 DEF Room
  <2>2. cmd.at + cmd.n <= cap + 2
    BY <1>1, <1>4, <2>1 DEF Answer, T4TAnswer
  <2>3. Size + 2 <= cap + 2
    BY <2>1, <2>2
  <2>4. Size \in Nat /\ cap \in Nat
    BY DEF TagInv, TypeOK, DataCaps, Size, Bytes
  <2> QED
    BY <2>3, <2>4
<1>5. Size' = Size
  BY <1>1 DEF Size
<1>6. ASSUME type = "T4T", ndef.state = "Write_NDEFcomplete" PROVE Size <= cap
  BY <1>1, <1>6 DEF Room, Busy
<1> QED
  BY <1>1, <1>2, <1>4, <1>5, <1>6 DEF Room

(* The engine for T4T.                                                       *)
LEMMA FileRoom ==
  ASSUME TagInv, T4TInv, Room, T4T
  PROVE  Room'
<1>0. /\ EngineStep /\ type = "T4T" /\ type' = "T4T" /\ message' = message /\ cap' = cap
      /\ Size' = Size /\ pc = "engine"
  <2>1. Engine
    BY DEF Engine
  <2> QED
    BY <2>1, EngineQuiet, EngineTypes DEF EngineStep, tagVars, Size
<1>1. /\ {"Selecting_NDEF_Application20", "Selecting_NDEF_Application10", "Selecting_CC",
          "Reading_CC", "Selecting_NDEF", "Reading_NDEF_Size"}
         \subseteq States \ {"Writing_NDEFsize", "Write_NDEFcomplete"}
      /\ ndef = [state |-> ndef.state, blk |-> ndef.blk, ptr |-> ndef.ptr, size |-> ndef.size]
      /\ Size \in Nat /\ cap \in Nat /\ ndef.ptr \in Nat /\ message \in Bytes
  <2>1. ndef \in Ndefs /\ cap \in Nat /\ message \in Bytes
    BY DEF TagInv, TypeOK, Ndefs, DataCaps
  <2>2. ndef = [state |-> ndef.state, blk |-> ndef.blk, ptr |-> ndef.ptr, size |-> ndef.size]
        /\ ndef.ptr \in Nat
    BY <2>1, NdefFacts
  <2> QED
    BY <2>1, <2>2 DEF States, Size, Bytes
<1>2. ASSUME NEW s \in States \ {"Writing_NDEFsize", "Write_NDEFcomplete"}, Goto(s), Quiet
      PROVE  Room'
  <2>1. ndef'.state = s
    BY <1>2, StateStep DEF Goto
  <2> QED
    BY <1>0, <1>2, <2>1, RoomKeeps
<1>3. ASSUME NEW o \in {"read", "write"},
             \/ SelectApp20(o) \/ App20Answered(o) \/ App10Selected(o) \/ CCSelected(o)
             \/ CCRead(o) \/ NdefSelected
      PROVE  Room'
  <2>1. Quiet
    BY <1>3, StepsQuiet, Zenon DEF SelectApp20, App20Answered, App10Selected, CCSelected, CCRead,
                                   NdefSelected
  <2>2. \E s \in {"Selecting_NDEF_Application20", "Selecting_NDEF_Application10", "Selecting_CC",
                  "Reading_CC", "Selecting_NDEF", "Reading_NDEF_Size"} : Goto(s)
    BY <1>3 DEF SelectApp20, App20Answered, App10Selected, CCSelected, CCRead, NdefSelected
  <2> QED
    BY <1>1, <1>2, <2>1, <2>2
<1>4. CASE SizeRead
  <2>1. Quiet
    BY <1>4, StepsQuiet, Zenon DEF SizeRead
  <2>2. \/ pc' = "idle"
        \/ \E n : ndef' = [ndef EXCEPT !.state = "Reading_NDEF", !.ptr = 0, !.size = n]
    BY <1>4 DEF SizeRead, Refuse, Ends
  <2>3. pc' = "idle" \/ ndef'.state = "Reading_NDEF"
    <3>1. ASSUME NEW n, ndef' = [ndef EXCEPT !.state = "Reading_NDEF", !.ptr = 0, !.size = n]
          PROVE  ndef'.state = "Reading_NDEF"
      <4>1. ndef' = [state |-> "Reading_NDEF", blk |-> ndef.blk, ptr |-> 0, size |-> n]
        BY <1>1, <3>1
      <4> QED
        BY <4>1
    <3> QED
      BY <2>2, <3>1
  <2> QED
    BY <1>0, <2>1, <2>3, RoomKeeps
<1>5. CASE ReadingNdef
  <2>1. Quiet
    BY <1>5, InFacts, EngineQuiet DEF Engine, ReadingNdef
  <2>2. /\ ndef.state = "Reading_NDEF"
        /\ ndef' = [ndef EXCEPT !.ptr = ndef.ptr + Len(rsp.data)]
    BY <1>5, InFacts DEF ReadingNdef
  <2>3. ndef'.state = "Reading_NDEF"
    <3>1. ndef' = [state |-> ndef.state, blk |-> ndef.blk, ptr |-> ndef.ptr + Len(rsp.data),
                   size |-> ndef.size]
      BY <1>1, <2>2
    <3> QED
      BY <2>2, <3>1
  <2> QED
    BY <1>0, <2>1, <2>3, RoomKeeps
<1>6. ASSUME NEW s, NEW p, NEW c, WriteNext(s, ndef.blk, p, c)
      PROVE  /\ ndef'.state = s /\ cmd' = c /\ pc' = "tag" /\ Quiet
             /\ s # "Writing_NDEFsize" /\ s # "Write_NDEFcomplete" => Room'
  <2>1. ndef' = [ndef EXCEPT !.state = s, !.blk = ndef.blk, !.ptr = p] /\ cmd' = c /\ pc' = "tag"
    BY <1>6 DEF WriteNext, Send
  <2>2. ndef' = [state |-> s, blk |-> ndef.blk, ptr |-> p, size |-> ndef.size]
    BY <1>1, <2>1
  <2>3. ndef'.state = s
    BY <2>2
  <2>4. Quiet
    BY <1>6, StepsQuiet
  <2> QED
    BY <1>0, <2>1, <2>3, <2>4, RoomKeeps
<1>7. CASE ClearSize
  <2>1. WriteNext("Writing_NDEF", ndef.blk, 0, Write(0, SizeOf(0)))
    BY <1>7 DEF ClearSize
  <2> QED
    BY <1>6, <2>1
<1>8. CASE WritingNdef
  <2>1. ndef.state = "Writing_NDEF" /\ rsp.ok
    BY <1>8, InFacts DEF WritingNdef
  <2>2. ndef.ptr <= Size
    BY <1>0, <2>1 DEF T4TInv, Confirmed
  <2> DEFINE n == Size - ndef.ptr
  <2>3. CASE n < WriteSz
    <3>1. WriteNext("Writing_NDEFsize", ndef.blk, ndef.ptr, Write(ndef.ptr + 2, Chunk(n)))
      BY <1>8, <2>3 DEF WritingNdef
    <3>2. /\ ndef'.state = "Writing_NDEFsize" /\ pc' = "tag" /\ Quiet
          /\ cmd' = Write(ndef.ptr + 2, Chunk(n))
      BY <1>6, <3>1
    <3>3. n \in Nat /\ ndef.ptr + 2 + n = Size + 2
      BY <1>1, <2>2
    <3> HIDE DEF n
    <3>4. Len(Chunk(n)) = n
      BY <1>1, <3>3, CellsFacts DEF Chunk
    <3>5. cmd'.what = "write" /\ cmd'.at = ndef.ptr + 2 /\ cmd'.n = n
      BY <3>2, <3>4 DEF Write, Cmd
    <3>6. cmd'.at + cmd'.n = Size + 2
      BY <3>3, <3>5
    <3> QED
      BY <1>0, <3>2, <3>5, <3>6 DEF Room, Quiet
  <2>4. CASE ~(n < WriteSz)
    <3>1. WriteNext("Writing_NDEF", ndef.blk, ndef.ptr + WriteSz,
                    Write(ndef.ptr + 2, Chunk(WriteSz)))
      BY <1>8, <2>4 DEF WritingNdef
    <3> QED
      BY <1>6, <3>1
  <2> QED
    BY <2>3, <2>4
<1>9. CASE WritingSize
  <2>1. ndef.state = "Writing_NDEFsize" /\ rsp.ok
        /\ WriteNext("Write_NDEFcomplete", ndef.blk, ndef.ptr, Write(0, SizeOf(Size)))
    BY <1>9, InFacts DEF WritingSize
  <2>2. ndef'.state = "Write_NDEFcomplete" /\ pc' = "tag" /\ Quiet
    BY <1>6, <2>1
  <2>3. Size <= cap
    BY <1>0, <2>1 DEF Room
  <2> QED
    BY <1>0, <2>2, <2>3 DEF Room, Quiet
<1>10. CASE WriteComplete
  <2>1. ndef.state = "Write_NDEFcomplete" /\ Written
    BY <1>10, InFacts DEF WriteComplete
  <2>2. Size <= cap
    BY <1>0, <2>1 DEF Room, Busy
  <2>3. pc' = "idle" /\ (Quiet \/ content' = message)
    BY <2>1 DEF Written, Pushed, Ends, Quiet
  <2>4. CASE Quiet
    BY <1>0, <2>3, <2>4, RoomKeeps
  <2>5. CASE content' = message
    BY <1>0, <2>2, <2>3, <2>5 DEF Room, Busy, Size
  <2> QED
    BY <2>3, <2>4, <2>5
<1> QED
  BY <1>3, <1>4, <1>5, <1>7, <1>8, <1>9, <1>10 DEF T4T

(* Every step.                                                               *)
LEMMA RoomStep ==
  ASSUME TagInv, MifareInv, T4TInv, Room, [Next]_vars, TagFails => ~rsp'.ok
  PROVE  Room'
<1>1. CASE Begin
  BY <1>1, BeginRoom
<1>2. CASE Tag
  BY <1>2, TagRoom
<1>3. CASE T4T
  BY <1>3, FileRoom
<1>4. CASE T3T
  <2>1. op = "read" /\ type = "T3T"
    BY <1>4, EngineTypes DEF Room
  <2>2. EngineStep /\ Quiet
    BY <1>4, <2>1, EngineQuiet DEF Engine
  <2>3. type' = type /\ op' = op /\ cap' = cap /\ content' = content
    BY <2>2 DEF EngineStep, tagVars, Quiet
  <2> QED
    BY <2>1, <2>3 DEF Room
<1>5. CASE T1T \/ T2T \/ T5T \/ Mifare
  <2>1. type' # "T3T" /\ type' # "T4T"
    BY <1>5, EngineTypes
  <2> QED
    BY <2>1 DEF Room
<1>6. CASE GivesUp
  <2>1. EngineStep /\ Quiet /\ pc' = "idle"
    BY <1>6 DEF GivesUp, EngineStep, hostVars, tagVars, Quiet
  <2> QED
    BY <2>1, RoomKeeps
<1>7. CASE UNCHANGED vars
  BY <1>7 DEF vars, hostVars, tagVars, Room, Busy, Size
<1> QED
  BY <1>1, <1>2, <1>3, <1>4, <1>5, <1>6, <1>7 DEF Next, Engine

-----------------------------------------------------------------------------
(* A readable message is reported                                            *)

(* Every step.                                                               *)
LEMMA ReadStep ==
  ASSUME TagInv, TagInv', OpenInv, OpenInv', MifareInv, MifareInv', T4TInv, Room, ReadInv,
         [Next]_vars
  PROVE  ReadInv'
<1> SUFFICES ASSUME Undisturbed' PROVE GoesOn'
  BY DEF ReadInv
<1>1. CASE Begin
  BY <1>1, BeginGoes
<1>2. CASE Tag
  BY <1>2, TagGoes
<1>3. CASE Engine
  BY <1>3, EngineGoes
<1>4. CASE UNCHANGED vars
  <2>1. UNCHANGED <<pc, op, ndef, heard, cmd, rsp, type, v1, cap, mem, nlen, auth>>
        /\ UNCHANGED <<ops, content, whole, intact, misled>>
    BY <1>4 DEF vars, hostVars, tagVars
  <2>2. Begins' = Begins /\ Beyond' = Beyond /\ (Exact' <=> Exact) /\ End' = End
    BY <2>1, SameFacts
  <2>3. Undisturbed
    BY <2>1, <2>2 DEF Undisturbed
  <2>4. pc = "tag" /\ Answer # NoAnswer => Answer' = Answer
    <3>1. pc = "tag" => cmd.what # "write_data"
      BY <2>3 DEF Undisturbed, TagInv, HeardFits, Busy, ReadFits
    <3> QED
      BY <2>1, <3>1, AnswerSame
  <2>5. /\ Reported' <=> Reported
        /\ Excused' <=> Excused
        /\ InParts' <=> InParts
        /\ Busy' <=> Busy
        /\ Place' = Place
    BY <2>1 DEF Reported, Excused, InParts, Busy, Place, Offset
  <2>6. GoesOn
    BY <2>3 DEF ReadInv
  <2> QED
    BY <2>1, <2>2, <2>4, <2>5, <2>6 DEF GoesOn, NoAnswer
<1> QED
  BY <1>1, <1>2, <1>3, <1>4 DEF Next

(* At every moment of every operation.                                       *)
LEMMA ReadAlways == Spec => [](misled \/ (Room /\ ReadInv))
<1>1. Spec => [](misled \/ (TagInv /\ OpenInv)) /\ []MifareInv /\ [](misled \/ T4TInv)
  BY TagAlways, SectorsAlways, FileAlways
<1>2. Init => Room /\ ReadInv
  <2>1. Init => Room
    BY FirstRoom
  <2>2. Init => ReadInv
    BY DEF Init, ReadInv, Undisturbed
  <2> QED
    BY <2>1, <2>2
<1>3. ASSUME misled \/ (TagInv /\ OpenInv), (misled \/ (TagInv /\ OpenInv))',
             MifareInv, MifareInv', misled \/ T4TInv, misled \/ (Room /\ ReadInv), [Next]_vars
      PROVE  (misled \/ (Room /\ ReadInv))'
  <2>1. SUFFICES ASSUME ~misled' PROVE Room' /\ ReadInv'
    OBVIOUS
  <2>2. ~misled /\ (TagFails => ~rsp'.ok)
    BY <1>3, <2>1, MisledStays
  <2>3. TagInv /\ OpenInv /\ TagInv' /\ OpenInv' /\ T4TInv /\ Room /\ ReadInv
    BY <1>3, <2>1, <2>2
  <2>4. Room'
    BY <1>3, <2>2, <2>3, RoomStep
  <2>5. ReadInv'
    BY <1>3, <2>3, ReadStep
  <2> QED
    BY <2>4, <2>5
<1> QED
  BY <1>1, <1>2, <1>3, PTL DEF Spec

(* A read of a tag that does not fail ends with a report: of the message, or *)
(* of its refusal if it is empty or too long.  Nothing is left unreported    *)
(* for want of an answer, unless the message ends with the data area, or a   *)
(* packet of an earlier operation has passed for an answer that it is not.   *)
THEOREM ReportedCorrect == Spec => []ReadableIsReported
<1>1. ASSUME misled \/ (Room /\ ReadInv) PROVE ReadableIsReported
  <2>1. SUFFICES ASSUME ReadDone, type \notin Sized => Beyond < cap, ~misled PROVE Reported
    BY DEF ReadableIsReported
  <2>2. Undisturbed /\ pc = "idle"
    BY <2>1 DEF ReadDone, Undisturbed, Exact
  <2> QED
    BY <1>1, <2>1, <2>2 DEF ReadInv, GoesOn
<1> QED
  BY <1>1, ReadAlways, PTL

-----------------------------------------------------------------------------
(* Every operation ends.  While a message is read or written, the bytes that *)
(* are left become fewer with every part, and from one part to the next the  *)
(* engine only moves forward.                                                *)

(* The message is being written.                                             *)
Writes ==
  /\ op = "write"
  /\ ndef.state \in {"Writing_Data", "Writing_Data1", "Writing_Data2", "Writing_NDEF",
                     "Writing_NDEFsize", "Write_NDEFcomplete"}

Above(a, b) == IF b < a THEN a - b ELSE 0

(* The bytes left: of the buffer, of the message, or not yet known.          *)
BytesLeft ==
  IF InParts THEN Above(MaxFile, ndef.ptr)
  ELSE IF Writes THEN Above(Size, ndef.ptr)
  ELSE MaxFile + 1

(* The states of the engines in an order that all of them keep to.           *)
Way ==
  <<"Initial", "Getting_ID", "Getting_AttributeInfo", "Authenticated0", "Reading_GPB",
    "Selecting_NDEF_Application20", "Selecting_NDEF_Application10", "Selecting_CC", "Reading_CC",
    "Selecting_NDEF", "Reading_NDEF_Size", "Reading_CardContent", "Authenticated",
    "Reading_FirstBlk", "Reading_Data", "Reading_NDEF", "Writing_Data", "Writing_Data1",
    "Writing_Data2", "Writing_NDEF", "Writing_NDEFsize", "Write_NDEFcomplete">>

(* A later state, or the same one with a sector trailer left behind.         *)
Later ==
  \/ \E i, j \in DOMAIN Way : i < j /\ ndef.state = Way[i] /\ ndef'.state = Way[j]
  \/ ndef'.state = ndef.state /\ Trailer(ndef.blk) /\ ~Trailer(ndef'.blk)

Nearer == BytesLeft' < BytesLeft \/ (BytesLeft' = BytesLeft /\ Later)

(* What a step of an engine does, and one of the tag.                        *)
Advances == pc' \in {"idle", "lost"} \/ (pc' = "tag" /\ Nearer)
Returns  == pc' = "engine" /\ UNCHANGED <<op, message, type, ndef>>

Approaching == (Engine => Advances) /\ (Tag => Returns)

Bounded == BytesLeft \in Nat /\ BytesLeft <= MaxFile + 1

LEMMA LeftBounded == TypeOK => Bounded
<1> SUFFICES ASSUME TypeOK PROVE Bounded
  OBVIOUS
<1>1. /\ ndef.ptr \in Nat /\ MaxFile \in Nat /\ Size \in Nat /\ Size <= MaxFile
  BY RwAssumption DEF TypeOK, Size, Bytes
<1> QED
  BY <1>1 DEF Bounded, BytesLeft, Above

LEMMA WayIs ==
  /\ DOMAIN Way = 1 .. 22
  /\ Way[1] = "Initial" /\ Way[2] = "Getting_ID" /\ Way[3] = "Getting_AttributeInfo"
  /\ Way[4] = "Authenticated0" /\ Way[5] = "Reading_GPB"
  /\ Way[6] = "Selecting_NDEF_Application20" /\ Way[7] = "Selecting_NDEF_Application10"
  /\ Way[8] = "Selecting_CC" /\ Way[9] = "Reading_CC" /\ Way[10] = "Selecting_NDEF"
  /\ Way[11] = "Reading_NDEF_Size" /\ Way[12] = "Reading_CardContent"
  /\ Way[13] = "Authenticated" /\ Way[14] = "Reading_FirstBlk" /\ Way[15] = "Reading_Data"
  /\ Way[16] = "Reading_NDEF" /\ Way[17] = "Writing_Data" /\ Way[18] = "Writing_Data1"
  /\ Way[19] = "Writing_Data2" /\ Way[20] = "Writing_NDEF" /\ Way[21] = "Writing_NDEFsize"
  /\ Way[22] = "Write_NDEFcomplete"
  BY DEF Way

LEMMA LaterStep ==
  ASSUME NEW i \in 1 .. 22, NEW j \in 1 .. 22, i < j, ndef.state = Way[i], ndef'.state = Way[j]
  PROVE  Later
  BY WayIs DEF Later

(* On the way to the message.                                                *)
LEMMA WayNearer ==
  ASSUME Bounded', ~InParts, ~Writes, Later
  PROVE  Nearer
<1>1. BytesLeft = MaxFile + 1 /\ MaxFile \in Nat
  BY RwAssumption DEF BytesLeft
<1>2. BytesLeft' \in Nat /\ BytesLeft' <= MaxFile + 1
  BY DEF Bounded
<1> HIDE DEF BytesLeft
<1> QED
  BY <1>1, <1>2 DEF Nearer

(* A part of the message has been read, or written.                          *)
LEMMA PartNearer ==
  ASSUME ndef.ptr \in Nat, ndef'.ptr \in Nat, ndef.ptr < ndef'.ptr,
         \/ InParts /\ InParts' /\ ndef.ptr < MaxFile
         \/ Writes /\ Writes' /\ Size' = Size /\ Size \in Nat /\ ndef.ptr < Size
  PROVE  Nearer
<1>1. MaxFile \in Nat
  BY RwAssumption
<1>2. CASE InParts /\ InParts' /\ ndef.ptr < MaxFile
  <2>1. BytesLeft = MaxFile - ndef.ptr
    BY <1>2 DEF BytesLeft, Above
  <2>2. BytesLeft' = Above(MaxFile, ndef'.ptr)
    BY <1>2 DEF BytesLeft, Above
  <2> QED
    BY <1>1, <1>2, <2>1, <2>2 DEF Above, Nearer
<1>3. CASE Writes /\ Writes' /\ Size' = Size /\ Size \in Nat /\ ndef.ptr < Size
  <2>1. ~InParts /\ ~InParts'
    BY <1>3 DEF Writes, InParts
  <2>2. BytesLeft = Size - ndef.ptr
    BY <1>3, <2>1 DEF BytesLeft, Above
  <2>3. BytesLeft' = Above(Size, ndef'.ptr)
    BY <1>3, <2>1 DEF BytesLeft, Above
  <2> QED
    BY <1>3, <2>2, <2>3 DEF Above, Nearer
<1> QED
  BY <1>2, <1>3

(* Between two parts.                                                        *)
LEMMA BetweenNearer ==
  ASSUME ndef'.ptr = ndef.ptr, Later,
         \/ InParts /\ InParts'
         \/ Writes /\ Writes' /\ Size' = Size
  PROVE  Nearer
<1>1. CASE InParts /\ InParts'
  BY <1>1 DEF Nearer, BytesLeft, Above
<1>2. CASE Writes /\ Writes' /\ Size' = Size
  <2>1. ~InParts /\ ~InParts'
    BY <1>2 DEF Writes, InParts
  <2> QED
    BY <1>2, <2>1 DEF Nearer, BytesLeft, Above
<1> QED
  BY <1>1, <1>2

-----------------------------------------------------------------------------
(* What the steps of the engines have in common *)

(* A command on the way to the message.                                      *)
LEMMA AskAdvances ==
  ASSUME TagInv, Bounded', ~InParts, ~Writes,
         NEW i \in 1 .. 22, NEW j \in 1 .. 22, i < j, ndef.state = Way[i], Way[j] \in States,
         Goto(Way[j]), NEW c, Send(c)
  PROVE  Advances
<1>1. ndef'.state = Way[j] /\ pc' = "tag"
  BY StateStep DEF Goto, Send
<1> QED
  BY <1>1, LaterStep, WayNearer DEF Advances

(* The first part of the message.                                            *)
LEMMA FirstOutcome ==
  \A d, p, long, next, s :
    FirstPart(d, p, long, next, s) => pc' = "idle" \/ (pc' = "tag" /\ ndef'.state = s)
<1> SUFFICES ASSUME NEW d, NEW p, NEW long, NEW next, NEW s, FirstPart(d, p, long, next, s)
             PROVE  pc' = "idle" \/ (pc' = "tag" /\ ndef'.state = s)
  OBVIOUS
<1> DEFINE three == long /\ d[p + 1] = 255
           n     == IF three THEN 256 * d[p + 2] + d[p + 3] ELSE d[p + 1]
           rest  == SubSeq(d, IF three THEN p + 4 ELSE p + 2, Len(d))
<1>1. \/ Refuse
      \/ Deliver(buffer')
      \/ ndef' = [state |-> s, blk |-> next, ptr |-> Len(rest), size |-> n] /\ Send(Read(next))
  BY ZenonT(30) DEF FirstPart
<1> HIDE DEF n, rest
<1>2. ASSUME ndef' = [state |-> s, blk |-> next, ptr |-> Len(rest), size |-> n]
      PROVE  ndef'.state = s
  BY <1>2
<1> QED
  BY <1>1, <1>2 DEF Refuse, Deliver, Ends, Send

LEMMA FirstAdvances ==
  ASSUME Bounded', ~InParts, ~Writes,
         NEW i \in 1 .. 22, NEW j \in 1 .. 22, i < j, ndef.state = Way[i],
         Quits \/ \E d, p, long, next : FirstPart(d, p, long, next, Way[j])
  PROVE  Advances
<1>1. pc' = "idle" \/ (pc' = "tag" /\ ndef'.state = Way[j])
  BY FirstOutcome, Zenon DEF Quits, Ends
<1> QED
  BY <1>1, LaterStep, WayNearer DEF Advances

(* A further part.                                                           *)
LEMMA PartAdvances ==
  ASSUME TagInv, EngineStep, InParts, type # "T4T", ndef.state # "Authenticated", rsp.ok,
         NEW step, LastPart(rsp.data) \/ (NextPart(rsp.data, step) /\ Remaining > 0)
  PROVE  Advances
<1>0. pc = "engine" /\ op' = op /\ type' = type
  BY DEF EngineStep, tagVars
<1>1. CASE LastPart(rsp.data)
  BY <1>1 DEF LastPart, Deliver, Ends, Advances
<1>2. CASE NextPart(rsp.data, step) /\ Remaining > 0
  <2>1. /\ ndef \in Ndefs /\ ndef.ptr \in Nat /\ ndef.size \in Nat /\ MaxFile \in Nat
        /\ ndef.size <= MaxFile
    BY <1>0, PartsOf DEF PartsFit
  <2>2. ndef = [state |-> ndef.state, blk |-> ndef.blk, ptr |-> ndef.ptr, size |-> ndef.size]
    BY <2>1, NdefFacts
  <2>3. /\ ndef' = [ndef EXCEPT !.ptr = ndef.ptr + Len(rsp.data), !.blk = ndef.blk + step]
        /\ pc' = "tag"
    BY <1>2, <2>2 DEF NextPart, Send
  <2>4. ndef' = [state |-> ndef.state, blk |-> ndef.blk + step,
                 ptr |-> ndef.ptr + Len(rsp.data), size |-> ndef.size]
    BY <2>2, <2>3
  <2>5. ndef'.state = ndef.state /\ ndef'.ptr = ndef.ptr + Len(rsp.data)
    BY <2>4
  <2>6. Len(rsp.data) = Width /\ Width \in Nat \ {0}
    BY <1>0, PartRead DEF Width
  <2>7. InParts'
    BY <1>0, <2>5 DEF InParts
  <2>8. ndef.ptr < MaxFile
    BY <1>2, <2>1 DEF Remaining
  <2>9. ndef'.ptr \in Nat /\ ndef.ptr < ndef'.ptr
    BY <2>1, <2>5, <2>6
  <2> QED
    BY <2>1, <2>3, <2>7, <2>8, <2>9, PartNearer DEF Advances
<1> QED
  BY <1>1, <1>2

(* What the write engines do next.                                           *)
LEMMA WriteAdvances ==
  ASSUME TagInv, EngineStep, Bounded', op = "write",
         NEW i \in 1 .. 22, NEW j \in 17 .. 22, ndef.state = Way[i],
         NEW b \in Nat, NEW p \in Nat, NEW c, WriteNext(Way[j], b, p, c),
         \/ i < 17
         \/ i >= 17 /\ ndef.ptr < p /\ ndef.ptr < Size
         \/ i >= 17 /\ i < j /\ p = ndef.ptr
         \/ i = j /\ p = ndef.ptr /\ Trailer(ndef.blk) /\ ~Trailer(b)
  PROVE  Advances
<1>1. Way[j] \in States /\ Way[j] \in {"Writing_Data", "Writing_Data1", "Writing_Data2",
                     "Writing_NDEF", "Writing_NDEFsize", "Write_NDEFcomplete"}
  <2>1. j = 17 \/ j = 18 \/ j = 19 \/ j = 20 \/ j = 21 \/ j = 22
    OBVIOUS
  <2> QED
    BY <2>1, WayIs DEF States
<1>2. /\ ndef'.state = Way[j] /\ ndef'.blk = b /\ ndef'.ptr = p /\ pc' = "tag"
      /\ op' = op /\ message' = message
  BY <1>1, WriteStep
<1>3. Writes' /\ Size' = Size /\ ndef.ptr \in Nat /\ Size \in Nat
  BY <1>1, <1>2 DEF Writes, Size, TagInv, TypeOK, Bytes
<1>4. i >= 17 => Writes
  <2>1. i >= 17 => i = 17 \/ i = 18 \/ i = 19 \/ i = 20 \/ i = 21 \/ i = 22
    OBVIOUS
  <2> QED
    BY <2>1, WayIs DEF Writes
<1>5. i < 17 => ~Writes /\ ~InParts
  <2>1. \A k \in 1 .. 16 : Way[k] \notin {"Writing_Data", "Writing_Data1", "Writing_Data2",
                     "Writing_NDEF", "Writing_NDEFsize", "Write_NDEFcomplete"}
    BY DEF Way
  <2> QED
    BY <2>1 DEF Writes, InParts
<1>6. CASE i < 17
  <2>1. Later
    BY <1>2, <1>6, LaterStep
  <2> QED
    BY <1>2, <1>5, <1>6, <2>1, WayNearer DEF Advances
<1>7. CASE i >= 17 /\ ndef.ptr < p /\ ndef.ptr < Size
  BY <1>2, <1>3, <1>4, <1>7, PartNearer DEF Advances
<1>8. CASE i >= 17 /\ i < j /\ p = ndef.ptr
  <2>1. Later
    BY <1>2, <1>8, LaterStep
  <2> QED
    BY <1>2, <1>3, <1>4, <1>8, <2>1, BetweenNearer DEF Advances
<1>9. CASE i = j /\ p = ndef.ptr /\ Trailer(ndef.blk) /\ ~Trailer(b)
  <2>1. Later
    BY <1>2, <1>9 DEF Later
  <2> QED
    BY <1>2, <1>3, <1>4, <1>9, <2>1, BetweenNearer DEF Advances
<1> QED
  BY <1>6, <1>7, <1>8, <1>9

(* A write that is over.                                                     *)
LEMMA OverAdvances == Written \/ Quits \/ Refuse => Advances
  BY DEF Written, Pushed, Quits, Refuse, Ends, Advances

-----------------------------------------------------------------------------
(* The engines, one step per action *)

LEMMA T1TAdvances ==
  ASSUME TagInv, Bounded', T1T
  PROVE  Advances
<1>1. CASE T1TInitial
  <2>1. ndef.state = Way[1] /\ op = "read" /\ Goto(Way[2]) /\ Way[2] \in States
    BY <1>1, WayIs DEF T1TInitial, In, States
  <2>2. ~InParts /\ ~Writes /\ Send(Cmd("rid", 0, 0, <<>>))
    BY <1>1, <2>1, WayIs DEF T1TInitial, InParts, Writes
  <2> QED
    BY <2>1, <2>2, AskAdvances
<1>2. CASE T1TGettingID
  <2>1. ndef.state = Way[2] /\ op = "read" /\ Goto(Way[12]) /\ Way[12] \in States
    BY <1>2, WayIs DEF T1TGettingID, In, States
  <2>2. ~InParts /\ ~Writes /\ Send(Cmd("rall", 0, 0, <<>>))
    BY <1>2, <2>1, WayIs DEF T1TGettingID, InParts, Writes
  <2> QED
    BY <2>1, <2>2, AskAdvances
<1>3. CASE T1TReadingCardContent
  <2>1. ndef.state = Way[12] /\ op = "read" /\ type = "T1T"
    BY <1>3, WayIs DEF T1TReadingCardContent, In
  <2>2. ~InParts /\ ~Writes
    BY <2>1, WayIs DEF InParts, Writes
  <2>3. Quits \/ \E d, p, long, next : FirstPart(d, p, long, next, "Reading_NDEF")
    BY <1>3, Zenon DEF T1TReadingCardContent
  <2> QED
    BY <2>1, <2>2, <2>3, WayIs, FirstAdvances
<1>4. CASE T1TReadingNDEF
  <2>1. /\ EngineStep /\ type = "T1T" /\ op = "read" /\ ndef.state = "Reading_NDEF" /\ rsp.ok
        /\ IF Remaining < 8 THEN LastPart(rsp.data) ELSE NextPart(rsp.data, 1)
    BY <1>4, InFacts DEF T1TReadingNDEF
  <2>2. InParts /\ Remaining \in Int
    BY <2>1 DEF InParts, Remaining, TagInv, TypeOK
  <2> QED
    BY <2>1, <2>2, PartAdvances
<1> QED
  BY <1>1, <1>2, <1>3, <1>4 DEF T1T

LEMMA T2TAdvances ==
  ASSUME TagInv, Bounded', T2T
  PROVE  Advances
<1>1. ASSUME NEW o \in {"read", "write"}, T2TInitial(o) PROVE Advances
  <2>1. ndef.state = Way[1] /\ Goto(Way[9]) /\ Way[9] \in States
    BY <1>1, WayIs DEF T2TInitial, In, States
  <2>2. ~InParts /\ ~Writes /\ Send(Cmd("cc", 3, 0, <<>>))
    BY <1>1, <2>1, WayIs DEF T2TInitial, InParts, Writes
  <2> QED
    BY <2>1, <2>2, AskAdvances
<1>2. CASE T2TReadingCC
  <2>1. ndef.state = Way[9] /\ Goto(Way[15]) /\ Way[15] \in States
    BY <1>2, WayIs DEF T2TReadingCC, In, States
  <2>2. ~InParts /\ ~Writes /\ Send(Read(4))
    BY <1>2, <2>1, WayIs DEF T2TReadingCC, InParts, Writes
  <2> QED
    BY <2>1, <2>2, AskAdvances
<1>3. CASE T2TReadingData
  <2>1. ndef.state = Way[15] /\ op = "read" /\ type = "T2T"
    BY <1>3, WayIs DEF T2TReadingData, In
  <2>2. ~InParts /\ ~Writes
    BY <2>1, WayIs DEF InParts, Writes
  <2>3. Quits \/ \E d, p, long, next : FirstPart(d, p, long, next, "Reading_NDEF")
    BY <1>3, Zenon DEF T2TReadingData
  <2> QED
    BY <2>1, <2>2, <2>3, WayIs, FirstAdvances
<1>4. CASE T2TReadingNDEF
  <2>1. /\ EngineStep /\ type = "T2T" /\ op = "read" /\ ndef.state = "Reading_NDEF" /\ rsp.ok
        /\ IF Remaining < 16 THEN LastPart(rsp.data) ELSE NextPart(rsp.data, 4)
    BY <1>4, InFacts DEF T2TReadingNDEF
  <2>2. InParts /\ Remaining \in Int
    BY <2>1 DEF InParts, Remaining, TagInv, TypeOK
  <2> QED
    BY <2>1, <2>2, PartAdvances
<1>5. CASE T2TWriteCC
  <2>1. EngineStep /\ op = "write" /\ ndef.state = Way[9]
    BY <1>5, InFacts, WayIs DEF T2TWriteCC
  <2>2. Quits \/ \E c : WriteNext(Way[17], 5, 0, c) \/ WriteNext(Way[17], 5, 2, c)
    BY <1>5, WayIs DEF T2TWriteCC
  <2> QED
    BY <2>1, <2>2, OverAdvances, WriteAdvances
<1>6. CASE T2TWritingData
  <2>1. EngineStep /\ op = "write" /\ ndef.state = Way[17]
    BY <1>6, InFacts, WayIs DEF T2TWritingData
  <2>0. ndef.blk \in Nat /\ ndef.ptr \in Nat /\ Size \in Nat
    BY NdefFacts DEF Size, TagInv, TypeOK, Bytes
  <2>2. Written \/ (~(Size <= ndef.ptr) /\ \E c : WriteNext(Way[17], ndef.blk + 1, ndef.ptr + 4, c))
    BY <1>6, WayIs DEF T2TWritingData
  <2>3. ASSUME ~(Size <= ndef.ptr), NEW c, WriteNext(Way[17], ndef.blk + 1, ndef.ptr + 4, c)
        PROVE  Advances
    <3>1. PICK b \in Nat, p \in Nat : b = ndef.blk + 1 /\ p = ndef.ptr + 4
      BY <2>0
    <3>2. WriteNext(Way[17], b, p, c) /\ ndef.ptr < p /\ ndef.ptr < Size
      BY <2>0, <2>3, <3>1
    <3> QED
      BY <2>1, <3>2, WriteAdvances
  <2> QED
    BY <2>2, <2>3, OverAdvances
<1> QED
  BY <1>1, <1>2, <1>3, <1>4, <1>5, <1>6 DEF T2T

LEMMA T3TAdvances ==
  ASSUME TagInv, Bounded', T3T
  PROVE  Advances
<1>1. CASE T3TInitial
  <2>1. ndef.state = Way[1] /\ op = "read" /\ Goto(Way[3]) /\ Way[3] \in States
    BY <1>1, WayIs DEF T3TInitial, In, States
  <2>2. ~InParts /\ ~Writes /\ Send(Cmd("attribute", 0, 0, <<>>))
    BY <1>1, <2>1, WayIs DEF T3TInitial, InParts, Writes
  <2> QED
    BY <2>1, <2>2, AskAdvances
<1>2. CASE T3TGettingAttributeInfo
  <2>1. ndef.state = Way[3] /\ op = "read"
    BY <1>2, WayIs DEF T3TGettingAttributeInfo, In
  <2>2. ~InParts /\ ~Writes
    BY <2>1, WayIs DEF InParts, Writes
  <2>3. \/ Refuse
        \/ /\ \E n : ndef' = [state |-> "Reading_CardContent", blk |-> 1, ptr |-> 0, size |-> n]
           /\ Send(Read(1))
    BY <1>2 DEF T3TGettingAttributeInfo
  <2>4. Refuse \/ (ndef'.state = Way[12] /\ pc' = "tag")
    BY <2>3, WayIs DEF Send
  <2>5. ASSUME ndef'.state = Way[12], pc' = "tag" PROVE Advances
    BY <2>1, <2>2, <2>5, LaterStep, WayNearer DEF Advances
  <2> QED
    BY <2>4, <2>5, OverAdvances
<1>3. CASE T3TReadingCardContent
  <2>1. /\ EngineStep /\ type = "T3T" /\ op = "read" /\ ndef.state = "Reading_CardContent" /\ rsp.ok
        /\ IF Remaining <= 16 THEN LastPart(rsp.data) ELSE NextPart(rsp.data, 1)
    BY <1>3, InFacts DEF T3TReadingCardContent
  <2>2. InParts /\ Remaining \in Int
    BY <2>1 DEF InParts, Remaining, TagInv, TypeOK
  <2> QED
    BY <2>1, <2>2, PartAdvances
<1> QED
  BY <1>1, <1>2, <1>3 DEF T3T

LEMMA T5TAdvances ==
  ASSUME TagInv, Bounded', T5T
  PROVE  Advances
<1>1. ASSUME NEW o \in {"read", "write"}, T5TInitial(o) PROVE Advances
  <2>1. ndef.state = Way[1] /\ Goto(Way[9]) /\ Way[9] \in States
    BY <1>1, WayIs DEF T5TInitial, In, States
  <2>2. ~InParts /\ ~Writes /\ Send(Cmd("cc", 0, 0, <<>>))
    BY <1>1, <2>1, WayIs DEF T5TInitial, InParts, Writes
  <2> QED
    BY <2>1, <2>2, AskAdvances
<1>2. CASE T5TReadingCC
  <2>1. ndef.state = Way[9] /\ Goto(Way[15]) /\ Way[15] \in States
    BY <1>2, WayIs DEF T5TReadingCC, In, States
  <2>2. ~InParts /\ ~Writes /\ Send(Read(1))
    BY <1>2, <2>1, WayIs DEF T5TReadingCC, InParts, Writes
  <2> QED
    BY <2>1, <2>2, AskAdvances
<1>3. CASE T5TReadingData
  <2>1. ndef.state = Way[15] /\ op = "read" /\ type = "T5T"
    BY <1>3, WayIs DEF T5TReadingData, In
  <2>2. ~InParts /\ ~Writes
    BY <2>1, WayIs DEF InParts, Writes
  <2>3. Quits \/ \E d, p, long, next : FirstPart(d, p, long, next, "Reading_NDEF")
    BY <1>3, Zenon DEF T5TReadingData
  <2> QED
    BY <2>1, <2>2, <2>3, WayIs, FirstAdvances
<1>4. CASE T5TReadingNDEF
  <2>1. /\ EngineStep /\ type = "T5T" /\ op = "read" /\ ndef.state = "Reading_NDEF" /\ rsp.ok
        /\ IF Remaining <= 4 THEN LastPart(rsp.data) ELSE NextPart(rsp.data, 1)
    BY <1>4, InFacts DEF T5TReadingNDEF
  <2>2. InParts /\ Remaining \in Int
    BY <2>1 DEF InParts, Remaining, TagInv, TypeOK
  <2> QED
    BY <2>1, <2>2, PartAdvances
<1>5. CASE T5TWriteCC
  <2>1. EngineStep /\ op = "write" /\ ndef.state = Way[9]
    BY <1>5, InFacts, WayIs DEF T5TWriteCC
  <2>2. Quits \/ \E c : WriteNext(Way[17], 2, 2, c)
    BY <1>5, WayIs DEF T5TWriteCC
  <2> QED
    BY <2>1, <2>2, OverAdvances, WriteAdvances
<1>6. CASE T5TWritingData
  <2>1. EngineStep /\ op = "write" /\ ndef.state = Way[17]
    BY <1>6, InFacts, WayIs DEF T5TWritingData
  <2>0. ndef.blk \in Nat /\ ndef.ptr \in Nat /\ Size \in Nat
    BY NdefFacts DEF Size, TagInv, TypeOK, Bytes
  <2>2. Written \/ (~(Size <= ndef.ptr) /\ \E c : WriteNext(Way[17], ndef.blk + 1, ndef.ptr + 4, c))
    BY <1>6, WayIs DEF T5TWritingData
  <2>3. ASSUME ~(Size <= ndef.ptr), NEW c, WriteNext(Way[17], ndef.blk + 1, ndef.ptr + 4, c)
        PROVE  Advances
    <3>1. PICK b \in Nat, p \in Nat : b = ndef.blk + 1 /\ p = ndef.ptr + 4
      BY <2>0
    <3>2. WriteNext(Way[17], b, p, c) /\ ndef.ptr < p /\ ndef.ptr < Size
      BY <2>0, <2>3, <3>1
    <3> QED
      BY <2>1, <3>2, WriteAdvances
  <2> QED
    BY <2>2, <2>3, OverAdvances
<1> QED
  BY <1>1, <1>2, <1>3, <1>4, <1>5, <1>6 DEF T5T

LEMMA T4TAdvances ==
  ASSUME TagInv, OpenInv, Bounded', T4T
  PROVE  Advances
<1>1. ASSUME NEW o \in {"read", "write"}, SelectApp20(o) PROVE Advances
  <2>1. /\ ndef.state = Way[1] /\ Goto(Way[6]) /\ Way[6] \in States /\ ~InParts /\ ~Writes
        /\ Send(Cmd("app20", 0, 0, <<>>))
    BY <1>1, WayIs DEF SelectApp20, In, States, InParts, Writes
  <2> QED
    BY <2>1, AskAdvances
<1>2. ASSUME NEW o \in {"read", "write"}, App20Answered(o) PROVE Advances
  <2>1. /\ ndef.state = Way[6] /\ Way[7] \in States /\ Way[8] \in States /\ ~InParts /\ ~Writes
        /\ \/ Goto(Way[8]) /\ Send(Cmd("cc_file", 0, 0, <<>>))
           \/ Goto(Way[7]) /\ Send(Cmd("app10", 0, 0, <<>>))
    BY <1>2, WayIs DEF App20Answered, In, States, InParts, Writes
  <2> QED
    BY <2>1, AskAdvances
<1>3. ASSUME NEW o \in {"read", "write"}, App10Selected(o) PROVE Advances
  <2>1. /\ ndef.state = Way[7] /\ Goto(Way[8]) /\ Way[8] \in States /\ ~InParts /\ ~Writes
        /\ Send(Cmd("cc_file", 0, 0, <<>>))
    BY <1>3, WayIs DEF App10Selected, In, States, InParts, Writes
  <2> QED
    BY <2>1, AskAdvances
<1>4. ASSUME NEW o \in {"read", "write"}, CCSelected(o) PROVE Advances
  <2>1. /\ ndef.state = Way[8] /\ Goto(Way[9]) /\ Way[9] \in States /\ ~InParts /\ ~Writes
        /\ Send(Cmd("cc", 0, 15, <<>>))
    BY <1>4, WayIs DEF CCSelected, In, States, InParts, Writes
  <2> QED
    BY <2>1, AskAdvances
<1>5. ASSUME NEW o \in {"read", "write"}, CCRead(o) PROVE Advances
  <2>1. /\ ndef.state = Way[9] /\ Goto(Way[10]) /\ Way[10] \in States /\ ~InParts /\ ~Writes
        /\ Send(Cmd("ndef_file", 0, 0, <<>>))
    BY <1>5, WayIs DEF CCRead, In, States, InParts, Writes
  <2> QED
    BY <2>1, AskAdvances
<1>6. CASE NdefSelected
  <2>1. /\ ndef.state = Way[10] /\ Goto(Way[11]) /\ Way[11] \in States /\ ~InParts /\ ~Writes
        /\ Send(Cmd("read", 0, 2, <<>>))
    BY <1>6, WayIs DEF NdefSelected, In, States, InParts, Writes
  <2> QED
    BY <2>1, AskAdvances
<1>7. CASE SizeRead
  <2> DEFINE n == FirstWord(rsp.data)
  <2>1. ndef.state = Way[11] /\ ~InParts /\ ~Writes
    BY <1>7, WayIs DEF SizeRead, In, InParts, Writes
  <2>2. \/ Refuse
        \/ /\ ndef' = [ndef EXCEPT !.state = "Reading_NDEF", !.ptr = 0, !.size = n]
           /\ Send(ReadBinary(n, 0))
    BY <1>7, Zenon DEF SizeRead
  <2> HIDE DEF n
  <2>3. ndef = [state |-> ndef.state, blk |-> ndef.blk, ptr |-> ndef.ptr, size |-> ndef.size]
    BY NdefFacts DEF TagInv, TypeOK, Ndefs
  <2>4. Refuse \/ (ndef'.state = Way[16] /\ pc' = "tag")
    BY <2>2, <2>3, WayIs DEF Send
  <2>5. ASSUME ndef'.state = Way[16], pc' = "tag" PROVE Advances
    BY <2>1, <2>5, LaterStep, WayNearer DEF Advances
  <2> QED
    BY <2>4, <2>5, OverAdvances
<1>8. CASE ReadingNdef
  <2>1. /\ pc = "engine" /\ InParts /\ type = "T4T" /\ type' = type /\ op' = op /\ op = "read"
        /\ ndef.state = "Reading_NDEF" /\ rsp.ok
        /\ ndef' = [ndef EXCEPT !.ptr = @ + Len(rsp.data)]
    BY <1>8 DEF ReadingNdef, In, InParts, tagVars
  <2>2. /\ ndef \in Ndefs /\ ndef.ptr \in Nat /\ ndef.size \in Nat /\ MaxFile \in Nat
        /\ cmd = ReadBinary(ndef.size, ndef.ptr)
    BY <2>1, PartsOf DEF ReadFits
  <2>3. PICK m \in 0 .. 255 : cmd = Cmd("read", (ndef.ptr + 2) % 256, m, <<>>)
    <3>1. PICK n \in Nat, p \in Nat : n = ndef.size /\ p = ndef.ptr
      BY <2>2
    <3>2. \E m \in 0 .. 255 : ReadBinary(n, p) = Cmd("read", (p + 2) % 256, m, <<>>)
      BY BinaryCmd
    <3> QED
      BY <2>2, <3>1, <3>2
  <2>4. (ndef.ptr + 2) % 256 \in Nat
    BY <2>2
  <2>5. rsp.data \in Bytes /\ Len(rsp.data) >= 1
    <3>1. auth = 2
      BY <2>1 DEF OpenInv, OpenedBy, Busy
    <3> QED
      BY <2>1, <2>3, <2>4, <3>1, FileRead
  <2>6. ndef = [state |-> ndef.state, blk |-> ndef.blk, ptr |-> ndef.ptr, size |-> ndef.size]
    BY <2>2, NdefFacts
  <2>7. ndef'.state = ndef.state /\ ndef'.ptr = ndef.ptr + Len(rsp.data)
    BY <2>1, <2>6
  <2>8. \/ pc' = "lost" \/ pc' = "idle"
        \/ pc' = "tag" /\ ~(ndef'.ptr > MaxFile)
    BY <1>8 DEF ReadingNdef, Deliver, Ends, Send
  <2>9. InParts'
    BY <2>1, <2>7 DEF InParts
  <2>10. Len(rsp.data) \in Nat
    BY <2>5 DEF Bytes
  <2>11. ASSUME pc' = "tag", ~(ndef'.ptr > MaxFile) PROVE Advances
    <3>1. ndef'.ptr \in Nat /\ ndef.ptr < ndef'.ptr /\ ndef.ptr < MaxFile
      BY <2>2, <2>5, <2>7, <2>10, <2>11
    <3> QED
      BY <2>1, <2>2, <2>9, <2>11, <3>1, PartNearer DEF Advances
  <2> QED
    BY <2>8, <2>11 DEF Advances
<1>w. ndef.blk \in Nat /\ ndef.ptr \in Nat /\ Size \in Nat /\ WriteSz \in Nat /\ WriteSz >= 1
  <2>1. ndef \in Ndefs /\ Size \in Nat
    BY DEF Size, TagInv, TypeOK, Bytes, Ndefs
  <2> QED
    BY <2>1, NdefFacts, RwAssumption
<1>9. CASE ClearSize
  <2>1. /\ EngineStep /\ op = "write" /\ ndef.state = Way[10]
        /\ \E c : WriteNext(Way[20], ndef.blk, 0, c)
    BY <1>9, InFacts, WayIs DEF ClearSize
  <2> QED
    BY <1>w, <2>1, WriteAdvances
<1>10. CASE WritingNdef
  <2>1. EngineStep /\ op = "write" /\ ndef.state = Way[20]
    BY <1>10, InFacts, WayIs DEF WritingNdef
  <2>2. \/ \E c : WriteNext(Way[21], ndef.blk, ndef.ptr, c)
        \/ /\ ~(Size - ndef.ptr < WriteSz)
           /\ \E c : WriteNext(Way[20], ndef.blk, ndef.ptr + WriteSz, c)
    BY <1>10, WayIs DEF WritingNdef
  <2>3. ASSUME NEW c, WriteNext(Way[21], ndef.blk, ndef.ptr, c) PROVE Advances
    BY <1>w, <2>1, <2>3, WriteAdvances
  <2>4. ASSUME NEW c, ~(Size - ndef.ptr < WriteSz),
               WriteNext(Way[20], ndef.blk, ndef.ptr + WriteSz, c)
        PROVE  Advances
    <3>1. PICK p \in Nat : p = ndef.ptr + WriteSz
      BY <1>w
    <3>2. WriteNext(Way[20], ndef.blk, p, c) /\ ndef.ptr < p /\ ndef.ptr < Size
      BY <1>w, <2>4, <3>1
    <3> QED
      BY <1>w, <2>1, <3>2, WriteAdvances
  <2> QED
    BY <2>2, <2>3, <2>4
<1>11. CASE WritingSize
  <2>1. /\ EngineStep /\ op = "write" /\ ndef.state = Way[21]
        /\ \E c : WriteNext(Way[22], ndef.blk, ndef.ptr, c)
    BY <1>11, InFacts, WayIs DEF WritingSize
  <2> QED
    BY <1>w, <2>1, WriteAdvances
<1>12. CASE WriteComplete
  BY <1>12, OverAdvances DEF WriteComplete
<1> QED
  BY <1>1, <1>2, <1>3, <1>4, <1>5, <1>6, <1>7, <1>8, <1>9, <1>10, <1>11, <1>12 DEF T4T

(* A MIFARE block is announced only while bytes are left, and the first one  *)
(* before any byte of the message.                                           *)
Announced ==
  op = "write" /\ type = "MIFARE" /\ ndef.state = "Writing_Data2" =>
    ndef.ptr < Size /\ (ndef.blk = 4 => ndef.ptr = 0)

LEMMA MifareAdvances ==
  ASSUME TagInv, Bounded', MifareInv, Announced, Mifare
  PROVE  Advances
<1>0. type = "MIFARE" /\ type' = type
  BY EngineTypes
<1>w. /\ ndef.blk \in Nat /\ ndef.ptr \in Nat /\ ndef.size \in Nat /\ Size \in Nat
      /\ ndef = [state |-> ndef.state, blk |-> ndef.blk, ptr |-> ndef.ptr, size |-> ndef.size]
  <2>1. ndef \in Ndefs /\ Size \in Nat
    BY DEF Size, TagInv, TypeOK, Bytes, Ndefs
  <2> QED
    BY <2>1, NdefFacts
<1>1. ASSUME NEW o \in {"read", "write"}, Authenticate0(o) PROVE Advances
  <2>1. /\ ndef.state = Way[1] /\ Goto(Way[4]) /\ Way[4] \in States /\ ~InParts /\ ~Writes
        /\ Send(Auth(0))
    BY <1>1, WayIs DEF Authenticate0, In, States, InParts, Writes
  <2> QED
    BY <2>1, AskAdvances
<1>2. ASSUME NEW o \in {"read", "write"}, ReadGpb(o) PROVE Advances
  <2>1. /\ ndef.state = Way[4] /\ Goto(Way[5]) /\ Way[5] \in States /\ ~InParts /\ ~Writes
        /\ Send(Cmd("gpb", GpbBlock, 0, <<>>))
    BY <1>2, WayIs DEF ReadGpb, In, States, InParts, Writes
  <2> QED
    BY <2>1, AskAdvances
<1>3. CASE GpbRead
  <2>1. /\ ndef.state = Way[5] /\ ~InParts /\ ~Writes /\ pc' = "tag"
        /\ ndef' = [ndef EXCEPT !.state = "Authenticated", !.blk = 4]
    BY <1>3, WayIs DEF GpbRead, In, Send, InParts, Writes
  <2>2. ndef'.state = Way[13]
    BY <1>w, <2>1, WayIs
  <2> QED
    BY <2>1, <2>2, LaterStep, WayNearer DEF Advances
<1>4. CASE Authenticated
  <2>1. /\ ndef.state = Way[13] /\ op = "read" /\ op' = op /\ pc' = "tag" /\ ~Writes
        /\ ndef' = IF ndef.blk = 4 THEN [ndef EXCEPT !.state = "Reading_FirstBlk"]
                   ELSE [ndef EXCEPT !.state = "Reading_Data", !.blk = @ + 1]
    BY <1>4, WayIs DEF Authenticated, In, Send, Writes
  <2>2. CASE ndef.blk = 4
    <3>1. ~InParts
      BY <1>0, <2>1, <2>2, WayIs DEF InParts
    <3>2. ndef'.state = Way[14]
      BY <1>w, <2>1, <2>2, WayIs
    <3> QED
      BY <2>1, <3>1, <3>2, LaterStep, WayNearer DEF Advances
  <2>3. CASE ndef.blk # 4
    <3>1. ndef'.state = Way[15] /\ ndef'.ptr = ndef.ptr
      BY <1>w, <2>1, <2>3, WayIs
    <3>2. InParts /\ InParts'
      BY <1>0, <2>1, <2>3, <3>1, WayIs DEF InParts
    <3> QED
      BY <2>1, <3>1, <3>2, LaterStep, BetweenNearer DEF Advances
  <2> QED
    BY <2>2, <2>3
<1>5. CASE ReadingFirstBlk
  <2>1. ndef.state = Way[14] /\ ~InParts /\ ~Writes
    BY <1>5, WayIs DEF ReadingFirstBlk, In, InParts, Writes
  <2>2. Quits \/ \E d, p, long, next : FirstPart(d, p, long, next, "Reading_Data")
    BY <1>5, Zenon DEF ReadingFirstBlk
  <2> QED
    BY <2>1, <2>2, WayIs, FirstAdvances
<1>6. CASE ReadingData
  <2>1. /\ EngineStep /\ pc = "engine" /\ op = "read" /\ ndef.state = "Reading_Data" /\ rsp.ok
        /\ op' = op /\ InParts
    BY <1>0, <1>6, InFacts DEF ReadingData, EngineStep, InParts
  <2>2. \/ LastPart(rsp.data)
        \/ NextPart(rsp.data, 1) /\ ~(Remaining < 16)
        \/ /\ ~(Remaining < 16)
           /\ ndef' = [state |-> "Authenticated", blk |-> ndef.blk + 1,
                       ptr |-> ndef.ptr + Len(rsp.data), size |-> ndef.size]
           /\ Send(Auth((ndef.blk + 2) \div 4))
    BY <1>6 DEF ReadingData
  <2>3. Remaining \in Int
    BY <1>w DEF Remaining
  <2>4. ASSUME LastPart(rsp.data) \/ (NextPart(rsp.data, 1) /\ ~(Remaining < 16))
        PROVE  Advances
    <3>1. LastPart(rsp.data) \/ (NextPart(rsp.data, 1) /\ Remaining > 0)
      BY <2>3, <2>4
    <3> QED
      BY <1>0, <2>1, <3>1, PartAdvances
  <2>5. ASSUME ~(Remaining < 16), Send(Auth((ndef.blk + 2) \div 4)),
               ndef' = [state |-> "Authenticated", blk |-> ndef.blk + 1,
                        ptr |-> ndef.ptr + Len(rsp.data), size |-> ndef.size]
        PROVE  Advances
    <3>1. ndef.blk >= 4
      BY <1>0, <2>1 DEF MifareInv, PlaceOK
    <3>2. ndef'.state = "Authenticated" /\ ndef'.blk # 4 /\ ndef'.ptr = ndef.ptr + Len(rsp.data)
      BY <1>w, <2>5, <3>1
    <3>3. Len(rsp.data) = 16
      BY <1>0, <2>1, PartRead DEF Width
    <3>4. ndef.size <= MaxFile /\ MaxFile \in Nat
      BY <2>1, PartsOf DEF PartsFit
    <3>5. ndef'.ptr \in Nat /\ ndef.ptr < ndef'.ptr /\ ndef.ptr < MaxFile
      BY <1>w, <2>5, <3>2, <3>3, <3>4 DEF Remaining
    <3>6. InParts' /\ pc' = "tag"
      BY <1>0, <2>1, <2>5, <3>2 DEF InParts, Send
    <3> QED
      BY <1>w, <2>1, <3>5, <3>6, PartNearer DEF Advances
  <2> QED
    BY <2>2, <2>4, <2>5
<1>7. CASE GpbReadToWrite
  <2>1. EngineStep /\ op = "write" /\ ndef.state = Way[5] /\ \E c : WriteNext(Way[18], 4, 0, c)
    BY <1>7, InFacts, WayIs DEF GpbReadToWrite
  <2> QED
    BY <2>1, WriteAdvances
<1>8. CASE WritingData1
  <2>1. EngineStep /\ op = "write" /\ ndef.state = Way[18]
    BY <1>8, InFacts, WayIs DEF WritingData1
  <2>2. \/ Written
        \/ Trailer(ndef.blk) /\ \E c : WriteNext(Way[18], ndef.blk + 1, ndef.ptr, c)
        \/ \E c : WriteNext(Way[19], ndef.blk, ndef.ptr, c)
    BY <1>8, WayIs DEF WritingData1
  <2>3. ASSUME Trailer(ndef.blk), NEW c, WriteNext(Way[18], ndef.blk + 1, ndef.ptr, c)
        PROVE  Advances
    <3>1. PICK b \in Nat : b = ndef.blk + 1
      BY <1>w
    <3>2. WriteNext(Way[18], b, ndef.ptr, c) /\ ~Trailer(b)
      BY <1>w, <2>3, <3>1 DEF Trailer
    <3> QED
      BY <1>w, <2>1, <2>3, <3>2, WriteAdvances
  <2>4. ASSUME NEW c, WriteNext(Way[19], ndef.blk, ndef.ptr, c) PROVE Advances
    BY <1>w, <2>1, <2>4, WriteAdvances
  <2> QED
    BY <2>2, <2>3, <2>4, OverAdvances
<1>9. CASE WritingData2
  <2>1. EngineStep /\ op = "write" /\ ndef.state = Way[19]
    BY <1>9, InFacts, WayIs DEF WritingData2
  <2>2. ndef.ptr < Size /\ (ndef.blk = 4 => ndef.ptr = 0)
    BY <1>0, <2>1, WayIs DEF Announced
  <2>3. \E b, p \in Nat : \E c : WriteNext(Way[18], b, p, c) /\ ndef.ptr < p
    <3>1. CASE ndef.blk = 4
      <4>1. PICK b \in Nat, p \in Nat : b = 5 /\ p = IF Size > 255 THEN 10 ELSE 12
        OBVIOUS
      <4>2. \E c : WriteNext(Way[18], b, p, c)
        BY <1>9, <3>1, <4>1, WayIs DEF WritingData2
      <4> QED
        BY <2>2, <3>1, <4>1, <4>2
    <3>2. CASE ndef.blk # 4
      <4>1. PICK b \in Nat, p \in Nat : b = ndef.blk + 1 /\ p = ndef.ptr + 16
        BY <1>w
      <4>2. \E c : WriteNext(Way[18], b, p, c)
        BY <1>9, <3>2, <4>1, WayIs DEF WritingData2
      <4>3. ndef.ptr < p
        BY <1>w, <4>1
      <4> QED
        BY <4>2, <4>3
    <3> QED
      BY <3>1, <3>2
  <2> QED
    BY <2>1, <2>2, <2>3, WriteAdvances
<1> QED
  BY <1>1, <1>2, <1>3, <1>4, <1>5, <1>6, <1>7, <1>8, <1>9 DEF Mifare

-----------------------------------------------------------------------------
(* The announced block, in every step *)

LEMMA AnnouncedStep ==
  ASSUME TagInv, Announced, [Next]_vars
  PROVE  Announced'
<1>w. /\ ndef.blk \in Nat /\ ndef.ptr \in Nat /\ Size \in Nat
      /\ ndef = [state |-> ndef.state, blk |-> ndef.blk, ptr |-> ndef.ptr, size |-> ndef.size]
  <2>1. ndef \in Ndefs /\ Size \in Nat
    BY DEF Size, TagInv, TypeOK, Bytes, Ndefs
  <2> QED
    BY <2>1, NdefFacts
<1>1. ASSUME UNCHANGED <<op, message, type, ndef>> PROVE Announced'
  BY <1>1 DEF Announced, Size
<1>2. CASE Begin
  <2>1. ndef' = [ndef EXCEPT !.state = "Initial"]
    BY <1>2 DEF Begin, BeginRead, BeginWrite, Reset
  <2>2. ndef'.state = "Initial"
    BY <1>w, <2>1
  <2> QED
    BY <2>2 DEF Announced
<1>3. CASE Tag \/ GivesUp \/ UNCHANGED vars
  BY <1>1, <1>3 DEF Tag, TagAnswers, TagFails, GivesUp, vars, hostVars, tagVars
<1>4. CASE T1T \/ T2T \/ T3T \/ T4T \/ T5T
  BY <1>4, EngineTypes DEF Announced
<1>5. CASE Mifare
  <2>1. pc = "engine" /\ op' = op /\ message' = message /\ type' = type
    BY <1>5 DEF Mifare, Authenticate0, ReadGpb, GpbRead, Authenticated, ReadingFirstBlk,
                ReadingData, GpbReadToWrite, WritingData1, WritingData2, In, tagVars
  <2>2. CASE \/ \E o \in {"read", "write"} : Authenticate0(o) \/ ReadGpb(o)
    <3>1. \/ ndef' = [ndef EXCEPT !.state = "Authenticated0"]
          \/ ndef' = [ndef EXCEPT !.state = "Reading_GPB"]
      BY <2>2 DEF Authenticate0, ReadGpb, Goto
    <3>2. ndef'.state # "Writing_Data2"
      BY <1>w, <3>1
    <3> QED
      BY <3>2 DEF Announced
  <2>3. CASE GpbRead \/ Authenticated \/ ReadingFirstBlk \/ ReadingData
    <3>1. op = "read"
      BY <2>3 DEF GpbRead, Authenticated, ReadingFirstBlk, ReadingData, In
    <3> QED
      BY <2>1, <3>1 DEF Announced
  <2>4. CASE GpbReadToWrite \/ WritingData2
    <3>1. \E b, p, c : WriteNext("Writing_Data1", b, p, c)
      BY <2>4, Zenon DEF GpbReadToWrite, WritingData2
    <3>2. ndef'.state = "Writing_Data1"
      BY <1>w, <3>1 DEF WriteNext
    <3> QED
      BY <3>2 DEF Announced
  <2>5. CASE WritingData1
    <3>1. ndef.state = "Writing_Data1" /\ op = "write" /\ type = "MIFARE"
      BY <2>5 DEF WritingData1, In
    <3>2. \/ UNCHANGED ndef
          \/ \E b, p, c : WriteNext("Writing_Data1", b, p, c)
          \/ ~(Size <= ndef.ptr) /\ \E c : WriteNext("Writing_Data2", ndef.blk, ndef.ptr, c)
      BY <2>5, Zenon DEF WritingData1, Written
    <3>3. CASE UNCHANGED ndef
      BY <2>1, <3>3, <1>1
    <3>4. CASE \E b, p, c : WriteNext("Writing_Data1", b, p, c)
      <4>1. ndef'.state = "Writing_Data1"
        BY <1>w, <3>4 DEF WriteNext
      <4> QED
        BY <4>1 DEF Announced
    <3>5. CASE ~(Size <= ndef.ptr) /\ \E c : WriteNext("Writing_Data2", ndef.blk, ndef.ptr, c)
      <4>1. ndef'.blk = ndef.blk /\ ndef'.ptr = ndef.ptr /\ Size' = Size
        BY <1>w, <2>1, <3>5 DEF WriteNext, Size
      <4>2. ndef.blk = 4 => ndef.ptr = 0
        BY <2>1, <3>1 DEF TagInv, Busy, WriteFits
      <4> QED
        BY <1>w, <3>5, <4>1, <4>2 DEF Announced
    <3> QED
      BY <3>2, <3>3, <3>4, <3>5
  <2> QED
    BY <1>5, <2>2, <2>3, <2>4, <2>5 DEF Mifare
<1> QED
  BY <1>2, <1>3, <1>4, <1>5 DEF Next, Engine

(* As long as no packet has passed for an answer that it is not, every step  *)
(* of an engine ends the operation or brings it nearer to its end, and the   *)
(* tag only answers: no engine asks for ever, whatever the tag and the       *)
(* message are and wherever the exchanges fail.                              *)
THEOREM EndsCorrect ==
  Spec => [](~misled => BytesLeft \in Nat) /\ [][~misled' => Approaching]_vars
<1>1. Spec => [](misled \/ (TagInv /\ OpenInv)) /\ []MifareInv
  BY TagAlways, SectorsAlways, PTL
<1>2. Init => Announced
  BY DEF Init, Announced
<1>3. ASSUME misled \/ (TagInv /\ OpenInv), misled \/ Announced, [Next]_vars
      PROVE  (misled \/ Announced)'
  BY <1>3, AnnouncedStep, MisledStays
<1>4. ASSUME misled \/ (TagInv /\ OpenInv) PROVE ~misled => BytesLeft \in Nat /\ Bounded
  BY <1>4, LeftBounded DEF TagInv, Bounded
<1>5. ASSUME misled \/ (TagInv /\ OpenInv), MifareInv, misled \/ Announced, [Next]_vars,
             (~misled => BytesLeft \in Nat /\ Bounded)'
      PROVE  [~misled' => Approaching]_vars
  <2>1. SUFFICES ASSUME ~misled', Next PROVE Approaching
    BY <1>5
  <2>2. TagInv /\ OpenInv /\ Announced
    BY <1>5, <2>1, MisledStays
  <2>3. Bounded'
    BY <1>5, <2>1
  <2>4. ASSUME GivesUp PROVE Advances
    BY <2>4 DEF GivesUp, Advances
  <2>5. Engine => Advances
    BY <1>5, <2>2, <2>3, <2>4, T1TAdvances, T2TAdvances, T3TAdvances, T4TAdvances,
       T5TAdvances, MifareAdvances DEF Engine
  <2>6. Tag => Returns
    BY DEF Tag, TagAnswers, TagFails, Returns, hostVars
  <2> QED
    BY <2>5, <2>6 DEF Approaching
<1> QED
  BY <1>1, <1>2, <1>3, <1>4, <1>5, PTL DEF Spec

=============================================================================
