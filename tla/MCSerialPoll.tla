---------------------------- MODULE MCSerialPoll ----------------------------
(***************************************************************************)
(* SerialPoll with the bytes of the two arrow keys among the printable     *)
(* characters, as they are.                                                *)
(***************************************************************************)
EXTENDS SerialPoll

OneLetterAndArrows == {"a", "[", "C", "D"}
=============================================================================
