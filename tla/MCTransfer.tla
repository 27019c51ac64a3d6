----------------------------- MODULE MCTransfer -----------------------------
(* Transfer with blocks of three bytes.  ByteSpan 4 leaves room for lengths *)
(* up to 7 in a header; the three input buffers wrap after two packets.     *)
EXTENDS Transfer, TLC

Reliable   == {}
Lossy      == {"lose", "duplicate", "reorder"}
Failing    == {"fail"}
AnyFault   == Lossy \cup Failing

(* Files of one block and more, with and without a remainder.               *)
Large      == 3..16
(* Files that do not fill the first block.                                  *)
Small      == 1..2
(* Files of one to four packets, the longest too long for file_buffer.      *)
Medium     == {3, 4, 6, 8, 10, 11, 12, 14}
=============================================================================
