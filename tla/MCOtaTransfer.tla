--------------------------- MODULE MCOtaTransfer ---------------------------
(* Two images of different lengths.  A page takes one and a half packets,  *)
(* so that packets cross pages and the last page is not full.              *)
EXTENDS OtaTransfer

SmallImages == {"A", "B"}
OneImage    == {"A"}
OneSize     == [i \in OneImage |-> 5]
SmallSizes  == [i \in SmallImages |-> IF i = "A" THEN 5 ELSE 4]

(* What OffsetsRight is proved for.                                       *)
ASSUME LastPacketsAgree == Aligned
=============================================================================
