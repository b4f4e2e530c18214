----------------------------- MODULE MCOtaFrame -----------------------------
(* A packet that ends with a frame, a longer one that does not, and one    *)
(* whose last frame has a single byte.                                     *)
EXTENDS OtaFrame

SomePackets == {"short", "long", "odd"}
SomeBytes   == [short |-> 16, long |-> 20, odd |-> 17]
=============================================================================
