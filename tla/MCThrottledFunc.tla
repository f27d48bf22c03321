--------------------------- MODULE MCThrottledFunc ---------------------------
(* ThrottledFunc for TLC: all four flavours in one instance.               *)
EXTENDS ThrottledFunc

AllFlavours == {"leading", "trailing"} \X {"pool", "dispatcher"}
=============================================================================
