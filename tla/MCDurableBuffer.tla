--------------------------- MODULE MCDurableBuffer ---------------------------
(* Model-checking instances of DurableBuffer. *)
EXTENDS DurableBuffer
===============================================================================
