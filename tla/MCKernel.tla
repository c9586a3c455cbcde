------------------------------ MODULE MCKernel ------------------------------
(* Values of the constants of Kernel for TLC. *)
EXTENDS Kernel
CONSTANTS r1, r2

\* One connection brings every kind of request, the other competes for the place.
MCKinds == [r \in Request |-> IF r = r1 THEN Protocols \X BOOLEAN ELSE {<<"chat", FALSE>>}]
MCLines == [r \in Request |-> IF r = r1 THEN 2 ELSE 0]
=============================================================================
