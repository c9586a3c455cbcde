---------------------------- MODULE MCScheduler ----------------------------
(* The first account has a monthly allowance that runs out, read from its balance, and     *)
(* the second is never used up.  Any weekly window that is reported is malformed or not    *)
(* used.                                                                                   *)
EXTENDS Scheduler

MCQuotas == [a \in Account |-> IF a = 1 THEN {"monthly"} ELSE {}]
=============================================================================
