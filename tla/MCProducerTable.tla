-------------------------- MODULE MCProducerTable --------------------------
(* Three threads whose ids collide, two of them in every table and at its  *)
(* last slot, all three in the small ones.                                 *)
EXTENDS ProducerTable, TLC

CONSTANTS t1, t2, t3

MCHashOf == t1 :> 3 @@ t2 :> 7 @@ t3 :> 7

=============================================================================
