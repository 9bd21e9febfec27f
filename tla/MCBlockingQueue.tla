-------------------------- MODULE MCBlockingQueue --------------------------
(* Three producers, one more than a scan looks at here, with two messages  *)
(* each in blocks of two.                                                  *)
EXTENDS BlockingQueue

=============================================================================
