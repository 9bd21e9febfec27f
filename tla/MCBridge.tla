------------------------------ MODULE MCBridge ------------------------------
(* Bridge on two cameras, in a file with two groups that are skipped.       *)
EXTENDS Bridge

Group(type, id, complete) == [type |-> type, id |-> id, complete |-> complete]

MCSettings ==
  <<Group("int", 1, TRUE), Group("string", 3, TRUE),
    Group("int", 2, TRUE), Group("int", 3, FALSE)>>

MCMaxReports == [t \in Threads |-> IF t = LoopThread THEN 1 ELSE 2]
MCOneReport == [t \in Threads |-> 1]

=============================================================================
