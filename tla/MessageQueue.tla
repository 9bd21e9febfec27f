---------------------------- MODULE MessageQueue ----------------------------
(***************************************************************************)
(* What the program relies on from its message queue (msgQueue in          *)
(* src/src/main.cpp): a message put in is taken out once, each producer's  *)
(* messages in the order it put them in, and the taker is not left waiting *)
(* while there is one.  Between producers no order is promised.            *)
(***************************************************************************)
EXTENDS Integers, Sequences

CONSTANTS
  Producers,   \* threads that enqueue
  Messages,
  NoMessage

VARIABLES
  queue,   \* for each producer, its messages not yet taken
  alert    \* run(): the message wait_dequeue stored last

qvars == <<queue, alert>>

Init ==
  /\ queue = [p \in Producers |-> << >>]
  /\ alert = NoMessage

Enqueue(p, m) ==
  /\ queue' = [queue EXCEPT ![p] = Append(@, m)]
  /\ UNCHANGED alert

\* Mutant: the newest message comes out.
Dequeue_Newest(p) ==
  /\ queue[p] # << >>
  /\ alert' = queue[p][Len(queue[p])]
  /\ queue' = [queue EXCEPT ![p] = SubSeq(@, 1, Len(@) - 1)]

Dequeue(p) ==
  /\ queue[p] # << >>
  /\ alert' = Head(queue[p])
  /\ queue' = [queue EXCEPT ![p] = Tail(@)]

Next ==
  \E p \in Producers : Dequeue(p) \/ \E m \in Messages : Enqueue(p, m)

Spec == Init /\ [][Next]_qvars

FairSpec == Spec /\ WF_qvars(\E p \in Producers : Dequeue(p))

=============================================================================
