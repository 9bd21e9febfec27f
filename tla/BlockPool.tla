----------------------------- MODULE BlockPool -----------------------------
(***************************************************************************)
(* What the producers and the consumer rely on from the free list of       *)
(* blocks: a block that is given back can be had by any producer, and by   *)
(* one of them; and a producer goes away without a block only if there was *)
(* none, or another producer was looking at the same time.  Which of the   *)
(* blocks it gets is not promised.                                         *)
(***************************************************************************)
CONSTANTS
  Getters,   \* threads that take blocks
  Blocks

VARIABLES
  inUse,   \* the blocks that cannot be had
  calls,   \* threads that look for one
  met      \* history: of these, the ones that were not alone, or found none left

pvars == <<inUse, calls, met>>

\* After every step: a call remembers that there was another one, or no block.
Remember == met' = {t \in calls' : t \in met \/ calls' # {t} \/ inUse' = Blocks}

Init == inUse = Blocks /\ calls = {} /\ met = {}

Call(t) ==
  /\ t \notin calls /\ calls' = calls \cup {t}
  /\ UNCHANGED inUse

Take(t, b) ==
  /\ t \in calls /\ b \notin inUse
  /\ inUse' = inUse \cup {b} /\ calls' = calls \ {t}

GoWithout(t) ==
  /\ t \in met
  /\ calls' = calls \ {t}
  /\ UNCHANGED inUse

Give(b) ==
  /\ b \in inUse /\ inUse' = inUse \ {b}
  /\ UNCHANGED calls

Next ==
  /\ \/ \E t \in Getters : Call(t) \/ GoWithout(t) \/ \E b \in Blocks : Take(t, b)
     \/ \E b \in Blocks : Give(b)
  /\ Remember

Spec == Init /\ [][Next]_pvars

=============================================================================
