--------------------------- MODULE ProducerTable ---------------------------
(***************************************************************************)
(* How an enqueueing thread comes by its sub-queue:                        *)
(* ConcurrentQueue::get_or_add_implicit_producer.                          *)
(*                                                                         *)
(* A lock-free hash table leads from thread ids to producers.  It grows by *)
(* a larger table put in front of it; the older ones stay, and a thread    *)
(* found in one of those is copied to the front.  implicitProducerHashCount *)
(* is counted up before a producer exists, and back if there will be none; *)
(* who sees the front table half full grows it, if nobody else does, and   *)
(* who sees it three quarters full waits for that.                         *)
(*                                                                         *)
(* Keys are never removed, and a thread's own is put there by nobody else. *)
(* What it finds of its own is therefore settled when it starts to search, *)
(* and a loop that probes for a free slot ends at the one that was first   *)
(* when it ends.  Either is one step here.                                 *)
(***************************************************************************)
EXTENDS Integers, Sequences, FiniteSetsExt

CONSTANTS
  Threads,     \* the threads that enqueue
  NoThread,    \* details::invalid_thread_id
  HashOf,      \* hash_thread_id of each
  INITIAL_IMPLICIT_PRODUCER_HASH_SIZE    \* 32

\* Bound: capacities up to 2^16, which is enough for less than 2^15 threads.
PowersOfTwo == {2, 4, 8, 16, 32, 64, 128, 256, 512, 1024, 2048, 4096, 8192,
                16384, 32768, 65536}

ASSUME ThreadsAssumption == IsFiniteSet(Threads) /\ NoThread \notin Threads
ASSUME BoundAssumption == Cardinality(Threads) < 32768
ASSUME HashAssumption == HashOf \in [Threads -> Nat]
ASSUME SizeAssumption == INITIAL_IMPLICIT_PRODUCER_HASH_SIZE \in PowersOfTwo

VARIABLES
  tables,       \* the hash tables, each the prev of the next: the last one is
                \* implicitProducerHash
  implicitProducerHashCount,
  implicitProducerHashResizeInProgress,
  producers,    \* producerListTail and what is behind it, the oldest first:
                \* whose each is
  pc,           \* the statement of get_or_add_implicit_producer a thread is at
  mainHash,     \* its locals mainHash
  newCount,     \* and newCount
  given         \* history: the producer it was given last, 0 for none yet

shared == <<tables, implicitProducerHashCount,
            implicitProducerHashResizeInProgress, producers>>
locals == <<mainHash, newCount>>
vars == <<shared, pc, locals, given>>

-----------------------------------------------------------------------------
(* A table: its capacity, the key of each slot and the value beside it.    *)

\* Mutant: one slot more is cleared than was allocated.
EmptyTable_OneMore(capacity) ==
  [capacity |-> capacity,
   key   |-> [i \in 0 .. capacity |-> NoThread],
   value |-> [i \in 0 .. capacity |-> 0]]

EmptyTable(capacity) ==
  [capacity |-> capacity,
   key   |-> [i \in 0 .. capacity - 1 |-> NoThread],
   value |-> [i \in 0 .. capacity - 1 |-> 0]]

\* index &= capacity - 1, after n turns of the loop.
Slot(h, t, n) == (HashOf[t] + n) % (h.capacity)

Keys(h) == {h.key[i] : i \in DOMAIN h.key}

\* The probing loop of t, which ends at the first free slot only.
Put(h, t, p) ==
  LET Free == {n \in 0 .. h.capacity - 1 : h.key[Slot(h, t, n)] = NoThread}
      i == Slot(h, t, Min(Free))
  IN  [capacity |-> h.capacity,
       key   |-> [h.key EXCEPT ![i] = t],
       value |-> [h.value EXCEPT ![i] = p]]

Half(h) == h.capacity \div 2
ThreeQuarters(h) == h.capacity \div 2 + h.capacity \div 4

-----------------------------------------------------------------------------
Init ==
  /\ tables = <<EmptyTable(INITIAL_IMPLICIT_PRODUCER_HASH_SIZE)>>
  /\ implicitProducerHashCount = 0
  /\ implicitProducerHashResizeInProgress = FALSE
  /\ producers = << >>
  /\ pc = [t \in Threads |-> "idle"]
  /\ mainHash = [t \in Threads |-> 1]
  /\ newCount = [t \in Threads |-> 0]
  /\ given = [t \in Threads |-> 0]

Goto(t, l) == pc' = [pc EXCEPT ![t] = l]
LoadMainHash(t) == mainHash' = [mainHash EXCEPT ![t] = Len(tables)]

\* The function ends, and its locals with it.
Return(t) ==
  /\ Goto(t, "idle")
  /\ mainHash' = [mainHash EXCEPT ![t] = 1]
  /\ newCount' = [newCount EXCEPT ![t] = 0]

Give(t, p) == Return(t) /\ given' = [given EXCEPT ![t] = p]
GiveNull(t) == Return(t) /\ UNCHANGED given

-----------------------------------------------------------------------------
(* The search, from the front table to the oldest.                         *)

\* Whether the probing loop of t in a table ends at its own key, which it does
\* unless there is a free slot first.
Holds(h, t) ==
  \E n \in 0 .. h.capacity - 1 :
    /\ h.key[Slot(h, t, n)] = t
    /\ \A m \in 0 .. n - 1 : h.key[Slot(h, t, m)] # NoThread

ValueOf(h, t) == h.value[CHOOSE i \in DOMAIN h.key : h.key[i] = t]

\* Mutant: only the front table is searched.
Searched_Front == {Len(tables)}

\* The tables that hash = hash->prev leads to.
Searched == DOMAIN tables

FoundIn(t) == {i \in Searched : Holds(tables[i], t)}

FoundInFront(t) ==
  /\ pc[t] = "idle" /\ Len(tables) \in FoundIn(t)
  /\ Give(t, ValueOf(tables[Len(tables)], t))
  /\ UNCHANGED shared

FoundBehind(t) ==
  /\ pc[t] = "idle" /\ Len(tables) \notin FoundIn(t) /\ FoundIn(t) # {}
  /\ LoadMainHash(t)
  /\ Goto(t, "copy")
  /\ UNCHANGED <<shared, newCount, given>>

\* The producer found is copied to what was the front table.
Copy(t) ==
  /\ pc[t] = "copy"
  /\ LET p == ValueOf(tables[Max(FoundIn(t))], t)
     IN  /\ tables' = [tables EXCEPT ![mainHash[t]] = Put(@, t, p)]
         /\ Give(t, p)
  /\ UNCHANGED <<implicitProducerHashCount,
                 implicitProducerHashResizeInProgress, producers>>

NotFound(t) ==
  /\ pc[t] = "idle" /\ FoundIn(t) = {}
  /\ LoadMainHash(t)
  /\ Goto(t, "count")
  /\ UNCHANGED <<shared, newCount, given>>

-----------------------------------------------------------------------------
(* The insertion.                                                          *)

Front(t) == tables[mainHash[t]]

Count(t) ==
  /\ pc[t] = "count"
  /\ implicitProducerHashCount' = implicitProducerHashCount + 1
  /\ newCount' = [newCount EXCEPT ![t] = implicitProducerHashCount + 1]
  /\ Goto(t, "resize")
  /\ UNCHANGED <<tables, implicitProducerHashResizeInProgress, producers,
                 mainHash, given>>

\* Half full, and test_and_set finds that nobody else grows the table.
LockResize(t) ==
  /\ pc[t] = "resize"
  /\ newCount[t] >= Half(Front(t))
  /\ ~implicitProducerHashResizeInProgress
  /\ implicitProducerHashResizeInProgress' = TRUE
  /\ Goto(t, "locked")
  /\ UNCHANGED <<tables, implicitProducerHashCount, producers, locals, given>>

SkipResize(t) ==
  /\ pc[t] = "resize"
  /\ newCount[t] < Half(Front(t)) \/ implicitProducerHashResizeInProgress
  /\ Goto(t, "add")
  /\ UNCHANGED <<shared, locals, given>>

\* Mutant: the flag stays set when the table turns out to have been grown.
Locked_Keeps(t) ==
  /\ pc[t] = "locked"
  /\ LoadMainHash(t)
  /\ Goto(t, IF newCount[t] >= Half(tables[Len(tables)]) THEN "grow" ELSE "add")
  /\ UNCHANGED <<shared, newCount, given>>

\* Reload the front table: it may have been grown since.
Locked(t) ==
  /\ pc[t] = "locked"
  /\ LoadMainHash(t)
  /\ Goto(t, IF newCount[t] >= Half(tables[Len(tables)]) THEN "grow" ELSE "unlock")
  /\ UNCHANGED <<shared, newCount, given>>

\* The least doubling of the capacity that is less than half full.
Grow(t) ==
  /\ pc[t] = "grow"
  /\ LET Enough == {c \in PowersOfTwo :
                     c > Front(t).capacity /\ newCount[t] < c \div 2}
     IN  tables' = Append(tables, EmptyTable(Min(Enough)))
  /\ mainHash' = [mainHash EXCEPT ![t] = Len(tables) + 1]
  /\ Goto(t, "unlock")
  /\ UNCHANGED <<implicitProducerHashCount, implicitProducerHashResizeInProgress,
                 producers, newCount, given>>

Unlock(t) ==
  /\ pc[t] = "unlock"
  /\ implicitProducerHashResizeInProgress' = FALSE
  /\ Goto(t, "add")
  /\ UNCHANGED <<tables, implicitProducerHashCount, producers, locals, given>>

\* No memory for a larger table: uncount, unlock, return nullptr.
GrowFails(t) ==
  /\ pc[t] = "grow"
  /\ implicitProducerHashCount' = implicitProducerHashCount - 1
  /\ Goto(t, "give_up")
  /\ UNCHANGED <<tables, implicitProducerHashResizeInProgress, producers,
                 locals, given>>

GiveUp(t) ==
  /\ pc[t] = "give_up"
  /\ implicitProducerHashResizeInProgress' = FALSE
  /\ GiveNull(t)
  /\ UNCHANGED <<tables, implicitProducerHashCount, producers>>

\* Mutant: a table is good until it is full.
Create_Whenever(t) ==
  /\ pc[t] = "add"
  /\ producers' = Append(producers, t)
  /\ Goto(t, "insert")
  /\ UNCHANGED <<tables, implicitProducerHashCount,
                 implicitProducerHashResizeInProgress, locals, given>>

\* Less than three quarters full: recycle_or_create_producer, which finds
\* none to recycle since no producer of this build becomes inactive.
Create(t) ==
  /\ pc[t] = "add" /\ newCount[t] < ThreeQuarters(Front(t))
  /\ producers' = Append(producers, t)
  /\ Goto(t, "insert")
  /\ UNCHANGED <<tables, implicitProducerHashCount,
                 implicitProducerHashResizeInProgress, locals, given>>

\* Mutant: the count is not taken back.
CreateFails_Counted(t) ==
  /\ pc[t] = "add" /\ newCount[t] < ThreeQuarters(Front(t))
  /\ GiveNull(t)
  /\ UNCHANGED shared

CreateFails(t) ==
  /\ pc[t] = "add" /\ newCount[t] < ThreeQuarters(Front(t))
  /\ implicitProducerHashCount' = implicitProducerHashCount - 1
  /\ GiveNull(t)
  /\ UNCHANGED <<tables, implicitProducerHashResizeInProgress, producers>>

\* Somebody else is growing the table: reload it and start over.
Wait(t) ==
  /\ pc[t] = "add" /\ newCount[t] >= ThreeQuarters(Front(t))
  /\ LoadMainHash(t)
  /\ Goto(t, "resize")
  /\ UNCHANGED <<shared, newCount, given>>

\* The producer just created goes into the table that was the front one when t
\* last looked.
Insert(t) ==
  /\ pc[t] = "insert"
  /\ LET p == Max({i \in 1 .. Len(producers) : producers[i] = t})
     IN  /\ tables' = [tables EXCEPT ![mainHash[t]] = Put(@, t, p)]
         /\ Give(t, p)
  /\ UNCHANGED <<implicitProducerHashCount, implicitProducerHashResizeInProgress,
                 producers>>

-----------------------------------------------------------------------------
Search(t) == FoundInFront(t) \/ FoundBehind(t) \/ Copy(t) \/ NotFound(t)
Resize(t) ==
  \/ LockResize(t) \/ SkipResize(t) \/ Locked(t) \/ Grow(t) \/ Unlock(t)
  \/ GrowFails(t) \/ GiveUp(t)
Add(t) == Count(t) \/ Create(t) \/ CreateFails(t) \/ Wait(t) \/ Insert(t)

get_or_add_implicit_producer(t) == Search(t) \/ Resize(t) \/ Add(t)

Next == \E t \in Threads : get_or_add_implicit_producer(t)

Spec == Init /\ [][Next]_vars

(***************************************************************************)
(* A thread inside the function is scheduled.  None has to call it.        *)
(***************************************************************************)
Fairness ==
  \A t \in Threads : WF_vars(pc[t] # "idle" /\ get_or_add_implicit_producer(t))

FairSpec == Spec /\ Fairness

-----------------------------------------------------------------------------
(* Properties.                                                             *)

Labels == {"idle", "copy", "count", "resize", "locked", "grow", "unlock",
           "give_up", "add", "insert"}

IsTable(h) ==
  /\ h.capacity \in PowersOfTwo
  /\ h.key \in [0 .. h.capacity - 1 -> Threads \cup {NoThread}]
  /\ h.value \in [0 .. h.capacity - 1 -> 0 .. Len(producers)]

\* The keys of a table are in the array allocated for it, and belong to
\* producers that exist.
TypeOK ==
  /\ \A i \in DOMAIN tables : IsTable(tables[i])
  /\ implicitProducerHashCount \in 0 .. Cardinality(Threads)
  /\ implicitProducerHashResizeInProgress \in BOOLEAN
  /\ producers \in Seq(Threads)
  /\ pc \in [Threads -> Labels]
  /\ mainHash \in [Threads -> 1 .. Len(tables)]
  /\ newCount \in [Threads -> 0 .. Cardinality(Threads)]
  /\ given \in [Threads -> 0 .. Len(producers)]

\* What the loops over a table rely on (concurrentqueue.h:3399): every table
\* has a free slot, however many threads added to it while another was about
\* to replace it, and however many were copied from older ones.
RoomLeft ==
  \A i \in DOMAIN tables : NoThread \in Keys(tables[i])

\* The count is that of the producers and of the threads about to add one: a
\* failed allocation takes its own back, at whatever point it fails, and the
\* flag is set by the one thread that resizes.
CountAccounted ==
  /\ implicitProducerHashCount =
       Len(producers) + Cardinality({t \in Threads :
         pc[t] \in {"resize", "locked", "grow", "unlock", "add"}})
  /\ Cardinality({t \in Threads : pc[t] \in {"locked", "grow", "unlock", "give_up"}}) =
       IF implicitProducerHashResizeInProgress THEN 1 ELSE 0

\* A thread that has been given a producer is never given another one, so that
\* its messages stay in one sub-queue, which is what keeps them in order.
SameProducer ==
  [][\A t \in Threads : given[t] # 0 => given'[t] = given[t]]_vars

\* Every call returns, whoever waits for whom to grow the table: unless the
\* allocation of a larger one fails again and again, when one thread may find
\* the flag set by others for ever.
Served ==
  <>[][\A t \in Threads : ~GrowFails(t)]_vars =>
    \A t \in Threads : pc[t] # "idle" ~> pc[t] = "idle"

=============================================================================
