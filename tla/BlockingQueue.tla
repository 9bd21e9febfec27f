--------------------------- MODULE BlockingQueue ---------------------------
(***************************************************************************)
(* moodycamel::BlockingConcurrentQueue as the program uses it: threads     *)
(* that enqueue without a token, so that each has an implicit producer, a  *)
(* sub-queue of its own, and one thread that calls wait_dequeue.           *)
(*                                                                         *)
(* The sub-queues are lock-free and the semaphore that counts the items is *)
(* separate from them, so that the queue is right only if the two agree:   *)
(* an item is stored before it is counted, and taken after it is           *)
(* uncounted.  A step here is one atomic operation of the code on a word   *)
(* another thread uses.  The k-th message of producer p is <<p, k>>.  What *)
(* is inside the steps GetProducer, Store and Take, the hash table that    *)
(* finds a thread's producer and the blocks messages are stored in, is in  *)
(* ProducerTable and ImplicitProducer.                                     *)
(***************************************************************************)
EXTENDS Integers, Sequences, FiniteSets, Functions

CONSTANTS
  Producers,     \* the enqueueing threads
  BlockSize,     \* messages per allocated block (BLOCK_SIZE, 32)
  MaxMessages,   \* bound: messages each producer stores
  ScanLimit,     \* non-empty producers try_dequeue looks at (3)
  NoProducer     \* the null pointer

ASSUME ProducersAssumption == IsFiniteSet(Producers) /\ NoProducer \notin Producers
ASSUME BoundsAssumption ==
  MaxMessages \in Nat /\ BlockSize \in Nat \ {0} /\ ScanLimit \in Nat \ {0}

VARIABLES
  producerList,        \* producerListTail and the next links: the newest first
  tailIndex,           \* ProducerBase::tailIndex: messages stored so far
  headIndex,           \* ProducerBase::headIndex: messages taken so far
  m_count,             \* LightweightSemaphore::m_count
  m_sema,              \* the kernel semaphore below it
  enq,                 \* where each producer is in enqueue
  deq,                 \* where the consumer is in wait_dequeue
  rest, seen, best, bestSize,   \* the locals of try_dequeue
  alert                \* the message handed over last

counters == <<m_count, m_sema>>
scan == <<rest, seen, best, bestSize>>
consumer == <<deq, scan, alert>>
vars == <<producerList, tailIndex, headIndex, counters, enq, consumer>>

NoMessage == <<NoProducer, 0>>
Messages == Producers \X (1 .. MaxMessages)

TypeOK ==
  /\ producerList \in Seq(Producers)
  /\ tailIndex \in [Producers -> 0 .. MaxMessages]
  /\ headIndex \in [Producers -> 0 .. MaxMessages]
  /\ m_count \in Int
  /\ m_sema \in Nat
  /\ enq \in [Producers -> {"idle", "store", "signal", "post"}]
  /\ deq \in {"spin", "fetch_sub", "blocked", "scan", "take"}
  /\ rest \in Seq(Producers)
  /\ seen \in 0 .. ScanLimit
  /\ best \in Producers \cup {NoProducer}
  /\ bestSize \in Nat
  /\ alert \in Messages \cup {NoMessage}

Init ==
  /\ producerList = << >>
  /\ tailIndex = [p \in Producers |-> 0]
  /\ headIndex = [p \in Producers |-> 0]
  /\ m_count = 0
  /\ m_sema = 0
  /\ enq = [p \in Producers |-> "idle"]
  /\ deq = "spin"
  /\ rest = << >> /\ seen = 0 /\ best = NoProducer /\ bestSize = 0
  /\ alert = NoMessage

-----------------------------------------------------------------------------
(* enqueue, on the thread of producer p.                                   *)

\* get_or_add_implicit_producer: a thread's first message adds its producer.
GetProducer(p) ==
  /\ enq[p] = "idle" /\ tailIndex[p] < MaxMessages
  /\ producerList' = IF p \in Range(producerList) THEN producerList
                     ELSE <<p>> \o producerList
  /\ enq' = [enq EXCEPT ![p] = "store"]
  /\ UNCHANGED <<tailIndex, headIndex, counters, consumer>>

\* The message becomes visible with the store to tailIndex.
Store(p) ==
  /\ enq[p] = "store"
  /\ tailIndex' = [tailIndex EXCEPT ![p] = @ + 1]
  /\ enq' = [enq EXCEPT ![p] = "signal"]
  /\ UNCHANGED <<producerList, headIndex, counters, consumer>>

\* No memory for a new block: enqueue returns false, which no caller of the
\* program looks at.
StoreFails(p) ==
  /\ enq[p] = "store" /\ tailIndex[p] % BlockSize = 0
  /\ enq' = [enq EXCEPT ![p] = "idle"]
  /\ UNCHANGED <<producerList, tailIndex, headIndex, counters, consumer>>

\* Mutant: whether to post is decided by the new count, not the old one.
Signal_NewCount(p) ==
  /\ enq[p] = "signal"
  /\ m_count' = m_count + 1
  /\ enq' = [enq EXCEPT ![p] = IF m_count + 1 < 0 THEN "post" ELSE "idle"]
  /\ UNCHANGED <<producerList, tailIndex, headIndex, m_sema, consumer>>

\* LightweightSemaphore::signal(1): post if the consumer had to wait.
Signal(p) ==
  /\ enq[p] = "signal"
  /\ m_count' = m_count + 1
  /\ enq' = [enq EXCEPT ![p] = IF m_count < 0 THEN "post" ELSE "idle"]
  /\ UNCHANGED <<producerList, tailIndex, headIndex, m_sema, consumer>>

Post(p) ==
  /\ enq[p] = "post"
  /\ m_sema' = m_sema + 1
  /\ enq' = [enq EXCEPT ![p] = "idle"]
  /\ UNCHANGED <<producerList, tailIndex, headIndex, m_count, consumer>>

-----------------------------------------------------------------------------
(* wait_dequeue, on the main thread.                                       *)

\* try_dequeue starts over: ptr = producerListTail.
StartScan ==
  /\ deq' = "scan"
  /\ rest' = producerList /\ seen' = 0
  /\ best' = NoProducer /\ bestSize' = 0

\* tryWait and the spinning loop: take a permit that is there.
TryWait ==
  /\ deq = "spin" /\ m_count > 0
  /\ m_count' = m_count - 1
  /\ StartScan
  /\ UNCHANGED <<producerList, tailIndex, headIndex, m_sema, enq, alert>>

\* The spins are used up: the count was 0, or changed under the exchange.
SpinsUsedUp ==
  /\ deq = "spin"
  /\ deq' = "fetch_sub"
  /\ UNCHANGED <<producerList, tailIndex, headIndex, counters, enq, scan, alert>>

\* Mutant: a count of 0 is taken for a permit.
FetchSub_AtZero ==
  /\ deq = "fetch_sub"
  /\ m_count' = m_count - 1
  /\ IF m_count >= 0 THEN StartScan ELSE deq' = "blocked" /\ UNCHANGED scan
  /\ UNCHANGED <<producerList, tailIndex, headIndex, m_sema, enq, alert>>

FetchSub ==
  /\ deq = "fetch_sub"
  /\ m_count' = m_count - 1
  /\ IF m_count > 0 THEN StartScan ELSE deq' = "blocked" /\ UNCHANGED scan
  /\ UNCHANGED <<producerList, tailIndex, headIndex, m_sema, enq, alert>>

\* Mutant: sem_wait returns when a signal handler has, with a permit or not.
SemWait_Interrupted ==
  /\ deq = "blocked"
  /\ m_sema' = IF m_sema > 0 THEN m_sema - 1 ELSE m_sema
  /\ StartScan
  /\ UNCHANGED <<producerList, tailIndex, headIndex, m_count, enq, alert>>

\* sem_wait; a signal handler that returns only makes it wait again.
SemWait ==
  /\ deq = "blocked" /\ m_sema > 0
  /\ m_sema' = m_sema - 1
  /\ StartScan
  /\ UNCHANGED <<producerList, tailIndex, headIndex, m_count, enq, alert>>

\* ProducerBase::size_approx.
size_approx(p) == tailIndex[p] - headIndex[p]

\* The largest of the first producers that are not empty, three in the code.
Visit ==
  /\ deq = "scan" /\ seen < ScanLimit /\ rest # << >>
  /\ LET p == Head(rest)  size == size_approx(p) IN
       /\ rest' = Tail(rest)
       /\ seen' = IF size > 0 THEN seen + 1 ELSE seen
       /\ IF size > bestSize
          THEN best' = p /\ bestSize' = size
          ELSE UNCHANGED <<best, bestSize>>
  /\ UNCHANGED <<producerList, tailIndex, headIndex, counters, enq, deq, alert>>

\* Nothing found: try_dequeue returns false and wait_dequeue repeats it.
EndScan ==
  /\ deq = "scan" /\ (seen = ScanLimit \/ rest = << >>)
  /\ IF seen = 0 THEN StartScan ELSE deq' = "take" /\ UNCHANGED scan
  /\ UNCHANGED <<producerList, tailIndex, headIndex, counters, enq, alert>>

\* Mutant: the newest message of the producer comes out.
Take_Newest ==
  /\ deq = "take" /\ size_approx(best) > 0
  /\ headIndex' = [headIndex EXCEPT ![best] = @ + 1]
  /\ alert' = <<best, tailIndex[best]>>
  /\ deq' = "spin"
  /\ UNCHANGED <<producerList, tailIndex, counters, enq, scan>>

\* ImplicitProducer::dequeue on the best one.  The other branch, trying the
\* rest when best has become empty, needs a second consumer: see ScanSucceeds.
Take ==
  /\ deq = "take" /\ size_approx(best) > 0
  /\ headIndex' = [headIndex EXCEPT ![best] = @ + 1]
  /\ alert' = <<best, headIndex[best] + 1>>
  /\ deq' = "spin"
  /\ UNCHANGED <<producerList, tailIndex, counters, enq, scan>>

-----------------------------------------------------------------------------
Enqueue(p) == GetProducer(p) \/ Store(p) \/ StoreFails(p) \/ Signal(p) \/ Post(p)
WaitDequeue ==
  TryWait \/ SpinsUsedUp \/ FetchSub \/ SemWait \/ Visit \/ EndScan \/ Take

Next == WaitDequeue \/ \E p \in Producers : Enqueue(p)

Spec == Init /\ [][Next]_vars

(***************************************************************************)
(* Every thread inside the queue goes on: nothing there blocks but         *)
(* sem_wait.  No producer has to start another message.                    *)
(***************************************************************************)
Fairness ==
  /\ WF_vars(WaitDequeue)
  /\ \A p \in Producers : WF_vars(enq[p] # "idle" /\ Enqueue(p))

FairSpec == Spec /\ Fairness

-----------------------------------------------------------------------------
(* Properties.                                                             *)

Items == {m \in Messages : headIndex[m[1]] < m[2] /\ m[2] <= tailIndex[m[1]]}
At(pc) == {p \in Producers : enq[p] = pc}
OneIf(b) == IF b THEN 1 ELSE 0

\* The count is the number of messages stored, less those whose producer has
\* yet to signal and the one the consumer has been or waits to be given; and
\* the kernel semaphore is posted, or about to be, exactly when the consumer
\* sleeps on a message that has been counted.
SemaphoreAccounting ==
  /\ m_count = Cardinality(Items) - Cardinality(At("signal"))
                 - OneIf(deq \in {"blocked", "scan", "take"})
  /\ m_count + OneIf(deq = "blocked") >= 0
  /\ m_sema + Cardinality(At("post")) = OneIf(deq = "blocked" /\ m_count >= 0)

\* The consumer sleeps while a message is stored only if some producer is on
\* its way to wake it.
NoLostWakeup ==
  deq = "blocked" /\ m_sema = 0 /\ Items # {} =>
    At("signal") \cup At("post") # {}

\* A consumer with a permit finds a message in a single scan, though the scan
\* stops at ScanLimit producers and new ones join ahead of where it started, and
\* the producer it settled on still has one when it takes it.
ScanSucceeds ==
  /\ deq = "scan" =>
       seen > 0 \/ \E p \in Range(rest) : size_approx(p) > 0
  /\ deq = "scan" /\ seen > 0 => best # NoProducer
  /\ deq \in {"scan", "take"} /\ best # NoProducer => size_approx(best) > 0
  /\ deq = "take" => best # NoProducer

\* The queue the program relies on: a producer's messages from the head index
\* to the tail index.
Pending == [p \in Producers |->
              [i \in 1 .. size_approx(p) |-> <<p, headIndex[p] + i>>]]

MQ == INSTANCE MessageQueue WITH queue <- Pending

\* Each message comes out once, in its producer's order.
ImplementsQueue == MQ!Spec

\* And the consumer gets one as long as there are any.
ImplementsFairQueue == MQ!FairSpec

=============================================================================
