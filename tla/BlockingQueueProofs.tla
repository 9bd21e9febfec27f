------------------------ MODULE BlockingQueueProofs ------------------------
(***************************************************************************)
(* Proofs about BlockingQueue for every finite set of producers, every     *)
(* block size and every number of messages.                                *)
(*                                                                         *)
(* SemaphoreAccounting carries the argument: it gives the consumer with a  *)
(* permit a message to find, and leaves no stored message uncounted when   *)
(* nobody is on the way to wake the consumer.                              *)
(***************************************************************************)
EXTENDS BlockingQueue, FiniteSetTheorems, SequenceTheorems, TLAPS

\* The consumer takes only what was stored, and a store has room.
Indices ==
  \A p \in Producers :
    /\ headIndex[p] <= tailIndex[p]
    /\ enq[p] = "store" => tailIndex[p] < MaxMessages

\* A producer that has stored a message, or is about to, is in the list.
Listed ==
  \A p \in Producers :
    tailIndex[p] > 0 \/ enq[p] = "store" => p \in Range(producerList)

\* A scan that has settled on no producer has seen no size.
NothingSeen == deq = "scan" /\ best = NoProducer => bestSize = 0

IInv == TypeOK /\ Indices /\ Listed /\ NothingSeen /\ ScanSucceeds /\ SemaphoreAccounting

-----------------------------------------------------------------------------
(* Counting.                                                               *)

LEMMA AddOne ==
  ASSUME NEW S, IsFiniteSet(S), NEW x, x \notin S
  PROVE  IsFiniteSet(S \cup {x}) /\ Cardinality(S \cup {x}) = Cardinality(S) + 1
  BY FS_AddElement

LEMMA RemoveOne ==
  ASSUME NEW S, IsFiniteSet(S), NEW x, x \in S
  PROVE  IsFiniteSet(S \ {x}) /\ Cardinality(S \ {x}) = Cardinality(S) - 1
  BY FS_RemoveElement

LEMMA PlacesAreFinite ==
  \A pc : IsFiniteSet(At(pc)) /\ Cardinality(At(pc)) \in Nat
BY ProducersAssumption, FS_Subset, FS_CardinalityType DEF At

LEMMA ItemsAreFinite == IsFiniteSet(Items) /\ Cardinality(Items) \in Nat
<1>1. IsFiniteSet(1 .. MaxMessages)
  BY FS_Interval, BoundsAssumption
<1>2. IsFiniteSet(Messages)
  BY <1>1, ProducersAssumption, FS_Product DEF Messages
<1>. QED
  BY <1>2, FS_Subset, FS_CardinalityType DEF Items

LEMMA CountedItemExists ==
  ASSUME tailIndex \in [Producers -> 0 .. MaxMessages],
         headIndex \in [Producers -> 0 .. MaxMessages],
         Cardinality(Items) > 0
  PROVE  \E p \in Producers : headIndex[p] < tailIndex[p]
<1>1. PICK m \in Items : TRUE
  BY FS_EmptySet
<1>2. m[1] \in Producers /\ m[2] \in Int
  BY <1>1 DEF Items, Messages
<1>3. tailIndex[m[1]] \in Int /\ headIndex[m[1]] \in Int
  BY <1>2, BoundsAssumption
<1>. QED
  BY <1>1, <1>2, <1>3 DEF Items

(* The step of producer p from one place in enqueue to another.            *)
LEMMA ProducerMoves ==
  ASSUME NEW p \in Producers, NEW from, NEW to, from # to,
         enq = [q \in Producers |-> enq[q]], enq[p] = from,
         enq' = [enq EXCEPT ![p] = to]
  PROVE  /\ Cardinality(At(to)') = Cardinality(At(to)) + 1
         /\ Cardinality(At(from)') = Cardinality(At(from)) - 1
         /\ \A pc : pc # to /\ pc # from => At(pc)' = At(pc)
<1>1. /\ enq'[p] = to
      /\ \A q \in Producers : q # p => enq'[q] = enq[q]
  OBVIOUS
<1>2. At(to)' = At(to) \cup {p} /\ p \notin At(to)
  BY <1>1 DEF At
<1>3. At(from)' = At(from) \ {p} /\ p \in At(from)
  BY <1>1 DEF At
<1>4. \A pc : pc # to /\ pc # from => At(pc)' = At(pc)
  BY <1>1 DEF At
<1>5. Cardinality(At(to)') = Cardinality(At(to)) + 1
  BY <1>2, AddOne, PlacesAreFinite
<1>6. Cardinality(At(from)') = Cardinality(At(from)) - 1
  BY <1>3, RemoveOne, PlacesAreFinite
<1>. QED
  BY <1>4, <1>5, <1>6

(* Storing and taking a message.                                           *)
LEMMA ItemStored ==
  ASSUME NEW p \in Producers, tailIndex[p] < MaxMessages,
         tailIndex \in [Producers -> 0 .. MaxMessages],
         headIndex \in [Producers -> 0 .. MaxMessages],
         headIndex[p] <= tailIndex[p],
         tailIndex' = [tailIndex EXCEPT ![p] = @ + 1], headIndex' = headIndex
  PROVE  Cardinality(Items') = Cardinality(Items) + 1
<1>. DEFINE new == <<p, tailIndex[p] + 1>>
<1>0. /\ tailIndex[p] \in Nat /\ headIndex[p] \in Nat /\ MaxMessages \in Nat
      /\ tailIndex'[p] = tailIndex[p] + 1
      /\ \A q \in Producers : q # p => tailIndex'[q] = tailIndex[q]
  BY BoundsAssumption
<1>1. new \in Messages
  BY <1>0 DEF Messages
<1>2. new \notin Items
  BY <1>0 DEF Items
<1>3. ASSUME NEW m \in Messages
      PROVE  m \in Items' <=> m \in Items \/ m = new
  <2>1. m = <<m[1], m[2]>> /\ m[1] \in Producers /\ m[2] \in 1 .. MaxMessages
    BY DEF Messages
  <2>2. m \in Items <=> headIndex[m[1]] < m[2] /\ m[2] <= tailIndex[m[1]]
    BY DEF Items
  <2>3. m \in Items' <=> headIndex[m[1]] < m[2] /\ m[2] <= tailIndex'[m[1]]
    BY DEF Items
  <2>4. CASE m[1] # p
    BY <1>0, <2>1, <2>2, <2>3, <2>4
  <2>5. CASE m[1] = p
    <3>1. m = new <=> m[2] = tailIndex[p] + 1
      BY <2>1, <2>5
    <3>. QED
      BY <1>0, <2>1, <2>2, <2>3, <2>5, <3>1
  <2>. QED
    BY <2>4, <2>5
<1>4. Items' = Items \cup {new}
  BY <1>1, <1>3 DEF Items
<1>. QED
  BY <1>2, <1>4, AddOne, ItemsAreFinite

LEMMA ItemTaken ==
  ASSUME NEW p \in Producers,
         tailIndex \in [Producers -> 0 .. MaxMessages],
         headIndex \in [Producers -> 0 .. MaxMessages],
         headIndex[p] < tailIndex[p],
         headIndex' = [headIndex EXCEPT ![p] = @ + 1], tailIndex' = tailIndex
  PROVE  Cardinality(Items') = Cardinality(Items) - 1
<1>. DEFINE old == <<p, headIndex[p] + 1>>
<1>0. /\ tailIndex[p] \in Nat /\ headIndex[p] \in Nat
      /\ tailIndex[p] <= MaxMessages /\ MaxMessages \in Nat
      /\ headIndex'[p] = headIndex[p] + 1
      /\ \A q \in Producers : q # p => headIndex'[q] = headIndex[q]
  BY BoundsAssumption
<1>1. old \in Items
  BY <1>0 DEF Items, Messages
<1>3. ASSUME NEW m \in Messages
      PROVE  m \in Items' <=> m \in Items /\ m # old
  <2>1. m = <<m[1], m[2]>> /\ m[1] \in Producers /\ m[2] \in 1 .. MaxMessages
    BY DEF Messages
  <2>2. m \in Items <=> headIndex[m[1]] < m[2] /\ m[2] <= tailIndex[m[1]]
    BY DEF Items
  <2>3. m \in Items' <=> headIndex'[m[1]] < m[2] /\ m[2] <= tailIndex[m[1]]
    BY DEF Items
  <2>4. CASE m[1] # p
    BY <1>0, <2>1, <2>2, <2>3, <2>4
  <2>5. CASE m[1] = p
    <3>1. m = old <=> m[2] = headIndex[p] + 1
      BY <2>1, <2>5
    <3>. QED
      BY <1>0, <2>1, <2>2, <2>3, <2>5, <3>1
  <2>. QED
    BY <2>4, <2>5
<1>4. Items' = Items \ {old}
  BY <1>3 DEF Items
<1>. QED
  BY <1>1, <1>4, RemoveOne, ItemsAreFinite

(* A consumer with a permit starts a scan that has something to find.      *)
LEMMA ScanStarts ==
  ASSUME IInv, StartScan, Cardinality(Items) > 0,
         UNCHANGED <<producerList, tailIndex, headIndex>>
  PROVE  ScanSucceeds' /\ NothingSeen'
<1>1. PICK p \in Producers : headIndex[p] < tailIndex[p]
  BY CountedItemExists DEF IInv, TypeOK
<1>2. tailIndex[p] \in Nat /\ headIndex[p] \in Nat
  BY BoundsAssumption DEF IInv, TypeOK
<1>3. p \in Range(producerList)
  BY <1>1, <1>2 DEF IInv, Listed
<1>4. size_approx(p)' > 0
  BY <1>1, <1>2 DEF size_approx
<1>5. deq' = "scan" /\ rest' = producerList /\ seen' = 0
      /\ best' = NoProducer /\ bestSize' = 0
  BY DEF StartScan
<1>6. p \in Range(rest') /\ ~(seen' > 0)
  BY <1>3, <1>5
<1>7. ScanSucceeds'
  BY <1>4, <1>5, <1>6 DEF ScanSucceeds
<1>. QED
  BY <1>5, <1>7 DEF NothingSeen

-----------------------------------------------------------------------------
(* The invariant holds at the start.                                       *)

LEMMA InitInv == Init => IInv
<1>. SUFFICES ASSUME Init PROVE IInv
  OBVIOUS
<1>. USE DEF Init
<1>1. TypeOK
  <2>1. << >> \in Seq(Producers)
    BY EmptySeq
  <2>. QED
    BY <2>1, BoundsAssumption DEF TypeOK, NoMessage
<1>2. Items = {}
  <2>1. \A m \in Messages : ~(headIndex[m[1]] < m[2] /\ m[2] <= tailIndex[m[1]])
    BY BoundsAssumption DEF Messages
  <2>. QED
    BY <2>1 DEF Items
<1>3. At("signal") = {} /\ At("post") = {}
  BY DEF At
<1>4. SemaphoreAccounting
  <2>1. /\ Cardinality(Items) = 0
        /\ Cardinality(At("signal")) = 0 /\ Cardinality(At("post")) = 0
    BY <1>2, <1>3, FS_EmptySet
  <2>. QED
    BY <2>1 DEF SemaphoreAccounting, OneIf
<1>5. Indices /\ Listed /\ NothingSeen /\ ScanSucceeds
  BY DEF Indices, Listed, NothingSeen, ScanSucceeds
<1>. QED
  BY <1>1, <1>4, <1>5 DEF IInv

-----------------------------------------------------------------------------
(* Every step of a producer preserves it.                                  *)

(* What a producer's step does to a scan that is under way: nothing, as it *)
(* only makes sub-queues longer.                                           *)
LEMMA ScanUndisturbed ==
  ASSUME IInv, UNCHANGED consumer, UNCHANGED headIndex,
         tailIndex' \in [Producers -> Nat],
         \A p \in Producers : tailIndex[p] <= tailIndex'[p]
  PROVE  ScanSucceeds' /\ NothingSeen'
<1>1. /\ headIndex \in [Producers -> Nat] /\ tailIndex \in [Producers -> Nat]
      /\ rest \in Seq(Producers) /\ best \in Producers \cup {NoProducer}
  BY BoundsAssumption DEF IInv, TypeOK
<1>2. \A p \in Producers : size_approx(p) > 0 => size_approx(p)' > 0
  BY <1>1 DEF size_approx
<1>3. Range(rest) \subseteq Producers
  BY <1>1, RangeOfSeq
<1>4. /\ deq' = deq /\ rest' = rest /\ seen' = seen
      /\ best' = best /\ bestSize' = bestSize
  BY DEF consumer, scan
<1>5. best # NoProducer /\ size_approx(best) > 0 => size_approx(best)' > 0
  BY <1>1, <1>2, <1>4 DEF size_approx
<1>6. ScanSucceeds'
  BY <1>2, <1>3, <1>4, <1>5 DEF IInv, ScanSucceeds
<1>. QED
  BY <1>4, <1>6 DEF IInv, NothingSeen

LEMMA GetProducerInv ==
  ASSUME IInv, NEW p \in Producers, GetProducer(p)
  PROVE  IInv'
<1>1. /\ enq[p] = "idle" /\ enq' = [enq EXCEPT ![p] = "store"]
      /\ tailIndex[p] < MaxMessages
      /\ UNCHANGED <<tailIndex, headIndex, m_count, m_sema>> /\ UNCHANGED consumer
  BY DEF GetProducer, counters
<1>2. TypeOK'
  <2>1. producerList \in Seq(Producers) /\ <<p>> \in Seq(Producers)
    BY DEF IInv, TypeOK
  <2>2. producerList' \in Seq(Producers)
    BY <2>1, ConcatProperties DEF GetProducer
  <2>. QED
    BY <1>1, <2>2 DEF IInv, TypeOK, consumer, scan
<1>3. Indices'
  BY <1>1 DEF IInv, Indices, TypeOK
<1>4. Listed'
  <2>1. producerList \in Seq(Producers) /\ <<p>> \in Seq(Producers)
    BY DEF IInv, TypeOK
  <2>2. Range(<<p>>) = {p}
    BY DEF Range
  <2>3. Range(producerList') = Range(producerList) \cup {p}
    <3>1. CASE p \in Range(producerList)
      BY <3>1 DEF GetProducer
    <3>2. CASE p \notin Range(producerList)
      <4>1. producerList' = <<p>> \o producerList
        BY <3>2 DEF GetProducer
      <4>2. Range(<<p>> \o producerList) = Range(<<p>>) \cup Range(producerList)
        BY <2>1, RangeConcatenation
      <4>. QED
        BY <2>2, <4>1, <4>2
    <3>. QED
      BY <3>1, <3>2
  <2>4. \A q \in Producers : q # p => enq'[q] = enq[q]
    BY <1>1 DEF IInv, TypeOK
  <2>. QED
    BY <1>1, <2>3, <2>4 DEF IInv, Listed
<1>5. ScanSucceeds' /\ NothingSeen'
  <2>1. tailIndex \in [Producers -> Nat]
    BY BoundsAssumption DEF IInv, TypeOK
  <2>. QED
    BY <1>1, <2>1, ScanUndisturbed
<1>6. SemaphoreAccounting'
  <2>1. At("signal")' = At("signal") /\ At("post")' = At("post")
    <3>1. enq = [q \in Producers |-> enq[q]]
      BY DEF IInv, TypeOK
    <3>. QED
      BY <1>1, <3>1, ProducerMoves
  <2>2. Items' = Items /\ deq' = deq
    BY <1>1 DEF Items, consumer
  <2>. QED
    BY <1>1, <2>1, <2>2 DEF IInv, SemaphoreAccounting
<1>. QED
  BY <1>2, <1>3, <1>4, <1>5, <1>6 DEF IInv

LEMMA StoreInv ==
  ASSUME IInv, NEW p \in Producers, Store(p)
  PROVE  IInv'
<1>1. /\ enq[p] = "store" /\ enq' = [enq EXCEPT ![p] = "signal"]
      /\ tailIndex' = [tailIndex EXCEPT ![p] = @ + 1]
      /\ UNCHANGED <<producerList, headIndex, m_count, m_sema>>
      /\ UNCHANGED consumer
  BY DEF Store, counters
<1>2. /\ tailIndex[p] < MaxMessages /\ headIndex[p] <= tailIndex[p]
      /\ p \in Range(producerList)
  BY <1>1 DEF IInv, Indices, Listed
<1>3. /\ tailIndex \in [Producers -> 0 .. MaxMessages]
      /\ headIndex \in [Producers -> 0 .. MaxMessages]
      /\ enq = [q \in Producers |-> enq[q]]
  BY DEF IInv, TypeOK
<1>4. tailIndex' \in [Producers -> 0 .. MaxMessages]
  BY <1>1, <1>2, <1>3, BoundsAssumption
<1>5. TypeOK'
  BY <1>1, <1>4 DEF IInv, TypeOK, consumer, scan
<1>6. \A q \in Producers :
        /\ tailIndex'[q] = IF q = p THEN tailIndex[q] + 1 ELSE tailIndex[q]
        /\ enq'[q] = IF q = p THEN "signal" ELSE enq[q]
  BY <1>1, <1>3
<1>7. Indices' /\ Listed'
  BY <1>1, <1>2, <1>3, <1>6, BoundsAssumption DEF IInv, Indices, Listed
<1>8. ScanSucceeds' /\ NothingSeen'
  <2>1. \A q \in Producers : tailIndex[q] <= tailIndex'[q]
    BY <1>3, <1>6, BoundsAssumption
  <2>2. tailIndex' \in [Producers -> Nat]
    BY <1>4, BoundsAssumption
  <2>. QED
    BY <1>1, <2>1, <2>2, ScanUndisturbed
<1>9. SemaphoreAccounting'
  <2>1. /\ Cardinality(At("signal")') = Cardinality(At("signal")) + 1
        /\ At("post")' = At("post")
    BY <1>1, <1>3, ProducerMoves
  <2>2. Cardinality(Items') = Cardinality(Items) + 1
    BY <1>1, <1>2, <1>3, ItemStored
  <2>3. deq' = deq /\ m_count \in Int
    BY <1>1 DEF consumer, IInv, TypeOK
  <2>. QED
    BY <1>1, <2>1, <2>2, <2>3, ItemsAreFinite, PlacesAreFinite
    DEF IInv, SemaphoreAccounting, OneIf
<1>. QED
  BY <1>5, <1>7, <1>8, <1>9 DEF IInv

LEMMA StoreFailsInv ==
  ASSUME IInv, NEW p \in Producers, StoreFails(p)
  PROVE  IInv'
<1>1. /\ enq[p] = "store" /\ enq' = [enq EXCEPT ![p] = "idle"]
      /\ UNCHANGED <<producerList, tailIndex, headIndex, m_count, m_sema>>
      /\ UNCHANGED consumer
  BY DEF StoreFails, counters
<1>2. /\ enq = [q \in Producers |-> enq[q]]
      /\ \A q \in Producers : enq'[q] = IF q = p THEN "idle" ELSE enq[q]
  BY <1>1 DEF IInv, TypeOK
<1>3. TypeOK'
  BY <1>1 DEF IInv, TypeOK, consumer, scan
<1>4. Indices' /\ Listed'
  BY <1>1, <1>2 DEF IInv, Indices, Listed
<1>5. ScanSucceeds' /\ NothingSeen'
  <2>1. tailIndex \in [Producers -> Nat]
    BY BoundsAssumption DEF IInv, TypeOK
  <2>. QED
    BY <1>1, <2>1, ScanUndisturbed
<1>6. SemaphoreAccounting'
  <2>1. At("signal")' = At("signal") /\ At("post")' = At("post")
    BY <1>1, <1>2, ProducerMoves
  <2>2. Items' = Items /\ deq' = deq
    BY <1>1 DEF Items, consumer
  <2>. QED
    BY <1>1, <2>1, <2>2 DEF IInv, SemaphoreAccounting
<1>. QED
  BY <1>3, <1>4, <1>5, <1>6 DEF IInv

LEMMA SignalInv ==
  ASSUME IInv, NEW p \in Producers, Signal(p)
  PROVE  IInv'
<1>1. /\ enq[p] = "signal" /\ m_count' = m_count + 1
      /\ enq' = [enq EXCEPT ![p] = IF m_count < 0 THEN "post" ELSE "idle"]
      /\ UNCHANGED <<producerList, tailIndex, headIndex, m_sema>>
      /\ UNCHANGED consumer
  BY DEF Signal
<1>2. /\ enq = [q \in Producers |-> enq[q]]
      /\ \A q \in Producers : q # p => enq'[q] = enq[q]
      /\ enq'[p] \in {"post", "idle"}
      /\ m_count \in Int /\ m_sema \in Nat
  BY <1>1 DEF IInv, TypeOK
<1>3. TypeOK'
  BY <1>1 DEF IInv, TypeOK, consumer, scan
<1>4. Indices' /\ Listed'
  BY <1>1, <1>2 DEF IInv, Indices, Listed
<1>5. ScanSucceeds' /\ NothingSeen'
  <2>1. tailIndex \in [Producers -> Nat]
    BY BoundsAssumption DEF IInv, TypeOK
  <2>. QED
    BY <1>1, <2>1, ScanUndisturbed
<1>6. SemaphoreAccounting'
  <2>1. Items' = Items /\ deq' = deq
    BY <1>1 DEF Items, consumer
  <2>2. Cardinality(At("signal")') = Cardinality(At("signal")) - 1
    BY <1>1, <1>2, ProducerMoves
  <2>3. CASE m_count < 0
    <3>1. enq' = [enq EXCEPT ![p] = "post"]
      BY <1>1, <2>3
    <3>2. Cardinality(At("post")') = Cardinality(At("post")) + 1
      BY <1>1, <1>2, <3>1, ProducerMoves
    <3>. QED
      BY <1>1, <1>2, <2>1, <2>2, <2>3, <3>2, ItemsAreFinite, PlacesAreFinite
      DEF IInv, SemaphoreAccounting, OneIf
  <2>4. CASE ~(m_count < 0)
    <3>1. enq' = [enq EXCEPT ![p] = "idle"]
      BY <1>1, <2>4
    <3>2. At("post")' = At("post")
      BY <1>1, <1>2, <3>1, ProducerMoves
    <3>. QED
      BY <1>1, <1>2, <2>1, <2>2, <2>4, <3>2, ItemsAreFinite, PlacesAreFinite
      DEF IInv, SemaphoreAccounting, OneIf
  <2>. QED
    BY <2>3, <2>4
<1>. QED
  BY <1>3, <1>4, <1>5, <1>6 DEF IInv

LEMMA PostInv ==
  ASSUME IInv, NEW p \in Producers, Post(p)
  PROVE  IInv'
<1>1. /\ enq[p] = "post" /\ m_sema' = m_sema + 1
      /\ enq' = [enq EXCEPT ![p] = "idle"]
      /\ UNCHANGED <<producerList, tailIndex, headIndex, m_count>>
      /\ UNCHANGED consumer
  BY DEF Post
<1>2. /\ enq = [q \in Producers |-> enq[q]]
      /\ \A q \in Producers : enq'[q] = IF q = p THEN "idle" ELSE enq[q]
      /\ m_count \in Int /\ m_sema \in Nat
  BY <1>1 DEF IInv, TypeOK
<1>3. TypeOK'
  BY <1>1 DEF IInv, TypeOK, consumer, scan
<1>4. Indices' /\ Listed'
  BY <1>1, <1>2 DEF IInv, Indices, Listed
<1>5. ScanSucceeds' /\ NothingSeen'
  <2>1. tailIndex \in [Producers -> Nat]
    BY BoundsAssumption DEF IInv, TypeOK
  <2>. QED
    BY <1>1, <2>1, ScanUndisturbed
<1>6. SemaphoreAccounting'
  <2>1. Items' = Items /\ deq' = deq
    BY <1>1 DEF Items, consumer
  <2>2. /\ Cardinality(At("post")') = Cardinality(At("post")) - 1
        /\ At("signal")' = At("signal")
    BY <1>1, <1>2, ProducerMoves
  <2>. QED
    BY <1>1, <1>2, <2>1, <2>2, PlacesAreFinite DEF IInv, SemaphoreAccounting
<1>. QED
  BY <1>3, <1>4, <1>5, <1>6 DEF IInv

-----------------------------------------------------------------------------
(* Every step of the consumer preserves it.                                *)

(* The part of the invariant a step of the consumer leaves alone unless it *)
(* takes a message.                                                        *)
LEMMA ProducersUndisturbed ==
  ASSUME IInv, UNCHANGED <<producerList, tailIndex, headIndex, enq>>
  PROVE  /\ Indices' /\ Listed'
         /\ Items' = Items
         /\ At("signal")' = At("signal") /\ At("post")' = At("post")
BY DEF IInv, Indices, Listed, Items, At

LEMMA StartScanType ==
  ASSUME IInv, StartScan,
         UNCHANGED <<producerList, tailIndex, headIndex, enq, alert>>,
         m_count' \in Int, m_sema' \in Nat
  PROVE  TypeOK'
BY BoundsAssumption DEF IInv, TypeOK, StartScan

LEMMA TryWaitInv ==
  ASSUME IInv, TryWait
  PROVE  IInv'
<1>1. /\ deq = "spin" /\ m_count > 0 /\ m_count' = m_count - 1 /\ StartScan
      /\ UNCHANGED <<producerList, tailIndex, headIndex, m_sema, enq, alert>>
  BY DEF TryWait
<1>2. m_count \in Int /\ m_sema \in Nat
  BY DEF IInv, TypeOK
<1>3. TypeOK'
  BY <1>1, <1>2, StartScanType
<1>4. Cardinality(Items) > 0
  BY <1>1, <1>2, ItemsAreFinite, PlacesAreFinite
  DEF IInv, SemaphoreAccounting, OneIf
<1>5. ScanSucceeds' /\ NothingSeen'
  BY <1>1, <1>4, ScanStarts
<1>6. SemaphoreAccounting'
  <2>1. deq' = "scan"
    BY <1>1 DEF StartScan
  <2>. QED
    BY <1>1, <1>2, <2>1, ProducersUndisturbed, ItemsAreFinite, PlacesAreFinite
    DEF IInv, SemaphoreAccounting, OneIf
<1>. QED
  BY <1>1, <1>3, <1>5, <1>6, ProducersUndisturbed DEF IInv

LEMMA SpinsUsedUpInv ==
  ASSUME IInv, SpinsUsedUp
  PROVE  IInv'
<1>1. /\ deq = "spin" /\ deq' = "fetch_sub"
      /\ UNCHANGED <<producerList, tailIndex, headIndex, enq>>
      /\ UNCHANGED <<m_count, m_sema>> /\ UNCHANGED scan /\ UNCHANGED alert
  BY DEF SpinsUsedUp, counters
<1>2. TypeOK'
  BY <1>1 DEF IInv, TypeOK, scan
<1>3. ScanSucceeds' /\ NothingSeen'
  BY <1>1 DEF ScanSucceeds, NothingSeen
<1>4. SemaphoreAccounting'
  BY <1>1, ProducersUndisturbed DEF IInv, SemaphoreAccounting, OneIf
<1>. QED
  BY <1>1, <1>2, <1>3, <1>4, ProducersUndisturbed DEF IInv

LEMMA FetchSubInv ==
  ASSUME IInv, FetchSub
  PROVE  IInv'
<1>1. /\ deq = "fetch_sub" /\ m_count' = m_count - 1
      /\ UNCHANGED <<producerList, tailIndex, headIndex, m_sema, enq, alert>>
  BY DEF FetchSub
<1>2. m_count \in Int /\ m_sema \in Nat
  BY DEF IInv, TypeOK
<1>3. CASE m_count > 0
  <2>1. StartScan
    BY <1>3 DEF FetchSub
  <2>2. TypeOK'
    BY <1>1, <1>2, <2>1, StartScanType
  <2>3. Cardinality(Items) > 0
    BY <1>1, <1>2, <1>3, ItemsAreFinite, PlacesAreFinite
    DEF IInv, SemaphoreAccounting, OneIf
  <2>4. ScanSucceeds' /\ NothingSeen'
    BY <1>1, <2>1, <2>3, ScanStarts
  <2>5. SemaphoreAccounting'
    <3>1. deq' = "scan"
      BY <2>1 DEF StartScan
    <3>. QED
      BY <1>1, <1>2, <1>3, <3>1, ProducersUndisturbed, ItemsAreFinite,
         PlacesAreFinite DEF IInv, SemaphoreAccounting, OneIf
  <2>. QED
    BY <1>1, <2>2, <2>4, <2>5, ProducersUndisturbed DEF IInv
<1>4. CASE ~(m_count > 0)
  <2>1. deq' = "blocked" /\ UNCHANGED scan
    BY <1>4 DEF FetchSub
  <2>2. TypeOK'
    BY <1>1, <1>2, <2>1 DEF IInv, TypeOK, scan
  <2>3. ScanSucceeds' /\ NothingSeen'
    BY <2>1 DEF ScanSucceeds, NothingSeen
  <2>4. SemaphoreAccounting'
    <3>1. /\ m_count = Cardinality(Items) - Cardinality(At("signal"))
          /\ m_count >= 0
          /\ m_sema + Cardinality(At("post")) = 0
      BY <1>1, <1>2, ItemsAreFinite, PlacesAreFinite
      DEF IInv, SemaphoreAccounting, OneIf
    <3>2. m_count' = -1
      BY <1>1, <1>2, <1>4, <3>1
    <3>3. /\ OneIf(deq = "blocked")' = 1
          /\ OneIf(deq \in {"blocked", "scan", "take"})' = 1
          /\ OneIf(deq = "blocked" /\ m_count >= 0)' = 0
      BY <2>1, <3>2 DEF OneIf
    <3>. QED
      BY <1>1, <1>2, <3>1, <3>2, <3>3, ProducersUndisturbed, ItemsAreFinite,
         PlacesAreFinite DEF SemaphoreAccounting
  <2>. QED
    BY <1>1, <2>2, <2>3, <2>4, ProducersUndisturbed DEF IInv
<1>. QED
  BY <1>3, <1>4

LEMMA SemWaitInv ==
  ASSUME IInv, SemWait
  PROVE  IInv'
<1>1. /\ deq = "blocked" /\ m_sema > 0 /\ m_sema' = m_sema - 1 /\ StartScan
      /\ UNCHANGED <<producerList, tailIndex, headIndex, m_count, enq, alert>>
  BY DEF SemWait
<1>2. m_count \in Int /\ m_sema \in Nat
  BY DEF IInv, TypeOK
<1>3. TypeOK'
  BY <1>1, <1>2, StartScanType
<1>4. m_count >= 0 /\ m_sema = 1 /\ Cardinality(At("post")) = 0
  BY <1>1, <1>2, PlacesAreFinite DEF IInv, SemaphoreAccounting, OneIf
<1>5. Cardinality(Items) > 0
  BY <1>1, <1>2, <1>4, ItemsAreFinite, PlacesAreFinite
  DEF IInv, SemaphoreAccounting, OneIf
<1>6. ScanSucceeds' /\ NothingSeen'
  BY <1>1, <1>5, ScanStarts
<1>7. SemaphoreAccounting'
  <2>1. deq' = "scan"
    BY <1>1 DEF StartScan
  <2>. QED
    BY <1>1, <1>2, <1>4, <2>1, ProducersUndisturbed, ItemsAreFinite,
       PlacesAreFinite DEF IInv, SemaphoreAccounting, OneIf
<1>. QED
  BY <1>1, <1>3, <1>6, <1>7, ProducersUndisturbed DEF IInv

LEMMA VisitInv ==
  ASSUME IInv, Visit
  PROVE  IInv'
<1>1. /\ deq = "scan" /\ deq' = "scan" /\ rest # << >>
      /\ UNCHANGED <<producerList, tailIndex, headIndex, enq>>
      /\ UNCHANGED <<m_count, m_sema>> /\ UNCHANGED alert
      /\ seen < ScanLimit /\ rest' = Tail(rest)
  BY DEF Visit, counters
<1>2. /\ rest \in Seq(Producers) /\ seen \in 0 .. ScanLimit /\ bestSize \in Nat
      /\ best \in Producers \cup {NoProducer} /\ NoProducer \notin Producers
  BY ProducersAssumption DEF IInv, TypeOK
<1>3. Head(rest) \in Producers /\ rest' \in Seq(Producers)
  BY <1>1, <1>2, HeadTailProperties
<1>4. PICK p \in Producers : p = Head(rest)
  BY <1>3
<1>5. \A q \in Producers : size_approx(q) \in Nat
  BY BoundsAssumption DEF IInv, TypeOK, Indices, size_approx
<1>6. PICK size \in Nat : size = size_approx(p)
  BY <1>5
<1>7. /\ seen' = IF size > 0 THEN seen + 1 ELSE seen
      /\ IF size > bestSize THEN best' = p /\ bestSize' = size
                            ELSE best' = best /\ bestSize' = bestSize
  BY <1>4, <1>6 DEF Visit
<1>8. Range(rest) \subseteq {p} \cup Range(rest') /\ Range(rest') \subseteq Producers
  <2>1. \A i \in 1 .. Len(rest) : i # 1 => rest[i] \in Range(rest')
    <3>. SUFFICES ASSUME NEW i \in 1 .. Len(rest), i # 1
                  PROVE  rest[i] \in Range(rest')
      OBVIOUS
    <3>1. /\ i - 1 \in 1 .. Len(rest') /\ rest'[i - 1] = rest[i - 1 + 1]
          /\ DOMAIN rest' = 1 .. Len(rest')
      BY <1>1, <1>2, <1>3, HeadTailProperties, LenProperties
    <3>. QED
      BY <1>2, <3>1, LenProperties DEF Range
  <2>2. rest[1] = p
    BY <1>1, <1>2, <1>4
  <2>3. DOMAIN rest = 1 .. Len(rest)
    BY <1>2, LenProperties
  <2>. QED
    BY <1>3, <2>1, <2>2, <2>3, RangeOfSeq DEF Range
<1>9. TypeOK'
  <2>1. seen' \in 0 .. ScanLimit /\ bestSize' \in Nat /\ best' \in Producers \cup {NoProducer}
    BY <1>1, <1>2, <1>7, BoundsAssumption
  <2>. QED
    BY <1>1, <1>3, <2>1 DEF IInv, TypeOK
<1>10. NothingSeen'
  BY <1>1, <1>2, <1>7 DEF IInv, NothingSeen
<1>11. ScanSucceeds'
  <2>1. best # NoProducer => size_approx(best) > 0
    BY <1>1 DEF IInv, ScanSucceeds
  <2>2. seen' > 0 => best' # NoProducer
    BY <1>1, <1>2, <1>7 DEF IInv, ScanSucceeds, NothingSeen
  <2>3. (best # NoProducer => size_approx(best) > 0)'
    <3>1. CASE size > bestSize
      <4>1. (size_approx(best))' = size
        BY <1>1, <1>6, <1>7, <3>1 DEF size_approx
      <4>. QED
        BY <1>2, <3>1, <4>1
    <3>2. CASE ~(size > bestSize)
      BY <1>1, <1>7, <2>1, <3>2 DEF size_approx
    <3>. QED
      BY <3>1, <3>2
  <2>4. (seen > 0 \/ \E q \in Range(rest) : size_approx(q) > 0)'
    <3>1. CASE seen > 0 \/ size > 0
      BY <1>1, <1>2, <1>7, <3>1
    <3>2. CASE ~(seen > 0) /\ ~(size > 0)
      <4>1. PICK q \in Range(rest) : size_approx(q) > 0
        BY <1>1, <3>2 DEF IInv, ScanSucceeds
      <4>2. q # p /\ q \in Range(rest')
        BY <1>6, <1>8, <3>2, <4>1
      <4>3. size_approx(q)' > 0
        BY <1>1, <4>1 DEF size_approx
      <4>. QED
        BY <4>2, <4>3
    <3>. QED
      BY <3>1, <3>2
  <2>. QED
    BY <1>1, <2>2, <2>3, <2>4 DEF ScanSucceeds
<1>12. SemaphoreAccounting'
  BY <1>1, ProducersUndisturbed DEF IInv, SemaphoreAccounting
<1>. QED
  BY <1>1, <1>9, <1>10, <1>11, <1>12, ProducersUndisturbed DEF IInv

LEMMA EndScanInv ==
  ASSUME IInv, EndScan
  PROVE  IInv'
<1>1. /\ deq = "scan" /\ (seen = ScanLimit \/ rest = << >>)
      /\ UNCHANGED <<producerList, tailIndex, headIndex, enq>>
      /\ UNCHANGED <<m_count, m_sema>> /\ UNCHANGED alert
  BY DEF EndScan, counters
<1>2. seen > 0
  <2>1. Range(<< >>) = {}
    BY DEF Range
  <2>. QED
    BY <1>1, <2>1, BoundsAssumption DEF IInv, ScanSucceeds
<1>3. deq' = "take" /\ UNCHANGED scan
  BY <1>2 DEF EndScan
<1>4. TypeOK'
  BY <1>1, <1>3 DEF IInv, TypeOK, scan
<1>5. ScanSucceeds' /\ NothingSeen'
  <2>1. best' = best /\ best # NoProducer /\ size_approx(best) > 0
    BY <1>1, <1>2, <1>3 DEF IInv, ScanSucceeds, scan
  <2>2. (size_approx(best))' > 0
    BY <1>1, <2>1 DEF size_approx
  <2>. QED
    BY <1>3, <2>1, <2>2 DEF ScanSucceeds, NothingSeen
<1>6. SemaphoreAccounting'
  BY <1>1, <1>3, ProducersUndisturbed DEF IInv, SemaphoreAccounting, OneIf
<1>. QED
  BY <1>1, <1>4, <1>5, <1>6, ProducersUndisturbed DEF IInv

LEMMA TakeInv ==
  ASSUME IInv, Take
  PROVE  IInv'
<1>1. /\ deq = "take" /\ deq' = "spin"
      /\ headIndex' = [headIndex EXCEPT ![best] = @ + 1]
      /\ alert' = <<best, headIndex[best] + 1>>
      /\ UNCHANGED <<producerList, tailIndex, enq>>
      /\ UNCHANGED <<m_count, m_sema>> /\ UNCHANGED scan
  BY DEF Take, counters
<1>2. best \in Producers /\ headIndex[best] < tailIndex[best]
  <2>1. best \in Producers
    BY <1>1 DEF IInv, TypeOK, ScanSucceeds
  <2>2. headIndex[best] \in Int /\ tailIndex[best] \in Int
    BY <2>1, BoundsAssumption DEF IInv, TypeOK
  <2>. QED
    BY <2>1, <2>2 DEF Take, size_approx
<1>3. /\ tailIndex \in [Producers -> 0 .. MaxMessages]
      /\ headIndex \in [Producers -> 0 .. MaxMessages]
      /\ m_count \in Int /\ m_sema \in Nat
  BY DEF IInv, TypeOK
<1>4. /\ headIndex' \in [Producers -> 0 .. MaxMessages]
      /\ \A q \in Producers :
           headIndex'[q] = IF q = best THEN headIndex[q] + 1 ELSE headIndex[q]
  BY <1>1, <1>2, <1>3, BoundsAssumption
<1>5. TypeOK'
  <2>1. headIndex[best] + 1 \in 1 .. MaxMessages
    BY <1>2, <1>3, BoundsAssumption
  <2>2. alert' \in Messages
    BY <1>1, <1>2, <2>1 DEF Messages
  <2>. QED
    BY <1>1, <1>4, <2>2 DEF IInv, TypeOK, scan
<1>6. Indices' /\ Listed'
  BY <1>1, <1>2, <1>3, <1>4, BoundsAssumption DEF IInv, Indices, Listed
<1>7. ScanSucceeds' /\ NothingSeen'
  BY <1>1 DEF ScanSucceeds, NothingSeen
<1>8. SemaphoreAccounting'
  <2>1. Cardinality(Items') = Cardinality(Items) - 1
    BY <1>1, <1>2, <1>3, ItemTaken
  <2>2. At("signal")' = At("signal") /\ At("post")' = At("post")
    BY <1>1 DEF At
  <2>. QED
    BY <1>1, <1>3, <2>1, <2>2, ItemsAreFinite, PlacesAreFinite
    DEF IInv, SemaphoreAccounting, OneIf
<1>. QED
  BY <1>5, <1>6, <1>7, <1>8 DEF IInv

-----------------------------------------------------------------------------
LEMMA StepInv == IInv /\ [Next]_vars => IInv'
<1>. SUFFICES ASSUME IInv, [Next]_vars PROVE IInv'
  OBVIOUS
<1>1. ASSUME NEW p \in Producers, Enqueue(p)
      PROVE  IInv'
  BY <1>1, GetProducerInv, StoreInv, StoreFailsInv, SignalInv, PostInv DEF Enqueue
<1>2. CASE WaitDequeue
  BY <1>2, TryWaitInv, SpinsUsedUpInv, FetchSubInv, SemWaitInv, VisitInv,
     EndScanInv, TakeInv DEF WaitDequeue
<1>3. CASE UNCHANGED vars
  <2>1. UNCHANGED <<producerList, tailIndex, headIndex, enq>>
    BY <1>3 DEF vars
  <2>2. UNCHANGED consumer /\ UNCHANGED <<m_count, m_sema>>
    BY <1>3 DEF vars, counters
  <2>3. TypeOK'
    BY <2>1, <2>2 DEF IInv, TypeOK, consumer, scan
  <2>4. ScanSucceeds' /\ NothingSeen'
    BY <2>1, <2>2 DEF IInv, ScanSucceeds, NothingSeen, consumer, scan, size_approx
  <2>5. SemaphoreAccounting'
    BY <2>1, <2>2, ProducersUndisturbed DEF IInv, SemaphoreAccounting, consumer
  <2>. QED
    BY <2>1, <2>3, <2>4, <2>5, ProducersUndisturbed DEF IInv
<1>. QED
  BY <1>1, <1>2, <1>3 DEF Next

LEMMA Invariance == Spec => []IInv
  BY InitInv, StepInv, PTL DEF Spec

(* The queue's variables keep their types, for any number of producers and *)
(* messages.                                                               *)
THEOREM TypeCorrect == Spec => []TypeOK
<1>1. IInv => TypeOK
  BY DEF IInv
<1>. QED
  BY <1>1, Invariance, PTL

(* The lightweight semaphore of the queue counts what it should: the       *)
(* messages its producers have signalled, less the consumer's permit.      *)
THEOREM SemaphoreCorrect == Spec => []SemaphoreAccounting
<1>1. IInv => SemaphoreAccounting
  BY DEF IInv
<1>. QED
  BY <1>1, Invariance, PTL

(* wait_dequeue never spins on try_dequeue: a single scan of the producer  *)
(* list ends at a producer that has a message, and still has it when the   *)
(* message is taken.                                                       *)
THEOREM ScanCorrect == Spec => []ScanSucceeds
<1>1. IInv => ScanSucceeds
  BY DEF IInv
<1>. QED
  BY <1>1, Invariance, PTL

(* The main thread does not sleep in wait_dequeue on a message that has    *)
(* been signalled.                                                         *)
THEOREM WakeupCorrect == Spec => []NoLostWakeup
<1>1. ASSUME IInv, deq = "blocked", m_sema = 0, Items # {}
      PROVE  At("signal") \cup At("post") # {}
  <2>1. Cardinality(Items) # 0
    BY <1>1, ItemsAreFinite, FS_EmptySet
  <2>2. m_count \in Int /\ Cardinality(Items) \in Nat
        /\ Cardinality(At("signal")) \in Nat /\ Cardinality(At("post")) \in Nat
    BY <1>1, ItemsAreFinite, PlacesAreFinite DEF IInv, TypeOK
  <2>3. Cardinality(At("signal")) # 0 \/ Cardinality(At("post")) # 0
    BY <1>1, <2>1, <2>2 DEF IInv, SemaphoreAccounting, OneIf
  <2>. QED
    BY <2>3, FS_EmptySet
<1>2. IInv => NoLostWakeup
  BY <1>1 DEF NoLostWakeup
<1>. QED
  BY <1>2, Invariance, PTL

-----------------------------------------------------------------------------
(* The sub-queues and the semaphore together are a message queue.          *)

(* n messages of producer p, from the one after the a-th.                  *)
Run(p, a, n) == [i \in 1 .. n |-> <<p, a + i>>]
LEMMA RunIsSeq ==
  ASSUME NEW P, NEW p \in P, NEW a \in Nat, NEW n \in Nat
  PROVE  Run(p, a, n) \in Seq(P \X Nat) /\ Len(Run(p, a, n)) = n
<1>1. Run(p, a, n) \in [1 .. n -> P \X Nat]
  BY DEF Run
<1>2. Run(p, a, n) \in Seq(P \X Nat)
  BY <1>1, SeqDef
<1>3. Len(Run(p, a, n)) \in Nat /\ DOMAIN Run(p, a, n) = 1 .. Len(Run(p, a, n))
  BY <1>2, LenProperties
<1>4. DOMAIN Run(p, a, n) = 1 .. n
  BY DEF Run
<1>5. ASSUME NEW l \in Nat, 1 .. n = 1 .. l
      PROVE  n = l
  <2>1. /\ n \in 1 .. n \/ n = 0
        /\ l \in 1 .. l \/ l = 0
    OBVIOUS
  <2>2. /\ n \in 1 .. l \/ n = 0
        /\ l \in 1 .. n \/ l = 0
    BY <1>5, <2>1
  <2>. QED
    BY <2>2
<1>. QED
  BY <1>2, <1>3, <1>4, <1>5

LEMMA RunAppend ==
  ASSUME NEW P, NEW p \in P, NEW a \in Nat, NEW n \in Nat
  PROVE  Run(p, a, n + 1) = Append(Run(p, a, n), <<p, a + n + 1>>)
<1>. DEFINE s == Run(p, a, n)  e == <<p, a + n + 1>>  t == Run(p, a, n + 1)
<1>1. s \in Seq(P \X Nat) /\ Len(s) = n /\ t \in Seq(P \X Nat) /\ Len(t) = n + 1
  BY RunIsSeq
<1>2. e \in P \X Nat
  OBVIOUS
<1>3. /\ \A i \in 1 .. n : s[i] = <<p, a + i>>
      /\ \A i \in 1 .. n + 1 : t[i] = <<p, a + i>>
  BY DEF Run
<1>. HIDE DEF s, t, e
<1>4. /\ Append(s, e) \in Seq(P \X Nat) /\ Len(Append(s, e)) = n + 1
      /\ \A i \in 1 .. n : Append(s, e)[i] = s[i]
      /\ Append(s, e)[n + 1] = e
  BY <1>1, <1>2, AppendProperties
<1>5. \A i \in 1 .. n + 1 : t[i] = Append(s, e)[i]
  <2>. SUFFICES ASSUME NEW i \in 1 .. n + 1 PROVE t[i] = Append(s, e)[i]
    OBVIOUS
  <2>1. CASE i = n + 1
    <3>1. t[i] = <<p, a + (n + 1)>>
      BY <1>3, <2>1
    <3>. QED
      BY <1>4, <2>1, <3>1 DEF e
  <2>2. CASE i # n + 1
    <3>1. i \in 1 .. n
      BY <2>2
    <3>. QED
      BY <1>3, <1>4, <3>1
  <2>. QED
    BY <2>1, <2>2
<1>6. t = Append(s, e)
  BY <1>1, <1>4, <1>5, SeqEqual
<1>. QED
  BY <1>6 DEF s, t, e

LEMMA RunTail ==
  ASSUME NEW P, NEW p \in P, NEW a \in Nat, NEW n \in Nat \ {0}
  PROVE  /\ Run(p, a, n) # << >>
         /\ Head(Run(p, a, n)) = <<p, a + 1>>
         /\ Tail(Run(p, a, n)) = Run(p, a + 1, n - 1)
<1>. DEFINE s == Run(p, a, n)  t == Run(p, a + 1, n - 1)
<1>0. n \in Nat /\ n - 1 \in Nat /\ a + 1 \in Nat
  OBVIOUS
<1>1. s \in Seq(P \X Nat) /\ Len(s) = n /\ t \in Seq(P \X Nat) /\ Len(t) = n - 1
  BY <1>0, RunIsSeq
<1>3. /\ \A i \in 1 .. n : s[i] = <<p, a + i>>
      /\ \A i \in 1 .. n - 1 : t[i] = <<p, a + 1 + i>>
  BY DEF Run
<1>. HIDE DEF s, t
<1>2. s # << >>
  <2>1. Len(<< >>) = 0
    BY EmptySeq
  <2>. QED
    BY <1>1, <2>1
<1>4. /\ Tail(s) \in Seq(P \X Nat) /\ Len(Tail(s)) = n - 1
      /\ \A i \in 1 .. n - 1 : Tail(s)[i] = s[i + 1]
  BY <1>1, <1>2, HeadTailProperties
<1>5. \A i \in 1 .. n - 1 : t[i] = Tail(s)[i]
  <2>. SUFFICES ASSUME NEW i \in 1 .. n - 1 PROVE t[i] = Tail(s)[i]
    OBVIOUS
  <2>1. s[i + 1] = <<p, a + (i + 1)>> /\ t[i] = <<p, a + 1 + i>>
    BY <1>3
  <2>. QED
    BY <1>4, <2>1
<1>6. t = Tail(s)
  BY <1>1, <1>4, <1>5, SeqEqual
<1>7. Head(s) = <<p, a + 1>>
  BY <1>1, <1>2, <1>3
<1>. QED
  BY <1>2, <1>6, <1>7 DEF s, t

LEMMA PendingIsRun ==
  \A p \in Producers :
    /\ Pending[p] = Run(p, headIndex[p], tailIndex[p] - headIndex[p])
    /\ Pending'[p] = Run(p, headIndex'[p], tailIndex'[p] - headIndex'[p])
BY DEF Pending, Run, size_approx

LEMMA StoreRefines ==
  ASSUME IInv, NEW p \in Producers, Store(p)
  PROVE  MQ!Enqueue(p, <<p, tailIndex[p] + 1>>)
<1>. DEFINE e == <<p, tailIndex[p] + 1>>
            n == tailIndex[p] - headIndex[p]
<1>1. /\ tailIndex' = [tailIndex EXCEPT ![p] = @ + 1]
      /\ headIndex' = headIndex /\ alert' = alert
  BY DEF Store, consumer
<1>2. /\ headIndex[p] \in Nat /\ tailIndex[p] \in Nat
      /\ n \in Nat /\ headIndex[p] + n + 1 = tailIndex[p] + 1
      /\ tailIndex \in [Producers -> Int]
  BY BoundsAssumption DEF IInv, TypeOK, Indices
<1>3. /\ tailIndex'[p] - headIndex'[p] = n + 1 /\ headIndex'[p] = headIndex[p]
      /\ \A q \in Producers : q # p => tailIndex'[q] = tailIndex[q]
  BY <1>1, <1>2
<1>4. Pending'[p] = Append(Pending[p], e)
  <2>1. Pending'[p] = Run(p, headIndex[p], n + 1)
    BY <1>3, PendingIsRun
  <2>2. Pending[p] = Run(p, headIndex[p], n)
    BY PendingIsRun
  <2>3. Run(p, headIndex[p], n + 1)
          = Append(Run(p, headIndex[p], n), <<p, headIndex[p] + n + 1>>)
    BY <1>2, RunAppend
  <2>. QED
    BY <1>2, <2>1, <2>2, <2>3
<1>5. \A q \in Producers : q # p => Pending'[q] = Pending[q]
  BY <1>1, <1>3 DEF Pending, size_approx
<1>6. Pending' = [Pending EXCEPT ![p] = Append(@, e)]
  <2>1. Pending = [q \in Producers |-> Pending[q]]
    BY DEF Pending
  <2>2. Pending' = [q \in Producers |-> Pending'[q]]
    BY DEF Pending
  <2>. HIDE DEF e
  <2>. QED
    BY <1>4, <1>5, <2>1, <2>2
<1>. QED
  BY <1>1, <1>6 DEF MQ!Enqueue

LEMMA TakeRefines ==
  ASSUME IInv, Take
  PROVE  best \in Producers /\ MQ!Dequeue(best)
<1>1. /\ headIndex' = [headIndex EXCEPT ![best] = @ + 1] /\ tailIndex' = tailIndex
      /\ alert' = <<best, headIndex[best] + 1>>
      /\ size_approx(best) > 0
  BY DEF Take
<1>2. PICK p \in Producers : p = best
  BY DEF Take, IInv, TypeOK, ScanSucceeds
<1>. DEFINE n == tailIndex[p] - headIndex[p]
<1>3. /\ headIndex[p] \in Nat /\ tailIndex[p] \in Nat /\ n \in Nat \ {0}
      /\ headIndex \in [Producers -> Int]
  BY <1>1, <1>2, BoundsAssumption DEF IInv, TypeOK, Indices, size_approx
<1>4. /\ headIndex'[p] = headIndex[p] + 1
      /\ tailIndex'[p] - headIndex'[p] = n - 1
      /\ \A q \in Producers : q # p => headIndex'[q] = headIndex[q]
  BY <1>1, <1>2, <1>3
<1>5. /\ Run(p, headIndex[p], n) # << >>
      /\ Head(Run(p, headIndex[p], n)) = <<p, headIndex[p] + 1>>
      /\ Tail(Run(p, headIndex[p], n)) = Run(p, headIndex[p] + 1, n - 1)
  BY <1>3, RunTail
<1>6. Pending[p] = Run(p, headIndex[p], n)
  BY PendingIsRun
<1>7. Pending'[p] = Run(p, headIndex[p] + 1, n - 1)
  BY <1>4, PendingIsRun
<1>8. \A q \in Producers : q # p => Pending'[q] = Pending[q]
  BY <1>1, <1>4 DEF Pending, size_approx
<1>9. Pending' = [Pending EXCEPT ![p] = Tail(@)]
  <2>1. Pending = [q \in Producers |-> Pending[q]]
    BY DEF Pending
  <2>2. Pending' = [q \in Producers |-> Pending'[q]]
    BY DEF Pending
  <2>. QED
    BY <1>5, <1>6, <1>7, <1>8, <2>1, <2>2
<1>10. MQ!Dequeue(p)
  BY <1>1, <1>2, <1>5, <1>6, <1>9 DEF MQ!Dequeue
<1>. QED
  BY <1>2, <1>10

LEMMA StepRefines == IInv /\ [Next]_vars => [MQ!Next]_(MQ!qvars)
<1>. SUFFICES ASSUME IInv, [Next]_vars PROVE [MQ!Next]_(MQ!qvars)
  OBVIOUS
<1>1. ASSUME UNCHANGED <<tailIndex, headIndex, alert>>
      PROVE  UNCHANGED MQ!qvars
  BY <1>1 DEF MQ!qvars, Pending, size_approx
<1>2. ASSUME NEW p \in Producers, Store(p)
      PROVE  MQ!Next
  <2>1. <<p, tailIndex[p] + 1>> \in Messages
    BY <1>2, BoundsAssumption DEF Store, Messages, IInv, TypeOK, Indices
  <2>. QED
    BY <1>2, <2>1, StoreRefines DEF MQ!Next
<1>3. ASSUME NEW p \in Producers,
             GetProducer(p) \/ StoreFails(p) \/ Signal(p) \/ Post(p)
      PROVE  UNCHANGED <<tailIndex, headIndex, alert>>
  BY <1>3 DEF GetProducer, StoreFails, Signal, Post, consumer
<1>4. CASE Take
  BY <1>4, TakeRefines DEF MQ!Next
<1>5. CASE TryWait \/ SpinsUsedUp \/ FetchSub \/ SemWait \/ Visit \/ EndScan
  <2>1. UNCHANGED <<tailIndex, headIndex, alert>>
    BY <1>5 DEF TryWait, SpinsUsedUp, FetchSub, SemWait, Visit, EndScan
  <2>. QED
    BY <1>1, <2>1
<1>6. CASE UNCHANGED vars
  BY <1>1, <1>6 DEF vars, consumer
<1>. QED
  BY <1>1, <1>2, <1>3, <1>4, <1>5, <1>6 DEF Next, Enqueue, WaitDequeue

(* The lock-free sub-queues with their semaphore behave as the message     *)
(* queue the rest of the program is modelled with: a message comes out     *)
(* once, in the order of its producer.                                     *)
THEOREM QueueRefinement == Spec => ImplementsQueue
<1>1. Init => MQ!Init
  BY BoundsAssumption DEF Init, MQ!Init, Pending, size_approx
<1>2. IInv /\ [Next]_vars => [MQ!Next]_(MQ!qvars)
  BY StepRefines
<1>. QED
  BY <1>1, <1>2, Invariance, PTL DEF Spec, ImplementsQueue, MQ!Spec

=============================================================================
