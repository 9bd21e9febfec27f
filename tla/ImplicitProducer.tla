-------------------------- MODULE ImplicitProducer --------------------------
(***************************************************************************)
(* What is inside a sub-queue: ConcurrentQueue::ImplicitProducer, its      *)
(* blocks and the pool they come from.                                     *)
(*                                                                         *)
(* Messages lie in blocks of BLOCK_SIZE.  A producer finds its blocks      *)
(* through a block index, a ring of pairs of the first index of a block    *)
(* and the block; when the ring is full, one of twice the capacity takes   *)
(* its place, while the consumer may still be looking at the old one.  An  *)
(* emptied block goes to a free list all producers take blocks from.  The  *)
(* indices of messages are words that wrap around.                         *)
(*                                                                         *)
(* The k-th message of a producer is numbered modulo the range of an       *)
(* index: nothing but the memory bounds how many there are.  The free list *)
(* is a set here, from which any member may come; FreeList is about what   *)
(* is inside it.                                                           *)
(***************************************************************************)
EXTENDS Integers, Sequences, FiniteSets

CONSTANTS
  Producers,
  Blocks,            \* all blocks the memory has room for
  InitialBlockPool,  \* those that are allocated with the queue (6)
  NoBlock,           \* the null pointer
  Garbage,           \* what an atomic holds that was never stored to
  NoMessage,
  BLOCK_SIZE,        \* 32
  IMPLICIT_INITIAL_INDEX_SIZE,   \* 32
  IndexRange,        \* 2^w for index_t of w bits
  OneBlock           \* bound: producers that send one block of messages only

ASSUME BlocksAssumption ==
  /\ IsFiniteSet(Blocks) /\ InitialBlockPool \subseteq Blocks
  /\ {NoBlock, Garbage} \cap Blocks = {} /\ NoBlock # Garbage

\* A power of two is a number whose only odd divisor is 1.
IsPowerOfTwo(n) ==
  n \in Nat \ {0} /\ \A d \in 2 .. n : n % d = 0 => d % 2 = 0

\* The two sizes are powers of two, 32 each, and much smaller than the range.
ASSUME SizesAssumption ==
  /\ \A n \in {BLOCK_SIZE, IMPLICIT_INITIAL_INDEX_SIZE, IndexRange} : IsPowerOfTwo(n)
  /\ BLOCK_SIZE > 1 /\ IMPLICIT_INITIAL_INDEX_SIZE > 1
  /\ IndexRange >= 4 * BLOCK_SIZE
  /\ IndexRange % (BLOCK_SIZE * IMPLICIT_INITIAL_INDEX_SIZE) = 0

ASSUME NoMessageAssumption == NoMessage \notin Producers

VARIABLES
  tailIndex, headIndex,        \* ProducerBase
  tailBlock,
  headers,    \* the block indices of a producer; blockIndex is the last one
  entries,    \* the entries they point to
  contents,   \* Block::elements
  elementsCompletelyDequeued,
  pool,       \* what is left of the initial pool
  freeList,
  heap,       \* blocks not allocated yet
  enq,        \* where each producer is in enqueue
  deq,        \* where the consumer is in dequeue
  from, index,          \* its producer and its index
  localBlockIndex, tail, entry, block,   \* its locals
  element     \* the message it has taken last

indices == <<tailIndex, headIndex, tailBlock>>
memory == <<contents, elementsCompletelyDequeued, pool, freeList, heap>>
locals == <<from, index, localBlockIndex, tail, entry, block>>
consumer == <<deq, locals, element>>
vars == <<indices, headers, entries, memory, enq, consumer>>

-----------------------------------------------------------------------------
(* Arithmetic on indices.                                                  *)

Plus(a, b) == (a + b) % IndexRange
Minus(a, b) == (a - b) % IndexRange

circular_less_than(a, b) == Minus(a, b) > IndexRange \div 2

Base(i) == i - (i % BLOCK_SIZE)
Slots == 0 .. BLOCK_SIZE - 1
INVALID_BLOCK_BASE == 1

-----------------------------------------------------------------------------
(* The block index.                                                        *)

\* Entry numbers: the n-th that was made is entry n.
NewEntry == [key |-> INVALID_BLOCK_BASE, value |-> Garbage]
FirstHeader ==
  [capacity |-> IMPLICIT_INITIAL_INDEX_SIZE,
   tail |-> IMPLICIT_INITIAL_INDEX_SIZE - 1,
   index |-> [i \in 0 .. IMPLICIT_INITIAL_INDEX_SIZE - 1 |-> i + 1]]

blockIndex(p) == headers[p][Len(headers[p])]
newTail(p) == (blockIndex(p).tail + 1) % blockIndex(p).capacity
idxEntry(p, i) == blockIndex(p).index[i]

\* Mutant: the entries are copied from the newest on, not from the oldest on.
Copied_FromTail(h, i) == h.index[(h.tail + i) % h.capacity]

\* prev->index, from the one behind its tail, which is the oldest.
Copied(h, i) == h.index[(h.tail + 1 + i) % h.capacity]

\* new_block_index: the old entries, then as many new ones.
Doubled(p) ==
  LET h == blockIndex(p) IN
  [capacity |-> 2 * h.capacity,
   tail |-> h.capacity - 1,
   index |-> [i \in 0 .. 2 * h.capacity - 1 |->
                IF i < h.capacity THEN Copied(h, i)
                ELSE Len(entries[p]) + 1 + i - h.capacity]]

Free(e) == e.key = INVALID_BLOCK_BASE \/ e.value = NoBlock

-----------------------------------------------------------------------------
NoneTaken ==
  /\ from = NoMessage /\ index = 0 /\ localBlockIndex = 0
  /\ tail = 0 /\ entry = 0 /\ block = NoBlock

\* A producer has no index at all if its constructor found no memory for one.
Init ==
  /\ tailIndex = [p \in Producers |-> 0]
  /\ headIndex = [p \in Producers |-> 0]
  /\ tailBlock = [p \in Producers |-> NoBlock]
  /\ headers \in [Producers -> {<< >>, <<FirstHeader>>}]
  /\ entries = [p \in Producers |->
                  [n \in 1 .. IMPLICIT_INITIAL_INDEX_SIZE |-> NewEntry]]
  /\ contents = [b \in Blocks |-> [s \in Slots |-> NoMessage]]
  /\ elementsCompletelyDequeued = [b \in Blocks |-> 0]
  /\ pool = InitialBlockPool
  /\ freeList = {}
  /\ heap = Blocks \ InitialBlockPool
  /\ enq = [p \in Producers |-> "idle"]
  /\ deq = "idle"
  /\ NoneTaken
  /\ element = NoMessage

-----------------------------------------------------------------------------
(* enqueue, on the thread of producer p.                                   *)

Goto(p, l) == enq' = [enq EXCEPT ![p] = l]

InTailBlock(p) ==
  /\ enq[p] = "idle" /\ tailIndex[p] % BLOCK_SIZE # 0
  /\ Goto(p, "store")
  /\ UNCHANGED <<indices, headers, entries, memory, consumer>>

RoomAhead(p) == circular_less_than(headIndex[p], Plus(tailIndex[p], BLOCK_SIZE))

\* The last block is full.
StartBlock(p) ==
  /\ enq[p] = "idle" /\ tailIndex[p] % BLOCK_SIZE = 0
  /\ RoomAhead(p) /\ headers[p] # << >>
  /\ p \in OneBlock => tailIndex[p] = 0
  /\ Goto(p, "entry")
  /\ UNCHANGED <<indices, headers, entries, memory, consumer>>

\* The index has come around to the head, or there is no block index: enqueue
\* returns false.
Refused(p) ==
  /\ enq[p] = "idle" /\ tailIndex[p] % BLOCK_SIZE = 0
  /\ RoomAhead(p) => headers[p] = << >>
  /\ UNCHANGED vars

\* insert_block_index_entry: the key of the next entry, if that is free ...
StoreKey(p) ==
  /\ enq[p] = "entry"
  /\ LET e == idxEntry(p, newTail(p)) IN
       /\ Free(entries[p][e])
       /\ entries' = [entries EXCEPT ![p][e].key = tailIndex[p]]
  /\ Goto(p, "tail")
  /\ UNCHANGED <<indices, headers, memory, consumer>>

\* ... then the tail of the ring.
StoreTail(p) ==
  /\ enq[p] = "tail"
  /\ headers' = [headers EXCEPT ![p][Len(headers[p])].tail = newTail(p)]
  /\ Goto(p, "block")
  /\ UNCHANGED <<indices, entries, memory, consumer>>

\* new_block_index: a ring of twice the capacity, in which the next entry is free.
NewBlockIndex(p) ==
  /\ enq[p] = "entry" /\ ~Free(entries[p][idxEntry(p, newTail(p))])
  /\ headers' = [headers EXCEPT ![p] = Append(@, Doubled(p))]
  /\ entries' = [entries EXCEPT ![p] = @ \o [i \in 1 .. blockIndex(p).capacity |-> NewEntry]]
  /\ UNCHANGED <<indices, memory, enq, consumer>>

NewBlockIndexFails(p) ==
  /\ enq[p] = "entry" /\ ~Free(entries[p][idxEntry(p, newTail(p))])
  /\ Goto(p, "idle")
  /\ UNCHANGED <<indices, headers, entries, memory, consumer>>

\* Mutant: a used block keeps its count.
Install_Stale(p, b) ==
  /\ UNCHANGED elementsCompletelyDequeued
  /\ entries' = [entries EXCEPT ![p][idxEntry(p, blockIndex(p).tail)].value = b]
  /\ tailBlock' = [tailBlock EXCEPT ![p] = b]

\* reset_empty, and the block goes into the entry.
Install(p, b) ==
  /\ elementsCompletelyDequeued' = [elementsCompletelyDequeued EXCEPT ![b] = 0]
  /\ entries' = [entries EXCEPT ![p][idxEntry(p, blockIndex(p).tail)].value = b]
  /\ tailBlock' = [tailBlock EXCEPT ![p] = b]

\* requisition_block: from the initial pool, else from the free list.  Nobody
\* else sees the block until it is in its entry.
RequisitionBlock(p) ==
  /\ enq[p] = "block"
  /\ \E b \in Blocks :
       /\ \/ b \in pool /\ pool' = pool \ {b} /\ UNCHANGED freeList
          \/ pool = {} /\ b \in freeList /\ freeList' = freeList \ {b} /\ UNCHANGED pool
       /\ Install(p, b)
  /\ Goto(p, "store")
  /\ UNCHANGED <<tailIndex, headIndex, headers, contents, heap, consumer>>

\* Both are empty when it looks; the consumer may give a block back after that.
\* And try_get may miss a block if another producer is in it at some moment of
\* the call (BlockPool).  Of that one the null may be settled by then.
NoneFree(p) ==
  /\ enq[p] = "block" /\ pool = {}
  /\ freeList = {} \/ \E q \in Producers \ {p} : enq[q] \in {"block", "malloc"}
  /\ Goto(p, "malloc")
  /\ UNCHANGED <<indices, headers, entries, memory, consumer>>

Allocate(p) ==
  /\ enq[p] = "malloc"
  /\ \E b \in heap : heap' = heap \ {b} /\ Install(p, b)
  /\ Goto(p, "store")
  /\ UNCHANGED <<tailIndex, headIndex, headers, contents, pool, freeList, consumer>>

\* rewind_block_index_tail and return false.
RequisitionFails(p) ==
  /\ enq[p] = "malloc"
  /\ entries' = [entries EXCEPT ![p][idxEntry(p, blockIndex(p).tail)].value = NoBlock]
  /\ headers' = [headers EXCEPT ![p][Len(headers[p])].tail =
                   (@ - 1) % blockIndex(p).capacity]
  /\ Goto(p, "idle")
  /\ UNCHANGED <<indices, memory, consumer>>

\* The message, and tailIndex, which publishes it.
Store(p) ==
  /\ enq[p] = "store"
  /\ contents' = [contents EXCEPT
       ![tailBlock[p]][tailIndex[p] % BLOCK_SIZE] = <<p, tailIndex[p]>>]
  /\ tailIndex' = [tailIndex EXCEPT ![p] = Plus(@, 1)]
  /\ Goto(p, "idle")
  /\ UNCHANGED <<headIndex, tailBlock, headers, entries, elementsCompletelyDequeued,
                 pool, freeList, heap, consumer>>

-----------------------------------------------------------------------------
(* dequeue, on the main thread.                                            *)

producerSide == <<tailIndex, tailBlock, headers, enq>>

\* Mutant: the fetch_add on headIndex is taken to return the new value.
Claim_NewValue(p) ==
  /\ deq = "idle" /\ circular_less_than(headIndex[p], tailIndex[p])
  /\ from' = p /\ index' = Plus(headIndex[p], 1)
  /\ headIndex' = [headIndex EXCEPT ![p] = Plus(@, 1)]
  /\ deq' = "index"
  /\ UNCHANGED <<producerSide, entries, memory,
                 localBlockIndex, tail, entry, block, element>>

Claim(p) ==
  /\ deq = "idle" /\ circular_less_than(headIndex[p], tailIndex[p])
  /\ from' = p /\ index' = headIndex[p]
  /\ headIndex' = [headIndex EXCEPT ![p] = Plus(@, 1)]
  /\ deq' = "index"
  /\ UNCHANGED <<producerSide, entries, memory,
                 localBlockIndex, tail, entry, block, element>>

\* get_block_index_index_for_index: which ring there is, ...
LoadBlockIndex ==
  /\ deq = "index"
  /\ localBlockIndex' = Len(headers[from])
  /\ deq' = "tail"
  /\ UNCHANGED <<producerSide, headIndex, entries, memory,
                 from, index, tail, entry, block, element>>

\* ... where its tail is, ...
LoadTail ==
  /\ deq = "tail"
  /\ tail' = headers[from][localBlockIndex].tail
  /\ deq' = "entry"
  /\ UNCHANGED <<producerSide, headIndex, entries, memory,
                 from, index, localBlockIndex, entry, block, element>>

\* ... and how many blocks ago the index was, as a word: the quotient is one of
\* words, too, since BLOCK_SIZE is unsigned.
FindEntry ==
  /\ deq = "entry"
  /\ LET h == headers[from][localBlockIndex]
         tailBase == entries[from][h.index[tail]].key
         offset == Minus(Base(index), tailBase) \div BLOCK_SIZE
     IN  entry' = h.index[(tail + offset) % h.capacity]
  /\ deq' = "element"
  /\ UNCHANGED <<producerSide, headIndex, entries, memory,
                 from, index, localBlockIndex, tail, block, element>>

\* set_empty: this was the last message of the block.
Emptied(n) == n = BLOCK_SIZE

TakeElement ==
  /\ deq = "element"
  /\ LET b == entries[from][entry].value
         n == elementsCompletelyDequeued[b] + 1
     IN  /\ element' = contents[b][index % BLOCK_SIZE]
         /\ contents' = [contents EXCEPT ![b][index % BLOCK_SIZE] = NoMessage]
         /\ elementsCompletelyDequeued' = [elementsCompletelyDequeued EXCEPT ![b] = n]
         /\ IF Emptied(n)
            THEN deq' = "clear" /\ block' = b /\ UNCHANGED <<from, entry>>
            ELSE deq' = "idle" /\ from' = NoMessage /\ entry' = 0 /\ UNCHANGED block
  /\ index' = 0 /\ localBlockIndex' = 0 /\ tail' = 0
  /\ UNCHANGED <<producerSide, headIndex, entries, pool, freeList, heap>>

\* Mutant: the entry of a block that is given back still points to it.
ClearEntry_Not ==
  /\ deq = "clear"
  /\ deq' = "add" /\ from' = NoMessage /\ entry' = 0
  /\ UNCHANGED <<producerSide, headIndex, entries, memory,
                 index, localBlockIndex, tail, block, element>>

ClearEntry ==
  /\ deq = "clear"
  /\ entries' = [entries EXCEPT ![from][entry].value = NoBlock]
  /\ deq' = "add" /\ from' = NoMessage /\ entry' = 0
  /\ UNCHANGED <<producerSide, headIndex, memory,
                 index, localBlockIndex, tail, block, element>>

\* add_block_to_free_list
AddToFreeList ==
  /\ deq = "add"
  /\ freeList' = freeList \cup {block}
  /\ block' = NoBlock
  /\ deq' = "idle"
  /\ UNCHANGED <<producerSide, headIndex, entries, contents, pool, heap,
                 elementsCompletelyDequeued, from, index, localBlockIndex, tail,
                 entry, element>>

-----------------------------------------------------------------------------
Enqueue(p) ==
  \/ InTailBlock(p) \/ StartBlock(p) \/ Refused(p)
  \/ StoreKey(p) \/ StoreTail(p)
  \/ NewBlockIndex(p) \/ NewBlockIndexFails(p)
  \/ RequisitionBlock(p) \/ NoneFree(p) \/ Allocate(p) \/ RequisitionFails(p)
  \/ Store(p)

Dequeue ==
  \/ \E p \in Producers : Claim(p)
  \/ LoadBlockIndex \/ LoadTail \/ FindEntry
  \/ TakeElement \/ ClearEntry \/ AddToFreeList

Next == Dequeue \/ \E p \in Producers : Enqueue(p)

Spec == Init /\ [][Next]_vars

-----------------------------------------------------------------------------
(* Properties.                                                             *)

Words == 0 .. IndexRange - 1
Messages == Producers \X Words

IsHeader(h, n) ==
  /\ h.tail \in 0 .. h.capacity - 1
  /\ h.index \in [0 .. h.capacity - 1 -> 1 .. n]
  /\ Cardinality({h.index[i] : i \in 0 .. h.capacity - 1}) = h.capacity

\* A ring has as many entries as its capacity says, each once, and a block has
\* as many messages taken from it as it holds at most.
TypeOK ==
  /\ tailIndex \in [Producers -> Words] /\ headIndex \in [Producers -> Words]
  /\ tailBlock \in [Producers -> Blocks \cup {NoBlock}]
  /\ \A p \in Producers : \A i \in DOMAIN headers[p] :
       IsHeader(headers[p][i], Len(entries[p]))
  /\ \A p \in Producers : \A i \in DOMAIN entries[p] :
       /\ entries[p][i].key \in Words
       /\ entries[p][i].value \in Blocks \cup {NoBlock, Garbage}
  /\ contents \in [Blocks -> [Slots -> Messages \cup {NoMessage}]]
  /\ elementsCompletelyDequeued \in [Blocks -> 0 .. BLOCK_SIZE]
  /\ pool \subseteq Blocks /\ freeList \subseteq Blocks /\ heap \subseteq Blocks
  /\ enq \in [Producers -> {"idle", "entry", "tail", "block", "malloc", "store"}]
  /\ deq \in {"idle", "index", "tail", "entry", "element", "clear", "add"}
  /\ index \in Words
  /\ block \in Blocks \cup {NoBlock}
  /\ element \in Messages \cup {NoMessage}

InIndex(b) ==
  {pn \in UNION {{p} \X DOMAIN entries[p] : p \in Producers} :
     entries[pn[1]][pn[2]].value = b}

\* Every block is in one place: not allocated, in the initial pool, in the free
\* list, in one entry of one producer, or in the consumer's hands on its way to
\* the free list.  None is lost, whichever allocations fail, and none is used
\* by two producers.
BlocksAccounted ==
  \A b \in Blocks :
    Cardinality(InIndex(b))
    + (IF b \in pool THEN 1 ELSE 0) + (IF b \in freeList THEN 1 ELSE 0)
    + (IF b \in heap THEN 1 ELSE 0)
    + (IF deq = "add" /\ b = block THEN 1 ELSE 0) = 1

\* The assertion at concurrentqueue.h:2945.  Whatever the producer did to the
\* ring since the consumer looked at it, added or took back an entry, or
\* replaced it by a larger one, the entry found is that of the index's block.
EntryFound ==
  deq = "element" =>
    /\ entries[from][entry].key = Base(index)
    /\ entries[from][entry].value \in Blocks

\* The messages from the one the consumer is at to the last published.
Untaken(p) ==
  LET first == IF from = p /\ deq \notin {"clear", "add"} THEN index ELSE headIndex[p]
  IN  [i \in 1 .. Minus(tailIndex[p], first) |-> <<p, Plus(first, i - 1)>>]

MQ == INSTANCE MessageQueue
        WITH queue <- [p \in Producers |-> Untaken(p)], alert <- element

\* A sub-queue is a queue: what the consumer takes out of the block it finds is
\* the producer's oldest message, however often the indices have wrapped around.
\* This is MQ!Spec with the message named, the one at the tail.
ImplementsQueue ==
  /\ MQ!Init
  /\ [][\E p \in Producers :
          MQ!Dequeue(p) \/ MQ!Enqueue(p, <<p, tailIndex[p]>>)]_(MQ!qvars)

=============================================================================
