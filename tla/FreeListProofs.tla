---------------------------- MODULE FreeListProofs ----------------------------
(***************************************************************************)
(* Proofs about FreeList, for any number of threads and blocks and any     *)
(* width of freeListRefs that has room for the threads.                    *)
(*                                                                         *)
(* A block is in one of six states, and in each of them freeListRefs is a  *)
(* known function of the number of threads that hold a reference to it.    *)
(* What keeps a thread from reading a next pointer that is about to change *)
(* is that the one who changes it does so where nobody holds a reference.  *)
(*                                                                         *)
(* A thread that is alone in try_get is not sent away while there is a     *)
(* block: what it read as the head stays on the list, since the consumer   *)
(* only pushes, and a block that is not on the list although it can be had *)
(* is in the hands of some thread, which would have to be another one.     *)
(***************************************************************************)
EXTENDS FreeList, FiniteSetTheorems, SequenceTheorems, TLAPS

-----------------------------------------------------------------------------
(* The invariant.                                                          *)

\* The threads that link b in, before it counts the list's reference and after.
Early(b) == {t \in Threads : pc[t] \in {"top", "link", "count"} /\ node[t] = b}
Late(b) == {t \in Threads : pc[t] \in {"push", "defer"} /\ node[t] = b}

Held(b) == Cardinality(Holders(b))

\* Who has taken b or is linking it in.
Owners(b, taking, early, late) ==
  Takers(b) = taking /\ Early(b) = early /\ Late(b) = late

\* The states of a block; L are the blocks on the list.
Used(b, L) ==
  /\ b \in inUse /\ b \notin L /\ Owners(b, {}, {}, {})
  /\ freeListRefs[b] = Held(b)
Listed(b, L) ==
  /\ b \notin inUse /\ b \in L /\ Owners(b, {}, {}, {})
  /\ freeListRefs[b] = Held(b) + 1
Taken(b, L) ==
  /\ b \notin inUse /\ b \notin L /\ \E t \in Threads : Owners(b, {t}, {}, {})
  /\ freeListRefs[b] = Held(b) + 1
Linking1(b, L) ==
  /\ b \notin inUse /\ b \notin L /\ \E t \in Threads : Owners(b, {}, {t}, {})
  /\ freeListRefs[b] = SHOULD_BE_ON_FREELIST /\ Held(b) = 0
Linking2(b, L) ==
  /\ b \notin inUse /\ b \notin L /\ \E t \in Threads : Owners(b, {}, {}, {t})
  /\ freeListRefs[b] = Held(b) + 1
Waiting(b, L) ==
  /\ b \notin inUse /\ b \notin L /\ Owners(b, {}, {}, {})
  /\ freeListRefs[b] = SHOULD_BE_ON_FREELIST + Held(b) /\ Held(b) # 0

BlockOK(b, L) ==
  \/ Used(b, L) \/ Listed(b, L) \/ Taken(b, L)
  \/ Linking1(b, L) \/ Linking2(b, L) \/ Waiting(b, L)

\* The locals in use are set.
LocalsSet ==
  \A t \in Threads :
    /\ pc[t] \in {"refs", "increment", "next", "pop", "release"} => head[t] \in Blocks
    /\ pc[t] \in {"drop"} \cup Linking => node[t] \in Blocks
    /\ pc[t] = "increment" => Count(refs[t]) # 0

\* What a thread is about to compare the head with is where its block leads.
TopIsCurrent ==
  \A t \in Threads : pc[t] \in {"count", "push"} => freeListNext[node[t]] = top[t]

ListAndBlocks(s) == IsList(s) /\ \A b \in Blocks : BlockOK(b, ToSet(s))

\* All but the ranges of freeListRefs, which follow from the states.
Types ==
  /\ freeListHead \in Blocks \cup {NoBlock}
  /\ freeListRefs \in [Blocks -> Int]
  /\ freeListNext \in [Blocks -> Blocks \cup {NoBlock}]
  /\ inUse \in SUBSET Blocks
  /\ pc \in [Threads -> {"idle", "load", "refs", "increment", "next", "pop", "release",
                         "drop", "top", "link", "count", "push", "defer"}]
  /\ head \in [Threads -> Blocks \cup {NoBlock}]
  /\ refs \in [Threads -> 0 .. 2 * SHOULD_BE_ON_FREELIST - 1]
  /\ next \in [Threads -> Blocks \cup {NoBlock}]
  /\ node \in [Threads -> Blocks \cup {NoBlock}]
  /\ top \in [Threads -> Blocks \cup {NoBlock}]

\* The consumer is never in try_get.
AdderAdds == pc[Adder] \in {"idle"} \cup Linking /\ head[Adder] = NoBlock

\* Who has met another call or an empty pool, and what a call knows that has
\* not: the block it read as the head is on the list, since nobody else pops.
Met ==
  /\ met \subseteq Calls
  /\ \A t \in Calls : Calls # {t} \/ NotToBeHad = Blocks => t \in met
Alone(s) ==
  \A t \in Calls \ met : pc[t] \notin {"load", "release"} => head[t] \in ToSet(s)

IInv ==
  /\ Types /\ LocalsSet /\ NextIsCurrent /\ TopIsCurrent /\ AdderAdds /\ Met
  /\ \E s \in Seq(Blocks) : ListAndBlocks(s) /\ Alone(s)

-----------------------------------------------------------------------------
(* Counting.                                                               *)

LEMMA ThreadsFinite ==
  /\ IsFiniteSet(Threads) /\ Cardinality(Threads) \in Nat
  /\ SHOULD_BE_ON_FREELIST \in Nat /\ SHOULD_BE_ON_FREELIST > Cardinality(Threads) + 1
<1>1. IsFiniteSet(Threads)
  BY ThreadsAssumption, FS_AddElement DEF Threads
<1> QED BY <1>1, FS_CardinalityType, WidthAssumption

LEMMA HeldRange ==
  ASSUME NEW b
  PROVE  IsFiniteSet(Holders(b)) /\ Held(b) \in Nat /\ Held(b) <= Cardinality(Threads)
<1>1. Holders(b) \in SUBSET Threads
  BY DEF Holders
<1>2. IsFiniteSet(Holders(b)) /\ Cardinality(Holders(b)) <= Cardinality(Threads)
  BY <1>1, ThreadsFinite, FS_Subset
<1> QED BY <1>2, FS_CardinalityType DEF Held

LEMMA HeldByOne ==
  ASSUME NEW b, NEW t \in Holders(b)
  PROVE  Held(b) # 0
<1>1. IsFiniteSet(Holders(b)) /\ Holders(b) # {}
  BY HeldRange
<1> QED BY <1>1, FS_EmptySet DEF Held

LEMMA ExceptSame ==
  ASSUME NEW f, NEW v, NEW t, NEW u \in DOMAIN f, u # t
  PROVE  [f EXCEPT ![t] = v][u] = f[u]
OBVIOUS

\* A step of t leaves the locals of the others alone.
Others(t) ==
  \A u \in Threads \ {t} :
    /\ pc'[u] = pc[u] /\ head'[u] = head[u] /\ refs'[u] = refs[u]
    /\ next'[u] = next[u] /\ node'[u] = node[u] /\ top'[u] = top[u]

LEMMA OthersSame ==
  ASSUME Types, NEW t \in Threads, Step(t)
  PROVE  Others(t)
<1>1. /\ DOMAIN pc = Threads /\ DOMAIN head = Threads /\ DOMAIN refs = Threads
      /\ DOMAIN next = Threads /\ DOMAIN node = Threads /\ DOMAIN top = Threads
  BY DEF Types
<1> USE DEF Others, Goto, locals, Resume
<1>2. CASE Call(t)
  BY <1>1, <1>2 DEF Call
<1>3. CASE LoadHead(t)
  BY <1>1, <1>3 DEF LoadHead
<1>4. CASE LoadRefs(t)
  BY <1>1, <1>4 DEF LoadRefs
<1>5. CASE Increment(t)
  BY <1>1, <1>5 DEF Increment
<1>6. CASE LoadNext(t)
  BY <1>1, <1>6 DEF LoadNext
<1>7. CASE Pop(t)
  BY <1>1, <1>7 DEF Pop
<1>8. CASE Release(t)
  BY <1>1, <1>8 DEF Release
<1>9. CASE Drop(t)
  BY <1>1, <1>9 DEF Drop
<1>10. CASE Add(t)
  BY <1>1, <1>10 DEF Add
<1>11. CASE LoadTop(t)
  BY <1>1, <1>11 DEF LoadTop
<1>12. CASE StoreNext(t)
  BY <1>1, <1>12 DEF StoreNext
<1>13. CASE StoreRefs(t)
  BY <1>1, <1>13 DEF StoreRefs
<1>14. CASE Push(t)
  BY <1>1, <1>14 DEF Push
<1>15. CASE Defer(t)
  BY <1>1, <1>15 DEF Defer
<1> QED BY <1>2, <1>3, <1>4, <1>5, <1>6, <1>7, <1>8, <1>9, <1>10, <1>11, <1>12, <1>13,
           <1>14, <1>15 DEF Step, TryGet, AddKnowingRefcountIsZero

\* What t itself contributes to the sets of threads around a block.
Holds(t, b) ==
  \/ pc[t] \in {"next", "pop", "release"} /\ head[t] = b
  \/ pc[t] = "drop" /\ node[t] = b
Takes(t, b) == pc[t] = "release" /\ head[t] = b
Links1(t, b) == pc[t] \in {"top", "link", "count"} /\ node[t] = b
Links2(t, b) == pc[t] \in {"push", "defer"} /\ node[t] = b

LEMMA SetsChange ==
  ASSUME NEW t \in Threads, Others(t), NEW b
  PROVE  /\ Holders(b)' = IF Holds(t, b)' THEN Holders(b) \cup {t} ELSE Holders(b) \ {t}
         /\ Takers(b)' = IF Takes(t, b)' THEN Takers(b) \cup {t} ELSE Takers(b) \ {t}
         /\ Early(b)' = IF Links1(t, b)' THEN Early(b) \cup {t} ELSE Early(b) \ {t}
         /\ Late(b)' = IF Links2(t, b)' THEN Late(b) \cup {t} ELSE Late(b) \ {t}
<1>1. Holders(b)' = IF Holds(t, b)' THEN Holders(b) \cup {t} ELSE Holders(b) \ {t}
  BY DEF Others, Holders, Holds
<1>2. Takers(b)' = IF Takes(t, b)' THEN Takers(b) \cup {t} ELSE Takers(b) \ {t}
  BY DEF Others, Takers, Takes
<1>3. Early(b)' = IF Links1(t, b)' THEN Early(b) \cup {t} ELSE Early(b) \ {t}
  BY DEF Others, Early, Links1
<1>4. Late(b)' = IF Links2(t, b)' THEN Late(b) \cup {t} ELSE Late(b) \ {t}
  BY DEF Others, Late, Links2
<1> QED BY <1>1, <1>2, <1>3, <1>4

LEMMA SetsNow ==
  ASSUME NEW t \in Threads, NEW b
  PROVE  /\ t \in Holders(b) <=> Holds(t, b)
         /\ t \in Takers(b) <=> Takes(t, b)
         /\ t \in Early(b) <=> Links1(t, b)
         /\ t \in Late(b) <=> Links2(t, b)
BY DEF Holders, Holds, Takers, Takes, Early, Links1, Late, Links2

LEMMA HeldChange ==
  ASSUME NEW t \in Threads, Others(t), NEW b
  PROVE  /\ Holds(t, b) /\ Holds(t, b)' => Held(b)' = Held(b)
         /\ ~Holds(t, b) /\ ~Holds(t, b)' => Held(b)' = Held(b)
         /\ ~Holds(t, b) /\ Holds(t, b)' => Held(b)' = Held(b) + 1
         /\ Holds(t, b) /\ ~Holds(t, b)' => Held(b)' = Held(b) - 1 /\ Held(b) # 0
<1>1. IsFiniteSet(Holders(b)) /\ Held(b) = Cardinality(Holders(b))
  BY HeldRange DEF Held
<1>2. Held(b)' = Cardinality(Holders(b)')
  BY DEF Held
<1>3. /\ Cardinality(Holders(b) \cup {t}) = IF t \in Holders(b) THEN Held(b) ELSE Held(b) + 1
      /\ Cardinality(Holders(b) \ {t}) = IF t \in Holders(b) THEN Held(b) - 1 ELSE Held(b)
  BY <1>1, FS_AddElement, FS_RemoveElement
<1>4. Holds(t, b) => Held(b) # 0
  BY HeldByOne, SetsNow
<1> QED BY <1>2, <1>3, <1>4, SetsChange, SetsNow

\* A block that t has nothing to do with, before and after, stays as it is.
Uninvolved(t, b) ==
  /\ Holds(t, b)' <=> Holds(t, b)
  /\ Takes(t, b)' <=> Takes(t, b)
  /\ Links1(t, b)' <=> Links1(t, b)
  /\ Links2(t, b)' <=> Links2(t, b)

LEMMA SetsFrame ==
  ASSUME NEW t \in Threads, Others(t), NEW b, Uninvolved(t, b)
  PROVE  /\ Takers(b)' = Takers(b) /\ Early(b)' = Early(b) /\ Late(b)' = Late(b)
         /\ Held(b)' = Held(b)
<1>1. Takers(b)' = Takers(b) /\ Early(b)' = Early(b) /\ Late(b)' = Late(b)
  BY SetsChange, SetsNow DEF Uninvolved
<1>2. Held(b)' = Held(b)
  BY HeldChange DEF Uninvolved
<1> QED BY <1>1, <1>2

LEMMA BlockFrame ==
  ASSUME NEW t \in Threads, Others(t), NEW b, Uninvolved(t, b),
         freeListRefs'[b] = freeListRefs[b], b \in inUse' <=> b \in inUse,
         NEW L, NEW M, b \in M <=> b \in L, BlockOK(b, L)
  PROVE  BlockOK(b, M)'
<1>1. /\ Takers(b)' = Takers(b) /\ Early(b)' = Early(b) /\ Late(b)' = Late(b)
      /\ Held(b)' = Held(b)
  BY SetsFrame
<1>2. \A x, y, z : Owners(b, x, y, z) => Owners(b, x, y, z)'
  BY <1>1 DEF Owners
<1>3. CASE Used(b, L)
  BY <1>1, <1>2, <1>3 DEF Used, BlockOK
<1>4. CASE Listed(b, L)
  BY <1>1, <1>2, <1>4 DEF Listed, BlockOK
<1>5. CASE Taken(b, L)
  BY <1>1, <1>2, <1>5 DEF Taken, BlockOK
<1>6. CASE Linking1(b, L)
  BY <1>1, <1>2, <1>6 DEF Linking1, BlockOK
<1>7. CASE Linking2(b, L)
  BY <1>1, <1>2, <1>7 DEF Linking2, BlockOK
<1>8. CASE Waiting(b, L)
  BY <1>1, <1>2, <1>8 DEF Waiting, BlockOK
<1> QED BY <1>3, <1>4, <1>5, <1>6, <1>7, <1>8 DEF BlockOK


\* The state of a block follows from what a thread does with it.
LEMMA StateOf ==
  ASSUME NEW t \in Threads, NEW b, NEW L, BlockOK(b, L)
  PROVE  /\ b \in inUse => Used(b, L)
         /\ b \in L => Listed(b, L)
         /\ Takes(t, b) => Taken(b, L) /\ Owners(b, {t}, {}, {})
         /\ Links1(t, b) => Linking1(b, L) /\ Owners(b, {}, {t}, {})
         /\ Links2(t, b) => Linking2(b, L) /\ Owners(b, {}, {}, {t})
<1>1. b \in inUse => Used(b, L)
  BY DEF BlockOK, Listed, Taken, Linking1, Linking2, Waiting
<1>2. b \in L => Listed(b, L)
  BY DEF BlockOK, Used, Taken, Linking1, Linking2, Waiting
<1>3. ASSUME Takes(t, b) PROVE Taken(b, L) /\ Owners(b, {t}, {}, {})
  BY <1>3, SetsNow DEF BlockOK, Used, Listed, Taken, Linking1, Linking2, Waiting, Owners
<1>4. ASSUME Links1(t, b) PROVE Linking1(b, L) /\ Owners(b, {}, {t}, {})
  BY <1>4, SetsNow DEF BlockOK, Used, Listed, Taken, Linking1, Linking2, Waiting, Owners
<1>5. ASSUME Links2(t, b) PROVE Linking2(b, L) /\ Owners(b, {}, {}, {t})
  BY <1>5, SetsNow DEF BlockOK, Used, Listed, Taken, Linking1, Linking2, Waiting, Owners
<1> QED BY <1>1, <1>2, <1>3, <1>4, <1>5

\* Where a thread is, before and after a step that moves it to l.
LEMMA PcAt ==
  ASSUME Types, NEW t \in Threads, NEW l, Goto(t, l)
  PROVE  pc'[t] = l
BY DEF Types, Goto

-----------------------------------------------------------------------------
(* Steps that change no block's state.                                     *)

LEMMA ReadingStep ==
  ASSUME Types, NEW t \in Threads, NEW b,
         \/ Call(t) \/ LoadHead(t) \/ LoadRefs(t) \/ LoadNext(t) \/ LoadTop(t)
         \/ StoreNext(t)
         \/ Increment(t) /\ freeListRefs[head[t]] # refs[t]
         \/ Pop(t) /\ freeListHead # head[t]
         \/ Push(t) /\ freeListHead # top[t]
  PROVE  Uninvolved(t, b)
<1>1. t \in DOMAIN pc /\ t \in DOMAIN head /\ t \in DOMAIN node
  BY DEF Types
<1> USE DEF Uninvolved, Holds, Takes, Links1, Links2, Goto
<1>2. CASE Call(t)
  BY <1>1, <1>2 DEF Call, locals
<1>3. CASE LoadHead(t)
  BY <1>1, <1>3 DEF LoadHead
<1>4. CASE LoadRefs(t)
  BY <1>1, <1>4 DEF LoadRefs
<1>5. CASE LoadNext(t)
  BY <1>1, <1>5 DEF LoadNext
<1>6. CASE LoadTop(t)
  BY <1>1, <1>6 DEF LoadTop
<1>7. CASE StoreNext(t)
  BY <1>1, <1>7 DEF StoreNext, locals
<1>8. CASE Increment(t) /\ freeListRefs[head[t]] # refs[t]
  BY <1>1, <1>8 DEF Increment
<1>9. CASE Pop(t) /\ freeListHead # head[t]
  BY <1>1, <1>9 DEF Pop
<1>10. CASE Push(t) /\ freeListHead # top[t]
  BY <1>1, <1>10 DEF Push
<1> QED BY <1>2, <1>3, <1>4, <1>5, <1>6, <1>7, <1>8, <1>9, <1>10

Reading(t) ==
  \/ Call(t) \/ LoadHead(t) \/ LoadRefs(t) \/ LoadNext(t) \/ LoadTop(t) \/ StoreNext(t)
  \/ Increment(t) /\ freeListRefs[head[t]] # refs[t]
  \/ Pop(t) /\ freeListHead # head[t]
  \/ Push(t) /\ freeListHead # top[t]

LEMMA ReadingBlocks ==
  ASSUME Types, NEW t \in Threads, Others(t), Reading(t), NEW L, NEW b \in Blocks,
         BlockOK(b, L)
  PROVE  BlockOK(b, L)'
<1>1. Uninvolved(t, b)
  BY ReadingStep DEF Reading
<1>2. freeListRefs' = freeListRefs /\ inUse' = inUse
  BY DEF Reading, Call, LoadHead, LoadRefs, LoadNext, LoadTop, StoreNext, Increment, Pop, Push, list
<1> QED BY <1>1, <1>2, BlockFrame

-----------------------------------------------------------------------------
(* Steps that change one block's.                                          *)

\* A thread counts itself in.
LEMMA IncrementBlocks ==
  ASSUME Types, LocalsSet, NEW t \in Threads, Others(t),
         Increment(t), freeListRefs[head[t]] = refs[t],
         NEW L, NEW b \in Blocks, BlockOK(b, L)
  PROVE  BlockOK(b, L)'
<1>1. /\ pc[t] = "increment" /\ pc'[t] = "next" /\ head' = head /\ node' = node
      /\ inUse' = inUse /\ head[t] \in Blocks
      /\ freeListRefs' = [freeListRefs EXCEPT ![head[t]] = @ + 1]
      /\ Count(freeListRefs[head[t]]) # 0
  BY DEF Increment, AddRefs, Goto, Types, LocalsSet
<1>2. CASE b # head[t]
  <2>1. Uninvolved(t, b)
    BY <1>1, <1>2 DEF Uninvolved, Holds, Takes, Links1, Links2
  <2>2. freeListRefs'[b] = freeListRefs[b]
    BY <1>1, <1>2 DEF Types
  <2> QED BY <1>1, <2>1, <2>2, BlockFrame
<1>3. CASE b = head[t]
  <2>1. ~Holds(t, b) /\ Holds(t, b)'
    BY <1>1, <1>3 DEF Holds
  <2>2. Held(b)' = Held(b) + 1 /\ Held(b) \in Nat
    BY <2>1, HeldChange, HeldRange
  <2>3. \A x, y, z : Owners(b, x, y, z) => Owners(b, x, y, z)'
    <3>1. /\ ~Takes(t, b) /\ ~Links1(t, b) /\ ~Links2(t, b)
          /\ ~Takes(t, b)' /\ ~Links1(t, b)' /\ ~Links2(t, b)'
      BY <1>1 DEF Takes, Links1, Links2
    <3> QED BY <3>1, SetsChange, SetsNow DEF Owners
  <2>4. freeListRefs'[b] = freeListRefs[b] + 1
    BY <1>1, <1>3 DEF Types
  <2>5. ~Linking1(b, L)
    BY <1>1, <1>3, ThreadsFinite DEF Linking1, Count
  <2>6. CASE Used(b, L) \/ Listed(b, L)
    BY <1>1, <2>2, <2>3, <2>4, <2>6 DEF Used, Listed, BlockOK
  <2>7. CASE Taken(b, L) \/ Linking2(b, L)
    BY <1>1, <2>2, <2>3, <2>4, <2>7 DEF Taken, Linking2, BlockOK
  <2>8. CASE Waiting(b, L)
    BY <1>1, <2>2, <2>3, <2>4, <2>8, ThreadsFinite DEF Waiting, BlockOK
  <2> QED BY <2>5, <2>6, <2>7, <2>8 DEF BlockOK
<1> QED BY <1>2, <1>3

\* The head of the list is taken.
LEMMA PopBlocks ==
  ASSUME Types, LocalsSet, NEW t \in Threads, Others(t), Pop(t), freeListHead = head[t],
         NEW L, NEW M, freeListHead \in L, M = L \ {freeListHead},
         NEW b \in Blocks, BlockOK(b, L)
  PROVE  BlockOK(b, M)'
<1>1. /\ pc[t] = "pop" /\ pc'[t] = "release" /\ head' = head /\ node' = node
      /\ inUse' = inUse /\ freeListRefs' = freeListRefs
  BY DEF Pop, Goto, Types
<1>2. CASE b # head[t]
  <2>1. Uninvolved(t, b)
    BY <1>1, <1>2 DEF Uninvolved, Holds, Takes, Links1, Links2
  <2> QED BY <1>1, <1>2, <2>1, BlockFrame
<1>3. CASE b = head[t]
  <2>1. Listed(b, L)
    BY <1>3, StateOf
  <2>2. Held(b)' = Held(b)
    BY <1>1, <1>3, HeldChange DEF Holds
  <2>3. Owners(b, {t}, {}, {})'
    <3>1. Takes(t, b)' /\ ~Links1(t, b)' /\ ~Links2(t, b)'
      BY <1>1, <1>3 DEF Takes, Links1, Links2
    <3> QED BY <3>1, <2>1, SetsChange DEF Owners, Listed
  <2>4. Taken(b, M)'
    BY <1>1, <1>3, <2>1, <2>2, <2>3 DEF Listed, Taken
  <2> QED BY <2>4 DEF BlockOK
<1> QED BY <1>2, <1>3

\* try_get returns the block.
LEMMA ReleaseBlocks ==
  ASSUME Types, LocalsSet, NEW t \in Threads, Others(t), Release(t),
         NEW L, NEW b \in Blocks, BlockOK(b, L)
  PROVE  BlockOK(b, L)'
<1>1. /\ pc[t] = "release" /\ pc'[t] = "idle" /\ node' = node /\ head[t] \in Blocks
      /\ head'[t] = NoBlock /\ inUse' = inUse \cup {head[t]}
      /\ freeListRefs' = [freeListRefs EXCEPT ![head[t]] = @ + (-2)]
  BY DEF Release, AddRefs, Goto, Types, LocalsSet
<1>2. CASE b # head[t]
  <2>1. Uninvolved(t, b)
    BY <1>1, <1>2 DEF Uninvolved, Holds, Takes, Links1, Links2
  <2>2. freeListRefs'[b] = freeListRefs[b] /\ (b \in inUse' <=> b \in inUse)
    BY <1>1, <1>2 DEF Types
  <2> QED BY <2>1, <2>2, BlockFrame
<1>3. CASE b = head[t]
  <2>1. Taken(b, L) /\ Owners(b, {t}, {}, {})
    BY <1>1, <1>3, StateOf DEF Takes
  <2>2. Held(b)' = Held(b) - 1 /\ Held(b) \in Nat
    BY <1>1, <1>3, HeldChange, HeldRange DEF Holds
  <2>3. Owners(b, {}, {}, {})'
    <3>1. ~Takes(t, b)' /\ ~Links1(t, b)' /\ ~Links2(t, b)'
      BY <1>1 DEF Takes, Links1, Links2
    <3> QED BY <3>1, <2>1, SetsChange DEF Owners
  <2>4. freeListRefs'[b] = freeListRefs[b] - 2
    BY <1>1, <1>3 DEF Types
  <2>5. Used(b, L)'
    BY <1>1, <1>3, <2>1, <2>2, <2>3, <2>4 DEF Taken, Used
  <2> QED BY <2>5 DEF BlockOK
<1> QED BY <1>2, <1>3


\* A thread whose pop came too late drops its reference; if it was the last one
\* to a block that is marked, the block is its own to link in.
LEMMA DropBlocks ==
  ASSUME Types, LocalsSet, NEW t \in Threads, Others(t), Drop(t),
         NEW L, NEW b \in Blocks, BlockOK(b, L)
  PROVE  BlockOK(b, L)'
<1> DEFINE last == freeListRefs[node[t]] = SHOULD_BE_ON_FREELIST + 1
<1>1. /\ pc[t] = "drop" /\ node[t] \in Blocks /\ inUse' = inUse
      /\ last => pc'[t] = "top" /\ node' = node
      /\ ~last => pc'[t] \in {"idle", "refs"}
      /\ freeListRefs' = [freeListRefs EXCEPT ![node[t]] = @ + (-1)]
  BY DEF Drop, Resume, AddRefs, Goto, Types, LocalsSet
<1>2. CASE b # node[t]
  <2>1. Uninvolved(t, b)
    BY <1>1, <1>2 DEF Uninvolved, Holds, Takes, Links1, Links2
  <2>2. freeListRefs'[b] = freeListRefs[b]
    BY <1>1, <1>2 DEF Types
  <2> QED BY <1>1, <2>1, <2>2, BlockFrame
<1>3. CASE b = node[t]
  <2>1. Holds(t, b) /\ ~Holds(t, b)'
    BY <1>1, <1>3 DEF Holds
  <2>2. /\ Held(b)' = Held(b) - 1 /\ Held(b) # 0
        /\ Held(b) \in Nat /\ Held(b) <= Cardinality(Threads)
    BY <2>1, HeldChange, HeldRange
  <2>3. freeListRefs'[b] = freeListRefs[b] - 1
    BY <1>1, <1>3 DEF Types
  <2>4. ~Takes(t, b) /\ ~Links1(t, b) /\ ~Links2(t, b)
    BY <1>1 DEF Takes, Links1, Links2
  <2>5. ASSUME ~last PROVE \A x, y, z : Owners(b, x, y, z) => Owners(b, x, y, z)'
    <3>1. ~Takes(t, b)' /\ ~Links1(t, b)' /\ ~Links2(t, b)'
      BY <1>1, <2>5 DEF Takes, Links1, Links2
    <3> QED BY <3>1, <2>4, SetsChange, SetsNow DEF Owners
  <2>6. CASE Used(b, L) \/ Listed(b, L)
    <3>1. ~last
      BY <1>3, <2>2, <2>6, ThreadsFinite DEF Used, Listed
    <3> QED BY <1>1, <2>2, <2>3, <2>5, <2>6, <3>1 DEF Used, Listed, BlockOK
  <2>7. CASE Taken(b, L) \/ Linking2(b, L)
    <3>1. ~last
      BY <1>3, <2>2, <2>7, ThreadsFinite DEF Taken, Linking2
    <3>2. freeListRefs'[b] = Held(b)' + 1
      BY <2>2, <2>3, <2>7 DEF Taken, Linking2
    <3>3. Taken(b, L)' \/ Linking2(b, L)'
      BY <1>1, <2>5, <2>7, <3>1, <3>2 DEF Taken, Linking2
    <3> QED BY <3>3 DEF BlockOK
  <2>8. CASE Linking1(b, L)
    BY <2>2, <2>8 DEF Linking1
  <2>9. CASE Waiting(b, L) /\ ~last
    <3>1. Held(b)' # 0
      BY <1>3, <2>2, <2>9, ThreadsFinite DEF Waiting
    <3>2. freeListRefs'[b] = SHOULD_BE_ON_FREELIST + Held(b)'
      BY <2>2, <2>3, <2>9, ThreadsFinite DEF Waiting
    <3>3. Waiting(b, L)'
      BY <1>1, <2>5, <2>9, <3>1, <3>2 DEF Waiting
    <3> QED BY <3>3 DEF BlockOK
  <2>10. CASE Waiting(b, L) /\ last
    <3>1. ~Takes(t, b)' /\ Links1(t, b)' /\ ~Links2(t, b)'
      BY <1>1, <1>3, <2>10 DEF Takes, Links1, Links2
    <3>2. Owners(b, {}, {t}, {})'
      BY <3>1, <2>4, <2>10, SetsChange DEF Owners, Waiting
    <3>3. Held(b)' = 0 /\ freeListRefs'[b] = SHOULD_BE_ON_FREELIST
      BY <1>3, <2>2, <2>3, <2>10, ThreadsFinite DEF Waiting
    <3> QED BY <1>1, <2>10, <3>2, <3>3 DEF Waiting, Linking1, BlockOK
  <2> QED BY <2>6, <2>7, <2>8, <2>9, <2>10 DEF BlockOK
<1> QED BY <1>2, <1>3

\* An emptied block is marked, and linked in if nobody holds a reference.
LEMMA AddBlocks ==
  ASSUME Types, LocalsSet, NEW t \in Threads, Others(t), Add(t),
         NEW L, NEW b \in Blocks, BlockOK(b, L)
  PROVE  BlockOK(b, L)'
<1>1. PICK c \in inUse :
        /\ pc[t] = "idle" /\ inUse' = inUse \ {c}
        /\ freeListRefs' = [freeListRefs EXCEPT ![c] = @ + SHOULD_BE_ON_FREELIST]
        /\ IF freeListRefs[c] = 0
           THEN pc'[t] = "top" /\ node'[t] = c
           ELSE UNCHANGED <<pc, node>>
  BY DEF Add, AddRefs, Goto, Types
<1>2. CASE b # c
  <2>1. Uninvolved(t, b)
    BY <1>1, <1>2 DEF Uninvolved, Holds, Takes, Links1, Links2
  <2>2. freeListRefs'[b] = freeListRefs[b] /\ (b \in inUse' <=> b \in inUse)
    BY <1>1, <1>2 DEF Types
  <2> QED BY <2>1, <2>2, BlockFrame
<1>3. CASE b = c
  <2>1. Used(b, L)
    BY <1>1, <1>3, StateOf
  <2>2. Held(b)' = Held(b) /\ Held(b) \in Nat
    BY <1>1, HeldChange, HeldRange DEF Holds
  <2>3. freeListRefs'[b] = Held(b) + SHOULD_BE_ON_FREELIST
    BY <1>1, <1>3, <2>1 DEF Used, Types
  <2>4. CASE freeListRefs[b] = 0
    <3>1. ~Takes(t, b)' /\ Links1(t, b)' /\ ~Links2(t, b)'
      BY <1>1, <1>3, <2>4 DEF Takes, Links1, Links2
    <3>2. Owners(b, {}, {t}, {})'
      BY <3>1, <2>1, SetsChange DEF Owners, Used
    <3>3. Held(b)' = 0 /\ freeListRefs'[b] = SHOULD_BE_ON_FREELIST
      BY <2>1, <2>2, <2>3, <2>4, ThreadsFinite DEF Used
    <3>4. Linking1(b, L)'
      BY <1>1, <1>3, <2>1, <3>2, <3>3 DEF Used, Linking1
    <3> QED BY <3>4 DEF BlockOK
  <2>5. CASE freeListRefs[b] # 0
    <3>1. ~Takes(t, b)' /\ ~Links1(t, b)' /\ ~Links2(t, b)'
      BY <1>1, <1>3, <2>5 DEF Takes, Links1, Links2
    <3>2. Owners(b, {}, {}, {})'
      BY <3>1, <2>1, SetsChange DEF Owners, Used
    <3>3. Held(b)' # 0 /\ freeListRefs'[b] = SHOULD_BE_ON_FREELIST + Held(b)'
      BY <2>1, <2>2, <2>3, <2>5, ThreadsFinite DEF Used
    <3>4. Waiting(b, L)'
      BY <1>1, <1>3, <2>1, <3>2, <3>3 DEF Used, Waiting
    <3> QED BY <3>4 DEF BlockOK
  <2> QED BY <2>4, <2>5
<1> QED BY <1>2, <1>3

\* The list's reference in place of the mark.
LEMMA StoreRefsBlocks ==
  ASSUME Types, LocalsSet, NEW t \in Threads, Others(t), StoreRefs(t),
         NEW L, NEW b \in Blocks, BlockOK(b, L)
  PROVE  BlockOK(b, L)'
<1>1. /\ pc[t] = "count" /\ pc'[t] = "push" /\ node' = node /\ head' = head
      /\ inUse' = inUse /\ node[t] \in Blocks
      /\ freeListRefs' = [freeListRefs EXCEPT ![node[t]] = 1]
  BY DEF StoreRefs, Goto, Types, LocalsSet, locals, Linking
<1>2. CASE b # node[t]
  <2>1. Uninvolved(t, b)
    BY <1>1, <1>2 DEF Uninvolved, Holds, Takes, Links1, Links2
  <2>2. freeListRefs'[b] = freeListRefs[b]
    BY <1>1, <1>2 DEF Types
  <2> QED BY <1>1, <2>1, <2>2, BlockFrame
<1>3. CASE b = node[t]
  <2>1. Linking1(b, L) /\ Owners(b, {}, {t}, {})
    BY <1>1, <1>3, StateOf DEF Links1
  <2>2. Held(b)' = Held(b)
    BY <1>1, HeldChange DEF Holds
  <2>3. ~Takes(t, b)' /\ ~Links1(t, b)' /\ Links2(t, b)'
    BY <1>1, <1>3 DEF Takes, Links1, Links2
  <2>4. Owners(b, {}, {}, {t})'
    BY <2>1, <2>3, SetsChange DEF Owners
  <2>5. freeListRefs'[b] = Held(b)' + 1
    BY <1>1, <1>3, <2>1, <2>2 DEF Types, Linking1
  <2> QED BY <1>1, <2>1, <2>4, <2>5 DEF Linking1, Linking2, BlockOK
<1> QED BY <1>2, <1>3

\* The block becomes the head of the list.
LEMMA PushBlocks ==
  ASSUME Types, LocalsSet, NEW t \in Threads, Others(t), Push(t), freeListHead = top[t],
         NEW L, NEW M, M = L \cup {node[t]},
         NEW b \in Blocks, BlockOK(b, L)
  PROVE  BlockOK(b, M)'
<1>1. /\ pc[t] = "push" /\ pc'[t] \in {"idle", "refs"} /\ node[t] \in Blocks
      /\ inUse' = inUse /\ freeListRefs' = freeListRefs
  BY DEF Push, Resume, Goto, Types, LocalsSet, Linking
<1>2. CASE b # node[t]
  <2>1. Uninvolved(t, b)
    BY <1>1, <1>2 DEF Uninvolved, Holds, Takes, Links1, Links2
  <2> QED BY <1>1, <1>2, <2>1, BlockFrame
<1>3. CASE b = node[t]
  <2>1. Linking2(b, L) /\ Owners(b, {}, {}, {t})
    BY <1>1, <1>3, StateOf DEF Links2
  <2>2. Held(b)' = Held(b)
    BY <1>1, HeldChange DEF Holds
  <2>3. ~Takes(t, b)' /\ ~Links1(t, b)' /\ ~Links2(t, b)'
    BY <1>1 DEF Takes, Links1, Links2
  <2>4. Owners(b, {}, {}, {})'
    BY <2>1, <2>3, SetsChange DEF Owners
  <2> QED BY <1>1, <1>3, <2>1, <2>2, <2>4 DEF Linking2, Listed, BlockOK
<1> QED BY <1>2, <1>3

\* The mark in place of the list's reference.
LEMMA DeferBlocks ==
  ASSUME Types, LocalsSet, NEW t \in Threads, Others(t), Defer(t),
         NEW L, NEW b \in Blocks, BlockOK(b, L)
  PROVE  BlockOK(b, L)'
<1>1. /\ pc[t] = "defer" /\ node[t] \in Blocks /\ inUse' = inUse
      /\ freeListRefs' = [freeListRefs EXCEPT ![node[t]] = @ + (SHOULD_BE_ON_FREELIST - 1)]
      /\ IF freeListRefs[node[t]] = 1
         THEN pc'[t] = "link" /\ node' = node
         ELSE pc'[t] \in {"idle", "refs"}
  BY DEF Defer, Resume, AddRefs, Goto, Types, LocalsSet, Linking
<1>2. CASE b # node[t]
  <2>1. Uninvolved(t, b)
    BY <1>1, <1>2 DEF Uninvolved, Holds, Takes, Links1, Links2
  <2>2. freeListRefs'[b] = freeListRefs[b]
    BY <1>1, <1>2 DEF Types
  <2> QED BY <1>1, <2>1, <2>2, BlockFrame
<1>3. CASE b = node[t]
  <2>1. Linking2(b, L) /\ Owners(b, {}, {}, {t})
    BY <1>1, <1>3, StateOf DEF Links2
  <2>2. Held(b)' = Held(b) /\ Held(b) \in Nat
    BY <1>1, HeldChange, HeldRange DEF Holds
  <2>3. freeListRefs'[b] = Held(b) + SHOULD_BE_ON_FREELIST
    BY <1>1, <1>3, <2>1, <2>2, ThreadsFinite DEF Linking2, Types
  <2>4. CASE Held(b) = 0
    <3>1. ~Takes(t, b)' /\ Links1(t, b)' /\ ~Links2(t, b)'
      BY <1>1, <1>3, <2>1, <2>4 DEF Takes, Links1, Links2, Linking2
    <3>2. Owners(b, {}, {t}, {})'
      BY <3>1, <2>1, SetsChange DEF Owners
    <3>3. Held(b)' = 0 /\ freeListRefs'[b] = SHOULD_BE_ON_FREELIST
      BY <2>2, <2>3, <2>4, ThreadsFinite
    <3>4. Linking1(b, L)'
      BY <1>1, <2>1, <3>2, <3>3 DEF Linking1, Linking2
    <3> QED BY <3>4 DEF BlockOK
  <2>5. CASE Held(b) # 0
    <3>1. ~Takes(t, b)' /\ ~Links1(t, b)' /\ ~Links2(t, b)'
      BY <1>1, <1>3, <2>1, <2>2, <2>5 DEF Takes, Links1, Links2, Linking2
    <3>2. Owners(b, {}, {}, {})'
      BY <3>1, <2>1, SetsChange DEF Owners
    <3>3. Held(b)' # 0 /\ freeListRefs'[b] = SHOULD_BE_ON_FREELIST + Held(b)'
      BY <2>2, <2>3, <2>5, ThreadsFinite
    <3>4. Waiting(b, L)'
      BY <1>1, <2>1, <3>2, <3>3 DEF Waiting, Linking2
    <3> QED BY <3>4 DEF BlockOK
  <2> QED BY <2>4, <2>5
<1> QED BY <1>2, <1>3


-----------------------------------------------------------------------------
(* The list.                                                               *)

LEMMA ListElements ==
  ASSUME NEW s \in Seq(Blocks)
  PROVE  /\ ToSet(s) \subseteq Blocks /\ Len(s) \in Nat /\ DOMAIN s = 1 .. Len(s)
         /\ \A b : b \in ToSet(s) <=> \E i \in 1 .. Len(s) : s[i] = b
BY DEF ToSet

\* Taking the head of a list leaves its tail.
LEMMA TailIsList ==
  ASSUME NEW s \in Seq(Blocks), IsList(s), freeListHead # NoBlock,
         freeListHead' = freeListNext[freeListHead], UNCHANGED freeListNext
  PROVE  /\ Tail(s) \in Seq(Blocks) /\ IsList(Tail(s))'
         /\ freeListHead \in ToSet(s) /\ ToSet(Tail(s)) = ToSet(s) \ {freeListHead}
<1> DEFINE r == Tail(s)
<1>1. s # << >> /\ freeListHead = s[1]
  BY DEF IsList
<1>2. /\ r \in Seq(Blocks) /\ Len(r) = Len(s) - 1 /\ Len(s) \in Nat /\ Len(s) # 0
      /\ \A i \in 1 .. Len(s) - 1 : r[i] = s[i + 1]
      /\ DOMAIN s = 1 .. Len(s) /\ DOMAIN r = 1 .. Len(s) - 1
  BY <1>1
<1> HIDE DEF r
<1>3. \A i, j \in 1 .. Len(s) : s[i] = s[j] => i = j
  BY <1>2 DEF IsList, IsInjective
<1>4. \A i \in 1 .. Len(s) : freeListNext[s[i]] = IF i = Len(s) THEN NoBlock ELSE s[i + 1]
  BY <1>2 DEF IsList
<1>5. IsInjective(r)
  <2> SUFFICES ASSUME NEW i \in 1 .. Len(s) - 1, NEW j \in 1 .. Len(s) - 1, r[i] = r[j]
               PROVE  i = j
    BY <1>2 DEF IsInjective
  <2>1. i + 1 \in 1 .. Len(s) /\ j + 1 \in 1 .. Len(s) /\ s[i + 1] = s[j + 1]
    BY <1>2
  <2> QED BY <2>1, <1>3
<1>6. freeListHead' = IF r = << >> THEN NoBlock ELSE r[1]
  <2>1. 1 \in 1 .. Len(s)
    BY <1>2
  <2>2. freeListHead' = IF 1 = Len(s) THEN NoBlock ELSE s[1 + 1]
    BY <1>1, <1>4, <2>1
  <2>3. CASE Len(s) = 1
    <3>1. r = << >>
      BY <2>3, <1>2, EmptySeq
    <3> QED BY <3>1, <2>2, <2>3
  <2>4. CASE Len(s) # 1
    <3>1. 1 \in 1 .. Len(s) - 1
      BY <2>4, <1>2
    <3>2. r # << >> /\ r[1] = s[1 + 1]
      BY <3>1, <1>2
    <3> QED BY <3>2, <2>2, <2>4
  <2> QED BY <2>3, <2>4
<1>7. \A i \in DOMAIN r : freeListNext'[r[i]] = IF i = Len(r) THEN NoBlock ELSE r[i + 1]
  <2> SUFFICES ASSUME NEW i \in 1 .. Len(s) - 1
               PROVE  freeListNext[r[i]] = IF i = Len(r) THEN NoBlock ELSE r[i + 1]
    BY <1>2
  <2>1. i + 1 \in 1 .. Len(s) /\ r[i] = s[i + 1]
    BY <1>2
  <2>2. freeListNext[r[i]] = IF i + 1 = Len(s) THEN NoBlock ELSE s[(i + 1) + 1]
    BY <2>1, <1>4
  <2>3. CASE i + 1 = Len(s)
    BY <2>2, <2>3, <1>2
  <2>4. CASE i + 1 # Len(s)
    <3>1. i + 1 \in 1 .. Len(s) - 1
      BY <2>4, <1>2
    <3>2. r[i + 1] = s[(i + 1) + 1]
      BY <3>1, <1>2
    <3>3. i # Len(r)
      BY <2>4, <1>2
    <3> QED BY <3>2, <3>3, <2>2, <2>4
  <2> QED BY <2>3, <2>4
<1>8. IsList(r)'
  BY <1>5, <1>6, <1>7 DEF IsList
<1>9. freeListHead \in ToSet(s) /\ ToSet(r) = ToSet(s) \ {freeListHead}
  <2>1. freeListHead \in ToSet(s)
    BY <1>1, <1>2, ListElements
  <2>2. ASSUME NEW b \in ToSet(r) PROVE b \in ToSet(s) \ {freeListHead}
    <3>1. PICK i \in 1 .. Len(s) - 1 : r[i] = b
      BY <1>2, <2>2, ListElements
    <3>2. i + 1 \in 1 .. Len(s) /\ s[i + 1] = b /\ i + 1 # 1 /\ 1 \in 1 .. Len(s)
      BY <3>1, <1>2
    <3> QED BY <3>2, <1>1, <1>3, ListElements
  <2>3. ASSUME NEW b \in ToSet(s) \ {freeListHead} PROVE b \in ToSet(r)
    <3>1. PICK i \in 1 .. Len(s) : s[i] = b
      BY <1>2, <2>3, ListElements
    <3>2. i # 1 /\ i - 1 \in 1 .. Len(s) - 1 /\ r[i - 1] = b
      BY <3>1, <2>3, <1>1, <1>2
    <3> QED BY <3>2, <1>2, ListElements
  <2> QED BY <2>1, <2>2, <2>3
<1> QED BY <1>2, <1>8, <1>9 DEF r

\* A block whose next pointer is the head becomes the head.
LEMMA ConsIsList ==
  ASSUME NEW s \in Seq(Blocks), IsList(s), NEW b \in Blocks, b \notin ToSet(s),
         freeListNext[b] = freeListHead, freeListHead' = b, UNCHANGED freeListNext
  PROVE  /\ <<b>> \o s \in Seq(Blocks) /\ IsList(<<b>> \o s)'
         /\ ToSet(<<b>> \o s) = ToSet(s) \cup {b}
<1> DEFINE r == <<b>> \o s
<1>1. /\ r \in Seq(Blocks) /\ Len(r) = Len(s) + 1 /\ Len(s) \in Nat
      /\ r[1] = b /\ \A i \in 2 .. Len(s) + 1 : r[i] = s[i - 1]
      /\ DOMAIN s = 1 .. Len(s) /\ DOMAIN r = 1 .. Len(s) + 1
  OBVIOUS
<1>2. \A i \in 1 .. Len(s) : s[i] # b
  BY ListElements
<1> HIDE DEF r
<1>3. \A i, j \in 1 .. Len(s) : s[i] = s[j] => i = j
  BY <1>1 DEF IsList, IsInjective
<1>4. \A i \in 1 .. Len(s) : freeListNext[s[i]] = IF i = Len(s) THEN NoBlock ELSE s[i + 1]
  BY <1>1 DEF IsList
<1>5. freeListHead = IF Len(s) = 0 THEN NoBlock ELSE s[1]
  BY <1>1, EmptySeq DEF IsList
<1>6. IsInjective(r)
  <2> SUFFICES ASSUME NEW i \in 1 .. Len(s) + 1, NEW j \in 1 .. Len(s) + 1, r[i] = r[j]
               PROVE  i = j
    BY <1>1 DEF IsInjective
  <2>1. ASSUME NEW k \in 1 .. Len(s) + 1, k # 1
        PROVE  k - 1 \in 1 .. Len(s) /\ r[k] = s[k - 1] /\ r[k] # b
    <3>1. k - 1 \in 1 .. Len(s) /\ k \in 2 .. Len(s) + 1
      BY <1>1, <2>1
    <3> QED BY <1>1, <1>2, <3>1
  <2>2. CASE i = 1 \/ j = 1
    BY ONLY <1>1, <2>1, <2>2, r[i] = r[j], i \in 1 .. Len(s) + 1, j \in 1 .. Len(s) + 1
  <2>3. CASE i # 1 /\ j # 1
    <3>1. i - 1 \in 1 .. Len(s) /\ j - 1 \in 1 .. Len(s) /\ s[i - 1] = s[j - 1]
      BY <2>1, <2>3
    <3> QED BY <3>1, <1>3
  <2> QED BY <2>2, <2>3
<1>7. freeListHead' = IF r = << >> THEN NoBlock ELSE r[1]
  BY <1>1
<1>8. \A i \in DOMAIN r : freeListNext'[r[i]] = IF i = Len(r) THEN NoBlock ELSE r[i + 1]
  <2> SUFFICES ASSUME NEW i \in 1 .. Len(s) + 1
               PROVE  freeListNext[r[i]] = IF i = Len(s) + 1 THEN NoBlock ELSE r[i + 1]
    BY <1>1
  <2>1. CASE i = 1
    BY <2>1, <1>1, <1>5
  <2>2. CASE i # 1
    <3>1. i - 1 \in 1 .. Len(s) /\ r[i] = s[i - 1]
      BY <2>2, <1>1
    <3>2. i # Len(s) + 1 => r[i + 1] = s[i]
      BY <2>2, <1>1
    <3>3. freeListNext[s[i - 1]] = IF i - 1 = Len(s) THEN NoBlock ELSE s[i]
      BY <3>1, <1>4
    <3> QED BY <3>1, <3>2, <3>3, <1>1
  <2> QED BY <2>1, <2>2
<1>9. IsList(r)'
  BY <1>6, <1>7, <1>8 DEF IsList
<1>10. ToSet(r) = ToSet(s) \cup {b}
  <2>1. ASSUME NEW c \in ToSet(r) PROVE c \in ToSet(s) \cup {b}
    <3>1. PICK i \in 1 .. Len(s) + 1 : r[i] = c
      BY <1>1, <2>1, ListElements
    <3>2. i = 1 \/ (i - 1 \in 1 .. Len(s) /\ r[i] = s[i - 1])
      BY <1>1
    <3> QED BY <3>1, <3>2, <1>1, ListElements
  <2>2. ASSUME NEW c \in ToSet(s) PROVE c \in ToSet(r)
    <3>1. PICK i \in 1 .. Len(s) : s[i] = c
      BY <2>2, ListElements
    <3>2. i + 1 \in 1 .. Len(s) + 1 /\ r[i + 1] = c
      BY <3>1, <1>1
    <3> QED BY <3>2, <1>1, ListElements
  <2>3. b \in ToSet(r)
    BY <1>1, ListElements
  <2> QED BY <2>1, <2>2, <2>3
<1> QED BY <1>1, <1>9, <1>10 DEF r

\* A next pointer changes off the list only.
LEMMA ListFrame ==
  ASSUME NEW s \in Seq(Blocks), IsList(s), UNCHANGED freeListHead,
         \A b \in ToSet(s) : freeListNext'[b] = freeListNext[b]
  PROVE  IsList(s)'
<1>1. \A i \in DOMAIN s : s[i] \in ToSet(s)
  BY ListElements
<1> QED BY <1>1 DEF IsList


-----------------------------------------------------------------------------
(* The invariant holds initially, and every step preserves it.             *)

LEMMA InitInv == Init => IInv
<1> SUFFICES ASSUME Init PROVE IInv
  OBVIOUS
<1> USE DEF Init
<1>1. Types
  BY ThreadsFinite DEF Types
<1>2. LocalsSet /\ NextIsCurrent /\ TopIsCurrent
  BY DEF LocalsSet, NextIsCurrent, TopIsCurrent, Linking
<1>3. IsList(<< >>)
  BY EmptySeq DEF IsList, IsInjective
<1>4. ASSUME NEW b \in Blocks PROVE BlockOK(b, {})
  <2>1. Owners(b, {}, {}, {}) /\ Holders(b) = {}
    BY DEF Owners, Takers, Early, Late, Holders
  <2>2. Held(b) = 0
    BY <2>1, FS_EmptySet DEF Held
  <2> QED BY <2>1, <2>2 DEF BlockOK, Used
<1>5. ToSet(<< >>) = {} /\ << >> \in Seq(Blocks)
  BY EmptySeq DEF ToSet
<1>6. AdderAdds /\ Met /\ Alone(<< >>)
  <2>1. Calls = {}
    BY DEF Calls, Threads
  <2> QED BY <2>1 DEF AdderAdds, Met, Alone, Threads
<1> QED BY <1>1, <1>2, <1>3, <1>4, <1>5, <1>6 DEF IInv, ListAndBlocks

\* The count of a block has room in freeListRefs, next to the mark.
LEMMA RefsRange ==
  ASSUME Types, NEW L, \A b \in Blocks : BlockOK(b, L)
  PROVE  freeListRefs \in [Blocks -> 0 .. 2 * SHOULD_BE_ON_FREELIST - 1]
<1> SUFFICES ASSUME NEW b \in Blocks
             PROVE  freeListRefs[b] \in 0 .. 2 * SHOULD_BE_ON_FREELIST - 1
  BY DEF Types
<1>1. Held(b) \in Nat /\ Held(b) <= Cardinality(Threads)
  BY HeldRange
<1> QED BY <1>1, ThreadsFinite
        DEF BlockOK, Used, Listed, Taken, Linking1, Linking2, Waiting

LEMMA AddRefsType ==
  ASSUME Types, NEW b, NEW n \in Int, AddRefs(b, n)
  PROVE  freeListRefs' \in [Blocks -> Int]
<1>1. freeListRefs \in [Blocks -> Int] /\ freeListRefs' = [freeListRefs EXCEPT ![b] = @ + n]
  BY DEF Types, AddRefs
<1>2. CASE b \in Blocks
  <2>1. freeListRefs[b] + n \in Int
    BY <1>1, <1>2
  <2> QED BY <1>1, <2>1
<1>3. CASE b \notin Blocks
  BY <1>1, <1>3
<1> QED BY <1>2, <1>3

LEMMA TypesStep ==
  ASSUME Types, LocalsSet, NEW L, \A b \in Blocks : BlockOK(b, L),
         NEW t \in Threads, Step(t)
  PROVE  Types'
<1> USE DEF Types, Goto
<1>1. freeListRefs \in [Blocks -> 0 .. 2 * SHOULD_BE_ON_FREELIST - 1]
  BY RefsRange
<1>2. CASE Call(t)
  BY <1>2 DEF Call, list, locals
<1>3. CASE LoadHead(t)
  BY <1>3 DEF LoadHead, list
<1>4. CASE LoadRefs(t)
  BY <1>1, <1>4 DEF LoadRefs, list, LocalsSet
<1>5. CASE Increment(t)
  <2>1. freeListRefs' \in [Blocks -> Int]
    BY <1>5, AddRefsType DEF Increment
  <2>2. 0 \in 0 .. 2 * SHOULD_BE_ON_FREELIST - 1
    BY ThreadsFinite
  <2> QED BY <1>5, <2>1, <2>2 DEF Increment
<1>6. CASE LoadNext(t)
  BY <1>6 DEF LoadNext, list, LocalsSet
<1>7. CASE Pop(t)
  BY <1>7 DEF Pop
<1>8. CASE Release(t)
  <2>1. head[t] \in Blocks
    BY <1>8 DEF Release, LocalsSet
  <2>2. freeListRefs' \in [Blocks -> Int]
    BY <1>8, AddRefsType DEF Release
  <2> QED BY <1>8, <2>1, <2>2 DEF Release
<1>9. CASE Drop(t)
  <2>1. freeListRefs' \in [Blocks -> Int]
    BY <1>9, AddRefsType DEF Drop
  <2> QED BY <1>9, <2>1 DEF Drop, Resume
<1>10. CASE Add(t)
  <2>1. freeListRefs' \in [Blocks -> Int]
    BY <1>10, AddRefsType, ThreadsFinite DEF Add
  <2> QED BY <1>10, <2>1 DEF Add
<1>11. CASE LoadTop(t)
  BY <1>11 DEF LoadTop, list
<1>12. CASE StoreNext(t)
  BY <1>12 DEF StoreNext, locals
<1>13. CASE StoreRefs(t)
  <2>1. freeListRefs' \in [Blocks -> Int]
    <3>1. freeListRefs' = [freeListRefs EXCEPT ![node[t]] = 1] /\ 1 \in Int
      BY <1>13 DEF StoreRefs
    <3> QED BY <3>1
  <2> QED BY <1>13, <2>1 DEF StoreRefs, locals
<1>14. CASE Push(t)
  BY <1>14 DEF Push, Resume, LocalsSet, Linking
<1>15. CASE Defer(t)
  <2>1. freeListRefs' \in [Blocks -> Int]
    BY <1>15, AddRefsType, ThreadsFinite DEF Defer
  <2> QED BY <1>15, <2>1 DEF Defer, Resume
<1> QED BY <1>2, <1>3, <1>4, <1>5, <1>6, <1>7, <1>8, <1>9, <1>10, <1>11, <1>12, <1>13,
           <1>14, <1>15 DEF Step, TryGet, AddKnowingRefcountIsZero

LEMMA LocalsStep ==
  ASSUME Types, LocalsSet, NEW t \in Threads, Step(t), Others(t)
  PROVE  LocalsSet'
<1> SUFFICES /\ pc'[t] \in {"refs", "increment", "next", "pop", "release"} => head'[t] \in Blocks
             /\ pc'[t] \in {"drop"} \cup Linking => node'[t] \in Blocks
             /\ pc'[t] = "increment" => Count(refs'[t]) # 0
  BY DEF LocalsSet, Others, Linking, Count
<1> USE DEF Types, LocalsSet, Linking, Goto
<1>1. CASE Call(t)
  BY <1>1 DEF Call, locals
<1>2. CASE LoadHead(t)
  BY <1>2, BlocksAssumption DEF LoadHead
<1>3. CASE LoadRefs(t)
  BY <1>3 DEF LoadRefs
<1>4. CASE Increment(t)
  BY <1>4 DEF Increment
<1>5. CASE LoadNext(t)
  BY <1>5 DEF LoadNext
<1>6. CASE Pop(t)
  BY <1>6 DEF Pop
<1>7. CASE Release(t)
  BY <1>7 DEF Release
<1>8. CASE Drop(t)
  BY <1>8 DEF Drop, Resume
<1>9. CASE Add(t)
  BY <1>9 DEF Add
<1>10. CASE LoadTop(t)
  BY <1>10 DEF LoadTop
<1>11. CASE StoreNext(t)
  BY <1>11 DEF StoreNext, locals
<1>12. CASE StoreRefs(t)
  BY <1>12 DEF StoreRefs, locals
<1>13. CASE Push(t)
  BY <1>13 DEF Push, Resume
<1>14. CASE Defer(t)
  BY <1>14 DEF Defer, Resume, locals
<1> QED BY <1>1, <1>2, <1>3, <1>4, <1>5, <1>6, <1>7, <1>8, <1>9, <1>10, <1>11, <1>12,
           <1>13, <1>14 DEF Step, TryGet, AddKnowingRefcountIsZero

\* Only the one who links a block in writes its next pointer, and then nobody
\* holds a reference to it.
LEMMA WriterAlone ==
  ASSUME NEW t \in Threads, StoreNext(t), NEW L, BlockOK(node[t], L), NEW u \in Threads
  PROVE  /\ ~Holds(u, node[t])
         /\ u # t => ~Links1(u, node[t]) /\ ~Links2(u, node[t])
         /\ node[t] \notin L
<1>1. Links1(t, node[t])
  BY DEF StoreNext, Links1
<1>2. Linking1(node[t], L) /\ Owners(node[t], {}, {t}, {})
  BY <1>1, StateOf
<1>3. ~Holds(u, node[t])
  BY <1>2, HeldByOne, SetsNow DEF Linking1
<1>4. u # t => ~Links1(u, node[t]) /\ ~Links2(u, node[t])
  BY <1>2, SetsNow DEF Owners
<1> QED BY <1>2, <1>3, <1>4 DEF Linking1

LEMMA NextFrame ==
  ASSUME NEW t \in Threads, Step(t), ~StoreNext(t)
  PROVE  UNCHANGED freeListNext
BY DEF Step, TryGet, AddKnowingRefcountIsZero, Call, LoadHead, LoadRefs, Increment, LoadNext,
   Pop, Release, Drop, Add, LoadTop, StoreRefs, Push, Defer, list

LEMMA NextIsCurrentStep ==
  ASSUME Types, LocalsSet, NextIsCurrent, NEW L, \A b \in Blocks : BlockOK(b, L),
         NEW t \in Threads, Step(t), Others(t)
  PROVE  NextIsCurrent'
<1> SUFFICES ASSUME NEW u \in Threads, pc'[u] = "pop"
             PROVE  next'[u] = freeListNext'[head'[u]]
  BY DEF NextIsCurrent
<1>1. CASE StoreNext(t)
  <2>1. node[t] \in Blocks /\ pc'[t] = "count"
    BY <1>1 DEF StoreNext, Goto, Types, LocalsSet, Linking
  <2>2. u # t
    BY <2>1
  <2>3. Holds(u, head[u]) /\ next[u] = freeListNext[head[u]] /\ head'[u] = head[u]
        /\ next'[u] = next[u]
    BY <2>2 DEF Others, Holds, NextIsCurrent
  <2>4. head[u] # node[t]
    BY <1>1, <2>1, <2>3, WriterAlone
  <2> QED BY <1>1, <2>3, <2>4 DEF StoreNext, Types
<1>2. CASE ~StoreNext(t) /\ u # t
  BY <1>2, NextFrame DEF Others, NextIsCurrent
<1>3. CASE ~StoreNext(t) /\ u = t
  <2>1. LoadNext(t)
    BY <1>3 DEF Step, TryGet, AddKnowingRefcountIsZero, Call, LoadHead, LoadRefs, Increment, Pop,
       Release, Drop, Add, LoadTop, StoreRefs, Push, Defer, Goto, Resume, Types
  <2> QED BY <1>3, <2>1 DEF LoadNext, Types, list
<1> QED BY <1>1, <1>2, <1>3

LEMMA TopIsCurrentStep ==
  ASSUME Types, LocalsSet, TopIsCurrent, NEW L, \A b \in Blocks : BlockOK(b, L),
         NEW t \in Threads, Step(t), Others(t)
  PROVE  TopIsCurrent'
<1> SUFFICES ASSUME NEW u \in Threads, pc'[u] \in {"count", "push"}
             PROVE  freeListNext'[node'[u]] = top'[u]
  BY DEF TopIsCurrent
<1>1. CASE StoreNext(t)
  <2>1. node[t] \in Blocks /\ freeListNext' = [freeListNext EXCEPT ![node[t]] = top[t]]
        /\ UNCHANGED locals
    BY <1>1 DEF StoreNext, LocalsSet, Linking
  <2>2. CASE u = t
    BY <2>1, <2>2 DEF Types, locals
  <2>3. CASE u # t
    <3>1. freeListNext[node[u]] = top[u] /\ (Links1(u, node[u]) \/ Links2(u, node[u]))
      BY <2>3 DEF Others, TopIsCurrent, Links1, Links2
    <3>2. node[u] # node[t]
      BY <1>1, <2>1, <2>3, <3>1, WriterAlone
    <3> QED BY <2>1, <3>1, <3>2 DEF Types, locals
  <2> QED BY <2>2, <2>3
<1>2. CASE ~StoreNext(t) /\ u # t
  BY <1>2, NextFrame DEF Others, TopIsCurrent
<1>3. CASE ~StoreNext(t) /\ u = t
  <2>1. StoreRefs(t)
    BY <1>3 DEF Step, TryGet, AddKnowingRefcountIsZero, Call, LoadHead, LoadRefs, Increment,
       LoadNext, Pop, Release, Drop, Add, LoadTop, Push, Defer, Goto, Resume, Types
  <2> QED BY <1>3, <2>1 DEF StoreRefs, TopIsCurrent, locals
<1> QED BY <1>1, <1>2, <1>3


LEMMA ListStep ==
  ASSUME Types, LocalsSet, NextIsCurrent, TopIsCurrent,
         NEW s \in Seq(Blocks), ListAndBlocks(s),
         NEW t \in Threads, Step(t), Others(t)
  PROVE  \E r \in Seq(Blocks) :
           /\ ListAndBlocks(r)'
           /\ ToSet(s) \subseteq ToSet(r) \/ (Pop(t) /\ freeListHead = head[t])
<1>1. IsList(s) /\ \A b \in Blocks : BlockOK(b, ToSet(s))
  BY DEF ListAndBlocks
<1>2. CASE Reading(t) /\ ~StoreNext(t)
  <2>1. UNCHANGED <<freeListHead, freeListNext>>
    BY <1>2 DEF Reading, Call, LoadHead, LoadRefs, LoadNext, LoadTop, Increment, Pop, Push, list
  <2>2. IsList(s)'
    BY <1>1, <2>1, ListFrame
  <2>3. \A b \in Blocks : BlockOK(b, ToSet(s))'
    BY <1>1, <1>2, ReadingBlocks
  <2> QED BY <2>2, <2>3 DEF ListAndBlocks
<1>3. CASE StoreNext(t)
  <2>1. node[t] \in Blocks /\ UNCHANGED freeListHead
        /\ freeListNext' = [freeListNext EXCEPT ![node[t]] = top[t]]
    BY <1>3 DEF StoreNext, LocalsSet, Linking
  <2>2. node[t] \notin ToSet(s)
    BY <1>1, <1>3, <2>1, WriterAlone
  <2>3. \A b \in ToSet(s) : freeListNext'[b] = freeListNext[b]
    BY <2>1, <2>2, ListElements DEF Types
  <2>4. IsList(s)'
    BY <1>1, <2>1, <2>3, ListFrame
  <2>5. \A b \in Blocks : BlockOK(b, ToSet(s))'
    BY <1>1, <1>3, ReadingBlocks DEF Reading
  <2> QED BY <2>4, <2>5 DEF ListAndBlocks
<1>4. CASE Pop(t) /\ freeListHead = head[t]
  <2>1. /\ freeListHead \in Blocks /\ freeListHead # NoBlock
        /\ freeListHead' = freeListNext[freeListHead] /\ UNCHANGED freeListNext
    BY <1>4, BlocksAssumption DEF Pop, LocalsSet, NextIsCurrent
  <2>2. /\ Tail(s) \in Seq(Blocks) /\ IsList(Tail(s))'
        /\ freeListHead \in ToSet(s) /\ ToSet(Tail(s)) = ToSet(s) \ {freeListHead}
    BY <1>1, <2>1, TailIsList
  <2>3. \A b \in Blocks : BlockOK(b, ToSet(Tail(s)))'
    BY <1>1, <1>4, <2>2, PopBlocks
  <2> QED BY <1>4, <2>2, <2>3 DEF ListAndBlocks
<1>5. CASE Push(t) /\ freeListHead = top[t]
  <2>1. /\ pc[t] = "push" /\ node[t] \in Blocks /\ freeListNext[node[t]] = freeListHead
        /\ freeListHead' = node[t] /\ UNCHANGED freeListNext
    BY <1>5 DEF Push, LocalsSet, Linking, TopIsCurrent
  <2>2. PICK c \in Blocks : c = node[t]
    BY <2>1
  <2>3. c \notin ToSet(s)
    <3>1. Links2(t, c) /\ BlockOK(c, ToSet(s))
      BY <1>1, <2>1, <2>2 DEF Links2
    <3> QED BY <3>1, StateOf DEF Linking2
  <2>4. /\ <<c>> \o s \in Seq(Blocks) /\ IsList(<<c>> \o s)'
        /\ ToSet(<<c>> \o s) = ToSet(s) \cup {c}
    BY <1>1, <2>1, <2>2, <2>3, ConsIsList
  <2>5. \A b \in Blocks : BlockOK(b, ToSet(<<c>> \o s))'
    BY <1>1, <1>5, <2>2, <2>4, PushBlocks
  <2> QED BY <2>4, <2>5 DEF ListAndBlocks
<1>6. CASE \/ Increment(t) /\ freeListRefs[head[t]] = refs[t]
           \/ Release(t) \/ Drop(t) \/ Add(t) \/ StoreRefs(t) \/ Defer(t)
  <2>1. UNCHANGED <<freeListHead, freeListNext>>
    BY <1>6 DEF Increment, Release, Drop, Add, StoreRefs, Defer
  <2>2. IsList(s)'
    BY <1>1, <2>1, ListFrame
  <2>3. \A b \in Blocks : BlockOK(b, ToSet(s))'
    BY <1>1, <1>6, IncrementBlocks, ReleaseBlocks, DropBlocks, AddBlocks, StoreRefsBlocks,
       DeferBlocks
  <2> QED BY <2>2, <2>3 DEF ListAndBlocks
<1> QED BY <1>2, <1>3, <1>4, <1>5, <1>6
        DEF Step, TryGet, AddKnowingRefcountIsZero, Reading

-----------------------------------------------------------------------------
(* Calls that are alone.                                                   *)

\* The step of one thread is not another's.
LEMMA AdderStep ==
  ASSUME Types, AdderAdds, NEW t \in Threads, Step(t), Others(t)
  PROVE  /\ AdderAdds'
         /\ t = Adder => Add(t) \/ AddKnowingRefcountIsZero(t)
         /\ t # Adder => t \in Getters /\ (TryGet(t) \/ AddKnowingRefcountIsZero(t))
<1>1. t = Adder => Add(t) \/ AddKnowingRefcountIsZero(t)
  BY ThreadsAssumption DEF Step, TryGet, Call, LoadHead, LoadRefs, Increment, LoadNext, Pop,
     Release, Drop, AdderAdds, Linking
<1>2. t # Adder => t \in Getters /\ (TryGet(t) \/ AddKnowingRefcountIsZero(t))
  BY DEF Threads, Step, Add
<1>3. CASE t # Adder
  <2>1. pc'[Adder] = pc[Adder] /\ head'[Adder] = head[Adder]
    BY <1>3 DEF Others, Threads
  <2> QED BY <2>1, <1>2, <1>3 DEF AdderAdds
<1>4. ASSUME t = Adder PROVE AdderAdds'
  <2>1. CASE Add(t)
    BY <1>4, <2>1 DEF Add, AdderAdds, Types, Goto, Linking
  <2>2. CASE LoadTop(t) \/ StoreNext(t) \/ StoreRefs(t)
    BY <1>4, <2>2 DEF LoadTop, StoreNext, StoreRefs, AdderAdds, Types, Goto, Linking, locals
  <2>3. CASE Push(t)
    BY <1>4, <2>3 DEF Push, Resume, AdderAdds, Types, Goto, Linking
  <2>4. CASE Defer(t)
    BY <1>4, <2>4 DEF Defer, Resume, AdderAdds, Types, Goto, Linking
  <2> QED BY <1>1, <1>4, <2>1, <2>2, <2>3, <2>4 DEF AddKnowingRefcountIsZero
<1> QED BY <1>1, <1>2, <1>3, <1>4

LEMMA HeadOnList ==
  ASSUME NEW s \in Seq(Blocks), IsList(s)
  PROVE  /\ freeListHead # NoBlock => freeListHead \in ToSet(s)
         /\ ToSet(s) # {} => freeListHead \in ToSet(s)
         /\ NoBlock \notin ToSet(s)
<1>1. ToSet(s) \subseteq Blocks /\ Len(s) \in Nat
  BY ListElements
<1>2. CASE s = << >>
  <2>1. ToSet(s) = {} /\ freeListHead = NoBlock
    BY <1>2, EmptySeq DEF IsList, ToSet
  <2> QED BY <2>1
<1>3. CASE s # << >>
  <2>1. Len(s) # 0
    BY <1>3, EmptySeq
  <2>2. 1 \in 1 .. Len(s) /\ freeListHead = s[1]
    BY <1>1, <1>3, <2>1 DEF IsList
  <2>3. freeListHead \in ToSet(s)
    BY <2>2, ListElements
  <2> QED BY <1>1, <2>3, BlocksAssumption
<1> QED BY <1>2, <1>3

\* What a call that has met nobody read as the head stays on the list.
LEMMA AloneStep ==
  ASSUME IInv, NEW t \in Threads, Step(t), Others(t), Remember,
         NEW s \in Seq(Blocks), ListAndBlocks(s), Alone(s),
         NEW r \in Seq(Blocks),
         ToSet(s) \subseteq ToSet(r) \/ (Pop(t) /\ freeListHead = head[t])
  PROVE  Alone(r)'
<1> SUFFICES ASSUME NEW u \in Calls' \ met', pc'[u] \notin {"load", "release"}
             PROVE  head'[u] \in ToSet(r)
  BY DEF Alone
<1>1. Types /\ AdderAdds /\ Met /\ IsList(s)
  BY DEF IInv, ListAndBlocks
<1>2. u \notin met /\ Calls' = {u} /\ u \in Getters /\ pc'[u] # "idle"
  BY DEF Remember, Calls
<1>3. CASE u # t
  <2>1. pc'[u] = pc[u] /\ head'[u] = head[u] /\ u \in Calls
    BY <1>2, <1>3 DEF Others, Calls, Threads
  <2>2. t \notin Calls
    BY <1>1, <1>2, <1>3, <2>1 DEF Met
  <2>3. t = Adder
    <3>1. SUFFICES ASSUME t # Adder PROVE FALSE
      OBVIOUS
    <3>2. t \in Getters /\ pc[t] = "idle" /\ (TryGet(t) \/ AddKnowingRefcountIsZero(t))
      BY <1>1, <2>2, <3>1, AdderStep DEF Calls
    <3>3. Call(t)
      BY <3>2 DEF TryGet, LoadHead, LoadRefs, Increment, LoadNext, Pop, Release, Drop,
         AddKnowingRefcountIsZero, LoadTop, StoreNext, StoreRefs, Push, Defer
    <3>4. t \in Calls'
      BY <1>1, <3>2, <3>3, PcAt DEF Call, Calls
    <3> QED BY <1>2, <1>3, <3>4
  <2>4. ~ Pop(t)
    BY <1>1, <2>3 DEF Pop, AdderAdds, Linking
  <2> QED BY <1>2, <2>1, <2>4 DEF Alone
<1>4. CASE u = t
  <2>1. t \in Getters /\ (TryGet(t) \/ AddKnowingRefcountIsZero(t))
    BY <1>1, <1>2, <1>4, AdderStep, ThreadsAssumption
  <2>2. pc[t] # "idle"
    <3>1. SUFFICES ASSUME pc[t] = "idle" PROVE FALSE
      OBVIOUS
    <3>2. Call(t)
      BY <2>1, <3>1 DEF TryGet, LoadHead, LoadRefs, Increment, LoadNext, Pop, Release, Drop,
         AddKnowingRefcountIsZero, LoadTop, StoreNext, StoreRefs, Push, Defer
    <3>3. pc'[t] = "load"
      BY <1>1, <3>2, PcAt DEF Call
    <3> QED BY <1>4, <3>3
  <2>3. pc[t] \notin {"load", "release"} => head[t] \in ToSet(s)
    BY <1>2, <1>4, <2>1, <2>2 DEF Alone, Calls
  <2>4. CASE LoadHead(t)
    <3>1. pc'[t] = IF freeListHead = NoBlock THEN "idle" ELSE "refs"
      BY <1>1, <2>4, PcAt DEF LoadHead
    <3>2. head'[t] = freeListHead /\ freeListHead # NoBlock
      BY <1>1, <1>2, <1>4, <2>4, <3>1 DEF LoadHead, Types
    <3>3. ~ Pop(t)
      BY <2>4 DEF LoadHead, Pop
    <3> QED BY <1>1, <1>4, <3>2, <3>3, HeadOnList
  <2>5. CASE Pop(t)
    <3>1. freeListHead # head[t]
      BY <1>1, <1>4, <2>5, PcAt DEF Pop
    <3>2. head'[t] = freeListHead /\ head[t] \in ToSet(s)
      BY <1>1, <2>3, <2>5, <3>1 DEF Pop, Types
    <3> QED BY <1>1, <1>4, <3>1, <3>2, HeadOnList
  <2>6. CASE Release(t)
    BY <1>1, <1>2, <1>4, <2>6, PcAt DEF Release
  <2>7. CASE Call(t)
    BY <2>2, <2>7 DEF Call
  <2>8. CASE LoadRefs(t) \/ Increment(t) \/ LoadNext(t) \/ Drop(t) \/ AddKnowingRefcountIsZero(t)
    <3>1. head' = head /\ pc[t] \notin {"load", "release"} /\ ~ Pop(t)
      BY <2>8 DEF LoadRefs, Increment, LoadNext, Drop, AddKnowingRefcountIsZero, LoadTop,
         StoreNext, StoreRefs, Push, Defer, Pop, locals
    <3> QED BY <1>4, <2>3, <3>1
  <2> QED BY <2>1, <2>4, <2>5, <2>6, <2>7, <2>8 DEF TryGet
<1> QED BY <1>3, <1>4

LEMMA IInvStep == IInv /\ [Next]_vars => IInv'
<1> SUFFICES ASSUME IInv, [Next]_vars PROVE IInv'
  OBVIOUS
<1>1. PICK s \in Seq(Blocks) : ListAndBlocks(s) /\ Alone(s)
  BY DEF IInv
<1>2. ASSUME NEW t \in Threads, Step(t), Remember PROVE IInv'
  <2>1. Others(t)
    BY <1>2, OthersSame DEF IInv
  <2>2. \A b \in Blocks : BlockOK(b, ToSet(s))
    BY <1>1 DEF ListAndBlocks
  <2>3. Types' /\ LocalsSet'
    BY <1>2, <2>1, <2>2, TypesStep, LocalsStep DEF IInv
  <2>4. NextIsCurrent' /\ TopIsCurrent'
    BY <1>2, <2>1, <2>2, NextIsCurrentStep, TopIsCurrentStep DEF IInv
  <2>5. AdderAdds'
    BY <1>2, <2>1, AdderStep DEF IInv
  <2>6. Met'
    BY <1>2 DEF Remember, Met
  <2>7. PICK r \in Seq(Blocks) :
          /\ ListAndBlocks(r)'
          /\ ToSet(s) \subseteq ToSet(r) \/ (Pop(t) /\ freeListHead = head[t])
    BY <1>1, <1>2, <2>1, ListStep DEF IInv
  <2>8. Alone(r)'
    BY <1>1, <1>2, <2>1, <2>7, AloneStep
  <2> QED BY <2>3, <2>4, <2>5, <2>6, <2>7, <2>8 DEF IInv
<1>3. CASE UNCHANGED vars
  <2> USE <1>3 DEF vars, list, locals
  <2>1. Types' /\ LocalsSet' /\ NextIsCurrent' /\ TopIsCurrent'
    BY DEF IInv, Types, LocalsSet, NextIsCurrent, TopIsCurrent
  <2>2. IsList(s)'
    BY <1>1 DEF ListAndBlocks, IsList
  <2>3. ASSUME NEW b \in Blocks PROVE BlockOK(b, ToSet(s))'
    <3>1. Held(b)' = Held(b)
      BY DEF Held, Holders
    <3>2. \A x, y, z : Owners(b, x, y, z)' <=> Owners(b, x, y, z)
      BY DEF Owners, Takers, Early, Late
    <3> QED BY <1>1, <3>1, <3>2
            DEF ListAndBlocks, BlockOK, Used, Listed, Taken, Linking1, Linking2, Waiting
  <2>4. AdderAdds' /\ Met' /\ Alone(s)'
    BY <1>1 DEF IInv, AdderAdds, Met, Alone, Calls, NotToBeHad
  <2> QED BY <2>1, <2>2, <2>3, <2>4 DEF IInv, ListAndBlocks
<1> QED BY <1>2, <1>3 DEF Next

LEMMA IInvHolds == Spec => []IInv
BY InitInv, IInvStep, PTL DEF Spec

-----------------------------------------------------------------------------
(* Theorems.                                                               *)

\* The variables keep their types; freeListRefs has room for the mark and for
\* the references of all threads and of the list, so that neither runs into
\* the other.
THEOREM TypeCorrect == Spec => []TypeOK
<1>1. IInv => TypeOK
  BY RefsRange DEF IInv, ListAndBlocks, Types, Met, TypeOK
<1> QED BY <1>1, IInvHolds, PTL

\* try_get hands a block out to one thread only, and never one that holds
\* messages or is being linked in; the assertion in it holds.
THEOREM TryGetExclusive == Spec => []HandedOutOnce
<1>1. IInv => HandedOutOnce
  <2> SUFFICES ASSUME IInv, NEW t \in Threads, pc[t] = "release"
               PROVE  /\ ~Marked(freeListRefs[head[t]])
                      /\ head[t] \notin inUse
                      /\ Takers(head[t]) = {t} /\ Linkers(head[t]) = {}
    BY DEF HandedOutOnce
  <2>1. PICK s \in Seq(Blocks) : ListAndBlocks(s)
    BY DEF IInv
  <2>2. head[t] \in Blocks /\ Takes(t, head[t])
    BY DEF IInv, LocalsSet, Takes
  <2>3. Taken(head[t], ToSet(s)) /\ Owners(head[t], {t}, {}, {})
    BY <2>1, <2>2, StateOf DEF ListAndBlocks
  <2>4. ~Marked(freeListRefs[head[t]])
    <3>1. Held(head[t]) \in Nat /\ Held(head[t]) <= Cardinality(Threads)
      BY HeldRange
    <3> QED BY <2>3, <3>1, ThreadsFinite DEF Taken, Marked
  <2>5. Linkers(head[t]) = Early(head[t]) \cup Late(head[t])
    BY DEF Linkers, Early, Late, Linking
  <2> QED BY <2>3, <2>4, <2>5 DEF Taken, Owners
<1> QED BY <1>1, IInvHolds, PTL

\* A next pointer read under a reference stays true: the swap of the head puts
\* the rest of the list in its place, although the block may have been taken
\* and given back in between.
THEOREM NextStaysCurrent == Spec => []NextIsCurrent
<1>1. IInv => NextIsCurrent
  BY DEF IInv
<1> QED BY <1>1, IInvHolds, PTL

LEMMA ListBound ==
  ASSUME NEW s \in Seq(Blocks), IsInjective(s)
  PROVE  s \in SeqOf(Blocks, Cardinality(Blocks))
<1>1. s \in Injection(1 .. Len(s), Blocks) /\ Len(s) \in Nat /\ s \in [1 .. Len(s) -> Blocks]
  BY DEF Injection
<1>2. Cardinality(1 .. Len(s)) = Len(s)
  BY <1>1, FS_Interval
<1>3. Cardinality(1 .. Len(s)) <= Cardinality(Blocks) /\ Cardinality(Blocks) \in Nat
  BY <1>1, FS_Injection, FS_CardinalityType, BlocksAssumption
<1>4. Len(s) \in 0 .. Cardinality(Blocks)
  BY <1>1, <1>2, <1>3
<1> QED BY <1>1, <1>4 DEF SeqOf

\* No block is lost: one that is neither in use nor on the list has somebody
\* who will put it there.
THEOREM BlocksKept == Spec => []NoneLost
<1>1. IInv => NoneLost
  <2> SUFFICES ASSUME IInv PROVE NoneLost
    OBVIOUS
  <2>1. PICK s \in Seq(Blocks) : ListAndBlocks(s)
    BY DEF IInv
  <2>2. s \in SeqOf(Blocks, Cardinality(Blocks)) /\ IsList(s)
    BY <2>1, ListBound DEF ListAndBlocks, IsList
  <2>3. ASSUME NEW b \in Blocks \ (inUse \cup ToSet(s))
        PROVE  \/ Takers(b) # {}
               \/ Linkers(b) # {}
               \/ Marked(freeListRefs[b]) /\ Holders(b) # {}
    <3>1. Taken(b, ToSet(s)) \/ Linking1(b, ToSet(s)) \/ Linking2(b, ToSet(s))
          \/ Waiting(b, ToSet(s))
      BY <2>1, <2>3 DEF ListAndBlocks, BlockOK, Used, Listed
    <3>2. CASE Taken(b, ToSet(s))
      BY <3>2 DEF Taken, Owners
    <3>3. CASE Linking1(b, ToSet(s)) \/ Linking2(b, ToSet(s))
      <4>1. Linkers(b) = Early(b) \cup Late(b)
        BY DEF Linkers, Early, Late, Linking
      <4> QED BY <3>3, <4>1 DEF Linking1, Linking2, Owners
    <3>4. CASE Waiting(b, ToSet(s))
      <4>1. Held(b) # 0 /\ Held(b) \in Nat /\ freeListRefs[b] = SHOULD_BE_ON_FREELIST + Held(b)
        BY <3>4, HeldRange DEF Waiting
      <4>2. Holders(b) # {}
        BY <4>1, FS_EmptySet DEF Held
      <4>3. Marked(freeListRefs[b])
        BY <4>1, ThreadsFinite DEF Marked
      <4> QED BY <4>2, <4>3
    <3> QED BY <3>1, <3>2, <3>3, <3>4
  <2> QED BY <2>2, <2>3 DEF NoneLost
<1> QED BY <1>1, IInvHolds, PTL

-----------------------------------------------------------------------------
(* The pool the list implements.                                           *)

\* A thread that finds the list empty was not alone, or there was no block: one
\* that can be had and is not listed is in the hands of another thread.
LEMMA EmptyListMet ==
  ASSUME IInv, NEW t \in Threads, LoadHead(t), freeListHead = NoBlock
  PROVE  t \in met
<1>1. PICK s \in Seq(Blocks) : ListAndBlocks(s)
  BY DEF IInv
<1>2. pc[t] = "load" /\ t \in Getters /\ t \in Calls
  BY DEF LoadHead, IInv, AdderAdds, Linking, Threads, Calls
<1> SUFFICES ASSUME t \notin met PROVE FALSE
  OBVIOUS
<1>3. Calls = {t} /\ NotToBeHad # Blocks
  BY <1>2 DEF IInv, Met
<1>4. NotToBeHad \subseteq Blocks
  BY DEF IInv, Types, NotToBeHad
<1>5. PICK b \in Blocks : b \notin NotToBeHad
  BY <1>3, <1>4
<1>6. ToSet(s) = {}
  BY <1>1, HeadOnList DEF ListAndBlocks
<1>7. b \notin inUse
  BY <1>5 DEF NotToBeHad
<1>8. ASSUME NEW u \in Threads, pc[u] # "idle", u # Adder PROVE u = t
  BY <1>3, <1>8 DEF Calls, Threads
<1>9. ASSUME NEW u \in Threads, Takes(u, b) PROVE FALSE
  BY <1>2, <1>8, <1>9 DEF Takes, IInv, AdderAdds, Linking
<1>10. ASSUME NEW u \in Threads, Links1(u, b) \/ Links2(u, b) PROVE FALSE
  BY <1>2, <1>5, <1>8, <1>10 DEF Links1, Links2, NotToBeHad
<1>11. ASSUME NEW u \in Threads, Holds(u, b) PROVE FALSE
  BY <1>2, <1>8, <1>11 DEF Holds, IInv, AdderAdds, Linking
<1>12. BlockOK(b, {})
  BY <1>1, <1>6 DEF ListAndBlocks
<1>13. CASE Taken(b, {})
  BY <1>9, <1>13, SetsNow DEF Taken, Owners
<1>14. CASE Linking1(b, {}) \/ Linking2(b, {})
  BY <1>10, <1>14, SetsNow DEF Linking1, Linking2, Owners
<1>15. CASE Waiting(b, {})
  <2>1. Holders(b) = {}
    BY <1>11 DEF Holders, Holds
  <2> QED BY <1>15, <2>1, FS_EmptySet DEF Waiting, Held
<1> QED BY <1>7, <1>12, <1>13, <1>14, <1>15 DEF BlockOK, Used, Listed

\* Nor was one that leaves after a pop that came too late.
LEMMA NoHeadMet ==
  ASSUME IInv, NEW t \in Getters, pc[t] \notin {"idle", "load", "release"}, head[t] = NoBlock
  PROVE  t \in met
<1>1. PICK s \in Seq(Blocks) : ListAndBlocks(s) /\ Alone(s)
  BY DEF IInv
<1>2. NoBlock \notin ToSet(s)
  BY <1>1, HeadOnList DEF ListAndBlocks
<1> QED BY <1>1, <1>2 DEF Alone, Calls

\* What a step of a producer does to the pool.
LEMMA GetterMap ==
  ASSUME NEW t \in Getters, Others(t)
  PROVE  /\ Calls' = IF pc'[t] = "idle" THEN Calls \ {t} ELSE Calls \cup {t}
         /\ \E S : NotToBeHad = inUse \cup S /\ NotToBeHad' = inUse' \cup S
<1>1. t # Adder /\ Adder \in Threads /\ Getters \subseteq Threads
  BY ThreadsAssumption DEF Threads
<1>2. pc'[Adder] = pc[Adder] /\ node'[Adder] = node[Adder]
  BY <1>1 DEF Others
<1>3. Calls' = IF pc'[t] = "idle" THEN Calls \ {t} ELSE Calls \cup {t}
  BY <1>1 DEF Others, Calls
<1> DEFINE S == {b \in Blocks : pc[Adder] # "idle" /\ node[Adder] = b}
<1>4. NotToBeHad = inUse \cup S /\ NotToBeHad' = inUse' \cup S
  BY <1>2 DEF NotToBeHad
<1> QED BY <1>3, <1>4

LEMMA PoolUnchanged ==
  ASSUME Met, Remember, Calls' = Calls, NotToBeHad' = NotToBeHad
  PROVE  UNCHANGED BP!pvars
<1>1. met' = met
  BY DEF Met, Remember
<1> QED BY <1>1 DEF BP!pvars

LEMMA GetterRefines ==
  ASSUME IInv, NEW t \in Getters, Step(t), Others(t), Remember
  PROVE  [BP!Next]_(BP!pvars)
<1>1. Types /\ Met /\ BP!Remember /\ t \in Threads
  BY DEF IInv, Remember, BP!Remember, Threads
<1>2. /\ Calls' = IF pc'[t] = "idle" THEN Calls \ {t} ELSE Calls \cup {t}
      /\ pc[t] # "idle" => t \in Calls
      /\ pc[t] = "idle" => t \notin Calls
  BY GetterMap DEF Calls
<1>3. PICK S : NotToBeHad = inUse \cup S /\ NotToBeHad' = inUse' \cup S
  BY GetterMap
\* Within a call nothing changes that the pool shows; and so it may end.
<1>4. ASSUME pc[t] # "idle", pc'[t] # "idle", inUse' = inUse PROVE [BP!Next]_(BP!pvars)
  <2>1. Calls' = Calls /\ NotToBeHad' = NotToBeHad
    BY <1>2, <1>3, <1>4
  <2> QED BY <1>1, <2>1, PoolUnchanged
<1>5. ASSUME pc[t] # "idle", pc'[t] = "idle", inUse' = inUse, t \in met PROVE BP!Next
  <2>1. BP!GoWithout(t)
    BY <1>2, <1>3, <1>5 DEF BP!GoWithout
  <2> QED BY <1>1, <2>1 DEF BP!Next
<1>6. CASE Call(t)
  <2>1. pc[t] = "idle" /\ pc'[t] = "load" /\ inUse' = inUse
    BY <1>1, <1>6, PcAt DEF Call
  <2>2. BP!Call(t)
    BY <1>2, <1>3, <2>1 DEF BP!Call
  <2> QED BY <1>1, <2>2 DEF BP!Next
<1>7. CASE LoadHead(t)
  <2>1. /\ pc[t] = "load" /\ inUse' = inUse
        /\ pc'[t] = IF freeListHead = NoBlock THEN "idle" ELSE "refs"
    BY <1>1, <1>7, PcAt DEF LoadHead, list
  <2>2. freeListHead = NoBlock => t \in met
    BY <1>1, <1>7, EmptyListMet
  <2> QED BY <1>4, <1>5, <2>1, <2>2
<1>8. CASE LoadRefs(t) \/ Increment(t) \/ LoadNext(t) \/ Pop(t)
           \/ LoadTop(t) \/ StoreNext(t) \/ StoreRefs(t)
  <2>1. pc[t] # "idle" /\ pc'[t] # "idle" /\ inUse' = inUse
    BY <1>1, <1>8 DEF Types, Goto, LoadRefs, Increment, LoadNext, Pop, LoadTop, StoreNext,
       StoreRefs, list
  <2> QED BY <1>4, <2>1
<1>9. CASE Release(t)
  <2>1. /\ pc[t] = "release" /\ pc'[t] = "idle" /\ inUse' = inUse \cup {head[t]}
        /\ head[t] \in Blocks
    BY <1>1, <1>9, PcAt DEF Release, IInv, LocalsSet
  <2>2. PICK s \in Seq(Blocks) : ListAndBlocks(s)
    BY DEF IInv
  <2>3. Taken(head[t], ToSet(s)) /\ Owners(head[t], {t}, {}, {})
    BY <1>1, <2>1, <2>2, StateOf DEF Takes, ListAndBlocks
  <2>4. ~ Links1(Adder, head[t]) /\ ~ Links2(Adder, head[t])
    BY <2>3, SetsNow DEF Owners, Threads
  <2>5. head[t] \notin NotToBeHad
    BY <2>3, <2>4 DEF Taken, NotToBeHad, IInv, AdderAdds, Linking, Links1, Links2
  <2>6. BP!Take(t, head[t])
    BY <1>2, <1>3, <2>1, <2>5 DEF BP!Take
  <2> QED BY <1>1, <2>1, <2>6 DEF BP!Next
<1>10. CASE Drop(t) \/ Push(t) \/ Defer(t)
  <2>1. /\ pc[t] \in {"drop", "push", "defer"} /\ inUse' = inUse
        /\ pc'[t] = "idle" => head[t] = NoBlock
    BY <1>1, <1>10 DEF Types, Goto, Drop, Push, Defer, Resume
  <2>2. pc'[t] = "idle" => t \in met
    BY <2>1, NoHeadMet
  <2> QED BY <1>4, <1>5, <2>1, <2>2
<1>11. TryGet(t) \/ AddKnowingRefcountIsZero(t)
  BY <1>1, AdderStep, ThreadsAssumption DEF IInv
<1> QED BY <1>6, <1>7, <1>8, <1>9, <1>10, <1>11 DEF TryGet, AddKnowingRefcountIsZero

\* The consumer gives a block back where it links it in, or leaves that to
\* those who hold a reference.
LEMMA AdderRefines ==
  ASSUME IInv, Step(Adder), Others(Adder), Remember
  PROVE  [BP!Next]_(BP!pvars)
<1>1. /\ Types /\ Met /\ AdderAdds /\ BP!Remember /\ Adder \in Threads
      /\ Adder \notin Getters
  BY ThreadsAssumption DEF IInv, Remember, BP!Remember, Threads
<1>2. Calls' = Calls
  BY <1>1 DEF Others, Calls, Threads
<1>3. ASSUME NotToBeHad' = NotToBeHad PROVE [BP!Next]_(BP!pvars)
  BY <1>1, <1>2, <1>3, PoolUnchanged
<1>4. ASSUME NEW b \in Blocks, b \in NotToBeHad, NotToBeHad' = NotToBeHad \ {b}
      PROVE  BP!Next
  <2>1. BP!Give(b)
    BY <1>2, <1>4 DEF BP!Give
  <2> QED BY <1>1, <2>1 DEF BP!Next
<1>5. CASE Add(Adder)
  <2>1. PICK b \in inUse :
          /\ pc[Adder] = "idle" /\ inUse' = inUse \ {b} /\ b \in Blocks
          /\ \/ pc'[Adder] = "top" /\ node'[Adder] = b
             \/ pc'[Adder] = "idle"
    BY <1>1, <1>5 DEF Add, Types, Goto
  <2>2. NotToBeHad = inUse
    BY <2>1 DEF NotToBeHad
  <2>3. CASE pc'[Adder] = "top" /\ node'[Adder] = b
    <3>1. NotToBeHad' = NotToBeHad
      BY <2>1, <2>2, <2>3 DEF NotToBeHad
    <3> QED BY <1>3, <3>1
  <2>4. CASE pc'[Adder] = "idle"
    <3>1. NotToBeHad' = NotToBeHad \ {b}
      BY <2>1, <2>2, <2>4 DEF NotToBeHad
    <3> QED BY <1>4, <2>1, <2>2, <3>1
  <2> QED BY <2>1, <2>3, <2>4
<1>6. CASE AddKnowingRefcountIsZero(Adder)
  <2>1. /\ pc[Adder] \in Linking /\ node[Adder] \in Blocks /\ inUse' = inUse
        /\ node[Adder] \notin inUse
    <3>1. pc[Adder] \in Linking /\ inUse' = inUse /\ node[Adder] \in Blocks
      <4>1. pc[Adder] \in Linking /\ inUse' = inUse
        BY <1>6 DEF AddKnowingRefcountIsZero, LoadTop, StoreNext, StoreRefs, Push, Defer,
           Linking
      <4> QED BY <1>1, <4>1 DEF IInv, LocalsSet
    <3>2. PICK s \in Seq(Blocks) : ListAndBlocks(s)
      BY DEF IInv
    <3>3. Linking1(node[Adder], ToSet(s)) \/ Linking2(node[Adder], ToSet(s))
      BY <1>1, <3>1, <3>2, StateOf DEF ListAndBlocks, Links1, Links2, Linking
    <3> QED BY <3>1, <3>3 DEF Linking1, Linking2
  <2>2. NotToBeHad = inUse \cup {node[Adder]}
    BY <2>1 DEF NotToBeHad, Linking
  <2>3. CASE pc'[Adder] = "idle"
    <3>1. NotToBeHad' = inUse
      BY <2>1, <2>3 DEF NotToBeHad
    <3> QED BY <1>4, <2>1, <2>2, <3>1
  <2>4. CASE pc'[Adder] # "idle"
    <3>1. node'[Adder] = node[Adder]
      BY <1>1, <1>6, <2>4 DEF AddKnowingRefcountIsZero, LoadTop, StoreNext, StoreRefs, Push,
         Defer, Resume, AdderAdds, Types, Goto, locals
    <3>2. NotToBeHad' = NotToBeHad
      BY <2>1, <2>2, <2>4, <3>1 DEF NotToBeHad
    <3> QED BY <1>3, <3>2
  <2> QED BY <2>3, <2>4
<1> QED BY <1>1, <1>5, <1>6, AdderStep

\* try_get hands a block that was given back to one thread, and sends a thread
\* away without one only if there was none or another call went on beside its
\* own, for any number of threads and blocks.
THEOREM PoolRefinement == Spec => ImplementsPool
<1>1. Init => BP!Init
  <2> SUFFICES ASSUME Init PROVE BP!Init
    OBVIOUS
  <2>1. Calls = {} /\ NotToBeHad = Blocks /\ met = {}
    BY DEF Init, Calls, NotToBeHad, Threads
  <2> QED BY <2>1 DEF BP!Init
<1>2. IInv /\ [Next]_vars => [BP!Next]_(BP!pvars)
  <2> SUFFICES ASSUME IInv, [Next]_vars PROVE [BP!Next]_(BP!pvars)
    OBVIOUS
  <2>1. ASSUME NEW t \in Threads, Step(t), Remember PROVE [BP!Next]_(BP!pvars)
    <3>1. Others(t)
      BY <2>1, OthersSame DEF IInv
    <3>2. CASE t = Adder
      BY <2>1, <3>1, <3>2, AdderRefines
    <3>3. CASE t \in Getters
      BY <2>1, <3>1, <3>3, GetterRefines
    <3> QED BY <3>2, <3>3 DEF Threads
  <2>2. CASE UNCHANGED vars
    BY <2>2 DEF vars, list, locals, BP!pvars, Calls, NotToBeHad
  <2> QED BY <2>1, <2>2 DEF Next
<1> QED BY <1>1, <1>2, IInvHolds, PTL DEF Spec, ImplementsPool, BP!Spec

=============================================================================
