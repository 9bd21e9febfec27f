------------------------------ MODULE FreeList ------------------------------
(***************************************************************************)
(* The free list of the message queue's blocks: ConcurrentQueue::FreeList, *)
(* a stack without locks.  A thread that takes a block reads the head and  *)
(* its next pointer, then swaps the head; so that nobody may have taken    *)
(* the block and given it back in between, with another next pointer, it   *)
(* counts itself in the block's freeListRefs first, and a block is not     *)
(* linked in while it is counted there: it is marked as one that should be *)
(* on the list, and the last one to drop its reference links it in.        *)
(*                                                                         *)
(* One action is one atomic operation, or the beginning of try_get.        *)
(* ImplicitProducer, whose producers take blocks and whose consumer gives  *)
(* them back, has a set in its place, of which it assumes BlockPool.       *)
(***************************************************************************)
EXTENDS Integers, FiniteSets, SequencesExt

CONSTANTS
  Getters,    \* threads that enqueue, and take a block when they need one
  Adder,      \* the thread that dequeues, and gives emptied blocks back
  Blocks,
  NoBlock,    \* the null pointer
  SHOULD_BE_ON_FREELIST   \* the highest bit of freeListRefs: 2^31

Threads == Getters \cup {Adder}

ASSUME ThreadsAssumption == IsFiniteSet(Getters) /\ Adder \notin Getters
ASSUME BlocksAssumption == IsFiniteSet(Blocks) /\ NoBlock \notin Blocks
ASSUME WidthAssumption ==
  SHOULD_BE_ON_FREELIST \in Nat /\ SHOULD_BE_ON_FREELIST > Cardinality(Threads) + 1

VARIABLES
  freeListHead,
  freeListRefs,   \* for each block, a mark (the highest bit) and a count
  freeListNext,
  inUse,      \* the blocks that hold messages, or are about to
  pc,         \* where each thread is
  head,       \* try_get: the local of that name, NoBlock outside
  refs, next, \* and its other two
  node,       \* prevHead of try_get, node of add and add_knowing_refcount_is_zero
  top,        \* add_knowing_refcount_is_zero: its local head
  met         \* history: the calls of try_get that were not alone, or found
              \* no block left

list == <<freeListHead, freeListRefs, freeListNext>>
locals == <<head, refs, next, node, top>>
vars == <<list, inUse, pc, locals, met>>

\* refs & REFS_MASK
Count(r) == IF r >= SHOULD_BE_ON_FREELIST THEN r - SHOULD_BE_ON_FREELIST ELSE r
Marked(r) == r >= SHOULD_BE_ON_FREELIST

Init ==
  /\ freeListHead = NoBlock
  /\ freeListRefs = [b \in Blocks |-> 0]
  /\ freeListNext = [b \in Blocks |-> NoBlock]
  /\ inUse = Blocks
  /\ pc = [t \in Threads |-> "idle"]
  /\ head = [t \in Threads |-> NoBlock]
  /\ refs = [t \in Threads |-> 0]
  /\ next = [t \in Threads |-> NoBlock]
  /\ node = [t \in Threads |-> NoBlock]
  /\ top = [t \in Threads |-> NoBlock]
  /\ met = {}

Goto(t, l) == pc' = [pc EXCEPT ![t] = l]

\* freeListRefs of b goes up by n, or down.
AddRefs(b, n) == freeListRefs' = [freeListRefs EXCEPT ![b] = @ + n]

-----------------------------------------------------------------------------
(* try_get                                                                 *)

Call(t) ==
  /\ t \in Getters /\ pc[t] = "idle"
  /\ Goto(t, "load")
  /\ UNCHANGED <<list, inUse, locals>>

\* The list may be empty: try_get returns null.
LoadHead(t) ==
  /\ pc[t] = "load"
  /\ head' = [head EXCEPT ![t] = freeListHead]
  /\ Goto(t, IF freeListHead = NoBlock THEN "idle" ELSE "refs")
  /\ UNCHANGED <<list, inUse, refs, next, node, top>>

LoadRefs(t) ==
  /\ pc[t] = "refs"
  /\ LET r == freeListRefs[head[t]] IN
       IF Count(r) = 0
       THEN Goto(t, "load") /\ UNCHANGED refs
       ELSE Goto(t, "increment") /\ refs' = [refs EXCEPT ![t] = r]
  /\ UNCHANGED <<list, inUse, head, next, node, top>>

Increment(t) ==
  /\ pc[t] = "increment"
  /\ IF freeListRefs[head[t]] = refs[t]
     THEN AddRefs(head[t], 1) /\ Goto(t, "next")
     ELSE UNCHANGED freeListRefs /\ Goto(t, "load")
  /\ refs' = [refs EXCEPT ![t] = 0]
  /\ UNCHANGED <<freeListHead, freeListNext, inUse, head, next, node, top>>

LoadNext(t) ==
  /\ pc[t] = "next"
  /\ next' = [next EXCEPT ![t] = freeListNext[head[t]]]
  /\ Goto(t, "pop")
  /\ UNCHANGED <<list, inUse, head, refs, node, top>>

\* Mutant: a thread that was not fast enough returns null.
Pop_GivesUp(t) ==
  /\ pc[t] = "pop"
  /\ IF freeListHead = head[t]
     THEN /\ freeListHead' = next[t]
          /\ Goto(t, "release")
          /\ UNCHANGED <<head, node>>
     ELSE /\ head' = [head EXCEPT ![t] = NoBlock]
          /\ node' = [node EXCEPT ![t] = head[t]]
          /\ Goto(t, "drop")
          /\ UNCHANGED freeListHead
  /\ next' = [next EXCEPT ![t] = NoBlock]
  /\ UNCHANGED <<freeListRefs, freeListNext, inUse, refs, top>>

\* The compare-and-swap that fails leaves the present head in head.
Pop(t) ==
  /\ pc[t] = "pop"
  /\ IF freeListHead = head[t]
     THEN /\ freeListHead' = next[t]
          /\ Goto(t, "release")
          /\ UNCHANGED <<head, node>>
     ELSE /\ head' = [head EXCEPT ![t] = freeListHead]
          /\ node' = [node EXCEPT ![t] = head[t]]
          /\ Goto(t, "drop")
          /\ UNCHANGED freeListHead
  /\ next' = [next EXCEPT ![t] = NoBlock]
  /\ UNCHANGED <<freeListRefs, freeListNext, inUse, refs, top>>

\* The thread's reference and the list's; the block is returned.
Release(t) ==
  /\ pc[t] = "release"
  /\ AddRefs(head[t], -2)
  /\ inUse' = inUse \cup {head[t]}
  /\ head' = [head EXCEPT ![t] = NoBlock]
  /\ Goto(t, "idle")
  /\ UNCHANGED <<freeListHead, freeListNext, refs, next, node, top>>

\* Where a call that was not the outermost one returns to: the while of try_get.
Resume(t) == Goto(t, IF head[t] = NoBlock THEN "idle" ELSE "refs")

\* Mutant: whoever drops its reference leaves the block to others.
Drop_Leaves(t) ==
  /\ pc[t] = "drop"
  /\ AddRefs(node[t], -1)
  /\ Resume(t) /\ node' = [node EXCEPT ![t] = NoBlock]
  /\ UNCHANGED <<freeListHead, freeListNext, inUse, head, refs, next, top>>

\* Somebody else has changed the head.  The last one with a reference to a
\* block that is marked links it in.
Drop(t) ==
  /\ pc[t] = "drop"
  /\ AddRefs(node[t], -1)
  /\ IF freeListRefs[node[t]] = SHOULD_BE_ON_FREELIST + 1
     THEN Goto(t, "top") /\ UNCHANGED node
     ELSE Resume(t) /\ node' = [node EXCEPT ![t] = NoBlock]
  /\ UNCHANGED <<freeListHead, freeListNext, inUse, head, refs, next, top>>

-----------------------------------------------------------------------------
(* add                                                                     *)

\* Mutant: the block is linked in whoever has a reference to it.
Add_Always(t) ==
  /\ t = Adder /\ pc[t] = "idle"
  /\ \E b \in inUse :
       /\ inUse' = inUse \ {b}
       /\ AddRefs(b, SHOULD_BE_ON_FREELIST)
       /\ Goto(t, "top") /\ node' = [node EXCEPT ![t] = b]
  /\ UNCHANGED <<freeListHead, freeListNext, head, refs, next, top>>

Add(t) ==
  /\ t = Adder /\ pc[t] = "idle"
  /\ \E b \in inUse :
       /\ inUse' = inUse \ {b}
       /\ AddRefs(b, SHOULD_BE_ON_FREELIST)
       /\ IF freeListRefs[b] = 0
          THEN Goto(t, "top") /\ node' = [node EXCEPT ![t] = b]
          ELSE UNCHANGED <<pc, node>>
  /\ UNCHANGED <<freeListHead, freeListNext, head, refs, next, top>>

-----------------------------------------------------------------------------
(* add_knowing_refcount_is_zero                                            *)

LoadTop(t) ==
  /\ pc[t] = "top"
  /\ top' = [top EXCEPT ![t] = freeListHead]
  /\ Goto(t, "link")
  /\ UNCHANGED <<list, inUse, head, refs, next, node>>

StoreNext(t) ==
  /\ pc[t] = "link"
  /\ freeListNext' = [freeListNext EXCEPT ![node[t]] = top[t]]
  /\ Goto(t, "count")
  /\ UNCHANGED <<freeListHead, freeListRefs, inUse, locals>>

\* Mutant: the mark goes, but the list's reference is not counted.
StoreRefs_Zero(t) ==
  /\ pc[t] = "count"
  /\ freeListRefs' = [freeListRefs EXCEPT ![node[t]] = 0]
  /\ Goto(t, "push")
  /\ UNCHANGED <<freeListHead, freeListNext, inUse, locals>>

\* The mark goes and the list's reference comes.  Others may count themselves
\* in from here on.
StoreRefs(t) ==
  /\ pc[t] = "count"
  /\ freeListRefs' = [freeListRefs EXCEPT ![node[t]] = 1]
  /\ Goto(t, "push")
  /\ UNCHANGED <<freeListHead, freeListNext, inUse, locals>>

Push(t) ==
  /\ pc[t] = "push"
  /\ IF freeListHead = top[t]
     THEN /\ freeListHead' = node[t]
          /\ Resume(t)
          /\ node' = [node EXCEPT ![t] = NoBlock]
          /\ top' = [top EXCEPT ![t] = NoBlock]
     ELSE /\ top' = [top EXCEPT ![t] = freeListHead]
          /\ Goto(t, "defer")
          /\ UNCHANGED <<freeListHead, node>>
  /\ UNCHANGED <<freeListRefs, freeListNext, inUse, head, refs, next>>

\* Mutant: the push is tried again at once, whoever has a reference by now.
Defer_Retries(t) ==
  /\ pc[t] = "defer"
  /\ AddRefs(node[t], SHOULD_BE_ON_FREELIST - 1)
  /\ Goto(t, "link")
  /\ UNCHANGED <<freeListHead, freeListNext, inUse, locals>>

\* The mark again instead of the list's reference.  The block is left to those
\* who have a reference to it, if there are any.
Defer(t) ==
  /\ pc[t] = "defer"
  /\ AddRefs(node[t], SHOULD_BE_ON_FREELIST - 1)
  /\ IF freeListRefs[node[t]] = 1
     THEN Goto(t, "link") /\ UNCHANGED <<node, top>>
     ELSE /\ Resume(t)
          /\ node' = [node EXCEPT ![t] = NoBlock]
          /\ top' = [top EXCEPT ![t] = NoBlock]
  /\ UNCHANGED <<freeListHead, freeListNext, inUse, head, refs, next>>

-----------------------------------------------------------------------------
TryGet(t) ==
  \/ Call(t) \/ LoadHead(t) \/ LoadRefs(t) \/ Increment(t)
  \/ LoadNext(t) \/ Pop(t) \/ Release(t) \/ Drop(t)

AddKnowingRefcountIsZero(t) ==
  LoadTop(t) \/ StoreNext(t) \/ StoreRefs(t) \/ Push(t) \/ Defer(t)

Step(t) == TryGet(t) \/ Add(t) \/ AddKnowingRefcountIsZero(t)

Calls == {t \in Getters : pc[t] # "idle"}

\* Those in use, and the one that is being given back.
NotToBeHad == inUse \cup {b \in Blocks : pc[Adder] # "idle" /\ node[Adder] = b}

\* After every step: a call remembers that there was another one, or no block.
Remember == met' = {t \in Calls' : t \in met \/ Calls' # {t} \/ NotToBeHad' = Blocks}

Next == (\E t \in Threads : Step(t)) /\ Remember

Spec == Init /\ [][Next]_vars

(***************************************************************************)
(* A thread in the middle of a call goes on with it.                       *)
(***************************************************************************)
Fairness == \A t \in Threads : WF_vars(pc[t] # "idle" /\ Step(t) /\ Remember)

FairSpec == Spec /\ Fairness

-----------------------------------------------------------------------------
(* Properties.                                                             *)

TypeOK ==
  /\ freeListHead \in Blocks \cup {NoBlock}
  /\ freeListRefs \in [Blocks -> 0 .. 2 * SHOULD_BE_ON_FREELIST - 1]
  /\ freeListNext \in [Blocks -> Blocks \cup {NoBlock}]
  /\ inUse \in SUBSET Blocks
  /\ pc \in [Threads -> {"idle", "load", "refs", "increment", "next", "pop", "release",
                         "drop", "top", "link", "count", "push", "defer"}]
  /\ head \in [Threads -> Blocks \cup {NoBlock}]
  /\ refs \in [Threads -> 0 .. 2 * SHOULD_BE_ON_FREELIST - 1]
  /\ next \in [Threads -> Blocks \cup {NoBlock}]
  /\ node \in [Threads -> Blocks \cup {NoBlock}]
  /\ top \in [Threads -> Blocks \cup {NoBlock}]
  /\ met \subseteq Calls

\* The threads with a counted reference to b, and those that link b in.
Holders(b) ==
  {t \in Threads : \/ pc[t] \in {"next", "pop", "release"} /\ head[t] = b
                   \/ pc[t] = "drop" /\ node[t] = b}
Takers(b) == {t \in Threads : pc[t] = "release" /\ head[t] = b}
Linking == {"top", "link", "count", "push", "defer"}
Linkers(b) == {t \in Threads : pc[t] \in Linking /\ node[t] = b}

\* The assertion at concurrentqueue.h:1472: a block just taken is not marked.
\* And it is nobody else's: it holds no message, no other thread has taken it
\* and none is linking it in.
HandedOutOnce ==
  \A t \in Threads : pc[t] = "release" =>
    /\ ~Marked(freeListRefs[head[t]])
    /\ head[t] \notin inUse
    /\ Takers(head[t]) = {t} /\ Linkers(head[t]) = {}

\* s is the list from its head to its end, without a cycle.
IsList(s) ==
  /\ IsInjective(s)
  /\ freeListHead = IF s = << >> THEN NoBlock ELSE s[1]
  /\ \A i \in DOMAIN s :
       freeListNext[s[i]] = IF i = Len(s) THEN NoBlock ELSE s[i + 1]

\* Every block is in use, on the list, just taken from it, about to be linked
\* in by one thread, or marked and referred to by threads of which the last
\* links it in: none is lost.
NoneLost ==
  \E s \in SeqOf(Blocks, Cardinality(Blocks)) :
    /\ IsList(s)
    /\ \A b \in Blocks \ (inUse \cup ToSet(s)) :
         \/ Takers(b) # {}
         \/ Linkers(b) # {}
         \/ Marked(freeListRefs[b]) /\ Holders(b) # {}

\* What a thread read of a block's next pointer stays true as long as it holds
\* its reference, so that the head it swaps in is the rest of the list.
NextIsCurrent ==
  \A t \in Threads : pc[t] = "pop" => next[t] = freeListNext[head[t]]

BP == INSTANCE BlockPool WITH inUse <- NotToBeHad, calls <- Calls

\* A block that was given back can be had, by one thread; and try_get returns
\* null only to a thread that was not the only one in it, or if there was no
\* block at some moment of its call: not because the head changed under it,
\* nor because a block was still about to be linked in by another thread that
\* had gone.
ImplementsPool == BP!Spec

\* However the threads get in each other's way, calls go on being completed
\* unless none is under way.
Completed == \E t \in Threads : pc[t] # "idle" /\ pc'[t] = "idle"
LockFree == []<>(\A t \in Threads : pc[t] = "idle") \/ []<><<Completed>>_vars

=============================================================================
