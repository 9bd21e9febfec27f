------------------------ MODULE ProducerTableProofs ------------------------
(***************************************************************************)
(* Proofs about ProducerTable, for any threads and any hashes of their     *)
(* ids.                                                                    *)
(***************************************************************************)
EXTENDS ProducerTable, FiniteSetTheorems, SequenceTheorems, WellFoundedInduction, TLAPS

\* A non-empty set of numbers has a least one, the one Min picks: what a
\* search that leaves its loop at the first match returns.
LEMMA MinOfNaturals ==
  ASSUME NEW S, S \subseteq Nat, S # {}
  PROVE  Min(S) \in S /\ \A y \in S : Min(S) <= y
<1> DEFINE Below == {0 .. x : x \in S}
<1>1. Below \subseteq FiniteSubsetsOf(Nat) /\ Below # {}
  <2>1. \A x \in S : 0 .. x \in SUBSET Nat /\ IsFiniteSet(0 .. x)
    BY FS_Interval
  <2> QED BY <2>1 DEF FiniteSubsetsOf
<1>2. PICK X \in Below : \A Y \in Below : ~ (<<Y, X>> \in StrictSubsetOrdering(Nat))
  <2> HIDE DEF Below
  <2> QED BY <1>1, FS_StrictSubsetOrderingWellFounded, WFMin
<1>3. PICK m \in S : X = 0 .. m
  OBVIOUS
<1>4. ASSUME NEW y \in S, y < m PROVE FALSE
  <2>1. 0 .. y \in Below /\ 0 .. y \subseteq X /\ m \in X /\ m \notin 0 .. y
    BY <1>3, <1>4
  <2> QED BY <2>1, <1>1, <1>2, <1>3 DEF StrictSubsetOrdering, FiniteSubsetsOf
<1>5. \A y \in S : m <= y
  BY <1>4
<1> QED BY <1>5 DEF Min

\* And a bounded one has a greatest.
LEMMA MaxOfInterval ==
  ASSUME NEW n \in Nat, NEW S, S \subseteq 1 .. n, S # {}
  PROVE  Max(S) \in S /\ \A y \in S : y <= Max(S)
<1> DEFINE T == {n - x : x \in S}
<1>1. \A x \in S : x \in Int /\ n - x \in Nat
  OBVIOUS
<1>2. T \subseteq Nat /\ T # {}
  BY <1>1
<1>3. Min(T) \in T /\ \A y \in T : Min(T) <= y
  <2> HIDE DEF T
  <2> QED BY <1>2, MinOfNaturals
<1>4. PICK x \in S : Min(T) = n - x
  BY <1>3
<1>5. ASSUME NEW y \in S PROVE y <= x
  <2>1. n - x <= n - y
    BY <1>3, <1>4
  <2> QED BY <1>1, <2>1
<1> QED BY <1>4, <1>5 DEF Max

-----------------------------------------------------------------------------
(* Tables.                                                                 *)

Tables ==
  UNION {[capacity : {c}, key : [0 .. c - 1 -> Threads \cup {NoThread}],
          value : [0 .. c - 1 -> Nat]] : c \in PowersOfTwo}

LEMMA PowersLemma ==
  /\ PowersOfTwo \subseteq Nat /\ 65536 \in PowersOfTwo
  /\ \A c \in PowersOfTwo :
       c >= 2 /\ c <= 65536 /\ c \div 2 + c \div 4 \in Nat /\ c \div 2 + c \div 4 < c
BY DEF PowersOfTwo

LEMMA TablesLemma ==
  ASSUME NEW h \in Tables
  PROVE  /\ h.capacity \in PowersOfTwo /\ h.capacity \in Nat /\ h.capacity >= 2
         /\ h.key \in [0 .. h.capacity - 1 -> Threads \cup {NoThread}]
         /\ h.value \in [0 .. h.capacity - 1 -> Nat]
         /\ h = [capacity |-> h.capacity, key |-> h.key, value |-> h.value]
BY PowersLemma DEF Tables

LEMMA RestLemma ==
  ASSUME NEW c \in PowersOfTwo, NEW x \in Nat, NEW i \in 0 .. c - 1
  PROVE  /\ x % c \in 0 .. c - 1
         /\ \E n \in 0 .. c - 1 : (x + n) % c = i
<1> DEFINE r == x % c
           Shifted(n) == (x + n) % c
<1>1. /\ r \in 0 .. c - 1
      /\ \A n \in 0 .. c - 1 : Shifted(n) = IF r + n < c THEN r + n ELSE r + n - c
  BY DEF PowersOfTwo
<1>2. c \in Nat
  BY PowersLemma
<1> HIDE DEF r, Shifted
<1>3. CASE i >= r
  <2>1. i - r \in 0 .. c - 1 /\ r + (i - r) = i /\ i < c
    BY <1>1, <1>2, <1>3
  <2>2. Shifted(i - r) = i
    BY <1>1, <2>1
  <2> QED BY <1>1, <2>1, <2>2 DEF r, Shifted
<1>4. CASE i < r
  <2> DEFINE n == i + c - r
  <2>1. n \in 0 .. c - 1 /\ r + n = i + c
    BY <1>1, <1>2, <1>4
  <2> HIDE DEF n
  <2>2. Shifted(n) = i
    BY <1>1, <1>2, <2>1
  <2> QED BY <1>1, <2>1, <2>2 DEF r, Shifted
<1> QED BY <1>1, <1>2, <1>3, <1>4

LEMMA SlotLemma ==
  ASSUME NEW h \in Tables, NEW t \in Threads
  PROVE  /\ \A n \in 0 .. h.capacity - 1 : Slot(h, t, n) \in 0 .. h.capacity - 1
         /\ \A i \in 0 .. h.capacity - 1 :
              \E n \in 0 .. h.capacity - 1 : Slot(h, t, n) = i
<1> DEFINE c == h.capacity
<1>1. c \in PowersOfTwo /\ c \in Nat /\ HashOf[t] \in Nat
  BY TablesLemma, HashAssumption
<1> HIDE DEF c
<1>2. \A n \in 0 .. c - 1 : (HashOf[t] + n) % c \in 0 .. c - 1
  <2> TAKE n \in 0 .. c - 1
  <2>1. HashOf[t] + n \in Nat
    BY <1>1
  <2> QED BY <1>1, <2>1, RestLemma
<1>3. \A i \in 0 .. c - 1 : \E n \in 0 .. c - 1 : (HashOf[t] + n) % c = i
  BY <1>1, RestLemma
<1> QED BY <1>2, <1>3 DEF c, Slot

\* The probing loop of the thread in slot i of h ends there.
Reached(h, i) ==
  \E n \in 0 .. h.capacity - 1 :
    /\ Slot(h, h.key[i], n) = i
    /\ \A m \in 0 .. n - 1 : h.key[Slot(h, h.key[i], m)] # NoThread

\* Every key is found where it is, and there only.
Tidy(h) ==
  \A i \in 0 .. h.capacity - 1 : h.key[i] # NoThread =>
    /\ Reached(h, i)
    /\ \A j \in 0 .. h.capacity - 1 : h.key[j] = h.key[i] => j = i

LEMMA EmptyLemma ==
  ASSUME NEW c \in PowersOfTwo
  PROVE  /\ EmptyTable(c) \in Tables /\ EmptyTable(c).capacity = c
         /\ Keys(EmptyTable(c)) = {NoThread} /\ Tidy(EmptyTable(c))
         /\ \A i \in 0 .. c - 1 : EmptyTable(c).value[i] = 0
<1>1. c \in Nat /\ c >= 2
  BY PowersLemma
<1>2. EmptyTable(c) \in [capacity : {c}, key : [0 .. c - 1 -> Threads \cup {NoThread}],
                         value : [0 .. c - 1 -> Nat]]
  BY DEF EmptyTable
<1>3. 0 \in 0 .. c - 1
  BY <1>1
<1> QED BY <1>2, <1>3 DEF EmptyTable, Tables, Keys, Tidy

\* A probing loop finds the keys that are in the table.
LEMMA HoldsLemma ==
  ASSUME NEW h \in Tables, Tidy(h), NEW t \in Threads
  PROVE  Holds(h, t) <=> t \in Keys(h)
<1>1. t # NoThread /\ DOMAIN h.key = 0 .. h.capacity - 1
  BY TablesLemma, ThreadsAssumption
<1>2. Holds(h, t) => t \in Keys(h)
  BY <1>1, SlotLemma DEF Holds, Keys
<1>3. ASSUME NEW i \in 0 .. h.capacity - 1, h.key[i] = t PROVE Holds(h, t)
  BY <1>1, <1>3 DEF Tidy, Reached, Holds
<1> QED BY <1>1, <1>2, <1>3 DEF Keys

LEMMA ValueLemma ==
  ASSUME NEW h \in Tables, Tidy(h), NEW t \in Threads \cap Keys(h)
  PROVE  \E i \in 0 .. h.capacity - 1 : h.key[i] = t /\ ValueOf(h, t) = h.value[i]
BY TablesLemma, ThreadsAssumption DEF Tidy, Keys, ValueOf

\* The probing loop that inserts a key ends at a free slot, if there is one.
LEMMA PutLemma ==
  ASSUME NEW h \in Tables, Tidy(h), NEW t \in Threads, NEW p \in Nat,
         NoThread \in Keys(h), t \notin Keys(h)
  PROVE  /\ Put(h, t, p) \in Tables /\ Put(h, t, p).capacity = h.capacity
         /\ Tidy(Put(h, t, p))
         /\ \E i \in 0 .. h.capacity - 1 :
              /\ h.key[i] = NoThread
              /\ Put(h, t, p).key = [h.key EXCEPT ![i] = t]
              /\ Put(h, t, p).value = [h.value EXCEPT ![i] = p]
<1> DEFINE c == h.capacity
           Free == {n \in 0 .. c - 1 : h.key[Slot(h, t, n)] = NoThread}
           k == Min(Free)
           i == Slot(h, t, k)
           g == Put(h, t, p)
<1>1. /\ c \in PowersOfTwo /\ c \in Nat /\ t # NoThread
      /\ h.key \in [0 .. c - 1 -> Threads \cup {NoThread}]
      /\ h.value \in [0 .. c - 1 -> Nat]
      /\ h = [capacity |-> c, key |-> h.key, value |-> h.value]
  BY TablesLemma, ThreadsAssumption
<1>2. /\ \A n \in 0 .. c - 1 : Slot(h, t, n) \in 0 .. c - 1
      /\ \A j \in 0 .. c - 1 : \E n \in 0 .. c - 1 : Slot(h, t, n) = j
  BY SlotLemma
<1>3. Free # {}
  BY <1>1, <1>2 DEF Keys
<1>4. k \in Free /\ \A n \in Free : k <= n
  <2>1. Free \subseteq Nat
    BY <1>1
  <2> HIDE DEF Free
  <2> QED BY <1>3, <2>1, MinOfNaturals
<1>5. i \in 0 .. c - 1 /\ h.key[i] = NoThread
  BY <1>2, <1>4
<1>6. g = [capacity |-> c, key |-> [h.key EXCEPT ![i] = t],
           value |-> [h.value EXCEPT ![i] = p]]
  BY DEF Put
<1>7. \A m \in 0 .. k - 1 : h.key[Slot(h, t, m)] # NoThread
  <2> TAKE m \in 0 .. k - 1
  <2>1. m \in 0 .. c - 1 /\ ~ (k <= m)
    BY <1>1, <1>4
  <2> QED BY <1>4, <2>1
<1>8. \A u, n : Slot(g, u, n) = Slot(h, u, n)
  BY <1>6 DEF Slot
<1>9. k \in 0 .. c - 1
  BY <1>4
<1>10. /\ g.capacity = c /\ g.key = [h.key EXCEPT ![i] = t]
      /\ g.value = [h.value EXCEPT ![i] = p]
  BY <1>6
<1> HIDE DEF g, k, Free
<1>11. g \in Tables
  <2>1. [h.key EXCEPT ![i] = t] \in [0 .. c - 1 -> Threads \cup {NoThread}]
    BY <1>1
  <2>2. [h.value EXCEPT ![i] = p] \in [0 .. c - 1 -> Nat]
    BY <1>1
  <2> HIDE DEF c, i
  <2> QED BY <1>1, <1>6, <2>1, <2>2 DEF Tables
<1>12. Tidy(g)
  <2> SUFFICES ASSUME NEW j \in 0 .. c - 1, g.key[j] # NoThread
               PROVE  /\ Reached(g, j)
                      /\ \A l \in 0 .. c - 1 : g.key[l] = g.key[j] => l = j
    BY <1>10 DEF Tidy
  <2>1. CASE j = i
    <3>1. g.key[j] = t /\ \A l \in 0 .. c - 1 : l # i => g.key[l] = h.key[l]
      BY <1>1, <1>5, <1>10, <2>1
    <3>2. \A l \in 0 .. c - 1 : h.key[l] # t
      BY <1>1 DEF Keys
    <3>3. \A m \in 0 .. k - 1 : g.key[Slot(h, t, m)] # NoThread
      <4> TAKE m \in 0 .. k - 1
      <4>1. m \in 0 .. c - 1
        BY <1>1, <1>9
      <4>2. Slot(h, t, m) \in 0 .. c - 1
        BY <1>2, <4>1
      <4> QED BY <1>1, <1>7, <3>1, <4>2, <2>1
    <3>4. Slot(h, t, k) = i
      OBVIOUS
    <3>5. Reached(g, j)
      BY <1>8, <1>9, <1>10, <2>1, <3>1, <3>3, <3>4 DEF Reached
    <3>6. \A l \in 0 .. c - 1 : g.key[l] = g.key[j] => l = j
      BY <2>1, <3>1, <3>2
    <3> QED BY <3>5, <3>6
  <2>2. CASE j # i
    <3>1. g.key[j] = h.key[j] /\ h.key[j] # t /\ h.key[j] \in Threads
      BY <1>1, <1>10, <2>2 DEF Keys
    <3>2. Reached(h, j)
      BY <3>1, <1>1, ThreadsAssumption DEF Tidy
    <3>3. \A l \in 0 .. c - 1 : h.key[l] # NoThread => g.key[l] # NoThread
      BY <1>1, <1>10
    <3>4. PICK n \in 0 .. c - 1 :
            /\ Slot(h, h.key[j], n) = j
            /\ \A m \in 0 .. n - 1 : h.key[Slot(h, h.key[j], m)] # NoThread
      BY <3>2 DEF Reached
    <3>5. \A m \in 0 .. n - 1 : g.key[Slot(h, h.key[j], m)] # NoThread
      <4> TAKE m \in 0 .. n - 1
      <4>1. m \in 0 .. c - 1
        BY <1>1
      <4>2. Slot(h, h.key[j], m) \in 0 .. c - 1
        BY <3>1, <4>1, SlotLemma
      <4> QED BY <3>3, <3>4, <4>2
    <3>6. Reached(g, j)
      BY <1>10, <1>8, <3>1, <3>4, <3>5 DEF Reached
    <3>7. \A l \in 0 .. c - 1 : g.key[l] = g.key[j] => l = j
      <4> TAKE l \in 0 .. c - 1
      <4>1. g.key[l] = IF l = i THEN t ELSE h.key[l]
        BY <1>1, <1>10
      <4> QED BY <3>1, <4>1, <1>1, ThreadsAssumption DEF Tidy
    <3> QED BY <3>6, <3>7
  <2> QED BY <2>1, <2>2
<1> QED BY <1>5, <1>11, <1>10, <1>12 DEF g

\* A table with fewer threads than slots has a free one.
LEMMA RoomLemma ==
  ASSUME NEW h \in Tables, Tidy(h), NEW S, IsFiniteSet(S),
         Threads \cap Keys(h) \subseteq S, Cardinality(S) < h.capacity
  PROVE  NoThread \in Keys(h)
<1> SUFFICES ASSUME NoThread \notin Keys(h) PROVE FALSE
  OBVIOUS
<1> DEFINE c == h.capacity
<1>1. c \in Nat /\ h.key \in [0 .. c - 1 -> Threads \cup {NoThread}]
  BY TablesLemma
<1>2. h.key \in Injection(0 .. c - 1, S)
  <2>1. \A i \in 0 .. c - 1 : h.key[i] # NoThread /\ h.key[i] \in S
    BY <1>1 DEF Keys
  <2>2. h.key \in [0 .. c - 1 -> S]
    BY <1>1, <2>1
  <2>3. \A i, j \in 0 .. c - 1 : h.key[i] = h.key[j] => i = j
    BY <2>1 DEF Tidy
  <2> HIDE DEF c
  <2> QED BY <2>2, <2>3 DEF Injection, IsInjective
<1>3. Cardinality(0 .. c - 1) <= Cardinality(S)
  BY <1>2, FS_Injection
<1>4. Cardinality(0 .. c - 1) = c
  <2>1. 0 \in Int /\ c - 1 \in Int
    BY <1>1
  <2> HIDE DEF c
  <2> QED BY <1>1, <2>1, FS_Interval
<1>5. Cardinality(S) \in Nat
  BY FS_CardinalityType
<1> QED BY <1>1, <1>3, <1>4, <1>5

-----------------------------------------------------------------------------
(* The invariant.                                                          *)

Pending == {t \in Threads : pc[t] \in {"resize", "locked", "grow", "unlock", "add"}}
Resizing == {t \in Threads : pc[t] \in {"locked", "grow", "unlock", "give_up"}}

HasProducer(t) == \E i \in 1 .. Len(producers) : producers[i] = t
InSome(t) == \E i \in 1 .. Len(tables) : t \in Keys(tables[i])

\* The threads that are counted.
Live == {t \in Threads : HasProducer(t) \/ t \in Pending}

TypeInv ==
  /\ tables \in Seq(Tables) /\ Len(tables) >= 1
  /\ implicitProducerHashCount = Cardinality(Live)
  /\ implicitProducerHashResizeInProgress \in BOOLEAN
  /\ producers \in Seq(Threads)
  /\ pc \in [Threads -> Labels]
  /\ mainHash \in [Threads -> 1 .. Len(tables)]
  /\ newCount \in [Threads -> 0 .. Cardinality(Threads)]
  /\ given \in [Threads -> 0 .. Len(producers)]

\* The flag is set by the one thread that resizes.
FlagInv ==
  /\ implicitProducerHashResizeInProgress => \E t \in Threads : Resizing = {t}
  /\ ~implicitProducerHashResizeInProgress => Resizing = {}

\* A thread has one producer, and once it has inserted it into a table it is
\* found in one.
ProducerInv ==
  /\ \A i, j \in 1 .. Len(producers) : producers[i] = producers[j] => i = j
  /\ \A t \in Threads :
       /\ t \in Pending \/ pc[t] = "count" => ~HasProducer(t)
       /\ pc[t] = "insert" => HasProducer(t) /\ ~InSome(t)
       /\ HasProducer(t) => InSome(t) \/ pc[t] = "insert"
       /\ given[t] # 0 => producers[given[t]] = t

\* The tables grow, and beside a thread's key is its producer.
ValuesOK(h, own) ==
  \A i \in 0 .. h.capacity - 1 :
    /\ h.value[i] \in 0 .. Len(own)
    /\ h.key[i] # NoThread => h.value[i] # 0 /\ own[h.value[i]] = h.key[i]
TableInv ==
  /\ \A i \in 1 .. Len(tables) : Tidy(tables[i]) /\ ValuesOK(tables[i], producers)
  /\ \A i, j \in 1 .. Len(tables) : i < j => tables[i].capacity < tables[j].capacity

LocalInv ==
  \A t \in Threads :
    /\ pc[t] = "copy" => t \notin Keys(Front(t)) /\ InSome(t)
    /\ pc[t] = "grow" => mainHash[t] = Len(tables) /\ newCount[t] >= Half(Front(t))

(***************************************************************************)
(* c is the newCount each thread got last.  Of the threads counted now, at *)
(* most n got one up to n, whatever was counted and taken back meanwhile;  *)
(* and those that are in a table, or about to be put there, got one less   *)
(* than three quarters of its capacity.                                    *)
(***************************************************************************)
UpTo(c, n) == {t \in Live : c[t] <= n}
Ranks(c) ==
  /\ c \in [Threads -> Nat]
  /\ \A n \in Nat : Cardinality(UpTo(c, n)) <= n
  /\ \A t \in Threads : t \in Pending \/ pc[t] = "insert" => c[t] = newCount[t]
  /\ \A t \in Threads : pc[t] \in {"copy", "insert"} => c[t] < ThreeQuarters(Front(t))
  /\ \A i \in 1 .. Len(tables), t \in Threads :
       t \in Keys(tables[i]) => c[t] < ThreeQuarters(tables[i])
RankInv == \E c : Ranks(c)

IInv == TypeInv /\ FlagInv /\ ProducerInv /\ TableInv /\ LocalInv /\ RankInv

-----------------------------------------------------------------------------
(* What follows from it.                                                   *)

LEMMA DomainLemma == IInv => DOMAIN tables = 1 .. Len(tables)
BY DEF IInv, TypeInv

LEMMA LiveLemma ==
  /\ IsFiniteSet(Threads) /\ Cardinality(Threads) \in Nat
  /\ \A S \in SUBSET Threads :
       IsFiniteSet(S) /\ Cardinality(S) \in Nat /\ Cardinality(S) <= Cardinality(Threads)
BY ThreadsAssumption, FS_CardinalityType, FS_Subset

\* A thread that is in a table has a producer.
LEMMA OwnerLemma ==
  ASSUME IInv, NEW i \in 1 .. Len(tables), NEW t \in Threads, t \in Keys(tables[i])
  PROVE  HasProducer(t)
<1> DEFINE h == tables[i]
<1>1. h \in Tables /\ ValuesOK(h, producers)
  BY DEF IInv, TypeInv, TableInv
<1>2. PICK j \in 0 .. h.capacity - 1 : h.key[j] = t
  BY <1>1, TablesLemma DEF Keys
<1>3. h.value[j] \in 0 .. Len(producers) /\ h.value[j] # 0 /\ producers[h.value[j]] = t
  BY <1>1, <1>2, ThreadsAssumption DEF ValuesOK
<1>4. Len(producers) \in Nat
  BY DEF IInv, TypeInv
<1>5. \A v \in 0 .. Len(producers) : v # 0 => v \in 1 .. Len(producers)
  BY <1>4
<1>6. h.value[j] \in 1 .. Len(producers) /\ producers[h.value[j]] = t
  BY ONLY <1>3, <1>5
<1> QED BY <1>6 DEF HasProducer

\* Every table has a free slot.
LEMMA RoomInv ==
  ASSUME IInv, NEW i \in 1 .. Len(tables)
  PROVE  NoThread \in Keys(tables[i])
<1> DEFINE h == tables[i]
           n == ThreeQuarters(h) - 1
<1>1. h \in Tables /\ Tidy(h) /\ ValuesOK(h, producers)
  BY DEF IInv, TypeInv, TableInv
<1>2. h.capacity \in Nat /\ ThreeQuarters(h) \in Nat /\ ThreeQuarters(h) < h.capacity
  BY <1>1, TablesLemma, PowersLemma DEF ThreeQuarters
<1>3. PICK c : Ranks(c)
  BY DEF IInv, RankInv
<1>4. \A t \in Threads \cap Keys(h) : t \in Live /\ c[t] <= n /\ n \in Nat
  <2> TAKE t \in Threads \cap Keys(h)
  <2>1. c[t] < ThreeQuarters(h) /\ c[t] \in Nat
    BY <1>3 DEF Ranks
  <2>2. HasProducer(t)
    BY OwnerLemma
  <2> QED BY <1>2, <2>1, <2>2 DEF Live
<1>5. CASE Threads \cap Keys(h) = {}
  <2>1. Cardinality({}) < h.capacity /\ IsFiniteSet({})
    BY <1>1, TablesLemma, FS_EmptySet
  <2> QED BY <1>1, <1>5, <2>1, RoomLemma
<1>6. CASE Threads \cap Keys(h) # {}
  <2>1. n \in Nat /\ n < h.capacity
    BY <1>2, <1>4, <1>6
  <2>2. Threads \cap Keys(h) \subseteq UpTo(c, n)
    BY <1>4 DEF UpTo
  <2>3. UpTo(c, n) \in SUBSET Threads
    BY DEF UpTo, Live
  <2> HIDE DEF n
  <2>4. IsFiniteSet(UpTo(c, n)) /\ Cardinality(UpTo(c, n)) \in Nat
    BY <2>3, LiveLemma
  <2>5. Cardinality(UpTo(c, n)) <= n
    BY <1>3, <2>1 DEF Ranks
  <2>6. Cardinality(UpTo(c, n)) < h.capacity
    BY <1>2, <2>1, <2>4, <2>5
  <2> QED BY <1>1, <2>2, <2>4, <2>6, RoomLemma
<1> QED BY <1>5, <1>6

\* A search finds the tables a thread is in, and its producer there.
LEMMA FoundLemma ==
  ASSUME IInv, NEW t \in Threads
  PROVE  /\ FoundIn(t) \subseteq 1 .. Len(tables)
         /\ FoundIn(t) = {i \in 1 .. Len(tables) : t \in Keys(tables[i])}
         /\ FoundIn(t) # {} <=> InSome(t)
         /\ \A i \in FoundIn(t) :
              /\ ValueOf(tables[i], t) \in 1 .. Len(producers)
              /\ producers[ValueOf(tables[i], t)] = t
<1>1. DOMAIN tables = 1 .. Len(tables) /\ \A i \in 1 .. Len(tables) : tables[i] \in Tables
  BY DEF IInv, TypeInv
<1>2. FoundIn(t) = {i \in 1 .. Len(tables) : t \in Keys(tables[i])}
  BY <1>1, HoldsLemma DEF IInv, TableInv, FoundIn, Searched
<1>3. ASSUME NEW i \in FoundIn(t)
      PROVE  /\ ValueOf(tables[i], t) \in 1 .. Len(producers)
             /\ producers[ValueOf(tables[i], t)] = t
  <2> DEFINE h == tables[i]
  <2>1. h \in Tables /\ Tidy(h) /\ ValuesOK(h, producers) /\ t \in Threads \cap Keys(h)
    BY <1>1, <1>2, <1>3 DEF IInv, TableInv
  <2>2. PICK j \in 0 .. h.capacity - 1 : h.key[j] = t /\ ValueOf(h, t) = h.value[j]
    BY <2>1, ValueLemma
  <2>3. h.value[j] \in 0 .. Len(producers) /\ h.value[j] # 0 /\ producers[h.value[j]] = t
    BY <2>1, <2>2, ThreadsAssumption DEF ValuesOK
  <2>4. Len(producers) \in Nat
    BY DEF IInv, TypeInv
  <2> QED BY <2>2, <2>3, <2>4
<1> QED BY <1>2, <1>3 DEF InSome

-----------------------------------------------------------------------------
(* The tables in a step.                                                   *)

\* What a step of t does to the keys: it may add t to the table it looked at.
Adding(t) == pc[t] \in {"copy", "insert"}
KeysStep(t) ==
  /\ tables' \in Seq(Tables) /\ Len(tables') >= Len(tables)
  /\ \A i \in 1 .. Len(tables) :
       /\ tables'[i].capacity = tables[i].capacity
       /\ \A u \in Threads :
            u \in Keys(tables'[i]) <=>
              u \in Keys(tables[i]) \/ (u = t /\ i = mainHash[t] /\ Adding(t))
  /\ \A i \in 1 .. Len(tables'), u \in Threads :
       u \in Keys(tables'[i]) => i \in 1 .. Len(tables)

LEMMA PutStep ==
  ASSUME IInv, NEW t \in Threads, Adding(t), t \notin Keys(Front(t)),
         NEW p \in 1 .. Len(producers), producers[p] = t,
         tables' = [tables EXCEPT ![mainHash[t]] = Put(@, t, p)],
         producers' = producers
  PROVE  KeysStep(t) /\ TableInv'
<1> DEFINE i == mainHash[t]
           h == tables[i]
           g == Put(h, t, p)
<1>1. /\ tables \in Seq(Tables) /\ Len(tables) \in Nat /\ Len(producers) \in Nat
      /\ i \in 1 .. Len(tables)
  BY DEF IInv, TypeInv
<1>2. h \in Tables /\ Tidy(h) /\ ValuesOK(h, producers) /\ NoThread \in Keys(h) /\ p \in Nat
  BY <1>1, RoomInv DEF IInv, TableInv
<1>3. t \notin Keys(h)
  BY DEF Front
<1> HIDE DEF h
<1>4. /\ g \in Tables /\ g.capacity = h.capacity /\ Tidy(g)
      /\ \E s \in 0 .. h.capacity - 1 :
           /\ h.key[s] = NoThread
           /\ g.key = [h.key EXCEPT ![s] = t]
           /\ g.value = [h.value EXCEPT ![s] = p]
  BY <1>2, <1>3, PutLemma
<1> HIDE DEF g
<1>5. PICK s \in 0 .. h.capacity - 1 :
        /\ h.key[s] = NoThread
        /\ g.key = [h.key EXCEPT ![s] = t]
        /\ g.value = [h.value EXCEPT ![s] = p]
  BY <1>4
<1>6. tables' = [tables EXCEPT ![i] = g]
  BY DEF g, h
<1>7. /\ tables' \in Seq(Tables) /\ Len(tables') = Len(tables)
      /\ \A j \in 1 .. Len(tables) : tables'[j] = IF j = i THEN g ELSE tables[j]
  <2> HIDE DEF i
  <2>1. tables \in Seq(Tables) /\ i \in 1 .. Len(tables) /\ g \in Tables
    BY <1>1, <1>4
  <2> QED BY ONLY <1>6, <2>1, ExceptSeq
<1>8. \A u \in Threads : u \in Keys(g) <=> u \in Keys(h) \/ u = t
  <2>1. h.key \in [0 .. h.capacity - 1 -> Threads \cup {NoThread}]
    BY <1>2, TablesLemma
  <2>2. \A j \in 0 .. h.capacity - 1 : g.key[j] = IF j = s THEN t ELSE h.key[j]
    BY <1>5, <2>1
  <2>3. DOMAIN h.key = 0 .. h.capacity - 1 /\ DOMAIN g.key = 0 .. h.capacity - 1
    BY <1>5, <2>1
  <2>4. NoThread \notin Threads
    BY ThreadsAssumption
  <2>5. ASSUME NEW u \in Threads, u \in Keys(g) PROVE u \in Keys(h) \/ u = t
    <3>1. PICK j \in 0 .. h.capacity - 1 : g.key[j] = u
      BY <2>3, <2>5 DEF Keys
    <3>2. j # s => h.key[j] = u
      BY <2>2, <3>1
    <3>3. j = s => u = t
      BY <1>5, <2>2, <3>1
    <3> QED BY <2>3, <3>2, <3>3 DEF Keys
  <2>6. ASSUME NEW u \in Threads, u \in Keys(h) \/ u = t PROVE u \in Keys(g)
    <3>1. CASE u = t
      BY <1>5, <2>2, <2>3, <3>1 DEF Keys
    <3>2. CASE u \in Keys(h)
      <4>1. PICK j \in 0 .. h.capacity - 1 : h.key[j] = u
        BY <2>3, <3>2 DEF Keys
      <4>2. j # s
        BY <1>5, <2>4, <4>1
      <4>3. g.key[j] = u
        BY <2>2, <4>1, <4>2
      <4> QED BY <2>3, <4>1, <4>3 DEF Keys
    <3> QED BY <2>6, <3>1, <3>2
  <2> QED BY <2>5, <2>6
<1>9. \A j \in 0 .. g.capacity - 1 :
        /\ g.value[j] \in 0 .. Len(producers)
        /\ g.key[j] # NoThread => g.value[j] # 0 /\ producers[g.value[j]] = g.key[j]
  <2>1. /\ h.key \in [0 .. h.capacity - 1 -> Threads \cup {NoThread}]
        /\ h.value \in [0 .. h.capacity - 1 -> Nat]
    BY <1>2, TablesLemma
  <2> TAKE j \in 0 .. g.capacity - 1
  <2>2. j \in 0 .. h.capacity - 1
    BY <1>4
  <2>3. g.key[j] = (IF j = s THEN t ELSE h.key[j])
        /\ g.value[j] = IF j = s THEN p ELSE h.value[j]
    BY <1>5, <2>1, <2>2
  <2>4. CASE j = s
    <3>1. p \in 0 .. Len(producers) /\ p # 0 /\ producers[p] = t
      BY <1>1
    <3> QED BY <2>3, <2>4, <3>1
  <2>5. CASE j # s
    BY <1>2, <2>2, <2>3, <2>5 DEF ValuesOK
  <2> QED BY <2>4, <2>5
<1>10. KeysStep(t)
  <2> HIDE DEF i
  <2>1. \A j \in 1 .. Len(tables) : tables'[j].capacity = tables[j].capacity
    BY <1>4, <1>7 DEF h
  <2>2. \A j \in 1 .. Len(tables), u \in Threads :
          u \in Keys(tables'[j]) <=> u \in Keys(tables[j]) \/ (u = t /\ j = i)
    BY <1>7, <1>8 DEF h
  <2>3. Len(tables') >= Len(tables)
    BY <1>1, <1>7
  <2> QED BY <1>7, <2>1, <2>2, <2>3 DEF KeysStep, i
<1>11. \A j \in 1 .. Len(tables') : Tidy(tables'[j]) /\ ValuesOK(tables'[j], producers')
  <2> TAKE j \in 1 .. Len(tables')
  <2>1. CASE j = i
    <3>1. tables'[j] = g /\ Tidy(g)
      BY <1>1, <1>4, <1>7, <2>1
    <3> QED BY <1>9, <3>1 DEF ValuesOK
  <2>2. CASE j # i
    <3>1. tables'[j] = tables[j] /\ j \in 1 .. Len(tables)
      BY <1>7, <2>2
    <3>2. Tidy(tables[j]) /\ ValuesOK(tables[j], producers)
      BY <3>1 DEF IInv, TableInv
    <3> QED BY <3>1, <3>2 DEF ValuesOK
  <2> QED BY <2>1, <2>2
<1>12. \A j, k \in 1 .. Len(tables') : j < k => tables'[j].capacity < tables'[k].capacity
  BY <1>7, <1>10 DEF IInv, TableInv, KeysStep
<1> QED BY <1>10, <1>11, <1>12 DEF TableInv

LEMMA GrowStep ==
  ASSUME IInv, NEW t \in Threads, Grow(t)
  PROVE  KeysStep(t) /\ TableInv' /\ Len(tables') = Len(tables) + 1
<1>1. /\ tables \in Seq(Tables) /\ Len(tables) \in Nat /\ Len(tables) >= 1
      /\ mainHash[t] = Len(tables) /\ newCount[t] >= Half(Front(t))
      /\ newCount[t] \in 0 .. Cardinality(Threads) /\ Cardinality(Threads) \in Nat
      /\ pc[t] = "grow" /\ ~Adding(t) /\ producers' = producers
  BY LiveLemma DEF IInv, TypeInv, LocalInv, Grow, Adding
<1> DEFINE front == Front(t).capacity
           Enough == {c \in PowersOfTwo : c > front /\ newCount[t] < c \div 2}
           c == Min(Enough)
<1>2. front \in PowersOfTwo /\ newCount[t] < 32768 /\ newCount[t] >= front \div 2
  BY <1>1, TablesLemma, BoundAssumption DEF Front, Half
<1>3. 65536 \in Enough
  <2> HIDE DEF front
  <2>1. newCount[t] \in Nat
    BY <1>1
  <2>2. front < 65536
    BY <1>2, <2>1 DEF PowersOfTwo
  <2> QED BY <1>2, <2>1, <2>2 DEF PowersOfTwo
<1>4. c \in Enough
  <2>1. Enough # {}
    BY <1>3
  <2>2. Enough \subseteq PowersOfTwo
    OBVIOUS
  <2> HIDE DEF Enough
  <2>3. Enough \subseteq Nat
    BY <2>2, PowersLemma
  <2> QED BY <2>1, <2>3, MinOfNaturals
<1>5. tables' = Append(tables, EmptyTable(c))
  BY DEF Grow
<1> HIDE DEF c
<1>6. /\ EmptyTable(c) \in Tables /\ EmptyTable(c).capacity = c /\ c > front
      /\ Keys(EmptyTable(c)) = {NoThread} /\ Tidy(EmptyTable(c))
      /\ \A i \in 0 .. c - 1 : EmptyTable(c).value[i] = 0
      /\ c \in PowersOfTwo
  BY <1>4, EmptyLemma
<1>7. /\ tables' \in Seq(Tables) /\ Len(tables') = Len(tables) + 1
      /\ tables'[Len(tables) + 1] = EmptyTable(c)
      /\ \A j \in 1 .. Len(tables) : tables'[j] = tables[j]
  BY <1>1, <1>5, <1>6
<1>8. KeysStep(t)
  <2>1. \A u \in Threads : u \notin Keys(EmptyTable(c))
    BY <1>6, ThreadsAssumption
  <2>2. \A i \in 1 .. Len(tables'), u \in Threads :
          u \in Keys(tables'[i]) => i \in 1 .. Len(tables)
    BY <1>1, <1>7, <2>1
  <2> QED BY <1>1, <1>7, <2>2 DEF KeysStep
<1>9. \A j \in 1 .. Len(tables') : Tidy(tables'[j]) /\ ValuesOK(tables'[j], producers')
  <2> TAKE j \in 1 .. Len(tables')
  <2>1. CASE j = Len(tables) + 1
    <3>1. tables'[j] = EmptyTable(c)
      BY <1>7, <2>1
    <3>2. \A i \in 0 .. c - 1 : EmptyTable(c).key[i] = NoThread
      BY DEF EmptyTable
    <3>3. 0 \in 0 .. Len(producers)
      BY DEF IInv, TypeInv
    <3> QED BY <1>1, <1>6, <3>1, <3>2, <3>3 DEF ValuesOK
  <2>2. CASE j # Len(tables) + 1
    <3>1. tables'[j] = tables[j] /\ j \in 1 .. Len(tables)
      BY <1>1, <1>7, <2>2
    <3>2. Tidy(tables[j]) /\ ValuesOK(tables[j], producers)
      BY <3>1 DEF IInv, TableInv
    <3> QED BY <1>1, <3>1, <3>2 DEF ValuesOK
  <2> QED BY <2>1, <2>2
<1>10. \A j, k \in 1 .. Len(tables') : j < k => tables'[j].capacity < tables'[k].capacity
  <2> SUFFICES ASSUME NEW j \in 1 .. Len(tables'), NEW k \in 1 .. Len(tables'), j < k
               PROVE  tables'[j].capacity < tables'[k].capacity
    OBVIOUS
  <2>1. j \in 1 .. Len(tables) /\ tables'[j] = tables[j]
    BY <1>1, <1>7
  <2>2. CASE k = Len(tables) + 1
    <3>1. tables'[k].capacity = c
      BY <1>6, <1>7, <2>2
    <3>2. tables[j].capacity <= front
      <4>1. Len(tables) \in 1 .. Len(tables) /\ j <= Len(tables)
        BY <1>1, <2>1
      <4>2. j < Len(tables) => tables[j].capacity < tables[Len(tables)].capacity
        BY <2>1, <4>1 DEF IInv, TableInv
      <4>3. tables[j].capacity \in Nat /\ tables[Len(tables)].capacity \in Nat
        BY <1>1, <2>1, <4>1, TablesLemma
      <4> QED BY <1>1, <2>1, <4>1, <4>2, <4>3 DEF Front
    <3>3. tables[j].capacity \in Nat
      BY <1>1, <2>1, TablesLemma
    <3> HIDE DEF front
    <3>4. front \in Nat /\ c \in Nat
      BY <1>2, <1>6, PowersLemma
    <3> QED BY <1>6, <2>1, <3>1, <3>2, <3>3, <3>4
  <2>3. CASE k # Len(tables) + 1
    <3>1. k \in 1 .. Len(tables) /\ tables'[k] = tables[k]
      BY <1>1, <1>7, <2>3
    <3> QED BY <2>1, <3>1 DEF IInv, TableInv
  <2> QED BY <2>2, <2>3
<1> QED BY <1>7, <1>8, <1>9, <1>10 DEF TableInv

LEMMA SameStep ==
  ASSUME IInv, NEW t \in Threads, tables' = tables, ~Adding(t),
         producers' = producers \/ producers' = Append(producers, t)
  PROVE  KeysStep(t) /\ TableInv'
<1>1. tables \in Seq(Tables) /\ producers \in Seq(Threads) /\ Len(tables) \in Nat
  BY DEF IInv, TypeInv
<1>2. KeysStep(t)
  BY <1>1 DEF KeysStep
<1>3. /\ Len(producers') >= Len(producers) /\ Len(producers') \in Nat
      /\ \A i \in 1 .. Len(producers) : producers'[i] = producers[i]
  BY <1>1
<1>4. ASSUME NEW j \in 1 .. Len(tables) PROVE ValuesOK(tables[j], producers')
  <2>1. ValuesOK(tables[j], producers) /\ Len(producers) \in Nat
    BY <1>1 DEF IInv, TableInv
  <2>2. ASSUME NEW i \in 0 .. tables[j].capacity - 1
        PROVE  /\ tables[j].value[i] \in 0 .. Len(producers')
               /\ tables[j].key[i] # NoThread =>
                    /\ tables[j].value[i] # 0
                    /\ producers'[tables[j].value[i]] = tables[j].key[i]
    BY <1>3, <2>1 DEF ValuesOK
  <2> QED BY <2>2 DEF ValuesOK
<1> QED BY <1>2, <1>4 DEF IInv, TableInv

-----------------------------------------------------------------------------
(* The actions.                                                            *)

\* The producer t ends its call with is its own.
GivesOwn(t) ==
  \E p \in 1 .. Len(producers) : producers[p] = t /\ Give(t, p)

LEMMA InsertedLemma ==
  ASSUME IInv, NEW t \in Threads, HasProducer(t)
  PROVE  /\ Max({i \in 1 .. Len(producers) : producers[i] = t}) \in 1 .. Len(producers)
         /\ producers[Max({i \in 1 .. Len(producers) : producers[i] = t})] = t
<1> DEFINE mine == {i \in 1 .. Len(producers) : producers[i] = t}
<1>1. mine # {} /\ mine \subseteq 1 .. Len(producers)
  BY DEF HasProducer
<1>2. Len(producers) \in Nat
  BY DEF IInv, TypeInv
<1>3. Max(mine) \in mine
  <2> HIDE DEF mine
  <2> QED BY <1>1, <1>2, MaxOfInterval
<1> QED BY <1>3

LEMMA FoundInFrontStep ==
  ASSUME IInv, NEW t \in Threads, FoundInFront(t)
  PROVE  KeysStep(t) /\ TableInv' /\ GivesOwn(t) /\ UNCHANGED shared
<1>1. pc[t] = "idle" /\ Len(tables) \in FoundIn(t) /\ UNCHANGED shared
      /\ Give(t, ValueOf(tables[Len(tables)], t))
  BY DEF FoundInFront
<1>2. GivesOwn(t)
  BY <1>1, FoundLemma DEF GivesOwn
<1>3. KeysStep(t) /\ TableInv'
  BY <1>1, SameStep DEF Adding, shared
<1> QED BY <1>1, <1>2, <1>3

LEMMA CopyStep ==
  ASSUME IInv, NEW t \in Threads, Copy(t)
  PROVE  KeysStep(t) /\ TableInv' /\ GivesOwn(t)
<1>1. t \notin Keys(Front(t)) /\ FoundIn(t) # {} /\ Adding(t)
  BY FoundLemma DEF IInv, LocalInv, Copy, Adding
<1> DEFINE p == ValueOf(tables[Max(FoundIn(t))], t)
<1>2. Max(FoundIn(t)) \in FoundIn(t)
  <2>1. FoundIn(t) \subseteq 1 .. Len(tables) /\ Len(tables) \in Nat
    BY FoundLemma DEF IInv, TypeInv
  <2> QED BY <1>1, <2>1, MaxOfInterval
<1>3. p \in 1 .. Len(producers) /\ producers[p] = t
  BY <1>2, FoundLemma
<1>4. /\ tables' = [tables EXCEPT ![mainHash[t]] = Put(@, t, p)]
      /\ producers' = producers /\ Give(t, p)
  BY DEF Copy
<1> HIDE DEF p
<1> QED BY <1>1, <1>3, <1>4, PutStep DEF GivesOwn

LEMMA InsertStep ==
  ASSUME IInv, NEW t \in Threads, Insert(t)
  PROVE  KeysStep(t) /\ TableInv' /\ GivesOwn(t)
<1>1. Adding(t) /\ HasProducer(t) /\ ~InSome(t)
  BY DEF IInv, ProducerInv, Insert, Adding
<1>2. t \notin Keys(Front(t))
  BY <1>1 DEF InSome, Front, IInv, TypeInv
<1> DEFINE p == Max({i \in 1 .. Len(producers) : producers[i] = t})
<1>3. p \in 1 .. Len(producers) /\ producers[p] = t
  BY <1>1, InsertedLemma
<1>4. /\ tables' = [tables EXCEPT ![mainHash[t]] = Put(@, t, p)]
      /\ producers' = producers /\ Give(t, p)
  BY DEF Insert
<1> HIDE DEF p
<1> QED BY <1>1, <1>2, <1>3, <1>4, PutStep DEF GivesOwn

\* The steps that change neither tables nor producers.
Looking(t) ==
  \/ FoundBehind(t) \/ NotFound(t) \/ Count(t) \/ LockResize(t) \/ SkipResize(t)
  \/ Locked(t) \/ Unlock(t) \/ GrowFails(t) \/ GiveUp(t) \/ CreateFails(t) \/ Wait(t)

LEMMA LookingStep ==
  ASSUME IInv, NEW t \in Threads, Looking(t)
  PROVE  KeysStep(t) /\ TableInv' /\ UNCHANGED <<tables, producers>>
<1>1. UNCHANGED <<tables, producers>> /\ ~Adding(t)
  BY DEF Looking, FoundBehind, NotFound, Count, LockResize, SkipResize, Locked, Unlock,
         GrowFails, GiveUp, CreateFails, Wait, shared, Adding
<1> QED BY <1>1, SameStep

LEMMA CreateStep ==
  ASSUME IInv, NEW t \in Threads, Create(t)
  PROVE  /\ KeysStep(t) /\ TableInv'
         /\ producers' \in Seq(Threads) /\ Len(producers') = Len(producers) + 1
         /\ producers'[Len(producers) + 1] = t
         /\ \A i \in 1 .. Len(producers) : producers'[i] = producers[i]
<1>1. tables' = tables /\ producers' = Append(producers, t) /\ ~Adding(t)
      /\ producers \in Seq(Threads)
  BY DEF Create, Adding, IInv, TypeInv
<1> QED BY <1>1, SameStep

\* Any step is one of six.
LEMMA Steps ==
  ASSUME NEW t \in Threads, get_or_add_implicit_producer(t)
  PROVE  \/ FoundInFront(t) \/ Copy(t) \/ Insert(t) \/ Looking(t) \/ Grow(t) \/ Create(t)
BY DEF get_or_add_implicit_producer, Search, Resize, Add, Looking

LEMMA TableStep ==
  ASSUME IInv, NEW t \in Threads, get_or_add_implicit_producer(t)
  PROVE  KeysStep(t) /\ TableInv'
BY Steps, FoundInFrontStep, CopyStep, InsertStep, LookingStep, GrowStep, CreateStep

\* Which threads are in a table after the step.
LEMMA InSomeStep ==
  ASSUME IInv, NEW t \in Threads, KeysStep(t), NEW u \in Threads
  PROVE  InSome(u)' <=> InSome(u) \/ (u = t /\ Adding(t))
<1>1. mainHash[t] \in 1 .. Len(tables) /\ Len(tables) \in Nat /\ Len(tables') \in Nat
  BY DEF IInv, TypeInv, KeysStep
<1>2. InSome(u)' <=> \E i \in 1 .. Len(tables') : u \in Keys(tables'[i])
  BY DEF InSome, Keys
<1>3. ASSUME NEW i \in 1 .. Len(tables'), u \in Keys(tables'[i])
      PROVE  InSome(u) \/ (u = t /\ Adding(t))
  BY <1>3 DEF InSome, KeysStep
<1>4. ASSUME NEW i \in 1 .. Len(tables), u \in Keys(tables[i])
      PROVE  i \in 1 .. Len(tables') /\ u \in Keys(tables'[i])
  BY <1>1, <1>4 DEF KeysStep
<1>5. ASSUME u = t, Adding(t)
      PROVE  mainHash[t] \in 1 .. Len(tables') /\ u \in Keys(tables'[mainHash[t]])
  BY <1>1, <1>5 DEF KeysStep
<1> QED BY <1>2, <1>3, <1>4, <1>5 DEF InSome

\* What no step does to the other threads.
LEMMA OthersStep ==
  ASSUME IInv, NEW t \in Threads, get_or_add_implicit_producer(t),
         NEW u \in Threads, u # t
  PROVE  pc'[u] = pc[u] /\ mainHash'[u] = mainHash[u] /\ newCount'[u] = newCount[u]
         /\ given'[u] = given[u]
BY DEF get_or_add_implicit_producer, Search, Resize, Add, FoundInFront, FoundBehind, Copy,
       NotFound, Count, LockResize, SkipResize, Locked, Grow, Unlock, GrowFails, GiveUp,
       Create, CreateFails, Wait, Insert, Give, GiveNull, Return, Goto, LoadMainHash,
       shared, locals, IInv, TypeInv

-----------------------------------------------------------------------------
(* The invariant is kept.                                                  *)

LEMMA FlagStep ==
  ASSUME IInv, NEW t \in Threads, get_or_add_implicit_producer(t)
  PROVE  FlagInv'
<1> DEFINE flag == implicitProducerHashResizeInProgress
           At(u) == pc[u] \in {"locked", "grow", "unlock", "give_up"}
<1>1. \A u \in Threads \ {t} : pc'[u] = pc[u]
  BY OthersStep
<1>2. /\ flag => \E u \in Threads : Resizing = {u}
      /\ ~flag => Resizing = {}
      /\ pc \in [Threads -> Labels]
  BY DEF IInv, FlagInv, TypeInv
<1>3. CASE LockResize(t)
  <2>1. ~flag /\ flag' = TRUE /\ pc'[t] = "locked"
    BY <1>2, <1>3 DEF LockResize, Goto
  <2>2. Resizing' = {t}
    BY <1>1, <1>2, <2>1 DEF Resizing
  <2> QED BY <2>1, <2>2 DEF FlagInv
<1>4. CASE Unlock(t) \/ GiveUp(t)
  <2>1. t \in Resizing /\ flag' = FALSE /\ pc'[t] \in {"add", "idle"}
    BY <1>2, <1>4 DEF Unlock, GiveUp, GiveNull, Return, Goto, Resizing
  <2>2. Resizing = {t}
    BY <1>2, <2>1
  <2>3. Resizing' = {}
    BY <1>1, <2>1, <2>2 DEF Resizing
  <2> QED BY <2>1, <2>3 DEF FlagInv
<1>5. CASE ~ (LockResize(t) \/ Unlock(t) \/ GiveUp(t))
  <2>1. flag' = flag /\ (t \in Resizing <=> At(t)')
    BY <1>2, <1>5 DEF get_or_add_implicit_producer, Search, Resize, Add, FoundInFront,
       FoundBehind, Copy, NotFound, Count, SkipResize, Locked, Grow, GrowFails, Create,
       CreateFails, Wait, Insert, Give, GiveNull, Return, Goto, shared, Resizing
  <2>2. Resizing' = Resizing
    BY <1>1, <2>1 DEF Resizing
  <2> QED BY <1>2, <2>1, <2>2 DEF FlagInv
<1> QED BY <1>3, <1>4, <1>5

\* Who has a producer after the step.
LEMMA HasStep ==
  ASSUME IInv, NEW t \in Threads, get_or_add_implicit_producer(t), NEW u \in Threads
  PROVE  HasProducer(u)' <=> HasProducer(u) \/ (u = t /\ Create(t))
<1>1. CASE Create(t)
  <2>1. /\ Len(producers') = Len(producers) + 1 /\ Len(producers) \in Nat
        /\ producers'[Len(producers) + 1] = t
        /\ \A i \in 1 .. Len(producers) : producers'[i] = producers[i]
    BY <1>1, CreateStep DEF IInv, TypeInv
  <2> QED BY <1>1, <2>1 DEF HasProducer
<1>2. CASE ~Create(t)
  <2>1. producers' = producers
    BY <1>2 DEF get_or_add_implicit_producer, Search, Resize, Add, FoundInFront, FoundBehind,
       Copy, NotFound, Count, LockResize, SkipResize, Locked, Grow, Unlock, GrowFails, GiveUp,
       CreateFails, Wait, Insert, shared
  <2> QED BY <1>2, <2>1 DEF HasProducer
<1> QED BY <1>1, <1>2

\* Who is counted after the step.
LEMMA LiveStep ==
  ASSUME IInv, NEW t \in Threads, get_or_add_implicit_producer(t)
  PROVE  /\ Count(t) => t \notin Live /\ Live' = Live \cup {t}
         /\ GrowFails(t) \/ CreateFails(t) => t \in Live /\ Live' = Live \ {t}
         /\ ~ (Count(t) \/ GrowFails(t) \/ CreateFails(t)) => Live' = Live
<1> DEFINE At(u) == pc[u] \in {"resize", "locked", "grow", "unlock", "add"}
<1>1. \A u \in Threads \ {t} :
        /\ pc'[u] = pc[u]
        /\ HasProducer(u)' <=> HasProducer(u)
  BY OthersStep, HasStep
<1>2. \A u \in Threads \ {t} : u \in Live' <=> u \in Live
  BY <1>1 DEF Live, Pending
<1>3. /\ HasProducer(t)' <=> HasProducer(t) \/ Create(t)
      /\ At(t) \/ pc[t] = "count" => ~HasProducer(t)
      /\ pc \in [Threads -> Labels]
  BY HasStep DEF IInv, ProducerInv, TypeInv, Pending
<1>4. Live \subseteq Threads /\ Live' \subseteq Threads
  BY DEF Live
<1>5. CASE Count(t)
  <2>1. pc[t] = "count" /\ pc'[t] = "resize"
    BY <1>3, <1>5 DEF Count, Goto
  <2>2. t \notin Live /\ t \in Live'
    BY <1>3, <2>1 DEF Live, Pending
  <2>3. ~GrowFails(t) /\ ~CreateFails(t)
    BY <2>1 DEF GrowFails, CreateFails
  <2>4. Live' = Live \cup {t}
    BY <1>2, <1>4, <2>2
  <2> QED BY <1>5, <2>2, <2>3, <2>4
<1>6. CASE GrowFails(t) \/ CreateFails(t)
  <2>1. At(t) /\ ~At(t)' /\ ~Create(t) /\ pc[t] # "count"
    BY <1>3, <1>6 DEF GrowFails, CreateFails, Create, GiveNull, Return, Goto
  <2>2. t \in Live /\ t \notin Live'
    BY <1>3, <2>1 DEF Live, Pending
  <2> QED BY <1>2, <1>4, <1>6, <2>1, <2>2 DEF Count
<1>7. CASE ~ (Count(t) \/ GrowFails(t) \/ CreateFails(t))
  <2>1. CASE Create(t)
    <3>1. At(t) /\ HasProducer(t)'
      BY <1>3, <2>1 DEF Create
    <3>2. t \in Live /\ t \in Live'
      BY <3>1 DEF Live, Pending
    <3>3. Live' = Live
      BY <1>2, <1>4, <3>2
    <3> QED BY <1>7, <3>3
  <2>2. CASE ~Create(t)
    <3>1. At(t)' <=> At(t)
      BY <1>3, <1>7, <2>2 DEF get_or_add_implicit_producer, Search, Resize, Add, FoundInFront,
         FoundBehind, Copy, NotFound, LockResize, SkipResize, Locked, Grow, Unlock, GiveUp,
         Wait, Insert, Give, GiveNull, Return, Goto
    <3>2. t \in Live' <=> t \in Live
      BY <1>3, <2>2, <3>1 DEF Live, Pending
    <3> QED BY <1>2, <1>4, <1>7, <3>2
  <2> QED BY <2>1, <2>2
<1> QED BY <1>5, <1>6, <1>7

\* The count goes with them.
LEMMA CountStep ==
  ASSUME IInv, NEW t \in Threads, get_or_add_implicit_producer(t)
  PROVE  /\ implicitProducerHashCount' = Cardinality(Live')
         /\ Count(t) => newCount'[t] = Cardinality(Live')
<1>1. implicitProducerHashCount = Cardinality(Live) /\ newCount \in [Threads -> Nat]
      /\ IsFiniteSet(Live) /\ Cardinality(Live) \in Nat
  BY LiveLemma DEF IInv, TypeInv, Live
<1>2. CASE Count(t)
  <2>1. Cardinality(Live') = Cardinality(Live) + 1
    BY <1>1, <1>2, LiveStep, FS_AddElement
  <2> QED BY <1>1, <1>2, <2>1 DEF Count
<1>3. CASE GrowFails(t) \/ CreateFails(t)
  <2>1. Cardinality(Live') = Cardinality(Live) - 1
    BY <1>1, <1>3, LiveStep, FS_RemoveElement
  <2> QED BY <1>1, <1>3, <2>1 DEF GrowFails, CreateFails, Count
<1>4. CASE ~ (Count(t) \/ GrowFails(t) \/ CreateFails(t))
  <2>1. implicitProducerHashCount' = implicitProducerHashCount
    BY <1>4 DEF get_or_add_implicit_producer, Search, Resize, Add, FoundInFront,
       FoundBehind, Copy, NotFound, LockResize, SkipResize, Locked, Grow, Unlock, GiveUp,
       Create, Wait, Insert, shared
  <2> QED BY <1>1, <1>4, <2>1, LiveStep
<1> QED BY <1>2, <1>3, <1>4

LEMMA TypeStep ==
  ASSUME IInv, NEW t \in Threads, get_or_add_implicit_producer(t)
  PROVE  TypeInv'
<1>1. /\ tables \in Seq(Tables) /\ Len(tables) \in Nat /\ Len(tables) >= 1
      /\ tables' \in Seq(Tables) /\ Len(tables') \in Nat /\ Len(tables') >= Len(tables)
  BY TableStep DEF IInv, TypeInv, KeysStep
<1>2. /\ implicitProducerHashResizeInProgress \in BOOLEAN
      /\ pc \in [Threads -> Labels]
      /\ mainHash \in [Threads -> 1 .. Len(tables)]
      /\ newCount \in [Threads -> 0 .. Cardinality(Threads)]
      /\ given \in [Threads -> 0 .. Len(producers)]
      /\ producers \in Seq(Threads)
  BY DEF IInv, TypeInv
<1>3. /\ implicitProducerHashCount' = Cardinality(Live')
      /\ Cardinality(Live') \in 0 .. Cardinality(Threads)
      /\ Count(t) => newCount'[t] = Cardinality(Live')
      /\ Cardinality(Threads) \in Nat
  <2>1. Live' \in SUBSET Threads
    BY DEF Live
  <2> QED BY <2>1, CountStep, LiveLemma
<1>4. /\ producers' \in Seq(Threads) /\ Len(producers') >= Len(producers)
      /\ Len(producers) \in Nat /\ Len(producers') \in Nat
  <2>1. CASE Create(t)
    BY <1>2, <2>1, CreateStep
  <2>2. CASE ~Create(t)
    <3>1. producers' = producers
      BY <2>2, Steps, FoundInFrontStep, LookingStep DEF Copy, Insert, Grow, shared
    <3> QED BY <1>2, <3>1
  <2> QED BY <2>1, <2>2
<1>5. pc' \in [Threads -> Labels]
  BY <1>2 DEF Labels, get_or_add_implicit_producer, Search, Resize, Add, FoundInFront,
     FoundBehind, Copy, NotFound, Count, LockResize, SkipResize, Locked, Grow, Unlock,
     GrowFails, GiveUp, Create, CreateFails, Wait, Insert, Give, GiveNull, Return, Goto
<1>6. newCount' \in [Threads -> 0 .. Cardinality(Threads)]
  <2>1. CASE Count(t)
    <3>1. newCount' = [newCount EXCEPT ![t] = implicitProducerHashCount + 1]
      BY <2>1 DEF Count
    <3>2. newCount'[t] \in 0 .. Cardinality(Threads)
      BY <1>3, <2>1
    <3> QED BY <1>2, <3>1, <3>2
  <2>2. CASE ~Count(t)
    <3>1. newCount' = newCount \/ newCount' = [newCount EXCEPT ![t] = 0]
      BY <2>2 DEF get_or_add_implicit_producer, Search, Resize, Add, FoundInFront,
         FoundBehind, Copy, NotFound, LockResize, SkipResize, Locked, Grow, Unlock,
         GrowFails, GiveUp, Create, CreateFails, Wait, Insert, Give, GiveNull, Return, locals
    <3>2. 0 \in 0 .. Cardinality(Threads)
      BY <1>3
    <3> QED BY <1>2, <3>1, <3>2
  <2> QED BY <2>1, <2>2
<1>7. mainHash' \in [Threads -> 1 .. Len(tables')]
  <2>1. mainHash \in [Threads -> 1 .. Len(tables')]
    BY <1>1, <1>2
  <2>2. CASE Grow(t)
    BY <1>1, <2>1, <2>2, GrowStep DEF Grow
  <2>3. CASE ~Grow(t)
    BY <1>1, <2>1, <2>3 DEF get_or_add_implicit_producer, Search, Resize, Add, FoundInFront,
       FoundBehind, Copy, NotFound, Count, LockResize, SkipResize, Locked, Unlock,
       GrowFails, GiveUp, Create, CreateFails, Wait, Insert, Give, GiveNull, Return, locals,
       LoadMainHash
  <2> QED BY <2>2, <2>3
<1>8. given' \in [Threads -> 0 .. Len(producers')]
  <2>1. given \in [Threads -> 0 .. Len(producers')]
    BY <1>2, <1>4
  <2>2. CASE GivesOwn(t)
    BY <1>4, <2>1, <2>2 DEF GivesOwn, Give
  <2>3. CASE given' = given
    BY <2>1, <2>3
  <2>4. GivesOwn(t) \/ given' = given
    BY FoundInFrontStep, CopyStep, InsertStep DEF get_or_add_implicit_producer, Search,
       Resize, Add, FoundBehind, NotFound, Count, LockResize, SkipResize, Locked, Grow,
       Unlock, GrowFails, GiveUp, Create, CreateFails, Wait, GiveNull
  <2> QED BY <2>2, <2>3, <2>4
<1>9. implicitProducerHashResizeInProgress' \in BOOLEAN
  BY <1>2 DEF get_or_add_implicit_producer, Search, Resize, Add, FoundInFront,
     FoundBehind, Copy, NotFound, Count, LockResize, SkipResize, Locked, Grow, Unlock,
     GrowFails, GiveUp, Create, CreateFails, Wait, Insert, shared
<1> QED BY <1>1, <1>3, <1>4, <1>5, <1>6, <1>7, <1>8, <1>9 DEF TypeInv

LEMMA ProducerStep ==
  ASSUME IInv, NEW t \in Threads, get_or_add_implicit_producer(t)
  PROVE  ProducerInv'
<1>1. /\ \A i, j \in 1 .. Len(producers) : producers[i] = producers[j] => i = j
      /\ producers \in Seq(Threads) /\ pc \in [Threads -> Labels]
      /\ given \in [Threads -> 0 .. Len(producers)]
      /\ Len(producers) \in Nat
  BY DEF IInv, TypeInv, ProducerInv
<1>2. \A u \in Threads :
        /\ HasProducer(u)' <=> HasProducer(u) \/ (u = t /\ Create(t))
        /\ InSome(u)' <=> InSome(u) \/ (u = t /\ Adding(t))
  BY HasStep, InSomeStep, TableStep
<1>3. \/ producers' = producers
      \/ /\ Create(t) /\ Len(producers') = Len(producers) + 1
         /\ producers'[Len(producers) + 1] = t
         /\ \A i \in 1 .. Len(producers) : producers'[i] = producers[i]
  BY Steps, FoundInFrontStep, LookingStep, CreateStep DEF Copy, Insert, Grow, shared
<1>4. Create(t) => ~HasProducer(t)
  BY <1>1 DEF IInv, ProducerInv, Create, Pending
<1>5. \A i, j \in 1 .. Len(producers') : producers'[i] = producers'[j] => i = j
  <2>1. CASE producers' = producers
    BY <1>1, <2>1
  <2>2. CASE producers' # producers
    <3>1. \A i \in 1 .. Len(producers) : producers[i] # t
      BY <1>3, <1>4, <2>2 DEF HasProducer
    <3> QED BY <1>1, <1>3, <2>2, <3>1
  <2> QED BY <2>1, <2>2
<1>6. ASSUME NEW u \in Threads, u # t
      PROVE  /\ u \in Pending' \/ pc'[u] = "count" => ~HasProducer(u)'
             /\ pc'[u] = "insert" => HasProducer(u)' /\ ~InSome(u)'
             /\ HasProducer(u)' => InSome(u)' \/ pc'[u] = "insert"
             /\ given'[u] # 0 => producers'[given'[u]] = u
  <2>1. pc'[u] = pc[u] /\ given'[u] = given[u] /\ given[u] \in 0 .. Len(producers)
    BY <1>1, <1>6, OthersStep
  <2>2. /\ u \in Pending \/ pc[u] = "count" => ~HasProducer(u)
        /\ pc[u] = "insert" => HasProducer(u) /\ ~InSome(u)
        /\ HasProducer(u) => InSome(u) \/ pc[u] = "insert"
        /\ given[u] # 0 => producers[given[u]] = u
    BY DEF IInv, ProducerInv
  <2>3. u \in Pending' <=> u \in Pending
    BY <2>1 DEF Pending
  <2>4. given[u] # 0 => producers'[given[u]] = u
    BY <1>1, <1>3, <2>1, <2>2
  <2> QED BY <1>2, <1>6, <2>1, <2>2, <2>3, <2>4
<1>7. given'[t] # 0 => producers'[given'[t]] = t
  <2>1. given[t] # 0 => producers[given[t]] = t /\ given[t] \in 1 .. Len(producers)
    BY <1>1 DEF IInv, ProducerInv
  <2>2. CASE FoundInFront(t) \/ Copy(t) \/ Insert(t)
    <3>1. GivesOwn(t) /\ producers' = producers
      BY <2>2, FoundInFrontStep, CopyStep, InsertStep DEF Copy, Insert, shared
    <3>2. PICK p \in 1 .. Len(producers) : producers[p] = t /\ given' = [given EXCEPT ![t] = p]
      BY <3>1 DEF GivesOwn, Give
    <3> QED BY <1>1, <3>1, <3>2
  <2>3. CASE Looking(t) \/ Grow(t) \/ Create(t)
    <3>1. given' = given
      BY <2>3 DEF Looking, FoundBehind, NotFound, Count, LockResize, SkipResize, Locked, Grow,
         Unlock, GrowFails, GiveUp, Create, CreateFails, Wait, GiveNull
    <3> QED BY <1>1, <1>3, <2>1, <3>1
  <2> QED BY <2>2, <2>3, Steps
<1>8. /\ t \in Pending' \/ pc'[t] = "count" => ~HasProducer(t)'
      /\ pc'[t] = "insert" => HasProducer(t)' /\ ~InSome(t)'
      /\ HasProducer(t)' => InSome(t)' \/ pc'[t] = "insert"
  <2>1. /\ t \in Pending \/ pc[t] = "count" => ~HasProducer(t)
        /\ pc[t] = "insert" => HasProducer(t) /\ ~InSome(t)
        /\ HasProducer(t) => InSome(t) \/ pc[t] = "insert"
        /\ InSome(t) => HasProducer(t)
    BY OwnerLemma DEF IInv, ProducerInv, InSome
  <2>2. CASE FoundInFront(t) \/ Copy(t) \/ Insert(t)
    <3>1. pc'[t] = "idle" /\ ~Create(t) /\ (pc[t] = "insert" => Adding(t))
      BY <1>1, <2>2 DEF FoundInFront, Copy, Insert, Give, Return, Goto, Create, Adding
    <3> QED BY <1>2, <2>1, <3>1 DEF Pending
  <2>3. CASE Create(t)
    <3>1. pc'[t] = "insert" /\ t \in Pending /\ ~Adding(t)
      BY <1>1, <2>3 DEF Create, Goto, Pending, Adding
    <3> QED BY <1>2, <2>1, <2>3, <3>1 DEF Pending
  <2>4. CASE NotFound(t)
    <3>1. ~InSome(t) /\ pc[t] = "idle" /\ pc'[t] = "count"
      BY <1>1, <2>4, FoundLemma DEF NotFound, Goto
    <3> QED BY <1>2, <2>1, <2>4, <3>1 DEF Pending, Create, Adding
  <2>5. CASE FoundBehind(t)
    <3>1. pc[t] = "idle" /\ pc'[t] = "copy"
      BY <1>1, <2>5 DEF FoundBehind, Goto
    <3> QED BY <1>2, <2>1, <2>5, <3>1 DEF Pending, Create, Adding
  <2>6. CASE /\ Looking(t) \/ Grow(t)
             /\ ~NotFound(t) /\ ~FoundBehind(t)
    <3>1. /\ t \in Pending \/ pc[t] \in {"count", "give_up"}
          /\ pc'[t] # "insert" /\ ~Create(t) /\ ~Adding(t)
          /\ pc'[t] # "count"
          /\ pc[t] = "give_up" => t \notin Pending'
      BY <1>1, <2>6 DEF Looking, Count, LockResize, SkipResize, Locked, Grow, Unlock, GrowFails,
         GiveUp, CreateFails, Wait, GiveNull, Return, Goto, Pending, Create, Adding
    <3> QED BY <1>2, <2>1, <3>1
  <2> QED BY <2>2, <2>3, <2>4, <2>5, <2>6, Steps
<1>9. \A u \in Threads :
        /\ u \in Pending' \/ pc'[u] = "count" => ~HasProducer(u)'
        /\ pc'[u] = "insert" => HasProducer(u)' /\ ~InSome(u)'
        /\ HasProducer(u)' => InSome(u)' \/ pc'[u] = "insert"
        /\ given'[u] # 0 => producers'[given'[u]] = u
  BY <1>6, <1>7, <1>8
<1> QED BY <1>5, <1>9 DEF ProducerInv

LEMMA LocalStep ==
  ASSUME IInv, NEW t \in Threads, get_or_add_implicit_producer(t)
  PROVE  LocalInv'
<1>1. /\ pc \in [Threads -> Labels] /\ mainHash \in [Threads -> 1 .. Len(tables)]
      /\ newCount \in [Threads -> 0 .. Cardinality(Threads)] /\ Len(tables) \in Nat
      /\ KeysStep(t) /\ \A u \in Threads : InSome(u) => InSome(u)'
  BY TableStep, InSomeStep DEF IInv, TypeInv
<1>2. ASSUME NEW u \in Threads, u # t, pc'[u] = "copy"
      PROVE  u \notin Keys(tables'[mainHash'[u]]) /\ InSome(u)'
  <2>1. pc[u] = "copy" /\ mainHash'[u] = mainHash[u]
    BY <1>2, OthersStep
  <2>2. u \notin Keys(tables[mainHash[u]]) /\ InSome(u)
    BY <2>1 DEF IInv, LocalInv, Front
  <2> QED BY <1>1, <1>2, <2>1, <2>2 DEF KeysStep
<1>3. ASSUME NEW u \in Threads, u # t, pc'[u] = "grow"
      PROVE  /\ mainHash'[u] = Len(tables')
             /\ newCount'[u] >= Half(tables'[mainHash'[u]])
  <2>1. pc[u] = "grow" /\ mainHash'[u] = mainHash[u] /\ newCount'[u] = newCount[u]
    BY <1>3, OthersStep
  <2>2. mainHash[u] = Len(tables) /\ newCount[u] >= Half(tables[mainHash[u]])
    BY <2>1 DEF IInv, LocalInv, Front
  <2>3. ~Grow(t)
    <3>1. u \in Resizing /\ (Grow(t) => t \in Resizing)
      BY <2>1 DEF Resizing, Grow
    <3> QED BY <1>3, <3>1 DEF IInv, FlagInv
  <2>4. Len(tables') = Len(tables)
    <3>1. CASE Copy(t) \/ Insert(t)
      BY <1>1, <3>1 DEF Copy, Insert, IInv, TypeInv
    <3>2. CASE ~ (Copy(t) \/ Insert(t))
      BY <2>3, <3>2, Steps, FoundInFrontStep, LookingStep DEF Create, shared
    <3> QED BY <3>1, <3>2
  <2>5. Half(tables'[mainHash[u]]) = Half(tables[mainHash[u]])
    BY <1>1 DEF KeysStep, Half
  <2> QED BY <2>1, <2>2, <2>4, <2>5
<1>4. ASSUME pc'[t] = "copy"
      PROVE  t \notin Keys(tables'[mainHash'[t]]) /\ InSome(t)'
  <2>1. FoundBehind(t)
    BY <1>1, <1>4 DEF get_or_add_implicit_producer, Search, Resize, Add, FoundInFront,
       FoundBehind, Copy, NotFound, Count, LockResize, SkipResize, Locked, Grow, Unlock,
       GrowFails, GiveUp, Create, CreateFails, Wait, Insert, Give, GiveNull, Return, Goto
  <2>2. tables' = tables /\ mainHash'[t] = Len(tables) /\ Len(tables) \notin FoundIn(t)
        /\ FoundIn(t) # {}
    BY <1>1, <2>1 DEF FoundBehind, LoadMainHash, shared
  <2>3. Len(tables) \in 1 .. Len(tables)
    BY <1>1 DEF IInv, TypeInv
  <2> QED BY <1>1, <2>2, <2>3, FoundLemma
<1>5. ASSUME pc'[t] = "grow"
      PROVE  /\ mainHash'[t] = Len(tables')
             /\ newCount'[t] >= Half(tables'[mainHash'[t]])
  <2>1. Locked(t)
    BY <1>1, <1>5 DEF get_or_add_implicit_producer, Search, Resize, Add, FoundInFront,
       FoundBehind, Copy, NotFound, Count, LockResize, SkipResize, Locked, Grow, Unlock,
       GrowFails, GiveUp, Create, CreateFails, Wait, Insert, Give, GiveNull, Return, Goto
  <2>2. /\ tables' = tables /\ mainHash'[t] = Len(tables) /\ newCount' = newCount
        /\ newCount[t] >= Half(tables[Len(tables)])
    BY <1>1, <1>5, <2>1 DEF Locked, LoadMainHash, shared, Goto
  <2> QED BY <2>2
<1>6. ASSUME NEW u \in Threads
      PROVE  /\ pc'[u] = "copy" => u \notin Keys(tables'[mainHash'[u]]) /\ InSome(u)'
             /\ pc'[u] = "grow" => /\ mainHash'[u] = Len(tables')
                                   /\ newCount'[u] >= Half(tables'[mainHash'[u]])
  BY <1>2, <1>3, <1>4, <1>5
<1> QED BY <1>6 DEF LocalInv, Front, Half

LEMMA CapacityLemma ==
  ASSUME IInv, NEW i \in 1 .. Len(tables)
  PROVE  /\ ThreeQuarters(tables[i]) \in Nat
         /\ ThreeQuarters(tables[i]) <= ThreeQuarters(tables[Len(tables)])
<1>1. /\ Len(tables) \in 1 .. Len(tables) /\ Len(tables) \in Nat
      /\ \A j \in 1 .. Len(tables) : tables[j] \in Tables
  BY DEF IInv, TypeInv
<1>2. /\ tables[i].capacity \in Nat /\ tables[Len(tables)].capacity \in Nat
      /\ tables[i].capacity <= tables[Len(tables)].capacity
  <2>1. tables[i].capacity \in Nat /\ tables[Len(tables)].capacity \in Nat
    BY <1>1, TablesLemma
  <2>2. i < Len(tables) => tables[i].capacity < tables[Len(tables)].capacity
    BY <1>1 DEF IInv, TableInv
  <2>3. i < Len(tables) \/ i = Len(tables)
    BY <1>1
  <2> QED BY <2>1, <2>2, <2>3
<1> QED BY <1>2 DEF ThreeQuarters

LEMMA RankStep ==
  ASSUME IInv, NEW t \in Threads, get_or_add_implicit_producer(t)
  PROVE  RankInv'
<1>1. PICK c : Ranks(c)
  BY DEF IInv, RankInv
<1>2. /\ pc \in [Threads -> Labels] /\ mainHash \in [Threads -> 1 .. Len(tables)]
      /\ newCount \in [Threads -> 0 .. Cardinality(Threads)] /\ Len(tables) \in Nat
      /\ KeysStep(t) /\ c \in [Threads -> Nat]
      /\ Len(tables) \in 1 .. Len(tables)
  BY <1>1, TableStep DEF IInv, TypeInv, Ranks
<1>3. /\ Live \subseteq Threads /\ Live' \subseteq Threads
      /\ IsFiniteSet(Live') /\ Cardinality(Live') \in Nat
      /\ IsFiniteSet(Live) /\ Cardinality(Live) \in Nat
  BY LiveLemma DEF Live
<1> DEFINE d == IF Count(t) THEN [c EXCEPT ![t] = newCount'[t]] ELSE c
<1>4. PICK e : e = d
  OBVIOUS
<1>5. /\ e \in [Threads -> Nat] /\ \A u \in Threads : u # t => e[u] = c[u]
      /\ Count(t) => e[t] = newCount'[t]
      /\ ~Count(t) => e = c
  <2>1. Count(t) => newCount'[t] \in Nat
    BY <1>3, CountStep
  <2> QED BY <1>2, <1>4, <2>1
<1> HIDE DEF d
<1>6. ASSUME NEW n \in Nat PROVE Cardinality(UpTo(e, n)') <= n
  <2>1. UpTo(c, n) \subseteq Threads /\ Cardinality(UpTo(c, n)) <= n
    BY <1>1, <1>3 DEF Ranks, UpTo
  <2>2. IsFiniteSet(UpTo(c, n)) /\ Cardinality(UpTo(c, n)) \in Nat
    BY <2>1, LiveLemma
  <2>3. UpTo(e, n)' = {u \in Live' : e[u] <= n}
    BY DEF UpTo
  <2>4. CASE Count(t) /\ n >= Cardinality(Live')
    <3>1. UpTo(e, n)' \in SUBSET Live'
      BY <2>3
    <3>2. Cardinality(UpTo(e, n)') <= Cardinality(Live')
      BY <1>3, <3>1, FS_Subset
    <3>3. Cardinality(UpTo(e, n)') \in Nat
      BY <1>3, <3>1, LiveLemma
    <3> QED BY <1>3, <2>4, <3>2, <3>3
  <2>5. CASE Count(t) /\ ~ (n >= Cardinality(Live'))
    <3>1. e[t] = Cardinality(Live') /\ Live' = Live \cup {t} /\ t \notin Live
      BY <1>5, <2>5, CountStep, LiveStep
    <3>2. ~ (e[t] <= n)
      BY <1>3, <2>5, <3>1
    <3>3. UpTo(e, n)' = UpTo(c, n)
      BY <1>3, <1>5, <2>3, <3>1, <3>2 DEF UpTo
    <3> QED BY <2>1, <3>3
  <2>6. CASE ~Count(t)
    <3>1. Live' \subseteq Live
      BY <2>6, LiveStep
    <3>2. UpTo(e, n)' \in SUBSET UpTo(c, n)
      BY <1>5, <2>3, <2>6, <3>1 DEF UpTo
    <3>3. Cardinality(UpTo(e, n)') <= Cardinality(UpTo(c, n))
      BY <2>2, <3>2, FS_Subset
    <3>4. Cardinality(UpTo(e, n)') \in Nat
      BY <2>1, <3>2, LiveLemma
    <3> QED BY <2>1, <2>2, <3>3, <3>4
  <2> QED BY <2>4, <2>5, <2>6
<1>7. \A i \in 1 .. Len(tables) :
        /\ ThreeQuarters(tables'[i]) = ThreeQuarters(tables[i])
        /\ i \in 1 .. Len(tables')
  BY <1>2 DEF KeysStep, ThreeQuarters
<1>8. \A u \in Threads : InSome(u) \/ pc[u] \in {"copy", "insert"} => e[u] = c[u]
  <2>1. Count(t) => ~InSome(t) /\ pc[t] = "count"
    BY OwnerLemma DEF IInv, ProducerInv, InSome, Count
  <2> QED BY <1>5, <2>1
<1>9. ASSUME NEW i \in 1 .. Len(tables'), NEW u \in Threads, u \in Keys(tables'[i])
      PROVE  e[u] < ThreeQuarters(tables'[i])
  <2>1. i \in 1 .. Len(tables)
        /\ (u \in Keys(tables[i]) \/ (u = t /\ i = mainHash[t] /\ Adding(t)))
    BY <1>2, <1>9 DEF KeysStep
  <2>2. CASE u \in Keys(tables[i])
    <3>1. c[u] < ThreeQuarters(tables[i]) /\ InSome(u)
      BY <1>1, <2>1, <2>2 DEF Ranks, InSome
    <3> QED BY <1>7, <1>8, <2>1, <3>1
  <2>3. CASE u = t /\ i = mainHash[t] /\ Adding(t)
    <3>1. c[u] < ThreeQuarters(tables[i]) /\ e[u] = c[u]
      BY <1>1, <1>8, <2>3 DEF Ranks, Front, Adding
    <3> QED BY <1>7, <2>1, <3>1
  <2> QED BY <2>1, <2>2, <2>3
<1>10. ASSUME NEW u \in Threads, u # t
       PROVE  /\ u \in Pending' \/ pc'[u] = "insert" => e[u] = newCount'[u]
              /\ pc'[u] \in {"copy", "insert"} =>
                   e[u] < ThreeQuarters(tables'[mainHash'[u]])
  <2>1. pc'[u] = pc[u] /\ mainHash'[u] = mainHash[u] /\ newCount'[u] = newCount[u]
        /\ e[u] = c[u]
    BY <1>5, <1>10, OthersStep
  <2>2. u \in Pending' <=> u \in Pending
    BY <2>1 DEF Pending
  <2> QED BY <1>1, <1>2, <1>7, <2>1, <2>2 DEF Ranks, Front
<1>11. t \in Pending' \/ pc'[t] = "insert" => e[t] = newCount'[t]
  <2>1. CASE Count(t)
    BY <1>5, <2>1
  <2>2. CASE ~Count(t)
    <3>1. t \in Pending' \/ pc'[t] = "insert" => t \in Pending /\ newCount'[t] = newCount[t]
      BY <1>2, <2>2 DEF get_or_add_implicit_producer, Search, Resize, Add, FoundInFront,
         FoundBehind, Copy, NotFound, LockResize, SkipResize, Locked, Grow, Unlock,
         GrowFails, GiveUp, Create, CreateFails, Wait, Insert, Give, GiveNull, Return, Goto,
         Pending, locals
    <3> QED BY <1>1, <1>5, <2>2, <3>1 DEF Ranks
  <2> QED BY <2>1, <2>2
<1>12. pc'[t] \in {"copy", "insert"} => e[t] < ThreeQuarters(tables'[mainHash'[t]])
  <2>1. CASE FoundBehind(t)
    <3>1. /\ tables' = tables /\ mainHash'[t] = Len(tables) /\ InSome(t)
      BY <1>2, <2>1, FoundLemma DEF FoundBehind, LoadMainHash, shared
    <3>2. PICK i \in 1 .. Len(tables) : t \in Keys(tables[i])
      BY <3>1 DEF InSome
    <3>3. c[t] < ThreeQuarters(tables[i]) /\ c[t] \in Nat /\ e[t] = c[t]
      BY <1>1, <1>8, <3>1, <3>2 DEF Ranks
    <3>4. /\ ThreeQuarters(tables[i]) \in Nat /\ ThreeQuarters(tables[Len(tables)]) \in Nat
          /\ ThreeQuarters(tables[i]) <= ThreeQuarters(tables[Len(tables)])
      BY <1>2, CapacityLemma
    <3> QED BY <3>1, <3>3, <3>4
  <2>2. CASE Create(t)
    <3>1. /\ tables' = tables /\ mainHash' = mainHash /\ t \in Pending /\ ~Count(t)
          /\ newCount[t] < ThreeQuarters(Front(t))
      BY <2>2 DEF Create, locals, Pending, Count
    <3>2. c[t] = newCount[t] /\ e = c
      BY <1>1, <1>5, <3>1 DEF Ranks
    <3> QED BY <3>1, <3>2 DEF Front
  <2>3. CASE ~FoundBehind(t) /\ ~Create(t)
    BY <1>2, <2>3 DEF get_or_add_implicit_producer, Search, Resize, Add, FoundInFront,
       Copy, NotFound, Count, LockResize, SkipResize, Locked, Grow, Unlock,
       GrowFails, GiveUp, CreateFails, Wait, Insert, Give, GiveNull, Return, Goto
  <2> QED BY <2>1, <2>2, <2>3
<1>13. Ranks(e)'
  <2>1. \A u \in Threads :
          /\ u \in Pending' \/ pc'[u] = "insert" => e[u] = newCount'[u]
          /\ pc'[u] \in {"copy", "insert"} => e[u] < ThreeQuarters(tables'[mainHash'[u]])
    BY <1>10, <1>11, <1>12
  <2>2. \A n \in Nat : Cardinality(UpTo(e, n)') <= n
    BY <1>6
  <2> QED BY <1>5, <1>9, <2>1, <2>2 DEF Ranks, Front
<1> QED BY <1>13 DEF RankInv

-----------------------------------------------------------------------------
(* The invariant holds.                                                    *)

LEMMA InitStep ==
  ASSUME Init
  PROVE  IInv
<1> DEFINE h == EmptyTable(INITIAL_IMPLICIT_PRODUCER_HASH_SIZE)
<1>1. /\ h \in Tables /\ Tidy(h) /\ Keys(h) = {NoThread}
      /\ \A i \in 0 .. h.capacity - 1 : h.key[i] = NoThread /\ h.value[i] = 0
  <2>1. /\ h \in Tables /\ Tidy(h) /\ Keys(h) = {NoThread}
        /\ h.capacity = INITIAL_IMPLICIT_PRODUCER_HASH_SIZE
    BY SizeAssumption, EmptyLemma
  <2> QED BY <2>1 DEF EmptyTable
<1>2. tables = <<h>> /\ Len(tables) = 1 /\ tables[1] = h
  BY DEF Init
<1>3. producers = << >> /\ Len(producers) = 0
  BY DEF Init
<1> HIDE DEF h
<1>4. /\ \A t \in Threads : ~HasProducer(t) /\ ~InSome(t)
      /\ Pending = {} /\ Resizing = {} /\ Live = {}
  <2>1. \A t \in Threads : ~HasProducer(t) /\ ~InSome(t)
    BY <1>1, <1>2, <1>3, ThreadsAssumption DEF HasProducer, InSome
  <2>2. Pending = {} /\ Resizing = {}
    BY DEF Init, Pending, Resizing
  <2> QED BY <2>1, <2>2 DEF Live
<1>5. TypeInv
  <2>1. tables \in Seq(Tables)
    BY <1>1, <1>2
  <2>2. implicitProducerHashCount = Cardinality(Live)
    BY <1>4, FS_EmptySet DEF Init
  <2>3. /\ mainHash \in [Threads -> 1 .. Len(tables)]
        /\ newCount \in [Threads -> 0 .. Cardinality(Threads)]
        /\ given \in [Threads -> 0 .. Len(producers)]
        /\ pc \in [Threads -> Labels]
    BY <1>2, <1>3, LiveLemma DEF Init, Labels
  <2>4. implicitProducerHashResizeInProgress \in BOOLEAN /\ producers \in Seq(Threads)
    <3>1. implicitProducerHashResizeInProgress \in BOOLEAN
      BY DEF Init
    <3>2. producers \in Seq(Threads)
      BY <1>3, EmptySeq
    <3> QED BY <3>1, <3>2
  <2>5. Len(tables) >= 1
    BY <1>2
  <2> QED BY <2>1, <2>2, <2>3, <2>4, <2>5 DEF TypeInv
<1>6. FlagInv
  BY <1>4 DEF Init, FlagInv
<1>7. ProducerInv
  BY <1>3, <1>4 DEF Init, ProducerInv
<1>8. TableInv
  <2>1. ValuesOK(h, producers)
    BY <1>1, <1>3 DEF ValuesOK
  <2> QED BY <1>1, <1>2, <2>1 DEF TableInv
<1>9. LocalInv
  BY DEF Init, LocalInv
<1>10. RankInv
  <2>1. \A n \in Nat : UpTo(newCount, n) = {}
    BY <1>4 DEF UpTo
  <2>2. \A n \in Nat : Cardinality(UpTo(newCount, n)) <= n
    BY <2>1, FS_EmptySet
  <2>3. Ranks(newCount)
    BY <1>1, <1>2, <1>4, <2>2, ThreadsAssumption DEF Init, Ranks
  <2> QED BY <2>3 DEF RankInv
<1> QED BY <1>5, <1>6, <1>7, <1>8, <1>9, <1>10 DEF IInv

LEMMA InductiveStep ==
  ASSUME IInv, [Next]_vars
  PROVE  IInv'
<1>1. CASE Next
  <2>1. PICK t \in Threads : get_or_add_implicit_producer(t)
    BY <1>1 DEF Next
  <2> QED
    BY <2>1, TypeStep, FlagStep, ProducerStep, TableStep, LocalStep, RankStep DEF IInv
<1>2. CASE UNCHANGED vars
  <2>1. /\ tables' = tables /\ producers' = producers /\ pc' = pc
        /\ implicitProducerHashCount' = implicitProducerHashCount
        /\ implicitProducerHashResizeInProgress' = implicitProducerHashResizeInProgress
        /\ mainHash' = mainHash /\ newCount' = newCount /\ given' = given
    BY <1>2 DEF vars, shared, locals
  <2>2. Pending' = Pending /\ Resizing' = Resizing /\ Live' = Live
    BY <2>1 DEF Pending, Resizing, Live, HasProducer
  <2>3. TypeInv' /\ FlagInv'
    BY <2>1, <2>2 DEF IInv, TypeInv, FlagInv
  <2>4. ProducerInv'
    BY <2>1, <2>2 DEF IInv, ProducerInv, HasProducer, InSome
  <2>5. TableInv' /\ LocalInv'
    BY <2>1 DEF IInv, TableInv, LocalInv, InSome, Front
  <2>6. RankInv'
    <3>1. PICK c : Ranks(c)
      BY DEF IInv, RankInv
    <3>2. Ranks(c)'
      BY <2>1, <2>2, <3>1 DEF Ranks, UpTo, Front
    <3> QED BY <3>2 DEF RankInv
  <2> QED BY <2>3, <2>4, <2>5, <2>6 DEF IInv
<1> QED BY <1>1, <1>2

LEMMA Invariant == Spec => []IInv
BY InitStep, InductiveStep, PTL DEF Spec

-----------------------------------------------------------------------------
(* What it shows.                                                          *)

\* Every table is an array of the size allocated for it and the producers its
\* slots name exist; the count is at most that of the threads.
THEOREM TypeCorrect == Spec => []TypeOK
<1>1. ASSUME IInv PROVE TypeOK
  <2>1. implicitProducerHashCount \in 0 .. Cardinality(Threads)
    <3>1. Live \in SUBSET Threads
      BY DEF Live
    <3> QED BY <1>1, <3>1, LiveLemma DEF IInv, TypeInv
  <2>2. ASSUME NEW i \in DOMAIN tables PROVE IsTable(tables[i])
    <3>1. i \in 1 .. Len(tables)
      BY <1>1, DomainLemma
    <3>2. tables[i] \in Tables
      BY <1>1, <3>1 DEF IInv, TypeInv
    <3>3. ValuesOK(tables[i], producers)
      BY <1>1, <3>1 DEF IInv, TableInv
    <3>4. \A j \in 0 .. tables[i].capacity - 1 : tables[i].value[j] \in 0 .. Len(producers)
      BY <3>3 DEF ValuesOK
    <3> QED BY <3>2, <3>4, TablesLemma DEF IsTable
  <2> QED BY <1>1, <2>1, <2>2 DEF IInv, TypeInv, TypeOK
<1> QED BY <1>1, Invariant, PTL

\* Every table keeps a free slot: the probing loops of
\* get_or_add_implicit_producer end (concurrentqueue.h:3399), whichever threads
\* added to a table while another was about to replace it.
THEOREM RoomAlways == Spec => []RoomLeft
<1>1. ASSUME IInv PROVE RoomLeft
  BY <1>1, RoomInv, DomainLemma DEF RoomLeft
<1> QED BY <1>1, Invariant, PTL

LEMMA OwnersLemma ==
  ASSUME IInv
  PROVE  Cardinality({t \in Threads : HasProducer(t)}) = Len(producers)
<1> DEFINE Owners == {t \in Threads : HasProducer(t)}
           own == [i \in 1 .. Len(producers) |-> producers[i]]
<1>1. /\ producers \in Seq(Threads) /\ Len(producers) \in Nat
      /\ \A i, j \in 1 .. Len(producers) : producers[i] = producers[j] => i = j
  BY DEF IInv, TypeInv, ProducerInv
<1>2. \A i \in 1 .. Len(producers) : producers[i] \in Owners
  BY <1>1 DEF HasProducer
<1>3. \A u \in Owners : \E i \in 1 .. Len(producers) : producers[i] = u
  BY DEF HasProducer
<1> HIDE DEF Owners
<1>4. own \in Bijection(1 .. Len(producers), Owners)
  BY <1>1, <1>2, <1>3 DEF Bijection, Injection, Surjection, IsInjective
<1>5. IsFiniteSet(1 .. Len(producers)) /\ Cardinality(1 .. Len(producers)) = Len(producers)
  <2> DEFINE n == Len(producers)
  <2>1. 1 \in Int /\ n \in Int /\ n \in Nat
    BY <1>1
  <2> HIDE DEF n
  <2>2. IsFiniteSet(1 .. n) /\ Cardinality(1 .. n) = IF 1 > n THEN 0 ELSE n - 1 + 1
    BY <2>1, FS_Interval
  <2>3. IsFiniteSet(1 .. n) /\ Cardinality(1 .. n) = n
    BY <2>1, <2>2
  <2> QED BY <2>3 DEF n
<1>6. Cardinality(Owners) = Len(producers)
  BY <1>4, <1>5, FS_Bijection DEF ExistsBijection
<1> QED BY <1>6 DEF Owners

\* implicitProducerHashCount is the number of the producers and of the threads
\* about to add one, and the resize flag is set by exactly one thread.
THEOREM CountCorrect == Spec => []CountAccounted
<1>1. ASSUME IInv PROVE CountAccounted
  <2> DEFINE Owners == {t \in Threads : HasProducer(t)}
  <2>1. Live = Owners \cup Pending /\ Owners \cap Pending = {}
    BY <1>1 DEF Live, Pending, IInv, ProducerInv
  <2>2. /\ IsFiniteSet(Owners) /\ IsFiniteSet(Pending)
        /\ Cardinality(Owners) \in Nat /\ Cardinality(Pending) \in Nat
    BY LiveLemma DEF Pending
  <2>3. Cardinality(Owners) = Len(producers)
    BY <1>1, OwnersLemma
  <2> HIDE DEF Owners
  <2>4. Cardinality(Live) = Cardinality(Owners) + Cardinality(Pending)
    <3>1. Cardinality(Owners \cup Pending) =
            Cardinality(Owners) + Cardinality(Pending) - Cardinality(Owners \cap Pending)
      BY <2>2, FS_Union
    <3>2. Cardinality(Owners \cap Pending) = 0
      BY <2>1, FS_EmptySet
    <3> QED BY <2>1, <2>2, <3>1, <3>2
  <2>5. implicitProducerHashCount = Len(producers) + Cardinality(Pending)
    BY <1>1, <2>3, <2>4 DEF IInv, TypeInv
  <2>6. Cardinality(Resizing) = IF implicitProducerHashResizeInProgress THEN 1 ELSE 0
    <3>1. CASE implicitProducerHashResizeInProgress
      <4>1. PICK t \in Threads : Resizing = {t}
        BY <1>1, <3>1 DEF IInv, FlagInv
      <4>2. Cardinality({t}) = 1
        BY FS_Singleton
      <4> QED BY <3>1, <4>1, <4>2
    <3>2. CASE ~implicitProducerHashResizeInProgress
      <4>1. Resizing = {}
        BY <1>1, <3>2 DEF IInv, FlagInv
      <4> QED BY <3>2, <4>1, FS_EmptySet
    <3> QED BY <3>1, <3>2
  <2> QED BY <2>5, <2>6 DEF CountAccounted, Pending, Resizing
<1> QED BY <1>1, Invariant, PTL

\* A thread is given the same producer in all its calls, though it may find it
\* in any of the tables: its messages stay in one sub-queue.
THEOREM OneProducer == Spec => SameProducer
<1> DEFINE Kept == \A t \in Threads : given[t] # 0 => given'[t] = given[t]
<1>1. ASSUME IInv, IInv', [Next]_vars PROVE [Kept]_vars
  <2>1. CASE UNCHANGED vars
    BY <2>1
  <2>2. CASE Next
    <3>1. PICK t \in Threads : get_or_add_implicit_producer(t)
      BY <2>2 DEF Next
    <3>2. ASSUME NEW u \in Threads, given[u] # 0 PROVE given'[u] = given[u]
      <4>1. CASE u # t
        BY <1>1, <3>1, <4>1, OthersStep
      <4>2. CASE u = t /\ GivesOwn(t)
        <5>1. PICK p \in 1 .. Len(producers) : producers[p] = t /\ Give(t, p)
          BY <4>2 DEF GivesOwn
        <5>2. given'[t] = p
          BY <1>1, <5>1 DEF Give, IInv, TypeInv
        <5>3. given[t] \in 1 .. Len(producers) /\ producers[given[t]] = t
          BY <1>1, <3>2, <4>2 DEF IInv, TypeInv, ProducerInv
        <5> QED BY <1>1, <4>2, <5>1, <5>2, <5>3 DEF IInv, ProducerInv
      <4>3. CASE given' = given
        BY <4>3
      <4>4. GivesOwn(t) \/ given' = given
        BY <1>1, <3>1, FoundInFrontStep, CopyStep, InsertStep
           DEF get_or_add_implicit_producer, Search, Resize, Add, FoundBehind, NotFound,
           Count, LockResize, SkipResize, Locked, Grow, Unlock, GrowFails, GiveUp, Create,
           CreateFails, Wait, GiveNull
      <4> QED BY <4>1, <4>2, <4>3, <4>4
    <3> QED BY <3>2
  <2> QED BY <1>1, <2>1, <2>2
<1>2. [][Next]_vars /\ []IInv => [][Kept]_vars
  BY <1>1, PTL
<1> QED BY <1>2, Invariant, PTL DEF Spec, SameProducer

=============================================================================
