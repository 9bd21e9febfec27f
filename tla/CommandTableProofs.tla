------------------------- MODULE CommandTableProofs -------------------------
(***************************************************************************)
(* The search of CommandTable finds every command of every table that is   *)
(* in the order of str_cmp, whatever str_cmp is, as long as it is an order.*)
(***************************************************************************)
EXTENDS CommandTable, TLAPS

LEMMA TableLemma ==
  /\ LCTOP \in Int /\ LCTOP >= -1
  /\ \A i \in 0 .. LCTOP : name(i) \in Strings
BY TableAssumption DEF LCTOP, name

\* The middle of what is left is in it.
LEMMA MidLemma ==
  ASSUME TypeOK, low <= top
  PROVE  mid \in low .. top /\ mid \in 0 .. LCTOP
<1>1. low \in Nat /\ top \in Int /\ low <= top /\ top <= LCTOP
  BY TableLemma DEF TypeOK
<1> QED
  BY <1>1, TableLemma DEF mid

\* An entry before one that is less than a command is less than it too, and
\* an entry behind one that is greater is greater.
LEMMA OrderLemma ==
  ASSUME NEW a \in Strings, NEW i \in 0 .. LCTOP, NEW m \in 0 .. LCTOP,
         str_cmp(a, name(i)) = 0
  PROVE  /\ str_cmp(a, name(m)) > 0 => m < i
         /\ str_cmp(a, name(m)) < 0 => i < m
<1> DEFINE ni == name(i)  nm == name(m)
<1>1. ni \in Strings /\ nm \in Strings
  BY TableLemma
<1>2. i < m => str_cmp(ni, nm) < 0
  BY SortedAssumption
<1>3. m < i => str_cmp(nm, ni) < 0
  BY SortedAssumption
<1>4. i = m => ni = nm
  OBVIOUS
<1>5. /\ str_cmp(a, nm) \in Int /\ str_cmp(nm, a) \in Int
      /\ str_cmp(a, ni) \in Int /\ str_cmp(ni, a) \in Int
      /\ str_cmp(ni, nm) \in Int /\ str_cmp(nm, ni) \in Int
  BY <1>1, OrderAssumption
<1>6. str_cmp(a, ni) = 0
  OBVIOUS
<1> HIDE DEF ni, nm
<1>7. ASSUME str_cmp(a, nm) > 0
      PROVE  m < i
  <2>1. str_cmp(nm, a) < 0
    BY <1>1, <1>7, OrderAssumption
  <2>2. CASE i < m
    <3>1. str_cmp(ni, a) < 0
      BY <1>1, <1>2, <2>1, <2>2, OrderAssumption
    <3>2. str_cmp(a, ni) > 0
      BY <1>1, <3>1, OrderAssumption
    <3> QED
      BY <3>2, <1>6
  <2>3. CASE i = m
    BY <2>3, <1>4, <1>5, <1>6, <1>7
  <2> QED
    BY <2>2, <2>3
<1>8. ASSUME str_cmp(a, nm) < 0
      PROVE  i < m
  <2>1. CASE m < i
    <3>1. str_cmp(a, ni) < 0
      BY <1>1, <1>3, <1>8, <2>1, OrderAssumption
    <3> QED
      BY <3>1, <1>5, <1>6
  <2>2. CASE i = m
    BY <2>2, <1>4, <1>5, <1>6, <1>8
  <2> QED
    BY <2>1, <2>2
<1> QED
  BY <1>7, <1>8 DEF nm

-----------------------------------------------------------------------------
(* Type correctness.                                                       *)

LEMMA TypeInit == Init => TypeOK
BY TableLemma DEF Init, TypeOK

LEMMA TypeStep == TypeOK /\ [Next]_vars => TypeOK'
<1> SUFFICES ASSUME TypeOK, [Next]_vars PROVE TypeOK'
  OBVIOUS
<1>1. CASE GoUp
  <2>1. mid \in 0 .. LCTOP
    BY <1>1, MidLemma DEF GoUp
  <2> QED
    BY <1>1, <2>1, TableLemma DEF GoUp, TypeOK
<1>2. CASE GoDown
  <2>1. mid \in 0 .. LCTOP
    BY <1>2, MidLemma DEF GoDown
  <2> QED
    BY <1>2, <2>1, TableLemma DEF GoDown, TypeOK
<1>3. CASE Hit
  <2>1. mid \in 0 .. LCTOP
    BY <1>3, MidLemma DEF Hit
  <2>2. rc' \in -1 .. LCTOP
    BY <1>3, <2>1, TableLemma DEF Hit
  <2>3. searching' \in BOOLEAN
    BY <1>3 DEF Hit
  <2> QED
    BY <1>3, <2>2, <2>3 DEF Hit, TypeOK
<1>4. CASE Miss
  <2>1. rc' \in -1 .. LCTOP
    BY <1>4, TableLemma DEF Miss
  <2>2. searching' \in BOOLEAN
    BY <1>4 DEF Miss
  <2> QED
    BY <1>4, <2>1, <2>2 DEF Miss, TypeOK
<1>5. CASE NextCommand
  BY <1>5, TableLemma DEF NextCommand, TypeOK
<1>6. CASE UNCHANGED vars
  BY <1>6 DEF vars, TypeOK
<1> QED
  BY <1>1, <1>2, <1>3, <1>4, <1>5, <1>6 DEF Next, Loop

\* The indices of the search stay within one of the table's ends.
THEOREM TypeCorrect == Spec => []TypeOK
BY TypeInit, TypeStep, PTL DEF Spec

-----------------------------------------------------------------------------
(* The search is right.                                                    *)

\* A name of the table that is asked for is never searched past.
Narrowed ==
  searching => \A i \in 0 .. LCTOP : Named(i) => low <= i /\ i <= top

IInv == TypeOK /\ Narrowed /\ Answered

LEMMA IInvStep == IInv /\ [Next]_vars => IInv'
<1> SUFFICES ASSUME IInv, [Next]_vars PROVE IInv'
  OBVIOUS
<1>1. TypeOK /\ TypeOK'
  BY TypeStep DEF IInv
<1>2. arg \in Strings /\ low \in Int /\ top \in Int
  BY <1>1, TableLemma DEF TypeOK
<1>3. CASE GoUp
  <2>1. mid \in 0 .. LCTOP /\ str_cmp(arg, name(mid)) > 0
    BY <1>1, <1>3, MidLemma DEF GoUp, found
  <2>2. \A i \in 0 .. LCTOP : Named(i) => mid < i
    BY <1>2, <2>1, OrderLemma DEF Named
  <2>3. Narrowed'
    BY <1>2, <1>3, <2>1, <2>2 DEF GoUp, Narrowed, Named, IInv
  <2>4. Answered'
    BY <1>3 DEF GoUp, Answered
  <2> QED
    BY <1>1, <2>3, <2>4 DEF IInv
<1>4. CASE GoDown
  <2>1. mid \in 0 .. LCTOP /\ str_cmp(arg, name(mid)) < 0
    BY <1>1, <1>4, MidLemma DEF GoDown, found
  <2>2. \A i \in 0 .. LCTOP : Named(i) => i < mid
    BY <1>2, <2>1, OrderLemma DEF Named
  <2>3. Narrowed'
    BY <1>2, <1>4, <2>1, <2>2 DEF GoDown, Narrowed, Named, IInv
  <2>4. Answered'
    BY <1>4 DEF GoDown, Answered
  <2> QED
    BY <1>1, <2>3, <2>4 DEF IInv
<1>5. CASE Hit
  <2>1. mid \in 0 .. LCTOP
    BY <1>1, <1>5, MidLemma DEF Hit
  <2>2. Answered'
    BY <1>5, <2>1 DEF Hit, found, Answered, Named
  <2> QED
    BY <1>1, <1>5, <2>2 DEF IInv, Hit, Narrowed
<1>6. CASE Miss
  <2>1. \A i \in 0 .. LCTOP : ~Named(i)
    BY <1>2, <1>6 DEF Miss, Narrowed, IInv
  <2>2. Answered'
    BY <1>6, <2>1 DEF Miss, Answered, Named
  <2> QED
    BY <1>1, <1>6, <2>2 DEF IInv, Miss, Narrowed
<1>7. CASE NextCommand
  BY <1>1, <1>7, TableLemma DEF IInv, NextCommand, Narrowed, Answered
<1>8. CASE UNCHANGED vars
  BY <1>1, <1>8 DEF IInv, vars, Narrowed, Answered, Named
<1> QED
  BY <1>3, <1>4, <1>5, <1>6, <1>7, <1>8 DEF Next, Loop

LEMMA SearchInvariant == Spec => []IInv
<1>1. Init => IInv
  BY TypeInit, TableLemma DEF Init, IInv, Narrowed, Answered
<1> QED
  BY <1>1, IInvStep, PTL DEF Spec

\* lookup_command answers with the entry that was asked for, and with -1 only
\* if the table has none.
THEOREM SearchCorrect == Spec => []Answered
BY SearchInvariant, PTL DEF IInv

\* Each comparison leaves at most half of the part it divides, so that a table
\* of n names is searched in at most log2(n) + 1 of them.
THEOREM SearchHalves == Spec => Halved
<1>1. TypeOK /\ [Next]_vars
        => [GoUp \/ GoDown => 2 * (top' - low' + 1) <= top - low + 1]_vars
  <2> SUFFICES ASSUME TypeOK, GoUp \/ GoDown
               PROVE  2 * (top' - low' + 1) <= top - low + 1
    BY DEF vars
  <2>1. low \in Int /\ top \in Int /\ mid \in Int
    BY TableLemma DEF TypeOK, mid
  <2>2. 2 * mid <= low + top /\ low + top <= 2 * mid + 1
    BY <2>1 DEF mid
  <2>3. CASE GoUp
    BY <2>1, <2>2, <2>3 DEF GoUp
  <2>4. CASE GoDown
    BY <2>1, <2>2, <2>4 DEF GoDown
  <2> QED
    BY <2>3, <2>4
<1> QED
  BY <1>1, TypeCorrect, PTL DEF Spec, Halved

=============================================================================
