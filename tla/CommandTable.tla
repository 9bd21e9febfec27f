---------------------------- MODULE CommandTable ----------------------------
(***************************************************************************)
(* lookup_command of src/src/main.cpp: the binary search that finds the    *)
(* method for a command among the names of command_list.  The table comes  *)
(* with a caveat, that it has to be in alphabetical order; the order meant *)
(* is that of str_cmp, and what is needed of both is assumed here.         *)
(* MCCommandTable has the table and the comparison of the code, so that    *)
(* TLC evaluates the assumptions on them.                                  *)
(***************************************************************************)
EXTENDS Integers, Sequences

CONSTANTS
  Strings,          \* what a command may be called
  command_list,     \* the names of the table
  str_cmp(_, _)     \* negative, zero or positive, as strcmp

ASSUME TableAssumption == command_list \in Seq(Strings)

ASSUME OrderAssumption ==
  /\ \A a, b \in Strings : str_cmp(a, b) \in Int
  /\ \A a, b \in Strings : str_cmp(a, b) > 0 <=> str_cmp(b, a) < 0
  /\ \A a, b, c \in Strings :
       str_cmp(a, b) < 0 /\ str_cmp(b, c) < 0 => str_cmp(a, c) < 0

LCTOP == Len(command_list) - 1
name(i) == command_list[i + 1]   \* command_list[i].name

ASSUME SortedAssumption ==
  \A i, j \in 0 .. LCTOP : i < j => str_cmp(name(i), name(j)) < 0

VARIABLES
  arg,         \* the command looked up
  low, top,    \* the part of the table it may be in
  searching,   \* the loop is running
  rc           \* the answer: an index, or -1

vars == <<arg, low, top, searching, rc>>

TypeOK ==
  /\ arg \in Strings
  /\ low \in 0 .. LCTOP + 1
  /\ top \in -1 .. LCTOP
  /\ searching \in BOOLEAN
  /\ rc \in -1 .. LCTOP

\* lookup_command(arg) is entered.
Init ==
  /\ arg \in Strings
  /\ low = 0 /\ top = LCTOP
  /\ searching = TRUE
  /\ rc = -1

mid == (low + top) \div 2
found == str_cmp(arg, name(mid))

\* Mutant: mid stays in the part that is searched.
GoUp_KeepsMid ==
  /\ searching /\ low <= top
  /\ found > 0
  /\ low' = mid
  /\ UNCHANGED <<arg, top, searching, rc>>

GoUp ==
  /\ searching /\ low <= top
  /\ found > 0
  /\ low' = mid + 1
  /\ UNCHANGED <<arg, top, searching, rc>>

GoDown ==
  /\ searching /\ low <= top
  /\ found < 0
  /\ top' = mid - 1
  /\ UNCHANGED <<arg, low, searching, rc>>

Hit ==
  /\ searching /\ low <= top
  /\ found = 0
  /\ searching' = FALSE
  /\ rc' = mid
  /\ UNCHANGED <<arg, low, top>>

\* Mutant: the loop ends before the last candidate has been compared.
Miss_Early ==
  /\ searching /\ low >= top
  /\ searching' = FALSE
  /\ rc' = -1
  /\ UNCHANGED <<arg, low, top>>

Miss ==
  /\ searching /\ low > top
  /\ searching' = FALSE
  /\ rc' = -1
  /\ UNCHANGED <<arg, low, top>>

\* process_mqtt_cmd has used rc, and looks the next command up.
NextCommand ==
  /\ ~searching
  /\ arg' \in Strings
  /\ low' = 0 /\ top' = LCTOP
  /\ searching' = TRUE
  /\ rc' = -1

Loop == GoUp \/ GoDown \/ Hit \/ Miss

Next == Loop \/ NextCommand

Spec == Init /\ [][Next]_vars

-----------------------------------------------------------------------------
(* Properties.                                                             *)

Named(i) == str_cmp(arg, name(i)) = 0

\* The answer is the entry asked for, and -1 only if there is none.
Answered ==
  ~searching =>
    IF rc = -1 THEN \A i \in 0 .. LCTOP : ~Named(i) ELSE Named(rc)

\* Each comparison leaves at most half of the part it divides, so that every
\* command gets its answer, and soon.
Halved ==
  [][GoUp \/ GoDown => 2 * (top' - low' + 1) <= top - low + 1]_vars

=============================================================================
