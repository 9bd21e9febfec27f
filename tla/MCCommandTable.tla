--------------------------- MODULE MCCommandTable ---------------------------
(***************************************************************************)
(* CommandTable with the table and the comparison of src/src/main.cpp.     *)
(* The assumptions of CommandTable, evaluated here, say that the table is  *)
(* in the order the search needs.                                          *)
(***************************************************************************)
EXTENDS CommandTable, FiniteSetsExt

MCcommand_list == <<
  "call_preset", "delete_preset", "dvr_reboot", "get_dvr_info",
  "get_preset_byname", "get_preset_details", "get_ptz_pos", "ptz_move",
  "set_preset", "set_ptz_pos", "start_record", "stop_record", "test_func",
  "update_preset_names" >>

\* Requests that are in the table, that are in it but for their case, and
\* that would come before, between and behind its entries.
Misses == {"", "a", "call", "call_presets", "dvr reboot", "get_current_preset",
           "get_preset", "get_ptz", "get ptz_pos", "listen", "ptz_control", "reboot",
           "set_dvr_config", "stop", "update_preset_name", "z", "_"}
MCStrings ==
  {MCcommand_list[i] : i \in DOMAIN MCcommand_list} \cup Misses \cup
  {"Call_Preset", "DVR_REBOOT", "Update_preset_names"}

\* A character with bit 5 set, as (*arg1++ | 32): a capital is its small
\* letter, the underscore is behind them all and the space before.
Small == "abcdefghijklmnopqrstuvwxyz_"
Capital == "ABCDEFGHIJKLMNOPQRSTUVWXYZ_"
Code(c) ==
  LET k == CHOOSE j \in 1 .. 27 : c \in {SubSeq(Small, j, j), SubSeq(Capital, j, j)}
  IN IF c = " " THEN 32 ELSE IF k = 27 THEN 127 ELSE 96 + k

Codes == [s \in MCStrings |-> [i \in 1 .. Len(s) |-> Code(SubSeq(s, i, i))]]

\* The NUL at the end of a string becomes a space, too.  Nothing is defined
\* behind it.
At(s, i) == IF i = Len(s) + 1 THEN 32 ELSE Codes[s][i]

\* Where both strings have a character, or the NUL, and differ.
Differ(arg1, arg2) ==
  {i \in 1 .. Min({Len(arg1), Len(arg2)}) + 1 : At(arg1, i) # At(arg2, i)}

\* str_cmp finds a difference, or the end of both, before it reads beyond the
\* end of either.  A request with a space where a name ends, or the reverse,
\* has it read beyond, and is none of those here.
ASSUME ReadsWithinStrings ==
  \A arg1, arg2 \in MCStrings : Len(arg1) = Len(arg2) \/ Differ(arg1, arg2) # {}

\* The difference of the first two characters that differ.
Compared == [args \in MCStrings \X MCStrings |->
  LET differ == Differ(args[1], args[2])
  IN IF differ = {} THEN 0 ELSE At(args[1], Min(differ)) - At(args[2], Min(differ))]

MCstr_cmp(arg1, arg2) == Compared[<<arg1, arg2>>]

=============================================================================
