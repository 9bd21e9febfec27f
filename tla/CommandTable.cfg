SPECIFICATION Spec
CONSTANTS
  Strings <- MCStrings
  command_list <- MCcommand_list
  str_cmp <- MCstr_cmp
INVARIANT
  Answered
PROPERTY
  Halved
