\* Strings of up to two bytes over 'a' and DEL.
CONSTANTS
  Alphabet <- MC_AlphabetDel
  MaxLen = 2
SPECIFICATION Spec
\* The function returns: nothing follows the "done" state.
CHECK_DEADLOCK FALSE
INVARIANT IndexInChildren
