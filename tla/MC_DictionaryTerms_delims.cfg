\* Every string of up to three bytes over letters and delimiters.
CONSTANTS
  Alphabet <- MC_Alphabet
  MaxLen = 3
SPECIFICATION Spec
\* The function returns: nothing follows the "done" state.
CHECK_DEADLOCK FALSE
INVARIANT TermsSplitOnListedDelimiters
