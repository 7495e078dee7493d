\* Every string of up to four bytes over letters and delimiters.
CONSTANTS
  Alphabet <- MC_Alphabet
  MaxLen = 4
SPECIFICATION Spec
\* The function returns: nothing follows the "done" state.
CHECK_DEADLOCK FALSE
INVARIANT TypeOK
INVARIANT TermsAreUniqueRuns
