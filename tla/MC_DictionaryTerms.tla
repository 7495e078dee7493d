-------------------------- MODULE MC_DictionaryTerms --------------------------
EXTENDS DictionaryTerms

\* 'a', 'b', ' ', ',', '(' and '_': letters, two delimiters strtok sees and
\* two the literal lists after its embedded NUL.
MC_Alphabet == {97, 98, 32, 44, 40, 95}

\* 'a' and DEL (0x7F).
MC_AlphabetDel == {97, 127}
=============================================================================
