--------------------------- MODULE DictionaryTerms ---------------------------
(***************************************************************************)
(* Term splitting of the file-system dictionary, from                      *)
(* sc-memory/sc-core/sc-store/sc-fs-storage/                               *)
(* sc_dictionary_fs_storage_private.h.                                     *)
(*                                                                         *)
(* _sc_dictionary_fs_storage_get_string_terms copies the string, splits it *)
(* with strtok on the delimiter string " ,.-\0()[]_", and returns the      *)
(* terms in order of first occurrence, dropping a term already met; it     *)
(* keeps the terms met in a dictionary (a trie) whose children are         *)
(* indexed by _sc_char_to_sc_int and number _sc_dictionary_children_size. *)
(*                                                                         *)
(* Characters are bytes (0..255); a string is a sequence of non-zero       *)
(* bytes.  Each iteration of the loop is one step.                         *)
(***************************************************************************)
EXTENDS Naturals, Sequences, SequencesExt

CONSTANTS
  Alphabet,  \* the bytes strings are made of (non-zero)
  MaxLen     \* bound on the length of the input string

ASSUME Alphabet \subseteq 1..255 /\ MaxLen \in Nat

(* strtok never returns an empty term: the empty sequence stands for NULL. *)
NULL == <<>>

(* The bytes of the literal " ,.-\0()[]_" as the array holds them.         *)
DelimLiteral == <<32, 44, 46, 45, 0, 40, 41, 91, 93, 95>>

(* The delimiter set strtok sees: the bytes of the array up to its first   *)
(* NUL, which strtok takes for the end of the string.                      *)
Delims ==
  LET z == SelectInSeq(DelimLiteral, LAMBDA c : c = 0)
  IN ToSet(SubSeq(DelimLiteral, 1, z - 1))

(* _sc_dictionary_children_size: 255 - 1 + 1 in sc_uint8 arithmetic.       *)
ChildrenSize == (255 - 1 + 1) % 256

(* _sc_char_to_sc_int: 128 + (sc_uint8)ch, stored in an sc_uint8.          *)
CharIndex(ch) == (128 + ch) % 256

VARIABLES
  str,     \* copied_string
  saved,   \* strtok's saved position in copied_string
  term,    \* the term strtok last returned, or NULL
  terms,   \* the list of returned terms
  unique,  \* the terms held in the unique_terms dictionary
  pc       \* "call": not yet started, "loop": in the while loop, "done"

vars == <<str, saved, term, terms, unique, pc>>

TypeOK ==
  /\ str \in BoundedSeq(Alphabet, MaxLen)
  /\ saved \in 1..(MaxLen + 1)
  /\ term \in BoundedSeq(Alphabet, MaxLen)
  /\ terms \in Seq(BoundedSeq(Alphabet, MaxLen))
  /\ unique \subseteq BoundedSeq(Alphabet, MaxLen)
  /\ pc \in {"call", "loop", "done"}

-----------------------------------------------------------------------------
(* The first delimiter at or after i, or 0.                                *)
DelimAfter(s, i) == SelectInSubSeq(s, i, Len(s), LAMBDA c : c \in Delims)

(* Mutant: after the last term strtok resumes one byte past the            *)
(* terminator.                                                             *)
NextPosPastEnd(s, i) ==
  IF DelimAfter(s, i) = 0 THEN Len(s) + 2 ELSE DelimAfter(s, i) + 1

(* Where strtok resumes after the term starting at i: past the delimiter   *)
(* it overwrote with NUL, or at the terminator.                            *)
NextPos(s, i) ==
  IF DelimAfter(s, i) = 0 THEN Len(s) + 1 ELSE DelimAfter(s, i) + 1

(* Mutant: strtok does not skip the delimiters before a term.              *)
TermStartNoSkip(s, from) == IF from <= Len(s) THEN from ELSE 0

(* The first byte at or after from that is not a delimiter, or 0.          *)
TermStart(s, from) ==
  SelectInSubSeq(s, from, Len(s), LAMBDA c : c \notin Delims)

(* strtok from position from: NULL if only delimiters are left, otherwise  *)
(* the bytes from TermStart up to the next delimiter, and where the next   *)
(* call resumes.                                                           *)
Strtok(s, from) ==
  LET i == TermStart(s, from)
      d == DelimAfter(s, i)
  IN IF i = 0 THEN [tok |-> NULL, next |-> Len(s) + 1]
     ELSE [tok |-> SubSeq(s, i, IF d = 0 THEN Len(s) ELSE d - 1),
           next |-> NextPos(s, i)]

(* The call: the string is copied, strtok(copied_string, delim) returns    *)
(* the first term, the list and the dictionary are created empty.          *)
Call ==
  /\ pc = "call"
  /\ LET r == Strtok(str, 1)
     IN /\ term' = r.tok
        /\ saved' = r.next
  /\ pc' = "loop"
  /\ UNCHANGED <<str, terms, unique>>

(* One iteration: the term is copied; a term the dictionary already holds  *)
(* is freed, a new one is pushed to the list and appended to the           *)
(* dictionary; strtok(NULL, delim) gives the next term.                    *)
Iterate ==
  /\ pc = "loop"
  /\ term # NULL
  /\ \/ /\ term \in unique
        /\ UNCHANGED <<terms, unique>>
     \/ /\ term \notin unique
        /\ terms' = Append(terms, term)
        /\ unique' = unique \cup {term}
  /\ LET r == Strtok(str, saved)
     IN /\ term' = r.tok
        /\ saved' = r.next
  /\ UNCHANGED <<str, pc>>

(* strtok returned NULL: the dictionary is destroyed, the list returned.   *)
Return ==
  /\ pc = "loop"
  /\ term = NULL
  /\ pc' = "done"
  /\ UNCHANGED <<str, saved, term, terms, unique>>

Init ==
  /\ str \in BoundedSeq(Alphabet, MaxLen)
  /\ saved = 1
  /\ term = NULL
  /\ terms = <<>>
  /\ unique = {}
  /\ pc = "call"

Next == Call \/ Iterate \/ Return

Spec == Init /\ [][Next]_vars

-----------------------------------------------------------------------------
(* Reference: the maximal runs of non-delimiter bytes of s, in order, each *)
(* distinct run once, at its first occurrence.                             *)
Runs(s, D) ==
  LET IsRun(i, j) ==
        /\ 1 <= i /\ i <= j /\ j <= Len(s)
        /\ \A k \in i..j : s[k] \notin D
        /\ i = 1 \/ s[i - 1] \in D
        /\ j = Len(s) \/ s[j + 1] \in D
      Starts == {i \in 1..Len(s) : \E j \in 1..Len(s) : IsRun(i, j)}
      RunAt(i) == SubSeq(s, i, CHOOSE j \in 1..Len(s) : IsRun(i, j))
      Ordered == SetToSortSeq(Starts, <)
      FirstOf == SelectSeq([n \in 1..Len(Ordered) |-> n],
                   LAMBDA n : \A m \in 1..(n - 1) : RunAt(Ordered[m]) # RunAt(Ordered[n]))
  IN [n \in 1..Len(FirstOf) |-> RunAt(Ordered[FirstOf[n]])]

(* When the function returns, the list holds every maximal run of          *)
(* non-delimiter bytes of the string, each distinct one exactly once, in   *)
(* order of first occurrence: the strtok loop and the dictionary's         *)
(* duplicate check together compute the reference split.                   *)
TermsAreUniqueRuns ==
  pc = "done" => terms = Runs(str, Delims)

(* The delimiter literal lists ' ', ',', '.', '-', '(', ')', '[', ']' and  *)
(* '_': every one of them separates terms.                                 *)
ListedDelims == ToSet(DelimLiteral) \ {0}
TermsSplitOnListedDelimiters ==
  pc = "done" => terms = Runs(str, ListedDelims)

(* Every byte of a term the dictionary walks indexes one of its children:  *)
(* _sc_char_to_sc_int(ch) < _sc_dictionary_children_size() (spec 4.3: a    *)
(* 256-branch trie keyed by raw bytes).                                    *)
IndexInChildren ==
  \A t \in unique : \A i \in 1..Len(t) : CharIndex(t[i]) < ChildrenSize
=============================================================================
