----------------------------- MODULE MC_PyBinding -----------------------------
EXTENDS PyBinding

CONSTANTS l0, l1, n1

(* One link and the empty address; str values of 3 and of 8 bytes (an     *)
(* 8-byte str is read by AsInt and AsFloat as well).                       *)
MC_Links == {l0, l1}
MC_ValidLinks == {l1}
MC_StrSizes == {3, 8}

(* One system identifier; parameters of a class each check accepts, and of *)
(* none; room for a Triple and a TripleWithRelation in the template.       *)
MC_Names == {n1}
MC_TemplateParams == {"Str", "Other"}
MC_MaxTemplateItems == 8
==============================================================================
