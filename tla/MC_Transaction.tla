--------------------------- MODULE MC_Transaction ---------------------------
EXTENDS Transaction

CONSTANTS s1, s2, s3, id1, id2

MC_Slots == {s1, s2, s3}
MC_Ids == {id1, id2}
=============================================================================
