-------------------------- MODULE MC_GwfTranslator --------------------------
EXTENDS GwfTranslator

CONSTANTS g1, g2, g3

MC_Gwfs == {g1, g2, g3}
=============================================================================
