---------------------------- MODULE GwfTranslator ----------------------------
(***************************************************************************)
(* GWFTranslator::TranslateImpl of sc-tools/sc-builder/src/                *)
(* gwf_translator.cpp: a .gwf file is read as XML, converted to SCs text,  *)
(* written to the file <name>.gwf.scs, handed to the SCs translator, and   *)
(* that file removed.  Every step may throw; the catch logs the error and  *)
(* returns false.                                                          *)
(*                                                                         *)
(* The builder translates its files one after the other.  The state is     *)
(* what lies at each <name>.gwf.scs path and the results returned.         *)
(***************************************************************************)
EXTENDS Naturals, FiniteSets

CONSTANTS
  Gwfs   \* the .gwf files the builder translates

(* What a <name>.gwf.scs path holds: nothing, a file that was there before *)
(* the build, an SCs text cut short by a failed write, the full text.      *)
Contents == {"absent", "preexisting", "partial", "full"}

(* How far TranslateImpl gets: XmlFileToString throws (the XML does not    *)
(* parse), the XML is empty, GWFToScs throws (no elements), the .scs file  *)
(* cannot be opened, the write fails, the close fails, the SCs translator  *)
(* returns a status, or it throws.                                         *)
Outcomes == {"xmlFails", "xmlEmpty", "noElements", "openFails", "writeFails",
             "closeFails", "translated", "translateThrows"}

VARIABLES
  scs,     \* [Gwfs -> Contents]: the file at <name>.gwf.scs
  result,  \* [Gwfs -> {"none", "true", "false"}]: what TranslateImpl returned
  fed      \* the contents the SCs translator was handed to read

vars == <<scs, result, fed>>

TypeOK ==
  /\ scs \in [Gwfs -> Contents]
  /\ result \in [Gwfs -> {"none", "true", "false"}]
  /\ fed \subseteq Contents

-----------------------------------------------------------------------------
(* WriteStringToFile removes the file and throws when the write or the     *)
(* close fails (lines 51-64).                                              *)
WriteFailRemoves(out) == out \in {"writeFails", "closeFails"}

(* WriteStringToFile: std::ofstream truncates (or creates) the file, then  *)
(* the text is written; a failed write leaves part of it.                  *)
Written(out) == IF out = "writeFails" THEN "partial" ELSE "full"

(* TranslateImpl(f) as a whole, for the outcome out.  Nothing is written   *)
(* before WriteStringToFile opens the file.  A failed write or close       *)
(* removes the file and throws; otherwise the path goes to the SCs         *)
(* translator, which reads the file, and the file is removed after it      *)
(* returns (line 112), a step skipped when it throws.                      *)
TranslateImpl(f, out, status) ==
  /\ result[f] = "none"
  /\ \/ /\ out \in {"xmlFails", "xmlEmpty", "noElements", "openFails"}
        /\ UNCHANGED <<scs, fed>>
        /\ result' = [result EXCEPT ![f] = "false"]
     \/ /\ out \in {"writeFails", "closeFails", "translated", "translateThrows"}
        /\ IF WriteFailRemoves(out)
             THEN /\ scs' = [scs EXCEPT ![f] = "absent"]
                  /\ UNCHANGED fed
                  /\ result' = [result EXCEPT ![f] = "false"]
             ELSE /\ fed' = fed \cup {Written(out)}
                  /\ scs' = [scs EXCEPT ![f] = IF out = "translateThrows"
                                                  THEN Written(out) ELSE "absent"]
                  /\ result' = [result EXCEPT ![f] =
                                  IF out = "translateThrows" THEN "false" ELSE status]

Init ==
  /\ scs \in [Gwfs -> {"absent", "preexisting"}]
  /\ result = [f \in Gwfs |-> "none"]
  /\ fed = {}

Next ==
  \E f \in Gwfs, out \in Outcomes, status \in {"true", "false"} : TranslateImpl(f, out, status)

Spec == Init /\ [][Next]_vars

-----------------------------------------------------------------------------
(* TranslateImpl cleans up after itself: once a file's translation has     *)
(* returned, no SCs text it wrote is left at <name>.gwf.scs.               *)
NoTemporaryLeft ==
  \A f \in Gwfs : result[f] # "none" => scs[f] \notin {"partial", "full"}
=============================================================================
