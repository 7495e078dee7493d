--------------------------- MODULE MC_ModuleAgents ---------------------------
(* One extension directory with two modules of different load priority,   *)
(* each registering its own agent class.                                   *)
EXTENDS ModuleAgents

CONSTANTS p1, p2, d1, A1, A2

MC_PathRank == (p1 :> 1) @@ (p2 :> 2)
MC_ExtDirs == <<d1>>
MC_IsDir == d1 :> TRUE
MC_DirFiles == d1 :> {p1, p2}
MC_Kind == (p1 :> "module") @@ (p2 :> "module")
MC_Priority == (p1 :> 0) @@ (p2 :> 1)
MC_AgentOf == (p1 :> A1) @@ (p2 :> A2)
=============================================================================
