---------------------------- MODULE MC_ExtModules ----------------------------
(* Three extension directories, one of them missing; seven files: five     *)
(* modules (two with equal priority in different directories, two without *)
(* a priority symbol, whose paths decide their order), a file that is no   *)
(* module and a module without a shutdown symbol.                          *)
EXTENDS ExtModules

CONSTANTS p1, p2, p3, p4, p5, p6, p7, d1, d2, d3

MC_PathRank == (p1 :> 1) @@ (p2 :> 2) @@ (p3 :> 3) @@ (p4 :> 4) @@ (p5 :> 5) @@ (p6 :> 6) @@ (p7 :> 0)
MC_ExtDirs == <<d2, d1, d3>>
MC_IsDir == (d1 :> TRUE) @@ (d2 :> TRUE) @@ (d3 :> FALSE)
MC_DirFiles == (d1 :> {p1, p2, p3, p7}) @@ (d2 :> {p4, p5, p6}) @@ (d3 :> {})
MC_Kind == (p1 :> "module") @@ (p2 :> "module") @@ (p3 :> "notModule")
           @@ (p4 :> "module") @@ (p5 :> "noShutdown") @@ (p6 :> "module")
           @@ (p7 :> "module")
MC_Priority == (p1 :> 1) @@ (p2 :> NoPriority) @@ (p3 :> 0)
               @@ (p4 :> 1) @@ (p5 :> 0) @@ (p6 :> 0) @@ (p7 :> NoPriority)
=============================================================================
