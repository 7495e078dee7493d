--------------------------- MODULE MC_AgentDispatch ---------------------------
(* Two action agents with their own action classes, one action of each     *)
(* class, and a plain agent, all listening on the initiation keynode.      *)
EXTENDS AgentDispatch

CONSTANTS A1, A2, P, act1, act2, cls1, cls2

MC_ActionClassOf == (A1 :> cls1) @@ (A2 :> cls2) @@ (P :> EmptyClass)
MC_ClassOfAction == [a \in {act1, act2} |-> IF a = act1 THEN cls1 ELSE cls2]
=============================================================================
