--------------------------- MODULE ActionLifecycle ---------------------------
(***************************************************************************)
(* What the protocol of action agents with an action class promises a      *)
(* client, with no agents, subscriptions or dispatcher in sight: an action *)
(* is put into its class and initiated once, in either order; it is given *)
(* one result class only while it is initiated and in its class, and only  *)
(* then marked finished.  An action that nobody handles stays initiated.   *)
(***************************************************************************)
CONSTANTS
  Actions,  \* action nodes
  Results   \* result classes (question_finished_successfully, ...)

None == "none"

VARIABLES
  phase,       \* [Actions -> {"idle", "initiated", "finished"}]
  classified,  \* [Actions -> BOOLEAN]: the action is in its class
  result       \* [Actions -> Results \cup {None}]

vars == <<phase, classified, result>>

TypeOK ==
  /\ phase \in [Actions -> {"idle", "initiated", "finished"}]
  /\ classified \in [Actions -> BOOLEAN]
  /\ result \in [Actions -> Results \cup {None}]

Classify(a) ==
  /\ ~classified[a]
  /\ classified' = [classified EXCEPT ![a] = TRUE]
  /\ UNCHANGED <<phase, result>>

Initiate(a) ==
  /\ phase[a] = "idle"
  /\ phase' = [phase EXCEPT ![a] = "initiated"]
  /\ UNCHANGED <<classified, result>>

(* The one agent handling the action records its result, once, and only   *)
(* for an action of its class.                                             *)
Answer(a, r) ==
  /\ phase[a] = "initiated"
  /\ classified[a]
  /\ result[a] = None
  /\ result' = [result EXCEPT ![a] = r]
  /\ UNCHANGED <<phase, classified>>

(* The action is marked finished, after its result.                        *)
Finish(a) ==
  /\ phase[a] = "initiated"
  /\ result[a] # None
  /\ phase' = [phase EXCEPT ![a] = "finished"]
  /\ UNCHANGED <<classified, result>>

Init ==
  /\ phase = [a \in Actions |-> "idle"]
  /\ classified = [a \in Actions |-> FALSE]
  /\ result = [a \in Actions |-> None]

Next ==
  \E a \in Actions :
    \/ Classify(a)
    \/ Initiate(a)
    \/ \E r \in Results : Answer(a, r)
    \/ Finish(a)

Spec == Init /\ [][Next]_vars
=============================================================================
