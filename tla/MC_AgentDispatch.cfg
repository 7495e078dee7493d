CONSTANTS
  A1 = A1
  A2 = A2
  P = P
  act1 = act1
  act2 = act2
  cls1 = cls1
  cls2 = cls2
  Agents = {A1, A2, P}
  PlainAgents = {P}
  Actions = {act1, act2}
  Classes = {cls1, cls2}
  Initiated = Initiated
  EmptyClass = EmptyClass
  MaxRegistrations = 3
  RegisterOnce = TRUE
  ActionClassOf <- MC_ActionClassOf
  ClassOfAction <- MC_ClassOfAction

SPECIFICATION Spec
\* The system idles once every action is handled and no client acts.
CHECK_DEADLOCK FALSE

INVARIANT TypeOK
INVARIANT FinishedHasResult
INVARIANT AtMostOneResult
PROPERTY PendingActionFinished
PROPERTY ImplementsActionLifecycle
