---------------------------- MODULE ModuleAgents ----------------------------
(***************************************************************************)
(* Extension modules that register action agents: the loader of            *)
(* sc_memory_ext.c composed with the agent registration of sc_agent.hpp.   *)
(*                                                                         *)
(* An extension module registers its agent class in its initialise         *)
(* function (SC_AGENT_REGISTER) and unregisters it in its shutdown         *)
(* function (SC_AGENT_UNREGISTER); the module bodies are not in this       *)
(* repository's sources and follow that documented use of the two macros.  *)
(* A module whose initialise fails is taken to fail before it registers.   *)
(* sc_ext_initialize and sc_ext_shutdown call the modules synchronously,   *)
(* so each loader step carries the registrations its module calls make, in *)
(* the order of the calls.  The clients and the dispatcher of              *)
(* AgentDispatch are left out: they do not touch the subscriptions.        *)
(***************************************************************************)
EXTENDS Naturals, Sequences, SequencesExt

CONSTANTS
  Paths, PathRank, Dirs, ExtDirs, IsDir, DirFiles, Kind, Priority,
  NoPriority, MaxPriority, MaxCycles,   \* the loader's, as in ExtModules
  Agents, Initiated, EmptyClass,        \* the agents', as in AgentDispatch
  MaxRegistrations,
  AgentOf       \* [Paths -> Agents]: the agent class a module registers

ASSUME AgentOf \in [Paths -> Agents]

VARIABLES
  list, up, calls, cycles,      \* sc_memory_ext.c
  events, nextId, registered    \* ScAgentAbstract::m_events and its users

loader == <<list, up, calls, cycles>>
agents == <<events, nextId, registered>>
vars == <<loader, agents>>

Ext == INSTANCE ExtModules
Ag == INSTANCE AgentDispatch WITH
        PlainAgents <- {}, RegisterOnce <- TRUE, Actions <- {}, Classes <- {},
        ActionClassOf <- [A \in Agents |-> EmptyClass],
        ClassOfAction <- [a \in {} |-> EmptyClass],
        arcs <- {}, queue <- <<>>,
        worker <- [pc |-> "idle", agent |-> "none", action |-> "none", result |-> "none"]

-----------------------------------------------------------------------------
(* A module opened by the current sc_ext_initialize whose initialise       *)
(* succeeded: it is still open in the new list.                            *)
InitSucceeded(p) == \E i \in 1..Len(list') : list'[i].path = p /\ list'[i].open

(* ScAgent::Register<A> over [events, nextId, registered]: one new ScEvent *)
(* pushed to m_events.                                                     *)
RegisterStep(s, A) ==
  [events |-> s.events \cup {Ag!NewEvent(s.nextId, A)},
   nextId |-> s.nextId + 1,
   registered |-> s.registered \cup {A}]

(* ScAgent::Unregister<A>: deletes and clears all of m_events, whatever   *)
(* class it is called for.                                                 *)
UnregisterStep(s, A) == [s EXCEPT !.events = {}, !.registered = @ \ {A}]

(* One call into a module: a successful initialise runs SC_AGENT_REGISTER  *)
(* for the module's class, a failed one registers nothing, a shutdown runs *)
(* SC_AGENT_UNREGISTER.                                                    *)
ModuleCall(s, c) ==
  CASE c[1] = "init" /\ InitSucceeded(c[2]) -> RegisterStep(s, AgentOf[c[2]])
    [] c[1] = "init" -> s
    [] OTHER -> UnregisterStep(s, AgentOf[c[2]])

(* The agent state after the module calls cs, in order.                    *)
AfterCalls(cs) ==
  LET s == FoldLeft(ModuleCall,
                    [events |-> events, nextId |-> nextId, registered |-> registered], cs)
  IN /\ s.nextId <= MaxRegistrations
     /\ events' = s.events
     /\ nextId' = s.nextId
     /\ registered' = s.registered

(* sc_ext_initialize: every module call of this cycle is new.              *)
Initialize ==
  /\ Ext!Initialize
  /\ AfterCalls(calls')

InitializeNoExtensions ==
  /\ Ext!InitializeNoExtensions
  /\ UNCHANGED agents

(* sc_ext_shutdown: the shutdown calls appended to this cycle's calls.     *)
Shutdown ==
  /\ Ext!Shutdown
  /\ AfterCalls(SubSeq(calls', Len(calls) + 1, Len(calls')))

Init == Ext!Init /\ Ag!Init

Next == Initialize \/ InitializeNoExtensions \/ Shutdown

Spec == Init /\ [][Next]_vars

-----------------------------------------------------------------------------
(* While the memory is up, the agent class of every module whose           *)
(* initialise succeeded (still open in modules_priority_list) keeps its    *)
(* ScEvent, so the actions it handles get handled: another module's        *)
(* failed initialise, or its shutdown, does not unsubscribe it.            *)
ModuleAgentsSubscribed ==
  up => \A i \in 1..Len(list) :
          list[i].open => \E e \in events : e.agent = AgentOf[list[i].path]
=============================================================================
