---------------------------- MODULE AgentDispatch ----------------------------
(***************************************************************************)
(* Action agents of sc-memory/sc-memory/sc_agent.hpp, run by the event     *)
(* dispatcher.                                                             *)
(*                                                                         *)
(* An agent class is registered (ScAgent::Register) on the action-         *)
(* initiation keynode: one ScEvent per listened address is pushed into     *)
(* the static list ScAgentAbstract::m_events, which every agent class      *)
(* shares.  A client adds an access arc from the initiation keynode to an  *)
(* action; the dispatcher delivers the AddOutputEdge event to the          *)
(* callback of ScActionAgent::GetCallback, which checks the arc type and   *)
(* the action class, runs OnEvent, and marks the action with one result    *)
(* class arc and then the question_finished arc.                           *)
(*                                                                         *)
(* The graph store and the event queue are not in this repository's        *)
(* sources: arcs are a set of <<source, type, target>> triples and the     *)
(* dispatcher follows spec.md 4.7 (one dispatcher, FIFO order, queued      *)
(* events of a deleted subscription are dropped, an in-flight callback     *)
(* runs to completion).                                                    *)
(***************************************************************************)
EXTENDS Naturals, Sequences, FiniteSets, SequencesExt

CONSTANTS
  Agents,           \* agent classes
  PlainAgents,      \* those that are a plain ScAgent<AddOutputEdge>; the
                    \* others are an ScActionAgent<actionClass>
  Actions,          \* action nodes created by clients
  Classes,          \* action class keynodes
  ActionClassOf,    \* [Agents -> Classes \cup {EmptyClass}]: template argument actionClass
  ClassOfAction,    \* [Actions -> Classes]: the class a client puts an action into
  Initiated,        \* the keynode the agents listen on (action initiation)
  EmptyClass,       \* ScKeynodes::kEmptyClass: an invalid class, no class check
  MaxRegistrations, \* bound on the number of ScEvent objects ever created
  RegisterOnce      \* the callers register a class only while it is not
                    \* registered, as the extension modules' initialise and
                    \* shutdown pairs do

ASSUME PlainAgents \subseteq Agents
ASSUME ActionClassOf \in [Agents -> Classes \cup {EmptyClass}]
ASSUME ClassOfAction \in [Actions -> Classes]
ASSUME MaxRegistrations \in Nat
ASSUME RegisterOnce \in BOOLEAN

(* Keynodes the callback writes to (ScKeynodes::kQuestionFinished...).      *)
Finished == "question_finished"
ResultClassOf == [OK    |-> "question_finished_successfully",
                  NO    |-> "question_finished_unsuccessfully",
                  ERROR |-> "question_finished_with_error"]
ResultClasses == {ResultClassOf[r] : r \in DOMAIN ResultClassOf}

(* sc_result of OnEvent: SC_RESULT_OK, SC_RESULT_NO, any error code.        *)
Results == DOMAIN ResultClassOf
(* Arc types that matter to the callback: access arcs and the others.       *)
EdgeTypes == {"Access", "Common"}
Nodes == {Initiated, Finished} \cup Classes \cup ResultClasses \cup Actions
None == "none"

VARIABLES
  arcs,        \* the arcs of sc-memory, <<source, type, target>>
  events,      \* ScAgentAbstract::m_events: the live ScEvent subscriptions
  nextId,      \* number of ScEvent objects created so far (their identities)
  registered,  \* agent classes whose Register ran and whose Unregister has not
  queue,       \* the dispatcher's queue of AddOutputEdge events
  worker       \* the callback the dispatcher is running, if any

vars == <<arcs, events, nextId, registered, queue, worker>>

Idle == [pc |-> "idle", agent |-> None, action |-> None, result |-> None]

Event == [sub : 0..MaxRegistrations, agent : Agents, trg : Nodes, etype : EdgeTypes]

TypeOK ==
  /\ arcs \subseteq Nodes \X EdgeTypes \X Nodes
  /\ events \subseteq [id : 0..(MaxRegistrations - 1), agent : Agents, addr : Nodes]
  /\ nextId \in 0..MaxRegistrations
  /\ registered \subseteq Agents
  /\ queue \in Seq(Event)
  /\ worker \in {Idle} \cup [pc : {"result", "finish"}, agent : Agents,
                             action : Nodes, result : Results]

-----------------------------------------------------------------------------
(* Creating an arc in sc-memory: every subscription on its source gets an  *)
(* AddOutputEdge event with the arc's target as otherAddr.                 *)
CreateArc(src, type, trg) ==
  /\ arcs' = arcs \cup {<<src, type, trg>>}
  /\ queue' = queue \o SetToSeq({[sub |-> e.id, agent |-> e.agent,
                                  trg |-> trg, etype |-> type] :
                                 e \in {s \in events : s.addr = src}})

(* The ScEvent that Register creates for an agent class on the initiation  *)
(* keynode, with the identity id.                                          *)
NewEvent(id, A) == [id |-> id, agent |-> A, addr |-> Initiated]

(* Mutant: the new ScEvent gets an identity one past the counter.          *)
RegisterIdPastCounter(A) ==
  /\ nextId < MaxRegistrations
  /\ events' = events \cup {[id |-> nextId + 1, agent |-> A, addr |-> Initiated]}
  /\ nextId' = nextId + 1
  /\ registered' = registered \cup {A}
  /\ UNCHANGED <<arcs, queue, worker>>

(* ScAgent::Register<AgentClass>(ctx, addrs...): a new ScEvent per address  *)
(* is pushed to m_events, whether or not the class is registered already. *)
Register(A) ==
  /\ nextId < MaxRegistrations
  /\ events' = events \cup {NewEvent(nextId, A)}
  /\ nextId' = nextId + 1
  /\ registered' = registered \cup {A}
  /\ UNCHANGED <<arcs, queue, worker>>

(* ScAgent::Unregister<AgentClass>(ctx): deletes every event of m_events   *)
(* and clears the list.                                                     *)
Unregister(A) ==
  /\ A \in registered
  /\ events' = {}
  /\ registered' = registered \ {A}
  /\ UNCHANGED <<arcs, nextId, queue, worker>>

(* A client puts an action into its class, and initiates it once with an   *)
(* arc of some type from the initiation keynode.  Nothing orders the two:  *)
(* the callback reads the class arc only when it runs.                     *)
Classify(a) ==
  /\ <<ClassOfAction[a], "Access", a>> \notin arcs
  /\ CreateArc(ClassOfAction[a], "Access", a)
  /\ UNCHANGED <<events, nextId, registered, worker>>

Initiate(a, type) ==
  /\ \A t \in EdgeTypes : <<Initiated, t, a>> \notin arcs
  /\ CreateArc(Initiated, type, a)
  /\ UNCHANGED <<events, nextId, registered, worker>>

-----------------------------------------------------------------------------
(* Mutant: the callback checks the arc type but not the action class.     *)
AcceptsAnyAction(ev) == ev.etype = "Access"

(* The guard of the ScActionAgent callback: the arc is an access arc and,  *)
(* when the agent has a valid action class, the action belongs to it.      *)
Accepts(ev) ==
  /\ ev.etype = "Access"
  /\ ActionClassOf[ev.agent] # EmptyClass =>
       <<ActionClassOf[ev.agent], "Access", ev.trg>> \in arcs

(* ScAgent::GetCallback of a plain agent: OnEvent, then OnSuccess,         *)
(* OnUnsuccess or OnError by its result, all user code, and the result is  *)
(* returned; the callback creates no arc and ends at once.                 *)
PlainCallback == UNCHANGED worker

(* Mutant: a callback whose guard fails still records SC_RESULT_ERROR on   *)
(* the action, with its result and finished arcs.                          *)
DeliverErrorOnReject ==
  /\ worker = Idle
  /\ queue # <<>>
  /\ queue' = Tail(queue)
  /\ LET ev == Head(queue) IN
       \/ /\ \A e \in events : e.id # ev.sub
          /\ UNCHANGED worker
       \/ /\ \E e \in events : e.id = ev.sub
          /\ ev.agent \in PlainAgents
          /\ PlainCallback
       \/ /\ \E e \in events : e.id = ev.sub
          /\ ev.agent \notin PlainAgents
          /\ ~Accepts(ev)
          /\ worker' = [pc |-> "result", agent |-> ev.agent,
                        action |-> ev.trg, result |-> "ERROR"]
       \/ /\ \E e \in events : e.id = ev.sub
          /\ ev.agent \notin PlainAgents
          /\ Accepts(ev)
          /\ \E r \in Results :
               worker' = [pc |-> "result", agent |-> ev.agent,
                          action |-> ev.trg, result |-> r]
  /\ UNCHANGED <<arcs, events, nextId, registered>>

(* The dispatcher takes the head of the queue.  An event of a deleted      *)
(* subscription is dropped.  Otherwise the callback runs.  A plain         *)
(* agent's callback (ScAgent::GetCallback) runs OnEvent and the hook that  *)
(* matches its result, and writes no arc.  An action agent's callback      *)
(* returns SC_RESULT_ERROR at once when the guard fails, else              *)
(* OnEvent(otherAddr) returns some result.                                 *)
Deliver ==
  /\ worker = Idle
  /\ queue # <<>>
  /\ queue' = Tail(queue)
  /\ LET ev == Head(queue) IN
       \/ /\ \A e \in events : e.id # ev.sub
          /\ UNCHANGED worker
       \/ /\ \E e \in events : e.id = ev.sub
          /\ ev.agent \in PlainAgents
          /\ PlainCallback
       \/ /\ \E e \in events : e.id = ev.sub
          /\ ev.agent \notin PlainAgents
          /\ ~Accepts(ev)
          /\ UNCHANGED worker
       \/ /\ \E e \in events : e.id = ev.sub
          /\ ev.agent \notin PlainAgents
          /\ Accepts(ev)
          /\ \E r \in Results :
               worker' = [pc |-> "result", agent |-> ev.agent,
                          action |-> ev.trg, result |-> r]
  /\ UNCHANGED <<arcs, events, nextId, registered>>

(* Mutant: the error branch forgets its result arc.                        *)
WriteResultNotOnError ==
  /\ worker.pc = "result"
  /\ IF worker.result = "ERROR"
       THEN UNCHANGED <<arcs, queue>>
       ELSE CreateArc(ResultClassOf[worker.result], "Access", worker.action)
  /\ worker' = [worker EXCEPT !.pc = "finish"]
  /\ UNCHANGED <<events, nextId, registered>>

(* OnSuccess / OnUnsuccess / OnError, then the arc from the matching        *)
(* result class to the action.                                              *)
WriteResult ==
  /\ worker.pc = "result"
  /\ CreateArc(ResultClassOf[worker.result], "Access", worker.action)
  /\ worker' = [worker EXCEPT !.pc = "finish"]
  /\ UNCHANGED <<events, nextId, registered>>

(* Mutant: only a successful agent marks the action finished.             *)
WriteFinishedOnlyOnSuccess ==
  /\ worker.pc = "finish"
  /\ IF worker.result = "OK"
       THEN CreateArc(Finished, "Access", worker.action)
       ELSE UNCHANGED <<arcs, queue>>
  /\ worker' = Idle
  /\ UNCHANGED <<events, nextId, registered>>

(* The arc from question_finished to the action; the callback returns.     *)
WriteFinished ==
  /\ worker.pc = "finish"
  /\ CreateArc(Finished, "Access", worker.action)
  /\ worker' = Idle
  /\ UNCHANGED <<events, nextId, registered>>

-----------------------------------------------------------------------------
Init ==
  /\ arcs = {}
  /\ events = {}
  /\ nextId = 0
  /\ registered = {}
  /\ queue = <<>>
  /\ worker = Idle

Next ==
  \/ \E A \in Agents : (RegisterOnce => A \notin registered) /\ Register(A)
  \/ \E A \in Agents : Unregister(A)
  \/ \E a \in Actions : Classify(a)
  \/ \E a \in Actions, t \in EdgeTypes : Initiate(a, t)
  \/ Deliver
  \/ WriteResult
  \/ WriteFinished

(* Register is called by the modules' initialise functions (RegisterOnce:  *)
(* once until their shutdown unregisters) or by any code (otherwise).      *)
(* The dispatcher thread runs whenever it has work; clients and module     *)
(* (un)registration get no fairness.                                       *)
Fairness ==
  /\ WF_vars(Deliver)
  /\ WF_vars(WriteResult)
  /\ WF_vars(WriteFinished)

Spec == Init /\ [][Next]_vars /\ Fairness

-----------------------------------------------------------------------------
IsFinished(a) == <<Finished, "Access", a>> \in arcs
ResultsOf(a) == {c \in ResultClasses : <<c, "Access", a>> \in arcs}

(* A client that sees an action in question_finished (the arc the callback *)
(* writes last) always finds its result class already there: the callback *)
(* writes the result arc before the finished arc.                          *)
FinishedHasResult ==
  \A a \in Actions : IsFinished(a) => ResultsOf(a) # {}

(* An action gets at most one result class (spec 4.7: the outcome is       *)
(* recorded against the originating action): among all registered agents, *)
(* only the one whose action class the action belongs to handles it, the   *)
(* others' callbacks return at the class check without writing anything.   *)
AtMostOneResult ==
  \A a \in Actions : Cardinality(ResultsOf(a)) <= 1

(* An AddOutputEdge event of a live subscription, waiting in the queue, for *)
(* an action already in the agent's class, leads to the action being      *)
(* finished, unless the agent's subscriptions are deleted first.           *)
Subscribed(A) == \E e \in events : e.agent = A
Pending(A, a) ==
  \E i \in 1..Len(queue) :
    /\ \E e \in events : e.id = queue[i].sub
    /\ queue[i].agent = A
    /\ queue[i].trg = a
    /\ queue[i].etype = "Access"
    /\ <<ActionClassOf[A], "Access", a>> \in arcs
PendingActionFinished ==
  \A A \in Agents, a \in Actions :
    Pending(A, a) ~> (IsFinished(a) \/ ~Subscribed(A))

(* The agents, the dispatcher and the callback implement the action        *)
(* lifecycle a client sees: phases read off the arcs of each action, the   *)
(* result its result-class arc.  A result is written only for an           *)
(* initiated action that has none and is in its class when it is handled,  *)
(* and the finished mark only after it.                                    *)
PhaseOf(a) ==
  CASE IsFinished(a) -> "finished"
    [] \E t \in EdgeTypes : <<Initiated, t, a>> \in arcs -> "initiated"
    [] OTHER -> "idle"
ResultOf(a) == IF ResultsOf(a) = {} THEN None ELSE CHOOSE c \in ResultsOf(a) : TRUE
Lifecycle == INSTANCE ActionLifecycle WITH
               Results <- ResultClasses,
               phase <- [a \in Actions |-> PhaseOf(a)],
               classified <- [a \in Actions |-> <<ClassOfAction[a], "Access", a>> \in arcs],
               result <- [a \in Actions |-> ResultOf(a)]
ImplementsActionLifecycle == Lifecycle!Spec
=============================================================================
