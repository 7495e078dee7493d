# TLA+ models of sc-machine memory, agents and tools

This directory holds TLA+ models of the parts of this repository's `src/`
that have state and control worth model checking, the TLC configurations
that check them, and `PROJECT.json`, which maps every model definition to
the source lines it translates and lists the runs, mutants, findings and
hazards.

## The system and its parts

The sources under `src/` are a slice of sc-machine. The element store,
link contents, dictionary, iterators and template engine (spec C1-C6) are
*not* in `src/`; only code that uses them is.

| Part | Source | State | Operations |
|---|---|---|---|
| Agents | `sc-memory/sc_agent.hpp` | static `m_events` list shared by all agent classes | `Register`, `Unregister`, the plain-agent callback (`OnEvent` and hooks), the action-agent callback (type/class check, `OnEvent`, result arc, `question_finished` arc) |
| Extension loader | `sc-core/src/sc_memory_ext.c` | global `modules_priority_list` of `sc_module_info` | `sc_ext_initialize` (collect, sort, init with failure handling), `sc_ext_shutdown` (reverse sort, shut, free) |
| Transactions | `sc-core/src/sc-store/sc-transaction/*` | `sc_transaction` with buffer, element list, monitors, flags | `new` (stepwise allocation, failure paths), `destroy`; commit/rollback/apply/merge/clear are empty, validate returns FALSE |
| Dictionary helpers | `sc-core/sc-store/sc-fs-storage/sc_dictionary_fs_storage_private.h` | none (pure) | char-to-child-index map, term splitting with duplicate removal |
| JSON events manager | `sc-server/.../sc_memory_json_events_manager.hpp` | singleton, id counter, id-to-event map | `GetInstance`, `Add`, `Remove`, `Get`, destructor |
| GWF translator | `sc-builder/src/gwf_translator.cpp` | a temporary `.scs` file | read GWF, convert, write temp file, translate, remove |
| Python binding | `sc-memory/cpp/python/sc_python_module.cpp` | none of its own | iterator argument dispatch, link content typed views |
| Iterator utils | `sc-kpm/sc-agents-common/utils/IteratorUtils.cpp` | none of its own | reads and arc creation through 3/5-iterators |

**Interactions.** Modules loaded by the extension loader register agents in
their initialise function and unregister them in their shutdown function;
the memory's event dispatcher (spec 4.7, not in `src/`) calls the agent
callbacks when arcs are created; the callbacks create arcs, which raise more
events. The loader's call order is therefore the order in which agents
subscribe and unsubscribe. `ModuleAgents` models this interaction.

**Hard behaviours.** Several agent classes share one subscription list; an
event may be queued for a subscription that is deleted before it is
delivered; several agents listen on the same keynode and only a class check
separates them; a module initialise may fail half-way through the module
list; shutdown must mirror initialisation; fixed-width counters and
character arithmetic wrap; a translation may throw between writing and
removing a temporary file.

## Modules

### AgentDispatch (agents + the dispatcher they run on)

State: `arcs` (the arcs of memory as `<<source, type, target>>`), `events`
(`m_events`: live subscriptions with an identity, an agent class and an
address), `nextId`, `registered` (ghost: classes whose `Register` ran and
whose `Unregister` has not), `queue` (the dispatcher's FIFO of
AddOutputEdge events), `worker` (the callback in progress, with a program
counter `result`/`finish`).

Actions: `Register(A)` and `Unregister(A)` translate `ScAgent::Register`
(a new ScEvent on every call, with no check that the class is already
registered) and `Unregister` (which clears the whole shared list, as the
code does). Who calls `Register` is a constant of the model:
with `RegisterOnce` the callers register a class only while it is not
registered, as the extension modules' initialise/shutdown pairs do; without
it any code may call it again; `Classify` and `Initiate` are the client creating the class arc and
the initiation arc (spec-modelled, the client is not in `src/`), in
either order: the callback reads the class arc only when it runs
(`sc_agent.hpp:361`), so an action initiated first and delivered before
its class arc exists is rejected and stays initiated;
`Deliver` pops the queue and runs the callback. For a plain agent
(`PlainAgents`, an `ScAgent<AddOutputEdge>`), `PlainCallback` runs
`OnEvent` and the hook matching its result, and writes no arc. For an
action agent, the callback runs up to `OnEvent`, with its three outcomes
(subscription gone, guard fails and returns
`SC_RESULT_ERROR` writing nothing, guard passes and `OnEvent` returns OK,
NO or an error); `WriteResult` and `WriteFinished` are the callback's two
arc creations, separate steps because each creation is visible to other
threads and raises its own events. Every arc creation appends the events of
the subscriptions on its source (`CreateArc`).

Properties: `FinishedHasResult` (a finished action already has its result
class), `AtMostOneResult` (the class check keeps two agents from handling
one action; it fails when a class is registered twice, see
`agent_register_twice`), `PendingActionFinished` (liveness: a queued event of a live
subscription for an action already in the agent's class ends in a finished action,
unless the agent is unsubscribed). What unregistering one class does to the
others is checked where it happens in practice, in `ModuleAgents` below.


Refinement: `ActionLifecycle` is what a client of the protocol is
promised, with no agents or dispatcher: an action is classified and
initiated once, in either order, answered with one result class only while
it is initiated and in its class, then finished. `AgentDispatch` maps
onto it by reading each action's phase and result off the arcs
(`PhaseOf`, `ResultOf`, and the class arc for `classified`); `ImplementsActionLifecycle` checks
`Lifecycle!Spec` as a property of the detailed specification. Register,
Unregister and Deliver are stuttering steps of the abstract spec;
`WriteResult` is `Answer` and `WriteFinished` is `Finish`.

### ExtModules (extension loader)

State: `list` (`modules_priority_list`, each entry path, priority, and
whether `ptr` is still non-null), `up`, `calls` (the calls into module code
this cycle, in order), `cycles`. The file system is constants: the
extension directories in argument order, which are directories, what each
lists, and what each file is (module, not a module, missing a symbol).

Actions: `InitializeNoExtensions` (the NULL-directories early return),
`Initialize` (collection with `g_list_insert_sorted` under
`sc_priority_less`, then each module's init, each of which may fail; a
failing module is shut down and closed at once), `Shutdown` (sort with
`sc_priority_great`, shut every module whose `ptr` is non-null, free).

Properties: `ModuleCallsNested` (init/shut calls nest like a stack, nothing
shut twice, nothing left initialised after shutdown) and
`InitInPriorityOrder` (ascending priority, no-priority modules last, equal
priorities by path across directories).

### ModuleAgents (extension modules that register agents)

Composes `ExtModules` and the registration part of `AgentDispatch`
(named instances `Ext` and `Ag`, as in the loader-plus-component specs of
the references). An extension module's initialise runs
`SC_AGENT_REGISTER` for its agent class and its shutdown runs
`SC_AGENT_UNREGISTER` (`sc_agent.hpp:412-435`; the module bodies are not
in `src/`). The loader calls modules synchronously, so each loader action
(`Initialize`, `InitializeNoExtensions`, `Shutdown`) is the `ExtModules`
action together with `AfterCalls`: the fold of `ModuleCall` over the
module calls the step made, in order. `RegisterStep` pushes one ScEvent.
`UnregisterStep` clears all of `m_events`, whatever class it is called for.
A failed initialise is taken to fail before it registers anything. The
clients and the dispatcher are left out because they do not touch the
subscriptions.

Property: `ModuleAgentsSubscribed` says that while the memory is up, every
module whose initialise succeeded still has its agent subscribed. It is
violated. A later module's initialise fails, the loader calls that
module's shutdown at once (`sc_memory_ext.c:183`), and its unregister
deletes the first module's ScEvent. With an unregister that removes only
its own class's events, the same configuration passes (37 states).

### Transaction (transaction object)

State: `heap` (blocks still allocated, each `<<slot, allocation site>>`),
`txn` (per caller variable: none, live, failed or destroyed, its id, and
which list its `elements` field points to). `New(s, id, out, bufOk)` is
`sc_transaction_new` as a whole: `out` is where it stops (NULL id, one of
the three `sc_mem_new` calls failing, or success), `Allocated` and
`FreedOnFailure` are the blocks it allocated and the `sc_mem_free` calls of
its failure paths; success ends with `sc_list_init(&txn->elements)`, which
allocates a new list over the pointer to the first. `Destroy(s)` is
`sc_transaction_destroy`. The remaining operations have empty bodies and
change no state.

Properties: `FailedNewFreesAll` (action property: a NULL return leaves the
heap as it was) and `DestroyReleasesAll` (action property: destroy frees
every block of the transaction; violated).

### DictionaryTerms (term splitting of the fs dictionary)

State: the copied string, strtok's saved position, the current term, the
returned list, the terms the `unique_terms` dictionary holds, and a program
counter. `Call` is the first `strtok`, `Iterate` one turn of the while loop
(duplicate check, push and append, next `strtok`), `Return` the exit.
`Strtok`, `TermStart`, `DelimAfter` and `NextPos` are `strtok` as C defines
it; `Delims` is the delimiter set strtok actually sees, computed from the
bytes of the literal up to its embedded NUL. `CharIndex` and `ChildrenSize`
are `_sc_char_to_sc_int` and `_sc_dictionary_children_size` in `sc_uint8`
arithmetic (`% 256`).

Properties: `TermsAreUniqueRuns` compares the result, for every input of
up to four bytes, with a reference definition (`Runs`: the distinct maximal
runs of non-delimiters, in order of first occurrence).
`TermsSplitOnListedDelimiters` asks the same for the delimiters the literal
lists (violated) and `IndexInChildren` asks that every byte of a term
indexes one of the trie's children (violated for 0x7F).

### GwfTranslator (sc-builder GWF translation)

State: what lies at each `<name>.gwf.scs` path (nothing, a file that was
there before, a truncated text, the full text), what each `TranslateImpl`
returned, and the contents the SCs translator was handed. `TranslateImpl(f,
out, status)` is the whole function for each point at which it can stop:
XML read, empty XML, GWF conversion, file open, write, close, the SCs
translator returning a status, or throwing.

Property: `NoTemporaryLeft` (violated: the file stays when the SCs
translator throws). The module has no passing run: `TranslateImpl` is one
sequential function over independent files, and what it guarantees
besides cleanup (a truncated file is removed before anything reads it) is
the single check at line 51, which a property would only restate.

### PyBinding (Python binding: link contents, iterator arguments, identifiers, templates)

State: the content of each link (the format it was written in and its size
in bytes), who wrote it (a Python value, abstracted to its kind and, for a
str, its length, or the C++ API), whether each system identifier is
bound, the number of items in one Python `Template`, the last call if it
was a read or an iterator call (each other call resets these records), and
whether the last call raised a Python exception.
`SetLinkContent(l, v)` is `_context_setLinkContent`: None, an object no
`extract` accepts or an invalid address return False; an int too large
for int64 passes `extract<int64_t>::check` and throws OverflowError in
`_set_contentT`'s conversion, before `SetLinkContent` is called; an
int or bool is stored as 8 bytes of int64, a float as 8 bytes of double, a
str as its bytes (`Stored`). `GetLinkContent(l, view)` is
`_context_getLinkContent` followed by one of the views `AsString`, `AsInt`,
`AsFloat` (`PyLinkContent::AsDouble`): the numeric views throw unless the
content is 8 bytes, then read those bytes as their type (`ViewOf`).
`CppSetLinkContent` writes the fixed-width formats `test_contents.cpp`
uses (spec-modelled: the C++ API is not in `src/`). `Iterator3`/`Iterator5`
record the overload `_context_iterator3`/`_context_iterator5` pick for
every combination of ScAddr, ScType and other arguments.
`HelperResolveSysIdtf(x, t, n)` is `_context_helperResolveSysIdtf`: a
name that is not a str, or a type that is neither None nor an ScType,
raises ExceptionInvalidType; otherwise the dictionary's `resolve` (spec
4.3, spec-modelled as `ResolvedIdtf`) binds the name. With None the type
is `ScType()`, for which the spec does not say whether a node is created,
so the model lets either happen. `TemplateTriple(ps)` is `PyTemplate::Triple`
(3 parameters) and `TripleWithRelation` (5): `ResolveTemplateParam`
turns each parameter into an item or throws, and all are resolved before
`ScTemplate::Triple` is called. The template is abstracted to its item
count; what the items are is the template engine's business, not in `src/`.

Properties: `BindingRoundTrip` (a value stored through the binding reads
back through the view of its own Python type), `IteratorDispatch` (the
overload is the one whose fixed positions are exactly the ScAddr
arguments, or None), and the action property
`RaisingCallsLeaveMemory`: a step that raises a Python exception changes
no link content, identifier binding or template item. Its mutant checks
the type argument of `HelperResolveSystemIdtf` after the resolve.

## Runs

| Run | Config | Expect | Shows |
|---|---|---|---|
| agent_dispatch | `MC_AgentDispatch.cfg` | pass | two action agents with distinct classes and a plain agent, two actions, three registrations: result before finished, one result per action, pending actions get finished, and the whole implements `ActionLifecycle` |
| module_agents_failed_init | `MC_ModuleAgents.cfg` | violation | p1 initialises and registers A1; p2's initialise fails, its shutdown's `Unregister<A2>` clears `m_events`, and A1 is left registered with no subscription |
| ext_modules | `MC_ExtModules.cfg` | pass | seven files over three directories (one not a directory, one file not a module, one module without priority, equal priorities in both directories), three cycles, every init-failure pattern |
| txn_lifecycle | `MC_Transaction.cfg` | pass | three transaction variables, every failure point of `sc_transaction_new`: failures free what they allocated |
| txn_destroy_leak | `MC_Transaction_destroy.cfg` | violation | create then destroy leaves the first element list (lost at line 33), the buffer and the new list allocated |
| dict_terms | `MC_DictionaryTerms.cfg` | pass | all 1555 strings of up to four bytes over `a b , ( _` and space: the loop returns the reference split |
| dict_listed_delims | `MC_DictionaryTerms_delims.cfg` | violation | `"("` gives the term `"("`: the literal's `\0` hides `()[]_` from strtok |
| dict_char_index | `MC_DictionaryTerms_index.cfg` | violation | byte 0x7F indexes child 255 of a 255-child node |
| gwf_temp_left | `MC_GwfTranslator_temp.cfg` | violation | the SCs translator throwing leaves `<name>.gwf.scs` behind |
| py_binding | `MC_PyBinding.cfg` | pass | one valid link and the empty address, every Python value kind, str of 3 and 8 bytes, every C++ format, all 27 + 243 iterator argument combinations, one identifier resolved with every argument class, triples of str and non-convertible parameters up to 8 items: round trip and dispatch hold, and a call that raises changes no memory |
| agent_register_twice | `MC_AgentDispatch_twice.cfg` | violation | `Register<A1>` called twice (nothing in `ScAgent::Register` prevents it): both subscriptions deliver the one initiation, and the action gets two result classes |

Every property of a passing run has a mutant in `PROJECT.json`: a
plausible bug in a mapped definition that TLC must catch.

**Bounds.** AgentDispatch: 2 action agents and a plain one, 2 actions, 2 classes, 3 ScEvent
identities, enough for register, unregister, re-register and a stale
queued event of a deleted subscription; both edge types. ExtModules: the
directory layout above exercises every branch of collection and both sort
keys; three cycles exercise shutdown of a list that had failures and a
re-initialise after shutdown. ModuleAgents: two modules of different
priority in one directory, two cycles; the violation is one initialise
away, and two modules is the fewest that show it. Transaction: three slots let live, failed
and destroyed transactions coexist; every failure point is enumerated.
DictionaryTerms: strings of up to four bytes contain leading, trailing,
doubled delimiters and repeated terms (`"a,a"`, `" a b"`); the violation
runs need only one or two bytes. GwfTranslator: each file's translation is
one call, so three files with every outcome cover every interleaving of
results and preexisting files. PyBinding: each call depends only on the
link's current content, so one valid link (and the invalid address) with
every writer and view covers every pair of write and read; the 8-byte str
is there because it passes the numeric views' size check. One
identifier is enough because a resolve touches only its own name; the
template parameters are a class each check accepts and one none does
(the four accepted classes behave alike for what is checked), and 8
items leave room for a Triple followed by a TripleWithRelation.

**Fairness.** Weak fairness on the dispatcher's steps only (`Deliver`,
`WriteResult`, `WriteFinished`): the dispatcher thread runs whenever it has
work (spec 4.7). Clients and module registration get none: they may stop.

## Not modelled, and why

The element store, link contents, dictionary, iterators and template
engine are not in `src/`; the SCs parser is only present through its tests.
Logging, `OnSuccess`/`OnError` hooks (empty by default) and the agent's
user-supplied `OnEvent` body are data: `OnEvent` is a nondeterministic
result.
The iterator utilities only read through 3/5-iterators and create arcs in
an element store that is not in `src/`. Their one real hazard is
`addSetToOutline` with `outline == set`, which creates arcs in the list
it iterates. Whether that loop ends depends on how the iteration kernel
treats arcs created while it iterates, and spec.md leaves that open
(4.4, and the open question in 9).
The JSON events manager is sequential bookkeeping over a 64-bit counter;
the request threading that could make it race is in the server, not in
`src/`. The transaction's empty-bodied operations change no state.
`g_module_supported() == FALSE` is a platform constant and not modelled.
The rest of the Python binding (`TemplateGenParams`, `HelperGenTemplate`,
`HelperSearchTemplate`, `HelperBuildTemplate`, the search and generation
result wrappers, events, `ScAddrFromHash`) forwards to the template
engine or the `ScMemoryContext` API without checks of its own; modelling
it would mean modelling that engine from the spec alone. The GIL
behaviour of `ReleaseGILPolicy` is defined outside `src/`, so every
binding call is taken as one atomic step.

## Plan

Done: AgentDispatch with its abstraction ActionLifecycle, ExtModules,
Transaction, DictionaryTerms, GwfTranslator, the checking parts of the
Python binding (PyBinding: link contents, iterator dispatch, system
identifiers, template triples), and the composition of the loader with
agent registration (ModuleAgents). Left: the iterator utilities, which
wait on a decision in spec.md about iterating while the iterated list is
mutated (see "Not modelled").
