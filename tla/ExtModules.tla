----------------------------- MODULE ExtModules -----------------------------
(***************************************************************************)
(* Loading, initialisation and shutdown of extension modules, from         *)
(* sc-memory/sc-core/src/sc_memory_ext.c.                                  *)
(*                                                                         *)
(* sc_ext_initialize collects every file of every extension directory      *)
(* that opens as a module and exports an initialise and a shutdown         *)
(* symbol into the global list modules_priority_list, sorted by load       *)
(* priority then path, and calls each module's initialise function in      *)
(* that order; a module whose initialise fails is shut down and closed at  *)
(* once.  sc_ext_shutdown sorts the list the other way round, shuts down   *)
(* every module still open, and frees the list.                            *)
(*                                                                         *)
(* The memory that calls these two functions alternates them (memory       *)
(* initialise, memory shutdown); that caller is not in this repository's   *)
(* sources.  Each call is one action: nothing runs concurrently with it.   *)
(***************************************************************************)
EXTENDS Naturals, Sequences, SequencesExt, TLC

CONSTANTS
  Paths,        \* files found in extension directories, as built paths
  PathRank,     \* [Paths -> Nat], injective: the order strcmp gives paths
  Dirs,         \* directories
  ExtDirs,      \* Seq(Dirs): the extension_directories argument
  IsDir,        \* [Dirs -> BOOLEAN]: sc_fs_is_directory and g_dir_open succeed
  DirFiles,     \* [Dirs -> SUBSET Paths]: what g_dir_read_name lists
  Kind,         \* [Paths -> FileKinds]: what g_module_open/g_module_symbol find
  Priority,     \* [Paths -> 0..MaxPriority \cup {NoPriority}]: sc_module_load_priority()
  NoPriority,   \* the module exports no sc_module_load_priority
  MaxPriority,  \* SC_MAXUINT32
  MaxCycles     \* bound on memory initialise/shutdown cycles

(* "module": opens and has both symbols; the others are freed at once.     *)
FileKinds == {"module", "notModule", "noInit", "noShutdown"}

ASSUME /\ PathRank \in [Paths -> Nat]
       /\ \A p, q \in Paths : p # q => PathRank[p] # PathRank[q]
       /\ ExtDirs \in Seq(Dirs)
       /\ IsDir \in [Dirs -> BOOLEAN]
       /\ DirFiles \in [Dirs -> SUBSET Paths]
       /\ Kind \in [Paths -> FileKinds]
       /\ Priority \in [Paths -> (0..MaxPriority) \cup {NoPriority}]

VARIABLES
  list,    \* modules_priority_list: [path, priority, open] (open: ptr # NULL)
  up,      \* sc_ext_initialize has run and sc_ext_shutdown has not
  calls,   \* calls into module code this cycle: <<"init" | "shut", path>>
  cycles   \* memory initialise/shutdown cycles begun

vars == <<list, up, calls, cycles>>

ModuleInfo == [path : Paths, priority : 0..MaxPriority, open : BOOLEAN]

TypeOK ==
  /\ list \in Seq(ModuleInfo)
  /\ up \in BOOLEAN
  /\ calls \in Seq({"init", "shut"} \X Paths)
  /\ cycles \in 0..MaxCycles

-----------------------------------------------------------------------------
(* Mutant: a module without a priority symbol gets one past SC_MAXUINT32.  *)
ModulePriorityPastMax(p) ==
  IF Priority[p] = NoPriority THEN MaxPriority + 1 ELSE Priority[p]

(* The priority stored for a module: sc_module_load_priority() if the      *)
(* module exports it, SC_MAXUINT32 otherwise.                              *)
ModulePriority(p) ==
  IF Priority[p] = NoPriority THEN MaxPriority ELSE Priority[p]

(* Mutant: the path tie-break compares the paths the other way round.      *)
PriorityLessPathSwapped(a, b) ==
  \/ a.priority < b.priority
  \/ a.priority = b.priority /\ PathRank[b.path] < PathRank[a.path]

(* sc_priority_less: by priority, then by strcmp of the paths.             *)
PriorityLess(a, b) ==
  \/ a.priority < b.priority
  \/ a.priority = b.priority /\ PathRank[a.path] < PathRank[b.path]

(* sc_priority_great: sc_priority_less with its arguments swapped.         *)
PriorityGreat(a, b) == PriorityLess(b, a)

(* _sc_ext_collect_extensions_from_directory over every directory: the     *)
(* files of a directory that is not one, or cannot be opened, are skipped; *)
(* a file that is not a module or lacks a symbol is freed.                 *)
Collected ==
  LET FromDir(d) ==
        IF IsDir[d]
          THEN SetToSeq({[path |-> p, priority |-> ModulePriority(p), open |-> TRUE] :
                         p \in {q \in DirFiles[d] : Kind[q] = "module"}})
          ELSE <<>>
  IN FlattenSeq([i \in 1..Len(ExtDirs) |-> FromDir(ExtDirs[i])])

(* Mutant: a module whose initialise fails is shut down but stays open.    *)
AfterInitKeepOpen(m, ok) == m

(* The module after its initialise call: on failure, shut_func is called,  *)
(* the library closed and ptr set to NULL.                                 *)
AfterInit(m, ok) == IF ok THEN m ELSE [m EXCEPT !.open = FALSE]

InitCalls(m, ok) ==
  IF ok THEN <<<<"init", m.path>>>>
        ELSE <<<<"init", m.path>>, <<"shut", m.path>>>>

(* sc_ext_initialize with extension_directories == NULL: nothing to do.    *)
InitializeNoExtensions ==
  /\ ~up
  /\ cycles < MaxCycles
  /\ up' = TRUE
  /\ calls' = <<>>
  /\ cycles' = cycles + 1
  /\ UNCHANGED list

(* sc_ext_initialize: collect every directory (g_list_insert_sorted with   *)
(* sc_priority_less), then call each module's initialise function in list  *)
(* order; each call succeeds or fails.                                     *)
Initialize ==
  /\ ~up
  /\ cycles < MaxCycles
  /\ LET mods == SortSeq(list \o Collected, PriorityLess) IN
       \E ok \in [1..Len(mods) -> BOOLEAN] :
         /\ list' = [i \in 1..Len(mods) |-> AfterInit(mods[i], ok[i])]
         /\ calls' = FlattenSeq([i \in 1..Len(mods) |-> InitCalls(mods[i], ok[i])])
  /\ up' = TRUE
  /\ cycles' = cycles + 1

(* sc_ext_shutdown: sort with sc_priority_great, call shut_func of every   *)
(* module still open, free the list.                                       *)
Shutdown ==
  /\ up
  /\ LET open == SelectSeq(SortSeq(list, PriorityGreat), LAMBDA m : m.open)
     IN calls' = calls \o [i \in 1..Len(open) |-> <<"shut", open[i].path>>]
  /\ list' = <<>>
  /\ up' = FALSE
  /\ UNCHANGED cycles

Init ==
  /\ list = <<>>
  /\ up = FALSE
  /\ calls = <<>>
  /\ cycles = 0

Next == InitializeNoExtensions \/ Initialize \/ Shutdown

Spec == Init /\ [][Next]_vars

-----------------------------------------------------------------------------
(* The modules initialised and not yet shut down, innermost last, when the *)
(* calls nest like a stack; ok is FALSE once a shut call does not match.   *)
NestStep(r, c) ==
  IF ~r.ok THEN r
  ELSE IF c[1] = "init" THEN [r EXCEPT !.open = Append(@, c[2])]
  ELSE IF r.open # <<>> /\ Last(r.open) = c[2] THEN [r EXCEPT !.open = Front(@)]
  ELSE [r EXCEPT !.ok = FALSE]
Nesting == FoldLeft(NestStep, [ok |-> TRUE, open |-> <<>>], calls)

(* Calls into extension modules nest like a stack: every shut_func call is *)
(* for the most recently initialised module not yet shut down (a module    *)
(* whose initialise failed is shut at once, the others in reverse          *)
(* initialisation order at sc_ext_shutdown), no module is shut twice, and  *)
(* after sc_ext_shutdown no module is left initialised.                    *)
ModuleCallsNested ==
  /\ Nesting.ok
  /\ ~up => Nesting.open = <<>>

(* Modules are initialised in ascending load priority, a module without a  *)
(* priority symbol last, and modules of equal priority in path order,      *)
(* whatever directory they come from.                                      *)
LoadKey(p) == <<IF Priority[p] = NoPriority THEN MaxPriority ELSE Priority[p], PathRank[p]>>
KeyBefore(k, l) == k[1] < l[1] \/ (k[1] = l[1] /\ k[2] < l[2])
InitInPriorityOrder ==
  LET inits == SelectSeq(calls, LAMBDA c : c[1] = "init")
  IN \A i, j \in 1..Len(inits) :
       i < j => ~KeyBefore(LoadKey(inits[j][2]), LoadKey(inits[i][2]))
=============================================================================
