------------------------------ MODULE PyBinding ------------------------------
(***************************************************************************)
(* The argument handling of the Python binding of the memory context, from *)
(* sc-memory/cpp/python/sc_python_module.cpp:                              *)
(*   - SetLinkContent stores a Python value as the content of a link: an   *)
(*     int as 8 bytes of int64, a float as 8 bytes of double, a str as its *)
(*     bytes; GetLinkContent wraps the content in a PyLinkContent whose    *)
(*     AsString, AsInt and AsFloat views read it back;                     *)
(*   - Iterator3 and Iterator5 pick the iterator overload from which of    *)
(*     their arguments are ScAddr and which ScType, or return None;        *)
(*   - HelperResolveSystemIdtf resolves a system identifier, Template's     *)
(*     Triple and TripleWithRelation add a triple built from parameters     *)
(*     ResolveTemplateParam converts; each throws ExceptionInvalidType on  *)
(*     an argument of the wrong class.                                     *)
(*                                                                         *)
(* A Python value is abstracted to its kind (and, for a str, its length);  *)
(* a content to the format it was written in and its size in bytes; an     *)
(* iterator argument to what bp::extract recognises in it.  Each call is   *)
(* one step: the binding is entered by one Python thread at a time.        *)
(***************************************************************************)
EXTENDS Naturals, Sequences

CONSTANTS
  Links,      \* link addresses passed in, the invalid (empty) address included
  ValidLinks, \* those for which ScAddr::IsValid holds
  StrSizes,   \* lengths of the Python str values passed in
  Names,      \* system identifiers passed to HelperResolveSystemIdtf
  TemplateParams, \* classes of template parameters passed in
  MaxTemplateItems \* bound on the items of the one Python Template

ASSUME ValidLinks \subseteq Links
ASSUME TemplateParams \subseteq {"ItemValue", "Str", "Addr", "Type", "Other"}

(* Python values by kind: an int that fits int64, one that does not, a     *)
(* bool, a float, None, a list (any other object), a str of a length.      *)
PyValues ==
  [kind : {"int", "bigInt", "bool", "float", "none", "list"}, size : {0}]
    \cup [kind : {"str"}, size : StrSizes]

(* Formats a link content is written in: the binding writes int64, double  *)
(* and string; the C++ API also writes the other fixed-width types.        *)
FormatSize ==
  [int8 |-> 1, int16 |-> 2, int32 |-> 4, int64 |-> 8,
   uint8 |-> 1, uint16 |-> 2, uint32 |-> 4, uint64 |-> 8,
   float |-> 4, double |-> 8]
Contents ==
  [fmt : DOMAIN FormatSize \cup {"string"}, size : {0, 1, 2, 4, 8} \cup StrSizes]

NoContent == [fmt |-> "none", size |-> 0]

(* Who wrote a content, besides a Python value: the C++ API, or nobody.    *)
Cpp == [kind |-> "cpp", size |-> 0]
Nobody == [kind |-> "nobody", size |-> 0]

Views == {"AsString", "AsInt", "AsFloat"}

(* What a read returns: None (no content), the value stored, the stored    *)
(* bytes taken for another type, or an ExceptionInvalidType.               *)
ReadOutcomes == {"none", "value", "reinterpreted", "invalidType"}

(* What bp::extract<ScAddr> / bp::extract<ScType> recognise in an argument.*)
ArgKinds == {"Addr", "Type", "Other"}

VARIABLES
  content,  \* [Links -> Contents \cup {NoContent}]
  setBy,    \* [Links -> PyValues \cup {Cpp, Nobody}]: who wrote the content
  read,     \* the last call, if a GetLinkContent + view: [link, view, outcome, writer]
  call,     \* the last call, if an Iterator3/Iterator5: [args, shape]
  idtf,     \* [Names -> BOOLEAN]: the name is bound in the dictionary
  templ,    \* number of items in the Python Template's ScTemplate
  raised    \* the last binding call raised a Python exception

vars == <<content, setBy, read, call, idtf, templ, raised>>
memory == <<content, setBy, idtf, templ>>

NoRead == [link |-> "none", view |-> "none", outcome |-> "none", writer |-> Nobody]
NoCall == [args |-> <<>>, shape |-> "none"]

TypeOK ==
  /\ content \in [Links -> Contents \cup {NoContent}]
  /\ setBy \in [Links -> PyValues \cup {Cpp, Nobody}]
  /\ read \in [link : Links, view : Views, outcome : ReadOutcomes,
               writer : PyValues \cup {Cpp, Nobody}] \cup {NoRead}
  /\ call \in [args : UNION {[1..n -> ArgKinds] : n \in {3, 5}}, shape : STRING]
              \cup {NoCall}
  /\ idtf \in [Names -> BOOLEAN]
  /\ templ \in 0..MaxTemplateItems
  /\ raised \in BOOLEAN

-----------------------------------------------------------------------------
(* Mutant: the float check is made before the int check.                   *)
StoredFloatFirst(v) ==
  CASE v.kind \in {"float", "int", "bool"} -> [fmt |-> "double", size |-> 8]
    [] v.kind = "str"                      -> [fmt |-> "string", size |-> v.size]

(* Mutant: a str is stored with its terminating NUL (size() + 1).        *)
StoredWithTerminator(v) ==
  CASE v.kind \in {"int", "bool"} -> [fmt |-> "int64", size |-> 8]
    [] v.kind = "float"          -> [fmt |-> "double", size |-> 8]
    [] v.kind = "str"            -> [fmt |-> "string", size |-> v.size + 1]

(* The content _context_setLinkContent stores for a value: extract<int64_t> *)
(* accepts an int or a bool, then extract<double> a float, then            *)
(* extract<std::string> a str.                                             *)
Stored(v) ==
  CASE v.kind \in {"int", "bool"} -> [fmt |-> "int64", size |-> 8]
    [] v.kind = "float"          -> [fmt |-> "double", size |-> 8]
    [] v.kind = "str"            -> [fmt |-> "string", size |-> v.size]

(* _context_setLinkContent(l, v): None or an invalid address returns       *)
(* False; an int too large for int64 passes extract's check and throws     *)
(* OverflowError in _set_contentT's conversion, before SetLinkContent; a   *)
(* value no extract accepts returns False.                                 *)
SetLinkContent(l, v) ==
  /\ \/ /\ (v.kind \in {"none", "list"} \/ l \notin ValidLinks)
        /\ raised' = FALSE
        /\ UNCHANGED <<content, setBy>>
     \/ /\ v.kind = "bigInt"
        /\ l \in ValidLinks
        /\ raised' = TRUE
        /\ UNCHANGED <<content, setBy>>
     \/ /\ v.kind \in {"int", "bool", "float", "str"}
        /\ l \in ValidLinks
        /\ content' = [content EXCEPT ![l] = Stored(v)]
        /\ setBy' = [setBy EXCEPT ![l] = v]
        /\ raised' = FALSE
  /\ read' = NoRead
  /\ call' = NoCall
  /\ UNCHANGED <<idtf, templ>>

(* A content written through the C++ API (ScMemoryContext::SetLinkContent  *)
(* with MakeReadStreamT of a fixed-width value, or a string).              *)
CppSetLinkContent(l, c) ==
  /\ l \in ValidLinks
  /\ c.size = IF c.fmt = "string" THEN c.size ELSE FormatSize[c.fmt]
  /\ c.fmt = "string" => c.size \in StrSizes
  /\ content' = [content EXCEPT ![l] = c]
  /\ setBy' = [setBy EXCEPT ![l] = Cpp]
  /\ raised' = FALSE
  /\ read' = NoRead
  /\ call' = NoCall
  /\ UNCHANGED <<idtf, templ>>

(* The outcome of a view of PyLinkContent over content c.  AsInt and       *)
(* AsDouble (bound as AsFloat) throw unless the buffer is 8 bytes, then    *)
(* read the 8 bytes as their type; AsString returns the buffer's bytes.    *)
ViewOf(view, c) ==
  LET own == [AsString |-> {"string"}, AsInt |-> {"int64", "uint64"},
              AsFloat |-> {"double"}]
  IN CASE view # "AsString" /\ c.size # 8 -> "invalidType"
       [] c.fmt \in own[view]               -> "value"
       [] OTHER                             -> "reinterpreted"

(* _context_getLinkContent(l) followed by a view of the result: no content *)
(* gives None.  The read also notes who wrote the content it saw.          *)
GetLinkContent(l, view) ==
  /\ read' = [link |-> l, view |-> view, writer |-> setBy[l],
              outcome |-> IF content[l] = NoContent THEN "none"
                          ELSE ViewOf(view, content[l])]
  /\ raised' = (read'.outcome = "invalidType")
  /\ call' = NoCall
  /\ UNCHANGED <<content, setBy, idtf, templ>>

(* The overload _context_iterator3 calls, or "None": param2 must be a      *)
(* type; an address first tries f_a_f then f_a_a; a type first a_a_f.      *)
Iterator3Shape(p) ==
  CASE p[2] # "Type"                   -> "None"
    [] p[1] = "Addr" /\ p[3] = "Addr"  -> "f_a_f"
    [] p[1] = "Addr" /\ p[3] = "Type"  -> "f_a_a"
    [] p[1] = "Type" /\ p[3] = "Addr"  -> "a_a_f"
    [] OTHER                           -> "None"

(* Mutant: with param1 and param3 addresses, a type param5 is not tried.   *)
Iterator5ShapeNoFAFAA(p) ==
  CASE p[2] # "Type" \/ p[4] # "Type"                   -> "None"
    [] p[1] = "Addr" /\ p[3] = "Addr" /\ p[5] = "Addr"  -> "f_a_f_a_f"
    [] p[1] = "Addr" /\ p[3] = "Type" /\ p[5] = "Addr"  -> "f_a_a_a_f"
    [] p[1] = "Addr" /\ p[3] = "Type" /\ p[5] = "Type"  -> "f_a_a_a_a"
    [] p[1] = "Type" /\ p[3] = "Addr" /\ p[5] = "Addr"  -> "a_a_f_a_f"
    [] p[1] = "Type" /\ p[3] = "Addr" /\ p[5] = "Type"  -> "a_a_f_a_a"
    [] OTHER                                            -> "None"

(* The overload _context_iterator5 calls, or "None": param2 and param4     *)
(* must be types; then the nested checks on param1, param3 and param5.     *)
Iterator5Shape(p) ==
  CASE p[2] # "Type" \/ p[4] # "Type"                   -> "None"
    [] p[1] = "Addr" /\ p[3] = "Addr" /\ p[5] = "Addr"  -> "f_a_f_a_f"
    [] p[1] = "Addr" /\ p[3] = "Addr" /\ p[5] = "Type"  -> "f_a_f_a_a"
    [] p[1] = "Addr" /\ p[3] = "Type" /\ p[5] = "Addr"  -> "f_a_a_a_f"
    [] p[1] = "Addr" /\ p[3] = "Type" /\ p[5] = "Type"  -> "f_a_a_a_a"
    [] p[1] = "Type" /\ p[3] = "Addr" /\ p[5] = "Addr"  -> "a_a_f_a_f"
    [] p[1] = "Type" /\ p[3] = "Addr" /\ p[5] = "Type"  -> "a_a_f_a_a"
    [] OTHER                                            -> "None"

Iterator3(p) ==
  /\ call' = [args |-> p, shape |-> Iterator3Shape(p)]
  /\ raised' = FALSE
  /\ read' = NoRead
  /\ UNCHANGED <<content, setBy, idtf, templ>>

Iterator5(p) ==
  /\ call' = [args |-> p, shape |-> Iterator5Shape(p)]
  /\ raised' = FALSE
  /\ read' = NoRead
  /\ UNCHANGED <<content, setBy, idtf, templ>>

(* The dictionary's resolve(name, hint_type) of the specification (4.3):  *)
(* the values the binding of n may take.  A bound name stays bound; an     *)
(* absent one gets a node of the hint type; for the unknown type ScType()  *)
(* that None is passed as, the specification does not say, and the node   *)
(* may or may not be created.                                              *)
ResolvedIdtf(n, typed) == IF idtf[n] \/ typed THEN {TRUE} ELSE BOOLEAN

(* Mutant: the type argument is checked after the resolve.               *)
ResolveBeforeTypeCheck(x, t, n) ==
  /\ \/ /\ x = "Other"
        /\ raised' = TRUE
        /\ UNCHANGED idtf
     \/ /\ x = "Str"
        /\ \E b \in ResolvedIdtf(n, t = "Type") : idtf' = [idtf EXCEPT ![n] = b]
        /\ raised' = (t = "Other")
  /\ read' = NoRead
  /\ call' = NoCall
  /\ UNCHANGED <<content, setBy, templ>>

(* _context_helperResolveSysIdtf(idtf, type) with an argument of class x   *)
(* for the name n and one of class t for the type: a non-str name, or a    *)
(* type that is neither None nor an ScType, throws ExceptionInvalidType;   *)
(* otherwise ScMemoryContext::HelperResolveSystemIdtf resolves n.          *)
HelperResolveSysIdtf(x, t, n) ==
  /\ \/ /\ (x = "Other" \/ t = "Other")
        /\ raised' = TRUE
        /\ UNCHANGED idtf
     \/ /\ x = "Str"
        /\ t \in {"None", "Type"}
        /\ \E b \in ResolvedIdtf(n, t = "Type") : idtf' = [idtf EXCEPT ![n] = b]
        /\ raised' = FALSE
  /\ read' = NoRead
  /\ call' = NoCall
  /\ UNCHANGED <<content, setBy, templ>>

(* ResolveTemplateParam(p): the ScTemplateItemValue made of a parameter of *)
(* class p, trying a PyTemplateItemValue (a replacement reference), a str  *)
(* (a replacement name), an ScAddr, an ScType in turn, or a throw.        *)
ResolveTemplateParam(p) ==
  CASE p = "ItemValue" -> "ref"
    [] p = "Str"       -> "name"
    [] p = "Addr"      -> "addr"
    [] p = "Type"      -> "type"
    [] OTHER           -> "throw"

(* PyTemplate::Triple (3 parameters) and TripleWithRelation (5): every     *)
(* parameter is resolved as an argument of the ScTemplate call, so one     *)
(* that throws leaves the template without the triple.                     *)
TemplateTriple(ps) ==
  /\ templ + Len(ps) <= MaxTemplateItems
  /\ \/ /\ \A i \in DOMAIN ps : ResolveTemplateParam(ps[i]) # "throw"
        /\ templ' = templ + Len(ps)
        /\ raised' = FALSE
     \/ /\ \E i \in DOMAIN ps : ResolveTemplateParam(ps[i]) = "throw"
        /\ raised' = TRUE
        /\ UNCHANGED templ
  /\ read' = NoRead
  /\ call' = NoCall
  /\ UNCHANGED <<content, setBy, idtf>>

Init ==
  /\ content = [l \in Links |-> NoContent]
  /\ setBy = [l \in Links |-> Nobody]
  /\ read = NoRead
  /\ call = NoCall
  /\ idtf = [n \in Names |-> FALSE]
  /\ templ = 0
  /\ raised = FALSE

Next ==
  \/ \E l \in Links, v \in PyValues : SetLinkContent(l, v)
  \/ \E l \in Links, c \in Contents : CppSetLinkContent(l, c)
  \/ \E l \in Links, view \in Views : GetLinkContent(l, view)
  \/ \E p \in [1..3 -> ArgKinds] : Iterator3(p)
  \/ \E p \in [1..5 -> ArgKinds] : Iterator5(p)
  \/ \E x \in {"Str", "Other"}, t \in {"None", "Type", "Other"}, n \in Names :
        HelperResolveSysIdtf(x, t, n)
  \/ \E k \in {3, 5} : \E ps \in [1..k -> TemplateParams] : TemplateTriple(ps)

Spec == Init /\ [][Next]_vars

-----------------------------------------------------------------------------
(* The view a Python program reads a value of each kind back with.         *)
ViewFor(kind) ==
  CASE kind \in {"int", "bool"} -> "AsInt"
    [] kind = "float"          -> "AsFloat"
    [] kind = "str"            -> "AsString"

(* Whatever was called before, a value stored by SetLinkContent reads back *)
(* through the view of its own Python type: an int or a bool through      *)
(* AsInt, a float through AsFloat, a str through AsString, each giving the *)
(* value itself.                                                           *)
BindingRoundTrip ==
  (read # NoRead /\ read.writer \in PyValues /\ read.view = ViewFor(read.writer.kind))
    => read.outcome = "value"

(* The shapes of iterator the memory context offers, from the overloads    *)
(* the binding names: a fixed or any source (f/a), the connector type, a   *)
(* fixed or any target; for a 5-iterator also the attribute connector type *)
(* and a fixed or any relation.                                            *)
Shapes3 == {"f_a_f", "f_a_a", "a_a_f"}
Shapes5 == {"f_a_f_a_f", "f_a_f_a_a", "f_a_a_a_f", "f_a_a_a_a", "a_a_f_a_f", "a_a_f_a_a"}
Letter(k) == IF k = "Addr" THEN "f" ELSE "a"
Pattern(p) ==
  IF Len(p) = 3 THEN Letter(p[1]) \o "_a_" \o Letter(p[3])
  ELSE Letter(p[1]) \o "_a_" \o Letter(p[3]) \o "_a_" \o Letter(p[5])

(* Iterator3 and Iterator5 call the overload whose fixed positions are     *)
(* exactly the ScAddr arguments, when the connector positions are ScType,  *)
(* no argument is of another class and the context has that overload; in  *)
(* every other case they return None (and never throw).                   *)
IteratorDispatch ==
  call # NoCall =>
    LET p == call.args
        wellTyped == /\ \A i \in DOMAIN p : p[i] # "Other"
                     /\ p[2] = "Type"
                     /\ Len(p) = 5 => p[4] = "Type"
        ok == wellTyped /\ Pattern(p) \in (IF Len(p) = 3 THEN Shapes3 ELSE Shapes5)
    IN call.shape = IF ok THEN Pattern(p) ELSE "None"

(* A binding call that raises a Python exception (an int too large for     *)
(* int64 given to SetLinkContent, a view of the wrong size, a resolve or a *)
(* template triple given an argument of the wrong class) leaves the memory,*)
(* the dictionary and the template as they were: every argument is checked *)
(* and converted before the call that changes them.                        *)
RaisingCallsLeaveMemory == [][raised' => UNCHANGED memory]_vars
==============================================================================
