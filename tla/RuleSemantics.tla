--------------------------- MODULE RuleSemantics ---------------------------
(***************************************************************************)
(* The rewrite rules of monty-lower (crates/monty-lower/src/lower.rs), each *)
(* as what it makes of the run of the code: a site is one occurrence of the *)
(* construct that a rule matches, with the facts the rule asks for and the  *)
(* circumstances CPython's semantics depends on; source is the sequence of  *)
(* observable events of the site under CPython; code is the sequence of the *)
(* text that the rule puts there.  Events are evaluations of operands, of   *)
(* which each may print or raise, calls of methods of the user's classes,   *)
(* bindings, and one outcome.  As an exception may cut a run after any      *)
(* event, a rule preserves a site only when the two sequences are equal.    *)
(*                                                                         *)
(* One action per handler of Collector: it rewrites the site, diagnoses it, *)
(* or leaves it as it is.  Then the text runs, one event a step.            *)
(***************************************************************************)
EXTENDS Integers, Sequences, FiniteSets, SequencesExt

CONSTANTS
    MaxParts,       \* of a statement: targets, iterables, managers, rounds
    MaxDecorators   \* of a definition

ASSUME RuleAssumption == MaxParts \in Nat \ {0} /\ MaxDecorators \in Nat \ {0}

VARIABLES
    site,           \* the construct and its circumstances
    source,         \* the events of the site under CPython
    decision,       \* what the handler did with the site
    code,           \* the events of the text that runs
    trace           \* the events that have happened

ruleVars == <<site, source, decision, code, trace>>

Decisions == {"pending", "applied", "left", "diagnosed"}

Eval(x) == <<"eval", x>>
Call(on, args) == <<"call", on, args>>
Bind(x) == <<"bind", x>>
Value(x) == <<"value", x>>
Raise(x) == <<"raise", x>>

\* The text does not parse: the next pass fails, and with it the whole call.
Unparsable == <<Raise("ParseError")>>

----------------------------------------------------------------------------
(* Binary, unary and comparison operators.  missing: the capability index   *)
(* says the target lacks the protocol; known: the facts have a class for    *)
(* the operand; has: the class resolves the method, and for the right one a *)
(* reflected method of its own; right: what the type of the right operand   *)
(* is to that of the left one; declines: the operands whose method returns  *)
(* NotImplemented; reflected: the index says that the target lacks the      *)
(* reflected protocol.                                                      *)

OperandSites(rules) ==
    [rule : rules, missing : BOOLEAN, known : SUBSET {"l", "r"},
     has : SUBSET {"l", "r"}, right : {"same", "sub", "other"},
     declines : SUBSET {"l", "r"}, reflected : BOOLEAN]

\* The methods are tried in order until one does not decline.
Attempt(order, declines, fallback) ==
    LET tried == {i \in 1..Len(order) : \A j \in 1..(i - 1) : order[j] \in declines}
        answers == \E i \in tried : order[i] \notin declines
    IN  [i \in 1..Cardinality(tried) |-> Call(order[i], <<>>)]
        \o <<IF answers THEN Value(order[Cardinality(tried)]) ELSE fallback>>

OnlyIf(condition, side) == IF condition THEN <<side>> ELSE <<>>

\* CPython tries the reflected method of the right operand first when its type
\* is a proper subclass, and not at all when the types are the same.
BinarySource(s) ==
    LET left == OnlyIf("l" \in s.has, "l")
        right == OnlyIf("r" \in s.has /\ s.right # "same", "r")
    IN  <<Eval("l"), Eval("r")>>
        \o Attempt(IF s.right = "sub" THEN right \o left ELSE left \o right,
                   s.declines, Raise("TypeError"))

\* A comparison also tries the reflected method of an operand of the same type.
CompareSource(s, fallback) ==
    LET left == OnlyIf("l" \in s.has, "l")
        right == OnlyIf("r" \in s.has, "r")
    IN  <<Eval("l"), Eval("r")>>
        \o Attempt(IF s.right = "sub" THEN right \o left ELSE left \o right,
                   s.declines, fallback)

\* ({first}).method(({second})): the result is that of the method, whatever it is.
DirectCall(first, second, declines) ==
    <<Eval(first), Eval(second), Call(first, <<>>),
      Value(IF first \in declines THEN "NotImplemented" ELSE first)>>

BinaryApplies(s) == s.missing /\ "l" \in s.known /\ "l" \in s.has
ReflectedIsLost(s) == s.reflected /\ "r" \in s.known /\ "r" \in s.has

\* The left class decides; only when it is unknown the right one is asked.
CompareTarget(s) ==
    IF "l" \in s.known THEN DirectCall("l", "r", s.declines)
                       ELSE DirectCall("r", "l", s.declines)

CompareApplies(s) ==
    /\ s.missing
    /\ \/ "l" \in s.known /\ "l" \in s.has
       \/ s.known = {"r"} /\ "r" \in s.has

\* l != r through the __eq__ of a left class without a __ne__.
Inequality(events) ==
    IF Last(events) = Value("l") THEN Front(events) \o <<<<"truth", "l">>, Value("l")>> ELSE events
InequalityTarget(s) ==
    <<Eval("l"), Eval("r"), Call("l", <<>>)>>
    \o IF "l" \in s.declines THEN <<<<"truth", "NotImplemented">>, Value("NotImplemented")>>
                              ELSE <<<<"truth", "l">>, Value("l")>>

\* Lists that share a float by name, compared item by item in a helper that
\* takes identical items for equal ones, as CPython does.
NanSites == [rule : {"nan"}, missing : BOOLEAN, shared : BOOLEAN]
NanRun == <<Eval("l"), Eval("r"), Call("items", <<>>), Value("order")>>

UnarySites == [rule : {"unary"}, missing : BOOLEAN, known : BOOLEAN, has : BOOLEAN]
MethodRun(s) == IF s.has THEN <<Eval("x"), Call("x", <<>>), Value("x")>>
                ELSE <<Eval("x"), Raise("TypeError")>>
MethodApplies(s) == s.missing /\ s.known /\ s.has

----------------------------------------------------------------------------
(* Membership, subscripts, attributes, calls.                               *)

ContainerSites(rules) == [rule : rules, missing : BOOLEAN, known : BOOLEAN, has : BOOLEAN]

ContainsSource(s) ==
    <<Eval("item"), Eval("x"), Call("x", <<"item">>), <<"truth", "x">>, Value("x")>>
ContainsTarget(s) ==
    <<Eval("x"), Eval("item"), Call("x", <<"item">>)>>
    \o (IF s.rule = "not_in" THEN <<<<"truth", "x">>>> ELSE <<>>) \o <<Value("x")>>

\* x[key] as (x).__getitem__((key)): a slice, or a starred key, is no expression
\* of its own.
ItemSites == [rule : {"getitem", "setitem"}, missing : BOOLEAN, known : BOOLEAN,
              has : BOOLEAN, key : {"one", "slice"}]
GetItemSource == <<Eval("x"), Eval("key"), Call("x", <<"key">>), Value("x")>>
GetItemTarget(s) == IF s.key = "slice" THEN Unparsable ELSE GetItemSource

\* An assignment evaluates its value before the parts of its target.
SetItemSource == <<Eval("value"), Eval("x"), Eval("key"), Call("x", <<"key", "value">>)>>
SetItemTarget(s) ==
    IF s.key = "slice" THEN Unparsable
    ELSE <<Eval("x"), Eval("key"), Eval("value"), Call("x", <<"key", "value">>)>>
SetAttrSource == <<Eval("value"), Eval("x"), Call("x", <<"value">>)>>
SetAttrTarget == <<Eval("x"), Eval("value"), Call("x", <<"value">>)>>

\* f(args) as (f).__call__(args), x.a as (x).__getattr__('a').
CallRun == <<Eval("x"), Eval("args"), Call("x", <<"args">>), Value("x")>>
AccessRun == <<Eval("x"), Call("x", <<>>), Value("x")>>

\* A method under one of property, staticmethod and classmethod, and an access
\* to it.  The decorator goes where the target lacks decorators and it is alone.
\* x.p becomes (x).p(), x.s(args) becomes ((x), C)[1].s(args) and x.c(args) becomes
\* ((x), C)[1].c(C, args) where the class of x is known, whatever becomes of the
\* decorator; the other accesses stay.  bare: the argument is a generator
\* expression without parentheses of its own, which allows of no other argument.
DescriptorSites ==
    [rule : {"descriptor"}, missing : BOOLEAN, alone : BOOLEAN, resolved : BOOLEAN, bare : BOOLEAN,
     kind : {"property", "static", "class"}, through : {"instance", "class"}]
Access(s, first) ==
    <<Eval("x")>> \o (IF s.kind = "property" THEN <<>> ELSE <<Eval("args")>>)
    \o <<Call("m", first), Value("m")>>
DescriptorSource(s) ==
    CASE s.kind = "static" -> Access(s, <<>>)
      [] s.kind = "class" -> Access(s, <<"C">>)
      [] s.kind = "property" -> IF s.through = "instance" THEN Access(s, <<"x">>)
                                ELSE <<Eval("x"), Value("property")>>
Removed(s) == s.missing /\ s.alone
Reached(s) == s.resolved /\ (s.kind = "property" => s.through = "instance")
Rewritten(s) == Reached(s) /\ (s.kind = "static" => s.through = "instance")
DescriptorTarget(s) ==
    IF s.kind = "class" /\ Reached(s) /\ s.bare THEN Unparsable
    ELSE IF ~Removed(s)
    THEN CASE s.kind = "property" -> <<Eval("x"), Call("m", <<"x">>), Call("result", <<>>), Value("result")>>
           [] s.kind = "class" -> Access(s, <<"C", "C">>)
           [] s.kind = "static" -> Access(s, <<>>)
    ELSE IF Reached(s) THEN DescriptorSource(s)
    ELSE IF s.kind = "property" THEN <<Eval("x"), Value("function")>>
    ELSE Access(s, IF s.through = "instance" THEN <<"x">> ELSE <<>>)

\* super().m(args) as Base.m(self, args), Base being the first base written,
\* self the first parameter; next: which class the object's method resolution
\* order has it from; kind: how that class binds m; from: how the method that
\* asks is bound; removed: the decorator of a classmethod m has gone.
SuperSites == [rule : {"super"}, missing : BOOLEAN, inside : BOOLEAN, base : BOOLEAN,
               receiver : BOOLEAN, next : {"base", "sibling"}, bare : BOOLEAN,
               kind : {"instance", "static", "class"}, from : {"instance", "class"}, removed : BOOLEAN]
SuperRun(class, args) == <<Eval("args"), Call(class, args), Value(class)>>
FirstParameter(s) == IF s.from = "class" THEN "cls" ELSE "self"
SuperSource(s) ==
    SuperRun(s.next, IF s.kind = "class" THEN <<"cls", "args">>
                     ELSE IF s.kind = "static" \/ s.from = "class" THEN <<"args">> ELSE <<"self", "args">>)
SuperTarget(s) ==
    IF s.bare THEN Unparsable
    ELSE SuperRun("base", IF s.kind = "class" /\ ~s.removed THEN <<"base", FirstParameter(s), "args">>
                          ELSE <<FirstParameter(s), "args">>)
SuperResolves(s) == s.inside /\ s.base /\ s.receiver

\* The class has no __init__ that the facts see.  found: the attribute is a
\* member of the class, is set on the instance by other code, or is missing.
\* seen: a statement of the class or of one that it reaches by first bases binds
\* that name alone, which is all that the rule asks (class_has_member).
GetAttrSites ==
    [rule : {"getattr"}, missing : BOOLEAN, known : BOOLEAN, has : BOOLEAN,
     init : BOOLEAN, seen : BOOLEAN, found : {"missing", "member", "instance"}]
GetAttrSource(s) ==
    IF s.found # "missing" THEN <<Eval("x"), Value(s.found)>> ELSE AccessRun
GetAttrApplies(s) == MethodApplies(s) /\ ~s.init /\ ~s.seen

\* a.m == b.m as (a) is (b), when both resolve to the method of one class.
BoundEqSites == [rule : {"bound_eq"}, missing : BOOLEAN, oneOwner : BOOLEAN, identical : BOOLEAN]
BoundEqRun(s) == <<Eval("l"), Eval("r"), Value(s.identical /\ s.oneOwner)>>
BoundEqTarget(s) == <<Eval("l"), Eval("r"), Value(s.identical)>>

\* One or more parts, from the left.
PartsOf(S) == UNION {[1..n -> S] : n \in 1..MaxParts}

DeleteTargets == [of : {"list", "dict", "tuple", "float", "class", "unknown"},
                  has : BOOLEAN, key : {"one", "pair", "slice"}]
DeleteSites == [rule : {"delete"}, missing : BOOLEAN,
                targets : PartsOf(DeleteTargets)]

DeleteSource(t) ==
    <<Eval("x"), Eval("key")>>
    \o IF t.of \in {"tuple", "float"} \/ (t.of = "class" /\ ~t.has)
       THEN <<Raise("TypeError")>> ELSE <<Call("x", <<"key">>)>>
\* ({receiver}).pop({key}) and ({receiver}).__delitem__({key}): a pair that is
\* written without parentheses becomes two arguments, and a slice that a variable
\* holds is an index to pop.
DeleteTarget(t) ==
    <<Eval("x"), Eval("key")>>
    \o IF t.of \in {"tuple", "float"} THEN <<Raise("AttributeError")>>
       ELSE IF t.key = "pair" THEN <<Call("x", <<"first", "second">>)>>
       ELSE IF t.of = "list" /\ t.key = "slice" THEN <<Call("x", <<"index">>)>>
       ELSE <<Call("x", <<"key">>)>>
OtherKey(t) == t.key = "pair" \/ (t.of = "list" /\ t.key = "slice")
DeletableAnyClass(t) == t.of # "unknown"
Deletable(t) == t.of # "unknown" /\ (t.of = "class" => t.has)

\* The statements of a sequence run until one raises.
Chain(parts) ==
    LET Raises(part) == Last(part)[1] = "raise"
        reached == {i \in 1..Len(parts) : \A j \in 1..(i - 1) : ~Raises(parts[j])}
    IN  FlattenSeq(SubSeq(parts, 1, Cardinality(reached)))

----------------------------------------------------------------------------
(* Builtin functions on instances of user classes.  shadowed: the program   *)
(* binds the name of the builtin itself; odd: the method returns a value    *)
(* that the builtin refuses or converts; sized: the class of what list goes *)
(* through has a __len__ too.  by: the method that bool asks; operand: the  *)
(* call is one of an operator that binds as tightly as a comparison.        *)

BuiltinSites ==
    [rule : {"builtin"}, name : {"round", "reversed", "len", "hash", "bool", "list"},
     missing : BOOLEAN, known : BOOLEAN, has : BOOLEAN, shadowed : BOOLEAN,
     odd : BOOLEAN, sized : BOOLEAN, by : {"own", "len"}, operand : BOOLEAN]

Checked == {"len", "hash", "bool"}

BuiltinSource(s) ==
    IF s.shadowed THEN <<Eval("x"), Call("shadow", <<"x">>), Value("shadow")>>
    ELSE IF ~s.has THEN <<Eval("x"), Value("default")>>
    ELSE IF s.name # "list"
    THEN <<Eval("x"), Call("x", <<>>),
           IF s.odd /\ s.name \in Checked THEN Raise("TypeError") ELSE Value("x")>>
    ELSE IF s.odd THEN <<Eval("x"), Call("iter", <<>>), Raise("TypeError")>>
    ELSE IF s.sized THEN <<Eval("x"), Call("iter", <<>>), Call("len", <<>>), Call("next", <<>>), Value("x")>>
    ELSE <<Eval("x"), Call("iter", <<>>), Call("next", <<>>), Value("x")>>

\* (x).__len__() != 0 stands without parentheses of its own.
Regrouped(s) == s.name = "bool" /\ s.by = "len" /\ s.operand
BuiltinTarget(s) ==
    IF s.name # "list"
    THEN <<Eval("x"), Call("x", <<>>), Value(IF Regrouped(s) THEN "regrouped" ELSE "x")>>
    ELSE IF s.odd THEN <<Eval("x"), Call("iter", <<>>), Raise("AttributeError")>>
    ELSE <<Eval("x"), Call("iter", <<>>), Call("next", <<>>), Value("x")>>

\* int(x), float(x) and hex(x) of an instance are diagnosed: the method's
\* result would not be validated.
ConversionSites == [rule : {"conversion"}, missing : BOOLEAN, known : BOOLEAN, has : BOOLEAN]

\* Calls that a rule folds to a constant: repr(C()).startswith(prefix),
\* repr(type(x.m)), type(C) and isinstance(C, type), Ellipsis, bytes([1, 2]) and
\* int of a text with other digits.  bound: the program binds a name involved
\* itself, in a form that the facts record or in another; plain: the class is one
\* of the module whose type, construction and representation are as by default,
\* where the rule sees only that no first base of it that it knows says otherwise.
FoldedRules == {"default_repr", "bound_type", "metatype", "ellipsis", "static_bytes", "unicode_int"}
FoldedSites ==
    [rule : FoldedRules, missing : BOOLEAN, bound : {"not", "recorded", "unrecorded"}, plain : BOOLEAN]
OfClass(s) == s.rule \in {"default_repr", "bound_type", "metatype"}
FoldSource(s) ==
    IF s.bound # "not" THEN <<Value("shadow")>>
    ELSE IF OfClass(s) /\ ~s.plain THEN <<Value("another")>> ELSE <<Value("constant")>>
FoldTarget == <<Value("constant")>>
FoldApplies(s) == s.missing /\ (s.rule \in {"metatype", "ellipsis"} => s.bound # "recorded")

----------------------------------------------------------------------------
(* Formatting, as str(x) and repr(x).  of: what the formatted value is, text  *)
(* standing for all that is no number; shadowed: the program binds str or    *)
(* repr itself.                                                              *)

PercentSites == [rule : {"percent"}, missing : BOOLEAN, conversion : {"%s", "%r", "%d"},
                 of : {"integer", "bool", "float", "text", "tuple"}, shadowed : BOOLEAN]
PercentSource(s) ==
    <<Eval("x"), IF s.of = "tuple" THEN Value("element")
                 ELSE IF s.conversion # "%d" \/ s.of = "integer" THEN Value(s.conversion)
                 ELSE IF s.of = "text" THEN Raise("TypeError") ELSE Value("digits")>>
Shown(s, how) ==
    IF s.shadowed THEN <<Eval("x"), Call("shadow", <<"x">>), Value("shadow")>> ELSE <<Eval("x"), Value(how)>>
PercentTarget(s) == Shown(s, s.conversion)

FormatSites == [rule : {"str_format"}, missing : BOOLEAN, field : {"{}", "{!r}"},
                of : {"plain", "formats"}, starred : BOOLEAN, shadowed : BOOLEAN]
FormatSource(s) ==
    <<Eval("x")>> \o IF s.of = "formats" /\ s.field = "{}"
                     THEN <<Call("x", <<"spec">>), Value("x")>> ELSE <<Value(s.field)>>
FormatTarget(s) == IF s.starred THEN Unparsable ELSE Shown(s, s.field)

\* One interpolation with a literal specification, through __format__ or the
\* helper that looks for it.  single: the f-string has nothing beside it; beside:
\* a plain string is concatenated with the f-string, and goes; has: the class has
\* a __format__, odd: which returns no text; inherits: every object of the target
\* has one.
FStringSites ==
    [rule : {"fstring"}, missing : BOOLEAN, known : BOOLEAN, single : BOOLEAN, beside : BOOLEAN,
     has : BOOLEAN, odd : BOOLEAN, spec : {"none", "text"}, inherits : BOOLEAN]
FStringSource(s) ==
    IF s.has THEN <<Eval("x"), Call("x", <<"spec">>),
                    IF s.odd THEN Raise("TypeError") ELSE Value(IF s.beside THEN "both" ELSE "x")>>
    ELSE IF s.spec = "none" THEN <<Eval("x"), Value(IF s.beside THEN "both" ELSE "str")>>
    ELSE <<Eval("x"), Raise("TypeError")>>
FStringTarget(s) ==
    IF s.has THEN <<Eval("x"), Call("x", <<"spec">>), Value("x")>>
    ELSE IF s.spec = "none" /\ s.inherits THEN <<Eval("x"), Value("str")>>
    ELSE <<Eval("x"), Raise("TypeError")>>

\* The helper copies and updates two dictionaries and leaves the rest to |.
UnionSites == [rule : {"union"}, missing : BOOLEAN, of : {"dicts", "others", "overriding"}]
UnionSource(s) == <<Eval("l"), Eval("r")>>
    \o IF s.of = "overriding" THEN <<Call("l", <<"r">>), Value("l")>> ELSE <<Value(s.of)>>
UnionTarget(s) == <<Eval("l"), Eval("r"), Value(IF s.of = "others" THEN "others" ELSE "dicts")>>

\* gather(a, return_exceptions=True) as gather(helper((a))): the helper returns
\* what is an Exception; a cancellation is none.
GatherSites == [rule : {"gather"}, missing : BOOLEAN, ends : {"value", "exception", "cancelled"}]
GatherSource(s) == <<Eval("a"), Call("a", <<>>), Value(s.ends)>>
GatherTarget(s) ==
    <<Eval("a"), Call("a", <<>>),
      IF s.ends = "cancelled" THEN Raise("cancelled") ELSE Value(s.ends)>>

\* list(iter(f, stop)) through a loop that compares what f returns with stop;
\* CPython compares stop with it, after asking whether they are one object.
StopSites == [rule : {"callable_iterator"}, missing : BOOLEAN, stop : {"plain", "user", "unequal"}]
StopRun(s, compared, last) ==
    <<Eval("f"), Eval("stop"), Call("f", <<>>)>>
    \o CASE s.stop = "user" -> <<Call(compared, <<>>), Value("list")>>
         [] s.stop = "unequal" -> <<last>>
         [] OTHER -> <<Value("list")>>

----------------------------------------------------------------------------
(* map, filter, enumerate, zip and generator expressions whose result is     *)
(* never used.  shadowed: the program binds the name itself, or enumerate     *)
(* starts at an object of its own, which it asks for an integer.  An iterable *)
(* is a display, iter(f, stop) of a function, or anything else.               *)

Iterables == {"display", "callable", "other"}
LazySites ==
    [rule : {"lazy"}, missing : BOOLEAN, dead : BOOLEAN, shadowed : BOOLEAN,
     iterables : PartsOf(Iterables)]
    \cup [rule : {"generator"}, missing : BOOLEAN, dead : BOOLEAN, shadowed : {FALSE},
          iterables : [1..1 -> Iterables]]
LazyTarget(s) ==
    (IF s.rule = "lazy" THEN <<Eval("function")>> ELSE <<>>)
    \o FlattenSeq([i \in 1..Len(s.iterables) |->
        IF s.iterables[i] = "callable" THEN <<Eval("f"), Eval("stop")>> ELSE <<Eval("iterable")>>])
    \o <<Value("unused")>>
LazySource(s) ==
    IF s.shadowed THEN Front(LazyTarget(s)) \o <<Call("shadow", <<>>), Value("unused")>>
                  ELSE LazyTarget(s)
LazyApplies(s) == s.dead /\ "other" \notin Range(s.iterables)

\* [lambda: x for x in items] through a helper whose lambdas share one cell.
LateSites == [rule : {"late_bound"}, missing : BOOLEAN, identity : BOOLEAN, module : BOOLEAN]
LateRun == <<Eval("items"), Call("next", <<>>), Call("next", <<>>), Value("last")>>
LateApplies(s) == s.identity /\ s.module

----------------------------------------------------------------------------
(* Classes.                                                                  *)

\* A dataclass gets an __init__ of its annotated names, a __repr__ and an __eq__
\* at its end, whatever its body has, the decorator's arguments say and the
\* default of a field is.  The run constructs two, shows, compares and changes
\* one; other: what the second one is.
DataclassSites ==
    [rule : {"dataclass"}, missing : BOOLEAN, alone : BOOLEAN,
     own : {"none", "__init__", "__repr__", "__eq__"}, options : {"none", "frozen"},
     field : {"plain", "factory", "class_variable"}, other : {"same", "subclass", "other"}]
DataclassSource(s) ==
    <<IF s.own = "__init__" THEN Call("__init__", <<>>)
      ELSE Bind(CASE s.field = "factory" -> "a new value"
                  [] s.field = "class_variable" -> "nothing"
                  [] s.field = "plain" -> "the default"),
      IF s.own = "__repr__" THEN Call("__repr__", <<>>)
      ELSE Value(IF s.field = "class_variable" THEN "no fields" ELSE "fields")>>
    \o (IF s.own = "__eq__" THEN <<Call("__eq__", <<>>)>>
        ELSE IF s.other = "same" THEN <<Value("fields")>> ELSE <<Call("other", <<>>)>>)
    \o <<IF s.options = "frozen" THEN Raise("FrozenInstanceError") ELSE Bind("field")>>
DataclassTarget(s) ==
    <<Bind("the default"), Value("fields"),
      Value(IF s.other = "other" THEN FALSE ELSE "fields"), Bind("field")>>

\* A comprehension of a class body, as a helper of the module.  uses: where its
\* names are: in the module, in the class (whose names CPython shows to the first
\* iterable), or in a lambda or comprehension that it stands in.
ComprehensionSites ==
    [rule : {"class_comprehension"}, missing : BOOLEAN, uses : {"module", "class", "enclosing"}]
ComprehensionSource == <<Eval("items"), Value("items")>>
ComprehensionTarget(s) == IF s.uses = "module" THEN ComprehensionSource ELSE <<Raise("NameError")>>

\* C.__name__ = value, then a read of it, through a variable that shadows it.
\* odd: the value is no text; local: the assignment stands in a function that the
\* read is not in; read: by the name of the class, or through anything else.
ClassNameSites == [rule : {"class_name"}, missing : BOOLEAN, known : BOOLEAN, odd : BOOLEAN,
                   local : BOOLEAN, read : {"name", "else"}]
ClassNameSource(s) ==
    IF s.odd THEN <<Eval("value"), Raise("TypeError")>> ELSE <<Eval("value"), Bind("name"), Value("new")>>
ClassNameTarget(s) ==
    <<Eval("value"), Bind("name"), Value(IF s.local \/ s.read = "else" THEN "old" ELSE "new")>>

\* A block that is moved is indented anew, line by line, those of its strings
\* included; strings: it has one that this changes.
Reindented(s, block) == Eval(IF s.strings THEN "altered" ELSE block)

\* An if statement of a class body, or of the module when its test is False,
\* as the branch that its literal test selects.  One clause that has a test
\* counts as none; only: the statement is the whole of a block.
IfSites ==
    [rule : {"class_body_if", "dead_if"}, missing : BOOLEAN, test : {"True", "False", "dynamic"},
     clauses : {"none", "else", "elif", "elif_else"}, only : BOOLEAN, holds : SUBSET {"test", "elif"},
     strings : BOOLEAN]
ClausesRun(s) ==
    CASE s.clauses = "none" -> <<>>
      [] s.clauses = "else" -> <<Eval("else")>>
      [] OTHER -> <<Eval("elif test")>>
                  \o IF "elif" \in s.holds THEN <<Eval("elif")>>
                     ELSE IF s.clauses = "elif_else" THEN <<Eval("else")>> ELSE <<>>
IfSource(s) ==
    CASE s.test = "True" -> <<Eval("body")>>
      [] s.test = "False" -> ClausesRun(s)
      [] OTHER -> <<Eval("test")>> \o IF "test" \in s.holds THEN <<Eval("body")>> ELSE ClausesRun(s)
IfTarget(s) ==
    IF s.test = "True" THEN <<Reindented(s, "body")>>
    ELSE IF s.clauses = "else" THEN <<Reindented(s, "else")>>
    ELSE IF s.only THEN Unparsable ELSE <<>>
IfIsDiagnosed(s) ==
    /\ s.rule = "class_body_if" /\ s.missing
    /\ s.test = "dynamic" \/ (s.test = "False" /\ s.clauses = "elif_else")
IfApplies(s) ==
    /\ s.missing
    /\ s.rule = "dead_if" => s.test = "False" /\ s.clauses # "elif_else"

\* A class in a class body goes before the outer class under a generated name,
\* and its place binds the old name to it.  before: the outer body has done
\* something by then, as a test that the class stands under; header: its bases or
\* decorators use a name of the outer body; shown: the program shows its name.
NestedSites == [rule : {"nested_class"}, missing : BOOLEAN, before : BOOLEAN, header : BOOLEAN,
                shown : BOOLEAN, strings : BOOLEAN]
Earlier(s) == IF s.before THEN <<Eval("earlier")>> ELSE <<>>
NestedSource(s) ==
    Earlier(s) \o <<Eval("inner"), Bind("Inner")>> \o IF s.shown THEN <<Value("Inner")>> ELSE <<>>
NestedTarget(s) ==
    IF s.header THEN <<Raise("NameError")>>
    ELSE <<Reindented(s, "inner")>> \o Earlier(s) \o <<Bind("Inner")>>
         \o IF s.shown THEN <<Value("generated")>> ELSE <<>>

\* __m in a class C as _C__m, in names and attributes that are expressions: the
\* names of functions and parameters, and those in other statements, stay.
PrivateSites == [rule : {"private_name"}, missing : BOOLEAN,
                 bound : {"assignment", "function", "parameter"}]
PrivateSource == <<Eval("x"), Value("__m")>>
PrivateTarget(s) ==
    CASE s.bound = "function" -> <<Eval("x"), Raise("AttributeError")>>
      [] s.bound = "parameter" -> <<Raise("NameError")>>
      [] OTHER -> PrivateSource

----------------------------------------------------------------------------
(* Statements.                                                              *)

\* x, y = value in a class body, through an indexed temporary.  The edit
\* replaces the whole line and takes what stands before the statement for its
\* indentation, which it repeats on every line it writes.
TupleSites == [rule : {"class_tuple"}, missing : BOOLEAN, names : BOOLEAN,
               of : {"exact", "short", "long", "iterator"}, line : {"own", "before", "after"}]
Neighbour(s, where) == IF s.line = where THEN <<Eval("neighbour")>> ELSE <<>>
TupleSource(s) ==
    Neighbour(s, "before") \o <<Eval("value")>>
    \o IF s.of \in {"exact", "iterator"}
       THEN <<Bind("x"), Bind("y")>> \o Neighbour(s, "after")
       ELSE <<Raise("ValueError")>>
TupleTarget(s) ==
    LET Line(event) == Neighbour(s, "before") \o <<event>>
    IN  Line(Eval("value"))
        \o CASE s.of = "short" -> Line(Bind("x")) \o Line(Raise("IndexError"))
             [] s.of = "iterator" -> Line(Raise("TypeError"))
             [] OTHER -> Line(Bind("x")) \o Line(Bind("y"))

\* from dataclasses import dataclass goes, with its line.  used: the text still
\* has the name; line: its own, one with another statement, or a whole block.
ImportSites == [rule : {"dataclass_import"}, missing : BOOLEAN, used : BOOLEAN,
                line : {"own", "shared", "block"}]
ImportSource(s) == Neighbour(s, "shared") \o IF s.used THEN <<Value("dataclass")>> ELSE <<>>
ImportTarget(s) ==
    IF s.line = "block" THEN Unparsable ELSE IF s.used THEN <<Raise("NameError")>> ELSE <<>>

\* assert test, message: the edit replaces the whole line, from its start to
\* its end, so a statement before it is noticed and one after it is not.
AssertSites == [rule : {"assert"}, missing : BOOLEAN, holds : BOOLEAN, message : BOOLEAN,
                line : {"own", "before", "after"}]
AssertTarget(s) ==
    <<Eval("test")>> \o IF s.holds THEN <<>>
                        ELSE (IF s.message THEN <<Eval("message")>> ELSE <<>>)
                             \o <<Raise("AssertionError")>>
AssertSource(s) ==
    Neighbour(s, "before") \o AssertTarget(s)
    \o IF s.holds THEN Neighbour(s, "after") ELSE <<>>

\* The decorators are evaluated from the top and applied from the bottom: the
\* rule captures each in a name and writes f = top(bottom(f)) after the def,
\* which has bound f to the bare function by then.  raises: the one, counted
\* from the bottom, whose application raises.
DecoratorSites ==
    {s \in [rule : {"decorator"}, missing : BOOLEAN, count : 1..MaxDecorators, raises : 0..MaxDecorators] :
       s.raises <= s.count}
DecoratorRun(s, bare) ==
    LET reached == IF s.raises = 0 THEN s.count ELSE s.raises
    IN  [i \in 1..s.count |-> Eval(i)]
        \o [i \in 1..reached |-> Call(s.count + 1 - i, <<>>)]
        \o (IF s.raises = 0 THEN <<Bind("result")>> ELSE bare \o <<Raise("decorator")>>)

\* for x.a in items, with open() as x.a: the target becomes a temporary, and
\* the body starts with the assignment.  The body must be a block.
LoopSites == [rule : {"for_target"}, missing : BOOLEAN, block : BOOLEAN, rounds : 0..MaxParts]
LoopRun(s) ==
    <<Eval("items")>> \o FlattenSeq([i \in 1..s.rounds |->
        <<Call("next", <<>>), Eval("x"), Bind("x.a"), Eval("body")>>]) \o <<Call("next", <<>>)>>
WithSites == [rule : {"with_target"}, missing : BOOLEAN, block : BOOLEAN, items : 1..MaxParts]
WithRun(s) ==
    FlattenSeq([i \in 1..s.items |-> <<Eval("manager"), Call("enter", <<>>), Eval("x"), Bind("x.a")>>])
    \o <<Eval("body")>> \o [i \in 1..s.items |-> Call("exit", <<>>)]

\* The body of a with whose exit is bound once must not raise: literals and
\* bound names assigned to attributes of known classes count as such.  The
\* statement may be the last line of a source without a final newline.  has: the
\* class of the manager has both methods; the value that is returned has no block.
ExitSites ==
    [rule : {"with_exit"}, missing : BOOLEAN, known : BOOLEAN, has : BOOLEAN, calm : BOOLEAN,
     raises : BOOLEAN, newline : BOOLEAN, strings : BOOLEAN]
    \cup [rule : {"async_with"}, missing : BOOLEAN, known : BOOLEAN, has : BOOLEAN, calm : BOOLEAN,
          raises : BOOLEAN, newline : BOOLEAN, strings : {FALSE}]
ExitSource(s) ==
    IF ~s.has THEN <<Eval("manager"), Raise("TypeError")>>
    ELSE <<Eval("manager"), Call("enter", <<>>), Eval("body"), Call("exit", <<s.raises>>),
           IF s.raises THEN Raise("body") ELSE Value("body")>>
ExitTarget(s) ==
    IF s.rule = "with_exit" /\ ~s.newline THEN Unparsable
    ELSE IF ~s.has THEN <<Eval("manager"), Raise("AttributeError")>>
    ELSE IF s.raises THEN <<Eval("manager"), Call("enter", <<>>), Reindented(s, "body"), Raise("body")>>
    ELSE <<Eval("manager"), Call("enter", <<>>), Reindented(s, "body"), Call("exit", <<FALSE>>), Value("body")>>

----------------------------------------------------------------------------
Sites ==
    \/ site \in OperandSites({"binary"}) /\ source = BinarySource(site)
    \/ site \in OperandSites({"equality"}) /\ source = CompareSource(site, Value("identity"))
    \/ site \in OperandSites({"ordering"}) /\ source = CompareSource(site, Raise("TypeError"))
    \/ /\ site \in OperandSites({"inequality"})
       /\ "l" \in site.has /\ source = Inequality(CompareSource(site, Value("identity")))
    \/ site \in NanSites /\ source = NanRun
    \/ site \in UnarySites /\ source = MethodRun(site)
    \/ site \in ContainerSites({"in", "not_in"}) /\ site.has /\ source = ContainsSource(site)
    \/ /\ site \in ItemSites
       /\ site.has /\ source = IF site.rule = "getitem" THEN GetItemSource ELSE SetItemSource
    \/ site \in ContainerSites({"setattr"}) /\ site.has /\ source = SetAttrSource
    \/ site \in ContainerSites({"callable"}) /\ site.has /\ source = CallRun
    \/ site \in DescriptorSites /\ source = DescriptorSource(site)
    \/ site \in SuperSites /\ source = SuperSource(site)
    \/ site \in BoundEqSites /\ source = BoundEqRun(site)
    \/ site \in GatherSites /\ source = GatherSource(site)
    \/ site \in StopSites /\ source = StopRun(site, "stop", Value("list"))
    \/ site \in GetAttrSites /\ site.has /\ source = GetAttrSource(site)
    \/ /\ site \in DeleteSites
       /\ source = Chain([i \in 1..Len(site.targets) |-> DeleteSource(site.targets[i])])
    \/ site \in BuiltinSites /\ source = BuiltinSource(site)
    \/ site \in ConversionSites /\ source = MethodRun(site)
    \/ site \in FoldedSites /\ source = FoldSource(site)
    \/ site \in LateSites /\ source = LateRun
    \/ site \in DataclassSites /\ source = DataclassSource(site)
    \/ site \in ComprehensionSites /\ source = ComprehensionSource
    \/ site \in ClassNameSites /\ source = ClassNameSource(site)
    \/ site \in IfSites /\ source = IfSource(site)
    \/ site \in NestedSites /\ source = NestedSource(site)
    \/ site \in PrivateSites /\ source = PrivateSource
    \/ site \in PercentSites /\ source = PercentSource(site)
    \/ site \in FormatSites /\ source = FormatSource(site)
    \/ site \in FStringSites /\ source = FStringSource(site)
    \/ site \in UnionSites /\ source = UnionSource(site)
    \/ site \in LazySites /\ source = LazySource(site)
    \/ site \in TupleSites /\ source = TupleSource(site)
    \/ site \in ImportSites /\ source = ImportSource(site)
    \/ site \in AssertSites /\ source = AssertSource(site)
    \/ site \in DecoratorSites /\ source = DecoratorRun(site, <<>>)
    \/ site \in LoopSites /\ source = LoopRun(site)
    \/ site \in WithSites /\ source = WithRun(site)
    \/ site \in ExitSites /\ source = ExitSource(site)

RuleInit ==
    /\ Sites
    /\ decision = "pending"
    /\ code = <<>>
    /\ trace = <<>>

\* A handler diagnoses a site that it recognises and cannot rewrite, rewrites
\* it, or leaves it to run as it is written.
Lower(rules, cannot, applies, events) ==
    /\ decision = "pending"
    /\ site.rule \in rules
    /\ decision' = IF cannot THEN "diagnosed" ELSE IF applies THEN "applied" ELSE "left"
    /\ code' = IF decision' = "applied" THEN events ELSE source
    /\ UNCHANGED <<site, source, trace>>

Handle(rules, applies, events) == Lower(rules, FALSE, applies, events)

\* An operator whose right class has a reflected method that the target does
\* not call is diagnosed first.
LowerBinary ==
    Lower({"binary"}, ReflectedIsLost(site), BinaryApplies(site), DirectCall("l", "r", site.declines))
LowerCompare == Handle({"equality", "ordering"}, CompareApplies(site), CompareTarget(site))
LowerInequality == Handle({"inequality"}, BinaryApplies(site), InequalityTarget(site))
LowerNan == Handle({"nan"}, site.missing /\ site.shared, NanRun)
LowerUnary == Handle({"unary"}, MethodApplies(site), MethodRun(site))
LowerContains == Handle({"in", "not_in"}, MethodApplies(site), ContainsTarget(site))
LowerGetItem == Handle({"getitem"}, MethodApplies(site), GetItemTarget(site))
LowerSetItem == Handle({"setitem"}, MethodApplies(site), SetItemTarget(site))
LowerSetAttr == Handle({"setattr"}, MethodApplies(site), SetAttrTarget)
LowerCallable == Handle({"callable"}, MethodApplies(site), CallRun)

\* The rewriting of an access asks no capability; a decorator that is not alone is
\* diagnosed.
LowerDescriptor ==
    Lower({"descriptor"}, site.missing /\ ~site.alone /\ ~Rewritten(site),
          Removed(site) \/ Rewritten(site), DescriptorTarget(site))
LowerSuper == Lower({"super"}, site.missing /\ ~SuperResolves(site), site.missing, SuperTarget(site))
LowerGetAttr == Handle({"getattr"}, GetAttrApplies(site), AccessRun)
LowerBoundEq == Handle({"bound_eq"}, site.missing /\ site.oneOwner, BoundEqTarget(site))
LowerDelete ==
    Lower({"delete"}, site.missing /\ \E i \in 1..Len(site.targets) : ~Deletable(site.targets[i]),
          site.missing, Chain([i \in 1..Len(site.targets) |-> DeleteTarget(site.targets[i])]))

LowerBuiltin == Handle({"builtin"}, MethodApplies(site), BuiltinTarget(site))
LowerConversion == Lower({"conversion"}, MethodApplies(site), FALSE, <<>>)
LowerFolded == Handle(FoldedRules, FoldApplies(site), FoldTarget)
LowerPercent == Handle({"percent"}, site.missing, PercentTarget(site))
LowerFormat == Handle({"str_format"}, site.missing, FormatTarget(site))
LowerFString == Handle({"fstring"}, site.missing /\ site.known /\ site.single, FStringTarget(site))
LowerUnion == Handle({"union"}, site.missing, UnionTarget(site))
LowerGather == Handle({"gather"}, site.missing, GatherTarget(site))
LowerCallableIterator ==
    Handle({"callable_iterator"}, site.missing, StopRun(site, "f", Call("f", <<>>)))
LowerLazy == Lower({"lazy", "generator"}, site.missing /\ ~LazyApplies(site), site.missing, LazyTarget(site))
LowerLateBound == Lower({"late_bound"}, site.missing /\ ~LateApplies(site), site.missing, LateRun)

LowerDataclass ==
    Lower({"dataclass"}, site.missing /\ (~site.alone \/ site.own = "__init__"), site.missing, DataclassTarget(site))
LowerDataclassImport == Handle({"dataclass_import"}, site.missing, ImportTarget(site))
LowerClassComprehension == Handle({"class_comprehension"}, site.missing, ComprehensionTarget(site))
LowerClassName == Handle({"class_name"}, site.missing /\ site.known, ClassNameTarget(site))
LowerStaticIf == Lower({"class_body_if", "dead_if"}, IfIsDiagnosed(site), IfApplies(site), IfTarget(site))
LowerNestedClass == Handle({"nested_class"}, site.missing, NestedTarget(site))
LowerPrivateName == Handle({"private_name"}, site.missing, PrivateTarget(site))
LowerClassTuple == Lower({"class_tuple"}, site.missing /\ ~site.names, site.missing, TupleTarget(site))

LowerDecorator == Handle({"decorator"}, site.missing, DecoratorRun(site, <<Bind("function")>>))
LowerAssert == Lower({"assert"}, site.missing /\ site.line = "before", site.missing, AssertTarget(site))
LowerForTarget == Lower({"for_target"}, site.missing /\ ~site.block, site.missing, LoopRun(site))
LowerWithTarget ==
    Lower({"with_target"}, site.missing /\ (site.items # 1 \/ ~site.block), site.missing, WithRun(site))
LowerWithExit ==
    Handle({"with_exit", "async_with"}, site.missing /\ site.known /\ site.calm, ExitTarget(site))

\* The next event of the text.
Happen ==
    /\ decision # "pending"
    /\ Len(trace) < Len(code)
    /\ trace' = Append(trace, code[Len(trace) + 1])
    /\ UNCHANGED <<site, source, decision, code>>

RuleNext ==
    \/ LowerBinary \/ LowerCompare \/ LowerInequality \/ LowerNan \/ LowerUnary
    \/ LowerContains \/ LowerGetItem \/ LowerSetItem \/ LowerSetAttr
    \/ LowerCallable \/ LowerDescriptor \/ LowerSuper \/ LowerGetAttr
    \/ LowerBoundEq \/ LowerDelete
    \/ LowerBuiltin \/ LowerConversion \/ LowerFolded \/ LowerPercent
    \/ LowerFormat \/ LowerFString \/ LowerUnion \/ LowerGather
    \/ LowerCallableIterator \/ LowerLazy \/ LowerLateBound
    \/ LowerDataclass \/ LowerDataclassImport \/ LowerClassComprehension \/ LowerClassName
    \/ LowerStaticIf \/ LowerNestedClass \/ LowerPrivateName
    \/ LowerClassTuple
    \/ LowerDecorator \/ LowerAssert \/ LowerForTarget \/ LowerWithTarget
    \/ LowerWithExit \/ Happen

RuleSpec == RuleInit /\ [][RuleNext]_ruleVars

----------------------------------------------------------------------------
(* What is known to diverge: for each rule, the circumstances that its own  *)
(* conditions do not exclude and in which the text does something else.     *)

Diverges ==
    CASE site.rule = "binary" ->
           (site.right = "sub" /\ "r" \in site.has) \/ "l" \in site.declines
      [] site.rule \in {"equality", "ordering"} ->
           \/ "l" \notin site.known
           \/ site.right = "sub" /\ "r" \in site.has
           \/ "l" \in site.declines
      [] site.rule = "inequality" -> (site.right = "sub" /\ "r" \in site.has) \/ "l" \in site.declines
      [] site.rule = "descriptor" ->
           \/ site.kind = "class" /\ Reached(site) /\ site.bare
           \/ Removed(site) /\ ~Reached(site) /\ ~(site.kind = "static" /\ site.through = "class")
           \/ ~Removed(site) /\ site.kind # "static"
      [] site.rule \in {"in", "not_in", "setitem", "setattr"} -> TRUE
      [] site.rule = "getitem" -> site.key = "slice"
      [] site.rule = "super" ->
           \/ site.next = "sibling" \/ site.bare \/ site.kind # site.from
           \/ site.kind = "class" /\ ~site.removed
      [] site.rule = "getattr" -> site.found # "missing"
      [] site.rule = "gather" -> site.ends = "cancelled"
      [] site.rule = "callable_iterator" -> site.stop # "plain"
      [] site.rule = "delete" ->
           \E i \in 1..Len(site.targets) : LET t == site.targets[i] IN
              t.of \in {"tuple", "float"} \/ OtherKey(t)
      [] site.rule = "builtin" ->
           \/ site.shadowed
           \/ site.name = "list" /\ (site.sized \/ site.odd)
           \/ site.name \in Checked /\ site.odd
           \/ Regrouped(site)
      [] site.rule = "percent" ->
           site.shadowed \/ site.of = "tuple" \/ (site.conversion = "%d" /\ site.of # "integer")
      [] site.rule = "str_format" -> site.starred \/ site.shadowed \/ (site.of = "formats" /\ site.field = "{}")
      [] site.rule = "fstring" ->
           IF site.has THEN site.odd \/ site.beside
           ELSE site.spec = "none" /\ (site.beside \/ ~site.inherits)
      [] site.rule = "union" -> site.of = "overriding"
      [] site.rule = "lazy" -> site.shadowed
      [] site.rule \in FoldedRules -> site.bound # "not" \/ (OfClass(site) /\ ~site.plain)
      [] site.rule = "dataclass" ->
           \/ site.own # "none" \/ site.options # "none" \/ site.field # "plain"
           \/ site.other # "same"
      [] site.rule \in {"class_body_if", "dead_if"} ->
           \/ site.strings /\ (site.test = "True" \/ site.clauses = "else")
           \/ /\ site.test = "False"
              /\ site.clauses = "elif" \/ (site.clauses = "none" /\ site.only)
      [] site.rule = "class_comprehension" -> site.uses # "module"
      [] site.rule = "class_name" -> site.odd \/ site.local \/ site.read = "else"
      [] site.rule = "dataclass_import" -> site.used \/ site.line # "own"
      [] site.rule = "nested_class" -> site.before \/ site.header \/ site.shown \/ site.strings
      [] site.rule = "private_name" -> site.bound # "assignment"
      [] site.rule = "class_tuple" ->
           site.of # "exact" \/ site.line # "own"
      [] site.rule = "assert" -> site.line = "after" /\ site.holds
      [] site.rule = "decorator" -> site.raises # 0
      [] site.rule = "with_exit" -> site.raises \/ ~site.newline \/ ~site.has \/ site.strings
      [] site.rule = "async_with" -> site.raises \/ ~site.has
      [] OTHER -> FALSE

Ended == decision # "pending" /\ trace = code

\* The observable run of a rewritten site is that of the site under CPython,
\* event for event, outside the circumstances named above, and only there: what
\* a rule's conditions do not exclude is known, and nothing else diverges.  A
\* site that is left or diagnosed keeps its run.
PreservedOutsideTheKnownGaps ==
    Ended => (trace = source <=> ~(decision = "applied" /\ Diverges))

\* What runs at a site that is decided on is as the decision says.
Decided ==
    decision # "pending" => (code = source <=> ~(decision = "applied" /\ Diverges))

\* The inductive invariant: the site is one of those of its rule.
RuleInv == Sites /\ decision \in Decisions /\ Decided

CallsOf(events) == SelectSeq(events, LAMBDA event : event[1] = "call")

\* A user-class operator is lowered only where that leaves the precedence of
\* the reflected method as it is: the methods that the rewritten operator calls
\* are those that CPython would have called there, in that order.
ReflectedPrecedenceIsKept ==
    site.rule = "binary" /\ decision = "applied" => IsPrefix(CallsOf(trace), CallsOf(source))
============================================================================
