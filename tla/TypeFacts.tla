----------------------------- MODULE TypeFacts -----------------------------
(***************************************************************************)
(* What monty-lower believes of a name (crates/monty-lower/src/facts.rs):   *)
(* the collectors walk the text once and record, whatever the order of      *)
(* execution, what the name may be bound to, and whether what it is bound   *)
(* to is ever used.  Then the program runs: the occurrences of the name     *)
(* execute in any order, any number of times, as control flow has it.       *)
(*                                                                         *)
(* The text is the sequence of the occurrences of one name, and of the       *)
(* expressions that stand as statements.  An expression is what its form    *)
(* says it yields, and what it yields in fact.  Results are known by the    *)
(* offset at which they start: head says that the expression starts with a  *)
(* call whose result the rest of it uses.                                   *)
(***************************************************************************)
EXTENDS Integers, Sequences

CONSTANTS
    Classes,        \* the classes that the source defines
    Kinds,          \* the builtin types: dict, float, list, tuple
    Texts           \* the texts considered

Instance(class) == <<"instance", class>>
Builtin(kind) == <<"builtin", kind>>
Other == <<"other", "">>
Facts == {Instance(c) : c \in Classes} \cup {Builtin(k) : k \in Kinds}
Things == Facts \cup {Other}

Unbound == <<"unbound", "">>
Ambiguous == <<"ambiguous", "">>

\* x = e and x: t = e; the forms that bind x to something that is not looked
\* at; those that the collector does not know; and the uses of x.
ValueForms == {"assign", "annotated"}
OpaqueForms == {"for", "with", "def", "parameter", "unpacking"}
UnrecordedForms ==
    {"walrus", "import", "except", "capture", "class", "lambda", "comprehension", "augmented", "eval"}
\* "attribute": a variable of a class, read through it; "augmented": x += e, of
\* which the parser says that x is stored to, and which binds x to what it makes
\* of what x held; "eval": eval, exec, globals, locals and vars, which may do both.
Uses == {"load", "eval", "attribute", "augmented"}

Occurrence ==
    [form : ValueForms, says : Things, yields : Things, head : BOOLEAN]
    \cup [form : OpaqueForms \cup UnrecordedForms, says : {Other}, yields : Things, head : {FALSE}]
    \cup [form : {"declared", "delete", "load", "attribute"}, says : {Other}, yields : {Other}, head : {FALSE}]
    \cup [form : {"statement"}, says : {Other}, yields : {Other}, head : BOOLEAN]

ASSUME TextsAssumption == Texts \subseteq Seq(Occurrence)

VARIABLES
    text,           \* the occurrences
    collected,      \* how many of them the collectors have visited
    fact,           \* what the bindings map holds for the name
    referenced,     \* the name is in referenced_names
    dynamic,        \* has_dynamic_namespace_access
    held,           \* the occurrence that bound what the name holds, or 0
    read            \* the occurrences whose result was used

factVars == <<text, collected, fact, referenced, dynamic, held, read>>

----------------------------------------------------------------------------
BindingState(o) ==
    IF o.form \in ValueForms /\ o.says \in Facts THEN o.says ELSE Ambiguous

\* BindingCollector.record: a name keeps its state as long as every binding
\* agrees with it, and never recovers from an ambiguity.
RecordLast(state) == fact' = state
Record(state) ==
    fact' = IF fact \in {Unbound, state} THEN state ELSE Ambiguous

\* An annotation without a value is recorded too, although it binds nothing.
IsRecorded(o) == o.form \in ValueForms \cup OpaqueForms \cup {"declared"}

Binds(o) == o.form \in ValueForms \cup OpaqueForms \cup UnrecordedForms

FactsInit ==
    /\ text \in Texts
    /\ collected = 0
    /\ fact = Unbound
    /\ referenced = FALSE
    /\ dynamic = FALSE
    /\ held = 0
    /\ read = {}

\* Names in a load or a delete context are referenced; an attribute of that
\* name is none; eval, exec, globals, locals and vars may reach any name.
IsReference(o) == o.form \in {"load", "delete"}

Collect ==
    /\ collected < Len(text)
    /\ LET o == text[collected + 1] IN
       /\ IF IsRecorded(o) THEN Record(BindingState(o)) ELSE UNCHANGED fact
       /\ referenced' = (referenced \/ IsReference(o))
       /\ dynamic' = (dynamic \/ o.form = "eval")
    /\ collected' = collected + 1
    /\ UNCHANGED <<text, held, read>>

\* DeadResultCollector: what an assignment binds to a name that nothing refers
\* to, and what an expression statement yields.
IsDeadByName(o) == (o.form \in ValueForms /\ ~referenced) \/ o.form = "statement"

IsDead(o) ==
    /\ ~dynamic
    /\ (o.form \in ValueForms /\ ~referenced) \/ o.form = "statement"

\* Control flow reaches an occurrence that binds the name, or a statement.
Execute ==
    /\ collected = Len(text)
    /\ \E i \in 1..Len(text) :
          /\ Binds(text[i]) \/ text[i].form = "statement"
          /\ text[i].form = "augmented" => held # 0
          /\ held' = IF Binds(text[i]) THEN i ELSE held
          /\ read' = read \cup (IF text[i].head THEN {i} ELSE {})
                          \cup (IF text[i].form = "augmented" THEN {held} ELSE {})
    /\ UNCHANGED <<text, collected, fact, referenced, dynamic>>

\* Control flow reaches a use of the name.
Use ==
    /\ collected = Len(text)
    /\ held # 0
    /\ \E i \in 1..Len(text) : text[i].form \in Uses
    /\ read' = read \cup {held}
    /\ UNCHANGED <<text, collected, fact, referenced, dynamic, held>>

FactsNext == Collect \/ Execute \/ Use

FactsSpec == FactsInit /\ [][FactsNext]_factVars

----------------------------------------------------------------------------
FactsTypeOK ==
    /\ text \in Seq(Occurrence)
    /\ collected \in 0..Len(text)
    /\ fact \in Facts \cup {Unbound, Ambiguous}
    /\ referenced \in BOOLEAN
    /\ dynamic \in BOOLEAN
    /\ held \in 0..Len(text)
    /\ read \subseteq 1..Len(text)

\* What the collectors have established of the occurrences they visited.
CollectedInv ==
    \A i \in 1..Len(text) : i <= collected =>
        /\ IsRecorded(text[i]) => fact \in {BindingState(text[i]), Ambiguous}
        /\ IsReference(text[i]) => referenced
        /\ text[i].form = "eval" => dynamic

RunInv ==
    /\ held # 0 \/ read # {} => collected = Len(text)
    /\ held # 0 => Binds(text[held])
    /\ \A i \in read :
          \/ text[i].head
          \/ Binds(text[i]) /\ \E j \in 1..Len(text) : text[j].form \in Uses

FactsIInv == FactsTypeOK /\ CollectedInv /\ RunInv

\* The form of the binding is unknown to the collector, or its expression
\* yields something other than it says (a class name that was rebound, a
\* __new__ that returns something else).
Surprises(o) ==
    o.form \in UnrecordedForms \/ (o.says \in Facts /\ o.says # o.yields)

\* A rule that asks for the class or the builtin type of a name is told what
\* the name holds, whichever of its bindings ran last and in whichever order
\* they ran, unless that binding was a surprise.
FactsAreSound ==
    collected = Len(text) /\ fact \in Facts /\ held # 0 =>
        Surprises(text[held]) \/ text[held].yields = fact

\* A lazy builtin is replaced only where its result is dead, and no dead result
\* is ever used, but for the three ways that the collectors do not see: by the
\* rest of an expression that it starts, through an attribute of a class, and
\* by an augmented assignment.
DeadResultsAreUnread ==
    \A i \in read : IsDead(text[i]) =>
        text[i].head \/ \E j \in 1..Len(text) : text[j].form \in {"attribute", "augmented"}
============================================================================
