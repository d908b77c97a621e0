--------------------------- MODULE ClassHierarchy ---------------------------
(***************************************************************************)
(* Classes as monty-lower sees them and as the program has them: the facts  *)
(* know a class by its name and follow the first base that is a name        *)
(* (crates/monty-lower/src/facts.rs); CPython knows the class that the name *)
(* was bound to, and follows the method resolution order.  Where the target *)
(* has no inheritance, one pass copies the members of a single base into    *)
(* each class and removes the base (lower_class_inheritance in lower.rs);   *)
(* then the program runs, and may set attributes of its classes.            *)
(***************************************************************************)
EXTENDS Integers, Sequences, FiniteSets, SequencesExt

CONSTANTS
    Hierarchies,    \* the sequences of classes considered
    ClassNames,
    Members         \* names of members; private ones, which are of one class, are none

\* A base that is a name no class of the source has, and one that is no name.
External == "external"
Expression == "expression"

\* own: the members that the body binds; methods: those that a def of its own
\* does; declared: those that it annotates without a value, which binds nothing;
\* strings: those whose text has a string over several lines; inline: the body
\* stands on the line of the class statement.
Class ==
    {c \in [name : ClassNames, bases : Seq(ClassNames \cup {External, Expression}),
            own : SUBSET Members, methods : SUBSET Members, declared : SUBSET Members,
            strings : SUBSET Members, inline : BOOLEAN] :
       c.methods \subseteq c.own /\ c.strings \subseteq c.own}

ASSUME HierarchiesAssumption ==
    Hierarchies \subseteq Seq(Class) /\ ClassNames \cap {External, Expression} = {}

VARIABLES
    classes,        \* the classes as they are written
    orders,         \* the method resolution orders of those that CPython has defined
    visited,        \* how many of them the pass has visited
    refused,        \* a class had a diagnostic: the source is not lowered
    bodies,         \* of each visited class, the class that each member comes from
    asked,          \* the class and the member that resolves_method is asked for
    current,        \* the class it looks at; its answer at the end, 0 for none
    met,            \* those it has looked at
    resolving,      \* "no", "walking" or "answered"
    assigned        \* the attributes of classes that the program has set

walkVars == <<asked, current, met, resolving>>
hierarchyVars == <<classes, orders, visited, refused, bodies, walkVars, assigned>>

HierarchyInit ==
    /\ classes \in Hierarchies
    /\ orders = <<>>
    /\ visited = 0
    /\ refused = FALSE
    /\ bodies = <<>>
    /\ asked = <<>> /\ current = 0 /\ met = {} /\ resolving = "no"
    /\ assigned = {}

----------------------------------------------------------------------------
(* What CPython does with the classes as they are written; this comes first, *)
(* to compare with.                                                         *)

\* The class that a name of a base is bound to when class i is defined; a class
\* from elsewhere has no number of its own.
Elsewhere == {-1, -2}
NamedBefore(i, name) == {k \in 1..(i - 1) : classes[k].name = name}
BoundTo(i, name) ==
    IF name = External THEN -1 ELSE IF name = Expression THEN -2 ELSE Max(NamedBefore(i, name))

RuntimeBases(i) ==
    [b \in 1..Len(classes[i].bases) |-> BoundTo(i, classes[i].bases[b])]

\* What C3 merges: the orders of the bases, and the bases as they are listed.
OrderOf(k) == IF k \in Elsewhere THEN <<k>> ELSE orders[k]
ToMerge(i) ==
    LET bases == RuntimeBases(i)
    IN  [p \in 1..(Len(bases) + 1) |-> IF p <= Len(bases) THEN OrderOf(bases[p]) ELSE bases]

\* What may come next from the p-th list once some classes are taken: its head,
\* unless it stands in a list behind one that is not taken.
Ready(lists, p, taken) ==
    {k \in Range(lists[p]) \ taken :
        \A q \in DOMAIN lists : \A n \in DOMAIN lists[q] :
            lists[q][n] = k => \A j \in 1..(n - 1) : lists[q][j] \in taken}

\* Each class comes from the first list that has one ready.
IsMerge(merged, lists) ==
    \A n \in DOMAIN merged :
        LET taken == {merged[j] : j \in 1..(n - 1)} IN
        \E p \in DOMAIN lists :
            /\ merged[n] \in Ready(lists, p, taken)
            /\ \A q \in 1..(p - 1) : Ready(lists, q, taken) = {}

AllOf(lists) == UNION {Range(lists[p]) : p \in DOMAIN lists}

\* A class statement raises when a base is not bound, or nothing is a merge.
DefineClass ==
    /\ Len(orders) < Len(classes)
    /\ LET i == Len(orders) + 1 IN
       /\ \A name \in Range(classes[i].bases) :
              name \in {External, Expression} \/ NamedBefore(i, name) # {}
       /\ \E merged \in SetToSeqs(AllOf(ToMerge(i))) :
              IsMerge(merged, ToMerge(i)) /\ orders' = Append(orders, <<i>> \o merged)
    /\ UNCHANGED <<classes, visited, refused, bodies, walkVars, assigned>>

Defined == Len(orders) = Len(classes)

\* The class of the program that answers for a member, 0 for none.  A class
\* from elsewhere may have any member.
Provides(k, member) ==
    k \in Elsewhere \/ member \in classes[k].own \/ <<k, member>> \in assigned
Inherited(i, member) ==
    LET providers == {n \in 1..Len(orders[i]) : Provides(orders[i][n], member)}
    IN  IF providers = {} THEN 0 ELSE orders[i][Min(providers)]

----------------------------------------------------------------------------
(* What monty-lower does.                                                   *)

\* Facts are a map by name: of two classes of one name, the last is known.
Known(name) ==
    LET named == {k \in 1..Len(classes) : classes[k].name = name}
    IN  IF named = {} THEN 0 ELSE Max(named)

\* Members of the base that the child does not name itself, with a value or
\* without, go before the line that its body starts on: in front of the class, where
\* that is its own line.  They are the base's own, as they are written, but for the
\* lines of their strings, which are indented with the others.
Altered == -3
Copied(i, base) ==
    IF base = 0 \/ classes[i].inline THEN {} ELSE classes[base].own \ classes[i].declared
BodyOf(i, base) ==
    [m \in Members |->
        IF m \in classes[i].own THEN i
        ELSE IF m \notin Copied(i, base) THEN 0
        ELSE IF m \in classes[base].strings THEN Altered ELSE base]

SingleKnownBaseAny(bases) == Known(bases[1]) # 0
SingleKnownBase(bases) == Len(bases) = 1 /\ Known(bases[1]) # 0

VisitClass ==
    /\ Defined /\ visited < Len(classes)
    /\ LET i == visited + 1
           bases == classes[i].bases
           flattens == bases # <<>> /\ SingleKnownBase(bases)
       IN /\ bodies' = Append(bodies, BodyOf(i, IF flattens THEN Known(bases[1]) ELSE 0))
          /\ refused' = (refused \/ (bases # <<>> /\ ~flattens))
    /\ visited' = visited + 1
    /\ UNCHANGED <<classes, orders, walkVars, assigned>>

\* A base that is no name is not among the bases of the facts; 0 when there is
\* no other, or the source has no class of its name.
FollowLast(bases) == Max(bases)
Follow(bases) == Min(bases)
NextBase(k) ==
    LET bases == classes[k].bases
        named == {b \in 1..Len(bases) : bases[b] # Expression}
    IN  IF named = {} THEN 0 ELSE Known(bases[Follow(named)])

\* resolves_method, as a rule calls it in the pass: from the class of that name
\* along the first bases, never past a class twice.
AskForMethod ==
    /\ Defined /\ resolving # "walking" /\ assigned = {}
    /\ \E i \in 1..Len(classes), m \in Members :
          asked' = <<i, m>> /\ current' = Known(classes[i].name)
    /\ met' = {}
    /\ resolving' = "walking"
    /\ UNCHANGED <<classes, orders, visited, refused, bodies, assigned>>

FindMethod ==
    /\ resolving = "walking" /\ current \notin met /\ asked[2] \in classes[current].methods
    /\ resolving' = "answered"
    /\ UNCHANGED <<classes, orders, visited, refused, bodies, asked, current, met, assigned>>

FollowBase ==
    /\ resolving = "walking" /\ current \notin met /\ asked[2] \notin classes[current].methods
    /\ NextBase(current) # 0
    /\ current' = NextBase(current)
    /\ met' = met \cup {current}
    /\ UNCHANGED <<classes, orders, visited, refused, bodies, asked, resolving, assigned>>

FindNothing ==
    /\ resolving = "walking"
    /\ current \in met \/ (asked[2] \notin classes[current].methods /\ NextBase(current) = 0)
    /\ current' = 0
    /\ resolving' = "answered"
    /\ UNCHANGED <<classes, orders, visited, refused, bodies, asked, met, assigned>>

\* C.member = value, somewhere in the program that runs after the pass.
AssignAttribute ==
    /\ Defined /\ visited = Len(classes) /\ resolving # "walking"
    /\ \E k \in 1..Len(classes), m \in Members : assigned' = assigned \cup {<<k, m>>}
    /\ UNCHANGED <<classes, orders, visited, refused, bodies, walkVars>>

HierarchyNext ==
    \/ DefineClass \/ VisitClass
    \/ AskForMethod \/ FindMethod \/ FollowBase \/ FindNothing
    \/ AssignAttribute

HierarchySpec == HierarchyInit /\ [][HierarchyNext]_hierarchyVars

----------------------------------------------------------------------------
Ancestors(i) == Range(orders[i]) \ Elsewhere
UniqueNames == \A j, k \in 1..Len(classes) : classes[j].name = classes[k].name => j = k

\* What a class of the flattened program has of a member: the class whose text
\* it is, or itself when the program has set it.
Flattened(i, member) == IF <<i, member>> \in assigned THEN i ELSE bodies[i][member]

\* A flattened class has the members it inherited and no other, outside six known
\* gaps: two classes share a name; the member comes from a grandparent, as only the
\* base's own text is copied; the class annotates the member without a value; its
\* body stands on the line of its header; the member has a string over several
\* lines; and a base's attribute is set once the program runs.
FlattenedAsInherited ==
    visited = Len(classes) /\ ~refused =>
        \A i \in 1..visited, m \in Members :
            \/ Flattened(i, m) = Inherited(i, m)
            \/ ~UniqueNames
            \/ Inherited(i, m) \notin {0, i} \cup Range(RuntimeBases(i))
            \/ m \in classes[i].declared \/ classes[i].inline
            \/ \E k \in Ancestors(i) \ {i} : <<k, m>> \in assigned \/ m \in classes[k].strings

\* Two bases of a class share an ancestor.
Diamond(i) ==
    LET bases == RuntimeBases(i)
    IN  \E a, b \in 1..Len(bases) :
            a # b /\ Range(OrderOf(bases[a])) \cap Range(OrderOf(bases[b])) # {}

\* A method that the facts resolve is the one that CPython dispatches to, outside
\* five known gaps: two classes share a name; an ancestor has two bases with a
\* common ancestor, whose override the chain of first bases overlooks; it has a
\* base that is no name; it binds the member otherwise than by a def of its body;
\* and an attribute of an ancestor is set as the program runs.
ResolvedAsDispatched ==
    resolving = "answered" =>
        LET i == asked[1]
            m == asked[2]
        IN  \/ current \in {0, Inherited(i, m)}
            \/ ~UniqueNames
            \/ \E k \in Ancestors(i) :
                  \/ Diamond(k) \/ Expression \in Range(classes[k].bases)
                  \/ m \in classes[k].own \ classes[k].methods \/ <<k, m>> \in assigned

----------------------------------------------------------------------------
(* Why the two properties hold.                                             *)

HierarchyTypeOK ==
    /\ classes \in Hierarchies
    /\ orders \in Seq(Seq(1..Len(classes) \cup Elsewhere)) /\ Len(orders) <= Len(classes)
    /\ visited \in 0..Len(classes)
    /\ refused \in BOOLEAN
    /\ bodies \in Seq([Members -> 0..Len(classes) \cup {Altered}]) /\ Len(bodies) = visited
    /\ current \in 0..Len(classes)
    /\ met \subseteq 1..Len(classes)
    /\ resolving \in {"no", "walking", "answered"}
    /\ resolving # "no" => Defined /\ asked \in (1..Len(classes)) \X Members
    /\ resolving = "walking" => current # 0 /\ assigned = {}
    /\ assigned \subseteq (1..Len(classes)) \X Members
    /\ visited > 0 \/ assigned # {} => Defined

\* The n-th place and those behind it start with an order.
GoesOnWith(order, n, part) ==
    /\ n + Len(part) <= Len(order)
    /\ \A j \in 1..Len(part) : order[n + j] = part[j]

BasesBound(i) ==
    \A b \in 1..Len(classes[i].bases) :
        classes[i].bases[b] \in {External, Expression}
          \/ RuntimeBases(i)[b] \in NamedBefore(i, classes[i].bases[b])

\* The order of a class: itself, then classes defined before it, none twice; and
\* right behind itself the order of its first base, unless two bases share an
\* ancestor.
OrderInv ==
    \A i \in 1..Len(orders) :
        /\ IsInjective(orders[i]) /\ orders[i] # <<>> /\ orders[i][1] = i
        /\ \A n \in 2..Len(orders[i]) : orders[i][n] < i
        /\ BasesBound(i)
        /\ Diamond(i) \/ classes[i].bases = <<>> \/ GoesOnWith(orders[i], 1, OrderOf(RuntimeBases(i)[1]))

VisitInv ==
    \A i \in 1..visited :
        LET bases == classes[i].bases
            flattens == bases # <<>> /\ SingleKnownBase(bases)
        IN  /\ bodies[i] = BodyOf(i, IF flattens THEN Known(bases[1]) ELSE 0)
            /\ refused \/ flattens \/ bases = <<>>

\* A class whose ancestors have their order from the chain of first bases.
Plain(i) ==
    UniqueNames /\ \A k \in Ancestors(i) : ~Diamond(k) /\ Expression \notin Range(classes[k].bases)

\* The walk is somewhere in the order of the class it is asked for, and has met
\* those before, none of which has the method.
WalkInv ==
    resolving # "no" /\ Plain(asked[1]) /\ current # 0 =>
        /\ \E n \in 0..Len(orders[asked[1]]) :
              /\ GoesOnWith(orders[asked[1]], n, orders[current])
              /\ \A j \in 1..n : /\ orders[asked[1]][j] \in 1..Len(classes)
                                /\ asked[2] \notin classes[orders[asked[1]][j]].methods
        /\ resolving = "answered" => asked[2] \in classes[current].methods

HierarchyIInv == HierarchyTypeOK /\ OrderInv /\ VisitInv /\ WalkInv
============================================================================
