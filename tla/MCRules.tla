------------------------------- MODULE MCRules -------------------------------
(***************************************************************************)
(* What one pass of monty-lower does beyond its walk (LoweringPasses): the  *)
(* rules, the lowering of match statements, the facts, class hierarchies,   *)
(* and the application of the edits.  Each is checked alone: a behaviour is *)
(* one of any of them, while the others stay as they are at their start.    *)
(***************************************************************************)
EXTENDS SourceEdits, RuleSemantics, MCMatch, TypeFacts, ClassHierarchy

VARIABLE part   \* the one that runs

partVars == <<part, editVars, ruleVars, matchVars, factVars, hierarchyVars>>

----------------------------------------------------------------------------
(* Lists of up to three edits of a source of three bytes, of which the last *)
(* two are one character.                                                   *)
MCRanges == {<<a, b>> : a, b \in 0..3} \cup {<<0, 4>>}
MCEditLists ==
    UNION {{[i \in 1..k |-> [start |-> r[i][1], end |-> r[i][2], id |-> i]] :
               r \in [1..k -> MCRanges]} : k \in 0..3}

----------------------------------------------------------------------------
(* Texts of up to three occurrences of one name.                            *)
MCOccurrences ==
    {[form |-> "assign", says |-> a, yields |-> b, head |-> FALSE] :
        a \in {Instance("C"), Builtin("dict"), Other}, b \in {Instance("C"), Builtin("dict"), Other}}
    \cup {[form |-> f, says |-> Other, yields |-> Instance("C"), head |-> FALSE] :
             f \in {"for", "def", "walrus", "capture", "comprehension"}}
    \cup {[form |-> f, says |-> Other, yields |-> Other, head |-> FALSE] : f \in {"augmented", "eval"}}
    \cup {[form |-> "annotated", says |-> Other, yields |-> Other, head |-> TRUE]}
    \cup {[form |-> f, says |-> Other, yields |-> Other, head |-> FALSE] :
             f \in {"declared", "load", "delete", "attribute", "statement"}}
    \cup {[form |-> "statement", says |-> Other, yields |-> Other, head |-> TRUE]}
MCTexts == UNION {[1..n -> MCOccurrences] : n \in 1..3}

----------------------------------------------------------------------------
(* Hierarchies of up to four classes, of which two may have one name.       *)
ShapeOf(own, methods, declared, strings) ==
    [own |-> own, methods |-> methods, declared |-> declared, strings |-> strings]
Empty == ShapeOf({}, {}, {}, {})
Def == ShapeOf({"m"}, {"m"}, {}, {})
Shapes == {Empty, Def, ShapeOf({"m"}, {}, {}, {}), ShapeOf({}, {}, {"m"}, {}), ShapeOf({"m"}, {"m"}, {}, {"m"})}
ClassOf(n, b, o) ==
    [name |-> n, bases |-> b, inline |-> FALSE, own |-> o.own, methods |-> o.methods,
     declared |-> o.declared, strings |-> o.strings]
MCHierarchies ==
    {<<ClassOf("A", <<>>, o), [ClassOf("B", b, p) EXCEPT !.inline = inline]>> :
        o, p \in Shapes, b \in {<<>>, <<"A">>, <<External>>, <<Expression>>}, inline \in BOOLEAN}
    \cup {<<ClassOf("A", <<>>, o), ClassOf("B", <<"A">>, p), ClassOf("A", a, q), ClassOf("C", <<"A">>, Empty)>> :
             o, p, q \in Shapes, a \in {<<>>, <<"B">>}}
    \cup {<<ClassOf("A", <<>>, o), ClassOf("B", b, p), ClassOf("C", c, q), ClassOf("D", d, Empty)>> :
             o, p, q \in Shapes, b \in {<<>>, <<"A">>},
             c \in {<<>>, <<"A">>, <<"B">>, <<Expression, "A">>, <<"A", External>>},
             d \in {<<"B">>, <<"C">>, <<"C", "B">>, <<"B", "C">>}}

----------------------------------------------------------------------------
EditsIdle ==
    edits = <<>> /\ phase = "validate" /\ pos = 1 /\ cursor = 0 /\ output = <<>>

RuleIdle ==
    /\ site = [rule |-> "unary", missing |-> FALSE, known |-> FALSE, has |-> FALSE]
    /\ source = MethodRun(site)
    /\ decision = "pending" /\ code = <<>> /\ trace = <<>>

MatchIdle ==
    /\ program = [cases |-> <<CaseOf(WildP, "none", "block")>>, subject |-> Atom("1")]
    /\ matchPhase = "lower" /\ at = 1 /\ alternative = 1 /\ hit = FALSE /\ matched = FALSE
    /\ env = <<>> /\ ran = <<>>

FactsIdle ==
    /\ text = <<>> /\ collected = 0 /\ fact = Unbound /\ referenced = FALSE
    /\ dynamic = FALSE /\ held = 0 /\ read = {}

HierarchyIdle ==
    /\ classes = <<>> /\ orders = <<>> /\ visited = 0 /\ refused = FALSE /\ bodies = <<>>
    /\ asked = <<>> /\ current = 0 /\ met = {} /\ resolving = "no" /\ assigned = {}

MCInit ==
    \/ part = "edits" /\ EditsInit /\ RuleIdle /\ MatchIdle /\ FactsIdle /\ HierarchyIdle
    \/ part = "rules" /\ RuleInit /\ EditsIdle /\ MatchIdle /\ FactsIdle /\ HierarchyIdle
    \/ part = "match" /\ MatchInit /\ EditsIdle /\ RuleIdle /\ FactsIdle /\ HierarchyIdle
    \/ part = "facts" /\ FactsInit /\ EditsIdle /\ RuleIdle /\ MatchIdle /\ HierarchyIdle
    \/ part = "hierarchy" /\ HierarchyInit /\ EditsIdle /\ RuleIdle /\ MatchIdle /\ FactsIdle

MCNext ==
    /\ UNCHANGED part
    /\ \/ /\ part = "edits" /\ EditsNext
          /\ UNCHANGED <<ruleVars, matchVars, factVars, hierarchyVars>>
       \/ /\ part = "rules" /\ RuleNext
          /\ UNCHANGED <<editVars, matchVars, factVars, hierarchyVars>>
       \/ /\ part = "match" /\ MatchNext
          /\ UNCHANGED <<editVars, ruleVars, factVars, hierarchyVars>>
       \/ /\ part = "facts" /\ FactsNext
          /\ UNCHANGED <<editVars, ruleVars, matchVars, hierarchyVars>>
       \/ /\ part = "hierarchy" /\ HierarchyNext
          /\ UNCHANGED <<editVars, ruleVars, matchVars, factVars>>

MCSpec == MCInit /\ [][MCNext]_partVars
==============================================================================
