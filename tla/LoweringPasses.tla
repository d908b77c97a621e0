----------------------------- MODULE LoweringPasses ------------------------------
(***************************************************************************)
(* crates/monty-lower/src/lower.rs: one call of lower_source.  Every pass  *)
(* parses the text the pass before it left, collects facts, lets a new     *)
(* Collector visit it in source order, merges the helpers that were asked  *)
(* for, and applies the edits, until a pass emits none or the passes run   *)
(* out.                                                                    *)
(*                                                                         *)
(* A program is a forest of candidate sites, numbered in source order.     *)
(* A rule that replaces a whole site copies the text inside it, and the    *)
(* sites there wait for a later pass; so what a pass remembers or learns   *)
(* from the text, helpers, shadow names and decorators, may be gone when   *)
(* they are reached.  A program is one that parses, and so does what a pass *)
(* makes of it: the errors of the parser and of the injection of helpers    *)
(* are left out.  The kinds stand for the families of rules:           *)
(*   union          a dict union: a whole expression, through a helper     *)
(*   comprehension  in a class body: hoisted into a helper of its own      *)
(*   property       an access to C's property, receiver statically known   *)
(*   property_of_unknown   the same, through a receiver that is not        *)
(*   name_get, name_set    C.__name__ read, and assigned, at module level  *)
(*   descriptor     C's method decorated with @property alone              *)
(*   stacked        ... with @property and another decorator               *)
(*   for            a for statement with an attribute or subscript target  *)
(*   match, wide_match     a match statement, one with too many patterns   *)
(*   with           a with statement whose body provably cannot raise      *)
(*   generator, raise_from a seam that has no lowering                     *)
(***************************************************************************)
EXTENDS Naturals, FiniteSets

CONSTANTS
    Size,       (* the number of candidate sites                          *)
    Kinds,      (* the kinds of site a program may hold                   *)
    MaxPasses,  (* MAX_LOWERING_PASSES                                    *)
    UserNames   (* generated-looking names the source already holds       *)

ASSUME SizeAssumption == Size \in Nat \ {0} /\ MaxPasses \in Nat \ {0}

Sites == 1 .. Size
Roles == {"dict_union", "class_comprehension", "nested_name", "target", "match"}
Name == [role : Roles, number : Nat]

Expressions == {"union", "comprehension", "property", "property_of_unknown",
                "name_get", "generator"}
Leaves == {"property", "property_of_unknown", "name_get", "descriptor", "stacked"}
Blocks == {"for", "match", "wide_match"}
AllKinds == Expressions \cup Leaves \cup Blocks \cup {"name_set", "with", "raise_from"}

ASSUME KindsAssumption ==
    Kinds \subseteq AllKinds /\ UserNames \subseteq Name /\ IsFiniteSet(UserNames)

VARIABLES
    kind, enclosing,                    (* the program                     *)
    touched,      (* what the edits of the loop it is in overlap: a site   *)
                  (* in its target, or a match that starts its body        *)
    code,         (* the generated names each rewritten site has in the    *)
                  (* text; a site outside the domain stands as written     *)
    edits, found, (* the edits and the diagnostics of this pass            *)
    at, cut,      (* the next site, and those this pass does not enter     *)
    passHelpers, shadow, helperCounter, tempCounter,
    helpers, diagnostics, left, outcome

program == <<kind, enclosing, touched>>
pass == <<edits, found, at, cut, passHelpers, shadow, helperCounter, tempCounter>>
vars == <<program, code, pass, helpers, diagnostics, left, outcome>>

-------------------------------------------------------------------------------
(* Programs *)

(* Sites are numbered in source order: a site follows the one before it,   *)
(* inside it, or after it inside something that encloses it.               *)
InSourceOrder(e) ==
    /\ e[1] = {}
    /\ \A s \in Sites \ {1} :
         e[s] \in {{}} \cup {e[t] \cup {t} : t \in e[s - 1] \cup {s - 1}}

Parent(s) == IF enclosing[s] = {} THEN 0
             ELSE CHOOSE t \in enclosing[s] : \A u \in enclosing[s] : u <= t

(* The class C is a statement of the module, and a comprehension sits in   *)
(* the body of a class, where C.__name__ is left alone.                    *)
WellFormed ==
    /\ \A s \in Sites : Parent(s) # 0 =>
         /\ kind[Parent(s)] \notin Leaves
         /\ kind[s] \notin Expressions => kind[Parent(s)] \in Blocks
         /\ kind[s] \notin {"descriptor", "stacked"}
    /\ \A s, t \in Sites :
         /\ kind[s] \in {"descriptor", "stacked"} /\ kind[t] \in {"descriptor", "stacked"}
              => s = t
         /\ kind[s] = "comprehension" /\ kind[t] \in {"name_get", "name_set"}
              => enclosing[s] \cup {s} \subseteq Sites \ (enclosing[t] \cup {t})
    /\ (\E s \in Sites : kind[s] \in {"property", "property_of_unknown"})
         => \E s \in Sites : kind[s] \in {"descriptor", "stacked"}
    /\ \A s \in touched :
         /\ Parent(s) # 0 /\ kind[Parent(s)] = "for"
         /\ \/ kind[s] \in Expressions
            \/ kind[s] = "match" /\ \A t \in 1 .. s - 1 :
                 Parent(t) = Parent(s) => kind[t] \in Expressions

Nothing == [s \in {} |-> {}]
Over(new, old) ==
    [s \in DOMAIN new \cup DOMAIN old |-> IF s \in DOMAIN new THEN new[s] ELSE old[s]]
Put(map, s, names) == Over([t \in {s} |-> names], map)

Init ==
    /\ enclosing \in [Sites -> SUBSET Sites] /\ InSourceOrder(enclosing)
    /\ kind \in [Sites -> Kinds] /\ touched \in SUBSET Sites /\ WellFormed
    /\ code = Nothing
    /\ edits = Nothing /\ found = {} /\ at = 1 /\ cut = {}
    /\ passHelpers = Nothing /\ shadow = {} /\ helperCounter = 0 /\ tempCounter = 0
    /\ helpers = Nothing
    /\ diagnostics = {} /\ left = MaxPasses /\ outcome = "running"

-------------------------------------------------------------------------------
(* Generated names *)

Rewritten(s) == s \in DOMAIN code
NamesInText == UserNames \cup UNION {code[s] : s \in DOMAIN code}

(* The least number not below a counter whose name is not in the text.     *)
(* The loop tries more numbers than the text has bytes, so more than there *)
(* are names in it.                                                        *)
NextNumberUnchecked(role, counter) == counter
NextNumber(role, counter) ==
    CHOOSE n \in counter .. counter + Cardinality(NamesInText) :
        /\ [role |-> role, number |-> n] \notin NamesInText
        /\ \A m \in counter .. n - 1 : [role |-> role, number |-> m] \in NamesInText

NewName(role, counter) == [role |-> role, number |-> NextNumber(role, counter)]

(* The kind of helper a site asks for: DictUnion, or ClassComprehension of *)
(* the source of the site.                                                 *)
HelperKind(s) == IF kind[s] = "union" THEN 0 ELSE s
HelperRole(s) == IF kind[s] = "union" THEN "dict_union" ELSE "class_comprehension"

-------------------------------------------------------------------------------
(* Visits *)

(* The text inside a hoisted comprehension is in the body of a helper.     *)
Hoisted(s) == \E t \in enclosing[s] : kind[t] = "comprehension" /\ Rewritten(t)
Reached(s) == ~Hoisted(s) /\ enclosing[s] \cap cut = {}
ToVisit == {s \in Sites : s >= at /\ Reached(s)}
Visiting(s) == outcome = "running" /\ s \in ToVisit /\ \A t \in ToVisit : s <= t

(* The facts of the text of this pass: value is a property of C as long as *)
(* its definition is decorated.                                            *)
IsProperty == \E s \in Sites : kind[s] \in {"descriptor", "stacked"} /\ ~Rewritten(s)

Emit(s, names) ==
    edits' = Put(edits, s, names) /\ found' = found \cup {<<s, "applied">>}
DiagnoseNothing(s, disposition) == UNCHANGED <<edits, found>>
Diagnose(s, disposition) ==
    edits' = edits /\ found' = found \cup {<<s, disposition>>}
Walk(s) == at' = s + 1 /\ cut' = cut
Skip(s) == at' = s + 1 /\ cut' = cut \cup {s}

Keep == UNCHANGED <<program, code, helpers, diagnostics, left, outcome>>
NoNewName == UNCHANGED <<passHelpers, shadow, helperCounter, tempCounter>>

RequestNewHelper(s) ==
    LET h == HelperKind(s)
        name == NewName(HelperRole(s), helperCounter)
    IN  /\ Emit(s, {name})
        /\ passHelpers' = Put(passHelpers, h, {name})
        /\ helperCounter' = name.number + 1
        /\ UNCHANGED <<shadow, tempCounter>>
RequestHelper(s) ==
    LET h == HelperKind(s)
        name == NewName(HelperRole(s), helperCounter)
    IN  /\ UNCHANGED <<shadow, tempCounter>>
        /\ \/ /\ h \in DOMAIN passHelpers
              /\ Emit(s, passHelpers[h])
              /\ UNCHANGED <<passHelpers, helperCounter>>
           \/ /\ h \notin DOMAIN passHelpers
              /\ Emit(s, {name})
              /\ passHelpers' = Put(passHelpers, h, {name})
              /\ helperCounter' = name.number + 1

LowerDictUnion(s) ==
    /\ Visiting(s) /\ kind[s] = "union" /\ ~Rewritten(s)
    /\ RequestHelper(s) /\ Skip(s) /\ Keep

LowerClassBodyComprehension(s) ==
    /\ Visiting(s) /\ kind[s] = "comprehension" /\ ~Rewritten(s)
    /\ RequestHelper(s) /\ Skip(s) /\ Keep

(* The rule asks no manifest feature and does not know its own output:     *)
(* the access inside value() is an access again.                           *)
LowerPropertyAccess(s) ==
    /\ Visiting(s) /\ kind[s] = "property" /\ IsProperty
    /\ Emit(s, {}) /\ Skip(s) /\ NoNewName /\ Keep

(* The shadow of C.__name__ is shared by the sites of one pass.            *)
ClassNameShadow(s) ==
    LET name == NewName("nested_name", helperCounter)
    IN  /\ UNCHANGED <<passHelpers, tempCounter>>
        /\ \/ /\ shadow # {}
              /\ Emit(s, shadow)
              /\ UNCHANGED <<shadow, helperCounter>>
           \/ /\ shadow = {}
              /\ Emit(s, {name})
              /\ shadow' = {name} /\ helperCounter' = name.number + 1

LowerClassName(s) ==
    /\ Visiting(s) /\ kind[s] \in {"name_get", "name_set"} /\ ~Rewritten(s)
    /\ ClassNameShadow(s) /\ Skip(s) /\ Keep

LowerDescriptorDecorator(s) ==
    /\ Visiting(s)
    /\ \/ kind[s] = "descriptor" /\ ~Rewritten(s) /\ Emit(s, {})
       \/ kind[s] = "stacked" /\ Diagnose(s, "needs_review")
    /\ Walk(s) /\ NoNewName /\ Keep

ForCuts(s) == Skip(s)
ForWalks(s) == Walk(s)

LowerForTarget(s) ==
    LET name == NewName("target", tempCounter)
    IN  /\ Visiting(s) /\ kind[s] = "for" /\ ~Rewritten(s)
        /\ Emit(s, {name}) /\ tempCounter' = name.number + 1
        /\ ForWalks(s)
        /\ UNCHANGED <<passHelpers, shadow, helperCounter>> /\ Keep

(* Every match statement has a compiler, and a counter, of its own.        *)
LowerMatchStatement(s) ==
    /\ Visiting(s)
    /\ \/ /\ kind[s] = "match" /\ ~Rewritten(s)
          /\ Emit(s, {NewName("match", 0)}) /\ Skip(s)
       \/ kind[s] = "wide_match" /\ Diagnose(s, "needs_review") /\ Walk(s)
    /\ NoNewName /\ Keep

(* Every with statement is diagnosed before the rule for this one is tried.*)
LowerWithExitBoundOnce(s) ==
    LET manager == NewName("target", tempCounter)
        exit == NewName("target", manager.number + 1)
    IN  /\ Visiting(s) /\ kind[s] = "with" /\ ~Rewritten(s)
        /\ edits' = Put(edits, s, {manager, exit})
        /\ found' = found \cup {<<s, "not_lowerable">>, <<s, "applied">>}
        /\ tempCounter' = exit.number + 1
        /\ Skip(s)
        /\ UNCHANGED <<passHelpers, shadow, helperCounter>> /\ Keep

(* An expression that has no lowering is not entered, a statement is.      *)
DiagnoseUnlowerable(s) ==
    /\ Visiting(s)
    /\ \/ kind[s] = "generator" /\ Skip(s)
       \/ kind[s] = "raise_from" /\ Walk(s)
    /\ Diagnose(s, "not_lowerable") /\ NoNewName /\ Keep

(* No rule applies: the site was rewritten, or the facts do not prove it   *)
(* to be the access of a property.                                         *)
VisitOther(s) ==
    /\ Visiting(s)
    /\ \/ kind[s] = "property_of_unknown"
       \/ kind[s] = "property" /\ ~IsProperty
       \/ Rewritten(s) /\ kind[s] \notin {"property", "stacked"}
    /\ Walk(s) /\ UNCHANGED <<edits, found>> /\ NoNewName /\ Keep

-------------------------------------------------------------------------------
(* The end of a pass *)

(* apply_edits refuses an edit that starts inside the text of another one. *)
(* A loop replaces its target, and inserts at the first statement of its   *)
(* body; a match replaces whole lines, from before that insertion on.      *)
Overlaps(s, t) ==
    \E u \in enclosing[s] \cup {s} : u \in touched /\ Parent(u) = t
Conflict ==
    \E s \in DOMAIN edits : \E t \in enclosing[s] \cap DOMAIN edits :
        kind[t] = "for" /\ Overlaps(s, t)

Diagnosed(dispositions) == {d \in found : d[2] \in dispositions}

KeptUnfiltered == {"applied", "needs_review", "not_lowerable"}
KeptOfAnEditingPass == {"applied"}
KeptAppliedOnly == {"applied"}
KeptOfTheLastPass == {"applied", "needs_review", "not_lowerable"}

Merged == Over(helpers, passHelpers)

PassEnds == outcome = "running" /\ ToVisit = {}

Return ==
    /\ PassEnds /\ DOMAIN edits = {}
    /\ helpers' = Merged
    /\ diagnostics' = diagnostics \cup Diagnosed(KeptOfTheLastPass)
    /\ outcome' = "ok"
    /\ UNCHANGED <<program, code, pass, left>>

RefuseEdits ==
    /\ PassEnds /\ Conflict
    /\ outcome' = "edit_error"
    /\ UNCHANGED <<program, code, pass, helpers, diagnostics, left>>

NewCollector ==
    /\ edits' = Nothing /\ found' = {} /\ at' = 1 /\ cut' = {}
    /\ passHelpers' = Nothing /\ shadow' = {} /\ helperCounter' = 0 /\ tempCounter' = 0

Uncounted(n) == n
Counted(n) == n - 1

NextPass ==
    /\ PassEnds /\ ~Conflict /\ DOMAIN edits # {}
    /\ helpers' = Merged
    /\ diagnostics' = diagnostics \cup Diagnosed(KeptOfAnEditingPass)
    /\ code' = Over(edits, code)
    /\ left' = Counted(left)
    /\ outcome' = IF left' = 0 THEN "non_convergent" ELSE "running"
    /\ NewCollector
    /\ UNCHANGED program

Visit(s) ==
    \/ LowerDictUnion(s) \/ LowerClassBodyComprehension(s) \/ LowerPropertyAccess(s)
    \/ LowerClassName(s) \/ LowerDescriptorDecorator(s) \/ LowerForTarget(s)
    \/ LowerMatchStatement(s) \/ LowerWithExitBoundOnce(s) \/ DiagnoseUnlowerable(s)
    \/ VisitOther(s)

Next == (\E s \in Sites : Visit(s)) \/ Return \/ RefuseEdits \/ NextPass

Spec == Init /\ [][Next]_vars /\ WF_vars(Next)
-------------------------------------------------------------------------------
(* Properties *)

Dispositions == {"applied", "needs_review", "not_lowerable"}
Outcomes == {"running", "ok", "edit_error", "non_convergent"}

(* The type invariant, generated names and their counters aside: their     *)
(* types are part of NamesInv.                                             *)
TypeOK ==
    /\ kind \in [Sites -> Kinds]
    /\ enclosing \in [Sites -> SUBSET Sites] /\ touched \subseteq Sites
    /\ DOMAIN code \subseteq Sites /\ DOMAIN edits \subseteq Sites
    /\ found \subseteq Sites \X Dispositions /\ diagnostics \subseteq Sites \X Dispositions
    /\ at \in 1 .. Size + 1 /\ cut \subseteq Sites
    /\ left \in 0 .. MaxPasses /\ outcome \in Outcomes
    /\ outcome = "running" => left # 0

(* The diagnostics that are returned speak of the code that is returned:   *)
(* exactly the sites that were rewritten are reported as applied, and none *)
(* of them is still reported as one that could not be, also when an        *)
(* earlier pass, or the same one, thought so.                              *)
DiagnosticsMatchCode ==
    outcome = "ok" => \A s \in Sites :
        /\ <<s, "applied">> \in diagnostics <=> Rewritten(s)
        /\ Rewritten(s) => \A d \in diagnostics : d[1] = s => d[2] = "applied"

(* What is left as written in the text that is returned, the properties    *)
(* aside, is reported, or is inside something that is: the caller that     *)
(* refuses every diagnostic but applied ones runs none of it.              *)
NothingSilentInText ==
    outcome = "ok" => \A s \in Sites :
        ~Rewritten(s) /\ ~Hoisted(s) /\ kind[s] \notin {"property", "property_of_unknown"}
            => \E t \in enclosing[s] \cup {s} :
                 \E d \in diagnostics : d[1] = t /\ d[2] # "applied"

(* The strengthening of the two.  What was applied is what the edits, and  *)
(* the code, hold; only a kind that has no rule, or a site edited in the   *)
(* same visit, is diagnosed; a call that goes on has kept nothing but      *)
(* applied diagnostics.  Every site the walk has passed is dealt with, or  *)
(* inside one that is.                                                     *)
NeverLowered == {"stacked", "wide_match", "generator", "raise_from"}
Reported(s) == \E d \in found : d[1] = s /\ d[2] # "applied"

AppliedInv ==
    /\ \A s \in Sites :
         /\ <<s, "applied">> \in found <=> s \in DOMAIN edits
         /\ <<s, "applied">> \in diagnostics <=> Rewritten(s)
         /\ kind[s] \in NeverLowered => s \notin DOMAIN edits /\ ~Rewritten(s)
         /\ Reported(s) => kind[s] \in NeverLowered \/ s \in DOMAIN edits
    /\ outcome # "ok" => \A d \in diagnostics : d[2] = "applied"

WalkInv ==
    /\ \A s \in Sites : s < at =>
         \/ ~Reached(s) \/ Rewritten(s) \/ s \in DOMAIN edits \/ Reported(s)
         \/ kind[s] \in {"property", "property_of_unknown"}
    /\ \A s \in cut : s \in DOMAIN edits \/ Reported(s)

IInv == TypeOK /\ AppliedInv /\ WalkInv /\ DiagnosticsMatchCode /\ NothingSilentInText

(* No two sites that need different names share one, whatever passes they  *)
(* were rewritten in, and no name was one of the source already: a match   *)
(* inside another one would else overwrite its subject.                    *)
MayShare(s, t) ==
    \/ kind[s] = "union" /\ kind[t] = "union"
    \/ {kind[s], kind[t]} \subseteq {"name_get", "name_set"}
    \/ kind[s] = "match" /\ kind[t] = "match" /\ s \notin enclosing[t] /\ t \notin enclosing[s]
NamesAreFresh ==
    \A s \in Sites : Rewritten(s) =>
        /\ code[s] \cap UserNames = {}
        /\ \A t \in Sites \ {s} :
             Rewritten(t) /\ code[s] \cap code[t] # {} => MayShare(s, t)

(* The strengthening of NamesAreFresh.  Each allocator hands out names of  *)
(* its own roles, not in the text of the pass and of numbers below where   *)
(* it stands; a site that was edited is inside none that the pass does not *)
(* enter, so two match statements edited in one pass are not nested.       *)
RoleFits(k, r) ==
    \/ r = "dict_union" /\ k = "union"
    \/ r = "class_comprehension" /\ k = "comprehension"
    \/ r = "nested_name" /\ k \in {"name_get", "name_set"}
    \/ r = "target" /\ k \in {"for", "with"}
    \/ r = "match" /\ k = "match"
Allocated(n) ==
    /\ n \in Name \ NamesInText
    /\ n.role \in {"dict_union", "class_comprehension", "nested_name"}
          => n.number < helperCounter
    /\ n.role = "target" => n.number < tempCounter
NamesIn(map) ==
    map \in [DOMAIN map -> SUBSET Name] /\ \A x \in DOMAIN map : IsFiniteSet(map[x])

AllocationInv ==
    /\ helperCounter \in Nat /\ tempCounter \in Nat
    /\ NamesIn(code) /\ NamesIn(edits) /\ NamesIn(passHelpers)
    /\ shadow \subseteq Name /\ IsFiniteSet(shadow)
    /\ \A s \in DOMAIN code : \A n \in code[s] : RoleFits(kind[s], n.role)
    /\ \A s \in DOMAIN edits : \A n \in edits[s] : Allocated(n) /\ RoleFits(kind[s], n.role)
    /\ \A h \in DOMAIN passHelpers : \A n \in passHelpers[h] :
         Allocated(n) /\ n.role = IF h = 0 THEN "dict_union" ELSE "class_comprehension"
    /\ \A h \in DOMAIN passHelpers : h = 0 \/ h \in DOMAIN edits
    /\ \A n \in shadow : Allocated(n) /\ n.role = "nested_name"
EditsInv ==
    /\ \A s \in DOMAIN edits : s < at /\ enclosing[s] \cap cut = {}
    /\ \A s \in DOMAIN edits : kind[s] = "match" => s \in cut
    /\ \A s, t \in DOMAIN edits : s # t /\ edits[s] \cap edits[t] # {} => MayShare(s, t)
NamesInv == InSourceOrder(enclosing) /\ AllocationInv /\ EditsInv /\ NamesAreFresh

(* Without a stacked descriptor a call needs one editing pass more than    *)
(* there are rules inside one another that do not enter what they replace: *)
(* only such nesting brings a call near the limit of its passes.           *)
Cutting == {"union", "name_set", "match", "with"}
Depth(s) == Cardinality({t \in enclosing[s] : kind[t] \in Cutting})
PassesFollowNesting ==
    (\A s \in Sites : kind[s] # "stacked") =>
        \E s \in Sites : MaxPasses - left <= Depth(s) + 1

(* Every call returns, also one whose rules never come to rest.            *)
Terminates == <>(outcome # "running")

-------------------------------------------------------------------------------
(* What the documentation promises, and nested rules do not keep *)

Accepted == outcome = "ok" /\ \A d \in diagnostics : d[2] = "applied"

(* docs/lowering.md: helpers are injected deduplicated, and the code that  *)
(* is returned calls none that is not defined.                             *)
HelpersAreDefined ==
    outcome = "ok" => \A s \in Sites :
        kind[s] \in {"union", "comprehension"} /\ Rewritten(s)
            => HelperKind(s) \in DOMAIN helpers /\ code[s] = helpers[HelperKind(s)]

(* docs/lowering.md: an unknown precondition is a diagnostic, and not an   *)
(* optimistic rewrite: where the decorator of a property was removed, each *)
(* access is a call.                                                       *)
AccessFollowsDescriptor ==
    Accepted => \A s, t \in Sites :
        /\ kind[s] = "descriptor" /\ Rewritten(s)
        /\ kind[t] \in {"property", "property_of_unknown"}
        => Rewritten(t)

(* C.__name__ is read from the variable of the last assignment before it.  *)
Precedes(s, t) == s < t /\ s \notin enclosing[t]
OneShadowOfTheName ==
    Accepted => \A s, t \in Sites :
        /\ kind[s] = "name_set" /\ kind[t] = "name_get" /\ Precedes(s, t)
        /\ \A u \in Sites : kind[u] = "name_set" /\ Precedes(u, t) => u <= s
        => code[s] = code[t]

(* A program in which no rule hides a site from the first pass, and every  *)
(* receiver is known, gets what is promised: the helpers, shadows and      *)
(* facts of one pass agree, whichever sites share them, and later passes   *)
(* undo none of it.                                                        *)
ReachedAtOnce ==
    \A s \in Sites :
        /\ Depth(s) = 0 /\ \A t \in enclosing[s] : kind[t] # "comprehension"
        /\ kind[s] # "property_of_unknown"
OnePassIsConsistent ==
    ReachedAtOnce => HelpersAreDefined /\ AccessFollowsDescriptor /\ OneShadowOfTheName

(* The strengthening of OnePassIsConsistent.  What is inside a generator   *)
(* expression is never reached; all else that has a rule is edited in the  *)
(* first pass, with the helpers and the shadow of that pass; and a later   *)
(* pass edits nothing but accesses of properties.                          *)
InGenerator(s) == \E g \in enclosing[s] : kind[g] = "generator"
HasRule(s) == kind[s] \notin NeverLowered \cup {"property_of_unknown"}
OfHelper(s) == kind[s] \in {"union", "comprehension"}
OfName(s) == kind[s] \in {"name_get", "name_set"}
SameHelpers(map, defined) ==
    \A s \in DOMAIN map : OfHelper(s) =>
        HelperKind(s) \in DOMAIN defined /\ map[s] = defined[HelperKind(s)]
FirstPassInv ==
    /\ SameHelpers(edits, passHelpers) /\ (outcome = "running" => helpers = Nothing)
    /\ \A s \in DOMAIN edits : OfName(s) => shadow # {} /\ edits[s] = shadow
    /\ \A s \in Sites : s < at /\ kind[s] = "property" /\ Reached(s) => s \in DOMAIN edits
LaterPassInv ==
    /\ \A s \in Sites : HasRule(s) /\ ~Rewritten(s) => InGenerator(s)
    /\ passHelpers = Nothing /\ SameHelpers(code, helpers)
    /\ \A s, t \in DOMAIN code : OfName(s) /\ OfName(t) => code[s] = code[t]
    /\ \A s \in DOMAIN edits : kind[s] = "property"
OnePassInv ==
    /\ InSourceOrder(enclosing) /\ WellFormed
    /\ \A s \in Sites : s < at /\ kind[s] = "generator" /\ Reached(s) => s \in cut
    /\ \A s \in cut : kind[s] \in Cutting \cup {"comprehension", "property", "name_get",
                                              "generator"}
    /\ ReachedAtOnce => IF DOMAIN code = {} THEN FirstPassInv ELSE LaterPassInv
===============================================================================
