--------------------------- MODULE MatchLowering ---------------------------
(***************************************************************************)
(* The lowering of a match statement to guarded ifs (match_lower.rs).  Each *)
(* pattern is compiled to a list of plans, one per alternative: conditions  *)
(* joined by "and", and bindings that are made once they all hold.  The     *)
(* text of a case tries its plans as if / elif, and runs the body of the    *)
(* first case that hits and whose guard holds.                              *)
(*                                                                         *)
(* A condition names the part of the subject it is about by the path to it, *)
(* where the code names it by a generated temporary.  The reference is what *)
(* CPython does with the same statement.                                    *)
(***************************************************************************)
EXTENDS Integers, Sequences, FiniteSets, SequencesExt

CONSTANTS
    MaxAlternatives,    \* MAX_PATTERN_ALTERNATIVES
    Patterns,           \* the patterns considered, and those nested in them
    Values,             \* the values considered, and their parts
    Depth,              \* how deeply patterns are nested, and values have parts
    MaxDepth,
    Programs            \* match statements: cases and the value of the subject

----------------------------------------------------------------------------
(* Values, patterns and classes.                                            *)

\* keys: those of a mapping or the attributes of an object, part by part; a
\* sequence has none.
PyValue(type, name, keys, parts) == [type |-> type, name |-> name, keys |-> keys, parts |-> parts]
Atom(a) == PyValue("int", a, <<>>, <<>>)

\* star: the position of the starred pattern of a sequence, 0 without one;
\* keys: those of a mapping, the attributes of the keyword patterns of a class
\* or, for names, what is bound.
Pattern(kind, name, keys, nested, star) ==
    [kind |-> kind, name |-> name, keys |-> keys, nested |-> nested, star |-> star]

\* What the parser makes of a pattern.  A starred one is a name or a wildcard.
Parsed(p) ==
    /\ p.nested \in Seq(Patterns) /\ p.star \in 0..Len(p.nested)
    /\ CASE p.kind = "value" -> p.nested = <<>>
         [] p.kind = "as" -> Len(p.nested) <= 1
         [] p.kind = "or" -> p.nested # <<>>
         [] p.kind = "sequence" ->
              p.star # 0 => p.nested[p.star].kind = "as" /\ p.nested[p.star].nested = <<>>
         [] p.kind = "mapping" -> p.keys \in Seq(STRING) /\ Len(p.keys) = Len(p.nested)
         [] p.kind = "class" -> p.keys \in Seq(STRING) /\ Len(p.keys) <= Len(p.nested)
         [] OTHER -> FALSE

Case == [pattern : Patterns, guard : {"none", "holds", "fails"},
         body : {"block", "inline", "string"}]

ASSUME MatchAssumption ==
    /\ MaxAlternatives \in Nat \ {0}
    /\ \A p \in Patterns : Parsed(p)
    /\ \A v \in Values :
          /\ v.parts \in Seq(Values) /\ v.keys \in Seq(STRING)
          /\ v.keys = <<>> \/ Len(v.keys) = Len(v.parts)
    /\ MaxDepth \in Nat /\ Depth \in [Patterns \cup Values -> 0..MaxDepth]
    /\ \A p \in Patterns : \A i \in 1..Len(p.nested) : Depth[p.nested[i]] < Depth[p]
    /\ \A v \in Values : \A i \in 1..Len(v.parts) : Depth[v.parts[i]] < Depth[v]
    /\ \A s \in Programs : s.cases \in Seq(Case) /\ s.cases # <<>> /\ s.subject \in Values

Builtins == {"int", "list", "dict"}
MatchArgs(class) == IF class = "Point" THEN <<"px">> ELSE <<>>

\* Sub is a subclass of int; a range is a sequence and a proxy a mapping.
IsInstance(v, class) == v.type = class \/ (class = "int" /\ v.type = "Sub")

Has(v, key) == key \in Range(v.keys)
Get(v, key) == v.parts[CHOOSE i \in 1..Len(v.keys) : v.keys[i] = key]
Rest(v, keys) ==
    LET kept == SelectSeq(v.keys, LAMBDA key : key \notin Range(keys))
    IN  PyValue("dict", "", kept, [i \in 1..Len(kept) |-> Get(v, kept[i])])

SliceOf(v, from, suffix) == PyValue("list", "", <<>>, SubSeq(v.parts, from, Len(v.parts) - suffix))

VARIABLES
    program,        \* the statement
    matchPhase,     \* what lower_match, or the text it wrote, does next
    at,             \* the case
    alternative,    \* the plan of the case
    hit,            \* _monty_compat_match_case: a plan of the case matched
    matched,        \* _monty_compat_match_done: the body of a case was chosen
    env,            \* the bindings made so far
    ran             \* the bodies that ran

matchVars == <<program, matchPhase, at, alternative, hit, matched, env, ran>>

----------------------------------------------------------------------------
(* PatternCompiler.                                                         *)

Plan(tests, bindings) == <<[tests |-> tests, bindings |-> bindings]>>
Test(kind, arg, n) == [kind |-> kind, path |-> <<>>, arg |-> arg, n |-> n]
Binding(name, from, suffix) == [name |-> name, path |-> <<>>, from |-> from, suffix |-> suffix]
Whole == -1     \* a binding to a part, and not to a slice of it
Without == -2   \* a binding to a copy of a mapping without its matched keys

\* What is compiled for a part of the subject is about that part.
Item(n) == <<"item", n>>
Key(key) == <<"key", key>>
Under(step, plans) ==
    LET Deeper(on) == [on EXCEPT !.path = <<step>> \o @]
    IN  [k \in 1..Len(plans) |->
            [tests |-> [i \in 1..Len(plans[k].tests) |-> Deeper(plans[k].tests[i])],
             bindings |-> [i \in 1..Len(plans[k].bindings) |-> Deeper(plans[k].bindings[i])]]]

\* No pattern has no plan: the empty list says that there are too many.
TooMany == <<>>

Both(left, right) ==
    [tests |-> left.tests \o right.tests, bindings |-> left.bindings \o right.bindings]
CombinePlanSets(left, right) ==
    IF Len(left) * Len(right) > MaxAlternatives THEN TooMany
    ELSE FlattenSeq([i \in 1..Len(left) |-> [j \in 1..Len(right) |-> Both(left[i], right[j])]])

AllPlans(first, sets) ==
    LET upTo[n \in 0..Len(sets)] ==
            IF n = 0 THEN first ELSE CombinePlanSets(upTo[n - 1], sets[n])
    IN  upTo[Len(sets)]

WithBinding(plans, bindings) ==
    [k \in 1..Len(plans) |->
        [tests |-> plans[k].tests, bindings |-> plans[k].bindings \o bindings]]

ExtendOffByOne(plans, more) ==
    IF plans = TooMany \/ more = TooMany \/ Len(plans) + Len(more) >= MaxAlternatives
    THEN TooMany ELSE plans \o more

Extend(plans, more) ==
    IF plans = TooMany \/ more = TooMany \/ Len(plans) + Len(more) > MaxAlternatives
    THEN TooMany ELSE plans \o more

AnyPlan(sets) ==
    LET upTo[n \in 1..Len(sets)] == IF n = 1 THEN sets[1] ELSE Extend(upTo[n - 1], sets[n])
    IN  upTo[Len(sets)]

NameBinding(name) == IF name = "" THEN <<>> ELSE <<Binding(name, Whole, 0)>>

\* Patterns after the star are counted from the end.
CompileSequence(p, nested) ==
    LET size == Len(p.nested)
        Part(i) ==
            IF i = p.star
            THEN Plan(<<>>, IF p.nested[i].name = "" THEN <<>>
                            ELSE <<Binding(p.nested[i].name, i, size - i)>>)
            ELSE Under(Item(IF p.star # 0 /\ i > p.star THEN i - size - 1 ELSE i), nested[i])
    IN  AllPlans(Plan(<<Test("sequence", "", 0),
                        IF p.star = 0 THEN Test("length", "", size)
                                      ELSE Test("at_least", "", size - 1)>>, <<>>),
                 [i \in 1..size |-> Part(i)])

CompileMapping(p, nested) ==
    WithBinding(
        AllPlans(Plan(<<Test("mapping", "", 0)>>, <<>>),
                 [i \in 1..Len(p.keys) |->
                    CombinePlanSets(Plan(<<Test("has", p.keys[i], 0)>>, <<>>),
                                    Under(Key(p.keys[i]), nested[i]))]),
        IF p.name = "" THEN <<>> ELSE <<Binding(p.name, Without, p.keys)>>)

\* The positional patterns come first, then those with a key.  One positional
\* pattern of a builtin class is about the subject itself.
Positional(p) == Len(p.nested) - Len(p.keys)
Attribute(p, i) ==
    IF i > Positional(p) THEN p.keys[i - Positional(p)]
    ELSE IF i <= Len(MatchArgs(p.name)) THEN MatchArgs(p.name)[i] ELSE "none"
CompileClass(p, nested) ==
    LET Part(i) ==
            IF i <= Positional(p) /\ p.name \in Builtins /\ Positional(p) = 1 THEN nested[i]
            ELSE CombinePlanSets(
                   Plan((IF i <= Positional(p) THEN <<Test("match_args", p.name, i)>> ELSE <<>>)
                        \o <<Test("has", Attribute(p, i), 0)>>, <<>>),
                   Under(Key(Attribute(p, i)), nested[i]))
    IN  AllPlans(Plan(<<Test("isinstance", p.name, 0)>>, <<>>), [i \in 1..Len(p.nested) |-> Part(i)])

CompileFrom(p, nested) ==
    CASE p.kind = "value" -> Plan(<<Test("equal", p.name, 0)>>, <<>>)
      [] p.kind = "as" ->
           WithBinding(IF p.nested = <<>> THEN Plan(<<>>, <<>>) ELSE nested[1], NameBinding(p.name))
      [] p.kind = "or" -> AnyPlan(nested)
      [] p.kind = "sequence" -> CompileSequence(p, nested)
      [] p.kind = "mapping" -> CompileMapping(p, nested)
      [] p.kind = "class" -> CompileClass(p, nested)

Compile[p \in Patterns] == CompileFrom(p, [i \in 1..Len(p.nested) |-> Compile[p.nested[i]]])

Plans(i) == Compile[program.cases[i].pattern]

----------------------------------------------------------------------------
(* The text that lower_match writes.                                        *)

PartAt(v, step) ==
    IF step[1] = "key" THEN Get(v, step[2])
    ELSE v.parts[IF step[2] > 0 THEN step[2] ELSE Len(v.parts) + 1 + step[2]]

At(v, path) ==
    LET upTo[n \in 0..Len(path)] == IF n = 0 THEN v ELSE PartAt(upTo[n - 1], path[n])
    IN  upTo[Len(path)]

Holds(test, v) ==
    LET part == At(v, test.path) IN
    CASE test.kind = "equal" -> part = Atom(test.arg)
      [] test.kind = "sequence" -> part.type \in {"list", "tuple"}
      [] test.kind = "length" -> Len(part.parts) = test.n
      [] test.kind = "at_least" -> Len(part.parts) >= test.n
      [] test.kind = "mapping" -> part.type = "dict"
      [] test.kind = "has" -> Has(part, test.arg)
      [] test.kind = "isinstance" -> IsInstance(part, test.arg)
      [] test.kind = "match_args" -> Len(MatchArgs(test.arg)) >= test.n

\* The conditions are joined by "and", which stops at the first that fails.
PlanHolds(plan, v) == \A i \in 1..Len(plan.tests) : Holds(plan.tests[i], v)

Bound(binding, v) ==
    LET part == At(v, binding.path) IN
    <<binding.name,
      CASE binding.from = Whole -> part
        [] binding.from = Without -> Rest(part, binding.suffix)
        [] OTHER -> SliceOf(part, binding.from, binding.suffix)>>
Made(bindings, v) == [i \in 1..Len(bindings) |-> Bound(bindings[i], v)]

\* suite_source puts the new indentation before every line of the block, the
\* lines of a string among them.
Moved(body) == IF body = "string" THEN "changed" ELSE body

\* infer_indent_unit takes half of what stands before the first body on its
\* line for one indentation.
IndentUnitIsBlank == program.cases[1].body # "inline"

MatchInit ==
    /\ program \in Programs
    /\ matchPhase = "lower"
    /\ at = 1
    /\ alternative = 1
    /\ hit = FALSE
    /\ matched = FALSE
    /\ env = <<>>
    /\ ran = <<>>

LowerMatch ==
    /\ matchPhase = "lower"
    /\ matchPhase' = IF \E i \in 1..Len(program.cases) : Plans(i) = TooMany THEN "refused"
                     ELSE IF ~IndentUnitIsBlank THEN "unparsable"
                     ELSE "case"
    /\ UNCHANGED <<program, at, alternative, hit, matched, env, ran>>

EnterCase ==
    /\ matchPhase = "case" /\ at <= Len(program.cases) /\ ~matched
    /\ hit' = FALSE
    /\ alternative' = 1
    /\ matchPhase' = "alternatives"
    /\ UNCHANGED <<program, at, matched, env, ran>>

PassCase ==
    /\ matchPhase = "case" /\ at <= Len(program.cases) /\ matched
    /\ at' = at + 1
    /\ UNCHANGED <<program, matchPhase, alternative, hit, matched, env, ran>>

TryAlternative ==
    /\ matchPhase = "alternatives" /\ alternative <= Len(Plans(at))
    /\ LET plan == Plans(at)[alternative] IN
       IF PlanHolds(plan, program.subject)
       THEN /\ env' = env \o Made(plan.bindings, program.subject)
            /\ hit' = TRUE
            /\ matchPhase' = "hit"
            /\ UNCHANGED alternative
       ELSE /\ alternative' = alternative + 1
            /\ UNCHANGED <<env, hit, matchPhase>>
    /\ UNCHANGED <<program, at, matched, ran>>

NoAlternative ==
    /\ matchPhase = "alternatives" /\ alternative > Len(Plans(at))
    /\ matchPhase' = "hit"
    /\ UNCHANGED <<program, at, alternative, hit, matched, env, ran>>

GuardHolds(i) == program.cases[i].guard # "fails"

CaseEndsEarly ==
    /\ matchPhase = "hit"
    /\ matched' = hit
    /\ ran' = IF hit /\ GuardHolds(at) THEN Append(ran, <<at, Moved(program.cases[at].body)>>) ELSE ran
    /\ at' = at + 1
    /\ matchPhase' = "case"
    /\ UNCHANGED <<program, alternative, hit, env>>

CaseEnds ==
    /\ matchPhase = "hit"
    /\ IF hit /\ GuardHolds(at)
       THEN matched' = TRUE /\ ran' = Append(ran, <<at, Moved(program.cases[at].body)>>)
       ELSE UNCHANGED <<matched, ran>>
    /\ at' = at + 1
    /\ matchPhase' = "case"
    /\ UNCHANGED <<program, alternative, hit, env>>

MatchEnds ==
    /\ matchPhase = "case" /\ at > Len(program.cases)
    /\ matchPhase' = "ended"
    /\ UNCHANGED <<program, at, alternative, hit, matched, env, ran>>

MatchNext ==
    \/ LowerMatch \/ EnterCase \/ PassCase \/ TryAlternative
    \/ NoAlternative \/ CaseEnds \/ MatchEnds

MatchSpec == MatchInit /\ [][MatchNext]_matchVars

----------------------------------------------------------------------------
(* What CPython does.  An alternative of an or-pattern is chosen by what it *)
(* matches alone and is never taken back; too many positional patterns of a *)
(* class raise; a subclass of int matches itself as int does.               *)

SequenceTypes == {"list", "tuple", "range"}
MappingTypes == {"dict", "proxy"}
Selfish(class) == class \in Builtins \cup {"Sub"}

\* What comes of a pattern: whether it matches, and the names that it binds, in
\* order.
Yes(names) == [result |-> "yes", names |-> names]
No == [result |-> "no", names |-> <<>>]
Raises == [result |-> "raise", names |-> <<>>]

AndBind(answer, names) == IF answer.result = "yes" THEN Yes(answer.names \o names) ELSE answer

\* Nested patterns are tried in order, until one does not match.
Together(answers) ==
    LET odd == {i \in 1..Len(answers) : answers[i].result # "yes"}
    IN  IF odd = {} THEN Yes(FlattenSeq([i \in 1..Len(answers) |-> answers[i].names]))
        ELSE answers[Min(odd)]

MatchSequence(p, nested, v) ==
    LET size == Len(p.nested)
        extra == Len(v.parts) - size
        Nested(i) ==
            IF i = p.star
            THEN Yes(IF p.nested[i].name = "" THEN <<>>
                     ELSE <<<<p.nested[i].name, SliceOf(v, i, size - i)>>>>)
            ELSE nested[i][v.parts[IF p.star # 0 /\ i > p.star THEN i + extra ELSE i]]
    IN  IF v.type \in SequenceTypes /\ (extra = 0 \/ (p.star # 0 /\ extra >= -1))
        THEN Together([i \in 1..size |-> Nested(i)]) ELSE No

Behind(key, v, answers) == IF Has(v, key) THEN answers[Get(v, key)] ELSE No

MatchMapping(p, nested, v) ==
    IF v.type \notin MappingTypes THEN No
    ELSE AndBind(Together([i \in 1..Len(p.keys) |-> Behind(p.keys[i], v, nested[i])]),
                 IF p.name = "" THEN <<>> ELSE <<<<p.name, Rest(v, p.keys)>>>>)

MatchClass(p, nested, v) ==
    LET positional == Len(p.nested) - Len(p.keys)
        Nested(i) ==
            IF i > positional THEN Behind(p.keys[i - positional], v, nested[i])
            ELSE IF Selfish(p.name) THEN nested[i][v]
            ELSE Behind(MatchArgs(p.name)[i], v, nested[i])
    IN  IF ~IsInstance(v, p.name) THEN No
        ELSE IF positional > (IF Selfish(p.name) THEN 1 ELSE Len(MatchArgs(p.name))) THEN Raises
        ELSE Together([i \in 1..Len(p.nested) |-> Nested(i)])

MatchingFrom(p, nested, v) ==
    CASE p.kind = "value" -> IF v = Atom(p.name) THEN Yes(<<>>) ELSE No
      [] p.kind = "as" ->
           AndBind(IF p.nested = <<>> THEN Yes(<<>>) ELSE nested[1][v],
                   IF p.name = "" THEN <<>> ELSE <<<<p.name, v>>>>)
      [] p.kind = "or" ->
           LET ends == {i \in 1..Len(p.nested) : nested[i][v].result # "no"}
           IN  IF ends = {} THEN No ELSE nested[Min(ends)][v]
      [] p.kind = "sequence" -> MatchSequence(p, nested, v)
      [] p.kind = "mapping" -> MatchMapping(p, nested, v)
      [] p.kind = "class" -> MatchClass(p, nested, v)

Matching[p \in Patterns] ==
    [v \in Values |-> MatchingFrom(p, [i \in 1..Len(p.nested) |-> Matching[p.nested[i]]], v)]

CaseAnswer(i) == Matching[program.cases[i].pattern][program.subject]

\* The case that decides: the first whose pattern raises, or matches and whose
\* guard holds.
Deciding ==
    {i \in 1..Len(program.cases) :
        CaseAnswer(i).result = "raise" \/ (CaseAnswer(i).result = "yes" /\ GuardHolds(i))}
LastTried == IF Deciding = {} THEN Len(program.cases) ELSE Min(Deciding)

ExpectedEnv == FlattenSeq([i \in 1..LastTried |-> CaseAnswer(i).names])
ExpectedRuns == IF Deciding = {} THEN <<>> ELSE <<<<LastTried, program.cases[LastTried].body>>>>

----------------------------------------------------------------------------
(* Known gaps of the lowering: a subject that is a sequence or a mapping of *)
(* another type; positional patterns of a class derived from a builtin one, *)
(* or more of them than the class has; the lines of a string in a body; a   *)
(* first body on the line of its case.                                      *)

Foreign[v \in Values] ==
    v.type \in {"range", "proxy"} \/ \E i \in 1..Len(v.parts) : Foreign[v.parts[i]]
Unproven[p \in Patterns] ==
    \/ /\ p.kind = "class" /\ Positional(p) > Len(MatchArgs(p.name))
       /\ ~(p.name \in Builtins /\ Positional(p) = 1)
    \/ \E i \in 1..Len(p.nested) : Unproven[p.nested[i]]

KnownGap ==
    \/ Foreign[program.subject]
    \/ program.cases[1].body = "inline"
    \/ \E i \in 1..Len(program.cases) :
          Unproven[program.cases[i].pattern] \/ program.cases[i].body = "string"

\* The lowered text chooses the body that CPython chooses, runs it once, and
\* has bound by then the same names to the same values, those of cases whose
\* guard failed included: trying the product of all alternatives in order finds
\* what committing to each alternative of an or-pattern finds.
MatchRunsAsWritten ==
    matchPhase \in {"ended", "unparsable"} =>
        KnownGap \/ (ran = ExpectedRuns /\ env = ExpectedEnv)

\* The number of alternatives of a pattern, each or-pattern adding and each
\* other one multiplying those of its parts.
Total(counts) ==
    LET upTo[n \in 0..Len(counts)] == IF n = 0 THEN 0 ELSE upTo[n - 1] + counts[n]
    IN  upTo[Len(counts)]
Product(counts) ==
    LET upTo[n \in 0..Len(counts)] == IF n = 0 THEN 1 ELSE upTo[n - 1] * counts[n]
    IN  upTo[Len(counts)]
Alternatives[p \in Patterns] ==
    LET counts == [i \in 1..Len(p.nested) |-> Alternatives[p.nested[i]]]
    IN  IF p.kind = "or" THEN Total(counts) ELSE Product(counts)

\* A statement is handed back for review exactly when a case has more
\* alternatives than the limit: partial products never refuse one within it,
\* and what is over it is never expanded.
RefusedBeyondTheLimit ==
    matchPhase # "lower" =>
      (matchPhase = "refused" <=>
         \E i \in 1..Len(program.cases) : Alternatives[program.cases[i].pattern] > MaxAlternatives)

\* The limit refuses what is over it, and all other statements run as written.
MatchIsSound == MatchRunsAsWritten /\ RefusedBeyondTheLimit
============================================================================
