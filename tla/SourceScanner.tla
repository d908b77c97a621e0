---------------------------- MODULE SourceScanner ----------------------------
(***************************************************************************)
(* How the extractor finds its way in Rust text without a parser           *)
(* (crates/monty-extract/src/scanner.rs): the brace that closes a body      *)
(* (matching_delimiter), and the end of an item behind a feature gate, which *)
(* is masked (without_feature_gated_items).  Both pass over comments and    *)
(* strings in the same way, and take every other byte as it stands.         *)
(*                                                                         *)
(* A text is a sequence of characters; "r" and "#" stand for themselves, "x" *)
(* for any other.  A text to match starts with the opening brace; a text to mask    *)
(* starts where the item does, behind its attributes.                       *)
(***************************************************************************)
EXTENDS Integers, Sequences, FiniteSets, FiniteSetsExt

CONSTANTS
    Tasks       \* pairs of "match" or "mask", and a text

Quote == "\""
OpenBrace == "{"
CloseBrace == "}"
Separators == {",", ";"}
Characters ==
    {OpenBrace, CloseBrace, "(", ")", "[", "]", "<", ">", Quote, "\\", "'", "/", "*", "\n", "r", "#", "x"}
      \cup Separators

----------------------------------------------------------------------------
(* What Rust's lexer does.                                                  *)

At(text, i) == IF i \in 1..Len(text) THEN text[i] ELSE ""
Pair(text, i) == <<At(text, i), At(text, i + 1)>>

\* The first position of a set, or the one behind the text.
FirstOf(text, set) == IF set = {} THEN Len(text) + 1 ELSE Min(set)

\* Whether those right before k that are in a set, from i on, are even in number.
EvenBefore(set, i, k) == (k - Max({i} \cup {j + 1 : j \in (i..(k - 1)) \ set})) % 2 = 0

\* Where a string ends whose quote is right before i: behind the next quote that
\* no backslash escapes, each backslash escaping what follows it.
StringFrom(text, i) ==
    LET backslashes == {k \in i..Len(text) : text[k] = "\\"}
    IN  FirstOf(text, {k \in i..Len(text) :
                         text[k] = Quote /\ EvenBefore(backslashes, i, k)}) + 1

\* Where a comment ends whose opening is right before i.  Block comments nest;
\* an opening or a closing that overlaps the one before it is none.
CommentFrom(text, i) ==
    LET openings == {k \in i..Len(text) : Pair(text, k) = <<"/", "*">>}
        closings == {k \in i..Len(text) : Pair(text, k) = <<"*", "/">>}
        Real(k) == EvenBefore(openings \cup closings, i, k)
    IN  FirstOf(text, {k \in closings :
            Real(k) /\ Cardinality({j \in openings : j < k /\ Real(j)}) + 1
                         = Cardinality({j \in closings : j <= k /\ Real(j)})}) + 2

\* A character literal is an escape of any length, or one character; anything
\* else behind an apostrophe is a lifetime.
IsChar(text, i) ==
    /\ At(text, i) = "'"
    /\ \/ At(text, i + 1) = "\\"
       \/ At(text, i + 1) \notin {"'", "\\", ""} /\ At(text, i + 2) = "'"

\* A line comment ends behind the next newline, an escape behind its apostrophe.
Behind(text, i, character) == FirstOf(text, {k \in i..Len(text) : text[k] = character}) + 1
CharFrom(text, i) == IF text[i + 1] = "\\" THEN Behind(text, i + 3, "'") ELSE i + 3

\* A raw string is an r, any number of hashes and a quote; it ends behind the
\* next quote that as many hashes follow, and escapes nothing.
Hashes(text, i) == FirstOf(text, {k \in i..Len(text) : text[k] # "#"}) - i
IsRaw(text, i) == text[i] = "r" /\ At(text, i + 1 + Hashes(text, i + 1)) = Quote
RawFrom(text, i, hashes) ==
    FirstOf(text, {k \in i..Len(text) :
                     text[k] = Quote /\ \A j \in 1..hashes : At(text, k + j) = "#"}) + 1 + hashes

Token(text, i) ==
    CASE Pair(text, i) = <<"/", "/">> -> [kind |-> "line", next |-> Behind(text, i + 2, "\n")]
      [] Pair(text, i) = <<"/", "*">> -> [kind |-> "block", next |-> CommentFrom(text, i + 2)]
      [] IsRaw(text, i) ->
            LET hashes == Hashes(text, i + 1)
            IN  [kind |-> "raw", next |-> RawFrom(text, i + 2 + hashes, hashes)]
      [] text[i] = Quote -> [kind |-> "string", next |-> StringFrom(text, i + 1)]
      [] IsChar(text, i) -> [kind |-> "char", next |-> CharFrom(text, i)]
      [] OTHER -> [kind |-> "code", next |-> i + 1]

\* Where tokens start: the least set with the first position in it and, for each
\* token, the position behind it.
Starts(text) ==
    LET next == [i \in 1..Len(text) |-> Token(text, i).next]
        closed == {set \in SUBSET (1..Len(text)) :
                     1 \in set /\ \A i \in set : next[i] \in set \/ next[i] > Len(text)}
    IN  {i \in 1..Len(text) : \A set \in closed : i \in set}

Tokens(text) ==
    {[kind |-> Token(text, i).kind, first |-> i, last |-> Token(text, i).next - 1] : i \in Starts(text)}
CodeOf(text) == {i \in Starts(text) : Token(text, i).kind = "code"}

Opening == [round |-> "(", square |-> "[", brace |-> OpenBrace, angle |-> "<"]
Closing == [round |-> ")", square |-> "]", brace |-> CloseBrace, angle |-> ">"]
Kinds == {"round", "square", "brace", "angle"}

\* How deep the brackets of a kind are behind position i.
Count(text, code, i, c) == Cardinality({k \in code : k <= i /\ text[k] = c})
Depth(text, code, i, kind) ==
    Count(text, code, i, Opening[kind]) - Count(text, code, i, Closing[kind])

\* The brace that closes the first one; 0 when there is none.
RustMatch(text) ==
    LET code == CodeOf(text)
        closing == {k \in code : text[k] = CloseBrace /\ Depth(text, code, k, "brace") = 0}
    IN  IF closing = {} THEN 0 ELSE Min(closing)

\* Where an item ends: behind its separator or its block, in no bracket; or before
\* the bracket that closes what it stands in, which is what EndsBare says.
EndsBare(text, code, i) == \E kind \in Kinds : Depth(text, code, i, kind) < 0
ItemEnds(text, code) ==
    {i \in code :
        \/ text[i] \in Separators \cup {CloseBrace} /\ \A kind \in Kinds : Depth(text, code, i, kind) = 0
        \/ EndsBare(text, code, i)}
RustItemEnd(text) == FirstOf(text, ItemEnds(text, CodeOf(text)))

\* Rust nests its brackets: between one and the one that closes it, as many of
\* any other kind are closed as are opened.
IsNested(text) ==
    LET code == CodeOf(text)
        D(i, kind) == Depth(text, code, i, kind)
    IN  \A k \in code, kind \in Kinds \ {"angle"} :
          text[k] = Closing[kind] =>
            LET opened == {j \in code : j < k /\ text[j] = Opening[kind] /\ D(j, kind) = D(k, kind) + 1}
            IN  opened # {} => \A other \in Kinds \ {"angle", kind} : D(Max(opened), other) = D(k, other)

ASSUME TasksAssumption ==
    /\ Tasks \subseteq {"match", "mask"} \X Seq(Characters)
    /\ \A t \in Tasks : t[1] = "match" => t[2] # <<>> /\ t[2][1] = OpenBrace
    /\ \A t \in Tasks : t[1] = "mask" => IsNested(t[2])

VARIABLES
    task,       \* what is looked for
    source,    \* the text
    at,         \* the position that is looked at
    nesting,    \* the depth of (), [] and {}: of {} alone when matching
    found       \* the position of the end, -1 while it is looked for, 0 for none

scanVars == <<task, source, at, nesting, found>>

----------------------------------------------------------------------------
ScanInit ==
    /\ \E t \in Tasks : task = t[1] /\ source = t[2]
    /\ at = 1
    /\ nesting = [kind \in {"round", "square", "brace"} |-> 0]
    /\ found = -1

MoveTo(i) == at' = i /\ UNCHANGED <<task, source, nesting, found>>
Looking == found = -1 /\ at <= Len(source)

LineComment == Pair(source, at) = <<"/", "/">>
BlockComment == Pair(source, at) = <<"/", "*">>

SkipLineComment == Looking /\ LineComment /\ MoveTo(Behind(source, at + 2, "\n"))

\* The first end of a comment, whatever it nests.
SkipBlockComment ==
    /\ Looking /\ BlockComment
    /\ MoveTo(FirstOf(source, {k \in (at + 2)..Len(source) : Pair(source, k) = <<"*", "/">>}) + 2)

StringEndPlain(i) == Behind(source, i, Quote)
StringEnd(i) == StringFrom(source, i)

SkipString == Looking /\ source[at] = Quote /\ MoveTo(StringEnd(at + 1))

Code == Looking /\ ~LineComment /\ ~BlockComment /\ source[at] # Quote

\* The depths never go below zero: a closing bracket too many is passed over.
Nest(kind, c) ==
    CASE c = Opening[kind] -> nesting[kind] + 1
      [] c = Closing[kind] /\ nesting[kind] > 0 -> nesting[kind] - 1
      [] OTHER -> nesting[kind]

ScanForMatch ==
    /\ Code /\ task = "match"
    /\ nesting' = [nesting EXCEPT !.brace = Nest("brace", source[at])]
    /\ IF source[at] = CloseBrace /\ nesting'.brace = 0 THEN found' = at /\ UNCHANGED at
                                                 ELSE at' = at + 1 /\ UNCHANGED found
    /\ UNCHANGED <<task, source>>

EndsItemAnywhere(c) == (c = CloseBrace /\ nesting.brace = 1) \/ c \in Separators
EndsItem(c) ==
    \/ c = CloseBrace /\ nesting.brace = 1
    \/ c \in Separators /\ \A kind \in DOMAIN nesting : nesting[kind] = 0

ScanForItem ==
    /\ Code /\ task = "mask"
    /\ \/ EndsItem(source[at]) /\ found' = at /\ UNCHANGED <<at, nesting>>
       \/ /\ ~EndsItem(source[at])
          /\ at' = at + 1 /\ nesting' = [kind \in DOMAIN nesting |-> Nest(kind, source[at])]
          /\ UNCHANGED found
    /\ UNCHANGED <<task, source>>

\* No brace matches; an item that does not end is masked to the end of the text.
ScanEnds ==
    /\ found = -1 /\ at > Len(source)
    /\ found' = IF task = "match" THEN 0 ELSE Len(source)
    /\ UNCHANGED <<task, source, at, nesting>>

ScanNext ==
    SkipLineComment \/ SkipBlockComment \/ SkipString \/ ScanForMatch \/ ScanForItem \/ ScanEnds

ScanSpec == ScanInit /\ [][ScanNext]_scanVars

----------------------------------------------------------------------------
\* What only a lexer can tell: a character literal with a quote, a slash or what is
\* looked for, a raw string with a backslash or with a quote that does not end it
\* for want of hashes, and a comment in a comment.
Confusing ==
    {Quote, "/", OpenBrace, CloseBrace}
      \cup IF task = "match" THEN {} ELSE {"(", ")", "[", "]"} \cup Separators
Misread ==
    \E t \in Tokens(source) :
        LET hashes == Hashes(source, t.first + 1)
            Inside(first, last) == {At(source, k) : k \in first..last}
        IN  \/ t.kind = "char" /\ Inside(t.first + 1, t.last) \cap Confusing # {}
            \/ /\ t.kind = "raw"
               /\ Inside(t.first + 2 + hashes, t.last - 1 - hashes) \cap {"\\", Quote} # {}
            \/ t.kind = "block" /\ \E k \in (t.first + 2)..t.last : Pair(source, k) = <<"/", "*">>

\* The brace that is found is the one that Rust matches, in any text without
\* what only a lexer can tell, whatever its strings and comments hold.
MatchIsThatOfRust ==
    task = "match" /\ found # -1 => found = RustMatch(source) \/ Misread

\* What is masked behind a feature gate is the item and no more, but for three
\* known gaps: the last item of a list without a comma takes what follows the
\* list with it; a comma between angle brackets ends an item too early, and so
\* does the end of a block between round or square brackets.
MaskIsTheItem ==
    task = "mask" /\ found # -1 =>
        LET end == RustItemEnd(source)
            code == CodeOf(source)
        IN  \/ found = IF end > Len(source) THEN Len(source) ELSE end
            \/ Misread
            \/ EndsBare(source, code, end)
            \/ \E k \in code :
                  \/ source[k] = "<"
                  \/ source[k] = OpenBrace /\ \E kind \in Kinds \ {"brace"} : Depth(source, code, k, kind) > 0

\* The strengthening of the two.  The scanner stands where a token starts, in a
\* character literal, at the hashes or the quote before a raw string, or at the
\* hashes behind it; it has counted the brackets that it passed, and passed none
\* that is looked for.
WithinToken(text, i) ==
    \E s \in Starts(text) :
        /\ s <= i /\ i < Token(text, s).next
        /\ \/ i = s
           \/ Token(text, s).kind = "char"
           \/ /\ Token(text, s).kind = "raw"
              /\ LET hashes == Hashes(text, s + 1)
                 IN  i <= s + 1 + hashes \/ i >= Token(text, s).next - hashes
InStep == at <= Len(source) => WithinToken(source, at)

MatchInv ==
    task = "match" /\ ~Misread =>
        LET code == CodeOf(source) IN
        /\ found = -1 =>
             /\ InStep
             /\ nesting.brace = Depth(source, code, at - 1, "brace")
             /\ at > 1 => nesting.brace > 0
             /\ \A k \in code : k < at /\ source[k] = CloseBrace => Depth(source, code, k, "brace") # 0
        /\ found # -1 => found = RustMatch(source)

NoGap ==
    LET code == CodeOf(source) IN
    /\ ~Misread /\ ~EndsBare(source, code, RustItemEnd(source))
    /\ \A k \in code :
         /\ source[k] # "<"
         /\ source[k] = OpenBrace => \A kind \in Kinds \ {"brace"} : Depth(source, code, k, kind) <= 0
MaskInv ==
    task = "mask" /\ NoGap =>
        LET code == CodeOf(source) IN
        /\ found = -1 =>
             /\ InStep
             /\ \A kind \in Kinds : Depth(source, code, at - 1, kind) =
                                    IF kind = "angle" THEN 0 ELSE nesting[kind]
             /\ \A k \in ItemEnds(source, code) : k >= at
        /\ found # -1 =>
             LET end == RustItemEnd(source)
             IN  found = IF end > Len(source) THEN Len(source) ELSE end

ScanTypeOK ==
    /\ source \in Seq(Characters) /\ at \in Nat \ {0} /\ found \in Int
    /\ nesting \in [{"round", "square", "brace"} -> Nat]
    /\ task = "match" => source # <<>> /\ source[1] = OpenBrace
    /\ task = "mask" => IsNested(source)
ScanIInv == ScanTypeOK /\ MatchInv /\ MaskInv
=============================================================================
