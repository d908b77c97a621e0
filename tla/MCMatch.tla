------------------------------- MODULE MCMatch -------------------------------
EXTENDS MatchLowering

ValueP(a) == Pattern("value", a, <<>>, <<>>, 0)
AsP(name, nested) == Pattern("as", name, <<>>, nested, 0)
NameP(name) == AsP(name, <<>>)
WildP == NameP("")
OrP(nested) == Pattern("or", "", <<>>, nested, 0)
SequenceP(nested, star) == Pattern("sequence", "", <<>>, nested, star)
MappingP(keys, nested, rest) == Pattern("mapping", rest, keys, nested, 0)
ClassP(name, nested, keys) == Pattern("class", name, keys, nested, 0)

OneOrTwo == OrP(<<ValueP("1"), ValueP("2")>>)
Either == OrP(<<AsP("x", <<ValueP("1")>>), NameP("x")>>)
Simple == {ValueP("1"), NameP("x"), OneOrTwo, Either}

MCPatterns ==
    Simple
    \cup {WildP, AsP("y", <<Either>>), OrP(<<ValueP("1"), ValueP("2"), WildP>>),
          OrP(<<ValueP("1"), OneOrTwo, WildP>>), SequenceP(<<>>, 0),
          OrP(<<OneOrTwo, OneOrTwo, WildP>>), SequenceP(<<OneOrTwo, OrP(<<ValueP("1"), OneOrTwo>>)>>, 0)}
    \cup {SequenceP(<<p>>, 0) : p \in Simple}
    \cup {SequenceP(<<p, q>>, star) : p \in Simple, q \in {ValueP("2"), NameP("y"), OneOrTwo}, star \in {0}}
    \cup {SequenceP(<<NameP("s"), p>>, 1) : p \in Simple}
    \cup {SequenceP(<<p, NameP("s")>>, 2) : p \in {ValueP("1"), Either}}
    \cup {SequenceP(<<NameP("y"), WildP, ValueP("2")>>, 2), SequenceP(<<Either, NameP("s"), NameP("y")>>, 2)}
    \cup {SequenceP(<<SequenceP(<<p>>, 0), NameP("y")>>, 0) : p \in {Either, ValueP("1")}}
    \cup {OrP(<<SequenceP(<<NameP("x"), ValueP("2")>>, 0), SequenceP(<<ValueP("2"), NameP("x")>>, 0)>>)}
    \cup {MappingP(<<"a">>, <<p>>, r) : p \in Simple, r \in {"", "r"}}
    \cup {MappingP(<<"a", "b">>, <<Either, NameP("y")>>, ""), MappingP(<<"b">>, <<WildP>>, "r")}
    \cup {ClassP(c, <<>>, <<>>) : c \in {"int", "list", "Sub", "Point"}}
    \cup {ClassP(c, <<p>>, <<>>) : c \in {"int", "dict", "Sub", "Point"}, p \in {NameP("x"), Either}}
    \cup {ClassP("Point", <<ValueP("1"), WildP>>, <<>>), ClassP("Point", <<ValueP("1")>>, <<"px">>),
          ClassP("int", <<NameP("x"), NameP("y")>>, <<>>)}

ListOf(parts) == PyValue("list", "", <<>>, parts)
DictOf(type, parts) == PyValue(type, "", SubSeq(<<"a", "b">>, 1, Len(parts)), parts)
MCSubjects ==
    {Atom("1"), Atom("2"), PyValue("Sub", "1", <<>>, <<>>), ListOf(<<>>), ListOf(<<Atom("1")>>),
     ListOf(<<Atom("1"), Atom("2")>>), PyValue("tuple", "", <<>>, <<Atom("2"), Atom("1")>>),
     ListOf(<<Atom("1"), Atom("2"), Atom("2")>>), ListOf(<<ListOf(<<Atom("2")>>), Atom("1")>>),
     PyValue("range", "", <<>>, <<Atom("1"), Atom("2")>>), DictOf("dict", <<Atom("1")>>),
     DictOf("dict", <<Atom("2"), Atom("1")>>), DictOf("proxy", <<Atom("1")>>),
     PyValue("Point", "", <<>>, <<>>), PyValue("Point", "", <<"px">>, <<Atom("1")>>)}

CaseOf(p, guard, body) == [pattern |-> p, guard |-> guard, body |-> body]
MCSecond == {ValueP("2"), NameP("x"), SequenceP(<<WildP, NameP("x")>>, 0)}
MCPrograms ==
    [cases : {<<CaseOf(p, g, "block"), CaseOf(q, "none", "block")>> :
                 p \in MCPatterns, q \in MCSecond, g \in {"none", "fails"}}
             \cup {<<CaseOf(p, "holds", b)>> : p \in Simple, b \in {"inline", "string"}},
     subject : MCSubjects]

\* The patterns and values of the programs, and those nested in them.
RECURSIVE WithNested(_), WithParts(_), PatternDepth(_), ValueDepth(_)
WithNested(p) == {p} \cup UNION {WithNested(p.nested[i]) : i \in 1..Len(p.nested)}
WithParts(v) == {v} \cup UNION {WithParts(v.parts[i]) : i \in 1..Len(v.parts)}
PatternDepth(p) == Max({0} \cup {1 + PatternDepth(p.nested[i]) : i \in 1..Len(p.nested)})
ValueDepth(v) == Max({0} \cup {1 + ValueDepth(v.parts[i]) : i \in 1..Len(v.parts)})

AllPatterns == UNION {WithNested(p) : p \in MCPatterns \cup MCSecond}
AllValues == UNION {WithParts(v) : v \in MCSubjects}
MCDepth ==
    [x \in AllPatterns \cup AllValues |->
        IF x \in AllPatterns THEN PatternDepth(x) ELSE ValueDepth(x)]
==============================================================================
