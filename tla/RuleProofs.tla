----------------------------- MODULE RuleProofs ------------------------------
(***************************************************************************)
(* Theorems about the rules of a pass.  MatchLowering, for any limit, any    *)
(* patterns and values of finite depth and any statements:                   *)
(*  - the functions that are defined by recursion on a pattern, on a value   *)
(*    or along a list exist, and have one step of their definition;          *)
(*  - what the plans of a pattern find, in terms of its parts;               *)
(*  - how many plans a pattern has, and when it has none;                    *)
(*  - by the depth of the pattern, its plans find what CPython's matching    *)
(*    binds;                                                                 *)
(*  - by the steps of the lowered text, it runs what the statement runs.     *)
(* RuleSemantics, for any number of parts of a statement and of decorators:  *)
(*  - what CPython runs at a site of a rule, and what its text runs instead, *)
(*    and that they are equal exactly outside the known gaps;                *)
(*  - by the decisions of the handlers, that this is so of every run.        *)
(***************************************************************************)
EXTENDS MatchLowering, RuleSemantics, SequenceTheorems, FiniteSetTheorems,
        WellFoundedInduction, TLAPS

-----------------------------------------------------------------------------
(* Lists.                                                                    *)

(* A set of naturals that is not empty has a least one.                     *)
LEMMA LeastNatural ==
  ASSUME NEW S \in SUBSET Nat, S # {}
  PROVE  \E n \in S : \A m \in S : n <= m
<1>1. PICK n \in S : \A m \in S : ~(<<m, n>> \in OpToRel(<, Nat))
  BY NatLessThanWellFounded, WFMin
<1>2. \A m \in S : ~(m < n)
  BY <1>1 DEF OpToRel
<1>3. QED
  BY <1>2

(* The least element is the one that Min chooses.                           *)
LEMMA LeastIsMin ==
  ASSUME NEW S \in SUBSET Nat, NEW n \in S, \A m \in S : n <= m
  PROVE  Min(S) = n
<1>1. n \in S /\ \A m \in S : n <= m
  OBVIOUS
<1>2. Min(S) \in S /\ \A m \in S : Min(S) <= m
  BY <1>1 DEF Min
<1>3. Min(S) <= n /\ n <= Min(S) /\ Min(S) \in Nat
  BY <1>1, <1>2
<1>4. QED
  BY <1>3

IsList(s) == s \in Seq({s[i] : i \in 1..Len(s)})

(* A list has a length and is the function of its elements.                 *)
LEMMA ListFacts ==
  ASSUME NEW s, IsList(s)
  PROVE  Len(s) \in Nat /\ s = [i \in 1..Len(s) |-> s[i]] /\ DOMAIN s = 1..Len(s)
  BY LenProperties DEF IsList

(* A function of 1..n is a list of length n.                                *)
LEMMA ListOf ==
  ASSUME NEW n \in Nat, NEW f, f = [i \in 1..n |-> f[i]]
  PROVE  IsList(f) /\ Len(f) = n
<1>1. f \in Seq({f[i] : i \in 1..n})
  BY IsASeq
<1>2. Len(f) = n
  BY <1>1, LenProperties
<1>3. QED
  BY <1>1, <1>2 DEF IsList

(* A sequence over a set is a list of elements of it.                       *)
LEMMA SeqIsList ==
  ASSUME NEW S, NEW s \in Seq(S)
  PROVE  IsList(s) /\ \A i \in 1..Len(s) : s[i] \in S
<1>1. Len(s) \in Nat /\ s = [i \in 1..Len(s) |-> s[i]]
  BY LenProperties
<1>2. QED
  BY <1>1, ListOf, ElementOfSeq

(* The length of a list is a natural number.                                *)
LEMMA ListLength ==
  ASSUME NEW s, IsList(s)
  PROVE  Len(s) \in Nat
  BY ListFacts

(* Two lists with the same elements at the same places are one.             *)
LEMMA ListsEqual ==
  ASSUME NEW s, NEW t, IsList(s), IsList(t), Len(s) = Len(t),
         \A i \in 1..Len(s) : s[i] = t[i]
  PROVE  s = t
  BY ListFacts

(* What joining two lists gives at each place.                              *)
LEMMA Joined ==
  ASSUME NEW s, NEW t, IsList(s), IsList(t)
  PROVE  /\ IsList(s \o t) /\ Len(s \o t) = Len(s) + Len(t)
         /\ Len(s) \in Nat /\ Len(t) \in Nat
         /\ \A i \in 1..Len(s) : (s \o t)[i] = s[i]
         /\ \A i \in 1..Len(t) : (s \o t)[Len(s) + i] = t[i]
<1> DEFINE S == {s[i] : i \in 1..Len(s)} \cup {t[i] : i \in 1..Len(t)}
<1>1. s \in Seq(S) /\ t \in Seq(S) /\ Len(s) \in Nat /\ Len(t) \in Nat
  <2>1. Len(s) \in Nat /\ s = [i \in 1..Len(s) |-> s[i]] /\ Len(t) \in Nat /\ t = [i \in 1..Len(t) |-> t[i]]
    BY ListFacts
  <2>2. \A i \in 1..Len(s) : s[i] \in S
    OBVIOUS
  <2>3. \A i \in 1..Len(t) : t[i] \in S
    OBVIOUS
  <2>4. QED
    BY <2>1, <2>2, <2>3, IsASeq
<1> HIDE DEF S
<1>2. /\ s \o t \in Seq(S)
      /\ Len(s \o t) = Len(s) + Len(t)
      /\ \A i \in 1 .. Len(s) + Len(t) : (s \o t)[i] = IF i <= Len(s) THEN s[i] ELSE t[i - Len(s)]
  BY <1>1, ConcatProperties
<1>3. IsList(s \o t)
  BY <1>2, SeqIsList
<1>4. \A i \in 1..Len(t) : (s \o t)[Len(s) + i] = t[i]
  <2>1. SUFFICES ASSUME NEW i \in 1..Len(t) PROVE (s \o t)[Len(s) + i] = t[i]
    OBVIOUS
  <2>2. Len(s) + i \in 1..Len(s) + Len(t) /\ ~(Len(s) + i <= Len(s)) /\ (Len(s) + i) - Len(s) = i
    BY <1>1
  <2>3. QED
    BY <1>2, <2>2
<1>5. \A i \in 1..Len(s) : (s \o t)[i] = s[i]
  BY <1>1, <1>2
<1>6. QED
  BY <1>1, <1>2, <1>3, <1>4, <1>5

(* Each element of a joined list is one of the first or one of the second.   *)
LEMMA JoinedParts ==
  ASSUME NEW s, NEW t, IsList(s), IsList(t)
  PROVE  /\ IsList(s \o t)
         /\ \A i \in 1..Len(s) : i \in 1..Len(s \o t) /\ (s \o t)[i] = s[i]
         /\ \A i \in 1..Len(t) : Len(s) + i \in 1..Len(s \o t) /\ (s \o t)[Len(s) + i] = t[i]
         /\ \A i \in 1..Len(s \o t) :
              \/ i \in 1..Len(s) /\ (s \o t)[i] = s[i]
              \/ i - Len(s) \in 1..Len(t) /\ (s \o t)[i] = t[i - Len(s)]
<1> DEFINE u == s \o t
           m == Len(s)
           n == Len(t)
<1>1. /\ IsList(u) /\ Len(u) = m + n /\ m \in Nat /\ n \in Nat
      /\ \A i \in 1..m : u[i] = s[i]
      /\ \A i \in 1..n : u[m + i] = t[i]
  BY Joined
<1> HIDE DEF u, m, n
<1>2. (\A i \in 1..m : i \in 1..Len(u)) /\ \A i \in 1..n : m + i \in 1..Len(u)
  BY <1>1
<1>3. ASSUME NEW i \in 1..Len(u), i \notin 1..m
      PROVE  i - m \in 1..n /\ u[i] = t[i - m]
  <2>1. i - m \in 1..n /\ m + (i - m) = i
    BY <1>1, <1>3
  <2>2. u[m + (i - m)] = t[i - m]
    BY <1>1, <2>1
  <2>3. QED
    BY <2>1, <2>2
<1>4. QED
  BY <1>1, <1>2, <1>3 DEF u, m, n

(* The empty list, and joining it.                                          *)
LEMMA Nothing ==
  /\ IsList(<<>>) /\ Len(<<>>) = 0
  /\ \A s : IsList(s) => s \o <<>> = s /\ <<>> \o s = s
  /\ \A s : IsList(s) /\ Len(s) = 0 => s = <<>>
<1>1. IsList(<<>>) /\ Len(<<>>) = 0
  BY EmptySeq, SeqIsList
<1>2. ASSUME NEW s, IsList(s) PROVE s \o <<>> = s /\ <<>> \o s = s
  BY <1>2, ConcatEmptySeq DEF IsList
<1>3. ASSUME NEW s, IsList(s), Len(s) = 0 PROVE s = <<>>
  BY <1>1, <1>3, ListsEqual
<1>4. QED
  BY <1>1, <1>2, <1>3

(* Joining lists is associative.                                            *)
LEMMA JoinAssociates ==
  ASSUME NEW s, NEW t, NEW u, IsList(s), IsList(t), IsList(u)
  PROVE  (s \o t) \o u = s \o (t \o u)
<1> DEFINE S == {s[i] : i \in 1..Len(s)} \cup {t[i] : i \in 1..Len(t)} \cup {u[i] : i \in 1..Len(u)}
<1>1. s \in Seq(S) /\ t \in Seq(S) /\ u \in Seq(S)
  <2>1. \A i \in 1..Len(s) : s[i] \in S
    OBVIOUS
  <2>2. \A i \in 1..Len(t) : t[i] \in S
    OBVIOUS
  <2>3. \A i \in 1..Len(u) : u[i] \in S
    OBVIOUS
  <2> HIDE DEF S
  <2>4. QED
    BY SMTT(40), <2>1, <2>2, <2>3, ListFacts, IsASeq
<1> HIDE DEF S
<1>2. QED
  BY SMTT(40), <1>1, ConcatAssociative

(* A list of one element.                                                   *)
LEMMA OneElement ==
  ASSUME NEW x
  PROVE  IsList(<<x>>) /\ Len(<<x>>) = 1 /\ <<x>>[1] = x /\ <<x>> # <<>>
<1>1. <<x>> \in Seq({x}) /\ Len(<<x>>) = 1 /\ <<x>>[1] = x
  OBVIOUS
<1>2. QED
  BY <1>1, SeqIsList, Nothing

-----------------------------------------------------------------------------
(* What is built list by list.                                               *)

Flat(s) == CHOOSE f : f = [i \in 1..Len(s) |-> IF i = 1 THEN s[i] ELSE f[i - 1] \o s[i]]

(* The function that FlattenSeq chooses exists.                             *)
LEMMA FlatExists ==
  ASSUME NEW s, IsList(s)
  PROVE  Flat(s) = [i \in 1..Len(s) |-> IF i = 1 THEN s[i] ELSE Flat(s)[i - 1] \o s[i]]
<1> DEFINE Good(k) == \E f : f = [i \in 1..k |-> IF i = 1 THEN s[i] ELSE f[i - 1] \o s[i]]
           Bad == {k \in Nat : ~Good(k)}
<1>1. Bad = {}
  <2>1. SUFFICES ASSUME Bad # {} PROVE FALSE
    OBVIOUS
  <2>2. PICK k \in Bad : \A m \in Bad : k <= m
    BY <2>1, LeastNatural
  <2>3. k # 0
    <3>1. \A f : [i \in 1..0 |-> IF i = 1 THEN s[i] ELSE f[i - 1] \o s[i]] = [i \in {} |-> 0]
      OBVIOUS
    <3>2. Good(0)
      BY <3>1
    <3>3. QED
      BY <3>2
  <2>4. k \in Nat /\ k - 1 \in Nat /\ Good(k - 1)
    <3>1. k \in Nat /\ k - 1 \in Nat /\ ~(k <= k - 1)
      BY <2>3
    <3>2. k - 1 \notin Bad
      BY <2>2, <3>1
    <3>3. QED
      BY <3>1, <3>2
  <2>5. PICK f : f = [i \in 1..(k - 1) |-> IF i = 1 THEN s[i] ELSE f[i - 1] \o s[i]]
    BY <2>4
  <2> DEFINE g == [i \in 1..k |-> IF i = 1 THEN s[i] ELSE f[i - 1] \o s[i]]
  <2>6. \A i \in 1..(k - 1) : g[i] = f[i]
    <3>1. \A i \in 1..(k - 1) : i \in 1..k
      BY <2>4
    <3>2. \A i \in 1..(k - 1) : f[i] = IF i = 1 THEN s[i] ELSE f[i - 1] \o s[i]
      BY <2>5
    <3>3. QED
      BY <3>1, <3>2
  <2>7. \A i \in 1..k : i # 1 => i - 1 \in 1..(k - 1)
    BY <2>4
  <2>8. g = [i \in 1..k |-> IF i = 1 THEN s[i] ELSE g[i - 1] \o s[i]]
    <3>1. \A i \in 1..k : (IF i = 1 THEN s[i] ELSE f[i - 1] \o s[i])
                          = (IF i = 1 THEN s[i] ELSE g[i - 1] \o s[i])
      BY <2>6, <2>7
    <3>2. QED
      BY <3>1
  <2> HIDE DEF g
  <2>9. Good(k)
    BY <2>8
  <2>10. QED
    BY <2>2, <2>9
<1>2. Good(Len(s))
  BY <1>1, ListFacts
<1>3. QED
  BY <1>2 DEF Flat

(* FlattenSeq gives its last value.                                         *)
LEMMA FlattenIs ==
  ASSUME NEW s, IsList(s)
  PROVE  FlattenSeq(s) = IF Len(s) = 0 THEN <<>> ELSE Flat(s)[Len(s)]
<1>1. CASE Len(s) = 0
  <2>1. s = <<>>
    BY <1>1, Nothing
  <2>2. FlattenSeq(s) = s
    BY <2>1 DEF FlattenSeq
  <2>3. QED
    BY <1>1, <2>1, <2>2
<1>2. CASE Len(s) # 0
  <2>1. s # <<>>
    BY <1>2, Nothing
  <2>2. FlattenSeq(s) = Flat(s)[Len(s)]
    BY <2>1 DEF FlattenSeq, Flat
  <2>3. QED
    BY <1>2, <2>2
<1>3. QED
  BY <1>1, <1>2

(* One list is joined at a time.                                            *)
LEMMA FlatSteps ==
  ASSUME NEW s, IsList(s), NEW i \in 1..Len(s)
  PROVE  /\ i = 1 => Flat(s)[i] = s[1]
         /\ i # 1 => i - 1 \in 1..Len(s) /\ Flat(s)[i] = Flat(s)[i - 1] \o s[i]
<1>1. Flat(s) = [j \in 1..Len(s) |-> IF j = 1 THEN s[j] ELSE Flat(s)[j - 1] \o s[j]]
  BY FlatExists
<1>2. Flat(s)[i] = IF i = 1 THEN s[i] ELSE Flat(s)[i - 1] \o s[i]
  BY <1>1
<1>3. Len(s) \in Nat
  BY ListFacts
<1>4. i # 1 => i - 1 \in 1..Len(s)
  BY <1>3
<1>5. QED
  BY <1>2, <1>4

(* What is joined so far depends on the lists so far only.                  *)
LEMMA FlatAgree ==
  ASSUME NEW s, NEW t, IsList(s), IsList(t), NEW n \in 0..Len(s), n <= Len(t),
         \A i \in 1..n : s[i] = t[i]
  PROVE  \A i \in 1..n : Flat(s)[i] = Flat(t)[i]
<1> DEFINE Bad == {i \in 1..n : Flat(s)[i] # Flat(t)[i]}
<1>0. Len(s) \in Nat /\ Len(t) \in Nat /\ n \in Nat
  BY ListFacts
<1>1. SUFFICES ASSUME Bad # {} PROVE FALSE
  OBVIOUS
<1>2. Bad \in SUBSET Nat
  BY <1>0
<1>3. PICK k \in Bad : \A m \in Bad : k <= m
  BY <1>1, <1>2, LeastNatural
<1>4. k \in 1..n /\ k \in 1..Len(s) /\ k \in 1..Len(t) /\ s[k] = t[k]
  BY <1>0
<1>5. k # 1
  BY <1>3, <1>4, FlatSteps
<1>6. k - 1 \in 1..n /\ ~(k <= k - 1)
  BY <1>0, <1>4, <1>5
<1>7. Flat(s)[k - 1] = Flat(t)[k - 1]
  BY <1>3, <1>6
<1>8. Flat(s)[k] = Flat(s)[k - 1] \o s[k]
  BY <1>4, <1>5, FlatSteps
<1>9. Flat(t)[k] = Flat(t)[k - 1] \o t[k]
  BY <1>4, <1>5, FlatSteps
<1>10. QED
  BY <1>3, <1>4, <1>7, <1>8, <1>9

(* Flattening one list more joins it at the end.                            *)
LEMMA FlattenLast ==
  ASSUME NEW n \in Nat, NEW s, NEW t, IsList(s), IsList(t), Len(s) = n, Len(t) = n + 1,
         \A i \in 1..n : s[i] = t[i], IsList(t[n + 1])
  PROVE  FlattenSeq(t) = FlattenSeq(s) \o t[n + 1]
<1>1. n + 1 \in 1..Len(t) /\ n \in 0..Len(s) /\ n <= Len(t) /\ n + 1 # 0
  OBVIOUS
<1>2. FlattenSeq(t) = Flat(t)[n + 1]
  BY <1>1, FlattenIs
<1>3. CASE n = 0
  <2>1. FlattenSeq(s) = <<>>
    BY <1>3, FlattenIs
  <2>2. n + 1 = 1 /\ 1 \in 1..Len(t)
    BY <1>1, <1>3
  <2>3. Flat(t)[1] = t[1]
    BY <2>2, FlatSteps
  <2>4. QED
    BY <1>2, <2>1, <2>2, <2>3, Nothing
<1>4. CASE n # 0
  <2>1. FlattenSeq(s) = Flat(s)[n] /\ n \in 1..n /\ n + 1 # 1 /\ (n + 1) - 1 = n
    BY <1>4, FlattenIs
  <2>2. Flat(s)[n] = Flat(t)[n]
    BY <1>1, <2>1, FlatAgree
  <2>3. Flat(t)[n + 1] = Flat(t)[(n + 1) - 1] \o t[n + 1]
    BY ZenonT(60), <1>1, <2>1, FlatSteps
  <2>4. QED
    BY <1>2, <2>1, <2>2, <2>3
<1>5. QED
  BY <1>3, <1>4

(* Flattening no list gives the empty one.                                  *)
LEMMA FlattenNone == FlattenSeq(<<>>) = <<>>
  BY FlattenIs, Nothing

FirstOf(s, n) == [i \in 1..n |-> s[i]]

(* The first n elements are a list of length n.                             *)
LEMMA FrontIs ==
  ASSUME NEW s, NEW n \in Nat
  PROVE  /\ IsList(FirstOf(s, n)) /\ Len(FirstOf(s, n)) = n /\ \A i \in 1..n : FirstOf(s, n)[i] = s[i]
         /\ IsList(s) /\ n = Len(s) => FirstOf(s, n) = s
<1>1. IsList(FirstOf(s, n)) /\ Len(FirstOf(s, n)) = n
  BY ListOf DEF FirstOf
<1>2. \A i \in 1..n : FirstOf(s, n)[i] = s[i]
  BY DEF FirstOf
<1>3. QED
  BY <1>1, <1>2, ListsEqual

(* What flattening gives for the first n lists, and for one more.            *)
LEMMA FlattenFront ==
  ASSUME NEW s, NEW n \in Nat, \A i \in 1..(n + 1) : IsList(s[i])
  PROVE  /\ FlattenSeq(FirstOf(s, 0)) = <<>>
         /\ FlattenSeq(FirstOf(s, n + 1)) = FlattenSeq(FirstOf(s, n)) \o s[n + 1]
<1>1. IsList(FirstOf(s, 0)) /\ Len(FirstOf(s, 0)) = 0
  BY FrontIs
<1>2. FlattenSeq(FirstOf(s, 0)) = <<>>
  BY <1>1, FlattenNone, Nothing
<1>3. n + 1 \in Nat /\ n + 1 \in 1..(n + 1) /\ \A i \in 1..n : i \in 1..(n + 1)
  OBVIOUS
<1> DEFINE a == FirstOf(s, n)
           b == FirstOf(s, n + 1)
<1>4. IsList(a) /\ Len(a) = n /\ \A i \in 1..n : a[i] = s[i]
  BY FrontIs
<1>5. IsList(b) /\ Len(b) = n + 1 /\ \A i \in 1..(n + 1) : b[i] = s[i]
  BY <1>3, FrontIs
<1> HIDE DEF a, b
<1>6. FlattenSeq(b) = FlattenSeq(a) \o b[n + 1]
  BY ZenonT(60), <1>3, <1>4, <1>5, FlattenLast
<1>7. QED
  BY <1>2, <1>3, <1>5, <1>6 DEF a, b

(* Flattening lists gives a list.                                           *)
LEMMA FlattenIsList ==
  ASSUME NEW s, NEW n \in Nat, \A i \in 1..n : IsList(s[i])
  PROVE  IsList(FlattenSeq(FirstOf(s, n)))
<1> DEFINE Bad == {k \in 0..n : ~IsList(FlattenSeq(FirstOf(s, k)))}
<1>1. SUFFICES ASSUME Bad # {} PROVE FALSE
  OBVIOUS
<1>2. Bad \in SUBSET Nat
  OBVIOUS
<1>3. PICK k \in Bad : \A m \in Bad : k <= m
  BY <1>1, <1>2, LeastNatural
<1>4. k \in 0..n /\ ~IsList(FlattenSeq(FirstOf(s, k)))
  OBVIOUS
<1>5. k # 0
  <2>1. FlattenSeq(FirstOf(s, 0)) = <<>>
    BY FrontIs, FlattenNone, Nothing
  <2>2. QED
    BY <1>4, <2>1, Nothing
<1>6. k - 1 \in Nat /\ k - 1 \in 0..n /\ ~(k <= k - 1) /\ (k - 1) + 1 = k /\ k \in 1..n
  BY <1>4, <1>5
<1>7. IsList(FlattenSeq(FirstOf(s, k - 1)))
  BY <1>3, <1>6
<1>8. \A i \in 1..((k - 1) + 1) : IsList(s[i])
  BY <1>6
<1>9. FlattenSeq(FirstOf(s, (k - 1) + 1)) = FlattenSeq(FirstOf(s, k - 1)) \o s[(k - 1) + 1]
  BY <1>6, <1>8, FlattenFront
<1>10. FlattenSeq(FirstOf(s, k)) = FlattenSeq(FirstOf(s, k - 1)) \o s[k]
  BY <1>6, <1>9
<1>11. IsList(s[k])
  BY <1>6
<1>12. QED
  BY <1>4, <1>7, <1>10, <1>11, Joined

-----------------------------------------------------------------------------
(* The functions of MatchLowering that are defined by recursion exist: those *)
(* over the elements of a list, by the least length without one ...          *)

PartsOn(v, path) ==
  CHOOSE f : f = [n \in 0..Len(path) |-> IF n = 0 THEN v ELSE PartAt(f[n - 1], path[n])]

(* The part at the end of a path is reached step by step. *)
LEMMA PartsOnSteps ==
  ASSUME NEW v, NEW path, Len(path) \in Nat
  PROVE  /\ At(v, path) = PartsOn(v, path)[Len(path)]
         /\ 0 \in 0..Len(path) => PartsOn(v, path)[0] = v
         /\ \A n \in 0..Len(path) : n # 0 =>
               PartsOn(v, path)[n] = PartAt(PartsOn(v, path)[n - 1], path[n])
<1> DEFINE Step(n, f) == IF n = 0 THEN v ELSE PartAt(f[n - 1], path[n])
           Good(k) == \E f : f = [n \in 0..k |-> Step(n, f)]
           Bad == {k \in Nat : ~Good(k)}
<1>1. Bad = {}
  <2>1. SUFFICES ASSUME Bad # {} PROVE FALSE
    OBVIOUS
  <2>2. PICK k \in Bad : \A m \in Bad : k <= m
    BY <2>1, LeastNatural
  <2>3. k # 0
    <3> DEFINE g == [n \in 0..0 |-> v]
    <3>1. \A n \in 0..0 : n = 0
      OBVIOUS
    <3>2. g = [n \in 0..0 |-> Step(n, g)]
      BY <3>1
    <3> HIDE DEF g
    <3>4. Good(0)
      BY <3>2
    <3>5. QED
      BY <3>4
  <2>4. k \in Nat /\ k - 1 \in Nat /\ Good(k - 1)
    <3>1. k \in Nat /\ k - 1 \in Nat /\ ~(k <= k - 1)
      BY <2>3
    <3>2. k - 1 \notin Bad
      BY <2>2, <3>1
    <3>3. QED
      BY <3>1, <3>2
  <2>5. PICK f : f = [n \in 0..(k - 1) |-> Step(n, f)]
    BY <2>4
  <2> DEFINE g == [n \in 0..k |-> Step(n, f)]
  <2>6. \A n \in 0..(k - 1) : g[n] = f[n]
    <3>1. \A n \in 0..(k - 1) : n \in 0..k
      BY <2>4
    <3>2. \A n \in 0..(k - 1) : f[n] = Step(n, f)
      BY <2>5
    <3>3. QED
      BY <3>1, <3>2
  <2>7. \A n \in 0..k : n # 0 => n - 1 \in 0..(k - 1)
    BY <2>4
  <2>8. g = [n \in 0..k |-> Step(n, g)]
    <3>1. \A n \in 0..k : n # 0 => f[n - 1] = g[n - 1]
      BY <2>6, <2>7
    <3>2. \A n \in 0..k : Step(n, f) = Step(n, g)
      BY <3>1
    <3>3. QED
      BY <3>2
  <2> HIDE DEF g
  <2>9. Good(k)
    BY <2>8
  <2>10. QED
    BY <2>2, <2>9
<1>2. Good(Len(path))
  BY <1>1
<1> DEFINE all == PartsOn(v, path)
<1>3. all = [n \in 0..Len(path) |-> Step(n, all)]
  BY <1>2 DEF PartsOn
<1> HIDE DEF all
<1>4. \A n \in 0..Len(path) : all[n] = Step(n, all)
  BY <1>3
<1>5. At(v, path) = PartsOn(v, path)[Len(path)]
  BY DEF At, PartsOn
<1>6. QED
  BY <1>4, <1>5 DEF all

AllUpTo(first, sets) ==
  CHOOSE f : f = [n \in 0..Len(sets) |-> IF n = 0 THEN first ELSE CombinePlanSets(f[n - 1], sets[n])]

(* The plans for all parts are combined set by set. *)
LEMMA AllUpToSteps ==
  ASSUME NEW first, NEW sets, Len(sets) \in Nat
  PROVE  /\ AllPlans(first, sets) = AllUpTo(first, sets)[Len(sets)]
         /\ 0 \in 0..Len(sets) => AllUpTo(first, sets)[0] = first
         /\ \A n \in 0..Len(sets) : n # 0 =>
               AllUpTo(first, sets)[n] = CombinePlanSets(AllUpTo(first, sets)[n - 1], sets[n])
<1> DEFINE Step(n, f) == IF n = 0 THEN first ELSE CombinePlanSets(f[n - 1], sets[n])
           Good(k) == \E f : f = [n \in 0..k |-> Step(n, f)]
           Bad == {k \in Nat : ~Good(k)}
<1>1. Bad = {}
  <2>1. SUFFICES ASSUME Bad # {} PROVE FALSE
    OBVIOUS
  <2>2. PICK k \in Bad : \A m \in Bad : k <= m
    BY <2>1, LeastNatural
  <2>3. k # 0
    <3> DEFINE g == [n \in 0..0 |-> first]
    <3>1. \A n \in 0..0 : n = 0
      OBVIOUS
    <3>2. g = [n \in 0..0 |-> Step(n, g)]
      BY <3>1
    <3> HIDE DEF g
    <3>4. Good(0)
      BY <3>2
    <3>5. QED
      BY <3>4
  <2>4. k \in Nat /\ k - 1 \in Nat /\ Good(k - 1)
    <3>1. k \in Nat /\ k - 1 \in Nat /\ ~(k <= k - 1)
      BY <2>3
    <3>2. k - 1 \notin Bad
      BY <2>2, <3>1
    <3>3. QED
      BY <3>1, <3>2
  <2>5. PICK f : f = [n \in 0..(k - 1) |-> Step(n, f)]
    BY <2>4
  <2> DEFINE g == [n \in 0..k |-> Step(n, f)]
  <2>6. \A n \in 0..(k - 1) : g[n] = f[n]
    <3>1. \A n \in 0..(k - 1) : n \in 0..k
      BY <2>4
    <3>2. \A n \in 0..(k - 1) : f[n] = Step(n, f)
      BY <2>5
    <3>3. QED
      BY <3>1, <3>2
  <2>7. \A n \in 0..k : n # 0 => n - 1 \in 0..(k - 1)
    BY <2>4
  <2>8. g = [n \in 0..k |-> Step(n, g)]
    <3>1. \A n \in 0..k : n # 0 => f[n - 1] = g[n - 1]
      BY <2>6, <2>7
    <3>2. \A n \in 0..k : Step(n, f) = Step(n, g)
      BY <3>1
    <3>3. QED
      BY <3>2
  <2> HIDE DEF g
  <2>9. Good(k)
    BY <2>8
  <2>10. QED
    BY <2>2, <2>9
<1>2. Good(Len(sets))
  BY <1>1
<1> DEFINE all == AllUpTo(first, sets)
<1>3. all = [n \in 0..Len(sets) |-> Step(n, all)]
  BY <1>2 DEF AllUpTo
<1> HIDE DEF all
<1>4. \A n \in 0..Len(sets) : all[n] = Step(n, all)
  BY <1>3
<1>5. AllPlans(first, sets) = AllUpTo(first, sets)[Len(sets)]
  BY DEF AllPlans, AllUpTo
<1>6. QED
  BY <1>4, <1>5 DEF all

AnyUpTo(sets) ==
  CHOOSE f : f = [n \in 1..Len(sets) |-> IF n = 1 THEN sets[1] ELSE Extend(f[n - 1], sets[n])]

(* The plans for any of the alternatives are joined set by set. *)
LEMMA AnyUpToSteps ==
  ASSUME NEW sets, Len(sets) \in Nat
  PROVE  /\ AnyPlan(sets) = AnyUpTo(sets)[Len(sets)]
         /\ 1 \in 1..Len(sets) => AnyUpTo(sets)[1] = sets[1]
         /\ \A n \in 1..Len(sets) : n # 1 =>
               AnyUpTo(sets)[n] = Extend(AnyUpTo(sets)[n - 1], sets[n])
<1> DEFINE Step(n, f) == IF n = 1 THEN sets[1] ELSE Extend(f[n - 1], sets[n])
           Good(k) == \E f : f = [n \in 1..k |-> Step(n, f)]
           Bad == {k \in Nat : ~Good(k)}
<1>1. Bad = {}
  <2>1. SUFFICES ASSUME Bad # {} PROVE FALSE
    OBVIOUS
  <2>2. PICK k \in Bad : \A m \in Bad : k <= m
    BY <2>1, LeastNatural
  <2>3. k # 0
    <3>1. \A f : [n \in 1..0 |-> Step(n, f)] = [n \in {} |-> 0]
      OBVIOUS
    <3>2. Good(0)
      BY <3>1
    <3>5. QED
      BY <3>2
  <2>4. k \in Nat /\ k - 1 \in Nat /\ Good(k - 1)
    <3>1. k \in Nat /\ k - 1 \in Nat /\ ~(k <= k - 1)
      BY <2>3
    <3>2. k - 1 \notin Bad
      BY <2>2, <3>1
    <3>3. QED
      BY <3>1, <3>2
  <2>5. PICK f : f = [n \in 1..(k - 1) |-> Step(n, f)]
    BY <2>4
  <2> DEFINE g == [n \in 1..k |-> Step(n, f)]
  <2>6. \A n \in 1..(k - 1) : g[n] = f[n]
    <3>1. \A n \in 1..(k - 1) : n \in 1..k
      BY <2>4
    <3>2. \A n \in 1..(k - 1) : f[n] = Step(n, f)
      BY <2>5
    <3>3. QED
      BY <3>1, <3>2
  <2>7. \A n \in 1..k : n # 1 => n - 1 \in 1..(k - 1)
    BY <2>4
  <2>8. g = [n \in 1..k |-> Step(n, g)]
    <3>1. \A n \in 1..k : n # 1 => f[n - 1] = g[n - 1]
      BY <2>6, <2>7
    <3>2. \A n \in 1..k : Step(n, f) = Step(n, g)
      BY <3>1
    <3>3. QED
      BY <3>2
  <2> HIDE DEF g
  <2>9. Good(k)
    BY <2>8
  <2>10. QED
    BY <2>2, <2>9
<1>2. Good(Len(sets))
  BY <1>1
<1> DEFINE all == AnyUpTo(sets)
<1>3. all = [n \in 1..Len(sets) |-> Step(n, all)]
  BY <1>2 DEF AnyUpTo
<1> HIDE DEF all
<1>4. \A n \in 1..Len(sets) : all[n] = Step(n, all)
  BY <1>3
<1>5. AnyPlan(sets) = AnyUpTo(sets)[Len(sets)]
  BY DEF AnyPlan, AnyUpTo
<1>6. QED
  BY <1>4, <1>5 DEF all

TotalUpTo(counts) ==
  CHOOSE f : f = [n \in 0..Len(counts) |-> IF n = 0 THEN 0 ELSE f[n - 1] + counts[n]]

(* The alternatives of an or-pattern are added one by one. *)
LEMMA TotalUpToSteps ==
  ASSUME NEW counts, Len(counts) \in Nat
  PROVE  /\ Total(counts) = TotalUpTo(counts)[Len(counts)]
         /\ 0 \in 0..Len(counts) => TotalUpTo(counts)[0] = 0
         /\ \A n \in 0..Len(counts) : n # 0 =>
               TotalUpTo(counts)[n] = TotalUpTo(counts)[n - 1] + counts[n]
<1> DEFINE Step(n, f) == IF n = 0 THEN 0 ELSE f[n - 1] + counts[n]
           Good(k) == \E f : f = [n \in 0..k |-> Step(n, f)]
           Bad == {k \in Nat : ~Good(k)}
<1>1. Bad = {}
  <2>1. SUFFICES ASSUME Bad # {} PROVE FALSE
    OBVIOUS
  <2>2. PICK k \in Bad : \A m \in Bad : k <= m
    BY <2>1, LeastNatural
  <2>3. k # 0
    <3> DEFINE g == [n \in 0..0 |-> 0]
    <3>1. \A n \in 0..0 : n = 0
      OBVIOUS
    <3>2. g = [n \in 0..0 |-> Step(n, g)]
      BY <3>1
    <3> HIDE DEF g
    <3>4. Good(0)
      BY <3>2
    <3>5. QED
      BY <3>4
  <2>4. k \in Nat /\ k - 1 \in Nat /\ Good(k - 1)
    <3>1. k \in Nat /\ k - 1 \in Nat /\ ~(k <= k - 1)
      BY <2>3
    <3>2. k - 1 \notin Bad
      BY <2>2, <3>1
    <3>3. QED
      BY <3>1, <3>2
  <2>5. PICK f : f = [n \in 0..(k - 1) |-> Step(n, f)]
    BY <2>4
  <2> DEFINE g == [n \in 0..k |-> Step(n, f)]
  <2>6. \A n \in 0..(k - 1) : g[n] = f[n]
    <3>1. \A n \in 0..(k - 1) : n \in 0..k
      BY <2>4
    <3>2. \A n \in 0..(k - 1) : f[n] = Step(n, f)
      BY <2>5
    <3>3. QED
      BY <3>1, <3>2
  <2>7. \A n \in 0..k : n # 0 => n - 1 \in 0..(k - 1)
    BY <2>4
  <2>8. g = [n \in 0..k |-> Step(n, g)]
    <3>1. \A n \in 0..k : n # 0 => f[n - 1] = g[n - 1]
      BY <2>6, <2>7
    <3>2. \A n \in 0..k : Step(n, f) = Step(n, g)
      BY <3>1
    <3>3. QED
      BY <3>2
  <2> HIDE DEF g
  <2>9. Good(k)
    BY <2>8
  <2>10. QED
    BY <2>2, <2>9
<1>2. Good(Len(counts))
  BY <1>1
<1> DEFINE all == TotalUpTo(counts)
<1>3. all = [n \in 0..Len(counts) |-> Step(n, all)]
  BY <1>2 DEF TotalUpTo
<1> HIDE DEF all
<1>4. \A n \in 0..Len(counts) : all[n] = Step(n, all)
  BY <1>3
<1>5. Total(counts) = TotalUpTo(counts)[Len(counts)]
  BY DEF Total, TotalUpTo
<1>6. QED
  BY <1>4, <1>5 DEF all

ProductUpTo(counts) ==
  CHOOSE f : f = [n \in 0..Len(counts) |-> IF n = 0 THEN 1 ELSE f[n - 1] * counts[n]]

(* The alternatives of nested patterns are multiplied one by one. *)
LEMMA ProductUpToSteps ==
  ASSUME NEW counts, Len(counts) \in Nat
  PROVE  /\ Product(counts) = ProductUpTo(counts)[Len(counts)]
         /\ 0 \in 0..Len(counts) => ProductUpTo(counts)[0] = 1
         /\ \A n \in 0..Len(counts) : n # 0 =>
               ProductUpTo(counts)[n] = ProductUpTo(counts)[n - 1] * counts[n]
<1> DEFINE Step(n, f) == IF n = 0 THEN 1 ELSE f[n - 1] * counts[n]
           Good(k) == \E f : f = [n \in 0..k |-> Step(n, f)]
           Bad == {k \in Nat : ~Good(k)}
<1>1. Bad = {}
  <2>1. SUFFICES ASSUME Bad # {} PROVE FALSE
    OBVIOUS
  <2>2. PICK k \in Bad : \A m \in Bad : k <= m
    BY <2>1, LeastNatural
  <2>3. k # 0
    <3> DEFINE g == [n \in 0..0 |-> 1]
    <3>1. \A n \in 0..0 : n = 0
      OBVIOUS
    <3>2. g = [n \in 0..0 |-> Step(n, g)]
      BY <3>1
    <3> HIDE DEF g
    <3>4. Good(0)
      BY <3>2
    <3>5. QED
      BY <3>4
  <2>4. k \in Nat /\ k - 1 \in Nat /\ Good(k - 1)
    <3>1. k \in Nat /\ k - 1 \in Nat /\ ~(k <= k - 1)
      BY <2>3
    <3>2. k - 1 \notin Bad
      BY <2>2, <3>1
    <3>3. QED
      BY <3>1, <3>2
  <2>5. PICK f : f = [n \in 0..(k - 1) |-> Step(n, f)]
    BY <2>4
  <2> DEFINE g == [n \in 0..k |-> Step(n, f)]
  <2>6. \A n \in 0..(k - 1) : g[n] = f[n]
    <3>1. \A n \in 0..(k - 1) : n \in 0..k
      BY <2>4
    <3>2. \A n \in 0..(k - 1) : f[n] = Step(n, f)
      BY <2>5
    <3>3. QED
      BY <3>1, <3>2
  <2>7. \A n \in 0..k : n # 0 => n - 1 \in 0..(k - 1)
    BY <2>4
  <2>8. g = [n \in 0..k |-> Step(n, g)]
    <3>1. \A n \in 0..k : n # 0 => f[n - 1] = g[n - 1]
      BY <2>6, <2>7
    <3>2. \A n \in 0..k : Step(n, f) = Step(n, g)
      BY <3>1
    <3>3. QED
      BY <3>2
  <2> HIDE DEF g
  <2>9. Good(k)
    BY <2>8
  <2>10. QED
    BY <2>2, <2>9
<1>2. Good(Len(counts))
  BY <1>1
<1> DEFINE all == ProductUpTo(counts)
<1>3. all = [n \in 0..Len(counts) |-> Step(n, all)]
  BY <1>2 DEF ProductUpTo
<1> HIDE DEF all
<1>4. \A n \in 0..Len(counts) : all[n] = Step(n, all)
  BY <1>3
<1>5. Product(counts) = ProductUpTo(counts)[Len(counts)]
  BY DEF Product, ProductUpTo
<1>6. QED
  BY <1>4, <1>5 DEF all

(* ... and those over nested patterns or parts of values, by the least depth *)
(* without one.                                                              *)
LEMMA DepthIsBounded ==
  /\ MaxDepth \in Nat
  /\ \A x \in Patterns \cup Values : Depth[x] \in Nat /\ Depth[x] <= MaxDepth
  /\ \A p \in Patterns : \A i \in 1..Len(p.nested) :
        p.nested[i] \in Patterns /\ Depth[p.nested[i]] < Depth[p]
  /\ \A v \in Values : \A i \in 1..Len(v.parts) :
        v.parts[i] \in Values /\ Depth[v.parts[i]] < Depth[v]
<1>1. MaxDepth \in Nat /\ Depth \in [Patterns \cup Values -> 0..MaxDepth]
  BY MatchAssumption
<1>2. ASSUME NEW p \in Patterns, NEW i \in 1..Len(p.nested)
      PROVE  p.nested[i] \in Patterns /\ Depth[p.nested[i]] < Depth[p]
  <2>1. p.nested \in Seq(Patterns)
    BY MatchAssumption DEF Parsed
  <2>2. QED
    BY <2>1, MatchAssumption, ElementOfSeq
<1>3. ASSUME NEW v \in Values, NEW i \in 1..Len(v.parts)
      PROVE  v.parts[i] \in Values /\ Depth[v.parts[i]] < Depth[v]
  BY MatchAssumption, ElementOfSeq
<1>4. QED
  BY <1>1, <1>2, <1>3

(* The plans of a pattern are made from those of the patterns nested in it. *)
LEMMA CompileIs ==
  \A p \in Patterns : Compile[p] = CompileFrom(p, [i \in 1..Len(p.nested) |-> Compile[p.nested[i]]])
<1> DEFINE Step(p, f) == CompileFrom(p, [i \in 1..Len(p.nested) |-> f[p.nested[i]]])
           Below(k) == {p \in Patterns : Depth[p] < k}
           Good(k) == \E f : f = [p \in Below(k) |-> Step(p, f)]
           Bad == {k \in Nat : ~Good(k)}
<1>1. Bad = {}
  <2>1. SUFFICES ASSUME Bad # {} PROVE FALSE
    OBVIOUS
  <2>2. PICK k \in Bad : \A m \in Bad : k <= m
    BY <2>1, LeastNatural
  <2>3. k # 0
    <3>1. Below(0) = {}
      BY DepthIsBounded
    <3>2. \A f : [p \in Below(0) |-> Step(p, f)] = [p \in {} |-> 0]
      BY <3>1
    <3>3. Good(0)
      BY <3>2
    <3> HIDE DEF Good
    <3>4. QED
      BY <3>3
  <2>4. k \in Nat /\ k - 1 \in Nat /\ Good(k - 1)
    <3>1. k \in Nat /\ k - 1 \in Nat /\ ~(k <= k - 1)
      BY <2>3
    <3>2. k - 1 \notin Bad
      BY <2>2, <3>1
    <3>3. QED
      BY <3>1, <3>2
  <2>5. PICK f : f = [p \in Below(k - 1) |-> Step(p, f)]
    BY <2>4
  <2> DEFINE g == [p \in Below(k) |-> Step(p, f)]
  <2>6. \A p \in Below(k - 1) : g[p] = f[p]
    <3>1. \A p \in Below(k - 1) : p \in Below(k)
      BY <2>4, DepthIsBounded
    <3>2. \A p \in Below(k - 1) : f[p] = Step(p, f)
      BY <2>5
    <3>3. \A p \in Below(k) : g[p] = Step(p, f)
      OBVIOUS
    <3> HIDE DEF Below, g
    <3>4. QED
      BY <3>1, <3>2, <3>3
  <2>7. \A p \in Below(k) : \A i \in 1..Len(p.nested) : p.nested[i] \in Below(k - 1)
    BY <2>4, DepthIsBounded
  <2>8. g = [p \in Below(k) |-> Step(p, g)]
    <3>1. \A p \in Below(k) : \A i \in 1..Len(p.nested) : f[p.nested[i]] = g[p.nested[i]]
      <4> HIDE DEF Below, g
      <4>1. QED
        BY <2>6, <2>7
    <3>2. \A p \in Below(k) : Step(p, f) = Step(p, g)
      <4> HIDE DEF Below, g
      <4>1. SUFFICES ASSUME NEW p \in Below(k)
                     PROVE  Step(p, f) = Step(p, g)
        OBVIOUS
      <4>2. [i \in 1..Len(p.nested) |-> f[p.nested[i]]] = [i \in 1..Len(p.nested) |-> g[p.nested[i]]]
        BY <3>1
      <4>3. QED
        BY <4>2
    <3>3. QED
      BY <3>2
  <2> HIDE DEF g
  <2>9. Good(k)
    BY <2>8
  <2>10. QED
    BY <2>2, <2>9
<1>2. Good(MaxDepth + 1)
  <2>1. MaxDepth + 1 \in Nat
    BY DepthIsBounded
  <2> HIDE DEF Good
  <2>2. QED
    BY <1>1, <2>1
<1>3. Below(MaxDepth + 1) = Patterns
  BY DepthIsBounded
<1>4. \E f : f = [p \in Patterns |-> Step(p, f)]
  BY SMTT(40), <1>2, <1>3
<1>5. Compile = [p \in Patterns |-> Step(p, Compile)]
  BY <1>4 DEF Compile
<1>6. QED
  BY <1>5

(* What comes of a pattern follows from what comes of those nested in it. *)
LEMMA MatchingIs ==
  \A p \in Patterns : Matching[p] = [v \in Values |->
      MatchingFrom(p, [i \in 1..Len(p.nested) |-> Matching[p.nested[i]]], v)]
<1> DEFINE Step(p, f) == [v \in Values |->
               MatchingFrom(p, [i \in 1..Len(p.nested) |-> f[p.nested[i]]], v)]
           Below(k) == {p \in Patterns : Depth[p] < k}
           Good(k) == \E f : f = [p \in Below(k) |-> Step(p, f)]
           Bad == {k \in Nat : ~Good(k)}
<1>1. Bad = {}
  <2>1. SUFFICES ASSUME Bad # {} PROVE FALSE
    OBVIOUS
  <2>2. PICK k \in Bad : \A m \in Bad : k <= m
    BY <2>1, LeastNatural
  <2>3. k # 0
    <3>1. Below(0) = {}
      BY DepthIsBounded
    <3>2. \A f : [p \in Below(0) |-> Step(p, f)] = [p \in {} |-> 0]
      BY <3>1
    <3>3. Good(0)
      BY <3>2
    <3> HIDE DEF Good
    <3>4. QED
      BY <3>3
  <2>4. k \in Nat /\ k - 1 \in Nat /\ Good(k - 1)
    <3>1. k \in Nat /\ k - 1 \in Nat /\ ~(k <= k - 1)
      BY <2>3
    <3>2. k - 1 \notin Bad
      BY <2>2, <3>1
    <3>3. QED
      BY <3>1, <3>2
  <2>5. PICK f : f = [p \in Below(k - 1) |-> Step(p, f)]
    BY <2>4
  <2> DEFINE g == [p \in Below(k) |-> Step(p, f)]
  <2>6. \A p \in Below(k - 1) : g[p] = f[p]
    <3>1. \A p \in Below(k - 1) : p \in Below(k)
      BY <2>4, DepthIsBounded
    <3>2. \A p \in Below(k - 1) : f[p] = Step(p, f)
      BY <2>5
    <3>3. \A p \in Below(k) : g[p] = Step(p, f)
      OBVIOUS
    <3> HIDE DEF Below, g
    <3>4. QED
      BY <3>1, <3>2, <3>3
  <2>7. \A p \in Below(k) : \A i \in 1..Len(p.nested) : p.nested[i] \in Below(k - 1)
    BY SMTT(40), <2>4, DepthIsBounded
  <2>8. g = [p \in Below(k) |-> Step(p, g)]
    <3>1. \A p \in Below(k) : \A i \in 1..Len(p.nested) : f[p.nested[i]] = g[p.nested[i]]
      <4> HIDE DEF Below, g
      <4>1. QED
        BY <2>6, <2>7
    <3>2. \A p \in Below(k) : Step(p, f) = Step(p, g)
      <4> HIDE DEF Below, g
      <4>1. SUFFICES ASSUME NEW p \in Below(k)
                     PROVE  Step(p, f) = Step(p, g)
        OBVIOUS
      <4>2. [i \in 1..Len(p.nested) |-> f[p.nested[i]]] = [i \in 1..Len(p.nested) |-> g[p.nested[i]]]
        BY <3>1
      <4>3. QED
        BY <4>2
    <3>3. QED
      BY <3>2
  <2> HIDE DEF g
  <2>9. Good(k)
    BY <2>8
  <2>10. QED
    BY <2>2, <2>9
<1>2. Good(MaxDepth + 1)
  <2>1. MaxDepth + 1 \in Nat
    BY DepthIsBounded
  <2> HIDE DEF Good
  <2>2. QED
    BY <1>1, <2>1
<1>3. Below(MaxDepth + 1) = Patterns
  BY DepthIsBounded
<1>4. \E f : f = [p \in Patterns |-> Step(p, f)]
  BY SMTT(40), <1>2, <1>3
<1>5. Matching = [p \in Patterns |-> Step(p, Matching)]
  BY <1>4 DEF Matching
<1>6. QED
  BY <1>5

(* The alternatives of a pattern are counted from those of the nested ones. *)
LEMMA AlternativesIs ==
  \A p \in Patterns : Alternatives[p] =
    IF p.kind = "or" THEN Total([i \in 1..Len(p.nested) |-> Alternatives[p.nested[i]]])
    ELSE Product([i \in 1..Len(p.nested) |-> Alternatives[p.nested[i]]])
<1> DEFINE Step(p, f) ==
             IF p.kind = "or" THEN Total([i \in 1..Len(p.nested) |-> f[p.nested[i]]])
             ELSE Product([i \in 1..Len(p.nested) |-> f[p.nested[i]]])
           Below(k) == {p \in Patterns : Depth[p] < k}
           Good(k) == \E f : f = [p \in Below(k) |-> Step(p, f)]
           Bad == {k \in Nat : ~Good(k)}
<1>1. Bad = {}
  <2>1. SUFFICES ASSUME Bad # {} PROVE FALSE
    OBVIOUS
  <2>2. PICK k \in Bad : \A m \in Bad : k <= m
    BY <2>1, LeastNatural
  <2>3. k # 0
    <3>1. Below(0) = {}
      BY DepthIsBounded
    <3>2. \A f : [p \in Below(0) |-> Step(p, f)] = [p \in {} |-> 0]
      BY <3>1
    <3>3. Good(0)
      BY <3>2
    <3> HIDE DEF Good
    <3>4. QED
      BY <3>3
  <2>4. k \in Nat /\ k - 1 \in Nat /\ Good(k - 1)
    <3>1. k \in Nat /\ k - 1 \in Nat /\ ~(k <= k - 1)
      BY <2>3
    <3>2. k - 1 \notin Bad
      BY <2>2, <3>1
    <3>3. QED
      BY <3>1, <3>2
  <2>5. PICK f : f = [p \in Below(k - 1) |-> Step(p, f)]
    BY <2>4
  <2> DEFINE g == [p \in Below(k) |-> Step(p, f)]
  <2>6. \A p \in Below(k - 1) : g[p] = f[p]
    <3>1. \A p \in Below(k - 1) : p \in Below(k)
      BY SMTT(40), <2>4, DepthIsBounded
    <3>2. \A p \in Below(k - 1) : f[p] = Step(p, f)
      BY <2>5
    <3>3. \A p \in Below(k) : g[p] = Step(p, f)
      OBVIOUS
    <3> HIDE DEF Below, g
    <3>4. QED
      BY <3>1, <3>2, <3>3
  <2>7. \A p \in Below(k) : \A i \in 1..Len(p.nested) : p.nested[i] \in Below(k - 1)
    BY SMTT(40), <2>4, DepthIsBounded
  <2>8. g = [p \in Below(k) |-> Step(p, g)]
    <3>1. \A p \in Below(k) : \A i \in 1..Len(p.nested) : f[p.nested[i]] = g[p.nested[i]]
      <4> HIDE DEF Below, g
      <4>1. QED
        BY <2>6, <2>7
    <3>2. \A p \in Below(k) : Step(p, f) = Step(p, g)
      <4> HIDE DEF Below, g
      <4>1. SUFFICES ASSUME NEW p \in Below(k)
                     PROVE  Step(p, f) = Step(p, g)
        OBVIOUS
      <4>2. [i \in 1..Len(p.nested) |-> f[p.nested[i]]] = [i \in 1..Len(p.nested) |-> g[p.nested[i]]]
        BY <3>1
      <4>3. QED
        BY <4>2
    <3>3. QED
      BY <3>2
  <2> HIDE DEF g
  <2>9. Good(k)
    BY <2>8
  <2>10. QED
    BY <2>2, <2>9
<1>2. Good(MaxDepth + 1)
  <2>1. MaxDepth + 1 \in Nat
    BY DepthIsBounded
  <2> HIDE DEF Good
  <2>2. QED
    BY <1>1, <2>1
<1>3. Below(MaxDepth + 1) = Patterns
  BY DepthIsBounded
<1>4. \E f : f = [p \in Patterns |-> Step(p, f)]
  BY <1>2, <1>3
<1>5. Alternatives = [p \in Patterns |-> Step(p, Alternatives)]
  BY <1>4 DEF Alternatives
<1>6. QED
  BY <1>5

(* A value is foreign because of its type, or because a part of it is. *)
LEMMA ForeignIs ==
  \A p \in Values : Foreign[p] =
    (p.type \in {"range", "proxy"} \/ \E i \in 1..Len(p.parts) : Foreign[p.parts[i]])
<1> DEFINE Step(p, f) ==
             (p.type \in {"range", "proxy"} \/ \E i \in 1..Len(p.parts) : f[p.parts[i]])
           Below(k) == {p \in Values : Depth[p] < k}
           Good(k) == \E f : f = [p \in Below(k) |-> Step(p, f)]
           Bad == {k \in Nat : ~Good(k)}
<1>1. Bad = {}
  <2>1. SUFFICES ASSUME Bad # {} PROVE FALSE
    OBVIOUS
  <2>2. PICK k \in Bad : \A m \in Bad : k <= m
    BY <2>1, LeastNatural
  <2>3. k # 0
    <3>1. Below(0) = {}
      BY DepthIsBounded
    <3>2. \A f : [p \in Below(0) |-> Step(p, f)] = [p \in {} |-> 0]
      BY <3>1
    <3>3. Good(0)
      BY <3>2
    <3> HIDE DEF Good
    <3>4. QED
      BY <3>3
  <2>4. k \in Nat /\ k - 1 \in Nat /\ Good(k - 1)
    <3>1. k \in Nat /\ k - 1 \in Nat /\ ~(k <= k - 1)
      BY <2>3
    <3>2. k - 1 \notin Bad
      BY <2>2, <3>1
    <3>3. QED
      BY <3>1, <3>2
  <2>5. PICK f : f = [p \in Below(k - 1) |-> Step(p, f)]
    BY <2>4
  <2> DEFINE g == [p \in Below(k) |-> Step(p, f)]
  <2>6. \A p \in Below(k - 1) : g[p] = f[p]
    <3>1. \A p \in Below(k - 1) : p \in Below(k)
      BY <2>4, DepthIsBounded
    <3>2. \A p \in Below(k - 1) : f[p] = Step(p, f)
      BY <2>5
    <3>3. \A p \in Below(k) : g[p] = Step(p, f)
      OBVIOUS
    <3> HIDE DEF Below, g
    <3>4. QED
      BY <3>1, <3>2, <3>3
  <2>7. \A p \in Below(k) : \A i \in 1..Len(p.parts) : p.parts[i] \in Below(k - 1)
    BY <2>4, DepthIsBounded
  <2>8. g = [p \in Below(k) |-> Step(p, g)]
    <3>1. \A p \in Below(k) : \A i \in 1..Len(p.parts) : f[p.parts[i]] = g[p.parts[i]]
      <4> HIDE DEF Below, g
      <4>1. QED
        BY <2>6, <2>7
    <3>2. \A p \in Below(k) : Step(p, f) = Step(p, g)
      <4> HIDE DEF Below, g
      <4>1. QED
        BY <3>1
    <3>3. QED
      BY <3>2
  <2> HIDE DEF g
  <2>9. Good(k)
    BY <2>8
  <2>10. QED
    BY <2>2, <2>9
<1>2. Good(MaxDepth + 1)
  <2>1. MaxDepth + 1 \in Nat
    BY DepthIsBounded
  <2> HIDE DEF Good
  <2>2. QED
    BY <1>1, <2>1
<1>3. Below(MaxDepth + 1) = Values
  BY DepthIsBounded
<1>4. \E f : f = [p \in Values |-> Step(p, f)]
  BY ZenonT(60), <1>2, <1>3
<1>5. Foreign = [p \in Values |-> Step(p, Foreign)]
  BY <1>4 DEF Foreign
<1>6. QED
  BY <1>5

(* A pattern is unproven because of its class, or because a nested one is. *)
LEMMA UnprovenIs ==
  \A p \in Patterns : Unproven[p] =
    ((p.kind = "class" /\ Positional(p) > Len(MatchArgs(p.name))
        /\ ~(p.name \in Builtins /\ Positional(p) = 1))
      \/ \E i \in 1..Len(p.nested) : Unproven[p.nested[i]])
<1> DEFINE Step(p, f) ==
             ((p.kind = "class" /\ Positional(p) > Len(MatchArgs(p.name))
                 /\ ~(p.name \in Builtins /\ Positional(p) = 1))
               \/ \E i \in 1..Len(p.nested) : f[p.nested[i]])
           Below(k) == {p \in Patterns : Depth[p] < k}
           Good(k) == \E f : f = [p \in Below(k) |-> Step(p, f)]
           Bad == {k \in Nat : ~Good(k)}
<1>1. Bad = {}
  <2>1. SUFFICES ASSUME Bad # {} PROVE FALSE
    OBVIOUS
  <2>2. PICK k \in Bad : \A m \in Bad : k <= m
    BY <2>1, LeastNatural
  <2>3. k # 0
    <3>1. Below(0) = {}
      BY DepthIsBounded
    <3>2. \A f : [p \in Below(0) |-> Step(p, f)] = [p \in {} |-> 0]
      BY <3>1
    <3>3. Good(0)
      BY <3>2
    <3> HIDE DEF Good
    <3>4. QED
      BY <3>3
  <2>4. k \in Nat /\ k - 1 \in Nat /\ Good(k - 1)
    <3>1. k \in Nat /\ k - 1 \in Nat /\ ~(k <= k - 1)
      BY <2>3
    <3>2. k - 1 \notin Bad
      BY <2>2, <3>1
    <3>3. QED
      BY <3>1, <3>2
  <2>5. PICK f : f = [p \in Below(k - 1) |-> Step(p, f)]
    BY <2>4
  <2> DEFINE g == [p \in Below(k) |-> Step(p, f)]
  <2>6. \A p \in Below(k - 1) : g[p] = f[p]
    <3>1. \A p \in Below(k - 1) : p \in Below(k)
      BY <2>4, DepthIsBounded
    <3>2. \A p \in Below(k - 1) : f[p] = Step(p, f)
      BY <2>5
    <3>3. \A p \in Below(k) : g[p] = Step(p, f)
      OBVIOUS
    <3> HIDE DEF Below, g
    <3>4. QED
      BY <3>1, <3>2, <3>3
  <2>7. \A p \in Below(k) : \A i \in 1..Len(p.nested) : p.nested[i] \in Below(k - 1)
    BY SMTT(40), <2>4, DepthIsBounded
  <2>8. g = [p \in Below(k) |-> Step(p, g)]
    <3>1. \A p \in Below(k) : \A i \in 1..Len(p.nested) : f[p.nested[i]] = g[p.nested[i]]
      <4> HIDE DEF Below, g
      <4>1. QED
        BY <2>6, <2>7
    <3>2. \A p \in Below(k) : Step(p, f) = Step(p, g)
      <4> HIDE DEF Below, g
      <4>1. QED
        BY <3>1
    <3>3. QED
      BY <3>2
  <2> HIDE DEF g
  <2>9. Good(k)
    BY <2>8
  <2>10. QED
    BY <2>2, <2>9
<1>2. Good(MaxDepth + 1)
  <2>1. MaxDepth + 1 \in Nat
    BY DepthIsBounded
  <2> HIDE DEF Good
  <2>2. QED
    BY <1>1, <2>1
<1>3. Below(MaxDepth + 1) = Patterns
  BY DepthIsBounded
<1>4. \E f : f = [p \in Patterns |-> Step(p, f)]
  BY <1>2, <1>3
<1>5. Unproven = [p \in Patterns |-> Step(p, Unproven)]
  BY <1>4 DEF Unproven
<1>6. QED
  BY <1>5

-----------------------------------------------------------------------------
(* MatchLowering: what running a list of plans finds.                        *)

IsTest(t) ==
  t = [kind |-> t.kind, path |-> t.path, arg |-> t.arg, n |-> t.n] /\ IsList(t.path)
IsBinding(b) ==
  b = [name |-> b.name, path |-> b.path, from |-> b.from, suffix |-> b.suffix] /\ IsList(b.path)
IsPlan(plan) ==
  /\ plan = [tests |-> plan.tests, bindings |-> plan.bindings]
  /\ IsList(plan.tests) /\ \A i \in 1..Len(plan.tests) : IsTest(plan.tests[i])
  /\ IsList(plan.bindings) /\ \A i \in 1..Len(plan.bindings) : IsBinding(plan.bindings[i])
IsPlans(plans) == IsList(plans) /\ \A k \in 1..Len(plans) : IsPlan(plans[k])

Hits(plans, v) == {k \in 1..Len(plans) : PlanHolds(plans[k], v)}

(* No list, or the one list of the bindings of the first plan that holds.    *)
Found(plans, v) ==
  IF Hits(plans, v) = {} THEN <<>> ELSE <<Made(plans[Min(Hits(plans, v))].bindings, v)>>

Pair(a, b) == IF a = <<>> \/ b = <<>> THEN <<>> ELSE <<a[1] \o b[1]>>

(* What is found is what the first plan that holds makes.                   *)
LEMMA FoundIs ==
  ASSUME NEW plans, NEW v, IsList(plans)
  PROVE  /\ Hits(plans, v) = {} => Found(plans, v) = <<>>
         /\ Hits(plans, v) # {} => Found(plans, v) # <<>>
         /\ \A k \in 1..Len(plans) :
              PlanHolds(plans[k], v) /\ (\A j \in 1..Len(plans) : j < k => ~PlanHolds(plans[j], v))
                => Found(plans, v) = <<Made(plans[k].bindings, v)>>
<1>1. Hits(plans, v) = {} => Found(plans, v) = <<>>
  BY DEF Found
<1>2. Hits(plans, v) # {} => Found(plans, v) # <<>>
  BY OneElement DEF Found
<1>3. ASSUME NEW k \in 1..Len(plans), PlanHolds(plans[k], v),
             \A j \in 1..Len(plans) : j < k => ~PlanHolds(plans[j], v)
      PROVE  Found(plans, v) = <<Made(plans[k].bindings, v)>>
  <2>1. Len(plans) \in Nat
    BY ListFacts
  <2>2. Hits(plans, v) \in SUBSET Nat /\ k \in Hits(plans, v)
    BY <1>3, <2>1 DEF Hits
  <2>3. \A m \in Hits(plans, v) : k <= m
    BY <1>3, <2>1 DEF Hits
  <2>4. Min(Hits(plans, v)) = k
    BY <2>2, <2>3, LeastIsMin
  <2>5. QED
    BY <2>2, <2>4 DEF Found
<1>4. QED
  BY <1>1, <1>2, <1>3

(* When a plan holds, there is a first one.                                 *)
LEMMA FirstHit ==
  ASSUME NEW plans, NEW v, IsList(plans), Hits(plans, v) # {}
  PROVE  \E k \in 1..Len(plans) :
           /\ PlanHolds(plans[k], v) /\ \A j \in 1..Len(plans) : j < k => ~PlanHolds(plans[j], v)
           /\ Found(plans, v) = <<Made(plans[k].bindings, v)>>
<1>1. Len(plans) \in Nat
  BY ListFacts
<1>2. Hits(plans, v) \in SUBSET Nat
  BY <1>1 DEF Hits
<1>3. PICK k \in Hits(plans, v) : \A m \in Hits(plans, v) : k <= m
  BY <1>2, LeastNatural
<1>4. k \in 1..Len(plans) /\ PlanHolds(plans[k], v)
  BY DEF Hits
<1>5. \A j \in 1..Len(plans) : j < k => ~PlanHolds(plans[j], v)
  <2>1. SUFFICES ASSUME NEW j \in 1..Len(plans), j < k, PlanHolds(plans[j], v) PROVE FALSE
    OBVIOUS
  <2>2. k <= j
    BY <1>3, <2>1 DEF Hits
  <2>3. QED
    BY <1>1, <1>4, <2>1, <2>2
<1>6. QED
  BY <1>4, <1>5, FoundIs

(* Two lists of plans with the same tests at the same places find what their *)
(* bindings make.                                                            *)
LEMMA SameHits ==
  ASSUME NEW a, NEW b, NEW v, NEW w, IsList(a), IsList(b), Len(a) = Len(b),
         \A k \in 1..Len(a) : PlanHolds(a[k], v) <=> PlanHolds(b[k], w)
  PROVE  /\ Found(a, v) = <<>> <=> Found(b, w) = <<>>
         /\ Found(a, v) # <<>> =>
              \E k \in 1..Len(a) : /\ Found(a, v) = <<Made(a[k].bindings, v)>>
                                   /\ Found(b, w) = <<Made(b[k].bindings, w)>>
<1>1. CASE Hits(a, v) = {}
  <2>1. Hits(b, w) = {}
    BY <1>1 DEF Hits
  <2>2. QED
    BY <1>1, <2>1, FoundIs
<1>2. CASE Hits(a, v) # {}
  <2>1. PICK k \in 1..Len(a) :
           /\ PlanHolds(a[k], v) /\ \A j \in 1..Len(a) : j < k => ~PlanHolds(a[j], v)
           /\ Found(a, v) = <<Made(a[k].bindings, v)>>
    BY <1>2, FirstHit
  <2>2. Found(b, w) = <<Made(b[k].bindings, w)>>
    <3>1. k \in 1..Len(b) /\ PlanHolds(b[k], w) /\ \A j \in 1..Len(b) : j < k => ~PlanHolds(b[j], w)
      BY <2>1
    <3>2. QED
      BY <3>1, FoundIs
  <2>3. QED
    BY <2>1, <2>2, OneElement
<1>3. QED
  BY <1>1, <1>2

(* Of two lists, one after the other, the first that finds anything does.    *)
LEMMA FoundJoined ==
  ASSUME NEW a, NEW b, NEW v, IsList(a), IsList(b)
  PROVE  Found(a \o b, v) = IF Found(a, v) # <<>> THEN Found(a, v) ELSE Found(b, v)
<1> DEFINE c == a \o b
<1>1. /\ IsList(c) /\ Len(c) = Len(a) + Len(b) /\ Len(a) \in Nat /\ Len(b) \in Nat
      /\ \A k \in 1..Len(a) : c[k] = a[k]
      /\ \A k \in 1..Len(b) : c[Len(a) + k] = b[k]
  BY Joined
<1> HIDE DEF c
<1>2. CASE Hits(a, v) # {}
  <2>1. PICK k \in 1..Len(a) :
           /\ PlanHolds(a[k], v) /\ \A j \in 1..Len(a) : j < k => ~PlanHolds(a[j], v)
           /\ Found(a, v) = <<Made(a[k].bindings, v)>>
    BY <1>2, FirstHit
  <2>2. k \in 1..Len(c) /\ c[k] = a[k]
    BY <1>1
  <2>3. \A j \in 1..Len(c) : j < k => j \in 1..Len(a) /\ c[j] = a[j]
    BY <1>1
  <2>4. Found(c, v) = <<Made(c[k].bindings, v)>>
    BY <1>1, <2>1, <2>2, <2>3, FoundIs
  <2>5. QED
    BY <2>1, <2>2, <2>4, OneElement DEF c
<1>3. CASE Hits(a, v) = {} /\ Hits(b, v) # {}
  <2>1. PICK k \in 1..Len(b) :
           /\ PlanHolds(b[k], v) /\ \A j \in 1..Len(b) : j < k => ~PlanHolds(b[j], v)
           /\ Found(b, v) = <<Made(b[k].bindings, v)>>
    BY <1>3, FirstHit
  <2>2. Len(a) + k \in 1..Len(c) /\ c[Len(a) + k] = b[k]
    BY <1>1
  <2>3. \A j \in 1..Len(c) : j < Len(a) + k => ~PlanHolds(c[j], v)
    <3>1. SUFFICES ASSUME NEW j \in 1..Len(c), j < Len(a) + k PROVE ~PlanHolds(c[j], v)
      OBVIOUS
    <3>2. CASE j <= Len(a)
      <4>1. j \in 1..Len(a)
        BY <1>1, <3>2
      <4>2. c[j] = a[j] /\ j \notin Hits(a, v)
        BY <1>1, <1>3, <4>1
      <4>3. QED
        BY <4>1, <4>2 DEF Hits
    <3>3. CASE ~(j <= Len(a))
      <4>1. j - Len(a) \in 1..Len(b) /\ j - Len(a) < k /\ Len(a) + (j - Len(a)) = j
        BY <1>1, <3>1, <3>3
      <4>2. c[Len(a) + (j - Len(a))] = b[j - Len(a)]
        BY <1>1, <4>1
      <4>3. QED
        BY <2>1, <4>1, <4>2
    <3>4. QED
      BY <3>2, <3>3
  <2>4. Found(c, v) = <<Made(c[Len(a) + k].bindings, v)>>
    BY <1>1, <2>1, <2>2, <2>3, FoundIs
  <2>5. Found(a, v) = <<>>
    BY <1>3, FoundIs
  <2>6. QED
    BY <2>1, <2>2, <2>4, <2>5 DEF c
<1>4. CASE Hits(a, v) = {} /\ Hits(b, v) = {}
  <2>1. \A j \in 1..Len(c) : ~PlanHolds(c[j], v)
    <3>1. SUFFICES ASSUME NEW j \in 1..Len(c) PROVE ~PlanHolds(c[j], v)
      OBVIOUS
    <3>2. CASE j <= Len(a)
      <4>1. j \in 1..Len(a)
        BY <1>1, <3>2
      <4>2. c[j] = a[j] /\ j \notin Hits(a, v)
        BY <1>1, <1>4, <4>1
      <4>3. QED
        BY <4>1, <4>2 DEF Hits
    <3>3. CASE ~(j <= Len(a))
      <4>1. j - Len(a) \in 1..Len(b) /\ Len(a) + (j - Len(a)) = j
        BY <1>1, <3>1, <3>3
      <4>2. c[Len(a) + (j - Len(a))] = b[j - Len(a)]
        BY <1>1, <4>1
      <4>3. QED
        BY <1>4, <4>1, <4>2 DEF Hits
    <3>4. QED
      BY <3>2, <3>3
  <2>2. Hits(c, v) = {}
    BY <2>1 DEF Hits
  <2>3. Found(c, v) = <<>> /\ Found(a, v) = <<>> /\ Found(b, v) = <<>>
    BY <1>1, <1>4, <2>2, FoundIs
  <2>4. QED
    BY <2>3 DEF c
<1>5. QED
  BY <1>2, <1>3, <1>4

(* One plan finds its bindings exactly when it holds.                       *)
LEMMA FoundOne ==
  ASSUME NEW plan, NEW v
  PROVE  /\ Found(<<plan>>, v) = IF PlanHolds(plan, v) THEN <<Made(plan.bindings, v)>> ELSE <<>>
         /\ Found(<<>>, v) = <<>>
<1>1. IsList(<<plan>>) /\ Len(<<plan>>) = 1 /\ <<plan>>[1] = plan
  BY OneElement
<1>2. 1 \in 1..Len(<<plan>>) /\ \A j \in 1..Len(<<plan>>) : j = 1
  BY <1>1
<1>3. PlanHolds(plan, v) => Found(<<plan>>, v) = <<Made(plan.bindings, v)>>
  BY <1>1, <1>2, FoundIs
<1>4. ASSUME ~PlanHolds(plan, v) PROVE Found(<<plan>>, v) = <<>>
  <2>1. Hits(<<plan>>, v) = {}
    BY <1>1, <1>2, <1>4 DEF Hits
  <2>2. QED
    BY <1>1, <1>4, <2>1, FoundIs
<1>5. Found(<<>>, v) = <<>>
  <2>1. Hits(<<>>, v) = {}
    BY Nothing DEF Hits
  <2>2. QED
    BY <2>1, Nothing, FoundIs
<1>6. QED
  BY <1>3, <1>4, <1>5

(* Tests and bindings one after the other.                                   *)
LEMMA MadeIs ==
  ASSUME NEW bindings, NEW v, IsList(bindings)
  PROVE  /\ IsList(Made(bindings, v)) /\ Len(Made(bindings, v)) = Len(bindings)
         /\ \A i \in 1..Len(bindings) : Made(bindings, v)[i] = Bound(bindings[i], v)
<1>1. Len(bindings) \in Nat
  BY ListFacts
<1>2. Made(bindings, v) = [i \in 1..Len(bindings) |-> Bound(bindings[i], v)]
  BY DEF Made
<1> DEFINE m == Made(bindings, v)
<1> HIDE DEF m
<1>3. m = [i \in 1..Len(bindings) |-> m[i]] /\ \A i \in 1..Len(bindings) : m[i] = Bound(bindings[i], v)
  BY <1>2 DEF m
<1>4. IsList(m) /\ Len(m) = Len(bindings)
  BY <1>1, <1>3, ListOf
<1>5. QED
  BY <1>3, <1>4 DEF m

(* Joined bindings make what each of them makes.                            *)
LEMMA MadeJoined ==
  ASSUME NEW a, NEW b, NEW v, IsList(a), IsList(b)
  PROVE  Made(a \o b, v) = Made(a, v) \o Made(b, v)
<1> DEFINE right == Made(a, v) \o Made(b, v)
<1> DEFINE c == a \o b
<1>1. /\ IsList(c) /\ Len(c) = Len(a) + Len(b) /\ Len(a) \in Nat /\ Len(b) \in Nat
      /\ \A i \in 1..Len(a) : c[i] = a[i]
      /\ \A i \in 1..Len(b) : c[Len(a) + i] = b[i]
  BY Joined
<1> HIDE DEF c
<1>2. /\ IsList(Made(c, v)) /\ Len(Made(c, v)) = Len(a) + Len(b)
      /\ \A i \in 1..(Len(a) + Len(b)) : Made(c, v)[i] = Bound(c[i], v)
  BY <1>1, MadeIs
<1>3. /\ IsList(Made(a, v)) /\ Len(Made(a, v)) = Len(a)
      /\ \A i \in 1..Len(a) : Made(a, v)[i] = Bound(a[i], v)
  BY MadeIs
<1>4. /\ IsList(Made(b, v)) /\ Len(Made(b, v)) = Len(b)
      /\ \A i \in 1..Len(b) : Made(b, v)[i] = Bound(b[i], v)
  BY MadeIs
<1>5. /\ IsList(right) /\ Len(right) = Len(a) + Len(b)
      /\ \A i \in 1..Len(a) : right[i] = Bound(a[i], v)
      /\ \A i \in 1..Len(b) : right[Len(a) + i] = Bound(b[i], v)
  BY <1>3, <1>4, Joined
<1> HIDE DEF right
<1>6. \A i \in 1..(Len(a) + Len(b)) : Made(c, v)[i] = right[i]
  <2>1. SUFFICES ASSUME NEW i \in 1..(Len(a) + Len(b)) PROVE Made(c, v)[i] = right[i]
    OBVIOUS
  <2>2. CASE i <= Len(a)
    <3>1. i \in 1..Len(a)
      BY <1>1, <2>2
    <3>2. QED
      BY <1>1, <1>2, <1>5, <3>1
  <2>3. CASE ~(i <= Len(a))
    <3>1. i - Len(a) \in 1..Len(b) /\ Len(a) + (i - Len(a)) = i
      BY <1>1, <2>3
    <3>2. right[Len(a) + (i - Len(a))] = Bound(b[i - Len(a)], v)
      BY <1>5, <3>1
    <3>3. c[Len(a) + (i - Len(a))] = b[i - Len(a)]
      BY <1>1, <3>1
    <3>4. QED
      BY <1>2, <3>1, <3>2, <3>3
  <2>4. QED
    BY <2>2, <2>3
<1>7. Made(c, v) = right
  BY <1>2, <1>5, <1>6, ListsEqual
<1>8. QED
  BY <1>7 DEF c, right

(* Joined lists of plans are a list of plans.                               *)
LEMMA PlansJoined ==
  ASSUME NEW a, NEW b, IsPlans(a), IsPlans(b)
  PROVE  IsPlans(a \o b) /\ Len(a \o b) = Len(a) + Len(b)
<1> DEFINE c == a \o b
<1>1. /\ IsList(c) /\ Len(c) = Len(a) + Len(b)
      /\ \A k \in 1..Len(c) :
           \/ k \in 1..Len(a) /\ c[k] = a[k]
           \/ k - Len(a) \in 1..Len(b) /\ c[k] = b[k - Len(a)]
  BY Joined, JoinedParts DEF IsPlans
<1> HIDE DEF c
<1>2. \A k \in 1..Len(c) : IsPlan(c[k])
  BY <1>1 DEF IsPlans
<1>3. QED
  BY <1>1, <1>2 DEF IsPlans, c

(* One more list of plans at the end.                                       *)
LEMMA FrontGrows ==
  ASSUME NEW s, NEW n \in Nat
  PROVE  FirstOf(s, n + 1) = FirstOf(s, n) \o <<s[n + 1]>>
<1> DEFINE a == FirstOf(s, n)
           b == FirstOf(s, n + 1)
           c == a \o <<s[n + 1]>>
<1>1. IsList(a) /\ Len(a) = n /\ \A i \in 1..n : a[i] = s[i]
  BY FrontIs
<1>2. IsList(b) /\ Len(b) = n + 1 /\ \A i \in 1..(n + 1) : b[i] = s[i]
  <2>1. n + 1 \in Nat
    OBVIOUS
  <2>2. QED
    BY <2>1, FrontIs
<1>3. IsList(<<s[n + 1]>>) /\ Len(<<s[n + 1]>>) = 1 /\ <<s[n + 1]>>[1] = s[n + 1]
  BY OneElement
<1> HIDE DEF a, b
<1>4. IsList(c) /\ Len(c) = n + 1 /\ (\A i \in 1..n : c[i] = a[i]) /\ c[n + 1] = s[n + 1]
  <2>1. 1 \in 1..Len(<<s[n + 1]>>)
    BY <1>3
  <2>2. QED
    BY <1>1, <1>3, <2>1, Joined
<1> HIDE DEF c
<1>5. \A i \in 1..(n + 1) : b[i] = c[i]
  BY <1>1, <1>2, <1>4
<1>6. b = c
  BY <1>2, <1>4, <1>5, ListsEqual
<1>7. QED
  BY <1>6 DEF a, b, c

(* Both plans hold exactly when each does, and bind what both bind.          *)
LEMMA BothHold ==
  ASSUME NEW a, NEW b, NEW v, IsPlan(a), IsPlan(b)
  PROVE  /\ IsPlan(Both(a, b))
         /\ PlanHolds(Both(a, b), v) <=> PlanHolds(a, v) /\ PlanHolds(b, v)
         /\ Made(Both(a, b).bindings, v) = Made(a.bindings, v) \o Made(b.bindings, v)
<1> DEFINE t == a.tests \o b.tests
           s == a.bindings \o b.bindings
<1>1. /\ IsList(t)
      /\ \A i \in 1..Len(a.tests) : i \in 1..Len(t) /\ t[i] = a.tests[i]
      /\ \A i \in 1..Len(b.tests) : Len(a.tests) + i \in 1..Len(t) /\ t[Len(a.tests) + i] = b.tests[i]
      /\ \A i \in 1..Len(t) :
           \/ i \in 1..Len(a.tests) /\ t[i] = a.tests[i]
           \/ i - Len(a.tests) \in 1..Len(b.tests) /\ t[i] = b.tests[i - Len(a.tests)]
  <2> DEFINE p == a.tests
             q == b.tests
  <2>1. IsList(p) /\ IsList(q)
    BY DEF IsPlan
  <2> HIDE DEF p, q
  <2>2. /\ IsList(p \o q)
        /\ \A i \in 1..Len(p) : i \in 1..Len(p \o q) /\ (p \o q)[i] = p[i]
        /\ \A i \in 1..Len(q) : Len(p) + i \in 1..Len(p \o q) /\ (p \o q)[Len(p) + i] = q[i]
        /\ \A i \in 1..Len(p \o q) :
              \/ i \in 1..Len(p) /\ (p \o q)[i] = p[i]
              \/ i - Len(p) \in 1..Len(q) /\ (p \o q)[i] = q[i - Len(p)]
    BY <2>1, JoinedParts
  <2>3. QED
    BY <2>2 DEF p, q
<1>2. /\ IsList(s)
      /\ \A i \in 1..Len(s) :
           \/ i \in 1..Len(a.bindings) /\ s[i] = a.bindings[i]
           \/ i - Len(a.bindings) \in 1..Len(b.bindings) /\ s[i] = b.bindings[i - Len(a.bindings)]
  <2> DEFINE p == a.bindings
             q == b.bindings
  <2>1. IsList(p) /\ IsList(q)
    BY DEF IsPlan
  <2> HIDE DEF p, q
  <2>2. /\ IsList(p \o q)
        /\ \A i \in 1..Len(p) : i \in 1..Len(p \o q) /\ (p \o q)[i] = p[i]
        /\ \A i \in 1..Len(q) : Len(p) + i \in 1..Len(p \o q) /\ (p \o q)[Len(p) + i] = q[i]
        /\ \A i \in 1..Len(p \o q) :
              \/ i \in 1..Len(p) /\ (p \o q)[i] = p[i]
              \/ i - Len(p) \in 1..Len(q) /\ (p \o q)[i] = q[i - Len(p)]
    BY <2>1, JoinedParts
  <2>3. QED
    BY <2>2 DEF p, q
<1>3. Both(a, b) = [tests |-> t, bindings |-> s]
  BY DEF Both
<1>4. Both(a, b).tests = t /\ Both(a, b).bindings = s
  BY DEF Both
<1>5. Made(s, v) = Made(a.bindings, v) \o Made(b.bindings, v)
  BY MadeJoined DEF IsPlan
<1> HIDE DEF t, s
<1>6. IsPlan(Both(a, b))
  <2>1. \A i \in 1..Len(t) : IsTest(t[i])
    BY <1>1 DEF IsPlan
  <2>2. \A i \in 1..Len(s) : IsBinding(s[i])
    BY <1>2 DEF IsPlan
  <2>3. QED
    BY <1>1, <1>2, <1>3, <1>4, <2>1, <2>2 DEF IsPlan
<1>7. PlanHolds(Both(a, b), v) <=> PlanHolds(a, v) /\ PlanHolds(b, v)
  <2>1. ASSUME PlanHolds(Both(a, b), v) PROVE PlanHolds(a, v) /\ PlanHolds(b, v)
    <3>1. \A i \in 1..Len(t) : Holds(t[i], v)
      BY <1>4, <2>1 DEF PlanHolds
    <3>2. \A i \in 1..Len(a.tests) : Holds(a.tests[i], v)
      BY <1>1, <3>1
    <3>3. \A i \in 1..Len(b.tests) : Holds(b.tests[i], v)
      BY <1>1, <3>1
    <3>4. QED
      BY <3>2, <3>3 DEF PlanHolds
  <2>2. ASSUME PlanHolds(a, v), PlanHolds(b, v) PROVE PlanHolds(Both(a, b), v)
    <3>1. \A i \in 1..Len(t) : Holds(t[i], v)
      BY <1>1, <2>2 DEF PlanHolds
    <3>2. QED
      BY <1>4, <3>1 DEF PlanHolds
  <2>3. QED
    BY <2>1, <2>2
<1>8. QED
  BY <1>4, <1>5, <1>6, <1>7 DEF s

(* A plan of one set with every plan of the other.                           *)
LEMMA FoundRow ==
  ASSUME NEW plan, NEW right, NEW v, IsPlan(plan), IsPlans(right)
  PROVE  LET row == [j \in 1..Len(right) |-> Both(plan, right[j])]
         IN  /\ IsPlans(row) /\ Len(row) = Len(right)
             /\ Found(row, v) = Pair(Found(<<plan>>, v), Found(right, v))
<1> DEFINE row == [j \in 1..Len(right) |-> Both(plan, right[j])]
<1>1. Len(right) \in Nat /\ IsList(right)
  BY ListLength DEF IsPlans
<1>2. /\ row = [j \in 1..Len(right) |-> row[j]]
      /\ \A j \in 1..Len(right) : row[j] = Both(plan, right[j])
  OBVIOUS
<1> HIDE DEF row
<1>3. IsList(row) /\ Len(row) = Len(right)
  BY <1>1, <1>2, ListOf
<1>4. \A j \in 1..Len(right) :
        /\ IsPlan(row[j])
        /\ PlanHolds(row[j], v) <=> PlanHolds(plan, v) /\ PlanHolds(right[j], v)
        /\ Made(row[j].bindings, v) = Made(plan.bindings, v) \o Made(right[j].bindings, v)
  <2>1. SUFFICES ASSUME NEW j \in 1..Len(right)
        PROVE  /\ IsPlan(row[j])
               /\ PlanHolds(row[j], v) <=> PlanHolds(plan, v) /\ PlanHolds(right[j], v)
               /\ Made(row[j].bindings, v) = Made(plan.bindings, v) \o Made(right[j].bindings, v)
    OBVIOUS
  <2>2. IsPlan(right[j])
    BY DEF IsPlans
  <2>3. /\ IsPlan(Both(plan, right[j]))
        /\ PlanHolds(Both(plan, right[j]), v) <=> PlanHolds(plan, v) /\ PlanHolds(right[j], v)
        /\ Made(Both(plan, right[j]).bindings, v) = Made(plan.bindings, v) \o Made(right[j].bindings, v)
    BY <2>2, BothHold
  <2>4. QED
    BY <1>2, <2>3
<1>5. IsPlans(row)
  BY <1>3, <1>4 DEF IsPlans
<1>6. CASE ~PlanHolds(plan, v)
  <2>1. Hits(row, v) = {}
    BY <1>3, <1>4, <1>6 DEF Hits
  <2>2. Found(row, v) = <<>> /\ Found(<<plan>>, v) = <<>>
    BY <1>3, <1>6, <2>1, FoundIs, FoundOne
  <2>3. QED
    BY <1>3, <1>5, <2>2 DEF Pair, row
<1>7. CASE PlanHolds(plan, v)
  <2>1. Found(<<plan>>, v) = <<Made(plan.bindings, v)>>
    BY <1>7, FoundOne
  <2>2. \A k \in 1..Len(row) : PlanHolds(row[k], v) <=> PlanHolds(right[k], v)
    BY <1>3, <1>4, <1>7
  <2>3. /\ Found(row, v) = <<>> <=> Found(right, v) = <<>>
        /\ Found(row, v) # <<>> =>
              \E k \in 1..Len(row) : /\ Found(row, v) = <<Made(row[k].bindings, v)>>
                                     /\ Found(right, v) = <<Made(right[k].bindings, v)>>
    BY <1>1, <1>3, <2>2, SameHits
  <2>4. CASE Found(row, v) = <<>>
    BY <1>3, <1>5, <2>3, <2>4 DEF Pair, row
  <2>5. CASE Found(row, v) # <<>>
    <3>1. PICK k \in 1..Len(row) : /\ Found(row, v) = <<Made(row[k].bindings, v)>>
                                   /\ Found(right, v) = <<Made(right[k].bindings, v)>>
      BY <2>3, <2>5
    <3>2. Made(row[k].bindings, v) = Made(plan.bindings, v) \o Made(right[k].bindings, v)
      BY <1>3, <1>4
    <3>3. Found(<<plan>>, v)[1] = Made(plan.bindings, v) /\ Found(<<plan>>, v) # <<>>
      BY <2>1, OneElement
    <3>4. Found(right, v)[1] = Made(right[k].bindings, v) /\ Found(right, v) # <<>>
      BY <3>1, OneElement
    <3>5. Pair(Found(<<plan>>, v), Found(right, v)) = Found(row, v)
      BY <3>1, <3>2, <3>3, <3>4 DEF Pair
    <3>6. QED
      BY <1>3, <1>5, <3>5 DEF row
  <2>6. QED
    BY <2>4, <2>5
<1>8. QED
  BY <1>6, <1>7

(* The plans of the whole product, row by row.                               *)
LEMMA FoundCombined ==
  ASSUME NEW left, NEW right, NEW v, IsPlans(left), IsPlans(right),
         ~(Len(left) * Len(right) > MaxAlternatives)
  PROVE  /\ IsPlans(CombinePlanSets(left, right))
         /\ Len(CombinePlanSets(left, right)) = Len(left) * Len(right)
         /\ Found(CombinePlanSets(left, right), v) = Pair(Found(left, v), Found(right, v))
<1> DEFINE rows == [i \in 1..Len(left) |-> [j \in 1..Len(right) |-> Both(left[i], right[j])]]
           Up(n) == FlattenSeq(FirstOf(rows, n))
           Good(n) == /\ IsPlans(Up(n)) /\ Len(Up(n)) = n * Len(right)
                      /\ Found(Up(n), v) = Pair(Found(FirstOf(left, n), v), Found(right, v))
           Bad == {n \in 0..Len(left) : ~Good(n)}
<1>1. Len(left) \in Nat /\ Len(right) \in Nat /\ IsList(left)
  BY ListLength DEF IsPlans
<1>2. \A i \in 1..Len(left) :
        /\ IsPlans(rows[i]) /\ Len(rows[i]) = Len(right)
        /\ Found(rows[i], v) = Pair(Found(<<left[i]>>, v), Found(right, v))
  BY ZenonT(60), FoundRow DEF IsPlans
<1>3. rows = [i \in 1..Len(left) |-> rows[i]]
  OBVIOUS
<1>4. CombinePlanSets(left, right) = FlattenSeq(rows)
  BY DEF CombinePlanSets
<1> HIDE DEF rows
<1>5. IsList(rows) /\ Len(rows) = Len(left)
  BY <1>1, <1>3, ListOf
<1>6. \A i \in 1..Len(left) : IsList(rows[i])
  BY <1>2 DEF IsPlans
<1>7. Bad = {}
  <2>1. SUFFICES ASSUME Bad # {} PROVE FALSE
    OBVIOUS
  <2>2. Bad \in SUBSET Nat
    BY <1>1
  <2>3. PICK n \in Bad : \A m \in Bad : n <= m
    BY <2>1, <2>2, LeastNatural
  <2>4. n \in 0..Len(left) /\ ~Good(n)
    OBVIOUS
  <2>5. n # 0
    <3>1. IsList(FirstOf(rows, 0)) /\ Len(FirstOf(rows, 0)) = 0
          /\ IsList(FirstOf(left, 0)) /\ Len(FirstOf(left, 0)) = 0
      BY FrontIs
    <3>2. Up(0) = <<>> /\ FirstOf(left, 0) = <<>>
      BY <3>1, Nothing, FlattenNone
    <3>3. IsPlans(<<>>) /\ Len(<<>>) = 0 * Len(right)
      BY <1>1, Nothing DEF IsPlans
    <3>4. Found(<<>>, v) = Pair(Found(<<>>, v), Found(right, v))
      BY FoundOne DEF Pair
    <3>5. Good(0)
      BY <3>2, <3>3, <3>4
    <3>6. QED
      BY <2>4, <3>5
  <2> DEFINE m == n - 1
  <2>6. m \in Nat /\ m \in 0..Len(left) /\ ~(n <= m) /\ m + 1 = n /\ n \in 1..Len(left)
    BY <1>1, <2>4, <2>5
  <2>7. Good(m)
    BY <2>3, <2>6
  <2> HIDE DEF m
  <2>8. Up(m + 1) = Up(m) \o rows[m + 1]
    <3>1. \A i \in 1..(m + 1) : IsList(rows[i])
      BY <1>1, <1>6, <2>6
    <3>2. QED
      BY <2>6, <3>1, FlattenFront
  <2>9. FirstOf(left, m + 1) = FirstOf(left, m) \o <<left[m + 1]>>
    BY <2>6, FrontGrows
  <2>10. /\ IsPlans(rows[m + 1]) /\ Len(rows[m + 1]) = Len(right)
         /\ Found(rows[m + 1], v) = Pair(Found(<<left[m + 1]>>, v), Found(right, v))
    BY <1>2, <2>6
  <2>11. IsPlans(Up(m + 1)) /\ Len(Up(m + 1)) = Len(Up(m)) + Len(right)
    <3>1. IsPlans(Up(m))
      BY <2>7
    <3> HIDE DEF Up
    <3>2. QED
      BY <2>8, <2>10, <3>1, PlansJoined
  <2>12. (m + 1) * Len(right) = m * Len(right) + Len(right)
    BY <1>1, <2>6
  <2>13. Found(Up(m + 1), v) = IF Found(Up(m), v) # <<>> THEN Found(Up(m), v) ELSE Found(rows[m + 1], v)
    <3>1. IsList(Up(m)) /\ IsList(rows[m + 1])
      BY <2>7, <2>10 DEF IsPlans
    <3> HIDE DEF Up
    <3>2. Found(Up(m) \o rows[m + 1], v)
            = IF Found(Up(m), v) # <<>> THEN Found(Up(m), v) ELSE Found(rows[m + 1], v)
      BY <3>1, FoundJoined
    <3>3. QED
      BY <2>8, <3>2
  <2>14. Found(FirstOf(left, m + 1), v)
           = IF Found(FirstOf(left, m), v) # <<>> THEN Found(FirstOf(left, m), v) ELSE Found(<<left[m + 1]>>, v)
    <3>1. IsList(FirstOf(left, m)) /\ IsList(<<left[m + 1]>>)
      BY <2>6, FrontIs, OneElement
    <3>2. Found(FirstOf(left, m) \o <<left[m + 1]>>, v)
            = IF Found(FirstOf(left, m), v) # <<>> THEN Found(FirstOf(left, m), v) ELSE Found(<<left[m + 1]>>, v)
      BY <3>1, FoundJoined
    <3>3. QED
      BY <2>9, <3>2
  <2>15. Found(Up(m + 1), v) = Pair(Found(FirstOf(left, m + 1), v), Found(right, v))
    <3>1. Found(Up(m), v) = Pair(Found(FirstOf(left, m), v), Found(right, v))
      BY <2>7
    <3>2. \A x, y : (Pair(x, y) = <<>> <=> x = <<>> \/ y = <<>>)
      BY OneElement DEF Pair
    <3> HIDE DEF Up
    <3>3. QED
      BY <2>10, <2>13, <2>14, <3>1, <3>2 DEF Pair
  <2>16. Good(n)
    <3>1. Len(Up(m)) = m * Len(right)
      BY <2>7
    <3>2. Len(Up(m + 1)) = (m + 1) * Len(right)
      BY <2>11, <2>12, <3>1
    <3>3. Good(m + 1)
      BY <2>11, <2>15, <3>2
    <3> HIDE DEF Good
    <3>4. QED
      BY <2>6, <3>3
  <2>17. QED
    BY <2>4, <2>16
<1>8. Len(left) \in 0..Len(left)
  BY <1>1
<1>9. Good(Len(left))
  <2> HIDE DEF Good
  <2>1. QED
    BY <1>7, <1>8
<1>10. FirstOf(rows, Len(left)) = rows /\ FirstOf(left, Len(left)) = left
  BY <1>1, <1>5, FrontIs
<1>11. QED
  BY <1>4, <1>9, <1>10

(* What is below a step is reached from the part at that step.               *)
LEMMA AtDeeper ==
  ASSUME NEW v, NEW step, NEW path, IsList(path)
  PROVE  IsList(<<step>> \o path) /\ At(v, <<step>> \o path) = At(PartAt(v, step), path)
<1> DEFINE long == <<step>> \o path
           w == PartAt(v, step)
           deep == PartsOn(v, long)
           flat == PartsOn(w, path)
           Bad == {i \in 0..Len(path) : deep[i + 1] # flat[i]}
<1>1. /\ IsList(long) /\ Len(long) = 1 + Len(path) /\ Len(path) \in Nat
      /\ long[1] = step /\ \A i \in 1..Len(path) : long[1 + i] = path[i]
  <2>1. IsList(<<step>>) /\ Len(<<step>>) = 1 /\ <<step>>[1] = step /\ 1 \in 1..Len(<<step>>)
    BY OneElement
  <2>2. QED
    BY <2>1, Joined
<1> HIDE DEF long, w
<1>2. /\ At(v, long) = deep[Len(long)] /\ deep[0] = v
      /\ \A i \in 0..Len(long) : i # 0 => deep[i] = PartAt(deep[i - 1], long[i])
  <2>1. Len(long) \in Nat /\ 0 \in 0..Len(long)
    BY <1>1
  <2>2. QED
    BY <2>1, PartsOnSteps
<1>3. /\ At(w, path) = flat[Len(path)] /\ flat[0] = w
      /\ \A i \in 0..Len(path) : i # 0 => flat[i] = PartAt(flat[i - 1], path[i])
  <2>1. Len(path) \in Nat /\ 0 \in 0..Len(path)
    BY <1>1
  <2>2. QED
    BY <2>1, PartsOnSteps
<1> HIDE DEF deep, flat
<1>4. Bad = {}
  <2>1. SUFFICES ASSUME Bad # {} PROVE FALSE
    OBVIOUS
  <2>2. Bad \in SUBSET Nat
    BY <1>1
  <2>3. PICK i \in Bad : \A j \in Bad : i <= j
    BY <2>1, <2>2, LeastNatural
  <2>4. i \in 0..Len(path) /\ deep[i + 1] # flat[i] /\ i + 1 \in 0..Len(long) /\ i + 1 # 0 /\ (i + 1) - 1 = i
    BY <1>1
  <2>5. deep[i + 1] = PartAt(deep[(i + 1) - 1], long[i + 1])
    BY <1>2, <2>4
  <2>6. i # 0
    <3>1. SUFFICES ASSUME i = 0 PROVE FALSE
      OBVIOUS
    <3>2. deep[i + 1] = PartAt(v, step)
      BY <1>1, <1>2, <2>4, <2>5, <3>1
    <3>3. QED
      BY <1>3, <2>4, <3>1, <3>2 DEF w
  <2>7. i - 1 \in 0..Len(path) /\ ~(i <= i - 1) /\ (i - 1) + 1 = i /\ i \in 1..Len(path) /\ i + 1 = 1 + i
    BY <1>1, <2>4, <2>6
  <2>8. deep[(i - 1) + 1] = flat[i - 1]
    BY <2>3, <2>7
  <2>9. long[i + 1] = path[i]
    BY <1>1, <2>7
  <2>10. flat[i] = PartAt(flat[i - 1], path[i])
    BY <1>3, <2>4, <2>6
  <2>11. QED
    BY <2>4, <2>5, <2>7, <2>8, <2>9, <2>10
<1>5. Len(path) \in 0..Len(path) /\ Len(path) + 1 = Len(long)
  BY <1>1
<1>6. deep[Len(long)] = flat[Len(path)]
  BY <1>4, <1>5
<1>7. QED
  BY <1>1, <1>2, <1>3, <1>6 DEF long, w

(* No path leads to the value itself.                                       *)
LEMMA AtSelf ==
  ASSUME NEW v
  PROVE  At(v, <<>>) = v
<1>1. Len(<<>>) = 0 /\ Len(<<>>) \in Nat /\ 0 \in 0..Len(<<>>)
  BY Nothing
<1>2. At(v, <<>>) = PartsOn(v, <<>>)[Len(<<>>)] /\ PartsOn(v, <<>>)[0] = v
  BY <1>1, PartsOnSteps
<1>3. QED
  BY <1>1, <1>2

(* A test under a step holds of a value as the test does of the part.       *)
LEMMA DeeperTest ==
  ASSUME NEW t, NEW step, NEW v, IsTest(t)
  PROVE  LET d == [t EXCEPT !.path = <<step>> \o @]
         IN  IsTest(d) /\ (Holds(d, v) <=> Holds(t, PartAt(v, step)))
<1> DEFINE d == [t EXCEPT !.path = <<step>> \o @]
           path == <<step>> \o t.path
<1>1. IsList(path) /\ At(v, path) = At(PartAt(v, step), t.path)
  BY AtDeeper DEF IsTest
<1>2. t = [kind |-> t.kind, path |-> t.path, arg |-> t.arg, n |-> t.n]
  BY DEF IsTest
<1>3. d = [kind |-> t.kind, path |-> path, arg |-> t.arg, n |-> t.n]
  <2>1. ASSUME NEW k, NEW p, NEW a, NEW m, NEW q,
               t = [kind |-> k, path |-> p, arg |-> a, n |-> m]
        PROVE  [t EXCEPT !.path = q] = [kind |-> k, path |-> q, arg |-> a, n |-> m]
    BY <2>1
  <2> HIDE DEF path
  <2>2. d = [t EXCEPT !.path = path]
    BY DEF path
  <2> HIDE DEF d
  <2>3. QED
    BY <1>2, <2>1, <2>2
<1> HIDE DEF path, d
<1>4. d.kind = t.kind /\ d.path = path /\ d.arg = t.arg /\ d.n = t.n
  BY <1>3
<1>5. IsTest(d)
  BY <1>1, <1>3, <1>4 DEF IsTest
<1>6. Holds(d, v) <=> Holds(t, PartAt(v, step))
  BY <1>1, <1>4 DEF Holds
<1>7. QED
  BY <1>5, <1>6 DEF d

(* A binding under a step binds what it binds in the part.                  *)
LEMMA DeeperBinding ==
  ASSUME NEW b, NEW step, NEW v, IsBinding(b)
  PROVE  LET d == [b EXCEPT !.path = <<step>> \o @]
         IN  IsBinding(d) /\ Bound(d, v) = Bound(b, PartAt(v, step))
<1> DEFINE d == [b EXCEPT !.path = <<step>> \o @]
           path == <<step>> \o b.path
<1>1. IsList(path) /\ At(v, path) = At(PartAt(v, step), b.path)
  BY AtDeeper DEF IsBinding
<1>2. b = [name |-> b.name, path |-> b.path, from |-> b.from, suffix |-> b.suffix]
  BY DEF IsBinding
<1>3. d = [name |-> b.name, path |-> path, from |-> b.from, suffix |-> b.suffix]
  <2>1. ASSUME NEW k, NEW p, NEW a, NEW m, NEW q,
               b = [name |-> k, path |-> p, from |-> a, suffix |-> m]
        PROVE  [b EXCEPT !.path = q] = [name |-> k, path |-> q, from |-> a, suffix |-> m]
    BY <2>1
  <2> HIDE DEF path
  <2>2. d = [b EXCEPT !.path = path]
    BY DEF path
  <2> HIDE DEF d
  <2>3. QED
    BY <1>2, <2>1, <2>2
<1> HIDE DEF path, d
<1>4. d.name = b.name /\ d.path = path /\ d.from = b.from /\ d.suffix = b.suffix
  BY <1>3
<1>5. IsBinding(d)
  BY <1>1, <1>3, <1>4 DEF IsBinding
<1>6. Bound(d, v) = Bound(b, PartAt(v, step))
  BY <1>1, <1>4 DEF Bound
<1>7. QED
  BY <1>5, <1>6 DEF d

(* The plans for a part find in the whole what they find in the part.        *)
LEMMA FoundUnder ==
  ASSUME NEW plans, NEW step, NEW v, IsPlans(plans)
  PROVE  /\ IsPlans(Under(step, plans)) /\ Len(Under(step, plans)) = Len(plans)
         /\ Found(Under(step, plans), v) = Found(plans, PartAt(v, step))
<1> DEFINE DeepTests(k) == [i \in 1..Len(plans[k].tests) |-> [plans[k].tests[i] EXCEPT !.path = <<step>> \o @]]
           DeepBindings(k) == [i \in 1..Len(plans[k].bindings) |-> [plans[k].bindings[i] EXCEPT !.path = <<step>> \o @]]
           deep == Under(step, plans)
           w == PartAt(v, step)
<1>1. Len(plans) \in Nat /\ IsList(plans)
  BY ListLength DEF IsPlans
<1>2. deep = [k \in 1..Len(plans) |-> [tests |-> DeepTests(k), bindings |-> DeepBindings(k)]]
  BY SMTT(40) DEF Under
<1>3. ASSUME NEW k \in 1..Len(plans)
      PROVE  /\ IsList(DeepTests(k)) /\ Len(DeepTests(k)) = Len(plans[k].tests)
             /\ \A i \in 1..Len(plans[k].tests) :
                  /\ IsTest(DeepTests(k)[i])
                  /\ Holds(DeepTests(k)[i], v) <=> Holds(plans[k].tests[i], w)
  <2> DEFINE tests == plans[k].tests
             dt == DeepTests(k)
  <2>1. IsList(tests) /\ Len(tests) \in Nat /\ \A i \in 1..Len(tests) : IsTest(tests[i])
    BY ListLength DEF IsPlans, IsPlan
  <2>2. \A i \in 1..Len(tests) : /\ IsTest(dt[i])
                                 /\ Holds(dt[i], v) <=> Holds(tests[i], w)
    BY <2>1, DeeperTest
  <2>3. dt = [i \in 1..Len(tests) |-> dt[i]]
    OBVIOUS
  <2>4. IsList(dt) /\ Len(dt) = Len(tests)
    <3> HIDE DEF dt, tests
    <3>1. QED
      BY SMTT(40), <2>1, <2>3, ListOf
  <2>5. QED
    BY <2>2, <2>4
<1>4. ASSUME NEW k \in 1..Len(plans)
      PROVE  /\ IsList(DeepBindings(k)) /\ Len(DeepBindings(k)) = Len(plans[k].bindings)
             /\ \A i \in 1..Len(plans[k].bindings) :
                  /\ IsBinding(DeepBindings(k)[i])
                  /\ Bound(DeepBindings(k)[i], v) = Bound(plans[k].bindings[i], w)
  <2> DEFINE bindings == plans[k].bindings
             db == DeepBindings(k)
  <2>1. IsList(bindings) /\ Len(bindings) \in Nat /\ \A i \in 1..Len(bindings) : IsBinding(bindings[i])
    BY ListLength DEF IsPlans, IsPlan
  <2>2. \A i \in 1..Len(bindings) : IsBinding(db[i]) /\ Bound(db[i], v) = Bound(bindings[i], w)
    BY ZenonT(60), <2>1, DeeperBinding
  <2>3. db = [i \in 1..Len(bindings) |-> db[i]]
    OBVIOUS
  <2>4. IsList(db) /\ Len(db) = Len(bindings)
    <3> HIDE DEF db, bindings
    <3>1. QED
      BY <2>1, <2>3, ListOf
  <2>5. QED
    BY <2>2, <2>4
<1> HIDE DEF DeepTests, DeepBindings, w, deep
<1>5. \A k \in 1..Len(plans) : deep[k] = [tests |-> DeepTests(k), bindings |-> DeepBindings(k)]
  BY <1>2
<1>6. ASSUME NEW k \in 1..Len(plans)
      PROVE  deep[k].tests = DeepTests(k) /\ deep[k].bindings = DeepBindings(k)
  <2>1. deep[k] = [tests |-> DeepTests(k), bindings |-> DeepBindings(k)]
    BY <1>5
  <2>2. QED
    BY <2>1
<1>7. deep = [k \in 1..Len(plans) |-> deep[k]]
  BY <1>2
<1>8. IsList(deep) /\ Len(deep) = Len(plans)
  BY <1>1, <1>7, ListOf
<1>9. IsPlans(deep)
  <2>1. \A k \in 1..Len(plans) : IsPlan(deep[k])
    BY SMTT(40), <1>3, <1>4, <1>5, <1>6 DEF IsPlan
  <2>2. QED
    BY <1>8, <2>1 DEF IsPlans
<1>10. \A k \in 1..Len(deep) : PlanHolds(deep[k], v) <=> PlanHolds(plans[k], w)
  BY <1>3, <1>6, <1>8 DEF PlanHolds
<1>11. \A k \in 1..Len(deep) : Made(deep[k].bindings, v) = Made(plans[k].bindings, w)
  <2>1. SUFFICES ASSUME NEW k \in 1..Len(plans)
                 PROVE  Made(DeepBindings(k), v) = Made(plans[k].bindings, w)
    BY <1>6, <1>8
  <2>2. QED
    BY <1>4 DEF Made
<1>12. Found(deep, v) = Found(plans, w)
  <2>1. /\ Found(deep, v) = <<>> <=> Found(plans, w) = <<>>
        /\ Found(deep, v) # <<>> =>
              \E k \in 1..Len(deep) : /\ Found(deep, v) = <<Made(deep[k].bindings, v)>>
                                      /\ Found(plans, w) = <<Made(plans[k].bindings, w)>>
    BY <1>1, <1>8, <1>10, SameHits
  <2>2. QED
    BY <1>11, <2>1
<1>13. QED
  BY <1>8, <1>9, <1>12 DEF deep, w

(* Bindings added to every plan are made after its own.                      *)
LEMMA FoundWithBinding ==
  ASSUME NEW plans, NEW bindings, NEW v, IsPlans(plans), IsList(bindings),
         \A i \in 1..Len(bindings) : IsBinding(bindings[i])
  PROVE  /\ IsPlans(WithBinding(plans, bindings)) /\ Len(WithBinding(plans, bindings)) = Len(plans)
         /\ Found(WithBinding(plans, bindings), v) = Pair(Found(plans, v), <<Made(bindings, v)>>)
<1> DEFINE more == WithBinding(plans, bindings)
<1>1. Len(plans) \in Nat /\ IsList(plans)
  BY ListLength DEF IsPlans
<1>2. more = [k \in 1..Len(plans) |-> [tests |-> plans[k].tests, bindings |-> plans[k].bindings \o bindings]]
  BY DEF WithBinding
<1> HIDE DEF more
<1>3. /\ more = [k \in 1..Len(plans) |-> more[k]]
      /\ \A k \in 1..Len(plans) : more[k] = [tests |-> plans[k].tests, bindings |-> plans[k].bindings \o bindings]
  BY <1>2
<1>4. \A k \in 1..Len(plans) : more[k].tests = plans[k].tests /\ more[k].bindings = plans[k].bindings \o bindings
  BY <1>3
<1>5. IsList(more) /\ Len(more) = Len(plans)
  BY <1>1, <1>3, ListOf
<1>6. ASSUME NEW k \in 1..Len(plans)
      PROVE  /\ IsPlan(more[k])
             /\ Made(more[k].bindings, v) = Made(plans[k].bindings, v) \o Made(bindings, v)
  <2> DEFINE own == plans[k].bindings
             all == own \o bindings
  <2>1. IsPlan(plans[k])
    BY DEF IsPlans
  <2>2. IsList(own) /\ \A i \in 1..Len(own) : IsBinding(own[i])
    BY <2>1 DEF IsPlan
  <2>3. more[k] = [tests |-> plans[k].tests, bindings |-> all]
    BY <1>3
  <2>4. more[k].tests = plans[k].tests /\ more[k].bindings = all
    BY <1>4
  <2> HIDE DEF own
  <2>5. /\ IsList(all)
        /\ \A i \in 1..Len(all) : \/ i \in 1..Len(own) /\ all[i] = own[i]
                                  \/ i - Len(own) \in 1..Len(bindings) /\ all[i] = bindings[i - Len(own)]
    BY <2>2, JoinedParts
  <2>6. Made(all, v) = Made(own, v) \o Made(bindings, v)
    BY <2>2, MadeJoined
  <2> HIDE DEF all
  <2>7. \A i \in 1..Len(all) : IsBinding(all[i])
    BY <2>2, <2>5
  <2>8. IsPlan(more[k])
    BY <2>1, <2>3, <2>4, <2>5, <2>7 DEF IsPlan
  <2>9. QED
    BY <2>4, <2>6, <2>8 DEF own
<1>7. IsPlans(more)
  BY <1>5, <1>6 DEF IsPlans
<1>8. \A k \in 1..Len(more) : PlanHolds(more[k], v) <=> PlanHolds(plans[k], v)
  BY <1>4, <1>5 DEF PlanHolds
<1>9. /\ Found(more, v) = <<>> <=> Found(plans, v) = <<>>
      /\ Found(more, v) # <<>> =>
            \E k \in 1..Len(more) : /\ Found(more, v) = <<Made(more[k].bindings, v)>>
                                    /\ Found(plans, v) = <<Made(plans[k].bindings, v)>>
  BY <1>1, <1>5, <1>8, SameHits
<1>10. Found(more, v) = Pair(Found(plans, v), <<Made(bindings, v)>>)
  <2>1. CASE Found(more, v) = <<>>
    BY <1>9, <2>1 DEF Pair
  <2>2. CASE Found(more, v) # <<>>
    <3>1. PICK k \in 1..Len(more) : /\ Found(more, v) = <<Made(more[k].bindings, v)>>
                                    /\ Found(plans, v) = <<Made(plans[k].bindings, v)>>
      BY <1>9, <2>2
    <3>2. Made(more[k].bindings, v) = Made(plans[k].bindings, v) \o Made(bindings, v)
      BY <1>5, <1>6
    <3>3. Found(plans, v) # <<>> /\ Found(plans, v)[1] = Made(plans[k].bindings, v)
      BY <3>1, OneElement
    <3>4. <<Made(bindings, v)>> # <<>> /\ <<Made(bindings, v)>>[1] = Made(bindings, v)
      BY OneElement
    <3>5. QED
      BY <3>1, <3>2, <3>3, <3>4 DEF Pair
  <2>3. QED
    BY <2>1, <2>2
<1>11. QED
  BY <1>5, <1>7, <1>10 DEF more

(* At most one list of bindings is found.                                   *)
LEMMA FoundShape ==
  ASSUME NEW plans, NEW v, IsPlans(plans), Found(plans, v) # <<>>
  PROVE  Found(plans, v) = <<Found(plans, v)[1]>> /\ IsList(Found(plans, v)[1]) /\ plans # <<>>
<1>1. IsList(plans)
  BY DEF IsPlans
<1>2. Hits(plans, v) # {}
  BY <1>1, FoundIs
<1>3. PICK k \in 1..Len(plans) : Found(plans, v) = <<Made(plans[k].bindings, v)>>
  BY <1>1, <1>2, FirstHit
<1>4. IsList(Made(plans[k].bindings, v))
  BY MadeIs DEF IsPlans, IsPlan
<1>5. Found(plans, v)[1] = Made(plans[k].bindings, v)
  BY <1>3, OneElement
<1>6. plans # <<>>
  BY FoundOne
<1>7. QED
  BY <1>3, <1>4, <1>5, <1>6

(* The list that says that there are too many is a list of no plans.        *)
LEMMA NoPlans == IsPlans(TooMany) /\ Len(TooMany) = 0
  BY Nothing DEF IsPlans, TooMany

(* A list of plans is empty exactly when it has no length.                  *)
LEMMA NotEmpty ==
  ASSUME NEW plans, IsPlans(plans)
  PROVE  /\ Len(plans) \in Nat
         /\ plans = TooMany <=> Len(plans) = 0
  BY Nothing, ListLength DEF IsPlans, TooMany

(* A product is empty when one of its factors is, or when it is too large.   *)
LEMMA CombineKeeps ==
  ASSUME NEW left, NEW right, IsPlans(left), IsPlans(right)
  PROVE  /\ IsPlans(CombinePlanSets(left, right))
         /\ CombinePlanSets(left, right) # TooMany =>
              left # TooMany /\ right # TooMany /\ ~(Len(left) * Len(right) > MaxAlternatives)
<1>1. CASE Len(left) * Len(right) > MaxAlternatives
  <2>1. CombinePlanSets(left, right) = TooMany
    BY <1>1 DEF CombinePlanSets
  <2>2. QED
    BY <2>1, NoPlans
<1>2. CASE ~(Len(left) * Len(right) > MaxAlternatives)
  <2>1. /\ IsPlans(CombinePlanSets(left, right))
        /\ Len(CombinePlanSets(left, right)) = Len(left) * Len(right)
    BY <1>2, FoundCombined
  <2>2. Len(left) \in Nat /\ Len(right) \in Nat
    BY NotEmpty
  <2>3. (Len(left) = 0 \/ Len(right) = 0) => Len(left) * Len(right) = 0
    BY <2>2
  <2>4. (Len(left) = 0 \/ Len(right) = 0) => CombinePlanSets(left, right) = TooMany
    BY <2>1, <2>3, NotEmpty
  <2>5. QED
    BY <1>2, <2>1, <2>4, NotEmpty
<1>3. QED
  BY <1>1, <1>2

(* The plans for all parts find what is found for every part, in order.      *)
LEMMA FoundAll ==
  ASSUME NEW first, NEW sets, NEW v, IsPlans(first), IsList(sets),
         \A i \in 1..Len(sets) : IsPlans(sets[i])
  PROVE  /\ IsPlans(AllPlans(first, sets))
         /\ AllPlans(first, sets) # TooMany =>
              /\ \A i \in 1..Len(sets) : sets[i] # TooMany
              /\ Found(first, v) = <<>> \/ (\E i \in 1..Len(sets) : Found(sets[i], v) = <<>>) =>
                   Found(AllPlans(first, sets), v) = <<>>
              /\ Found(first, v) # <<>> /\ (\A i \in 1..Len(sets) : Found(sets[i], v) # <<>>) =>
                   Found(AllPlans(first, sets), v)
                     = <<Found(first, v)[1] \o FlattenSeq([i \in 1..Len(sets) |-> Found(sets[i], v)[1]])>>
<1> DEFINE up == AllUpTo(first, sets)
           x == [i \in 1..Len(sets) |-> Found(sets[i], v)[1]]
           Flats(n) == FlattenSeq(FirstOf(x, n))
           Fails(n) == Found(first, v) = <<>> \/ \E i \in 1..n : Found(sets[i], v) = <<>>
           Facts(n) == /\ IsPlans(up[n])
                       /\ up[n] # TooMany =>
                            /\ \A i \in 1..n : sets[i] # TooMany
                            /\ Fails(n) => Found(up[n], v) = <<>>
                            /\ ~Fails(n) => Found(up[n], v) = <<Found(first, v)[1] \o Flats(n)>>
           Bad == {n \in 0..Len(sets) : ~Facts(n)}
<1>1. Len(sets) \in Nat
  BY ListLength
<1>2. /\ AllPlans(first, sets) = up[Len(sets)] /\ up[0] = first
      /\ \A n \in 0..Len(sets) : n # 0 => up[n] = CombinePlanSets(up[n - 1], sets[n])
  <2>1. 0 \in 0..Len(sets)
    BY <1>1
  <2>2. QED
    BY <1>1, <2>1, AllUpToSteps
<1>3. \A i \in 1..Len(sets) : x[i] = Found(sets[i], v)[1]
  OBVIOUS
<1>4. x = [i \in 1..Len(sets) |-> x[i]]
  OBVIOUS
<1> HIDE DEF up, x
<1>5. IsList(x) /\ Len(x) = Len(sets)
  BY <1>1, <1>4, ListOf
<1>6. \A i \in 1..Len(sets) : Found(sets[i], v) # <<>> => IsList(x[i])
  BY <1>3, FoundShape
<1>7. Bad = {}
  <2>1. SUFFICES ASSUME Bad # {} PROVE FALSE
    OBVIOUS
  <2>2. Bad \in SUBSET Nat
    BY <1>1
  <2>3. PICK n \in Bad : \A m \in Bad : n <= m
    BY <2>1, <2>2, LeastNatural
  <2>4. n \in 0..Len(sets) /\ ~Facts(n)
    OBVIOUS
  <2>5. n # 0
    <3>1. IsPlans(up[0]) /\ \A i \in 1..0 : FALSE
      BY <1>2
    <3>2. Flats(0) = <<>>
      BY FrontIs, Nothing, FlattenNone
    <3>3. Found(first, v) # <<>> => Found(first, v) = <<Found(first, v)[1] \o <<>>>>
      BY FoundShape, Nothing
    <3>4. Facts(0)
      BY <1>2, <3>1, <3>2, <3>3
    <3> HIDE DEF Facts
    <3>5. QED
      BY <2>4, <3>4
  <2> DEFINE m == n - 1
  <2>6. m \in Nat /\ m \in 0..Len(sets) /\ ~(n <= m) /\ m + 1 = n /\ n \in 1..Len(sets)
    BY <1>1, <2>4, <2>5
  <2>7. Facts(m)
    BY <2>3, <2>6
  <2>8. up[n] = CombinePlanSets(up[m], sets[n])
    BY <1>2, <2>4, <2>5
  <2>9. \A i \in 1..n : i = n \/ i \in 1..m
    BY <2>6
  <2>10. \A i \in 1..m : i \in 1..n /\ i \in 1..Len(sets)
    BY <2>6, <1>1
  <2>11. n \in 1..n
    BY <2>6
  <2> HIDE DEF m
  <2>12. IsPlans(up[n]) /\ IsPlans(up[m]) /\ IsPlans(sets[n])
    BY <2>6, <2>7, <2>8, CombineKeeps
  <2>13. ASSUME up[n] # TooMany
         PROVE  /\ up[m] # TooMany /\ sets[n] # TooMany
                /\ Found(up[n], v) = Pair(Found(up[m], v), Found(sets[n], v))
    BY <2>8, <2>12, <2>13, CombineKeeps, FoundCombined
  <2>14. ASSUME up[n] # TooMany
         PROVE  \A i \in 1..n : sets[i] # TooMany
    BY <2>7, <2>9, <2>13, <2>14
  <2>15. ASSUME up[n] # TooMany, Fails(n)
         PROVE  Found(up[n], v) = <<>>
    <3>1. Found(sets[n], v) = <<>> \/ Fails(m)
      BY <2>9, <2>15
    <3>2. Found(sets[n], v) = <<>> \/ Found(up[m], v) = <<>>
      BY SMTT(40), <2>7, <2>13, <2>15, <3>1
    <3>3. QED
      BY <2>13, <2>15, <3>2 DEF Pair
  <2>16. ASSUME up[n] # TooMany, ~Fails(n)
         PROVE  Found(up[n], v) = <<Found(first, v)[1] \o Flats(n)>>
    <3>1. Found(sets[n], v) # <<>> /\ ~Fails(m)
      BY <2>10, <2>11, <2>16
    <3>2. Found(up[m], v) = <<Found(first, v)[1] \o Flats(m)>>
      BY SMTT(40), <2>7, <2>13, <2>16, <3>1
    <3>3. Found(up[m], v) # <<>> /\ Found(up[m], v)[1] = Found(first, v)[1] \o Flats(m)
      BY <3>2, OneElement
    <3>4. x[n] = Found(sets[n], v)[1]
      BY <1>3, <2>6
    <3>5. Found(up[n], v) = <<(Found(first, v)[1] \o Flats(m)) \o x[n]>>
      BY <2>13, <2>16, <3>1, <3>3, <3>4 DEF Pair
    <3>6. \A i \in 1..n : IsList(x[i])
      BY <1>6, <2>6, <2>9, <2>10, <2>16
    <3>7. Flats(n) = Flats(m) \o x[n]
      <4>1. \A i \in 1..(m + 1) : IsList(x[i])
        BY <2>6, <3>6
      <4>2. Flats(m + 1) = Flats(m) \o x[m + 1]
        BY <2>6, <4>1, FlattenFront
      <4> HIDE DEF Flats
      <4>3. QED
        BY <2>6, <4>2
    <3>8. IsList(Flats(m)) /\ IsList(x[n]) /\ IsList(Found(first, v)[1])
      <4>1. \A i \in 1..m : IsList(x[i])
        BY <2>10, <3>6
      <4>2. Found(first, v) # <<>>
        BY <2>16
      <4>3. QED
        BY <2>6, <2>11, <3>6, <4>1, <4>2, FlattenIsList, FoundShape
    <3> HIDE DEF Flats
    <3>9. (Found(first, v)[1] \o Flats(m)) \o x[n] = Found(first, v)[1] \o (Flats(m) \o x[n])
      <4> DEFINE a == Found(first, v)[1]
                 b == Flats(m)
                 c == x[n]
      <4>1. IsList(a) /\ IsList(b) /\ IsList(c)
        BY <3>8
      <4> HIDE DEF a, b, c
      <4>2. (a \o b) \o c = a \o (b \o c)
        BY SMTT(40), <4>1, JoinAssociates
      <4>3. QED
        BY <4>2 DEF a, b, c
    <3>10. QED
      BY <3>5, <3>7, <3>9
  <2>17. Facts(n)
    BY <2>12, <2>14, <2>15, <2>16
  <2> HIDE DEF Facts
  <2>18. QED
    BY <2>4, <2>17
<1>8. Facts(Len(sets))
  <2>1. Len(sets) \in 0..Len(sets)
    BY <1>1
  <2> HIDE DEF Facts
  <2>2. QED
    BY <1>7, <2>1
<1>9. Flats(Len(sets)) = FlattenSeq(x)
  BY <1>1, <1>5, FrontIs
<1> HIDE DEF Flats
<1>10. QED
  BY <1>2, <1>8, <1>9 DEF x

(* The plans for any of the alternatives find what the first of them finds.  *)
LEMMA FoundAny ==
  ASSUME NEW sets, NEW v, IsList(sets), Len(sets) # 0,
         \A i \in 1..Len(sets) : IsPlans(sets[i])
  PROVE  /\ IsPlans(AnyPlan(sets))
         /\ AnyPlan(sets) # TooMany =>
              /\ \A i \in 1..Len(sets) : sets[i] # TooMany
              /\ (\A i \in 1..Len(sets) : Found(sets[i], v) = <<>>) => Found(AnyPlan(sets), v) = <<>>
              /\ \A k \in 1..Len(sets) :
                   Found(sets[k], v) # <<>> /\ (\A j \in 1..Len(sets) : j < k => Found(sets[j], v) = <<>>)
                     => Found(AnyPlan(sets), v) = Found(sets[k], v)
<1> DEFINE up == AnyUpTo(sets)
           Facts(n) == /\ IsPlans(up[n])
                       /\ up[n] # TooMany =>
                            /\ \A i \in 1..n : sets[i] # TooMany
                            /\ (\A i \in 1..n : Found(sets[i], v) = <<>>) => Found(up[n], v) = <<>>
                            /\ \A k \in 1..n :
                                 Found(sets[k], v) # <<>> /\ (\A j \in 1..n : j < k => Found(sets[j], v) = <<>>)
                                   => Found(up[n], v) = Found(sets[k], v)
           Bad == {n \in 1..Len(sets) : ~Facts(n)}
<1>1. Len(sets) \in Nat
  BY ListLength
<1>2. /\ AnyPlan(sets) = up[Len(sets)] /\ up[1] = sets[1]
      /\ \A n \in 1..Len(sets) : n # 1 => up[n] = Extend(up[n - 1], sets[n])
  <2>1. 1 \in 1..Len(sets)
    BY <1>1
  <2>2. QED
    BY <1>1, <2>1, AnyUpToSteps
<1> HIDE DEF up
<1>3. Bad = {}
  <2>1. SUFFICES ASSUME Bad # {} PROVE FALSE
    OBVIOUS
  <2>2. Bad \in SUBSET Nat
    BY <1>1
  <2>3. PICK n \in Bad : \A m \in Bad : n <= m
    BY <2>1, <2>2, LeastNatural
  <2>4. n \in 1..Len(sets) /\ ~Facts(n)
    OBVIOUS
  <2>5. n # 1
    <3>1. 1 \in 1..Len(sets) /\ 1 \in 1..1 /\ \A i \in 1..1 : i = 1
      BY <1>1
    <3>2. IsPlans(up[1]) /\ up[1] = sets[1]
      BY <1>2, <3>1
    <3>3. Facts(1)
      BY <3>1, <3>2
    <3> HIDE DEF Facts
    <3>4. QED
      BY <2>4, <3>3
  <2> DEFINE m == n - 1
  <2>6. m \in Nat /\ m \in 1..Len(sets) /\ ~(n <= m) /\ m + 1 = n /\ n \in 1..n /\ m < n
    BY <1>1, <2>4, <2>5
  <2>7. Facts(m)
    BY <2>3, <2>6
  <2>8. up[n] = Extend(up[m], sets[n])
    BY <1>2, <2>4, <2>5
  <2>9. \A i \in 1..n : i = n \/ i \in 1..m
    BY <2>6
  <2>10. \A i \in 1..m : i \in 1..n /\ i < n
    BY <2>6
  <2> HIDE DEF m
  <2>11. up[n] = TooMany \/ (up[m] # TooMany /\ sets[n] # TooMany /\ up[n] = up[m] \o sets[n])
    BY <2>8 DEF Extend
  <2>12. IsPlans(up[m]) /\ IsPlans(sets[n])
    BY <2>4, <2>7
  <2>13. IsPlans(up[n])
    BY <2>11, <2>12, NoPlans, PlansJoined
  <2>14. ASSUME up[n] # TooMany
         PROVE  Found(up[n], v) = IF Found(up[m], v) # <<>> THEN Found(up[m], v) ELSE Found(sets[n], v)
    <3>1. Found(up[m] \o sets[n], v) = IF Found(up[m], v) # <<>> THEN Found(up[m], v) ELSE Found(sets[n], v)
      BY <2>12, FoundJoined DEF IsPlans
    <3>2. QED
      BY <2>11, <2>14, <3>1
  <2>15. ASSUME up[n] # TooMany
         PROVE  \A i \in 1..n : sets[i] # TooMany
    BY <2>7, <2>9, <2>11, <2>15
  <2>16. ASSUME up[n] # TooMany, \A i \in 1..n : Found(sets[i], v) = <<>>
         PROVE  Found(up[n], v) = <<>>
    <3>1. Found(up[m], v) = <<>>
      BY <2>7, <2>10, <2>11, <2>16
    <3>2. QED
      BY <2>6, <2>14, <2>16, <3>1
  <2>17. ASSUME up[n] # TooMany, NEW k \in 1..n, Found(sets[k], v) # <<>>,
                \A j \in 1..n : j < k => Found(sets[j], v) = <<>>
         PROVE  Found(up[n], v) = Found(sets[k], v)
    <3>1. CASE k = n
      <4>1. \A i \in 1..m : Found(sets[i], v) = <<>>
        BY <2>10, <2>17, <3>1
      <4>2. Found(up[m], v) = <<>>
        BY <2>7, <2>11, <2>17, <4>1
      <4>3. QED
        BY <2>14, <2>17, <3>1, <4>2
    <3>2. CASE k \in 1..m
      <4>1. \A j \in 1..m : j < k => Found(sets[j], v) = <<>>
        BY <2>10, <2>17
      <4>2. Found(up[m], v) = Found(sets[k], v)
        BY <2>7, <2>11, <2>17, <3>2, <4>1
      <4>3. QED
        BY <2>14, <2>17, <4>2
    <3>3. QED
      BY <2>9, <3>1, <3>2
  <2>18. Facts(n)
    BY <2>13, <2>15, <2>16, <2>17
  <2> HIDE DEF Facts
  <2>19. QED
    BY <2>4, <2>18
<1>4. Facts(Len(sets))
  <2>1. Len(sets) \in 1..Len(sets)
    BY <1>1
  <2> HIDE DEF Facts
  <2>2. QED
    BY <1>3, <2>1
<1>5. QED
  BY <1>2, <1>4

-----------------------------------------------------------------------------
(* MatchLowering: the number of plans is the number of alternatives, and     *)
(* there are too many plans exactly when that number is over the limit.      *)

Positive == Nat \ {0}
Counted(plans, n) ==
  /\ IsPlans(plans) /\ n \in Positive
  /\ IF n > MaxAlternatives THEN plans = TooMany ELSE Len(plans) = n

(* One plan is counted as one.                                              *)
LEMMA CountedOne ==
  ASSUME NEW plan, IsPlan(plan)
  PROVE  Counted(<<plan>>, 1)
<1>1. IsList(<<plan>>) /\ Len(<<plan>>) = 1 /\ <<plan>>[1] = plan
  BY OneElement
<1>2. \A k \in 1..Len(<<plan>>) : k = 1
  BY <1>1
<1>3. IsPlans(<<plan>>)
  BY <1>1, <1>2 DEF IsPlans
<1>4. ~(1 > MaxAlternatives)
  BY MatchAssumption
<1>5. QED
  BY <1>1, <1>3, <1>4 DEF Counted, Positive

(* A product is at least as large as its factors.                           *)
LEMMA ProductGrows ==
  ASSUME NEW m \in Positive, NEW n \in Positive
  PROVE  m * n \in Positive /\ m <= m * n /\ n <= m * n
<1>1. \A a, b \in Nat : (a + 1) * (b + 1) = a * b + a + b + 1 /\ a * b \in Nat
  OBVIOUS
<1>2. m - 1 \in Nat /\ n - 1 \in Nat /\ (m - 1) + 1 = m /\ (n - 1) + 1 = n
  BY DEF Positive
<1>3. m * n = (m - 1) * (n - 1) + (m - 1) + (n - 1) + 1 /\ (m - 1) * (n - 1) \in Nat
  BY <1>1, <1>2
<1>4. QED
  BY <1>2, <1>3 DEF Positive

(* Combining multiplies the counts.                                         *)
LEMMA CountedCombined ==
  ASSUME NEW left, NEW right, NEW m, NEW n, Counted(left, m), Counted(right, n)
  PROVE  Counted(CombinePlanSets(left, right), m * n)
<1>1. m \in Positive /\ n \in Positive /\ IsPlans(left) /\ IsPlans(right) /\ MaxAlternatives \in Nat
  BY MatchAssumption DEF Counted
<1>2. m * n \in Positive /\ m <= m * n /\ n <= m * n /\ m \in Nat /\ n \in Nat /\ m * n \in Nat
  BY <1>1, ProductGrows DEF Positive
<1>3. IsPlans(CombinePlanSets(left, right))
  BY <1>1, CombineKeeps
<1>4. CASE m > MaxAlternatives \/ n > MaxAlternatives
  <2>1. m * n > MaxAlternatives
    BY <1>1, <1>2, <1>4
  <2>2. left = TooMany \/ right = TooMany
    BY <1>4 DEF Counted
  <2>3. CombinePlanSets(left, right) = TooMany
    BY <1>1, <2>2, CombineKeeps
  <2>4. QED
    BY <1>2, <1>3, <2>1, <2>3 DEF Counted
<1>5. CASE ~(m > MaxAlternatives \/ n > MaxAlternatives)
  <2>1. Len(left) = m /\ Len(right) = n
    BY <1>5 DEF Counted
  <2>2. CASE m * n > MaxAlternatives
    <3>1. CombinePlanSets(left, right) = TooMany
      BY <2>1, <2>2 DEF CombinePlanSets
    <3>2. QED
      BY <1>2, <1>3, <2>2, <3>1 DEF Counted
  <2>3. CASE ~(m * n > MaxAlternatives)
    <3>1. Len(CombinePlanSets(left, right)) = m * n
      BY <1>1, <2>1, <2>3, FoundCombined
    <3>2. QED
      BY <1>2, <1>3, <2>3, <3>1 DEF Counted
  <2>4. QED
    BY <2>2, <2>3
<1>6. QED
  BY <1>4, <1>5

(* Extending adds the counts.                                               *)
LEMMA CountedExtended ==
  ASSUME NEW left, NEW right, NEW m, NEW n, Counted(left, m), Counted(right, n)
  PROVE  Counted(Extend(left, right), m + n)
<1>1. /\ m \in Nat /\ n \in Nat /\ m # 0 /\ n # 0 /\ IsPlans(left) /\ IsPlans(right)
      /\ MaxAlternatives \in Nat /\ m + n \in Positive
  BY MatchAssumption DEF Counted, Positive
<1>2. CASE m > MaxAlternatives \/ n > MaxAlternatives
  <2>1. m + n > MaxAlternatives
    BY <1>1, <1>2
  <2>2. left = TooMany \/ right = TooMany
    BY <1>2 DEF Counted
  <2>3. Extend(left, right) = TooMany
    BY <2>2 DEF Extend
  <2>4. QED
    BY <1>1, <2>1, <2>3, NoPlans DEF Counted
<1>3. CASE ~(m > MaxAlternatives \/ n > MaxAlternatives)
  <2>1. Len(left) = m /\ Len(right) = n
    BY <1>3 DEF Counted
  <2>2. left # TooMany /\ right # TooMany
    BY <1>1, <2>1, NotEmpty
  <2>3. CASE m + n > MaxAlternatives
    <3>1. Extend(left, right) = TooMany
      BY <2>1, <2>3 DEF Extend
    <3>2. QED
      BY <1>1, <2>3, <3>1, NoPlans DEF Counted
  <2>4. CASE ~(m + n > MaxAlternatives)
    <3>1. Extend(left, right) = left \o right
      BY <2>1, <2>2, <2>4 DEF Extend
    <3>2. IsPlans(left \o right) /\ Len(left \o right) = m + n
      BY <1>1, <2>1, PlansJoined
    <3>3. QED
      BY <1>1, <2>4, <3>1, <3>2 DEF Counted
  <2>5. QED
    BY <2>3, <2>4
<1>4. QED
  BY <1>2, <1>3

(* Combining a list of plan sets multiplies their counts, in any partial    *)
(* order of refusal.                                                        *)
LEMMA CountedAll ==
  ASSUME NEW first, NEW sets, NEW counts, Counted(first, 1), IsList(sets), IsList(counts),
         Len(sets) = Len(counts), \A i \in 1..Len(sets) : Counted(sets[i], counts[i])
  PROVE  Counted(AllPlans(first, sets), Product(counts))
<1> DEFINE up == AllUpTo(first, sets)
           product == ProductUpTo(counts)
           Facts(n) == Counted(up[n], product[n])
           Bad == {n \in 0..Len(sets) : ~Facts(n)}
<1>1. Len(sets) \in Nat /\ 0 \in 0..Len(sets)
  BY ListLength
<1>2. /\ AllPlans(first, sets) = up[Len(sets)] /\ up[0] = first
      /\ \A n \in 0..Len(sets) : n # 0 => up[n] = CombinePlanSets(up[n - 1], sets[n])
  BY <1>1, AllUpToSteps
<1>3. /\ Product(counts) = product[Len(sets)] /\ product[0] = 1
      /\ \A n \in 0..Len(sets) : n # 0 => product[n] = product[n - 1] * counts[n]
  BY <1>1, ProductUpToSteps
<1> HIDE DEF up, product
<1>4. Bad = {}
  <2>1. SUFFICES ASSUME Bad # {} PROVE FALSE
    OBVIOUS
  <2>2. Bad \in SUBSET Nat
    BY <1>1
  <2>3. PICK n \in Bad : \A m \in Bad : n <= m
    BY <2>1, <2>2, LeastNatural
  <2>4. n \in 0..Len(sets) /\ ~Facts(n)
    OBVIOUS
  <2>5. n # 0
    BY <1>2, <1>3, <2>4
  <2>6. n - 1 \in 0..Len(sets) /\ ~(n <= n - 1) /\ n \in 1..Len(sets)
    BY <1>1, <2>4, <2>5
  <2>7. Facts(n - 1)
    BY <2>3, <2>6
  <2>8. Counted(CombinePlanSets(up[n - 1], sets[n]), product[n - 1] * counts[n])
    BY <2>6, <2>7, CountedCombined
  <2>9. QED
    BY <1>2, <1>3, <2>4, <2>5, <2>8
<1>5. Len(sets) \in 0..Len(sets)
  BY <1>1
<1>6. QED
  BY <1>2, <1>3, <1>4, <1>5

(* Extending by a list of plan sets adds their counts.                      *)
LEMMA CountedAny ==
  ASSUME NEW sets, NEW counts, IsList(sets), IsList(counts), Len(sets) # 0,
         Len(sets) = Len(counts), \A i \in 1..Len(sets) : Counted(sets[i], counts[i])
  PROVE  Counted(AnyPlan(sets), Total(counts))
<1> DEFINE up == AnyUpTo(sets)
           total == TotalUpTo(counts)
           Facts(n) == Counted(up[n], total[n])
           Bad == {n \in 1..Len(sets) : ~Facts(n)}
<1>1. Len(sets) \in Nat /\ 0 \in 0..Len(sets) /\ 1 \in 1..Len(sets) /\ \A n \in 1..Len(sets) : n \in 0..Len(sets) /\ n # 0
  BY ListLength
<1>2. /\ AnyPlan(sets) = up[Len(sets)] /\ up[1] = sets[1]
      /\ \A n \in 1..Len(sets) : n # 1 => up[n] = Extend(up[n - 1], sets[n])
  BY <1>1, AnyUpToSteps
<1>3. /\ Total(counts) = total[Len(sets)] /\ total[0] = 0
      /\ \A n \in 0..Len(sets) : n # 0 => total[n] = total[n - 1] + counts[n]
  BY <1>1, TotalUpToSteps
<1> HIDE DEF up, total
<1>4. Bad = {}
  <2>1. SUFFICES ASSUME Bad # {} PROVE FALSE
    OBVIOUS
  <2>2. Bad \in SUBSET Nat
    BY <1>1
  <2>3. PICK n \in Bad : \A m \in Bad : n <= m
    BY <2>1, <2>2, LeastNatural
  <2>4. n \in 1..Len(sets) /\ ~Facts(n)
    OBVIOUS
  <2>5. n # 1
    <3>1. total[1] = total[1 - 1] + counts[1]
      BY <1>1, <1>3
    <3>2. counts[1] \in Nat
      BY <1>1 DEF Counted, Positive
    <3>3. total[1] = counts[1]
      BY <1>3, <3>1, <3>2
    <3>4. QED
      BY <1>1, <1>2, <2>4, <3>3
  <2>6. n - 1 \in 1..Len(sets) /\ ~(n <= n - 1)
    BY <1>1, <2>4, <2>5
  <2>7. Facts(n - 1)
    BY <2>3, <2>6
  <2>8. Counted(Extend(up[n - 1], sets[n]), total[n - 1] + counts[n])
    BY <2>4, <2>7, CountedExtended
  <2>9. up[n] = Extend(up[n - 1], sets[n]) /\ total[n] = total[n - 1] + counts[n]
    BY <1>1, <1>2, <1>3, <2>4, <2>5
  <2>10. QED
    BY <2>4, <2>8, <2>9
<1>5. Len(sets) \in 1..Len(sets)
  BY <1>1
<1>6. QED
  BY <1>2, <1>3, <1>4, <1>5

(* Moving plans under a step keeps their count.                             *)
LEMMA CountedUnder ==
  ASSUME NEW plans, NEW n, NEW step, Counted(plans, n)
  PROVE  Counted(Under(step, plans), n)
<1>1. IsPlans(Under(step, plans)) /\ Len(Under(step, plans)) = Len(plans) /\ IsPlans(plans)
  BY FoundUnder DEF Counted
<1>2. plans = TooMany => Under(step, plans) = TooMany
  BY <1>1, NotEmpty
<1>3. QED
  BY <1>1, <1>2 DEF Counted

(* A binding more keeps the count of the plans.                             *)
LEMMA CountedWithBinding ==
  ASSUME NEW plans, NEW n, NEW bindings, Counted(plans, n), IsList(bindings),
         \A i \in 1..Len(bindings) : IsBinding(bindings[i])
  PROVE  Counted(WithBinding(plans, bindings), n)
<1>1. /\ IsPlans(WithBinding(plans, bindings)) /\ IsPlans(plans)
      /\ Len(WithBinding(plans, bindings)) = Len(plans)
  BY FoundWithBinding DEF Counted
<1>2. plans = TooMany => WithBinding(plans, bindings) = TooMany
  BY <1>1, NotEmpty
<1>3. QED
  BY <1>1, <1>2 DEF Counted

(* What a plan of the compiler is made of.                                   *)
TestList(tests) == IsList(tests) /\ \A i \in 1..Len(tests) : IsTest(tests[i])
BindingList(bindings) == IsList(bindings) /\ \A i \in 1..Len(bindings) : IsBinding(bindings[i])

(* What Test builds is a test.                                              *)
LEMMA TestFacts ==
  ASSUME NEW k, NEW a, NEW n
  PROVE  /\ TestList(<<Test(k, a, n)>>) /\ Len(<<Test(k, a, n)>>) = 1
         /\ <<Test(k, a, n)>>[1] = Test(k, a, n)
         /\ Test(k, a, n).kind = k /\ Test(k, a, n).arg = a /\ Test(k, a, n).n = n
         /\ Test(k, a, n).path = <<>>
<1> DEFINE t == Test(k, a, n)
<1>1. t = [kind |-> k, path |-> <<>>, arg |-> a, n |-> n]
  BY DEF Test
<1>2. t.kind = k /\ t.arg = a /\ t.n = n /\ t.path = <<>>
  BY <1>1
<1> HIDE DEF t
<1>3. IsTest(t)
  BY <1>1, <1>2, Nothing DEF IsTest
<1>4. IsList(<<t>>) /\ Len(<<t>>) = 1 /\ <<t>>[1] = t
  BY OneElement
<1>5. TestList(<<t>>)
  <2>1. \A i \in 1..Len(<<t>>) : i = 1
    BY <1>4
  <2>2. QED
    BY <1>3, <1>4, <2>1 DEF TestList
<1>6. QED
  BY <1>2, <1>4, <1>5 DEF t

(* What Binding builds is a binding.                                        *)
LEMMA BindingFacts ==
  ASSUME NEW name, NEW from, NEW suffix
  PROVE  LET b == Binding(name, from, suffix)
         IN  /\ BindingList(<<b>>)
             /\ \A v : Made(<<b>>, v) = <<<<name, CASE from = Whole -> v
                                               [] from = Without -> Rest(v, suffix)
                                               [] OTHER -> SliceOf(v, from, suffix)>>>>
<1> DEFINE b == Binding(name, from, suffix)
<1>1. b = [name |-> name, path |-> <<>>, from |-> from, suffix |-> suffix]
  BY DEF Binding
<1>2. b.name = name /\ b.path = <<>> /\ b.from = from /\ b.suffix = suffix
  BY <1>1
<1> HIDE DEF b
<1>3. IsBinding(b)
  BY <1>1, <1>2, Nothing DEF IsBinding
<1>4. IsList(<<b>>) /\ Len(<<b>>) = 1 /\ <<b>>[1] = b
  BY OneElement
<1>5. BindingList(<<b>>)
  <2>1. \A i \in 1..Len(<<b>>) : i = 1
    BY <1>4
  <2>2. QED
    BY <1>3, <1>4, <2>1 DEF BindingList
<1>6. ASSUME NEW v
      PROVE  Made(<<b>>, v) = <<<<name, CASE from = Whole -> v
                                     [] from = Without -> Rest(v, suffix)
                                     [] OTHER -> SliceOf(v, from, suffix)>>>>
  <2>1. IsList(Made(<<b>>, v)) /\ Len(Made(<<b>>, v)) = 1 /\ Made(<<b>>, v)[1] = Bound(b, v)
    <3>1. 1 \in 1..Len(<<b>>)
      BY <1>4
    <3>2. QED
      BY <1>4, <3>1, MadeIs
  <2> DEFINE x == Bound(b, v)
             m == Made(<<b>>, v)
  <2>2. IsList(<<x>>) /\ Len(<<x>>) = 1 /\ <<x>>[1] = x
    BY OneElement
  <2>3. \A i \in 1..1 : i = 1
    OBVIOUS
  <2>4. m = <<x>>
    <3>1. IsList(m) /\ Len(m) = 1 /\ m[1] = x
      BY <2>1
    <3> HIDE DEF m, x
    <3>2. \A i \in 1..Len(m) : m[i] = <<x>>[i]
      BY <2>2, <2>3, <3>1
    <3>3. QED
      BY <2>2, <3>1, <3>2, ListsEqual
  <2>5. x = <<name, CASE from = Whole -> v
                      [] from = Without -> Rest(v, suffix)
                      [] OTHER -> SliceOf(v, from, suffix)>>
    BY <1>2, AtSelf DEF Bound
  <2>6. QED
    BY <2>4, <2>5
<1>7. QED
  BY <1>5, <1>6 DEF b

(* No tests and no bindings.                                                *)
LEMMA NoTests == TestList(<<>>) /\ BindingList(<<>>) /\ \A v : Made(<<>>, v) = <<>>
<1>1. TestList(<<>>) /\ BindingList(<<>>)
  BY Nothing DEF TestList, BindingList
<1>2. ASSUME NEW v PROVE Made(<<>>, v) = <<>>
  <2>1. IsList(Made(<<>>, v)) /\ Len(Made(<<>>, v)) = 0
    BY Nothing, MadeIs
  <2>2. QED
    BY <2>1, Nothing
<1>3. QED
  BY <1>1, <1>2

(* Joined tests hold exactly when both lists do.                            *)
LEMMA TestsJoined ==
  ASSUME NEW s, NEW t, TestList(s), TestList(t)
  PROVE  /\ TestList(s \o t)
         /\ \A v : (\A i \in 1..Len(s \o t) : Holds((s \o t)[i], v)) <=>
                   (\A i \in 1..Len(s) : Holds(s[i], v)) /\ (\A i \in 1..Len(t) : Holds(t[i], v))
<1> DEFINE u == s \o t
<1>1. /\ IsList(u)
      /\ \A i \in 1..Len(s) : i \in 1..Len(u) /\ u[i] = s[i]
      /\ \A i \in 1..Len(t) : Len(s) + i \in 1..Len(u) /\ u[Len(s) + i] = t[i]
      /\ \A i \in 1..Len(u) : \/ i \in 1..Len(s) /\ u[i] = s[i]
                              \/ i - Len(s) \in 1..Len(t) /\ u[i] = t[i - Len(s)]
  BY JoinedParts DEF TestList
<1> HIDE DEF u
<1>2. TestList(u)
  BY <1>1 DEF TestList
<1>3. ASSUME NEW v
      PROVE  (\A i \in 1..Len(u) : Holds(u[i], v)) <=>
             (\A i \in 1..Len(s) : Holds(s[i], v)) /\ (\A i \in 1..Len(t) : Holds(t[i], v))
  <2>1. ASSUME \A i \in 1..Len(u) : Holds(u[i], v)
        PROVE  (\A i \in 1..Len(s) : Holds(s[i], v)) /\ (\A i \in 1..Len(t) : Holds(t[i], v))
    <3>1. \A i \in 1..Len(s) : Holds(s[i], v)
      BY <1>1, <2>1
    <3>2. \A i \in 1..Len(t) : Holds(t[i], v)
      BY <1>1, <2>1
    <3>3. QED
      BY <3>1, <3>2
  <2>2. ASSUME \A i \in 1..Len(s) : Holds(s[i], v), \A i \in 1..Len(t) : Holds(t[i], v)
        PROVE  \A i \in 1..Len(u) : Holds(u[i], v)
    BY <1>1, <2>2
  <2>3. QED
    BY <2>1, <2>2
<1>4. QED
  BY <1>2, <1>3 DEF u

(* What Plan builds is one plan.                                            *)
LEMMA PlanFacts ==
  ASSUME NEW tests, NEW bindings, TestList(tests), BindingList(bindings)
  PROVE  /\ IsPlans(Plan(tests, bindings)) /\ Counted(Plan(tests, bindings), 1)
         /\ \A v : Found(Plan(tests, bindings), v)
                     = IF \A i \in 1..Len(tests) : Holds(tests[i], v) THEN <<Made(bindings, v)>> ELSE <<>>
<1> DEFINE plan == [tests |-> tests, bindings |-> bindings]
<1>1. plan = [tests |-> plan.tests, bindings |-> plan.bindings] /\ plan.tests = tests /\ plan.bindings = bindings
  OBVIOUS
<1>2. Plan(tests, bindings) = <<plan>>
  BY DEF Plan
<1> HIDE DEF plan
<1>3. IsPlan(plan)
  BY <1>1 DEF IsPlan, TestList, BindingList
<1>4. Counted(<<plan>>, 1)
  BY <1>3, CountedOne
<1>5. ASSUME NEW v
      PROVE  Found(<<plan>>, v) = IF \A i \in 1..Len(tests) : Holds(tests[i], v) THEN <<Made(bindings, v)>> ELSE <<>>
  BY <1>1, FoundOne DEF PlanHolds
<1>6. QED
  BY <1>2, <1>4, <1>5 DEF Counted

(* When each kind of test holds of the value itself.                        *)
LEMMA TestHolds ==
  ASSUME NEW k, NEW a, NEW n, NEW v
  PROVE  /\ (\A i \in 1..Len(<<Test(k, a, n)>>) : Holds(<<Test(k, a, n)>>[i], v)) <=> Holds(Test(k, a, n), v)
         /\ k = "equal" => (Holds(Test(k, a, n), v) <=> v = Atom(a))
         /\ k = "sequence" => (Holds(Test(k, a, n), v) <=> v.type \in {"list", "tuple"})
         /\ k = "length" => (Holds(Test(k, a, n), v) <=> Len(v.parts) = n)
         /\ k = "at_least" => (Holds(Test(k, a, n), v) <=> Len(v.parts) >= n)
         /\ k = "mapping" => (Holds(Test(k, a, n), v) <=> v.type = "dict")
         /\ k = "has" => (Holds(Test(k, a, n), v) <=> Has(v, a))
         /\ k = "isinstance" => (Holds(Test(k, a, n), v) <=> IsInstance(v, a))
         /\ k = "match_args" => (Holds(Test(k, a, n), v) <=> Len(MatchArgs(a)) >= n)
<1> DEFINE t == Test(k, a, n)
<1>0. t.kind = k /\ t.arg = a /\ t.n = n /\ t.path = <<>>
  BY DEF Test
<1> HIDE DEF t
<1>1. t.kind = k /\ t.arg = a /\ t.n = n /\ t.path = <<>> /\ Len(<<t>>) = 1 /\ <<t>>[1] = t
  BY <1>0, OneElement
<1>2. 1 \in 1..Len(<<t>>) /\ \A i \in 1..Len(<<t>>) : i = 1
  BY <1>1
<1>3. (\A i \in 1..Len(<<t>>) : Holds(<<t>>[i], v)) <=> Holds(t, v)
  BY <1>1, <1>2
<1>4. At(v, t.path) = v
  BY <1>1, AtSelf
<1>5. /\ k = "equal" => (Holds(t, v) <=> v = Atom(a))
      /\ k = "sequence" => (Holds(t, v) <=> v.type \in {"list", "tuple"})
      /\ k = "length" => (Holds(t, v) <=> Len(v.parts) = n)
      /\ k = "at_least" => (Holds(t, v) <=> Len(v.parts) >= n)
      /\ k = "mapping" => (Holds(t, v) <=> v.type = "dict")
      /\ k = "has" => (Holds(t, v) <=> Has(v, a))
      /\ k = "isinstance" => (Holds(t, v) <=> IsInstance(v, a))
      /\ k = "match_args" => (Holds(t, v) <=> Len(MatchArgs(a)) >= n)
  BY <1>1, <1>4 DEF Holds
<1>6. QED
  BY <1>3, <1>5 DEF t

(* A list of two elements.                                                  *)
LEMMA TwoElements ==
  ASSUME NEW a, NEW b
  PROVE  IsList(<<a, b>>) /\ Len(<<a, b>>) = 2 /\ <<a, b>>[1] = a /\ <<a, b>>[2] = b
<1>1. <<a, b>> \in Seq({a, b}) /\ Len(<<a, b>>) = 2 /\ <<a, b>>[1] = a /\ <<a, b>>[2] = b
  OBVIOUS
<1>2. QED
  BY <1>1, SeqIsList

(* What the parser gives for each kind of pattern.                          *)
LEMMA ParsedFacts ==
  ASSUME NEW p \in Patterns
  PROVE  /\ Parsed(p) /\ Len(p.nested) \in Nat
         /\ \A i \in 1..Len(p.nested) : p.nested[i] \in Patterns
<1>1. Parsed(p)
  BY MatchAssumption
<1>2. p.nested \in Seq(Patterns)
  BY <1>1 DEF Parsed
<1>3. QED
  BY <1>1, <1>2, ElementOfSeq

(* The plan every sequence, mapping or class pattern starts from, and the    *)
(* plans of its parts.                                                       *)
SequenceTests(p) ==
  <<Test("sequence", "", 0),
    IF p.star = 0 THEN Test("length", "", Len(p.nested)) ELSE Test("at_least", "", Len(p.nested) - 1)>>
StarBinding(p, i) ==
  IF p.nested[i].name = "" THEN <<>> ELSE <<Binding(p.nested[i].name, i, Len(p.nested) - i)>>
ItemOf(p, i) == Item(IF p.star # 0 /\ i > p.star THEN i - Len(p.nested) - 1 ELSE i)
SequencePart(p, nested, i) ==
  IF i = p.star THEN Plan(<<>>, StarBinding(p, i)) ELSE Under(ItemOf(p, i), nested[i])

MappingPart(p, nested, i) ==
  CombinePlanSets(Plan(<<Test("has", p.keys[i], 0)>>, <<>>), Under(Key(p.keys[i]), nested[i]))
RestBinding(p) == IF p.name = "" THEN <<>> ELSE <<Binding(p.name, Without, p.keys)>>

OnSubject(p, i) == i <= Positional(p) /\ p.name \in Builtins /\ Positional(p) = 1
ClassTests(p, i) ==
  (IF i <= Positional(p) THEN <<Test("match_args", p.name, i)>> ELSE <<>>)
    \o <<Test("has", Attribute(p, i), 0)>>
ClassPart(p, nested, i) ==
  IF OnSubject(p, i) THEN nested[i]
  ELSE CombinePlanSets(Plan(ClassTests(p, i), <<>>), Under(Key(Attribute(p, i)), nested[i]))

(* The compiled patterns, part by part.                                     *)
LEMMA CompiledParts ==
  ASSUME NEW p, NEW nested
  PROVE  /\ CompileSequence(p, nested)
              = AllPlans(Plan(SequenceTests(p), <<>>), [i \in 1..Len(p.nested) |-> SequencePart(p, nested, i)])
         /\ CompileMapping(p, nested)
              = WithBinding(AllPlans(Plan(<<Test("mapping", "", 0)>>, <<>>),
                                     [i \in 1..Len(p.keys) |-> MappingPart(p, nested, i)]),
                            RestBinding(p))
         /\ CompileClass(p, nested)
              = AllPlans(Plan(<<Test("isinstance", p.name, 0)>>, <<>>),
                         [i \in 1..Len(p.nested) |-> ClassPart(p, nested, i)])
<1>1. CompileSequence(p, nested)
        = AllPlans(Plan(SequenceTests(p), <<>>), [i \in 1..Len(p.nested) |-> SequencePart(p, nested, i)])
  BY DEF CompileSequence, SequenceTests, SequencePart, StarBinding, ItemOf
<1>2. CompileMapping(p, nested)
        = WithBinding(AllPlans(Plan(<<Test("mapping", "", 0)>>, <<>>),
                               [i \in 1..Len(p.keys) |-> MappingPart(p, nested, i)]),
                      RestBinding(p))
  BY DEF CompileMapping, MappingPart, RestBinding
<1>3. CompileClass(p, nested)
        = AllPlans(Plan(<<Test("isinstance", p.name, 0)>>, <<>>),
                   [i \in 1..Len(p.nested) |-> ClassPart(p, nested, i)])
  BY DEF CompileClass, ClassPart, OnSubject, ClassTests
<1>4. QED
  BY <1>1, <1>2, <1>3

(* When the tests of a sequence pattern hold.                               *)
LEMMA SequenceTestsHold ==
  ASSUME NEW p
  PROVE  /\ TestList(SequenceTests(p))
         /\ \A v : (\A i \in 1..Len(SequenceTests(p)) : Holds(SequenceTests(p)[i], v)) <=>
                     /\ v.type \in {"list", "tuple"}
                     /\ IF p.star = 0 THEN Len(v.parts) = Len(p.nested)
                                      ELSE Len(v.parts) >= Len(p.nested) - 1
<1> DEFINE a == Test("sequence", "", 0)
           b == IF p.star = 0 THEN Test("length", "", Len(p.nested)) ELSE Test("at_least", "", Len(p.nested) - 1)
           tests == SequenceTests(p)
<1>1. tests = <<a, b>>
  BY DEF SequenceTests
<1>2. IsTest(a) /\ IsTest(b)
  <2>1. \A k, x, n : IsTest(Test(k, x, n))
    <3>1. SUFFICES ASSUME NEW k, NEW x, NEW n PROVE IsTest(Test(k, x, n))
      OBVIOUS
    <3>2. TestList(<<Test(k, x, n)>>) /\ Len(<<Test(k, x, n)>>) = 1 /\ <<Test(k, x, n)>>[1] = Test(k, x, n)
      BY TestFacts
    <3>3. 1 \in 1..Len(<<Test(k, x, n)>>)
      BY <3>2
    <3>4. QED
      BY <3>2, <3>3 DEF TestList
  <2>2. QED
    BY <2>1
<1>3. \A v : Holds(a, v) <=> v.type \in {"list", "tuple"}
  BY TestHolds
<1>4. \A v : Holds(b, v) <=> IF p.star = 0 THEN Len(v.parts) = Len(p.nested) ELSE Len(v.parts) >= Len(p.nested) - 1
  <2>1. \A v, n : Holds(Test("length", "", n), v) <=> Len(v.parts) = n
    BY TestHolds
  <2>2. \A v, n : Holds(Test("at_least", "", n), v) <=> Len(v.parts) >= n
    BY TestHolds
  <2>3. QED
    BY <2>1, <2>2
<1> HIDE DEF a, b, tests
<1>5. IsList(tests) /\ Len(tests) = 2 /\ tests[1] = a /\ tests[2] = b
  BY <1>1, TwoElements
<1>6. 1 \in 1..Len(tests) /\ 2 \in 1..Len(tests) /\ \A i \in 1..Len(tests) : i = 1 \/ i = 2
  BY <1>5
<1>7. TestList(tests)
  BY <1>2, <1>5, <1>6 DEF TestList
<1>8. \A v : (\A i \in 1..Len(tests) : Holds(tests[i], v)) <=> Holds(a, v) /\ Holds(b, v)
  BY <1>5, <1>6
<1>9. QED
  BY <1>3, <1>4, <1>7, <1>8 DEF tests

(* The bindings of a star and of the rest are lists of bindings.            *)
LEMMA BindingListsOf ==
  ASSUME NEW p
  PROVE  /\ BindingList(RestBinding(p)) /\ BindingList(NameBinding(p.name))
         /\ \A i : BindingList(StarBinding(p, i))
  BY NoTests, BindingFacts DEF RestBinding, NameBinding, StarBinding

(* One plan of one test finds nothing or binds nothing.                     *)
LEMMA OneTestHolds ==
  ASSUME NEW a, NEW n, NEW v
  PROVE  /\ (\A j \in 1..Len(<<Test("has", a, n)>>) : Holds(<<Test("has", a, n)>>[j], v)) <=> Has(v, a)
         /\ (\A j \in 1..Len(<<Test("match_args", a, n)>>) : Holds(<<Test("match_args", a, n)>>[j], v))
              <=> Len(MatchArgs(a)) >= n
         /\ (\A j \in 1..Len(<<Test("isinstance", a, n)>>) : Holds(<<Test("isinstance", a, n)>>[j], v))
              <=> IsInstance(v, a)
         /\ (\A j \in 1..Len(<<Test("mapping", a, n)>>) : Holds(<<Test("mapping", a, n)>>[j], v))
              <=> v.type = "dict"
         /\ (\A j \in 1..Len(<<Test("equal", a, n)>>) : Holds(<<Test("equal", a, n)>>[j], v))
              <=> v = Atom(a)
<1>1. ASSUME NEW k
      PROVE  (\A j \in 1..Len(<<Test(k, a, n)>>) : Holds(<<Test(k, a, n)>>[j], v)) <=> Holds(Test(k, a, n), v)
  BY TestHolds
<1>2. Holds(Test("has", a, n), v) <=> Has(v, a)
  BY TestHolds
<1>3. Holds(Test("match_args", a, n), v) <=> Len(MatchArgs(a)) >= n
  BY TestHolds
<1>4. Holds(Test("isinstance", a, n), v) <=> IsInstance(v, a)
  BY TestHolds
<1>5. Holds(Test("mapping", a, n), v) <=> v.type = "dict"
  BY TestHolds
<1>6. Holds(Test("equal", a, n), v) <=> v = Atom(a)
  BY TestHolds
<1>7. QED
  BY <1>1, <1>2, <1>3, <1>4, <1>5, <1>6

(* When the tests of a part of a class pattern hold.                        *)
LEMMA ClassTestsAre ==
  ASSUME NEW p, NEW i
  PROVE  /\ TestList(ClassTests(p, i))
         /\ \A v : (\A j \in 1..Len(ClassTests(p, i)) : Holds(ClassTests(p, i)[j], v)) <=>
                     /\ i <= Positional(p) => Len(MatchArgs(p.name)) >= i
                     /\ Has(v, Attribute(p, i))
<1> DEFINE s == IF i <= Positional(p) THEN <<Test("match_args", p.name, i)>> ELSE <<>>
           t == <<Test("has", Attribute(p, i), 0)>>
<1>1. ClassTests(p, i) = s \o t
  BY DEF ClassTests
<1>2. TestList(s) /\ TestList(t)
  BY TestFacts, NoTests
<1>3. \A v : (\A j \in 1..Len(t) : Holds(t[j], v)) <=> Has(v, Attribute(p, i))
  BY OneTestHolds
<1>4. \A v : (\A j \in 1..Len(s) : Holds(s[j], v)) <=> (i <= Positional(p) => Len(MatchArgs(p.name)) >= i)
  <2>1. CASE i <= Positional(p)
    <3>1. s = <<Test("match_args", p.name, i)>>
      BY <2>1
    <3>2. \A v : (\A j \in 1..Len(<<Test("match_args", p.name, i)>>) : Holds(<<Test("match_args", p.name, i)>>[j], v))
                   <=> Len(MatchArgs(p.name)) >= i
      BY OneTestHolds
    <3> HIDE DEF s
    <3>3. QED
      BY <2>1, <3>1, <3>2
  <2>2. CASE ~(i <= Positional(p))
    <3>1. s = <<>> /\ \A j \in 1..Len(<<>>) : FALSE
      BY <2>2, Nothing
    <3> HIDE DEF s
    <3>2. QED
      BY <2>2, <3>1
  <2>3. QED
    BY <2>1, <2>2
<1> HIDE DEF s, t
<1>5. QED
  BY <1>1, <1>2, <1>3, <1>4, TestsJoined

(* A product of one, and of positive numbers.                               *)
LEMMA SmallProducts ==
  ASSUME NEW counts, IsList(counts)
  PROVE  /\ Len(counts) = 0 => Product(counts) = 1
         /\ Len(counts) = 1 /\ counts[1] \in Nat => Product(counts) = counts[1]
<1>1. Len(counts) \in Nat /\ 0 \in 0..Len(counts)
  BY ListLength
<1> DEFINE product == ProductUpTo(counts)
<1>2. /\ Product(counts) = product[Len(counts)] /\ product[0] = 1
      /\ \A n \in 0..Len(counts) : n # 0 => product[n] = product[n - 1] * counts[n]
  BY <1>1, ProductUpToSteps
<1> HIDE DEF product
<1>3. ASSUME Len(counts) = 1, counts[1] \in Nat PROVE Product(counts) = counts[1]
  <2>1. 1 \in 0..Len(counts) /\ 1 - 1 = 0
    BY <1>3
  <2>2. product[1] = product[1 - 1] * counts[1]
    BY <1>2, <2>1
  <2>3. QED
    BY <1>2, <1>3, <2>1, <2>2
<1>4. QED
  BY <1>2, <1>3

(* The plans of a pattern are as many as its alternatives when those of its *)
(* parts are.                                                               *)
LEMMA CountedFrom ==
  ASSUME NEW p \in Patterns, NEW nested, NEW counts,
         IsList(nested), IsList(counts), Len(nested) = Len(p.nested), Len(counts) = Len(p.nested),
         \A i \in 1..Len(p.nested) : Counted(nested[i], counts[i]),
         p.kind = "sequence" /\ p.star # 0 => counts[p.star] = 1
  PROVE  Counted(CompileFrom(p, nested), IF p.kind = "or" THEN Total(counts) ELSE Product(counts))
<1>1. Parsed(p) /\ Len(p.nested) \in Nat
  BY ParsedFacts
<1>2. \A i \in 1..Len(p.nested) : counts[i] \in Nat /\ 1 * counts[i] = counts[i]
  BY DEF Counted, Positive
<1>3. CASE p.kind = "value"
  <2>1. CompileFrom(p, nested) = Plan(<<Test("equal", p.name, 0)>>, <<>>)
    BY <1>3 DEF CompileFrom
  <2>2. Counted(Plan(<<Test("equal", p.name, 0)>>, <<>>), 1)
    BY TestFacts, NoTests, PlanFacts
  <2>3. p.nested = <<>>
    BY <1>1, <1>3 DEF Parsed
  <2>4. Product(counts) = 1
    BY <2>3, Nothing, SmallProducts
  <2>5. QED
    BY <1>3, <2>1, <2>2, <2>4
<1>4. CASE p.kind = "as"
  <2>1. CompileFrom(p, nested)
          = WithBinding(IF p.nested = <<>> THEN Plan(<<>>, <<>>) ELSE nested[1], NameBinding(p.name))
    BY <1>4 DEF CompileFrom
  <2>2. Len(p.nested) <= 1
    BY <1>1, <1>4 DEF Parsed
  <2>3. BindingList(NameBinding(p.name))
    BY BindingListsOf
  <2>4. CASE p.nested = <<>>
    <3>1. Counted(Plan(<<>>, <<>>), 1)
      BY NoTests, PlanFacts
    <3>2. Product(counts) = 1
      BY <2>4, Nothing, SmallProducts
    <3>3. Counted(WithBinding(Plan(<<>>, <<>>), NameBinding(p.name)), 1)
      BY <2>3, <3>1, CountedWithBinding DEF BindingList
    <3>4. QED
      BY <1>4, <2>1, <2>4, <3>2, <3>3
  <2>5. CASE p.nested # <<>>
    <3>1. Len(p.nested) = 1
      <4>1. p.nested \in Seq(Patterns)
        BY <1>1 DEF Parsed
      <4>2. Len(p.nested) # 0
        BY <2>5, <4>1, SeqIsList, Nothing
      <4>3. \A n \in Nat : n <= 1 /\ n # 0 => n = 1
        OBVIOUS
      <4>4. QED
        BY <1>1, <2>2, <4>2, <4>3
    <3>2. 1 \in 1..Len(p.nested)
      BY <3>1
    <3>3. Counted(nested[1], counts[1]) /\ counts[1] \in Nat
      BY <1>2, <3>2
    <3>4. Product(counts) = counts[1]
      BY <3>1, <3>3, SmallProducts
    <3>5. Counted(WithBinding(nested[1], NameBinding(p.name)), counts[1])
      BY <2>3, <3>3, CountedWithBinding DEF BindingList
    <3>6. QED
      BY <1>4, <2>1, <2>5, <3>4, <3>5
  <2>6. QED
    BY <2>4, <2>5
<1>5. CASE p.kind = "or"
  <2>1. CompileFrom(p, nested) = AnyPlan(nested)
    BY <1>5 DEF CompileFrom
  <2>2. p.nested # <<>> /\ p.nested \in Seq(Patterns)
    BY <1>1, <1>5 DEF Parsed
  <2>3. Len(nested) # 0
    BY <2>2, SeqIsList, Nothing
  <2>4. Counted(AnyPlan(nested), Total(counts))
    BY <2>3, CountedAny
  <2>5. QED
    BY <1>5, <2>1, <2>4
<1>6. CASE p.kind = "sequence"
  <2> DEFINE sets == [i \in 1..Len(p.nested) |-> SequencePart(p, nested, i)]
             first == Plan(SequenceTests(p), <<>>)
  <2>1. CompileFrom(p, nested) = AllPlans(first, sets)
    BY <1>6, CompiledParts DEF CompileFrom
  <2>2. Counted(first, 1)
    BY SequenceTestsHold, NoTests, PlanFacts
  <2>3. \A i \in 1..Len(p.nested) : sets[i] = SequencePart(p, nested, i)
    OBVIOUS
  <2>4. sets = [i \in 1..Len(p.nested) |-> sets[i]]
    OBVIOUS
  <2>5. ASSUME NEW i \in 1..Len(p.nested) PROVE Counted(SequencePart(p, nested, i), counts[i])
    <3>1. CASE i = p.star
      <4>1. counts[i] = 1
        <5>1. p.star # 0
          BY <1>1, <3>1
        <5>2. QED
          BY <1>6, <3>1, <5>1
      <4>2. Counted(Plan(<<>>, StarBinding(p, i)), 1)
        BY NoTests, BindingListsOf, PlanFacts
      <4>3. QED
        BY <3>1, <4>1, <4>2 DEF SequencePart
    <3>2. CASE i # p.star
      BY <3>2, CountedUnder DEF SequencePart
    <3>3. QED
      BY <3>1, <3>2
  <2> HIDE DEF sets, first
  <2>6. IsList(sets) /\ Len(sets) = Len(p.nested)
    BY <1>1, <2>4, ListOf
  <2>7. Counted(AllPlans(first, sets), Product(counts))
    BY <2>2, <2>3, <2>5, <2>6, CountedAll
  <2>8. QED
    BY <1>6, <2>1, <2>7
<1>7. CASE p.kind = "mapping"
  <2> DEFINE sets == [i \in 1..Len(p.keys) |-> MappingPart(p, nested, i)]
             first == Plan(<<Test("mapping", "", 0)>>, <<>>)
  <2>0. Len(p.keys) = Len(p.nested)
    BY <1>1, <1>7 DEF Parsed
  <2>1. CompileFrom(p, nested) = WithBinding(AllPlans(first, sets), RestBinding(p))
    BY <1>7, CompiledParts DEF CompileFrom
  <2>2. Counted(first, 1)
    BY ZenonT(60), TestFacts, NoTests, PlanFacts
  <2>3. \A i \in 1..Len(p.nested) : sets[i] = MappingPart(p, nested, i)
    BY <2>0
  <2>4. sets = [i \in 1..Len(p.nested) |-> sets[i]]
    BY <2>0
  <2>5. ASSUME NEW i \in 1..Len(p.nested) PROVE Counted(MappingPart(p, nested, i), counts[i])
    <3>1. Counted(Plan(<<Test("has", p.keys[i], 0)>>, <<>>), 1)
      BY TestFacts, NoTests, PlanFacts
    <3>2. Counted(Under(Key(p.keys[i]), nested[i]), counts[i])
      BY CountedUnder
    <3>3. Counted(MappingPart(p, nested, i), 1 * counts[i])
      BY <3>1, <3>2, CountedCombined DEF MappingPart
    <3>4. QED
      BY <1>2, <3>3
  <2> HIDE DEF sets, first
  <2>6. IsList(sets) /\ Len(sets) = Len(p.nested)
    BY <1>1, <2>4, ListOf
  <2>7. Counted(AllPlans(first, sets), Product(counts))
    BY <2>2, <2>3, <2>5, <2>6, CountedAll
  <2>8. Counted(WithBinding(AllPlans(first, sets), RestBinding(p)), Product(counts))
    BY <2>7, BindingListsOf, CountedWithBinding DEF BindingList
  <2>9. QED
    BY <1>7, <2>1, <2>8
<1>8. CASE p.kind = "class"
  <2> DEFINE sets == [i \in 1..Len(p.nested) |-> ClassPart(p, nested, i)]
             first == Plan(<<Test("isinstance", p.name, 0)>>, <<>>)
  <2>1. CompileFrom(p, nested) = AllPlans(first, sets)
    BY <1>8, CompiledParts DEF CompileFrom
  <2>2. Counted(first, 1)
    BY TestFacts, NoTests, PlanFacts
  <2>3. \A i \in 1..Len(p.nested) : sets[i] = ClassPart(p, nested, i)
    OBVIOUS
  <2>4. sets = [i \in 1..Len(p.nested) |-> sets[i]]
    OBVIOUS
  <2>5. ASSUME NEW i \in 1..Len(p.nested) PROVE Counted(ClassPart(p, nested, i), counts[i])
    <3>1. CASE OnSubject(p, i)
      BY <3>1 DEF ClassPart
    <3>2. CASE ~OnSubject(p, i)
      <4>1. Counted(Plan(ClassTests(p, i), <<>>), 1)
        BY ClassTestsAre, NoTests, PlanFacts
      <4>2. Counted(Under(Key(Attribute(p, i)), nested[i]), counts[i])
        BY CountedUnder
      <4>3. Counted(ClassPart(p, nested, i), 1 * counts[i])
        BY <3>2, <4>1, <4>2, CountedCombined DEF ClassPart
      <4>4. QED
        BY <1>2, <4>3
    <3>3. QED
      BY <3>1, <3>2
  <2> HIDE DEF sets, first
  <2>6. IsList(sets) /\ Len(sets) = Len(p.nested)
    BY <1>1, <2>4, ListOf
  <2>7. Counted(AllPlans(first, sets), Product(counts))
    BY <2>2, <2>3, <2>5, <2>6, CountedAll
  <2>8. QED
    BY <1>8, <2>1, <2>7
<1>9. QED
  BY <1>1, <1>3, <1>4, <1>5, <1>6, <1>7, <1>8 DEF Parsed

(* Among some patterns there is one with none of them nested in it.         *)
LEMMA ShallowestPattern ==
  ASSUME NEW Bad \in SUBSET Patterns, Bad # {}
  PROVE  \E p \in Bad : \A i \in 1..Len(p.nested) : p.nested[i] \in Patterns /\ p.nested[i] \notin Bad
<1> DEFINE depths == {Depth[p] : p \in Bad}
<1>1. depths \in SUBSET Nat /\ depths # {}
  BY DepthIsBounded
<1>2. PICK d \in depths : \A e \in depths : d <= e
  BY <1>1, LeastNatural
<1>3. PICK p \in Bad : Depth[p] = d
  OBVIOUS
<1>4. ASSUME NEW i \in 1..Len(p.nested), p.nested[i] \in Bad PROVE FALSE
  <2>1. Depth[p.nested[i]] < Depth[p] /\ Depth[p] \in Nat /\ Depth[p.nested[i]] \in Nat
    BY <1>4, DepthIsBounded
  <2>2. Depth[p] <= Depth[p.nested[i]]
    BY <1>2, <1>3, <1>4
  <2>3. QED
    BY <2>1, <2>2
<1>5. QED
  BY <1>4, DepthIsBounded

(* The compiler makes a plan of each alternative, or none above the limit.   *)
LEMMA CompileCounted == \A p \in Patterns : Counted(Compile[p], Alternatives[p])
<1> DEFINE Bad == {p \in Patterns : ~Counted(Compile[p], Alternatives[p])}
<1>1. SUFFICES ASSUME Bad # {} PROVE FALSE
  OBVIOUS
<1>2. Bad \in SUBSET Patterns
  OBVIOUS
<1>3. PICK p \in Bad : \A i \in 1..Len(p.nested) : p.nested[i] \in Patterns /\ p.nested[i] \notin Bad
  <2> HIDE DEF Bad
  <2>1. QED
    BY <1>1, <1>2, ShallowestPattern
<1> DEFINE nested == [i \in 1..Len(p.nested) |-> Compile[p.nested[i]]]
           counts == [i \in 1..Len(p.nested) |-> Alternatives[p.nested[i]]]
<1>4. p \in Patterns /\ Len(p.nested) \in Nat /\ Parsed(p)
  BY ParsedFacts
<1>5. Compile[p] = CompileFrom(p, nested)
  BY <1>4, CompileIs
<1>6. Alternatives[p] = IF p.kind = "or" THEN Total(counts) ELSE Product(counts)
  BY <1>4, AlternativesIs
<1>7. \A i \in 1..Len(p.nested) : nested[i] = Compile[p.nested[i]] /\ counts[i] = Alternatives[p.nested[i]]
  OBVIOUS
<1>8. nested = [i \in 1..Len(p.nested) |-> nested[i]] /\ counts = [i \in 1..Len(p.nested) |-> counts[i]]
  OBVIOUS
<1> HIDE DEF nested, counts
<1>9. IsList(nested) /\ Len(nested) = Len(p.nested) /\ IsList(counts) /\ Len(counts) = Len(p.nested)
  BY <1>4, <1>8, ListOf
<1>10. \A i \in 1..Len(p.nested) : Counted(nested[i], counts[i])
  BY <1>3, <1>7
<1>11. ASSUME p.kind = "sequence", p.star # 0 PROVE counts[p.star] = 1
  <2>1. p.star \in 1..Len(p.nested) /\ p.nested[p.star].kind = "as" /\ p.nested[p.star].nested = <<>>
    BY <1>4, <1>11 DEF Parsed
  <2> DEFINE q == p.nested[p.star]
             none == [i \in 1..Len(q.nested) |-> Alternatives[q.nested[i]]]
  <2>2. q \in Patterns /\ q.kind # "or" /\ Len(q.nested) = 0
    BY <1>4, <2>1, ParsedFacts, Nothing
  <2>3. Alternatives[q] = Product(none)
    BY <2>2, AlternativesIs
  <2>4. none = [i \in 1..0 |-> none[i]]
    BY <2>2
  <2> HIDE DEF none
  <2>5. IsList(none) /\ Len(none) = 0
    BY <2>4, ListOf
  <2>6. QED
    BY <1>7, <2>1, <2>3, <2>5, SmallProducts
<1>12. Counted(CompileFrom(p, nested), IF p.kind = "or" THEN Total(counts) ELSE Product(counts))
  BY <1>4, <1>9, <1>10, <1>11, CountedFrom
<1>13. QED
  BY <1>5, <1>6, <1>12

(* A pattern has no plan exactly when it has too many alternatives.          *)
THEOREM TooManyIs ==
  ASSUME NEW p \in Patterns
  PROVE  /\ IsPlans(Compile[p])
         /\ Compile[p] = TooMany <=> Alternatives[p] > MaxAlternatives
<1>1. Counted(Compile[p], Alternatives[p])
  BY CompileCounted
<1>2. MaxAlternatives \in Nat
  BY MatchAssumption
<1>3. IsPlans(Compile[p]) /\ Alternatives[p] \in Nat /\ Alternatives[p] # 0
  BY <1>1 DEF Counted, Positive
<1>4. CASE Alternatives[p] > MaxAlternatives
  BY <1>1, <1>3, <1>4 DEF Counted
<1>5. CASE ~(Alternatives[p] > MaxAlternatives)
  <2>1. Len(Compile[p]) = Alternatives[p]
    BY <1>1, <1>5 DEF Counted
  <2>2. QED
    BY <1>3, <1>5, <2>1, NotEmpty
<1>6. QED
  BY <1>4, <1>5

-----------------------------------------------------------------------------
(* MatchLowering: the plans find what the pattern matches.                   *)

Agrees(answer, found) ==
  \/ answer = No /\ found = <<>>
  \/ answer = Yes(answer.names) /\ found = <<answer.names>> /\ IsList(answer.names)

(* What agreement of an answer and of what is found says.                   *)
LEMMA AgreesSays ==
  /\ \A answer, found : Agrees(answer, found) =>
       /\ answer.result \in {"yes", "no"} /\ (answer.result = "yes" <=> found # <<>>)
       /\ answer.result = "no" => answer = No /\ answer.names = <<>>
       /\ answer.result = "yes" => answer = Yes(answer.names) /\ found[1] = answer.names
                                   /\ found = <<answer.names>> /\ IsList(answer.names)
  /\ Agrees(No, <<>>)
  /\ \A names : IsList(names) => Agrees(Yes(names), <<names>>)
  /\ \A names : Yes(names).result = "yes" /\ Yes(names).names = names
<1>1. No.result = "no" /\ No.names = <<>>
  BY DEF No
<1>2. \A names : Yes(names).result = "yes" /\ Yes(names).names = names
  BY DEF Yes
<1>3. \A names : IsList(names) => Agrees(Yes(names), <<names>>)
  BY <1>2 DEF Agrees
<1>4. ASSUME NEW answer, NEW found, Agrees(answer, found)
      PROVE  /\ answer.result \in {"yes", "no"} /\ (answer.result = "yes" <=> found # <<>>)
             /\ answer.result = "no" => answer = No /\ answer.names = <<>>
             /\ answer.result = "yes" => answer = Yes(answer.names) /\ found[1] = answer.names
                                         /\ found = <<answer.names>> /\ IsList(answer.names)
  <2>1. CASE answer = No /\ found = <<>>
    BY <1>1, <2>1
  <2>2. CASE answer = Yes(answer.names) /\ found = <<answer.names>> /\ IsList(answer.names)
    <3>1. found # <<>> /\ found[1] = answer.names
      BY <2>2, OneElement
    <3>2. answer.result = "yes"
      BY <1>2, <2>2
    <3>3. QED
      BY <2>2, <3>1, <3>2
  <2>3. QED
    BY <1>4, <2>1, <2>2 DEF Agrees
<1>5. QED
  BY <1>2, <1>3, <1>4 DEF Agrees

(* The answer for several parts is built one part at a time.                *)
LEMMA TogetherIs ==
  ASSUME NEW answers, NEW n \in Nat, IsList(answers), Len(answers) = n,
         \A i \in 1..n : answers[i] = No \/ answers[i].result = "yes"
  PROVE  /\ (\A i \in 1..n : answers[i].result = "yes") =>
              Together(answers) = Yes(FlattenSeq([i \in 1..n |-> answers[i].names]))
         /\ (\E i \in 1..n : answers[i].result # "yes") => Together(answers) = No
<1> DEFINE odd == {i \in 1..n : answers[i].result # "yes"}
<1>1. Together(answers) = IF odd = {} THEN Yes(FlattenSeq([i \in 1..n |-> answers[i].names]))
                          ELSE answers[Min(odd)]
  BY DEF Together
<1>2. ASSUME odd # {} PROVE answers[Min(odd)] = No
  <2>1. odd \in SUBSET Nat
    OBVIOUS
  <2>2. PICK i \in odd : \A j \in odd : i <= j
    BY <1>2, <2>1, LeastNatural
  <2>3. Min(odd) = i
    <3> HIDE DEF odd
    <3>1. QED
      BY <2>1, <2>2, LeastIsMin
  <2>4. QED
    BY <2>3
<1>3. QED
  BY <1>1, <1>2

(* What is found for all parts is what comes of the nested patterns.         *)
LEMMA AllAgree ==
  ASSUME NEW tests, NEW sets, NEW answers, NEW v, NEW n \in Nat, TestList(tests),
         IsList(sets), Len(sets) = n, IsList(answers), Len(answers) = n,
         \A i \in 1..n : IsPlans(sets[i]),
         AllPlans(Plan(tests, <<>>), sets) # TooMany,
         \A i \in 1..Len(tests) : Holds(tests[i], v),
         \A i \in 1..n : Agrees(answers[i], Found(sets[i], v))
  PROVE  Agrees(Together(answers), Found(AllPlans(Plan(tests, <<>>), sets), v))
<1> DEFINE first == Plan(tests, <<>>)
           all == AllPlans(first, sets)
           x == [i \in 1..n |-> Found(sets[i], v)[1]]
           y == [i \in 1..n |-> answers[i].names]
<1>1. IsPlans(first) /\ Found(first, v) = <<<<>>>>
  <2>1. IsPlans(first) /\ Found(first, v) = <<Made(<<>>, v)>>
    BY NoTests, PlanFacts
  <2>2. QED
    BY <2>1, NoTests
<1>2. Found(first, v) # <<>> /\ Found(first, v)[1] = <<>>
  BY <1>1, OneElement
<1> HIDE DEF first
<1>3. /\ (\E i \in 1..n : Found(sets[i], v) = <<>>) => Found(all, v) = <<>>
      /\ (\A i \in 1..n : Found(sets[i], v) # <<>>) => Found(all, v) = <<Found(first, v)[1] \o FlattenSeq(x)>>
  <2>1. AllPlans(first, sets) # TooMany
    BY DEF first
  <2>2. /\ (\E i \in 1..Len(sets) : Found(sets[i], v) = <<>>) => Found(all, v) = <<>>
        /\ (\A i \in 1..Len(sets) : Found(sets[i], v) # <<>>) =>
             Found(all, v) = <<Found(first, v)[1] \o FlattenSeq([i \in 1..Len(sets) |-> Found(sets[i], v)[1]])>>
    BY ZenonT(60), <1>1, <1>2, <2>1, FoundAll
  <2>3. QED
    BY <2>2
<1> HIDE DEF all
<1>4. \A i \in 1..n : answers[i] = No \/ answers[i].result = "yes"
  BY AgreesSays
<1>5. \A i \in 1..n : answers[i].result = "yes" <=> Found(sets[i], v) # <<>>
  BY AgreesSays
<1>6. CASE \E i \in 1..n : Found(sets[i], v) = <<>>
  <2>1. Together(answers) = No
    BY <1>4, <1>5, <1>6, TogetherIs
  <2>2. QED
    BY <1>3, <1>6, <2>1, AgreesSays DEF all, first
<1>7. CASE \A i \in 1..n : Found(sets[i], v) # <<>>
  <2>1. Together(answers) = Yes(FlattenSeq(y))
    BY <1>4, <1>5, <1>7, TogetherIs
  <2>2. \A i \in 1..n : Found(sets[i], v)[1] = answers[i].names /\ IsList(answers[i].names)
    BY <1>5, <1>7, AgreesSays
  <2>3. x = y
    BY <2>2
  <2>4. \A i \in 1..n : IsList(y[i])
    BY <2>2
  <2>5. y = [i \in 1..n |-> y[i]]
    OBVIOUS
  <2> HIDE DEF x, y
  <2>6. IsList(y) /\ Len(y) = n
    BY <2>5, ListOf
  <2>7. IsList(FlattenSeq(y))
    <3>1. IsList(FlattenSeq(FirstOf(y, n)))
      BY <2>4, FlattenIsList
    <3>2. QED
      BY <2>6, <3>1, FrontIs
  <2>8. Found(all, v) = <<FlattenSeq(y)>>
    <3>1. <<>> \o FlattenSeq(y) = FlattenSeq(y)
      BY <2>7, Nothing
    <3>2. QED
      BY <1>2, <1>3, <1>7, <2>3, <3>1
  <2>9. Agrees(Yes(FlattenSeq(y)), <<FlattenSeq(y)>>)
    BY <2>7, AgreesSays
  <2>10. QED
    BY <2>1, <2>8, <2>9 DEF all, first
<1>8. QED
  BY <1>6, <1>7

(* The parts of a value that is not foreign are not foreign either.          *)
LEMMA Native ==
  ASSUME NEW v \in Values, ~Foreign[v]
  PROVE  /\ v.type \notin {"range", "proxy"}
         /\ \A i \in 1..Len(v.parts) : v.parts[i] \in Values /\ ~Foreign[v.parts[i]]
         /\ \A key : Has(v, key) => Get(v, key) \in Values /\ ~Foreign[Get(v, key)]
<1>1. v.type \notin {"range", "proxy"} /\ \A i \in 1..Len(v.parts) : ~Foreign[v.parts[i]]
  BY ForeignIs
<1>2. \A i \in 1..Len(v.parts) : v.parts[i] \in Values
  BY DepthIsBounded
<1>3. ASSUME NEW key, Has(v, key)
      PROVE  \E i \in 1..Len(v.parts) : Get(v, key) = v.parts[i]
  <2>1. v.keys \in Seq(STRING) /\ (v.keys = <<>> \/ Len(v.keys) = Len(v.parts))
    BY MatchAssumption
  <2>2. DOMAIN v.keys = 1..Len(v.keys)
    BY <2>1, LenProperties
  <2>3. \E i \in 1..Len(v.keys) : v.keys[i] = key
    BY <1>3, <2>2 DEF Has, Range
  <2>4. v.keys # <<>>
    BY <2>3, Nothing
  <2>5. PICK i \in 1..Len(v.keys) : Get(v, key) = v.parts[i]
    BY <2>3 DEF Get
  <2>6. QED
    BY <2>1, <2>4, <2>5
<1>4. QED
  BY <1>1, <1>2, <1>3

(* The parts of a pattern without a gap are without one.                    *)
LEMMA Proven ==
  ASSUME NEW p \in Patterns, ~Unproven[p]
  PROVE  /\ \A i \in 1..Len(p.nested) : ~Unproven[p.nested[i]]
         /\ p.kind = "class" =>
              Positional(p) <= Len(MatchArgs(p.name)) \/ (p.name \in Builtins /\ Positional(p) = 1)
<1>1. /\ ~(p.kind = "class" /\ Positional(p) > Len(MatchArgs(p.name))
             /\ ~(p.name \in Builtins /\ Positional(p) = 1))
      /\ \A i \in 1..Len(p.nested) : ~Unproven[p.nested[i]]
  BY UnprovenIs
<1>2. ASSUME p.kind = "class" PROVE Positional(p) \in Int /\ Len(MatchArgs(p.name)) \in Nat
  <2>1. Parsed(p) /\ Len(p.nested) \in Nat
    BY ParsedFacts
  <2>2. p.keys \in Seq(STRING)
    BY <1>2, <2>1 DEF Parsed
  <2>3. Len(p.keys) \in Nat
    BY <2>2, LenProperties
  <2>4. Len(MatchArgs(p.name)) \in Nat
    BY OneElement, Nothing DEF MatchArgs
  <2>5. QED
    BY <2>1, <2>3, <2>4 DEF Positional
<1>3. QED
  BY <1>1, <1>2

(* A part with a key: the key is there, and what is behind it matches.       *)
LEMMA BehindAgrees ==
  ASSUME NEW tests, NEW plans, NEW key, NEW answers, NEW v, TestList(tests), IsPlans(plans),
         CombinePlanSets(Plan(tests, <<>>), Under(Key(key), plans)) # TooMany,
         (\A i \in 1..Len(tests) : Holds(tests[i], v)) <=> Has(v, key),
         Has(v, key) /\ plans # TooMany => Agrees(answers[Get(v, key)], Found(plans, Get(v, key)))
  PROVE  Agrees(Behind(key, v, answers),
                Found(CombinePlanSets(Plan(tests, <<>>), Under(Key(key), plans)), v))
<1> DEFINE first == Plan(tests, <<>>)
           deep == Under(Key(key), plans)
           both == CombinePlanSets(first, deep)
<1>1. IsPlans(first) /\ Found(first, v) = IF Has(v, key) THEN <<<<>>>> ELSE <<>>
  <2>1. IsPlans(first) /\ Found(first, v) = IF \A i \in 1..Len(tests) : Holds(tests[i], v)
                                            THEN <<Made(<<>>, v)>> ELSE <<>>
    BY NoTests, PlanFacts
  <2>2. QED
    BY <2>1, NoTests
<1>2. IsPlans(deep) /\ Len(deep) = Len(plans) /\ Found(deep, v) = Found(plans, PartAt(v, Key(key)))
  BY FoundUnder
<1>3. PartAt(v, Key(key)) = Get(v, key)
  BY DEF PartAt, Key
<1>4. CombinePlanSets(first, deep) # TooMany
  OBVIOUS
<1> HIDE DEF first, deep
<1>5. deep # TooMany /\ Found(both, v) = Pair(Found(first, v), Found(deep, v))
  BY <1>1, <1>2, <1>4, CombineKeeps, FoundCombined
<1>6. plans # TooMany
  BY <1>2, <1>5, NotEmpty
<1>7. CASE ~Has(v, key)
  <2>1. Behind(key, v, answers) = No
    BY <1>7 DEF Behind
  <2>2. Found(both, v) = <<>>
    BY <1>1, <1>5, <1>7 DEF Pair
  <2>3. QED
    BY <2>1, <2>2, AgreesSays DEF first, deep
<1>8. CASE Has(v, key)
  <2> DEFINE answer == answers[Get(v, key)]
             f == Found(deep, v)
  <2>1. Behind(key, v, answers) = answer
    BY <1>8 DEF Behind
  <2>2. Agrees(answer, f)
    BY <1>2, <1>3, <1>6, <1>8
  <2>3. Found(first, v) = <<<<>>>> /\ Found(first, v) # <<>> /\ Found(first, v)[1] = <<>>
    BY <1>1, <1>8, OneElement
  <2> HIDE DEF answer, f
  <2>4. Found(both, v) = f
    <3>1. CASE f = <<>>
      BY <1>5, <3>1 DEF Pair, f
    <3>2. CASE f # <<>>
      <4>1. f = <<answer.names>> /\ f[1] = answer.names /\ IsList(answer.names)
        BY <2>2, <3>2, AgreesSays
      <4>2. <<>> \o f[1] = f[1]
        BY <4>1, Nothing
      <4>3. Found(both, v) = <<<<>> \o f[1]>>
        BY <1>5, <2>3, <3>2 DEF Pair, f
      <4>4. QED
        BY <4>1, <4>2, <4>3
    <3>3. QED
      BY <3>1, <3>2
  <2>5. QED
    BY <2>1, <2>2, <2>4 DEF first, deep
<1>9. QED
  BY <1>7, <1>8

(* Names bound after those of a pattern.                                     *)
LEMMA AndBindAgrees ==
  ASSUME NEW plans, NEW bindings, NEW v, NEW answer, NEW names, IsPlans(plans),
         BindingList(bindings), Made(bindings, v) = names, Agrees(answer, Found(plans, v))
  PROVE  Agrees(AndBind(answer, names), Found(WithBinding(plans, bindings), v))
<1>1. Found(WithBinding(plans, bindings), v) = Pair(Found(plans, v), <<names>>)
  BY FoundWithBinding DEF BindingList
<1>2. IsList(names)
  BY MadeIs DEF BindingList
<1>3. CASE answer.result = "yes"
  <2>1. answer = Yes(answer.names) /\ Found(plans, v)[1] = answer.names
        /\ Found(plans, v) # <<>> /\ IsList(answer.names)
    BY <1>3, AgreesSays
  <2>2. <<names>> # <<>> /\ <<names>>[1] = names
    BY OneElement
  <2>3. Found(WithBinding(plans, bindings), v) = <<answer.names \o names>>
    BY <1>1, <2>1, <2>2 DEF Pair
  <2>4. AndBind(answer, names) = Yes(answer.names \o names)
    BY <1>3 DEF AndBind
  <2>5. IsList(answer.names \o names)
    BY <1>2, <2>1, Joined
  <2>6. QED
    BY ZenonT(60), <2>3, <2>4, <2>5, AgreesSays
<1>4. CASE answer.result # "yes"
  <2>1. answer = No /\ Found(plans, v) = <<>>
    BY <1>4, AgreesSays
  <2>2. AndBind(answer, names) = No
    BY <1>4, <2>1 DEF AndBind
  <2>3. Found(WithBinding(plans, bindings), v) = <<>>
    BY <1>1, <2>1 DEF Pair
  <2>4. QED
    BY <2>2, <2>3, AgreesSays
<1>5. QED
  BY <1>3, <1>4

(* The hypothesis about nested patterns, by which a pattern is about v.      *)
NestedAgree(p, nested, matching) ==
  /\ IsList(nested) /\ Len(nested) = Len(p.nested) /\ IsList(matching) /\ Len(matching) = Len(p.nested)
  /\ \A i \in 1..Len(p.nested) :
       /\ IsPlans(nested[i])
       /\ \A w \in Values : ~Foreign[w] /\ nested[i] # TooMany => Agrees(matching[i][w], Found(nested[i], w))

SequenceAnswer(p, matching, v, i) ==
  IF i = p.star
  THEN Yes(IF p.nested[i].name = "" THEN <<>>
           ELSE <<<<p.nested[i].name, SliceOf(v, i, Len(p.nested) - i)>>>>)
  ELSE matching[i][v.parts[IF p.star # 0 /\ i > p.star THEN i + (Len(v.parts) - Len(p.nested)) ELSE i]]

(* Counted from the end, a part after the star is where it is in the whole.  *)
LEMMA ItemIndex ==
  ASSUME NEW n \in Nat, NEW m \in Nat, NEW star \in 0..n, NEW i \in 1..n, i # star,
         m - n = 0 \/ (star # 0 /\ m - n >= -1)
  PROVE  LET k == IF star # 0 /\ i > star THEN i + (m - n) ELSE i
             j == IF star # 0 /\ i > star THEN i - n - 1 ELSE i
         IN  k \in 1..m /\ (IF j > 0 THEN j ELSE m + 1 + j) = k
<1>1. CASE star # 0 /\ i > star
  <2>1. i + (m - n) \in 1..m /\ ~(i - n - 1 > 0) /\ m + 1 + (i - n - 1) = i + (m - n)
    BY <1>1
  <2>2. QED
    BY <1>1, <2>1
<1>2. CASE ~(star # 0 /\ i > star)
  <2>1. i \in 1..m /\ i > 0
    BY <1>2
  <2>2. QED
    BY <1>2, <2>1
<1>3. QED
  BY <1>1, <1>2

(* The plans of a sequence pattern find what CPython matches when those of  *)
(* its parts do.                                                            *)
LEMMA SequenceAgrees ==
  ASSUME NEW p \in Patterns, NEW v \in Values, NEW nested, NEW matching, ~Foreign[v],
         p.kind = "sequence", NestedAgree(p, nested, matching), CompileSequence(p, nested) # TooMany
  PROVE  Agrees(MatchSequence(p, matching, v), Found(CompileSequence(p, nested), v))
<1> DEFINE n == Len(p.nested)
           m == Len(v.parts)
           first == Plan(SequenceTests(p), <<>>)
           sets == [i \in 1..n |-> SequencePart(p, nested, i)]
           answers == [i \in 1..n |-> SequenceAnswer(p, matching, v, i)]
           Fits == v.type \in SequenceTypes /\ (m - n = 0 \/ (p.star # 0 /\ m - n >= -1))
<1>1. n \in Nat /\ p.star \in 0..n /\ m \in Nat
  <2>1. Parsed(p) /\ n \in Nat
    BY ParsedFacts
  <2>2. v.parts \in Seq(Values)
    BY MatchAssumption
  <2>3. QED
    BY <2>1, <2>2, LenProperties DEF Parsed
<1>2. CompileSequence(p, nested) = AllPlans(first, sets)
  BY CompiledParts
<1>3. MatchSequence(p, matching, v) = IF Fits THEN Together(answers) ELSE No
  BY DEF MatchSequence, SequenceAnswer
<1>4. \A i \in 1..n : sets[i] = SequencePart(p, nested, i) /\ answers[i] = SequenceAnswer(p, matching, v, i)
  OBVIOUS
<1>5. sets = [i \in 1..n |-> sets[i]] /\ answers = [i \in 1..n |-> answers[i]]
  OBVIOUS
<1> HIDE DEF sets, answers
<1>6. IsList(sets) /\ Len(sets) = n /\ IsList(answers) /\ Len(answers) = n
  BY <1>1, <1>5, ListOf
<1>7. ASSUME NEW i \in 1..n PROVE IsPlans(SequencePart(p, nested, i))
  <2>1. CASE i = p.star
    BY <2>1, NoTests, BindingListsOf, PlanFacts DEF SequencePart
  <2>2. CASE i # p.star
    BY <2>2, FoundUnder DEF SequencePart, NestedAgree
  <2>3. QED
    BY <2>1, <2>2
<1>8. (\A i \in 1..Len(SequenceTests(p)) : Holds(SequenceTests(p)[i], v)) <=> Fits
  <2>1. (\A i \in 1..Len(SequenceTests(p)) : Holds(SequenceTests(p)[i], v)) <=>
           /\ v.type \in {"list", "tuple"}
           /\ IF p.star = 0 THEN m = n ELSE m >= n - 1
    BY SequenceTestsHold
  <2>2. v.type \in {"list", "tuple"} <=> v.type \in SequenceTypes
    BY Native DEF SequenceTypes
  <2>3. (IF p.star = 0 THEN m = n ELSE m >= n - 1) <=> (m - n = 0 \/ (p.star # 0 /\ m - n >= -1))
    BY <1>1
  <2>4. QED
    BY <2>1, <2>2, <2>3
<1>9. IsPlans(first) /\ Found(first, v) = IF Fits THEN <<Made(<<>>, v)>> ELSE <<>>
  BY <1>8, SequenceTestsHold, NoTests, PlanFacts
<1>10. AllPlans(first, sets) # TooMany
  BY <1>2
<1>11. CASE ~Fits
  <2>1. Found(first, v) = <<>>
    BY <1>9, <1>11
  <2> HIDE DEF first
  <2>2. Found(AllPlans(first, sets), v) = <<>>
    BY <1>4, <1>6, <1>7, <1>9, <1>10, <2>1, FoundAll
  <2>3. QED
    BY <1>2, <1>3, <1>11, <2>2, AgreesSays
<1>12. CASE Fits
  <2>1. \A i \in 1..n : sets[i] # TooMany
    <3> HIDE DEF first
    <3>1. QED
      BY <1>4, <1>6, <1>7, <1>9, <1>10, FoundAll
  <2>2. ASSUME NEW i \in 1..n
        PROVE  Agrees(SequenceAnswer(p, matching, v, i), Found(SequencePart(p, nested, i), v))
    <3>1. CASE i = p.star
      <4> DEFINE name == p.nested[i].name
                 names == IF name = "" THEN <<>> ELSE <<<<name, SliceOf(v, i, n - i)>>>>
      <4>1. SequencePart(p, nested, i) = Plan(<<>>, StarBinding(p, i)) /\ SequenceAnswer(p, matching, v, i) = Yes(names)
        BY <3>1 DEF SequencePart, SequenceAnswer
      <4>2. Found(Plan(<<>>, StarBinding(p, i)), v) = <<Made(StarBinding(p, i), v)>>
        <5>1. \A j \in 1..Len(<<>>) : Holds(<<>>[j], v)
          BY Nothing
        <5>2. QED
          BY <5>1, NoTests, BindingListsOf, PlanFacts
      <4>3. Made(StarBinding(p, i), v) = names
        <5>1. CASE name = ""
          BY <5>1, NoTests DEF StarBinding
        <5>2. CASE name # ""
          <6>1. i # Whole /\ i # Without
            BY <1>1 DEF Whole, Without
          <6>2. Made(<<Binding(name, i, n - i)>>, v)
                  = <<<<name, CASE i = Whole -> v
                                [] i = Without -> Rest(v, n - i)
                                [] OTHER -> SliceOf(v, i, n - i)>>>>
            BY BindingFacts
          <6>3. StarBinding(p, i) = <<Binding(name, i, n - i)>>
            BY <5>2 DEF StarBinding
          <6>4. QED
            BY <5>2, <6>1, <6>2, <6>3
        <5>3. QED
          BY <5>1, <5>2
      <4>4. IsList(names)
        BY Nothing, OneElement
      <4> HIDE DEF names
      <4>5. QED
        BY <4>1, <4>2, <4>3, <4>4, AgreesSays
    <3>2. CASE i # p.star
      <4> DEFINE k == IF p.star # 0 /\ i > p.star THEN i + (m - n) ELSE i
                 step == ItemOf(p, i)
      <4>1. SequencePart(p, nested, i) = Under(step, nested[i])
            /\ SequenceAnswer(p, matching, v, i) = matching[i][v.parts[k]]
        BY <3>2 DEF SequencePart, SequenceAnswer
      <4>2. IsPlans(nested[i])
        BY DEF NestedAgree
      <4>3. /\ IsPlans(Under(step, nested[i])) /\ Len(Under(step, nested[i])) = Len(nested[i])
            /\ Found(Under(step, nested[i]), v) = Found(nested[i], PartAt(v, step))
        BY ZenonT(60), <4>2, FoundUnder
      <4>4. nested[i] # TooMany
        <5>1. Under(step, nested[i]) # TooMany
          BY <1>4, <2>1, <4>1
        <5>2. QED
          BY <4>2, <4>3, <5>1, NotEmpty
      <4> DEFINE j == IF p.star # 0 /\ i > p.star THEN i - n - 1 ELSE i
      <4>5. k \in 1..m /\ (IF j > 0 THEN j ELSE m + 1 + j) = k
        <5> HIDE DEF n, m
        <5>1. n \in Nat /\ m \in Nat /\ p.star \in 0..n /\ i \in 1..n /\ i # p.star
              /\ (m - n = 0 \/ (p.star # 0 /\ m - n >= -1))
          BY <1>1, <1>12, <3>2 DEF n
        <5>2. QED
          BY <5>1, ItemIndex
      <4>6. PartAt(v, step) = v.parts[k]
        <5>1. step = <<"item", j>>
          BY DEF ItemOf, Item
        <5>2. step[1] = "item" /\ step[2] = j
          BY <5>1
        <5> HIDE DEF step, j, k
        <5>3. QED
          BY <4>5, <5>2 DEF PartAt
      <4>7. v.parts[k] \in Values /\ ~Foreign[v.parts[k]]
        BY <4>5, Native
      <4> HIDE DEF k, step, j
      <4>8. Agrees(matching[i][v.parts[k]], Found(nested[i], v.parts[k]))
        BY <4>4, <4>7 DEF NestedAgree
      <4>9. QED
        BY <4>1, <4>3, <4>6, <4>8
    <3>3. QED
      BY <3>1, <3>2
  <2>3. \A i \in 1..n : Agrees(answers[i], Found(sets[i], v))
    BY <1>4, <2>2
  <2>4. \A i \in 1..n : IsPlans(sets[i])
    BY <1>4, <1>7
  <2>5. \A i \in 1..Len(SequenceTests(p)) : Holds(SequenceTests(p)[i], v)
    BY <1>8, <1>12
  <2>6. Agrees(Together(answers), Found(AllPlans(first, sets), v))
    BY <1>1, <1>6, <1>10, <2>3, <2>4, <2>5, AllAgree, SequenceTestsHold
  <2>7. QED
    BY <1>2, <1>3, <1>12, <2>6
<1>13. QED
  BY <1>11, <1>12

(* The same for a mapping pattern.                                          *)
LEMMA MappingAgrees ==
  ASSUME NEW p \in Patterns, NEW v \in Values, NEW nested, NEW matching, ~Foreign[v],
         p.kind = "mapping", NestedAgree(p, nested, matching), CompileMapping(p, nested) # TooMany
  PROVE  Agrees(MatchMapping(p, matching, v), Found(CompileMapping(p, nested), v))
<1> DEFINE n == Len(p.nested)
           tests == <<Test("mapping", "", 0)>>
           first == Plan(tests, <<>>)
           sets == [i \in 1..n |-> MappingPart(p, nested, i)]
           answers == [i \in 1..n |-> Behind(p.keys[i], v, matching[i])]
           names == IF p.name = "" THEN <<>> ELSE <<<<p.name, Rest(v, p.keys)>>>>
           all == AllPlans(first, sets)
<1>1. n \in Nat /\ Len(p.keys) = n
  BY ParsedFacts DEF Parsed
<1>2. CompileMapping(p, nested) = WithBinding(all, RestBinding(p))
  BY <1>1, CompiledParts
<1>3. MatchMapping(p, matching, v)
        = IF v.type \notin MappingTypes THEN No ELSE AndBind(Together(answers), names)
  BY <1>1 DEF MatchMapping
<1>4. \A i \in 1..n : sets[i] = MappingPart(p, nested, i) /\ answers[i] = Behind(p.keys[i], v, matching[i])
  OBVIOUS
<1>5. sets = [i \in 1..n |-> sets[i]] /\ answers = [i \in 1..n |-> answers[i]]
  OBVIOUS
<1> HIDE DEF sets, answers
<1>6. IsList(sets) /\ Len(sets) = n /\ IsList(answers) /\ Len(answers) = n
  BY <1>1, <1>5, ListOf
<1>7. ASSUME NEW i \in 1..n PROVE IsPlans(MappingPart(p, nested, i))
  <2>1. IsPlans(Plan(<<Test("has", p.keys[i], 0)>>, <<>>))
    BY TestFacts, NoTests, PlanFacts
  <2>2. IsPlans(Under(Key(p.keys[i]), nested[i]))
    BY FoundUnder DEF NestedAgree
  <2>3. QED
    BY <2>1, <2>2, CombineKeeps DEF MappingPart
<1>8. TestList(tests) /\ ((\A i \in 1..Len(tests) : Holds(tests[i], v)) <=> v.type = "dict")
  <2>1. TestList(tests)
    BY TestFacts
  <2>2. (\A i \in 1..Len(tests) : Holds(tests[i], v)) <=> v.type = "dict"
    BY OneTestHolds
  <2>3. QED
    BY <2>1, <2>2
<1>9. v.type \in MappingTypes <=> v.type = "dict"
  BY Native DEF MappingTypes
<1> HIDE DEF tests
<1>10. IsPlans(first) /\ Found(first, v) = IF v.type = "dict" THEN <<Made(<<>>, v)>> ELSE <<>>
  BY <1>8, NoTests, PlanFacts
<1>11. \A i \in 1..n : IsPlans(sets[i])
  BY <1>4, <1>7
<1>12. IsPlans(all)
  <2> HIDE DEF first
  <2>1. QED
    BY <1>6, <1>10, <1>11, FoundAll
<1>13. BindingList(RestBinding(p)) /\ Made(RestBinding(p), v) = names
  <2>1. CASE p.name = ""
    BY <2>1, NoTests DEF RestBinding
  <2>2. CASE p.name # ""
    <3>1. Made(<<Binding(p.name, Without, p.keys)>>, v)
            = <<<<p.name, CASE Without = Whole -> v
                            [] Without = Without -> Rest(v, p.keys)
                            [] OTHER -> SliceOf(v, Without, p.keys)>>>>
      BY BindingFacts
    <3>2. Without # Whole
      BY DEF Without, Whole
    <3>3. QED
      BY <2>2, <3>1, <3>2, BindingListsOf DEF RestBinding
  <2>3. QED
    BY <2>1, <2>2
<1>14. all # TooMany
  <2>1. Len(WithBinding(all, RestBinding(p))) = Len(all) /\ IsPlans(WithBinding(all, RestBinding(p)))
    BY <1>12, <1>13, FoundWithBinding DEF BindingList
  <2>2. QED
    BY <1>2, <1>12, <2>1, NotEmpty
<1>15. CASE v.type # "dict"
  <2>1. Found(first, v) = <<>>
    BY <1>10, <1>15
  <2>2. Found(all, v) = <<>>
    <3> HIDE DEF first
    <3>1. QED
      BY <1>6, <1>10, <1>11, <1>14, <2>1, FoundAll
  <2>3. Found(WithBinding(all, RestBinding(p)), v) = Pair(Found(all, v), <<names>>)
    BY ZenonT(60), <1>12, <1>13, FoundWithBinding DEF BindingList
  <2>4. Found(WithBinding(all, RestBinding(p)), v) = <<>>
    BY <2>2, <2>3 DEF Pair
  <2>5. QED
    BY <1>2, <1>3, <1>9, <1>15, <2>4, AgreesSays
<1>16. CASE v.type = "dict"
  <2>1. \A i \in 1..n : sets[i] # TooMany
    <3> HIDE DEF first
    <3>1. QED
      BY <1>6, <1>10, <1>11, <1>14, FoundAll
  <2>2. ASSUME NEW i \in 1..n
        PROVE  Agrees(Behind(p.keys[i], v, matching[i]), Found(MappingPart(p, nested, i), v))
    <3> DEFINE key == p.keys[i]
               own == <<Test("has", key, 0)>>
    <3>1. TestList(own) /\ ((\A j \in 1..Len(own) : Holds(own[j], v)) <=> Has(v, key))
      BY TestFacts, OneTestHolds
    <3>2. IsPlans(nested[i])
      BY DEF NestedAgree
    <3>3. CombinePlanSets(Plan(own, <<>>), Under(Key(key), nested[i])) # TooMany
      BY <1>4, <2>1 DEF MappingPart
    <3>4. Has(v, key) /\ nested[i] # TooMany => Agrees(matching[i][Get(v, key)], Found(nested[i], Get(v, key)))
      BY Native DEF NestedAgree
    <3>5. MappingPart(p, nested, i) = CombinePlanSets(Plan(own, <<>>), Under(Key(key), nested[i]))
      BY DEF MappingPart
    <3> HIDE DEF own
    <3>6. QED
      BY <3>1, <3>2, <3>3, <3>4, <3>5, BehindAgrees
  <2>3. \A i \in 1..n : Agrees(answers[i], Found(sets[i], v))
    BY <1>4, <2>2
  <2>4. \A i \in 1..Len(tests) : Holds(tests[i], v)
    BY <1>8, <1>16
  <2>5. Agrees(Together(answers), Found(all, v))
    BY <1>1, <1>6, <1>8, <1>11, <1>14, <2>3, <2>4, AllAgree
  <2>6. Agrees(AndBind(Together(answers), names), Found(WithBinding(all, RestBinding(p)), v))
    <3> HIDE DEF all, names
    <3>1. QED
      BY <1>12, <1>13, <2>5, AndBindAgrees
  <2>7. QED
    BY <1>2, <1>3, <1>9, <1>16, <2>6
<1>17. QED
  BY <1>15, <1>16

ClassAnswer(p, matching, v, i) ==
  IF i > Positional(p) THEN Behind(p.keys[i - Positional(p)], v, matching[i])
  ELSE IF Selfish(p.name) THEN matching[i][v]
  ELSE Behind(MatchArgs(p.name)[i], v, matching[i])

(* A class has at most one name for positional patterns.                    *)
LEMMA MatchArgsIs ==
  ASSUME NEW name
  PROVE  /\ Len(MatchArgs(name)) \in Nat
         /\ Selfish(name) => Len(MatchArgs(name)) = 0
<1>1. Len(<<"px">>) = 1 /\ Len(<<>>) = 0
  BY OneElement, Nothing
<1>2. QED
  BY <1>1 DEF MatchArgs, Selfish, Builtins

(* The same for a class pattern.                                            *)
LEMMA ClassAgrees ==
  ASSUME NEW p \in Patterns, NEW v \in Values, NEW nested, NEW matching, ~Foreign[v], ~Unproven[p],
         p.kind = "class", NestedAgree(p, nested, matching), CompileClass(p, nested) # TooMany
  PROVE  Agrees(MatchClass(p, matching, v), Found(CompileClass(p, nested), v))
<1> DEFINE n == Len(p.nested)
           tests == <<Test("isinstance", p.name, 0)>>
           first == Plan(tests, <<>>)
           sets == [i \in 1..n |-> ClassPart(p, nested, i)]
           answers == [i \in 1..n |-> ClassAnswer(p, matching, v, i)]
           all == AllPlans(first, sets)
<1>1. n \in Nat /\ Positional(p) \in Int
  <2>1. Parsed(p) /\ n \in Nat
    BY ParsedFacts
  <2>2. p.keys \in Seq(STRING)
    BY <2>1 DEF Parsed
  <2>3. Len(p.keys) \in Nat
    BY <2>2, LenProperties
  <2>4. QED
    BY <2>1, <2>3 DEF Positional
<1>2. CompileClass(p, nested) = all
  BY CompiledParts
<1>3. Positional(p) <= Len(MatchArgs(p.name)) \/ (p.name \in Builtins /\ Positional(p) = 1)
  BY Proven
<1>4. ~(Positional(p) > (IF Selfish(p.name) THEN 1 ELSE Len(MatchArgs(p.name))))
  <2>1. CASE Selfish(p.name)
    BY <1>1, <1>3, <2>1, MatchArgsIs
  <2>2. CASE ~Selfish(p.name)
    <3>1. p.name \notin Builtins
      BY <2>2 DEF Selfish
    <3>2. QED
      BY <1>1, <1>3, <2>2, <3>1, MatchArgsIs
  <2>3. QED
    BY <2>1, <2>2
<1>5. MatchClass(p, matching, v) = IF IsInstance(v, p.name) THEN Together(answers) ELSE No
  <2>1. Len(p.nested) - Len(p.keys) = Positional(p)
    BY DEF Positional
  <2>2. QED
    BY <1>4, <2>1 DEF MatchClass, ClassAnswer
<1>6. \A i \in 1..n : sets[i] = ClassPart(p, nested, i) /\ answers[i] = ClassAnswer(p, matching, v, i)
  OBVIOUS
<1>7. sets = [i \in 1..n |-> sets[i]] /\ answers = [i \in 1..n |-> answers[i]]
  OBVIOUS
<1> HIDE DEF sets, answers
<1>8. IsList(sets) /\ Len(sets) = n /\ IsList(answers) /\ Len(answers) = n
  BY <1>1, <1>7, ListOf
<1>9. ASSUME NEW i \in 1..n PROVE IsPlans(ClassPart(p, nested, i))
  <2>1. IsPlans(nested[i])
    BY DEF NestedAgree
  <2>2. IsPlans(Plan(ClassTests(p, i), <<>>))
    BY ClassTestsAre, NoTests, PlanFacts
  <2>3. IsPlans(Under(Key(Attribute(p, i)), nested[i]))
    BY <2>1, FoundUnder
  <2>4. QED
    BY <2>1, <2>2, <2>3, CombineKeeps DEF ClassPart
<1>10. TestList(tests) /\ ((\A i \in 1..Len(tests) : Holds(tests[i], v)) <=> IsInstance(v, p.name))
  <2>1. TestList(tests)
    BY TestFacts
  <2>2. (\A i \in 1..Len(tests) : Holds(tests[i], v)) <=> IsInstance(v, p.name)
    BY OneTestHolds
  <2>3. QED
    BY <2>1, <2>2
<1> HIDE DEF tests
<1>11. IsPlans(first) /\ Found(first, v) = IF IsInstance(v, p.name) THEN <<Made(<<>>, v)>> ELSE <<>>
  BY <1>10, NoTests, PlanFacts
<1>12. \A i \in 1..n : IsPlans(sets[i])
  BY <1>6, <1>9
<1>13. all # TooMany
  BY <1>2
<1>14. CASE ~IsInstance(v, p.name)
  <2>1. Found(first, v) = <<>>
    BY <1>11, <1>14
  <2>2. Found(all, v) = <<>>
    <3> HIDE DEF first
    <3>1. QED
      BY <1>8, <1>11, <1>12, <1>13, <2>1, FoundAll
  <2>3. QED
    BY <1>2, <1>5, <1>14, <2>2, AgreesSays
<1>15. CASE IsInstance(v, p.name)
  <2>1. \A i \in 1..n : sets[i] # TooMany
    <3> HIDE DEF first
    <3>1. QED
      BY <1>8, <1>11, <1>12, <1>13, FoundAll
  <2>2. ASSUME NEW i \in 1..n
        PROVE  Agrees(ClassAnswer(p, matching, v, i), Found(ClassPart(p, nested, i), v))
    <3>1. IsPlans(nested[i]) /\ ClassPart(p, nested, i) # TooMany
      BY <1>6, <2>1 DEF NestedAgree
    <3>2. CASE OnSubject(p, i)
      <4>1. Selfish(p.name) /\ ~(i > Positional(p))
        BY <1>1, <3>2 DEF OnSubject, Selfish
      <4>2. ClassAnswer(p, matching, v, i) = matching[i][v] /\ ClassPart(p, nested, i) = nested[i]
        BY <3>2, <4>1 DEF ClassAnswer, ClassPart
      <4>3. QED
        BY <3>1, <4>2 DEF NestedAgree
    <3>3. CASE ~OnSubject(p, i)
      <4> DEFINE key == Attribute(p, i)
                 own == ClassTests(p, i)
      <4>1. i <= Positional(p) => Len(MatchArgs(p.name)) >= i /\ ~Selfish(p.name)
        <5>1. ASSUME i <= Positional(p) PROVE Len(MatchArgs(p.name)) >= i /\ ~Selfish(p.name)
          <6>1. Positional(p) <= Len(MatchArgs(p.name))
            BY <1>3, <3>3, <5>1 DEF OnSubject
          <6>2. Len(MatchArgs(p.name)) \in Nat /\ (Selfish(p.name) => Len(MatchArgs(p.name)) = 0)
            BY MatchArgsIs
          <6>3. QED
            BY <1>1, <5>1, <6>1, <6>2
        <5>2. QED
          BY <5>1
      <4>2. ClassAnswer(p, matching, v, i) = Behind(key, v, matching[i])
        <5>1. CASE i > Positional(p)
          BY <5>1 DEF ClassAnswer, Attribute
        <5>2. CASE ~(i > Positional(p))
          <6>1. i <= Positional(p) /\ i <= Len(MatchArgs(p.name)) /\ ~Selfish(p.name)
            <7>1. Len(MatchArgs(p.name)) \in Nat
              BY MatchArgsIs
            <7>2. QED
              BY <1>1, <4>1, <5>2, <7>1
          <6>2. key = MatchArgs(p.name)[i]
            BY <5>2, <6>1 DEF Attribute
          <6>3. QED
            BY <5>2, <6>1, <6>2 DEF ClassAnswer
        <5>3. QED
          BY <5>1, <5>2
      <4>3. ClassPart(p, nested, i) = CombinePlanSets(Plan(own, <<>>), Under(Key(key), nested[i]))
        BY <3>3 DEF ClassPart
      <4>4. TestList(own) /\ ((\A j \in 1..Len(own) : Holds(own[j], v)) <=> Has(v, key))
        <5>1. TestList(own)
          BY ClassTestsAre
        <5>2. (\A j \in 1..Len(own) : Holds(own[j], v)) <=>
                 (i <= Positional(p) => Len(MatchArgs(p.name)) >= i) /\ Has(v, key)
          BY ClassTestsAre
        <5>3. QED
          BY <4>1, <5>1, <5>2
      <4>5. CombinePlanSets(Plan(own, <<>>), Under(Key(key), nested[i])) # TooMany
        BY <3>1, <4>3
      <4>6. Has(v, key) /\ nested[i] # TooMany => Agrees(matching[i][Get(v, key)], Found(nested[i], Get(v, key)))
        BY Native DEF NestedAgree
      <4> HIDE DEF own, key
      <4>7. Agrees(Behind(key, v, matching[i]), Found(CombinePlanSets(Plan(own, <<>>), Under(Key(key), nested[i])), v))
        BY <3>1, <4>4, <4>5, <4>6, BehindAgrees
      <4>8. QED
        BY <4>2, <4>3, <4>7
    <3>4. QED
      BY <3>2, <3>3
  <2>3. \A i \in 1..n : Agrees(answers[i], Found(sets[i], v))
    BY <1>6, <2>2
  <2>4. \A i \in 1..Len(tests) : Holds(tests[i], v)
    BY <1>10, <1>15
  <2>5. Agrees(Together(answers), Found(all, v))
    BY <1>1, <1>8, <1>10, <1>12, <1>13, <2>3, <2>4, AllAgree
  <2>6. QED
    BY <1>2, <1>5, <1>15, <2>5
<1>16. QED
  BY <1>14, <1>15

(* An or-pattern commits to the first alternative that matches.              *)
LEMMA OrAgrees ==
  ASSUME NEW p \in Patterns, NEW v \in Values, NEW nested, NEW matching, ~Foreign[v],
         p.kind = "or", NestedAgree(p, nested, matching), CompileFrom(p, nested) # TooMany
  PROVE  Agrees(MatchingFrom(p, matching, v), Found(CompileFrom(p, nested), v))
<1> DEFINE n == Len(p.nested)
           ends == {i \in 1..n : matching[i][v].result # "no"}
<1>1. n \in Nat /\ n # 0
  <2>1. p.nested # <<>> /\ p.nested \in Seq(Patterns) /\ n \in Nat
    BY ParsedFacts DEF Parsed
  <2>2. QED
    BY <2>1, SeqIsList, Nothing
<1>2. CompileFrom(p, nested) = AnyPlan(nested)
  BY DEF CompileFrom
<1>3. MatchingFrom(p, matching, v) = IF ends = {} THEN No ELSE matching[Min(ends)][v]
  BY DEF MatchingFrom
<1>4. IsList(nested) /\ Len(nested) = n /\ Len(nested) # 0 /\ \A i \in 1..Len(nested) : IsPlans(nested[i])
  BY <1>1 DEF NestedAgree
<1>5. AnyPlan(nested) # TooMany
  BY <1>2
<1>6. \A i \in 1..n : nested[i] # TooMany
  BY <1>4, <1>5, FoundAny
<1>7. \A i \in 1..n : Agrees(matching[i][v], Found(nested[i], v))
  BY <1>6 DEF NestedAgree
<1>8. \A i \in 1..n : i \in ends <=> Found(nested[i], v) # <<>>
  BY <1>7, AgreesSays
<1>9. CASE ends = {}
  <2>1. \A i \in 1..Len(nested) : Found(nested[i], v) = <<>>
    BY <1>4, <1>8, <1>9
  <2>2. Found(AnyPlan(nested), v) = <<>>
    BY <1>4, <1>5, <2>1, FoundAny
  <2>3. QED
    BY <1>2, <1>3, <1>9, <2>2, AgreesSays
<1>10. CASE ends # {}
  <2>1. ends \in SUBSET Nat
    BY <1>1
  <2>2. PICK k \in ends : \A j \in ends : k <= j
    BY <1>10, <2>1, LeastNatural
  <2>3. Min(ends) = k
    <3> HIDE DEF ends
    <3>1. QED
      BY <2>1, <2>2, LeastIsMin
  <2>4. k \in 1..Len(nested) /\ Found(nested[k], v) # <<>>
    BY <1>4, <1>8
  <2>5. \A j \in 1..Len(nested) : j < k => Found(nested[j], v) = <<>>
    <3>1. SUFFICES ASSUME NEW j \in 1..n, j < k, Found(nested[j], v) # <<>> PROVE FALSE
      BY <1>4
    <3>2. j \in ends
      BY <1>8, <3>1
    <3>3. k <= j /\ j \in Nat /\ k \in Nat
      BY <1>1, <2>2, <3>2
    <3>4. QED
      BY <3>1, <3>3
  <2>6. Found(AnyPlan(nested), v) = Found(nested[k], v)
    BY <1>4, <1>5, <2>4, <2>5, FoundAny
  <2>7. QED
    BY <1>2, <1>3, <1>4, <1>7, <1>10, <2>3, <2>4, <2>6
<1>11. QED
  BY <1>9, <1>10

(* The same for a pattern with a name.                                      *)
LEMMA AsAgrees ==
  ASSUME NEW p \in Patterns, NEW v \in Values, NEW nested, NEW matching, ~Foreign[v],
         p.kind = "as", NestedAgree(p, nested, matching), CompileFrom(p, nested) # TooMany
  PROVE  Agrees(MatchingFrom(p, matching, v), Found(CompileFrom(p, nested), v))
<1> DEFINE plans == IF p.nested = <<>> THEN Plan(<<>>, <<>>) ELSE nested[1]
           answer == IF p.nested = <<>> THEN Yes(<<>>) ELSE matching[1][v]
           names == IF p.name = "" THEN <<>> ELSE <<<<p.name, v>>>>
<1>1. CompileFrom(p, nested) = WithBinding(plans, NameBinding(p.name))
  BY DEF CompileFrom
<1>2. MatchingFrom(p, matching, v) = AndBind(answer, names)
  BY DEF MatchingFrom
<1>3. BindingList(NameBinding(p.name)) /\ Made(NameBinding(p.name), v) = names
  <2>1. CASE p.name = ""
    BY <2>1, NoTests DEF NameBinding
  <2>2. CASE p.name # ""
    <3>1. Made(<<Binding(p.name, Whole, 0)>>, v)
            = <<<<p.name, CASE Whole = Whole -> v
                            [] Whole = Without -> Rest(v, 0)
                            [] OTHER -> SliceOf(v, Whole, 0)>>>>
      BY BindingFacts
    <3>2. Without # Whole
      BY DEF Without, Whole
    <3>3. QED
      BY <2>2, <3>1, <3>2, BindingListsOf DEF NameBinding
  <2>3. QED
    BY <2>1, <2>2
<1>4. IsPlans(plans) /\ Agrees(answer, Found(plans, v))
  <2>1. CASE p.nested = <<>>
    <3>1. IsPlans(Plan(<<>>, <<>>)) /\ Found(Plan(<<>>, <<>>), v) = <<<<>>>>
      <4>1. \A j \in 1..Len(<<>>) : Holds(<<>>[j], v)
        BY Nothing
      <4>2. IsPlans(Plan(<<>>, <<>>)) /\ Found(Plan(<<>>, <<>>), v) = <<Made(<<>>, v)>>
        BY <4>1, NoTests, PlanFacts
      <4>3. QED
        BY <4>2, NoTests
    <3>2. Agrees(Yes(<<>>), <<<<>>>>)
      BY Nothing, AgreesSays
    <3>3. QED
      BY <2>1, <3>1, <3>2
  <2>2. CASE p.nested # <<>>
    <3>1. 1 \in 1..Len(p.nested)
      <4>1. p.nested \in Seq(Patterns) /\ Len(p.nested) \in Nat
        BY ParsedFacts DEF Parsed
      <4>2. Len(p.nested) # 0
        BY <2>2, <4>1, SeqIsList, Nothing
      <4>3. QED
        BY <4>1, <4>2
    <3>2. IsPlans(nested[1])
      BY <3>1 DEF NestedAgree
    <3>3. Len(WithBinding(nested[1], NameBinding(p.name))) = Len(nested[1])
          /\ IsPlans(WithBinding(nested[1], NameBinding(p.name)))
      BY <1>3, <3>2, FoundWithBinding DEF BindingList
    <3>4. nested[1] # TooMany
      BY <1>1, <2>2, <3>2, <3>3, NotEmpty
    <3>5. Agrees(matching[1][v], Found(nested[1], v))
      BY <3>1, <3>4 DEF NestedAgree
    <3>6. QED
      BY <2>2, <3>2, <3>5
  <2>3. QED
    BY <2>1, <2>2
<1> HIDE DEF plans, answer, names
<1>5. QED
  BY <1>1, <1>2, <1>3, <1>4, AndBindAgrees

(* The same for a value pattern.                                            *)
LEMMA ValueAgrees ==
  ASSUME NEW p \in Patterns, NEW v \in Values, NEW nested, NEW matching, p.kind = "value"
  PROVE  Agrees(MatchingFrom(p, matching, v), Found(CompileFrom(p, nested), v))
<1> DEFINE tests == <<Test("equal", p.name, 0)>>
<1>1. TestList(tests) /\ ((\A i \in 1..Len(tests) : Holds(tests[i], v)) <=> v = Atom(p.name))
  <2>1. TestList(tests)
    BY TestFacts
  <2>2. (\A i \in 1..Len(tests) : Holds(tests[i], v)) <=> v = Atom(p.name)
    BY OneTestHolds
  <2>3. QED
    BY <2>1, <2>2
<1>2. CompileFrom(p, nested) = Plan(tests, <<>>)
  BY DEF CompileFrom
<1>3. MatchingFrom(p, matching, v) = IF v = Atom(p.name) THEN Yes(<<>>) ELSE No
  BY DEF MatchingFrom
<1> HIDE DEF tests
<1>4. Found(Plan(tests, <<>>), v) = IF v = Atom(p.name) THEN <<<<>>>> ELSE <<>>
  <2>1. Found(Plan(tests, <<>>), v) = IF v = Atom(p.name) THEN <<Made(<<>>, v)>> ELSE <<>>
    BY <1>1, NoTests, PlanFacts
  <2>2. QED
    BY <2>1, NoTests
<1>5. Agrees(Yes(<<>>), <<<<>>>>) /\ Agrees(No, <<>>)
  BY Nothing, AgreesSays
<1>6. QED
  BY <1>2, <1>3, <1>4, <1>5

(* For every pattern within the limit and every value without a known gap,   *)
(* running its plans in order finds what CPython's matching binds.           *)
PlansAgree(p) ==
  \A v \in Values : ~Foreign[v] /\ ~Unproven[p] /\ Compile[p] # TooMany =>
    Agrees(Matching[p][v], Found(Compile[p], v))

(* By the depth of the pattern: no pattern is the least deep one that       *)
(* fails.                                                                   *)
THEOREM AllPlansAgree == \A p \in Patterns : PlansAgree(p)
<1> DEFINE Bad == {p \in Patterns : ~PlansAgree(p)}
<1>1. SUFFICES ASSUME Bad # {} PROVE FALSE
  OBVIOUS
<1>2. Bad \in SUBSET Patterns
  OBVIOUS
<1>3. PICK p \in Bad : \A i \in 1..Len(p.nested) : p.nested[i] \in Patterns /\ p.nested[i] \notin Bad
  <2> HIDE DEF Bad
  <2>1. QED
    BY <1>1, <1>2, ShallowestPattern
<1>4. p \in Patterns /\ ~PlansAgree(p)
  OBVIOUS
<1>5. PICK v \in Values : /\ ~Foreign[v] /\ ~Unproven[p] /\ Compile[p] # TooMany
                          /\ ~Agrees(Matching[p][v], Found(Compile[p], v))
  BY <1>4 DEF PlansAgree
<1> DEFINE nested == [i \in 1..Len(p.nested) |-> Compile[p.nested[i]]]
           matching == [i \in 1..Len(p.nested) |-> Matching[p.nested[i]]]
<1>6. Compile[p] = CompileFrom(p, nested) /\ Matching[p][v] = MatchingFrom(p, matching, v)
  BY <1>4, CompileIs, MatchingIs
<1>7. \A i \in 1..Len(p.nested) : nested[i] = Compile[p.nested[i]] /\ matching[i] = Matching[p.nested[i]]
  OBVIOUS
<1>8. nested = [i \in 1..Len(p.nested) |-> nested[i]] /\ matching = [i \in 1..Len(p.nested) |-> matching[i]]
  OBVIOUS
<1> HIDE DEF nested, matching
<1>9. IsList(nested) /\ Len(nested) = Len(p.nested) /\ IsList(matching) /\ Len(matching) = Len(p.nested)
  BY <1>4, <1>8, ListOf, ParsedFacts
<1>10. ASSUME NEW i \in 1..Len(p.nested)
       PROVE  /\ IsPlans(nested[i])
              /\ \A w \in Values : ~Foreign[w] /\ nested[i] # TooMany => Agrees(matching[i][w], Found(nested[i], w))
  <2>1. p.nested[i] \in Patterns /\ PlansAgree(p.nested[i]) /\ ~Unproven[p.nested[i]]
    BY <1>3, <1>4, <1>5, Proven
  <2>2. IsPlans(Compile[p.nested[i]])
    BY <2>1, TooManyIs
  <2>3. QED
    BY <1>7, <2>1, <2>2 DEF PlansAgree
<1>11. NestedAgree(p, nested, matching)
  BY <1>9, <1>10 DEF NestedAgree
<1>12. Parsed(p)
  BY <1>4, ParsedFacts
<1>13. CompileFrom(p, nested) # TooMany
  BY <1>5, <1>6
<1>14. CASE p.kind = "sequence"
  <2>1. CompileFrom(p, nested) = CompileSequence(p, nested) /\ MatchingFrom(p, matching, v) = MatchSequence(p, matching, v)
    BY <1>14 DEF CompileFrom, MatchingFrom
  <2>2. QED
    BY <1>4, <1>5, <1>6, <1>11, <1>13, <1>14, <2>1, SequenceAgrees
<1>15. CASE p.kind = "mapping"
  <2>1. CompileFrom(p, nested) = CompileMapping(p, nested) /\ MatchingFrom(p, matching, v) = MatchMapping(p, matching, v)
    BY <1>15 DEF CompileFrom, MatchingFrom
  <2>2. QED
    BY <1>4, <1>5, <1>6, <1>11, <1>13, <1>15, <2>1, MappingAgrees
<1>16. CASE p.kind = "class"
  <2>1. CompileFrom(p, nested) = CompileClass(p, nested) /\ MatchingFrom(p, matching, v) = MatchClass(p, matching, v)
    BY <1>16 DEF CompileFrom, MatchingFrom
  <2>2. QED
    BY <1>4, <1>5, <1>6, <1>11, <1>13, <1>16, <2>1, ClassAgrees
<1>17. CASE p.kind = "or"
  BY <1>4, <1>5, <1>6, <1>11, <1>13, <1>17, OrAgrees
<1>18. CASE p.kind = "as"
  BY <1>4, <1>5, <1>6, <1>11, <1>13, <1>18, AsAgrees
<1>19. CASE p.kind = "value"
  BY <1>4, <1>5, <1>6, <1>19, ValueAgrees
<1>20. QED
  BY <1>12, <1>14, <1>15, <1>16, <1>17, <1>18, <1>19 DEF Parsed

-----------------------------------------------------------------------------
(* MatchLowering: the lowered text runs as the statement does.               *)

CaseNames == [i \in 1..Len(program.cases) |-> CaseAnswer(i).names]
BoundBy(n) == FlattenSeq(FirstOf(CaseNames, n))     \* by the first n cases

(* What the text has bound and run at each of its steps, and which plans of  *)
(* the case it is in do not hold.                                            *)
MatchProgress ==
  /\ matchPhase = "ended" => ran = ExpectedRuns /\ env = ExpectedEnv
  /\ matchPhase # "ended" /\ matched =>
       matchPhase = "case" /\ ran = ExpectedRuns /\ env = ExpectedEnv /\ Deciding # {}
  /\ matchPhase # "ended" /\ ~matched =>
       /\ ran = <<>> /\ \A i \in 1..(at - 1) : i \notin Deciding
       /\ matchPhase \in {"case", "alternatives"} => env = BoundBy(at - 1)
       /\ matchPhase = "alternatives" =>
            /\ ~hit
            /\ \A k \in 1..Len(Plans(at)) : k < alternative => ~PlanHolds(Plans(at)[k], program.subject)
       /\ matchPhase = "hit" => env = BoundBy(at) /\ (hit <=> CaseAnswer(at).result = "yes")

(* The statement is handed back as soon as a case has no plan.               *)
MatchShape ==
  /\ program \in Programs
  /\ matchPhase \in {"lower", "refused", "unparsable", "case", "alternatives", "hit", "ended"}
  /\ at \in 1..(Len(program.cases) + 1) /\ alternative \in Nat \ {0}
  /\ matchPhase = "lower" => at = 1 /\ ~matched /\ env = <<>> /\ ran = <<>>
  /\ matchPhase \in {"alternatives", "hit"} => at <= Len(program.cases) /\ ~matched
  /\ matchPhase = "refused" => \E i \in 1..Len(program.cases) : Plans(i) = TooMany
  /\ matchPhase \notin {"lower", "refused"} => \A i \in 1..Len(program.cases) : Plans(i) # TooMany
  /\ matchPhase = "unparsable" => ~IndentUnitIsBlank

(* A statement without a known gap that is not handed back.                  *)
Lowered ==
  ~KnownGap /\ matchPhase \notin {"lower", "refused", "unparsable"}

MatchInv == MatchShape /\ (Lowered => MatchProgress)

(* A statement has cases, whose patterns and bodies are those considered.   *)
LEMMA ProgramFacts ==
  ASSUME program \in Programs
  PROVE  /\ Len(program.cases) \in Nat \ {0} /\ program.subject \in Values
         /\ \A i \in 1..Len(program.cases) :
              /\ program.cases[i].pattern \in Patterns
              /\ program.cases[i].body \in {"block", "inline", "string"}
<1>1. program.cases \in Seq(Case) /\ program.cases # <<>> /\ program.subject \in Values
  BY MatchAssumption
<1>2. Len(program.cases) \in Nat /\ Len(program.cases) # 0
  BY <1>1, SeqIsList, LenProperties, Nothing
<1>3. \A i \in 1..Len(program.cases) : program.cases[i] \in Case
  BY <1>1, ElementOfSeq
<1>4. QED
  BY <1>1, <1>2, <1>3 DEF Case

(* Without a known gap, the plans of a case find what its pattern matches.   *)
LEMMA CaseAgrees ==
  ASSUME program \in Programs, ~KnownGap, NEW i \in 1..Len(program.cases), Plans(i) # TooMany
  PROVE  /\ Agrees(CaseAnswer(i), Found(Plans(i), program.subject))
         /\ program.cases[i].body # "string" /\ IsList(Plans(i))
<1> DEFINE p == program.cases[i].pattern
<1>1. p \in Patterns /\ program.subject \in Values
  BY ProgramFacts
<1>2. ~Foreign[program.subject] /\ ~Unproven[p] /\ program.cases[i].body # "string"
  BY DEF KnownGap
<1>3. Plans(i) = Compile[p] /\ CaseAnswer(i) = Matching[p][program.subject]
  BY DEF Plans, CaseAnswer
<1> HIDE DEF p
<1>4. Agrees(Matching[p][program.subject], Found(Compile[p], program.subject))
  BY <1>1, <1>2, <1>3, AllPlansAgree DEF PlansAgree
<1>5. IsPlans(Compile[p])
  BY <1>1, TooManyIs
<1>6. QED
  BY <1>2, <1>3, <1>4, <1>5 DEF IsPlans

(* What each case adds to the bindings.                                     *)
LEMMA BoundByFacts ==
  ASSUME program \in Programs, ~KnownGap, \A i \in 1..Len(program.cases) : Plans(i) # TooMany
  PROVE  /\ BoundBy(0) = <<>>
         /\ \A n \in 1..Len(program.cases) : BoundBy(n) = BoundBy(n - 1) \o CaseAnswer(n).names
         /\ \A n \in 0..Len(program.cases) :
              IsList(BoundBy(n)) /\ BoundBy(n) = FlattenSeq([i \in 1..n |-> CaseAnswer(i).names])
<1>1. Len(program.cases) \in Nat
  BY ProgramFacts
<1>2. \A i \in 1..Len(program.cases) : IsList(CaseAnswer(i).names)
  <2>1. SUFFICES ASSUME NEW i \in 1..Len(program.cases) PROVE IsList(CaseAnswer(i).names)
    OBVIOUS
  <2>2. Agrees(CaseAnswer(i), Found(Plans(i), program.subject))
    BY CaseAgrees
  <2>3. QED
    BY <2>2, AgreesSays, Nothing
<1>3. \A i \in 1..Len(program.cases) : CaseNames[i] = CaseAnswer(i).names
  BY DEF CaseNames
<1>4. BoundBy(0) = <<>>
  BY FrontIs, Nothing, FlattenNone DEF BoundBy
<1>5. ASSUME NEW n \in 1..Len(program.cases)
      PROVE  BoundBy(n) = BoundBy(n - 1) \o CaseAnswer(n).names
  <2> DEFINE m == n - 1
  <2>1. m \in Nat /\ m + 1 = n /\ \A i \in 1..(m + 1) : i \in 1..Len(program.cases)
    BY <1>1
  <2> HIDE DEF m
  <2>2. \A i \in 1..(m + 1) : IsList(CaseNames[i])
    BY <1>2, <1>3, <2>1
  <2>3. FlattenSeq(FirstOf(CaseNames, m + 1)) = FlattenSeq(FirstOf(CaseNames, m)) \o CaseNames[m + 1]
    BY <2>1, <2>2, FlattenFront
  <2>4. QED
    BY <1>3, <2>1, <2>3 DEF BoundBy, m
<1>6. ASSUME NEW n \in 0..Len(program.cases)
      PROVE  IsList(BoundBy(n)) /\ BoundBy(n) = FlattenSeq([i \in 1..n |-> CaseAnswer(i).names])
  <2>1. \A i \in 1..n : i \in 1..Len(program.cases)
    BY <1>1
  <2>2. FirstOf(CaseNames, n) = [i \in 1..n |-> CaseAnswer(i).names]
    BY <1>3, <2>1 DEF FirstOf
  <2>3. \A i \in 1..n : IsList(CaseNames[i])
    BY <1>2, <1>3, <2>1
  <2>4. n \in Nat
    BY <1>1
  <2>5. IsList(BoundBy(n))
    BY <2>3, <2>4, FlattenIsList DEF BoundBy
  <2>6. QED
    BY <2>2, <2>5 DEF BoundBy
<1>7. QED
  BY <1>4, <1>5, <1>6

(* What the statement is does not change.                                    *)
LEMMA SameProgram ==
  ASSUME program' = program
  PROVE  /\ KnownGap' <=> KnownGap
         /\ IndentUnitIsBlank' <=> IndentUnitIsBlank
         /\ Deciding' = Deciding /\ ExpectedEnv' = ExpectedEnv /\ ExpectedRuns' = ExpectedRuns
         /\ \A i : Plans(i)' = Plans(i) /\ CaseAnswer(i)' = CaseAnswer(i)
         /\ \A n : BoundBy(n)' = BoundBy(n)
<1>1. \A i : Plans(i)' = Plans(i) /\ CaseAnswer(i)' = CaseAnswer(i) /\ GuardHolds(i)' = GuardHolds(i)
  BY DEF Plans, CaseAnswer, GuardHolds
<1>2. Deciding' = Deciding
  BY DEF Deciding, CaseAnswer, GuardHolds
<1>3. LastTried' = LastTried
  BY <1>2 DEF LastTried
<1>4. ExpectedEnv' = ExpectedEnv
  BY <1>3 DEF ExpectedEnv, CaseAnswer
<1>5. ExpectedRuns' = ExpectedRuns
  BY <1>2, <1>3 DEF ExpectedRuns
<1>6. CaseNames' = CaseNames
  BY DEF CaseNames, CaseAnswer
<1>7. \A n : BoundBy(n)' = BoundBy(n)
  BY <1>6 DEF BoundBy
<1>8. (KnownGap' <=> KnownGap) /\ (IndentUnitIsBlank' <=> IndentUnitIsBlank)
  BY DEF KnownGap, IndentUnitIsBlank
<1>9. QED
  BY <1>1, <1>2, <1>4, <1>5, <1>7, <1>8

(* The initial states.                                                      *)
LEMMA ShapeStarts == MatchInit => MatchInv
<1>1. SUFFICES ASSUME MatchInit PROVE MatchInv
  OBVIOUS
<1>2. program \in Programs /\ Len(program.cases) \in Nat \ {0}
  BY <1>1, ProgramFacts DEF MatchInit
<1>3. QED
  BY <1>1, <1>2 DEF MatchInit, MatchInv, MatchShape, Lowered

(* What each step does to the position in the text.                         *)
LEMMA ShapeKept == MatchShape /\ [MatchNext]_matchVars => MatchShape'
<1>1. SUFFICES ASSUME MatchShape, [MatchNext]_matchVars PROVE MatchShape'
  OBVIOUS
<1>2. program' = program
  BY <1>1 DEF MatchNext, LowerMatch, EnterCase, PassCase, TryAlternative, NoAlternative, CaseEnds, MatchEnds, matchVars
<1>3. /\ IndentUnitIsBlank' <=> IndentUnitIsBlank
      /\ \A i : Plans(i)' = Plans(i)
  BY <1>2, SameProgram
<1>4. program \in Programs /\ Len(program.cases) \in Nat \ {0}
  BY <1>1, ProgramFacts DEF MatchShape
<1>5. CASE LowerMatch
  BY <1>1, <1>2, <1>3, <1>4, <1>5 DEF MatchShape, LowerMatch
<1>6. CASE EnterCase
  BY <1>1, <1>2, <1>3, <1>4, <1>6 DEF MatchShape, EnterCase
<1>7. CASE PassCase
  BY <1>1, <1>2, <1>3, <1>4, <1>7 DEF MatchShape, PassCase
<1>8. CASE TryAlternative
  BY <1>1, <1>2, <1>3, <1>4, <1>8 DEF MatchShape, TryAlternative
<1>9. CASE NoAlternative
  BY <1>1, <1>2, <1>3, <1>4, <1>9 DEF MatchShape, NoAlternative
<1>10. CASE CaseEnds
  BY <1>1, <1>2, <1>3, <1>4, <1>10 DEF MatchShape, CaseEnds
<1>11. CASE MatchEnds
  BY <1>1, <1>2, <1>3, <1>4, <1>11 DEF MatchShape, MatchEnds
<1>12. CASE UNCHANGED matchVars
  BY <1>1, <1>2, <1>3, <1>4, <1>12 DEF MatchShape, matchVars
<1>13. QED
  BY <1>1, <1>5, <1>6, <1>7, <1>8, <1>9, <1>10, <1>11, <1>12 DEF MatchNext

(* What the case found: the plans of the case, tried in order, bind what its *)
(* pattern does.                                                             *)
LEMMA CaseFinds ==
  ASSUME MatchShape, Lowered, NEW i \in 1..Len(program.cases)
  PROVE  /\ Len(Plans(i)) \in Nat
         /\ CaseAnswer(i).result \in {"yes", "no"}
         /\ CaseAnswer(i).result = "no" => CaseAnswer(i).names = <<>>
         /\ i \in Deciding <=> CaseAnswer(i).result = "yes" /\ GuardHolds(i)
         /\ Moved(program.cases[i].body) = program.cases[i].body
         /\ (\A k \in 1..Len(Plans(i)) : ~PlanHolds(Plans(i)[k], program.subject))
              => CaseAnswer(i).result = "no"
         /\ \A k \in 1..Len(Plans(i)) :
              /\ PlanHolds(Plans(i)[k], program.subject)
              /\ \A j \in 1..Len(Plans(i)) : j < k => ~PlanHolds(Plans(i)[j], program.subject)
              => /\ CaseAnswer(i).result = "yes"
                 /\ CaseAnswer(i).names = Made(Plans(i)[k].bindings, program.subject)
<1> DEFINE found == Found(Plans(i), program.subject)
<1>1. program \in Programs /\ ~KnownGap /\ Plans(i) # TooMany
  BY DEF MatchShape, Lowered
<1>2. Agrees(CaseAnswer(i), found) /\ program.cases[i].body # "string" /\ IsList(Plans(i))
  BY <1>1, CaseAgrees
<1>3. Len(Plans(i)) \in Nat
  BY <1>2, ListFacts
<1>4. (\A k \in 1..Len(Plans(i)) : ~PlanHolds(Plans(i)[k], program.subject)) => found = <<>>
  BY <1>2, FoundIs DEF Hits
<1>5. ASSUME NEW k \in 1..Len(Plans(i)), PlanHolds(Plans(i)[k], program.subject),
             \A j \in 1..Len(Plans(i)) : j < k => ~PlanHolds(Plans(i)[j], program.subject)
      PROVE  found = <<Made(Plans(i)[k].bindings, program.subject)>>
  BY <1>2, <1>5, FoundIs
<1> HIDE DEF found
<1>6. /\ CaseAnswer(i).result \in {"yes", "no"} /\ (CaseAnswer(i).result = "yes" <=> found # <<>>)
      /\ CaseAnswer(i).result = "no" => CaseAnswer(i).names = <<>>
      /\ CaseAnswer(i).result = "yes" => found[1] = CaseAnswer(i).names
  BY <1>2, AgreesSays
<1>7. ASSUME NEW k \in 1..Len(Plans(i)), PlanHolds(Plans(i)[k], program.subject),
             \A j \in 1..Len(Plans(i)) : j < k => ~PlanHolds(Plans(i)[j], program.subject)
      PROVE  /\ CaseAnswer(i).result = "yes"
             /\ CaseAnswer(i).names = Made(Plans(i)[k].bindings, program.subject)
  <2> DEFINE made == Made(Plans(i)[k].bindings, program.subject)
  <2>1. found = <<made>>
    BY <1>5, <1>7
  <2> HIDE DEF made
  <2>2. found # <<>> /\ found[1] = made
    BY <2>1, OneElement
  <2>3. QED
    BY <1>6, <2>2 DEF made
<1>8. i \in Deciding <=> CaseAnswer(i).result = "yes" /\ GuardHolds(i)
  BY <1>6 DEF Deciding
<1>9. Moved(program.cases[i].body) = program.cases[i].body
  BY <1>2 DEF Moved
<1>10. QED
  BY <1>3, <1>4, <1>6, <1>7, <1>8, <1>9

(* The case that decides, and that none does.                                *)
LEMMA DecidesAt ==
  ASSUME MatchShape, Lowered
  PROVE  /\ \A i \in 1..Len(program.cases) :
              i \in Deciding /\ (\A j \in 1..(i - 1) : j \notin Deciding)
                => /\ Deciding # {} /\ ExpectedEnv = BoundBy(i)
                   /\ ExpectedRuns = <<<<i, program.cases[i].body>>>>
         /\ (\A j \in 1..Len(program.cases) : j \notin Deciding)
              => ExpectedEnv = BoundBy(Len(program.cases)) /\ ExpectedRuns = <<>>
<1>1. /\ program \in Programs /\ ~KnownGap
      /\ \A i \in 1..Len(program.cases) : Plans(i) # TooMany
  BY DEF MatchShape, Lowered
<1>2. Len(program.cases) \in Nat
  BY <1>1, ProgramFacts
<1>3. \A n \in 0..Len(program.cases) : BoundBy(n) = FlattenSeq([i \in 1..n |-> CaseAnswer(i).names])
  BY <1>1, BoundByFacts
<1>4. Deciding \in SUBSET (1..Len(program.cases))
  BY DEF Deciding
<1>5. ASSUME NEW i \in 1..Len(program.cases), i \in Deciding, \A j \in 1..(i - 1) : j \notin Deciding
      PROVE  /\ Deciding # {} /\ ExpectedEnv = BoundBy(i)
             /\ ExpectedRuns = <<<<i, program.cases[i].body>>>>
  <2>1. \A m \in Deciding : i <= m
    BY <1>2, <1>4, <1>5
  <2>2. Deciding \in SUBSET Nat
    BY <1>2, <1>4
  <2>3. Min(Deciding) = i
    BY <1>5, <2>1, <2>2, LeastIsMin
  <2>4. LastTried = i /\ Deciding # {}
    BY <1>5, <2>3 DEF LastTried
  <2>5. ExpectedEnv = BoundBy(i)
    BY <1>2, <1>3, <2>4 DEF ExpectedEnv
  <2>6. QED
    BY <2>4, <2>5 DEF ExpectedRuns
<1>6. ASSUME \A j \in 1..Len(program.cases) : j \notin Deciding
      PROVE  ExpectedEnv = BoundBy(Len(program.cases)) /\ ExpectedRuns = <<>>
  <2>1. Deciding = {}
    BY <1>4, <1>6
  <2>2. LastTried = Len(program.cases)
    BY <2>1 DEF LastTried
  <2>3. QED
    BY <1>2, <1>3, <2>1, <2>2 DEF ExpectedEnv, ExpectedRuns
<1>7. QED
  BY <1>5, <1>6

(* What each step does to the bindings and the bodies that ran.             *)
LEMMA ProgressKept ==
  ASSUME MatchInv, [MatchNext]_matchVars, Lowered'
  PROVE  MatchProgress'
<1>1. MatchShape /\ (Lowered => MatchProgress)
  BY DEF MatchInv
<1>2. program' = program
  BY DEF MatchNext, LowerMatch, EnterCase, PassCase, TryAlternative, NoAlternative, CaseEnds, MatchEnds, matchVars
<1>3. /\ KnownGap' <=> KnownGap
      /\ Deciding' = Deciding /\ ExpectedEnv' = ExpectedEnv /\ ExpectedRuns' = ExpectedRuns
      /\ \A i : Plans(i)' = Plans(i) /\ CaseAnswer(i)' = CaseAnswer(i)
      /\ \A n : BoundBy(n)' = BoundBy(n)
  BY <1>2, SameProgram
<1>4. program \in Programs /\ Len(program.cases) \in Nat \ {0} /\ at \in 1..(Len(program.cases) + 1)
  BY <1>1, ProgramFacts DEF MatchShape
<1>5. CASE LowerMatch
  <2>1. /\ matchPhase' = "case" /\ at' = 1 /\ ~matched' /\ env' = <<>> /\ ran' = <<>>
    BY <1>1, <1>5 DEF LowerMatch, MatchShape, Lowered
  <2>2. MatchShape'
    BY <1>1, ShapeKept
  <2>3. \A i \in 1..Len(program.cases) : Plans(i) # TooMany
    BY <1>2, <1>3, <2>1, <2>2 DEF MatchShape
  <2>4. ~KnownGap
    BY <1>3 DEF Lowered
  <2>5. BoundBy(0) = <<>>
    BY <1>4, <2>3, <2>4, BoundByFacts
  <2>6. QED
    BY <1>2, <1>3, <2>1, <2>5 DEF MatchProgress
<1>6. CASE EnterCase
  <2>1. Lowered /\ at \in 1..Len(program.cases)
    BY <1>3, <1>4, <1>6 DEF EnterCase, Lowered
  <2>2. Len(Plans(at)) \in Nat
    BY <1>1, <2>1, CaseFinds
  <2>3. ran = <<>> /\ (\A i \in 1..(at - 1) : i \notin Deciding) /\ env = BoundBy(at - 1)
    BY <1>1, <1>6, <2>1 DEF EnterCase, MatchProgress
  <2>4. /\ matchPhase' = "alternatives" /\ at' = at /\ ~matched' /\ env' = env /\ ran' = ran /\ ~hit'
        /\ alternative' = 1
    BY <1>6 DEF EnterCase
  <2>5. QED
    BY <1>2, <1>3, <2>2, <2>3, <2>4 DEF MatchProgress
<1>7. CASE PassCase
  <2>1. Lowered
    BY <1>3, <1>7 DEF PassCase, Lowered
  <2>2. ran = ExpectedRuns /\ env = ExpectedEnv /\ Deciding # {}
    BY <1>1, <1>7, <2>1 DEF PassCase, MatchProgress
  <2>3. QED
    BY <1>3, <1>7, <2>2 DEF PassCase, MatchProgress
<1>8. CASE TryAlternative
  <2>1. Lowered /\ at \in 1..Len(program.cases) /\ ~matched
    BY <1>1, <1>3, <1>4, <1>8 DEF TryAlternative, Lowered, MatchShape
  <2>2. alternative \in 1..Len(Plans(at)) /\ Len(Plans(at)) \in Nat
    BY <1>1, <1>8, <2>1, CaseFinds DEF TryAlternative, MatchShape
  <2>3. /\ ran = <<>> /\ (\A i \in 1..(at - 1) : i \notin Deciding) /\ env = BoundBy(at - 1) /\ ~hit
        /\ \A k \in 1..Len(Plans(at)) : k < alternative => ~PlanHolds(Plans(at)[k], program.subject)
    BY <1>1, <1>8, <2>1 DEF TryAlternative, MatchProgress
  <2>4. at' = at /\ ~matched' /\ ran' = ran
    BY <1>8, <2>1 DEF TryAlternative
  <2> DEFINE plan == Plans(at)[alternative]
  <2>5. CASE PlanHolds(plan, program.subject)
    <3>1. /\ env' = env \o Made(plan.bindings, program.subject)
          /\ hit' = TRUE /\ matchPhase' = "hit"
      BY <1>8, <2>5 DEF TryAlternative
    <3>2. /\ CaseAnswer(at).result = "yes"
          /\ CaseAnswer(at).names = Made(plan.bindings, program.subject)
      BY <1>1, <2>1, <2>2, <2>3, <2>5, CaseFinds
    <3>3. BoundBy(at) = BoundBy(at - 1) \o CaseAnswer(at).names
      BY <1>1, <1>4, <2>1, BoundByFacts DEF MatchShape, Lowered
    <3> HIDE DEF plan
    <3>4. env' = BoundBy(at)
      BY <2>3, <3>1, <3>2, <3>3
    <3>5. QED
      BY <1>3, <2>3, <2>4, <3>1, <3>2, <3>4 DEF MatchProgress
  <2>6. CASE ~PlanHolds(plan, program.subject)
    <3>1. alternative' = alternative + 1 /\ env' = env /\ hit' = hit /\ matchPhase' = "alternatives"
      BY <1>8, <2>6 DEF TryAlternative
    <3>2. \A k \in 1..Len(Plans(at)) : k < alternative + 1 => ~PlanHolds(Plans(at)[k], program.subject)
      <4>1. SUFFICES ASSUME NEW k \in 1..Len(Plans(at)), k < alternative + 1
                     PROVE  ~PlanHolds(Plans(at)[k], program.subject)
        OBVIOUS
      <4>2. k < alternative \/ k = alternative
        BY <2>2, <4>1
      <4>3. QED
        BY <2>3, <2>6, <4>2
    <3>3. QED
      BY <1>2, <1>3, <2>3, <2>4, <3>1, <3>2 DEF MatchProgress
  <2>7. QED
    BY <2>5, <2>6
<1>9. CASE NoAlternative
  <2>1. Lowered /\ at \in 1..Len(program.cases) /\ ~matched
    BY <1>1, <1>3, <1>4, <1>9 DEF NoAlternative, Lowered, MatchShape
  <2>2. alternative > Len(Plans(at)) /\ Len(Plans(at)) \in Nat /\ alternative \in Nat
    BY <1>1, <1>9, <2>1, CaseFinds DEF NoAlternative, MatchShape
  <2>3. /\ ran = <<>> /\ (\A i \in 1..(at - 1) : i \notin Deciding) /\ env = BoundBy(at - 1) /\ ~hit
        /\ \A k \in 1..Len(Plans(at)) : k < alternative => ~PlanHolds(Plans(at)[k], program.subject)
    BY <1>1, <1>9, <2>1 DEF NoAlternative, MatchProgress
  <2>4. \A k \in 1..Len(Plans(at)) : k < alternative
    BY <2>2
  <2>5. CaseAnswer(at).result = "no" /\ CaseAnswer(at).names = <<>>
    BY <1>1, <2>1, <2>3, <2>4, CaseFinds
  <2>6. BoundBy(at) = BoundBy(at - 1) \o CaseAnswer(at).names /\ IsList(BoundBy(at - 1))
    <3>1. ~KnownGap /\ \A i \in 1..Len(program.cases) : Plans(i) # TooMany
      BY <1>1, <2>1 DEF MatchShape, Lowered
    <3>2. at - 1 \in 0..Len(program.cases)
      BY <1>4, <2>1
    <3>3. IsList(BoundBy(at - 1))
      BY <1>4, <3>1, <3>2, BoundByFacts
    <3>4. BoundBy(at) = BoundBy(at - 1) \o CaseAnswer(at).names
      BY <1>4, <2>1, <3>1, BoundByFacts
    <3>5. QED
      BY <3>3, <3>4
  <2>7. env = BoundBy(at)
    BY <2>3, <2>5, <2>6, Nothing
  <2>8. at' = at /\ ~matched' /\ ran' = ran /\ env' = env /\ matchPhase' = "hit" /\ ~hit'
    BY <1>9, <2>1, <2>3 DEF NoAlternative
  <2>9. QED
    BY <1>3, <2>3, <2>5, <2>7, <2>8 DEF MatchProgress
<1>10. CASE CaseEnds
  <2>1. Lowered /\ at \in 1..Len(program.cases) /\ ~matched
    BY <1>1, <1>3, <1>4, <1>10 DEF CaseEnds, Lowered, MatchShape
  <2>2. /\ ran = <<>> /\ (\A i \in 1..(at - 1) : i \notin Deciding) /\ env = BoundBy(at)
        /\ hit <=> CaseAnswer(at).result = "yes"
    BY <1>1, <1>10, <2>1 DEF CaseEnds, MatchProgress
  <2>3. /\ at \in Deciding <=> CaseAnswer(at).result = "yes" /\ GuardHolds(at)
        /\ Moved(program.cases[at].body) = program.cases[at].body
    BY <1>1, <2>1, CaseFinds
  <2>4. at' = at + 1 /\ env' = env /\ matchPhase' = "case"
    BY <1>10 DEF CaseEnds
  <2>5. CASE hit /\ GuardHolds(at)
    <3>1. matched' /\ ran' = Append(ran, <<at, Moved(program.cases[at].body)>>)
      BY <1>10, <2>5 DEF CaseEnds
    <3>2. ran' = <<<<at, program.cases[at].body>>>>
      BY <2>2, <2>3, <3>1
    <3>3. Deciding # {} /\ ExpectedEnv = BoundBy(at) /\ ExpectedRuns = <<<<at, program.cases[at].body>>>>
      BY <1>1, <2>1, <2>2, <2>3, <2>5, DecidesAt
    <3>4. QED
      BY <1>3, <2>2, <2>4, <3>1, <3>2, <3>3 DEF MatchProgress
  <2>6. CASE ~(hit /\ GuardHolds(at))
    <3>1. ~matched' /\ ran' = ran
      BY <1>10, <2>1, <2>6 DEF CaseEnds
    <3>2. at \notin Deciding
      BY <2>2, <2>3, <2>6
    <3>3. \A i \in 1..(at' - 1) : i \notin Deciding
      BY <1>4, <2>2, <2>4, <3>2
    <3>4. env' = BoundBy(at' - 1)
      <4>1. at' - 1 = at
        BY <1>4, <2>4
      <4>2. QED
        BY <2>2, <2>4, <4>1
    <3>5. QED
      BY <1>3, <2>2, <2>4, <3>1, <3>3, <3>4 DEF MatchProgress
  <2>7. QED
    BY <2>5, <2>6
<1>11. CASE MatchEnds
  <2>1. Lowered /\ at = Len(program.cases) + 1
    BY <1>3, <1>4, <1>11 DEF MatchEnds, Lowered
  <2>2. matchPhase' = "ended" /\ ran' = ran /\ env' = env /\ matchPhase = "case"
    BY <1>11 DEF MatchEnds
  <2>3. ran = ExpectedRuns /\ env = ExpectedEnv
    <3>1. CASE matched
      BY <1>1, <2>1, <2>2, <3>1 DEF MatchProgress
    <3>2. CASE ~matched
      <4>1. ran = <<>> /\ (\A i \in 1..(at - 1) : i \notin Deciding) /\ env = BoundBy(at - 1)
        BY <1>1, <2>1, <2>2, <3>2 DEF MatchProgress
      <4>2. at - 1 = Len(program.cases)
        BY <1>4, <2>1
      <4>3. QED
        BY <1>1, <2>1, <4>1, <4>2, DecidesAt
    <3>3. QED
      BY <3>1, <3>2
  <2>4. QED
    BY <1>3, <2>2, <2>3 DEF MatchProgress
<1>12. CASE UNCHANGED matchVars
  <2>1. Lowered /\ MatchProgress
    BY <1>1, <1>3, <1>12 DEF Lowered, matchVars
  <2>2. QED
    BY <1>3, <1>12, <2>1 DEF MatchProgress, matchVars
<1>13. QED
  BY <1>5, <1>6, <1>7, <1>8, <1>9, <1>10, <1>11, <1>12 DEF MatchNext

(* Every step of a match statement, lowered and run, keeps what is known of   *)
(* its bindings and bodies.                                                   *)
THEOREM MatchInvariant == MatchSpec => []MatchInv
<1>1. MatchInv /\ [MatchNext]_matchVars => MatchInv'
  BY ShapeKept, ProgressKept DEF MatchInv
<1>2. QED
  BY <1>1, ShapeStarts, PTL DEF MatchSpec

(* A statement is handed back exactly when a case has too many alternatives. *)
LEMMA OnlyBeyondTheLimit == MatchInv => RefusedBeyondTheLimit
<1>1. SUFFICES ASSUME MatchInv, matchPhase # "lower" PROVE RefusedBeyondTheLimit
  BY DEF RefusedBeyondTheLimit
<1>2. /\ program \in Programs
      /\ matchPhase = "refused" => \E i \in 1..Len(program.cases) : Plans(i) = TooMany
      /\ matchPhase # "refused" => \A i \in 1..Len(program.cases) : Plans(i) # TooMany
  BY <1>1 DEF MatchInv, MatchShape
<1>3. \A i \in 1..Len(program.cases) :
        Plans(i) = TooMany <=> Alternatives[program.cases[i].pattern] > MaxAlternatives
  BY <1>2, ProgramFacts, TooManyIs DEF Plans
<1>4. QED
  BY <1>2, <1>3 DEF RefusedBeyondTheLimit

(* The lowered text runs the body that CPython runs and binds what it binds. *)
LEMMA RunsAsWritten == MatchInv => MatchRunsAsWritten
<1>1. SUFFICES ASSUME MatchInv, ~KnownGap, matchPhase \in {"ended", "unparsable"}
               PROVE  ran = ExpectedRuns /\ env = ExpectedEnv
  BY DEF MatchRunsAsWritten
<1>2. matchPhase = "ended"
  BY <1>1 DEF MatchInv, MatchShape, KnownGap, IndentUnitIsBlank
<1>3. QED
  BY <1>1, <1>2 DEF MatchInv, Lowered, MatchProgress

(* Whatever the patterns, the values and the limit: a match statement is     *)
(* handed back exactly when one of its patterns has more alternatives than   *)
(* the limit, and otherwise, without a known gap, its lowered text runs the  *)
(* body that CPython would run and leaves the names bound that CPython would *)
(* (lower_match and PatternCompiler).                                        *)
THEOREM MatchAlwaysSound == MatchSpec => []MatchIsSound
<1>1. MatchInv => MatchIsSound
  BY OnlyBeyondTheLimit, RunsAsWritten DEF MatchIsSound
<1>2. QED
  BY <1>1, MatchInvariant, PTL

-----------------------------------------------------------------------------
(* Lists of a few elements.                                                  *)

(* What a list must hold to be two lists joined.                             *)
LEMMA JoinedIs ==
  ASSUME NEW s, NEW t, NEW u, IsList(s), IsList(t), IsList(u), Len(u) = Len(s) + Len(t),
         \A i \in 1..Len(s) : s[i] = u[i],
         \A i \in 1..Len(t) : t[i] = u[Len(s) + i]
  PROVE  s \o t = u
<1> DEFINE v == s \o t
           m == Len(s)
           n == Len(t)
<1>1. /\ IsList(v) /\ Len(v) = m + n /\ m \in Nat /\ n \in Nat
      /\ \A i \in 1..m : v[i] = s[i]
      /\ \A i \in 1..n : v[m + i] = t[i]
  BY Joined
<1>2. Len(u) = m + n /\ (\A i \in 1..m : s[i] = u[i]) /\ \A i \in 1..n : t[i] = u[m + i]
  OBVIOUS
<1> HIDE DEF v, m, n
<1>3. ASSUME NEW i \in 1..Len(v) PROVE v[i] = u[i]
  <2>1. i \in 1..m \/ (i - m \in 1..n /\ m + (i - m) = i)
    BY <1>1
  <2>2. QED
    BY ZenonT(60), <1>1, <1>2, <2>1
<1>4. v = u
  BY ZenonT(60), <1>1, <1>2, <1>3, ListsEqual
<1>5. QED
  BY <1>4 DEF v

(* Lists of three to six elements.                                           *)
LEMMA Elements ==
  /\ \A a, b, c : IsList(<<a, b, c>>)
  /\ \A a, b, c, d : IsList(<<a, b, c, d>>)
  /\ \A a, b, c, d, e : IsList(<<a, b, c, d, e>>)
  /\ \A a, b, c, d, e, f : IsList(<<a, b, c, d, e, f>>)
<1>1. \A a, b, c : <<a, b, c>> \in Seq({a, b, c})
  OBVIOUS
<1>2. \A a, b, c, d : <<a, b, c, d>> \in Seq({a, b, c, d})
  OBVIOUS
<1>3. \A a, b, c, d, e : <<a, b, c, d, e>> \in Seq({a, b, c, d, e})
  OBVIOUS
<1>4. \A a, b, c, d, e, f : <<a, b, c, d, e, f>> \in Seq({a, b, c, d, e, f})
  OBVIOUS
<1>5. QED
  BY ZenonT(60), <1>1, <1>2, <1>3, <1>4, SeqIsList

(* Two short lists joined, by their lengths.                                 *)
LEMMA Concat11 ==
  ASSUME NEW a, NEW b
  PROVE  <<a>> \o <<b>> = <<a, b>>
<1> DEFINE s == <<a>>
           t == <<b>>
           u == <<a, b>>
<1>1. IsList(s) /\ IsList(t) /\ IsList(u)
  BY OneElement, TwoElements
<1>2. Len(s) = 1 /\ Len(t) = 1 /\ Len(u) = 2 /\ s[1] = u[1] /\ t[1] = u[2]
  OBVIOUS
<1> HIDE DEF s, t, u
<1>3. /\ Len(u) = Len(s) + Len(t)
      /\ \A i \in 1..Len(s) : s[i] = u[i]
      /\ \A i \in 1..Len(t) : t[i] = u[Len(s) + i]
  BY <1>2
<1>4. s \o t = u
  BY <1>1, <1>3, JoinedIs
<1>5. QED
  BY <1>4 DEF s, t, u

LEMMA Concat12 ==
  ASSUME NEW a, NEW b, NEW c
  PROVE  <<a>> \o <<b, c>> = <<a, b, c>>
<1> DEFINE s == <<a>>
           t == <<b, c>>
           u == <<a, b, c>>
<1>1. IsList(s) /\ IsList(t) /\ IsList(u)
  BY OneElement, TwoElements, Elements
<1>2. /\ Len(u) = Len(s) + Len(t)
      /\ \A i \in 1..Len(s) : s[i] = u[i]
      /\ \A i \in 1..Len(t) : t[i] = u[Len(s) + i]
  OBVIOUS
<1> HIDE DEF s, t, u
<1>3. s \o t = u
  BY <1>1, <1>2, JoinedIs
<1>4. QED
  BY <1>3 DEF s, t, u

LEMMA Concat13 ==
  ASSUME NEW a, NEW b, NEW c, NEW d
  PROVE  <<a>> \o <<b, c, d>> = <<a, b, c, d>>
<1> DEFINE s == <<a>>
           t == <<b, c, d>>
           u == <<a, b, c, d>>
<1>1. IsList(s) /\ IsList(t) /\ IsList(u)
  BY OneElement, TwoElements, Elements
<1>2. /\ Len(u) = Len(s) + Len(t)
      /\ \A i \in 1..Len(s) : s[i] = u[i]
      /\ \A i \in 1..Len(t) : t[i] = u[Len(s) + i]
  OBVIOUS
<1> HIDE DEF s, t, u
<1>3. s \o t = u
  BY <1>1, <1>2, JoinedIs
<1>4. QED
  BY <1>3 DEF s, t, u

LEMMA Concat21 ==
  ASSUME NEW a, NEW b, NEW c
  PROVE  <<a, b>> \o <<c>> = <<a, b, c>>
<1> DEFINE s == <<a, b>>
           t == <<c>>
           u == <<a, b, c>>
<1>1. IsList(s) /\ IsList(t) /\ IsList(u)
  BY OneElement, TwoElements, Elements
<1>2. /\ Len(u) = Len(s) + Len(t)
      /\ \A i \in 1..Len(s) : s[i] = u[i]
      /\ \A i \in 1..Len(t) : t[i] = u[Len(s) + i]
  OBVIOUS
<1> HIDE DEF s, t, u
<1>3. s \o t = u
  BY <1>1, <1>2, JoinedIs
<1>4. QED
  BY <1>3 DEF s, t, u

LEMMA Concat22 ==
  ASSUME NEW a, NEW b, NEW c, NEW d
  PROVE  <<a, b>> \o <<c, d>> = <<a, b, c, d>>
<1> DEFINE s == <<a, b>>
           t == <<c, d>>
           u == <<a, b, c, d>>
<1>1. IsList(s) /\ IsList(t) /\ IsList(u)
  BY OneElement, TwoElements, Elements
<1>2. /\ Len(u) = Len(s) + Len(t)
      /\ \A i \in 1..Len(s) : s[i] = u[i]
      /\ \A i \in 1..Len(t) : t[i] = u[Len(s) + i]
  OBVIOUS
<1> HIDE DEF s, t, u
<1>3. s \o t = u
  BY <1>1, <1>2, JoinedIs
<1>4. QED
  BY <1>3 DEF s, t, u

LEMMA Concat23 ==
  ASSUME NEW a, NEW b, NEW c, NEW d, NEW e
  PROVE  <<a, b>> \o <<c, d, e>> = <<a, b, c, d, e>>
<1> DEFINE s == <<a, b>>
           t == <<c, d, e>>
           u == <<a, b, c, d, e>>
<1>1. IsList(s) /\ IsList(t) /\ IsList(u)
  BY OneElement, TwoElements, Elements
<1>2. /\ Len(u) = Len(s) + Len(t)
      /\ \A i \in 1..Len(s) : s[i] = u[i]
      /\ \A i \in 1..Len(t) : t[i] = u[Len(s) + i]
  OBVIOUS
<1> HIDE DEF s, t, u
<1>3. s \o t = u
  BY <1>1, <1>2, JoinedIs
<1>4. QED
  BY <1>3 DEF s, t, u

LEMMA Concat24 ==
  ASSUME NEW a, NEW b, NEW c, NEW d, NEW e, NEW f
  PROVE  <<a, b>> \o <<c, d, e, f>> = <<a, b, c, d, e, f>>
<1> DEFINE s == <<a, b>>
           t == <<c, d, e, f>>
           u == <<a, b, c, d, e, f>>
<1>1. IsList(s) /\ IsList(t) /\ IsList(u)
  BY OneElement, TwoElements, Elements
<1>2. /\ Len(u) = Len(s) + Len(t)
      /\ \A i \in 1..Len(s) : s[i] = u[i]
      /\ \A i \in 1..Len(t) : t[i] = u[Len(s) + i]
  OBVIOUS
<1> HIDE DEF s, t, u
<1>3. s \o t = u
  BY <1>1, <1>2, JoinedIs
<1>4. QED
  BY <1>3 DEF s, t, u

LEMMA Concat31 ==
  ASSUME NEW a, NEW b, NEW c, NEW d
  PROVE  <<a, b, c>> \o <<d>> = <<a, b, c, d>>
<1> DEFINE s == <<a, b, c>>
           t == <<d>>
           u == <<a, b, c, d>>
<1>1. IsList(s) /\ IsList(t) /\ IsList(u)
  BY OneElement, TwoElements, Elements
<1>2. /\ Len(u) = Len(s) + Len(t)
      /\ \A i \in 1..Len(s) : s[i] = u[i]
      /\ \A i \in 1..Len(t) : t[i] = u[Len(s) + i]
  OBVIOUS
<1> HIDE DEF s, t, u
<1>3. s \o t = u
  BY <1>1, <1>2, JoinedIs
<1>4. QED
  BY <1>3 DEF s, t, u

LEMMA Concat32 ==
  ASSUME NEW a, NEW b, NEW c, NEW d, NEW e
  PROVE  <<a, b, c>> \o <<d, e>> = <<a, b, c, d, e>>
<1> DEFINE s == <<a, b, c>>
           t == <<d, e>>
           u == <<a, b, c, d, e>>
<1>1. IsList(s) /\ IsList(t) /\ IsList(u)
  BY OneElement, TwoElements, Elements
<1>2. /\ Len(u) = Len(s) + Len(t)
      /\ \A i \in 1..Len(s) : s[i] = u[i]
      /\ \A i \in 1..Len(t) : t[i] = u[Len(s) + i]
  OBVIOUS
<1> HIDE DEF s, t, u
<1>3. s \o t = u
  BY <1>1, <1>2, JoinedIs
<1>4. QED
  BY <1>3 DEF s, t, u

LEMMA Concat41 ==
  ASSUME NEW a, NEW b, NEW c, NEW d, NEW e
  PROVE  <<a, b, c, d>> \o <<e>> = <<a, b, c, d, e>>
<1> DEFINE s == <<a, b, c, d>>
           t == <<e>>
           u == <<a, b, c, d, e>>
<1>1. IsList(s) /\ IsList(t) /\ IsList(u)
  BY OneElement, TwoElements, Elements
<1>2. /\ Len(u) = Len(s) + Len(t)
      /\ \A i \in 1..Len(s) : s[i] = u[i]
      /\ \A i \in 1..Len(t) : t[i] = u[Len(s) + i]
  OBVIOUS
<1> HIDE DEF s, t, u
<1>3. s \o t = u
  BY <1>1, <1>2, JoinedIs
<1>4. QED
  BY <1>3 DEF s, t, u

-----------------------------------------------------------------------------
(* RuleSemantics: one site.                                                  *)

(* Each kind of site is one of a rule of its own.                            *)
LEMMA RuleOfSite ==
  /\ \A S : site \in OperandSites(S) => site.rule \in S
  /\ \A S : site \in ContainerSites(S) => site.rule \in S
  /\ site \in NanSites => site.rule \in {"nan"}
  /\ site \in UnarySites => site.rule \in {"unary"}
  /\ site \in ItemSites => site.rule \in {"getitem", "setitem"}
  /\ site \in DescriptorSites => site.rule \in {"descriptor"}
  /\ site \in SuperSites => site.rule \in {"super"}
  /\ site \in BoundEqSites => site.rule \in {"bound_eq"}
  /\ site \in GatherSites => site.rule \in {"gather"}
  /\ site \in StopSites => site.rule \in {"callable_iterator"}
  /\ site \in GetAttrSites => site.rule \in {"getattr"}
  /\ site \in DeleteSites => site.rule \in {"delete"}
  /\ site \in BuiltinSites => site.rule \in {"builtin"}
  /\ site \in ConversionSites => site.rule \in {"conversion"}
  /\ site \in FoldedSites => site.rule \in FoldedRules
  /\ site \in LateSites => site.rule \in {"late_bound"}
  /\ site \in DataclassSites => site.rule \in {"dataclass"}
  /\ site \in ComprehensionSites => site.rule \in {"class_comprehension"}
  /\ site \in ClassNameSites => site.rule \in {"class_name"}
  /\ site \in ImportSites => site.rule \in {"dataclass_import"}
  /\ site \in IfSites => site.rule \in {"class_body_if", "dead_if"}
  /\ site \in NestedSites => site.rule \in {"nested_class"}
  /\ site \in PrivateSites => site.rule \in {"private_name"}
  /\ site \in PercentSites => site.rule \in {"percent"}
  /\ site \in FormatSites => site.rule \in {"str_format"}
  /\ site \in FStringSites => site.rule \in {"fstring"}
  /\ site \in UnionSites => site.rule \in {"union"}
  /\ site \in LazySites => site.rule \in {"lazy", "generator"}
  /\ site \in TupleSites => site.rule \in {"class_tuple"}
  /\ site \in AssertSites => site.rule \in {"assert"}
  /\ site \in DecoratorSites => site.rule \in {"decorator"}
  /\ site \in LoopSites => site.rule \in {"for_target"}
  /\ site \in WithSites => site.rule \in {"with_target"}
  /\ site \in ExitSites => site.rule \in {"with_exit", "async_with"}
  BY DEF OperandSites, ContainerSites, NanSites, UnarySites, ItemSites, DescriptorSites, SuperSites, BoundEqSites, GatherSites, StopSites, GetAttrSites, DeleteSites, BuiltinSites, ConversionSites, FoldedSites, LateSites, DataclassSites, ComprehensionSites, ClassNameSites, IfSites, NestedSites, PrivateSites, PercentSites, FormatSites, FStringSites, UnionSites, LazySites, TupleSites, ImportSites, AssertSites, DecoratorSites, LoopSites, WithSites, ExitSites

(* What the program has at a site, and what CPython runs there, by its       *)
(* rule.                                                                     *)
LEMMA SiteIs ==
  ASSUME Sites
  PROVE  /\ site.rule = "binary" =>
              site \in OperandSites({"binary"}) /\ source = BinarySource(site)
         /\ site.rule = "equality" =>
              site \in OperandSites({"equality"}) /\ source = CompareSource(site, Value("identity"))
         /\ site.rule = "ordering" =>
              site \in OperandSites({"ordering"}) /\ source = CompareSource(site, Raise("TypeError"))
         /\ site.rule = "inequality" =>
              site \in OperandSites({"inequality"}) /\ source = Inequality(CompareSource(site, Value("identity")))
         /\ site.rule = "nan" =>
              site \in NanSites /\ source = NanRun
         /\ site.rule = "unary" =>
              site \in UnarySites /\ source = MethodRun(site)
         /\ site.rule \in {"in", "not_in"} =>
              site \in ContainerSites({"in", "not_in"}) /\ source = ContainsSource(site)
         /\ site.rule = "getitem" =>
              site \in ItemSites /\ source = GetItemSource
         /\ site.rule = "setitem" =>
              site \in ItemSites /\ source = SetItemSource
         /\ site.rule = "setattr" =>
              site \in ContainerSites({"setattr"}) /\ source = SetAttrSource
         /\ site.rule = "callable" =>
              site \in ContainerSites({"callable"}) /\ source = CallRun
         /\ site.rule = "descriptor" =>
              site \in DescriptorSites /\ source = DescriptorSource(site)
         /\ site.rule = "super" =>
              site \in SuperSites /\ source = SuperSource(site)
         /\ site.rule = "bound_eq" =>
              site \in BoundEqSites /\ source = BoundEqRun(site)
         /\ site.rule = "gather" =>
              site \in GatherSites /\ source = GatherSource(site)
         /\ site.rule = "callable_iterator" =>
              site \in StopSites /\ source = StopRun(site, "stop", Value("list"))
         /\ site.rule = "getattr" =>
              site \in GetAttrSites /\ source = GetAttrSource(site)
         /\ site.rule = "delete" =>
              site \in DeleteSites /\ source = Chain([i \in 1..Len(site.targets) |-> DeleteSource(site.targets[i])])
         /\ site.rule = "builtin" =>
              site \in BuiltinSites /\ source = BuiltinSource(site)
         /\ site.rule = "conversion" =>
              site \in ConversionSites /\ source = MethodRun(site)
         /\ site.rule \in FoldedRules =>
              site \in FoldedSites /\ source = FoldSource(site)
         /\ site.rule = "late_bound" =>
              site \in LateSites /\ source = LateRun
         /\ site.rule = "dataclass" =>
              site \in DataclassSites /\ source = DataclassSource(site)
         /\ site.rule = "class_comprehension" =>
              site \in ComprehensionSites /\ source = ComprehensionSource
         /\ site.rule = "class_name" =>
              site \in ClassNameSites /\ source = ClassNameSource(site)
         /\ site.rule = "dataclass_import" =>
              site \in ImportSites /\ source = ImportSource(site)
         /\ site.rule \in {"class_body_if", "dead_if"} =>
              site \in IfSites /\ source = IfSource(site)
         /\ site.rule = "nested_class" =>
              site \in NestedSites /\ source = NestedSource(site)
         /\ site.rule = "private_name" =>
              site \in PrivateSites /\ source = PrivateSource
         /\ site.rule = "percent" =>
              site \in PercentSites /\ source = PercentSource(site)
         /\ site.rule = "str_format" =>
              site \in FormatSites /\ source = FormatSource(site)
         /\ site.rule = "fstring" =>
              site \in FStringSites /\ source = FStringSource(site)
         /\ site.rule = "union" =>
              site \in UnionSites /\ source = UnionSource(site)
         /\ site.rule \in {"lazy", "generator"} =>
              site \in LazySites /\ source = LazySource(site)
         /\ site.rule = "class_tuple" =>
              site \in TupleSites /\ source = TupleSource(site)
         /\ site.rule = "assert" =>
              site \in AssertSites /\ source = AssertSource(site)
         /\ site.rule = "decorator" =>
              site \in DecoratorSites /\ source = DecoratorRun(site, <<>>)
         /\ site.rule = "for_target" =>
              site \in LoopSites /\ source = LoopRun(site)
         /\ site.rule = "with_target" =>
              site \in WithSites /\ source = WithRun(site)
         /\ site.rule \in {"with_exit", "async_with"} =>
              site \in ExitSites /\ source = ExitSource(site)
  BY SMTT(60), RuleOfSite DEF Sites, FoldedRules

(* The first elements of a list, as the standard module takes them.          *)
LEMMA SubSeqIs ==
  ASSUME NEW s, NEW k \in Nat
  PROVE  SubSeq(s, 1, k) = FirstOf(s, k)
<1> DEFINE S == {s[i] : i \in 1..k}
           t == SubSeq(s, 1, k)
<1>1. \A i \in 1..k : s[i] \in S
  OBVIOUS
<1> HIDE DEF S
<1>2. t \in Seq(S) /\ Len(t) = (IF 1 <= k THEN k - 1 + 1 ELSE 0) /\ \A i \in 1..(k - 1 + 1) : t[i] = s[1 + i - 1]
  BY <1>1, SubSeqProperties
<1> HIDE DEF t
<1>3. IsList(t) /\ Len(t) = k /\ \A i \in 1..k : t[i] = s[i]
  <2>1. IsList(t)
    BY <1>2, SeqIsList
  <2>2. Len(t) = k /\ k - 1 + 1 = k /\ \A i \in 1..k : 1 + i - 1 = i
    BY <1>2
  <2>3. QED
    BY <1>2, <2>1, <2>2
<1>4. IsList(FirstOf(s, k)) /\ Len(FirstOf(s, k)) = k /\ \A i \in 1..k : FirstOf(s, k)[i] = s[i]
  BY FrontIs
<1>5. t = FirstOf(s, k)
  BY <1>3, <1>4, ListsEqual
<1>6. QED
  BY <1>5 DEF t

(* A list without its last element.                                          *)
LEMMA FrontLength ==
  ASSUME NEW s, IsList(s), Len(s) # 0
  PROVE  IsList(Front(s)) /\ Len(Front(s)) = Len(s) - 1
<1> DEFINE k == Len(s) - 1
<1>1. k \in Nat /\ Front(s) = SubSeq(s, 1, k)
  BY ListFacts DEF Front
<1> HIDE DEF k
<1>2. Front(s) = FirstOf(s, k)
  BY <1>1, SubSeqIs
<1>3. IsList(FirstOf(s, k)) /\ Len(FirstOf(s, k)) = k
  BY <1>1, FrontIs
<1>4. QED
  BY <1>2, <1>3 DEF k

-----------------------------------------------------------------------------
(* RuleSemantics: the texts, rule by rule.                                   *)

\* A text is faithful to its site: it differs exactly where the rule diverges.
Faithful(events) == events = source <=> ~Diverges

(* The rules that never diverge.                                             *)
LEMMA AlwaysKept ==
  ASSUME Sites
  PROVE  /\ site.rule = "nan" => Faithful(NanRun)
         /\ site.rule = "unary" => Faithful(MethodRun(site))
         /\ site.rule = "callable" => Faithful(CallRun)
         /\ site.rule = "late_bound" => Faithful(LateRun)
         /\ site.rule = "for_target" => Faithful(LoopRun(site))
         /\ site.rule = "with_target" => Faithful(WithRun(site))
<1>1. site.rule \in {"nan", "unary", "callable", "late_bound", "for_target", "with_target"} => ~Diverges
  BY DEF Diverges, FoldedRules
<1>2. QED
  BY <1>1, SiteIs DEF Faithful

(* A subscript that is read diverges on a slice, which does not parse.       *)
LEMMA GetItemKept ==
  ASSUME Sites, site.rule = "getitem"
  PROVE  Faithful(GetItemTarget(site))
  BY SiteIs DEF Faithful, Diverges, FoldedRules, GetItemTarget, GetItemSource, Eval, Call, Value, Raise, Unparsable, ItemSites

(* An assignment to a subscript always diverges: its value comes last.       *)
LEMMA SetItemKept ==
  ASSUME Sites, site.rule = "setitem"
  PROVE  Faithful(SetItemTarget(site))
  BY SiteIs DEF Faithful, Diverges, FoldedRules, SetItemTarget, SetItemSource, Eval, Call, Value, Raise, Unparsable, ItemSites

(* An assignment to an attribute always diverges: its value comes last.      *)
LEMMA SetAttrKept ==
  ASSUME Sites, site.rule = "setattr"
  PROVE  Faithful(SetAttrTarget)
  BY SiteIs DEF Faithful, Diverges, FoldedRules, SetAttrTarget, SetAttrSource, Eval, Call, Value, Raise, Unparsable, ItemSites

(* super() is the first base written and self the first parameter: it        *)
(* diverges where another class follows in the order of the object's class,  *)
(* where the two methods are not bound alike, where a classmethod is left    *)
(* one, and on an argument that does not stand beside another.               *)
LEMMA SuperKept ==
  ASSUME Sites, site.rule = "super"
  PROVE  Faithful(SuperTarget(site))
<1>1. site \in SuperSites /\ source = SuperSource(site)
  BY SiteIs
<1>2. Diverges <=> \/ site.next = "sibling" \/ site.bare \/ site.kind # site.from
                   \/ site.kind = "class" /\ ~site.removed
  BY DEF Diverges, FoldedRules
<1>3. /\ site.next \in {"base", "sibling"} /\ site.kind \in {"instance", "static", "class"}
      /\ site.from \in {"instance", "class"}
  BY <1>1 DEF SuperSites
<1> DEFINE class == IF site.kind = "class" THEN <<"cls", "args">>
                    ELSE IF site.kind = "static" \/ site.from = "class" THEN <<"args">> ELSE <<"self", "args">>
           first == IF site.kind = "class" /\ ~site.removed THEN <<"base", FirstParameter(site), "args">>
                    ELSE <<FirstParameter(site), "args">>
<1>4. source = <<Eval("args"), Call(site.next, class), Value(site.next)>>
  BY <1>1 DEF SuperSource, SuperRun
<1>5. FirstParameter(site) = IF site.from = "class" THEN "cls" ELSE "self"
  BY DEF FirstParameter
<1>6. class = first <=> site.kind = site.from /\ ~(site.kind = "class" /\ ~site.removed)
  BY <1>3, <1>5
<1> HIDE DEF class, first
<1>7. CASE site.bare
  <2>1. SuperTarget(site) = <<Raise("ParseError")>>
    BY <1>7 DEF SuperTarget, Unparsable
  <2>2. QED
    BY <1>2, <1>4, <1>7, <2>1 DEF Faithful
<1>8. CASE ~site.bare
  <2>1. SuperTarget(site) = <<Eval("args"), Call("base", first), Value("base")>>
    BY <1>8 DEF SuperTarget, SuperRun, first
  <2>2. SuperTarget(site) = source <=> site.next = "base" /\ first = class
    BY <1>4, <2>1 DEF Call, Value
  <2>3. QED
    BY <1>2, <1>3, <1>6, <1>8, <2>2 DEF Faithful
<1>9. QED
  BY <1>7, <1>8

(* Membership always diverges: the container is evaluated first.             *)
LEMMA ContainsKept ==
  ASSUME Sites, site.rule \in {"in", "not_in"}
  PROVE  Faithful(ContainsTarget(site))
  <1>1. ContainsTarget(site)[1] = Eval("x")
    BY DEF ContainsTarget
  <1>2. source = ContainsSource(site) /\ Diverges
    BY SiteIs DEF Diverges, FoldedRules
  <1>20. source[1] = Eval("item")
    BY <1>2 DEF ContainsSource
  <1>4. Eval("item") # Eval("x")
    BY DEF Eval
  <1>3. QED
    BY <1>1, <1>2, <1>20, <1>4 DEF Faithful

(* An attribute through __getattr__ diverges where the instance has it.      *)
LEMMA GetAttrKept ==
  ASSUME Sites, site.rule = "getattr", GetAttrApplies(site)
  PROVE  Faithful(AccessRun)
  BY SiteIs DEF Faithful, Diverges, FoldedRules, GetAttrApplies, GetAttrSites, GetAttrSource, AccessRun, Eval, Call, Value

(* Bound methods of one class are equal when their objects are one.          *)
LEMMA BoundEqKept ==
  ASSUME Sites, site.rule = "bound_eq", site.oneOwner
  PROVE  Faithful(BoundEqTarget(site))
<1>1. (site.identical /\ site.oneOwner) = site.identical
  BY SiteIs DEF BoundEqSites
<1>2. QED
  BY <1>1, SiteIs DEF Faithful, Diverges, FoldedRules, BoundEqRun, BoundEqTarget

(* gather diverges where what it waits for is cancelled.                     *)
LEMMA GatherKept ==
  ASSUME Sites, site.rule = "gather"
  PROVE  Faithful(GatherTarget(site))
  BY SiteIs DEF Faithful, Diverges, FoldedRules, GatherSites, GatherSource, GatherTarget, Eval, Call, Value, Raise

(* A folded call diverges where the program binds the name itself, and where *)
(* a class is not as the rule takes it to be.                                *)
LEMMA FoldedKept ==
  ASSUME Sites, site.rule \in FoldedRules
  PROVE  Faithful(FoldTarget)
<1>1. source = FoldSource(site)
  BY SiteIs
<1>2. Diverges <=> site.bound # "not" \/ (OfClass(site) /\ ~site.plain)
  BY DEF Diverges, FoldedRules
<1>3. QED
  BY <1>1, <1>2 DEF Faithful, FoldSource, FoldTarget, Value

(* % formatting diverges where str or repr is bound, on a tuple, and in %d   *)
(* of what is no integer.                                                    *)
LEMMA PercentKept ==
  ASSUME Sites, site.rule = "percent"
  PROVE  Faithful(PercentTarget(site))
<1>1. site \in PercentSites /\ source = PercentSource(site)
  BY SiteIs
<1>2. Diverges <=> site.shadowed \/ site.of = "tuple" \/ (site.conversion = "%d" /\ site.of # "integer")
  BY DEF Diverges, FoldedRules
<1>3. /\ site.conversion \in {"%s", "%r", "%d"}
      /\ site.of \in {"integer", "bool", "float", "text", "tuple"}
  BY <1>1 DEF PercentSites
<1>4. source = <<Eval("x"), IF site.of = "tuple" THEN Value("element")
                            ELSE IF site.conversion # "%d" \/ site.of = "integer" THEN Value(site.conversion)
                            ELSE IF site.of = "text" THEN Raise("TypeError") ELSE Value("digits")>>
  BY <1>1 DEF PercentSource
<1>5. CASE site.shadowed
  BY <1>2, <1>4, <1>5 DEF Faithful, PercentTarget, Shown
<1>6. CASE ~site.shadowed
  BY <1>2, <1>3, <1>4, <1>6 DEF Faithful, PercentTarget, Shown, Value, Raise
<1>7. QED
  BY <1>5, <1>6

(* A private name diverges where it is that of a function or a parameter.    *)
LEMMA PrivateKept ==
  ASSUME Sites, site.rule = "private_name"
  PROVE  Faithful(PrivateTarget(site))
  BY SiteIs DEF Faithful, Diverges, FoldedRules, PrivateSites, PrivateSource, PrivateTarget, Value, Raise, Eval

(* A descriptor whose decorator goes diverges at the accesses that the rule  *)
(* does not reach, one whose decorator stays at those that it rewrites, but  *)
(* for a static method, and a class method on an argument that does not      *)
(* stand beside another.                                                     *)
LEMMA DescriptorKept ==
  ASSUME Sites, site.rule = "descriptor", Removed(site) \/ Rewritten(site)
  PROVE  Faithful(DescriptorTarget(site))
<1> DEFINE x == Eval("x")
           args == Eval("args")
           m(first) == Call("m", first)
           value == Value("m")
<1>1. \A first : Access(site, first) =
        IF site.kind = "property" THEN <<x, m(first), value>> ELSE <<x, args, m(first), value>>
  <2>1. SUFFICES ASSUME NEW first PROVE Access(site, first) =
        IF site.kind = "property" THEN <<x, m(first), value>> ELSE <<x, args, m(first), value>>
    OBVIOUS
  <2>2. CASE site.kind = "property"
    BY <2>2, Concat12 DEF Access
  <2>3. CASE site.kind # "property"
    <3>1. Access(site, first) = <<x>> \o <<args>> \o <<m(first), value>>
      BY <2>3 DEF Access
    <3>2. <<x>> \o <<args>> = <<x, args>>
      BY Concat11
    <3>3. <<x, args>> \o <<m(first), value>> = <<x, args, m(first), value>>
      BY Concat22
    <3>4. QED
      BY <2>3, <3>1, <3>2, <3>3
  <2>4. QED
    BY <2>2, <2>3
<1>2. source = DescriptorSource(site)
  BY SiteIs
<1>3. Diverges <=> \/ site.kind = "class" /\ Reached(site) /\ site.bare
                   \/ Removed(site) /\ ~Reached(site) /\ ~(site.kind = "static" /\ site.through = "class")
                   \/ ~Removed(site) /\ site.kind # "static"
  BY DEF Diverges, FoldedRules
<1>4. site.kind \in {"property", "static", "class"} /\ site.through \in {"instance", "class"}
  <2>1. site \in DescriptorSites
    BY SiteIs
  <2>2. QED
    BY <2>1 DEF DescriptorSites
<1>5. CASE site.kind = "property"
  <2>1. source = IF site.through = "instance" THEN <<x, m(<<"x">>), value>> ELSE <<x, Value("property")>>
    BY <1>1, <1>2, <1>5 DEF DescriptorSource
  <2>2. CASE ~Removed(site)
    <3>1. DescriptorTarget(site) = <<x, m(<<"x">>), Call("result", <<>>), Value("result")>>
      BY <1>5, <2>2 DEF DescriptorTarget
    <3>2. DescriptorTarget(site) # source
      BY <2>1, <3>1
    <3>3. QED
      BY <1>3, <1>5, <2>2, <3>2 DEF Faithful
  <2>3. CASE Removed(site) /\ Reached(site)
    BY <1>2, <1>3, <1>5, <2>3 DEF Faithful, DescriptorTarget
  <2>4. CASE Removed(site) /\ ~Reached(site)
    <3>1. DescriptorTarget(site) = <<x, Value("function")>>
      BY <1>5, <2>4 DEF DescriptorTarget
    <3>2. DescriptorTarget(site) # source
      BY <2>1, <3>1 DEF Value
    <3>3. QED
      BY <1>3, <1>5, <2>4, <3>2 DEF Faithful
  <2>5. QED
    BY <2>2, <2>3, <2>4
<1>6. CASE site.kind = "static"
  <2>1. source = <<x, args, m(<<>>), value>>
    BY <1>1, <1>2, <1>6 DEF DescriptorSource
  <2>2. CASE ~Removed(site)
    <3>1. DescriptorTarget(site) = <<x, args, m(<<>>), value>>
      BY <1>1, <1>6, <2>2 DEF DescriptorTarget
    <3>2. QED
      BY <1>3, <1>6, <2>1, <2>2, <3>1 DEF Faithful
  <2>3. CASE Removed(site) /\ Reached(site)
    BY <1>2, <1>3, <1>6, <2>3 DEF Faithful, DescriptorTarget
  <2>4. CASE Removed(site) /\ ~Reached(site)
    <3>1. DescriptorTarget(site) =
            IF site.through = "instance" THEN <<x, args, m(<<"x">>), value>> ELSE <<x, args, m(<<>>), value>>
      BY <1>1, <1>6, <2>4 DEF DescriptorTarget
    <3>2. DescriptorTarget(site) = source <=> site.through # "instance"
      BY <2>1, <3>1 DEF Call
    <3>3. QED
      BY <1>3, <1>4, <1>6, <2>4, <3>2 DEF Faithful
  <2>5. QED
    BY <2>2, <2>3, <2>4
<1>7. CASE site.kind = "class"
  <2>1. source = <<x, args, m(<<"C">>), value>>
    BY <1>1, <1>2, <1>7 DEF DescriptorSource
  <2>2. CASE Reached(site) /\ site.bare
    <3>1. DescriptorTarget(site) = <<Raise("ParseError")>>
      BY <1>7, <2>2 DEF DescriptorTarget, Unparsable
    <3>2. DescriptorTarget(site) # source
      BY <2>1, <3>1
    <3>3. QED
      BY <1>3, <1>7, <2>2, <3>2 DEF Faithful
  <2>3. CASE ~(Reached(site) /\ site.bare) /\ ~Removed(site)
    <3>1. DescriptorTarget(site) = <<x, args, m(<<"C", "C">>), value>>
      BY <1>1, <1>7, <2>3 DEF DescriptorTarget
    <3>2. DescriptorTarget(site) # source
      BY <2>1, <3>1 DEF Call
    <3>3. QED
      BY <1>3, <1>7, <2>3, <3>2 DEF Faithful
  <2>4. CASE ~site.bare /\ Removed(site) /\ Reached(site)
    BY <1>2, <1>3, <1>7, <2>4 DEF Faithful, DescriptorTarget
  <2>5. CASE Removed(site) /\ ~Reached(site)
    <3>1. DescriptorTarget(site) =
            IF site.through = "instance" THEN <<x, args, m(<<"x">>), value>> ELSE <<x, args, m(<<>>), value>>
      BY <1>1, <1>7, <2>5 DEF DescriptorTarget
    <3>2. m(<<"x">>) # m(<<"C">>) /\ m(<<>>) # m(<<"C">>)
      BY DEF Call
    <3>3. DescriptorTarget(site) # source
      BY <2>1, <3>1, <3>2
    <3>4. QED
      BY <1>3, <1>7, <2>5, <3>3 DEF Faithful
  <2>6. QED
    BY <2>2, <2>3, <2>4, <2>5
<1>8. QED
  BY <1>4, <1>5, <1>6, <1>7

(* A builtin diverges where its name is bound, where list asks for a length  *)
(* or goes through no iterator, where a result is refused, and where bool    *)
(* is an operand that the comparison takes apart.                            *)
LEMMA BuiltinKept ==
  ASSUME Sites, site.rule = "builtin", MethodApplies(site)
  PROVE  Faithful(BuiltinTarget(site))
<1>1. source = BuiltinSource(site) /\ site.has
  BY SiteIs DEF MethodApplies
<1>2. Diverges <=> \/ site.shadowed
                   \/ site.name = "list" /\ (site.sized \/ site.odd)
                   \/ site.name \in Checked /\ site.odd
                   \/ Regrouped(site)
  BY DEF Diverges, FoldedRules
<1>3. Regrouped(site) => site.name = "bool"
  BY DEF Regrouped
<1>4. "list" \notin Checked
  BY DEF Checked
<1>5. CASE site.name # "list"
  <2>1. BuiltinTarget(site) = <<Eval("x"), Call("x", <<>>), Value(IF Regrouped(site) THEN "regrouped" ELSE "x")>>
    BY <1>5 DEF BuiltinTarget
  <2>2. CASE site.shadowed
    <3>1. source = <<Eval("x"), Call("shadow", <<"x">>), Value("shadow")>>
      BY <1>1, <2>2 DEF BuiltinSource
    <3>2. QED
      BY <1>2, <2>1, <2>2, <3>1 DEF Faithful, Call
  <2>3. CASE ~site.shadowed
    <3>1. source = <<Eval("x"), Call("x", <<>>),
                     IF site.odd /\ site.name \in Checked THEN Raise("TypeError") ELSE Value("x")>>
      BY <1>1, <1>5, <2>3 DEF BuiltinSource
    <3>2. QED
      BY <1>2, <1>5, <2>1, <2>3, <3>1 DEF Faithful, Value, Raise
  <2>4. QED
    BY <2>2, <2>3
<1>6. CASE site.name = "list"
  <2>1. BuiltinTarget(site) = IF site.odd THEN <<Eval("x"), Call("iter", <<>>), Raise("AttributeError")>>
                              ELSE <<Eval("x"), Call("iter", <<>>), Call("next", <<>>), Value("x")>>
    BY <1>6 DEF BuiltinTarget
  <2>2. CASE site.shadowed
    <3>1. source = <<Eval("x"), Call("shadow", <<"x">>), Value("shadow")>>
      BY <1>1, <2>2 DEF BuiltinSource
    <3>2. BuiltinTarget(site) # source
      BY <2>1, <3>1 DEF Call
    <3>3. QED
      BY <1>2, <2>2, <3>2 DEF Faithful
  <2>3. CASE ~site.shadowed
    <3>1. source = IF site.odd THEN <<Eval("x"), Call("iter", <<>>), Raise("TypeError")>>
                   ELSE IF site.sized
                   THEN <<Eval("x"), Call("iter", <<>>), Call("len", <<>>), Call("next", <<>>), Value("x")>>
                   ELSE <<Eval("x"), Call("iter", <<>>), Call("next", <<>>), Value("x")>>
      BY <1>1, <1>6, <2>3 DEF BuiltinSource
    <3>2. BuiltinTarget(site) = source <=> ~site.odd /\ ~site.sized
      <4> DEFINE x == Eval("x")
                 iter == Call("iter", <<>>)
                 len == Call("len", <<>>)
                 next == Call("next", <<>>)
                 value == Value("x")
                 te == Raise("TypeError")
                 ae == Raise("AttributeError")
      <4>1. source = IF site.odd THEN <<x, iter, te>>
                     ELSE IF site.sized THEN <<x, iter, len, next, value>> ELSE <<x, iter, next, value>>
        BY <3>1
      <4>2. BuiltinTarget(site) = IF site.odd THEN <<x, iter, ae>> ELSE <<x, iter, next, value>>
        BY <2>1
      <4>3. te # ae
        BY DEF Raise
      <4> HIDE DEF x, iter, len, next, value, te, ae
      <4>4. CASE site.odd
        BY <4>1, <4>2, <4>3, <4>4
      <4>5. CASE ~site.odd
        BY <4>1, <4>2, <4>5
      <4>6. QED
        BY <4>4, <4>5
    <3>3. QED
      BY <1>2, <1>3, <1>4, <1>6, <2>3, <3>2 DEF Faithful
  <2>4. QED
    BY <2>2, <2>3
<1>7. QED
  BY <1>5, <1>6

(* str.format diverges on a starred argument, on an object with __format__,  *)
(* and where str or repr is bound.                                           *)
LEMMA FormatKept ==
  ASSUME Sites, site.rule = "str_format"
  PROVE  Faithful(FormatTarget(site))
<1> DEFINE x == Eval("x")
           shown == Value(site.field)
           shadow == Call("shadow", <<"x">>)
           result == Value("shadow")
           format == Call("x", <<"spec">>)
           text == Value("x")
           error == Raise("ParseError")
           formats == site.of = "formats" /\ site.field = "{}"
<1>1. source = IF formats THEN <<x, format, text>> ELSE <<x, shown>>
  <2>1. source = <<x>> \o IF formats THEN <<format, text>> ELSE <<shown>>
    BY SiteIs DEF FormatSource
  <2>2. <<x>> \o <<format, text>> = <<x, format, text>> /\ <<x>> \o <<shown>> = <<x, shown>>
    BY Concat11, Concat12
  <2> HIDE DEF x, shown, format, text, formats
  <2>3. QED
    BY <2>1, <2>2
<1>2. Diverges <=> site.starred \/ site.shadowed \/ formats
  BY DEF Diverges, FoldedRules
<1>3. FormatTarget(site) = IF site.starred THEN <<error>>
                           ELSE IF site.shadowed THEN <<x, shadow, result>> ELSE <<x, shown>>
  BY DEF FormatTarget, Shown, Unparsable
<1>4. shadow # format
  BY DEF Call
<1> HIDE DEF x, shown, shadow, result, format, text, error, formats
<1>5. CASE site.starred
  BY <1>1, <1>2, <1>3, <1>5 DEF Faithful
<1>6. CASE ~site.starred /\ site.shadowed
  BY <1>1, <1>2, <1>3, <1>4, <1>6 DEF Faithful
<1>7. CASE ~site.starred /\ ~site.shadowed
  BY <1>1, <1>2, <1>3, <1>7 DEF Faithful
<1>8. QED
  BY <1>5, <1>6, <1>7

(* An f-string with one interpolation diverges where a plain string stands   *)
(* beside it, where __format__ returns no text, and where the helper finds   *)
(* no __format__ that CPython has.                                           *)
LEMMA FStringKept ==
  ASSUME Sites, site.rule = "fstring"
  PROVE  Faithful(FStringTarget(site))
<1>1. site \in FStringSites /\ source = FStringSource(site)
  BY SiteIs
<1>2. Diverges <=> IF site.has THEN site.odd \/ site.beside
                   ELSE site.spec = "none" /\ (site.beside \/ ~site.inherits)
  BY DEF Diverges, FoldedRules
<1>3. CASE site.has
  BY <1>1, <1>2, <1>3 DEF Faithful, FStringSource, FStringTarget, Value, Raise
<1>4. CASE ~site.has
  BY <1>1, <1>2, <1>4 DEF Faithful, FStringSource, FStringTarget, Value, Raise
<1>5. QED
  BY <1>3, <1>4

(* | diverges where the class of a dictionary overrides it.                  *)
LEMMA UnionKept ==
  ASSUME Sites, site.rule = "union"
  PROVE  Faithful(UnionTarget(site))
<1>1. UnionSource(site) = IF site.of = "overriding"
                          THEN <<Eval("l"), Eval("r"), Call("l", <<"r">>), Value("l")>>
                          ELSE <<Eval("l"), Eval("r"), Value(site.of)>>
  BY Concat21, Concat22 DEF UnionSource
<1>2. QED
  BY <1>1, SiteIs DEF Faithful, Diverges, FoldedRules, UnionSites, UnionTarget, Eval, Call, Value

(* list(iter(f, stop)) diverges where stop has an __eq__ or equals nothing.  *)
LEMMA StopKept ==
  ASSUME Sites, site.rule = "callable_iterator"
  PROVE  Faithful(StopRun(site, "f", Call("f", <<>>)))
<1>1. \A compared, last : StopRun(site, compared, last) =
        CASE site.stop = "user" -> <<Eval("f"), Eval("stop"), Call("f", <<>>), Call(compared, <<>>), Value("list")>>
          [] site.stop = "unequal" -> <<Eval("f"), Eval("stop"), Call("f", <<>>), last>>
          [] OTHER -> <<Eval("f"), Eval("stop"), Call("f", <<>>), Value("list")>>
  BY ZenonT(60), Concat31, Concat32 DEF StopRun
<1>2. QED
  BY <1>1, SiteIs DEF Faithful, Diverges, FoldedRules, StopSites, Eval, Call, Value

(* A dataclass diverges in each of its own methods, options, special         *)
(* fields, and when it is compared with another class.                       *)
LEMMA DataclassKept ==
  ASSUME Sites, site.rule = "dataclass", site.own # "__init__"
  PROVE  Faithful(DataclassTarget(site))
<1>0. site \in DataclassSites /\ source = DataclassSource(site)
  BY SiteIs
<1> DEFINE made == Bind(CASE site.field = "factory" -> "a new value"
                  [] site.field = "class_variable" -> "nothing"
                  [] site.field = "plain" -> "the default")
           shown == IF site.own = "__repr__" THEN Call("__repr__", <<>>)
                    ELSE Value(IF site.field = "class_variable" THEN "no fields" ELSE "fields")
           equal == IF site.own = "__eq__" THEN Call("__eq__", <<>>)
                    ELSE IF site.other = "same" THEN Value("fields") ELSE Call("other", <<>>)
           set == IF site.options = "frozen" THEN Raise("FrozenInstanceError") ELSE Bind("field")
<1>1. source = <<made, shown>> \o <<equal>> \o <<set>>
  BY <1>0 DEF DataclassSource
<1>2. made = Bind("the default") <=> site.field = "plain"
  BY <1>0 DEF Bind, DataclassSites
<1>3. site.field = "plain" => (shown = Value("fields") <=> site.own # "__repr__")
  BY <1>0 DEF Call, Value
<1>4. equal = Value(IF site.other = "other" THEN FALSE ELSE "fields") <=> site.own # "__eq__" /\ site.other = "same"
  BY <1>0 DEF Call, Value
<1>5. set = Bind("field") <=> site.options = "none"
  BY <1>0 DEF Bind, Raise, DataclassSites
<1>6. Diverges <=> \/ site.own # "none" \/ site.options # "none" \/ site.field # "plain"
                   \/ site.other # "same"
  BY DEF Diverges, FoldedRules
<1>7. site.own \in {"none", "__repr__", "__eq__"}
  BY <1>0 DEF DataclassSites
<1> HIDE DEF made, shown, equal, set
<1>8. <<made, shown>> \o <<equal>> = <<made, shown, equal>>
  BY Concat21
<1>9. source = <<made, shown, equal, set>>
  BY <1>1, <1>8, Concat31
<1>10. QED
  BY <1>2, <1>3, <1>4, <1>5, <1>6, <1>7, <1>9 DEF Faithful, DataclassTarget

(* A comprehension of a class body diverges where it uses names that a       *)
(* function of the module does not see.                                      *)
LEMMA ComprehensionKept ==
  ASSUME Sites, site.rule = "class_comprehension"
  PROVE  Faithful(ComprehensionTarget(site))
<1>1. source = ComprehensionSource
  BY SiteIs
<1>2. Diverges <=> site.uses # "module"
  BY DEF Diverges, FoldedRules
<1>3. QED
  BY <1>1, <1>2 DEF Faithful, ComprehensionTarget, ComprehensionSource

(* The name of a class diverges where it is no text, where it is set in a    *)
(* function, and where it is read through another expression.                *)
LEMMA ClassNameKept ==
  ASSUME Sites, site.rule = "class_name"
  PROVE  Faithful(ClassNameTarget(site))
<1>1. source = ClassNameSource(site)
  BY SiteIs
<1>2. Diverges <=> site.odd \/ site.local \/ site.read = "else"
  BY DEF Diverges, FoldedRules
<1>3. QED
  BY <1>1, <1>2 DEF Faithful, ClassNameSource, ClassNameTarget, Eval, Bind, Value

(* The import of dataclass diverges where the name is still used and where   *)
(* its line is not its own.                                                  *)
LEMMA ImportKept ==
  ASSUME Sites, site.rule = "dataclass_import"
  PROVE  Faithful(ImportTarget(site))
<1> DEFINE n == Eval("neighbour")
           d == Value("dataclass")
           e == Raise("NameError")
           p == Raise("ParseError")
<1>1. site \in ImportSites /\ source = ImportSource(site)
  BY SiteIs
<1>2. Diverges <=> site.used \/ site.line # "own"
  BY DEF Diverges, FoldedRules
<1>3. site.line \in {"own", "shared", "block"}
  BY <1>1 DEF ImportSites
<1>4. source = (IF site.line = "shared" THEN <<n>> ELSE <<>>) \o (IF site.used THEN <<d>> ELSE <<>>)
  BY <1>1 DEF ImportSource, Neighbour
<1>5. /\ <<n>> \o <<d>> = <<n, d>> /\ <<n>> \o <<>> = <<n>>
      /\ <<>> \o <<d>> = <<d>> /\ <<>> \o <<>> = <<>>
  BY Concat11, OneElement, Nothing
<1>6. ImportTarget(site) = IF site.line = "block" THEN <<p>> ELSE IF site.used THEN <<e>> ELSE <<>>
  BY DEF ImportTarget, Unparsable
<1>7. n # e /\ d # e /\ d # p
  BY DEF Eval, Value, Raise
<1> HIDE DEF n, d, e, p
<1>8. CASE site.line = "shared"
  BY <1>2, <1>4, <1>5, <1>6, <1>7, <1>8 DEF Faithful
<1>9. CASE site.line # "shared"
  <2>1. source = IF site.used THEN <<d>> ELSE <<>>
    BY <1>4, <1>5, <1>9
  <2>2. QED
    BY <1>2, <1>3, <1>6, <1>7, <1>9, <2>1 DEF Faithful
<1>10. QED
  BY <1>8, <1>9

(* An if statement diverges where its elif is dropped, where nothing is left *)
(* of a block, and where a string of its branch is indented anew.            *)
LEMMA IfKept ==
  ASSUME Sites, site.rule \in {"class_body_if", "dead_if"}, ~IfIsDiagnosed(site), IfApplies(site)
  PROVE  Faithful(IfTarget(site))
<1>1. site \in IfSites /\ source = IfSource(site)
  BY SiteIs
<1>2. Diverges <=>
        \/ site.strings /\ (site.test = "True" \/ site.clauses = "else")
        \/ /\ site.test = "False"
           /\ site.clauses = "elif" \/ (site.clauses = "none" /\ site.only)
  BY DEF Diverges, FoldedRules
<1>3. CASE site.test = "True"
  <2>1. source = <<Eval("body")>> /\ IfTarget(site) = <<Reindented(site, "body")>>
    BY <1>1, <1>3 DEF IfSource, IfTarget
  <2>2. Reindented(site, "body") = Eval("body") <=> ~site.strings
    BY DEF Reindented, Eval
  <2>3. QED
    BY <1>2, <1>3, <2>1, <2>2 DEF Faithful
<1>4. CASE site.test = "False"
  <2>1. source = ClausesRun(site)
    BY <1>1, <1>4 DEF IfSource
  <2>2. site.clauses \in {"none", "else", "elif"}
    BY <1>1, <1>4 DEF IfSites, IfIsDiagnosed, IfApplies
  <2>3. CASE site.clauses = "elif"
    <3>1. source = <<Eval("elif test")>> \o IF "elif" \in site.holds THEN <<Eval("elif")>> ELSE <<>>
      BY <2>1, <2>3 DEF ClausesRun
    <3>2. source = <<Eval("elif test"), Eval("elif")>> \/ source = <<Eval("elif test")>>
      <4>1. <<Eval("elif test")>> \o <<Eval("elif")>> = <<Eval("elif test"), Eval("elif")>>
        BY Concat11
      <4>2. <<Eval("elif test")>> \o <<>> = <<Eval("elif test")>>
        OBVIOUS
      <4>3. QED
        BY <3>1, <4>1, <4>2
    <3>3. IfTarget(site) = Unparsable \/ IfTarget(site) = <<>>
      BY <1>4, <2>3 DEF IfTarget
    <3>4. Unparsable # <<Eval("elif test")>> /\ Unparsable # <<Eval("elif test"), Eval("elif")>>
      BY DEF Unparsable, Eval, Raise
    <3>5. <<>> # <<Eval("elif test")>> /\ <<>> # <<Eval("elif test"), Eval("elif")>>
      OBVIOUS
    <3>6. IfTarget(site) # source
      BY <3>2, <3>3, <3>4, <3>5
    <3>7. QED
      BY <1>2, <1>4, <2>3, <3>6 DEF Faithful
  <2>4. CASE site.clauses = "else"
    <3>1. source = <<Eval("else")>> /\ IfTarget(site) = <<Reindented(site, "else")>>
      BY <1>4, <2>1, <2>4 DEF ClausesRun, IfTarget
    <3>2. Reindented(site, "else") = Eval("else") <=> ~site.strings
      BY DEF Reindented, Eval
    <3>3. QED
      BY <1>2, <1>4, <2>4, <3>1, <3>2 DEF Faithful
  <2>5. CASE site.clauses = "none"
    BY <1>2, <1>4, <2>1, <2>5 DEF Faithful, ClausesRun, IfTarget, Unparsable
  <2>6. QED
    BY <2>2, <2>3, <2>4, <2>5
<1>5. QED
  BY <1>1, <1>3, <1>4 DEF IfSites, IfIsDiagnosed, IfApplies

(* A nested class diverges when it is moved before what its body needs or    *)
(* what has run, where its name shows, and where a string of it is indented  *)
(* anew.                                                                     *)
LEMMA NestedKept ==
  ASSUME Sites, site.rule = "nested_class"
  PROVE  Faithful(NestedTarget(site))
<1>1. site \in NestedSites /\ source = NestedSource(site)
  BY SiteIs
<1>2. Diverges <=> site.before \/ site.header \/ site.shown \/ site.strings
  BY DEF Diverges, FoldedRules
<1> DEFINE inner == Eval("inner")
           moved == Reindented(site, "inner")
           bind == Bind("Inner")
           earlier == Eval("earlier")
<1>3. source = Earlier(site) \o <<inner, bind>> \o (IF site.shown THEN <<Value("Inner")>> ELSE <<>>)
  BY <1>1 DEF NestedSource
<1>4. ~site.header =>
        NestedTarget(site) = <<moved>> \o Earlier(site) \o <<bind>>
                             \o (IF site.shown THEN <<Value("generated")>> ELSE <<>>)
  BY DEF NestedTarget
<1>5. /\ site.before => Earlier(site) = <<earlier>>
      /\ ~site.before => Earlier(site) = <<>>
  BY DEF Earlier
<1>6. inner # earlier /\ moved # earlier /\ (moved = inner <=> ~site.strings) /\ Value("Inner") # Value("generated") /\ inner # Raise("NameError") /\ earlier # Raise("NameError")
  BY DEF Reindented, Eval, Value, Raise
<1> HIDE DEF inner, moved, bind, earlier
<1>7. \A s : IsList(s) => s \o <<>> = s /\ <<>> \o s = s
  BY Nothing
<1> DEFINE was == Value("Inner")
           is == Value("generated")
           error == Raise("NameError")
<1>8. /\ <<earlier>> \o <<inner, bind>> = <<earlier, inner, bind>>
      /\ <<moved>> \o <<earlier>> = <<moved, earlier>> /\ <<moved, earlier>> \o <<bind>> = <<moved, earlier, bind>>
      /\ <<>> \o <<inner, bind>> = <<inner, bind>>
      /\ <<moved>> \o <<>> = <<moved>> /\ <<moved>> \o <<bind>> = <<moved, bind>>
  <2>1. <<>> \o <<inner, bind>> = <<inner, bind>> /\ <<moved>> \o <<>> = <<moved>>
    BY <1>7, OneElement, TwoElements
  <2>2. QED
    BY <2>1, Concat11, Concat12, Concat21
<1>9. \A x : /\ <<earlier, inner, bind>> \o <<x>> = <<earlier, inner, bind, x>>
             /\ <<moved, earlier, bind>> \o <<x>> = <<moved, earlier, bind, x>>
             /\ <<inner, bind>> \o <<x>> = <<inner, bind, x>>
             /\ <<moved, bind>> \o <<x>> = <<moved, bind, x>>
  BY ZenonT(60), Concat21, Concat31
<1>10. /\ <<earlier, inner, bind>> \o <<>> = <<earlier, inner, bind>>
       /\ <<moved, earlier, bind>> \o <<>> = <<moved, earlier, bind>>
       /\ <<inner, bind>> \o <<>> = <<inner, bind>>
       /\ <<moved, bind>> \o <<>> = <<moved, bind>>
  BY <1>7, TwoElements, Elements
<1>11. inner # earlier /\ moved # earlier /\ (moved = inner <=> ~site.strings) /\ was # is /\ inner # error /\ earlier # error
  BY <1>6
<1> HIDE DEF was, is, error
<1>12. CASE site.before
  <2>1. source = <<earlier, inner, bind, was>> \/ source = <<earlier, inner, bind>>
    <3>1. source = <<earlier, inner, bind>> \o (IF site.shown THEN <<was>> ELSE <<>>)
      BY <1>3, <1>5, <1>8, <1>12 DEF was
    <3>2. QED
      BY <1>9, <1>10, <3>1
  <2>2. \/ NestedTarget(site) = <<error>>
        \/ NestedTarget(site) = <<moved, earlier, bind, is>>
        \/ NestedTarget(site) = <<moved, earlier, bind>>
    <3>1. CASE site.header
      BY <3>1 DEF NestedTarget, error
    <3>2. CASE ~site.header
      <4>1. NestedTarget(site) = <<moved, earlier, bind>> \o (IF site.shown THEN <<is>> ELSE <<>>)
        BY <1>4, <1>5, <1>8, <1>12, <3>2 DEF is
      <4>2. QED
        BY <1>9, <1>10, <4>1
    <3>3. QED
      BY <3>1, <3>2
  <2>3. NestedTarget(site) # source
    BY <1>11, <2>1, <2>2
  <2>4. QED
    BY <1>2, <1>12, <2>3 DEF Faithful
<1>13. CASE ~site.before
  <2>1. source = IF site.shown THEN <<inner, bind, was>> ELSE <<inner, bind>>
    <3>1. source = <<inner, bind>> \o (IF site.shown THEN <<was>> ELSE <<>>)
      BY <1>3, <1>5, <1>8, <1>13 DEF was
    <3>2. QED
      BY <1>9, <1>10, <3>1
  <2>2. CASE site.header
    <3>1. NestedTarget(site) = <<error>>
      BY <2>2 DEF NestedTarget, error
    <3>2. NestedTarget(site) # source
      BY <1>11, <2>1, <3>1
    <3>3. QED
      BY <1>2, <2>2, <3>2 DEF Faithful
  <2>3. CASE ~site.header
    <3>1. NestedTarget(site) = <<moved, bind>> \o (IF site.shown THEN <<is>> ELSE <<>>)
      BY <1>4, <1>5, <1>8, <1>13, <2>3 DEF is
    <3>2. NestedTarget(site) = IF site.shown THEN <<moved, bind, is>> ELSE <<moved, bind>>
      BY <1>9, <1>10, <3>1
    <3>3. NestedTarget(site) = source <=> ~site.shown /\ ~site.strings
      BY <1>11, <2>1, <3>2
    <3>4. QED
      BY <1>2, <1>13, <2>3, <3>3 DEF Faithful
  <2>4. QED
    BY <2>2, <2>3
<1>14. QED
  BY <1>12, <1>13

(* The unpacking of a class body is kept only on a line of its own, of a     *)
(* sequence of the right length.                                             *)
LEMMA TupleKept ==
  ASSUME Sites, site.rule = "class_tuple"
  PROVE  Faithful(TupleTarget(site))
<1> DEFINE n == Eval("neighbour")
           v == Eval("value")
           x == Bind("x")
           y == Bind("y")
           ve == Raise("ValueError")
           ie == Raise("IndexError")
           te == Raise("TypeError")
           before == Neighbour(site, "before")
           after == Neighbour(site, "after")
<1>1. site \in TupleSites /\ source = TupleSource(site)
  BY SiteIs
<1>2. site.of \in {"exact", "short", "long", "iterator"} /\ site.line \in {"own", "before", "after"}
  BY <1>1 DEF TupleSites
<1>3. Diverges <=> site.of # "exact" \/ site.line # "own"
  BY DEF Diverges, FoldedRules
<1>4. source = before \o <<v>> \o IF site.of \in {"exact", "iterator"} THEN <<x, y>> \o after ELSE <<ve>>
  BY <1>1 DEF TupleSource
<1>5. /\ site.of = "short" => TupleTarget(site) = (before \o <<v>>) \o ((before \o <<x>>) \o (before \o <<ie>>))
      /\ site.of = "iterator" => TupleTarget(site) = (before \o <<v>>) \o (before \o <<te>>)
      /\ site.of \in {"exact", "long"} => TupleTarget(site) = (before \o <<v>>) \o ((before \o <<x>>) \o (before \o <<y>>))
  BY DEF TupleTarget
<1>6. /\ site.line = "before" => before = <<n>> /\ after = <<>>
      /\ site.line = "own" => before = <<>> /\ after = <<>>
      /\ site.line = "after" => before = <<>> /\ after = <<n>>
  BY DEF Neighbour
<1>7. ve # x /\ x # te /\ n # x /\ n # ve
  BY DEF Eval, Bind, Raise
<1> HIDE DEF n, v, x, y, ve, ie, te, before, after
<1>8. \A s : IsList(s) => s \o <<>> = s /\ <<>> \o s = s
  BY Nothing
<1>9. CASE site.line = "before"
  <2>1. \A z : <<n>> \o <<z>> = <<n, z>>
    BY Concat11
  <2>2. \A z : <<n, v>> \o <<n, z>> = <<n, v, n, z>> /\ <<n, x>> \o <<n, z>> = <<n, x, n, z>>
    BY Concat22
  <2>3. \A z : <<n, v>> \o <<n, x, n, z>> = <<n, v, n, x, n, z>>
    BY Concat24
  <2>4. TupleTarget(site) = <<n, v, n, x, n, ie>> \/ TupleTarget(site) = <<n, v, n, te>>
        \/ TupleTarget(site) = <<n, v, n, x, n, y>>
    BY ZenonT(60), <1>2, <1>5, <1>6, <1>9, <2>1, <2>2, <2>3
  <2>5. <<x, y>> \o <<>> = <<x, y>>
    BY <1>8, TwoElements
  <2>6. <<n, v>> \o <<x, y>> = <<n, v, x, y>> /\ <<n, v>> \o <<ve>> = <<n, v, ve>>
    BY Concat21, Concat22
  <2>7. source = <<n, v, x, y>> \/ source = <<n, v, ve>>
    BY <1>4, <1>6, <1>9, <2>1, <2>5, <2>6
  <2>8. TupleTarget(site) # source
    BY <1>7, <2>4, <2>7
  <2>9. QED
    BY <1>3, <1>9, <2>8 DEF Faithful
<1>10. CASE site.line # "before"
  <2>1. before = <<>> /\ \A z : <<>> \o <<z>> = <<z>>
    BY <1>2, <1>6, <1>8, <1>10, OneElement
  <2>2. \A z : <<v>> \o <<z>> = <<v, z>> /\ <<x>> \o <<z>> = <<x, z>>
    BY Concat11
  <2>3. \A z : <<v>> \o <<x, z>> = <<v, x, z>>
    BY Concat12
  <2>4. /\ site.of = "short" => TupleTarget(site) = <<v, x, ie>>
        /\ site.of = "iterator" => TupleTarget(site) = <<v, te>>
        /\ site.of \in {"exact", "long"} => TupleTarget(site) = <<v, x, y>>
    BY ZenonT(60), <1>5, <2>1, <2>2, <2>3
  <2>5. <<x, y>> \o <<>> = <<x, y>> /\ <<x, y>> \o <<n>> = <<x, y, n>> /\ <<v>> \o <<x, y, n>> = <<v, x, y, n>>
    BY <1>8, TwoElements, Concat21, Concat13
  <2>6. /\ site.of \in {"exact", "iterator"} /\ site.line = "own" => source = <<v, x, y>>
        /\ site.of \in {"exact", "iterator"} /\ site.line = "after" => source = <<v, x, y, n>>
        /\ site.of \notin {"exact", "iterator"} => source = <<v, ve>>
    BY <1>4, <1>6, <2>1, <2>2, <2>3, <2>5
  <2>7. TupleTarget(site) = source <=> site.of = "exact" /\ site.line = "own"
    BY <1>2, <1>7, <1>10, <2>4, <2>6
  <2>8. QED
    BY <1>3, <2>7 DEF Faithful
<1>11. QED
  BY <1>9, <1>10

(* An assertion diverges where a statement follows on its line.              *)
LEMMA AssertKept ==
  ASSUME Sites, site.rule = "assert", site.line # "before"
  PROVE  Faithful(AssertTarget(site))
<1> DEFINE test == Eval("test")
           message == Eval("message")
           error == Raise("AssertionError")
           n == Eval("neighbour")
           T == AssertTarget(site)
<1>1. source = AssertSource(site)
  BY SiteIs
<1>2. Diverges <=> site.line = "after" /\ site.holds
  BY DEF Diverges, FoldedRules
<1>3. source = <<>> \o T \o (IF site.holds /\ site.line = "after" THEN <<n>> ELSE <<>>)
  BY <1>1 DEF AssertSource, Neighbour
<1>4. T = <<test>> \o IF site.holds THEN <<>> ELSE (IF site.message THEN <<message>> ELSE <<>>) \o <<error>>
  BY DEF AssertTarget
<1> HIDE DEF test, message, error, n, T
<1>5. \A s : IsList(s) => s \o <<>> = s /\ <<>> \o s = s
  BY Nothing
<1>6. /\ <<>> \o <<error>> = <<error>> /\ <<message>> \o <<error>> = <<message, error>>
      /\ <<test>> \o <<>> = <<test>> /\ <<test>> \o <<error>> = <<test, error>>
      /\ <<test>> \o <<message, error>> = <<test, message, error>>
  BY <1>5, OneElement, Concat11, Concat12
<1>7. (site.holds => T = <<test>>) /\ (T = <<test>> \/ T = <<test, error>> \/ T = <<test, message, error>>)
  BY <1>4, <1>6
<1>8. IsList(T)
  BY <1>7, OneElement, TwoElements, Elements
<1>9. CASE site.holds /\ site.line = "after"
  <2>1. source = T \o <<n>>
    BY <1>3, <1>5, <1>8, <1>9
  <2>2. source = <<test, n>> /\ T = <<test>>
    BY <1>7, <1>9, <2>1, Concat11
  <2>3. QED
    BY <1>2, <1>9, <2>2 DEF Faithful, T
<1>10. CASE ~(site.holds /\ site.line = "after")
  <2>1. source = T
    BY <1>3, <1>5, <1>8, <1>10
  <2>2. QED
    BY <1>2, <1>10, <2>1 DEF Faithful, T
<1>11. QED
  BY <1>9, <1>10

(* A with statement diverges where its body raises, without a final newline, *)
(* where the manager is none, and where a string of its body is indented     *)
(* anew.                                                                     *)
LEMMA ExitKept ==
  ASSUME Sites, site.rule \in {"with_exit", "async_with"}
  PROVE  Faithful(ExitTarget(site))
<1>1. site \in ExitSites /\ source = ExitSource(site)
  BY SiteIs
<1>2. site.rule = "async_with" => ~site.strings
  BY <1>1 DEF ExitSites
<1>3. Diverges <=> \/ site.raises \/ ~site.has
                   \/ site.rule = "with_exit" /\ (~site.newline \/ site.strings)
  BY DEF Diverges, FoldedRules
<1>4. site.raises \in BOOLEAN
  BY <1>1 DEF ExitSites
<1> DEFINE manager == Eval("manager")
           enter == Call("enter", <<>>)
           body == Eval("body")
           moved == Reindented(site, "body")
           exit(raises) == Call("exit", <<raises>>)
           error == Raise("body")
           value == Value("body")
<1>5. source = IF ~site.has THEN <<manager, Raise("TypeError")>>
               ELSE <<manager, enter, body, exit(site.raises), IF site.raises THEN error ELSE value>>
  BY <1>1 DEF ExitSource
<1>6. moved = body <=> ~site.strings
  BY DEF Reindented, Eval
<1>7. CASE site.rule = "with_exit" /\ ~site.newline
  <2>1. ExitTarget(site) = <<Raise("ParseError")>>
    BY <1>7 DEF ExitTarget, Unparsable
  <2>2. ExitTarget(site) # source
    BY <1>5, <2>1
  <2>3. QED
    BY <1>3, <1>7, <2>2 DEF Faithful
<1>8. CASE ~(site.rule = "with_exit" /\ ~site.newline) /\ ~site.has
  <2>1. ExitTarget(site) = <<manager, Raise("AttributeError")>>
    BY <1>8 DEF ExitTarget
  <2>2. ExitTarget(site) # source
    BY <1>5, <1>8, <2>1 DEF Raise
  <2>3. QED
    BY <1>3, <1>8, <2>2 DEF Faithful
<1>9. CASE ~(site.rule = "with_exit" /\ ~site.newline) /\ site.has /\ site.raises
  <2>1. ExitTarget(site) = <<manager, enter, moved, error>>
    BY <1>9 DEF ExitTarget
  <2>2. ExitTarget(site) # source
    BY <1>5, <1>9, <2>1
  <2>3. QED
    BY <1>3, <1>9, <2>2 DEF Faithful
<1>10. CASE ~(site.rule = "with_exit" /\ ~site.newline) /\ site.has /\ ~site.raises
  <2>1. site.raises = FALSE
    BY <1>4, <1>10
  <2>2. ExitTarget(site) = <<manager, enter, moved, exit(FALSE), value>>
    BY <1>10 DEF ExitTarget
  <2>3. source = <<manager, enter, body, exit(FALSE), value>>
    BY <1>5, <1>10, <2>1
  <2>4. ExitTarget(site) = source <=> moved = body
    BY <2>2, <2>3
  <2>5. QED
    BY <1>1, <1>2, <1>3, <1>6, <1>10, <2>4 DEF Faithful
<1>11. QED
  BY <1>7, <1>8, <1>9, <1>10

(* A lazy call diverges where its name is bound.                             *)
LEMMA LazyKept ==
  ASSUME Sites, site.rule \in {"lazy", "generator"}
  PROVE  Faithful(LazyTarget(site))
<1>1. site \in LazySites /\ source = LazySource(site)
  BY SiteIs
<1>2. Diverges <=> site.rule = "lazy" /\ site.shadowed
  BY DEF Diverges, FoldedRules
<1>3. site.rule = "generator" => ~site.shadowed
  BY <1>1 DEF LazySites
<1>4. Len(site.iterables) \in Nat
  <2>1. PICK n \in Nat : site.iterables \in [1..n -> Iterables]
    <3>1. site.iterables \in PartsOf(Iterables) \/ site.iterables \in [1..1 -> Iterables]
      BY <1>1 DEF LazySites
    <3>2. \A S : PartsOf(S) = UNION {[1..m -> S] : m \in 1..MaxParts}
      BY DEF PartsOf
    <3>3. \A S : \A f \in PartsOf(S) : \E m \in 1..MaxParts : f \in [1..m -> S]
      BY <3>2
    <3>4. 1..MaxParts \subseteq Nat /\ 1 \in Nat
      BY RuleAssumption
    <3>5. QED
      BY <3>1, <3>3, <3>4
  <2>2. IsList(site.iterables) /\ Len(site.iterables) = n
    BY <2>1, ListOf
  <2>3. QED
    BY <2>1, <2>2
<1> DEFINE n == Len(site.iterables)
           first == IF site.rule = "lazy" THEN <<Eval("function")>> ELSE <<>>
           each == [i \in 1..n |-> IF site.iterables[i] = "callable" THEN <<Eval("f"), Eval("stop")>>
                                   ELSE <<Eval("iterable")>>]
           T == LazyTarget(site)
<1>5. T = first \o FlattenSeq(each) \o <<Value("unused")>>
  BY DEF LazyTarget
<1>6. IsList(first) /\ IsList(FlattenSeq(each))
  <2>1. IsList(first)
    BY OneElement, Nothing
  <2>2. \A i \in 1..n : IsList(each[i])
    BY OneElement, TwoElements
  <2>3. FirstOf(each, n) = each
    BY DEF FirstOf
  <2>4. QED
    BY <1>4, <2>1, <2>2, <2>3, FlattenIsList
<1> HIDE DEF first, each, n
<1>7. IsList(T) /\ Len(T) \in Nat \ {0}
  <2>1. IsList(first \o FlattenSeq(each)) /\ Len(first \o FlattenSeq(each)) \in Nat
    BY <1>6, Joined, ListLength
  <2>2. QED
    BY <1>5, <2>1, OneElement, Joined
<1> HIDE DEF T
<1>8. CASE site.shadowed
  <2>1. source = Front(T) \o <<Call("shadow", <<>>), Value("unused")>>
    BY <1>1, <1>8 DEF LazySource, T
  <2>2. IsList(Front(T)) /\ Len(Front(T)) = Len(T) - 1
    BY <1>7, FrontLength
  <2>3. Len(source) = (Len(T) - 1) + 2
    BY <2>1, <2>2, TwoElements, Joined
  <2>4. source # T
    BY <1>7, <2>3
  <2>5. QED
    BY <1>2, <1>3, <1>1, <1>8, <2>4 DEF Faithful, T
<1>9. CASE ~site.shadowed
  BY <1>1, <1>2, <1>9 DEF Faithful, LazySource
<1>10. QED
  BY <1>8, <1>9

(* Decorators diverge where one raises: the name is bound by then.           *)
LEMMA DecoratorKept ==
  ASSUME Sites, site.rule = "decorator"
  PROVE  Faithful(DecoratorRun(site, <<Bind("function")>>))
<1>1. site \in DecoratorSites /\ source = DecoratorRun(site, <<>>)
  BY SiteIs
<1>2. Diverges <=> site.raises # 0
  BY DEF Diverges, FoldedRules
<1>3. site.count \in Nat /\ site.raises \in Nat
  BY <1>1, RuleAssumption DEF DecoratorSites
<1>4. CASE site.raises = 0
  BY <1>1, <1>2, <1>4 DEF Faithful, DecoratorRun
<1>5. CASE site.raises # 0
  <2> DEFINE a == [i \in 1..site.count |-> Eval(i)]
             b == [i \in 1..site.raises |-> Call(site.count + 1 - i, <<>>)]
             e == Raise("decorator")
             f == Bind("function")
  <2>1. /\ source = a \o b \o (<<>> \o <<e>>)
        /\ DecoratorRun(site, <<Bind("function")>>) = a \o b \o (<<f>> \o <<e>>)
    BY <1>1, <1>5 DEF DecoratorRun
  <2>2. IsList(a) /\ IsList(b)
    BY <1>3, ListOf
  <2> HIDE DEF a, b, e, f
  <2>3. <<>> \o <<e>> = <<e>> /\ <<f>> \o <<e>> = <<f, e>>
    BY Nothing, OneElement, Concat11
  <2>4. IsList(a \o b) /\ Len(a \o b) \in Nat
    BY <2>2, Joined, ListLength
  <2>5. Len((a \o b) \o <<e>>) = Len(a \o b) + 1
    BY <2>4, OneElement, Joined
  <2>6. Len((a \o b) \o <<f, e>>) = Len(a \o b) + 2
    BY <2>4, TwoElements, Joined
  <2>7. source # DecoratorRun(site, <<Bind("function")>>)
    BY <2>1, <2>3, <2>4, <2>5, <2>6
  <2>8. QED
    BY SMTT(40), <1>2, <1>5, <2>7 DEF Faithful
<1>6. QED
  BY <1>4, <1>5

-----------------------------------------------------------------------------
(* RuleSemantics: operators.                                                 *)

(* One method is tried.                                                      *)
LEMMA AttemptOne ==
  ASSUME NEW x, NEW D, NEW F
  PROVE  Attempt(<<x>>, D, F) = <<Call(x, <<>>), IF x \in D THEN F ELSE Value(x)>>
<1> DEFINE tried == {i \in 1..Len(<<x>>) : \A j \in 1..(i - 1) : <<x>>[j] \in D}
<1>1. tried = {1}
  OBVIOUS
<1>2. Cardinality(tried) = 1
  BY <1>1, FS_Singleton
<1>3. [i \in 1..1 |-> Call(<<x>>[i], <<>>)] = <<Call(x, <<>>)>>
  OBVIOUS
<1>4. (\E i \in tried : <<x>>[i] \notin D) <=> x \notin D
  BY <1>1
<1>5. Attempt(<<x>>, D, F) = [i \in 1..Cardinality(tried) |-> Call(<<x>>[i], <<>>)]
                             \o <<IF \E i \in tried : <<x>>[i] \notin D THEN Value(<<x>>[Cardinality(tried)]) ELSE F>>
  BY DEF Attempt
<1> HIDE DEF tried
<1>6. Attempt(<<x>>, D, F) = <<Call(x, <<>>)>> \o <<IF x \notin D THEN Value(x) ELSE F>>
  BY <1>2, <1>3, <1>4, <1>5
<1>7. QED
  BY <1>6, Concat11

(* Two methods are tried: the second when the first declines.                *)
LEMMA AttemptTwo ==
  ASSUME NEW x, NEW y, NEW D, NEW F
  PROVE  Attempt(<<x, y>>, D, F) =
           IF x \in D THEN <<Call(x, <<>>), Call(y, <<>>), IF y \in D THEN F ELSE Value(y)>>
           ELSE <<Call(x, <<>>), Value(x)>>
<1> DEFINE s == <<x, y>>
           tried == {i \in 1..Len(s) : \A j \in 1..(i - 1) : s[j] \in D}
<1>0. Len(s) = 2 /\ s[1] = x /\ s[2] = y
  OBVIOUS
<1>1. Attempt(s, D, F) = [i \in 1..Cardinality(tried) |-> Call(s[i], <<>>)]
                         \o <<IF \E i \in tried : s[i] \notin D THEN Value(s[Cardinality(tried)]) ELSE F>>
  BY DEF Attempt
<1> HIDE DEF s
<1>2. CASE x \in D
  <2>1. tried = 1..2
    BY <1>0, <1>2
  <2>2. Cardinality(tried) = 2
    <3>1. 1 \in Int /\ 2 \in Int /\ 1 <= 2
      OBVIOUS
    <3> HIDE DEF tried
    <3>2. Cardinality(1..2) = IF 1 > 2 THEN 0 ELSE 2 - 1 + 1
      BY <3>1, FS_Interval
    <3>3. QED
      BY <2>1, <3>2
  <2>3. [i \in 1..2 |-> Call(s[i], <<>>)] = <<Call(x, <<>>), Call(y, <<>>)>>
    BY <1>0
  <2> HIDE DEF tried
  <2>4. (\E i \in tried : s[i] \notin D) <=> y \notin D
    <3>1. 1 \in tried /\ 2 \in tried /\ \A i \in tried : i = 1 \/ i = 2
      BY <2>1
    <3>2. QED
      BY <1>0, <1>2, <3>1
  <2> HIDE DEF tried
  <2>5. Attempt(s, D, F) = [i \in 1..2 |-> Call(s[i], <<>>)]
                           \o <<IF \E i \in tried : s[i] \notin D THEN Value(s[2]) ELSE F>>
    BY <1>1, <2>2
  <2>6. Attempt(s, D, F) = <<Call(x, <<>>), Call(y, <<>>)>> \o <<IF y \in D THEN F ELSE Value(y)>>
    BY <1>0, <2>3, <2>4, <2>5
  <2>7. QED
    BY <1>2, <2>6, Concat21 DEF s
<1>3. CASE x \notin D
  <2>1. tried = {1}
    BY <1>0, <1>3
  <2>2. Cardinality(tried) = 1
    BY <2>1, FS_Singleton
  <2>3. [i \in 1..1 |-> Call(s[i], <<>>)] = <<Call(x, <<>>)>>
    BY <1>0
  <2>4. \E i \in tried : s[i] \notin D
    BY <1>0, <1>3, <2>1
  <2> HIDE DEF tried
  <2>5. Attempt(s, D, F) = <<Call(x, <<>>)>> \o <<Value(x)>>
    BY <1>0, <1>1, <2>2, <2>3, <2>4
  <2>6. QED
    BY <1>3, <2>5, Concat11 DEF s
<1>4. QED
  BY <1>2, <1>3

\* The events of an operator: the operands, then the methods of order.
Operator(order, D, F) == <<Eval("l"), Eval("r")>> \o Attempt(order, D, F)

(* An operator with one method to try.                                       *)
LEMMA OperatorOne ==
  ASSUME NEW x, NEW D, NEW F
  PROVE  Operator(<<x>>, D, F) = <<Eval("l"), Eval("r"), Call(x, <<>>), IF x \in D THEN F ELSE Value(x)>>
<1> DEFINE last == IF x \in D THEN F ELSE Value(x)
           called == Call(x, <<>>)
<1>1. Attempt(<<x>>, D, F) = <<called, last>>
  BY AttemptOne
<1> HIDE DEF last, called
<1>2. Operator(<<x>>, D, F) = <<Eval("l"), Eval("r"), called, last>>
  BY <1>1, Concat22 DEF Operator
<1>3. QED
  BY <1>2 DEF last, called

(* An operator with two methods to try.                                      *)
LEMMA OperatorTwo ==
  ASSUME NEW x, NEW y, NEW D, NEW F
  PROVE  Operator(<<x, y>>, D, F) =
           IF x \in D THEN <<Eval("l"), Eval("r"), Call(x, <<>>), Call(y, <<>>), IF y \in D THEN F ELSE Value(y)>>
           ELSE <<Eval("l"), Eval("r"), Call(x, <<>>), Value(x)>>
<1> DEFINE last == IF y \in D THEN F ELSE Value(y)
           first == Call(x, <<>>)
           second == Call(y, <<>>)
           value == Value(x)
<1>1. Attempt(<<x, y>>, D, F) = IF x \in D THEN <<first, second, last>> ELSE <<first, value>>
  BY AttemptTwo
<1> HIDE DEF last, first, second, value
<1>2. /\ <<Eval("l"), Eval("r")>> \o <<first, second, last>> = <<Eval("l"), Eval("r"), first, second, last>>
      /\ <<Eval("l"), Eval("r")>> \o <<first, value>> = <<Eval("l"), Eval("r"), first, value>>
  BY Concat22, Concat23
<1>3. Operator(<<x, y>>, D, F) = IF x \in D THEN <<Eval("l"), Eval("r"), first, second, last>>
                                 ELSE <<Eval("l"), Eval("r"), first, value>>
  BY <1>1, <1>2 DEF Operator
<1>4. QED
  BY <1>3 DEF last, first, second, value

(* The order in which CPython tries the methods of a binary operator.        *)
LEMMA BinaryOrder ==
  ASSUME NEW s, "l" \in s.has
  PROVE  BinarySource(s) =
           Operator(IF "r" \in s.has /\ s.right # "same"
                    THEN IF s.right = "sub" THEN <<"r", "l">> ELSE <<"l", "r">>
                    ELSE <<"l">>, s.declines, Raise("TypeError"))
<1> DEFINE left == OnlyIf("l" \in s.has, "l")
           right == OnlyIf("r" \in s.has /\ s.right # "same", "r")
<1>1. BinarySource(s) = Operator(IF s.right = "sub" THEN right \o left ELSE left \o right, s.declines, Raise("TypeError"))
  BY DEF BinarySource, Operator
<1>2. left = <<"l">> /\ right = IF "r" \in s.has /\ s.right # "same" THEN <<"r">> ELSE <<>>
  BY DEF OnlyIf
<1> HIDE DEF left, right
<1>3. /\ <<"l">> \o <<"r">> = <<"l", "r">> /\ <<"r">> \o <<"l">> = <<"r", "l">>
      /\ <<"l">> \o <<>> = <<"l">> /\ <<>> \o <<"l">> = <<"l">>
  BY Concat11, Nothing, OneElement
<1>4. QED
  BY <1>1, <1>2, <1>3

(* The order in which CPython tries the methods of a comparison.             *)
LEMMA CompareOrder ==
  ASSUME NEW s, NEW F, "l" \in s.has \/ "r" \in s.has
  PROVE  CompareSource(s, F) =
           Operator(IF "r" \in s.has
                    THEN IF "l" \notin s.has THEN <<"r">>
                         ELSE IF s.right = "sub" THEN <<"r", "l">> ELSE <<"l", "r">>
                    ELSE <<"l">>, s.declines, F)
<1> DEFINE left == OnlyIf("l" \in s.has, "l")
           right == OnlyIf("r" \in s.has, "r")
<1>1. CompareSource(s, F) = Operator(IF s.right = "sub" THEN right \o left ELSE left \o right, s.declines, F)
  BY DEF CompareSource, Operator
<1>2. /\ left = IF "l" \in s.has THEN <<"l">> ELSE <<>>
      /\ right = IF "r" \in s.has THEN <<"r">> ELSE <<>>
  BY DEF OnlyIf
<1> HIDE DEF left, right
<1>3. /\ <<"l">> \o <<"r">> = <<"l", "r">> /\ <<"r">> \o <<"l">> = <<"r", "l">>
      /\ <<"l">> \o <<>> = <<"l">> /\ <<>> \o <<"l">> = <<"l">>
      /\ <<"r">> \o <<>> = <<"r">> /\ <<>> \o <<"r">> = <<"r">>
  BY Concat11, Nothing, OneElement
<1>4. QED
  BY <1>1, <1>2, <1>3

(* A direct call of the left method is right only when that method comes     *)
(* first and does not decline; one of the right method never is.             *)
LEMMA DirectIs ==
  ASSUME NEW D, NEW F, F # Value("NotImplemented")
  PROVE  /\ DirectCall("l", "r", D) = Operator(<<"l">>, D, F) <=> "l" \notin D
         /\ DirectCall("l", "r", D) = Operator(<<"l", "r">>, D, F) <=> "l" \notin D
         /\ DirectCall("l", "r", D) # Operator(<<"r", "l">>, D, F)
         /\ \A order \in {<<"l">>, <<"r">>, <<"l", "r">>, <<"r", "l">>} :
              DirectCall("r", "l", D) # Operator(order, D, F)
<1> DEFINE l == Eval("l")
           r == Eval("r")
           cl == Call("l", <<>>)
           cr == Call("r", <<>>)
           vl == Value("l")
           vr == Value("r")
           no == Value("NotImplemented")
           L == "l" \in D
           R == "r" \in D
<1>1. /\ Operator(<<"l">>, D, F) = <<l, r, cl, IF L THEN F ELSE vl>>
      /\ Operator(<<"r">>, D, F) = <<l, r, cr, IF R THEN F ELSE vr>>
  BY OperatorOne
<1>2. /\ Operator(<<"l", "r">>, D, F) = IF L THEN <<l, r, cl, cr, IF R THEN F ELSE vr>> ELSE <<l, r, cl, vl>>
      /\ Operator(<<"r", "l">>, D, F) = IF R THEN <<l, r, cr, cl, IF L THEN F ELSE vl>> ELSE <<l, r, cr, vr>>
  BY OperatorTwo
<1>3. /\ DirectCall("l", "r", D) = <<l, r, cl, IF L THEN no ELSE vl>>
      /\ DirectCall("r", "l", D) = <<r, l, cr, IF R THEN no ELSE vr>>
  BY DEF DirectCall
<1>4. l # r /\ cl # cr /\ F # no /\ vl # no
  BY DEF Eval, Call, Value
<1> HIDE DEF l, r, cl, cr, vl, vr, no, L, R
<1>5. /\ DirectCall("l", "r", D) = Operator(<<"l">>, D, F) <=> ~L
      /\ DirectCall("l", "r", D) = Operator(<<"l", "r">>, D, F) <=> ~L
      /\ DirectCall("l", "r", D) # Operator(<<"r", "l">>, D, F)
  BY <1>1, <1>2, <1>3, <1>4
<1>6. \A order \in {<<"l">>, <<"r">>, <<"l", "r">>, <<"r", "l">>} : DirectCall("r", "l", D) # Operator(order, D, F)
  BY <1>1, <1>2, <1>3, <1>4
<1>7. QED
  BY <1>5, <1>6 DEF L

(* A binary operator diverges where the right method comes first, and where  *)
(* the left one declines.                                                    *)
LEMMA BinaryKept ==
  ASSUME Sites, site.rule = "binary", BinaryApplies(site)
  PROVE  Faithful(DirectCall("l", "r", site.declines))
<1>1. site \in OperandSites({"binary"}) /\ source = BinarySource(site)
  BY SiteIs
<1>2. site.right \in {"same", "sub", "other"}
  BY <1>1 DEF OperandSites
<1>3. Diverges <=> (site.right = "sub" /\ "r" \in site.has) \/ "l" \in site.declines
  BY DEF Diverges, FoldedRules
<1>4. "l" \in site.has
  BY DEF BinaryApplies
<1>5. Raise("TypeError") # Value("NotImplemented")
  BY DEF Raise, Value
<1>6. CASE "r" \in site.has /\ site.right = "sub"
  <2>1. source = Operator(<<"r", "l">>, site.declines, Raise("TypeError"))
    BY <1>1, <1>4, <1>6, BinaryOrder
  <2>2. QED
    BY <1>3, <1>5, <1>6, <2>1, DirectIs DEF Faithful
<1>7. CASE ~("r" \in site.has /\ site.right = "sub")
  <2>1. \/ source = Operator(<<"l", "r">>, site.declines, Raise("TypeError"))
        \/ source = Operator(<<"l">>, site.declines, Raise("TypeError"))
    BY <1>1, <1>4, <1>7, BinaryOrder
  <2>2. QED
    BY <1>3, <1>5, <1>7, <2>1, DirectIs DEF Faithful
<1>8. QED
  BY <1>6, <1>7

(* So does a comparison, and where only the right class is known.            *)
LEMMA CompareKept ==
  ASSUME Sites, site.rule \in {"equality", "ordering"}, CompareApplies(site)
  PROVE  Faithful(CompareTarget(site))
<1>1. PICK F \in {Value("identity"), Raise("TypeError")} : source = CompareSource(site, F)
  BY SiteIs
<1>2. F # Value("NotImplemented")
  BY DEF Value, Raise
<1>3. Diverges <=> \/ "l" \notin site.known
                   \/ site.right = "sub" /\ "r" \in site.has
                   \/ "l" \in site.declines
  BY DEF Diverges, FoldedRules
<1>4. \/ "l" \in site.known /\ "l" \in site.has
      \/ "l" \notin site.known /\ "r" \in site.has
  BY DEF CompareApplies
<1>5. CASE "l" \in site.known /\ "l" \in site.has
  <2>1. CompareTarget(site) = DirectCall("l", "r", site.declines)
    BY <1>5 DEF CompareTarget
  <2>2. CASE site.right = "sub" /\ "r" \in site.has
    <3>1. source = Operator(<<"r", "l">>, site.declines, F)
      BY <1>1, <1>5, <2>2, CompareOrder
    <3>2. QED
      BY <1>2, <1>3, <2>1, <2>2, <3>1, DirectIs DEF Faithful
  <2>3. CASE ~(site.right = "sub" /\ "r" \in site.has)
    <3>1. source = Operator(<<"l", "r">>, site.declines, F) \/ source = Operator(<<"l">>, site.declines, F)
      BY <1>1, <1>5, <2>3, CompareOrder
    <3>2. QED
      BY <1>2, <1>3, <1>5, <2>1, <2>3, <3>1, DirectIs DEF Faithful
  <2>4. QED
    BY <2>2, <2>3
<1>6. CASE "l" \notin site.known /\ "r" \in site.has
  <2>1. CompareTarget(site) = DirectCall("r", "l", site.declines)
    BY <1>6 DEF CompareTarget
  <2>2. \E order \in {<<"l">>, <<"r">>, <<"l", "r">>, <<"r", "l">>} : source = Operator(order, site.declines, F)
    BY <1>1, <1>6, CompareOrder
  <2>3. CompareTarget(site) # source
    BY <1>2, <2>1, <2>2, DirectIs
  <2>4. QED
    BY SMTT(40), <1>3, <1>6, <2>3 DEF Faithful
<1>7. QED
  BY <1>4, <1>5, <1>6

(* A list of four elements without its last one.                             *)
LEMMA FrontOfFour ==
  ASSUME NEW a, NEW b, NEW c, NEW d
  PROVE  Front(<<a, b, c, d>>) = <<a, b, c>> /\ Last(<<a, b, c, d>>) = d
<1> DEFINE s == <<a, b, c, d>>
           t == <<a, b, c>>
<1>1. Len(s) = 4 /\ s[1] = a /\ s[2] = b /\ s[3] = c /\ s[4] = d
  OBVIOUS
<1>2. Len(t) = 3 /\ t[1] = a /\ t[2] = b /\ t[3] = c /\ IsList(t)
  BY Elements
<1>3. Last(s) = d
  BY <1>1 DEF Last
<1>4. Front(s) = SubSeq(s, 1, 3)
  BY <1>1 DEF Front
<1> HIDE DEF s, t
<1>5. Front(s) = FirstOf(s, 3)
  BY <1>4, SubSeqIs
<1>6. /\ IsList(FirstOf(s, 3)) /\ Len(FirstOf(s, 3)) = 3
      /\ \A i \in 1..3 : FirstOf(s, 3)[i] = s[i]
  <2> DEFINE three == 3
  <2>1. three \in Nat
    OBVIOUS
  <2> HIDE DEF three
  <2>2. /\ IsList(FirstOf(s, three)) /\ Len(FirstOf(s, three)) = three
        /\ \A i \in 1..three : FirstOf(s, three)[i] = s[i]
    BY <2>1, FrontIs
  <2>3. QED
    BY <2>2 DEF three
<1>7. FirstOf(s, 3) = t
  BY <1>1, <1>2, <1>6, ListsEqual
<1>8. QED
  BY <1>3, <1>5, <1>7 DEF s, t

(* What != makes of the answer of __eq__.                                    *)
LEMMA InequalityIs ==
  ASSUME NEW a, NEW b, NEW c, NEW d, NEW e
  PROVE  /\ d = Value("l") => Inequality(<<a, b, c, d>>) = <<a, b, c, <<"truth", "l">>, Value("l")>>
         /\ d # Value("l") => Inequality(<<a, b, c, d>>) = <<a, b, c, d>>
<1> DEFINE s == <<a, b, c, d>>
           truth == <<"truth", "l">>
           value == Value("l")
<1>1. Front(s) = <<a, b, c>> /\ Last(s) = d
  BY FrontOfFour
<1>2. Inequality(s) = IF Last(s) = value THEN Front(s) \o <<truth, value>> ELSE s
  BY DEF Inequality
<1> HIDE DEF s, truth, value
<1>3. <<a, b, c>> \o <<truth, value>> = <<a, b, c, truth, value>>
  BY Concat32
<1>4. /\ d = value => Inequality(s) = <<a, b, c, truth, value>>
      /\ d # value => Inequality(s) = s
  BY <1>1, <1>2, <1>3
<1>5. QED
  BY <1>4 DEF s, truth, value

(* What != makes of a longer run: that of a method which answered in the     *)
(* end is longer by one.                                                     *)
LEMMA InequalityLong ==
  ASSUME NEW a, NEW b, NEW c, NEW d, NEW e
  PROVE  /\ e # Value("l") => Inequality(<<a, b, c, d, e>>) = <<a, b, c, d, e>>
         /\ e = Value("l") => Len(Inequality(<<a, b, c, d, e>>)) = 6
<1> DEFINE s == <<a, b, c, d, e>>
           value == Value("l")
           tail == <<<<"truth", "l">>, value>>
<1>1. IsList(s) /\ Len(s) = 5 /\ s[5] = e
  BY Elements
<1>2. Inequality(s) = IF Last(s) = value THEN Front(s) \o tail ELSE s
  BY DEF Inequality
<1>3. IsList(tail) /\ Len(tail) = 2
  BY TwoElements
<1> HIDE DEF s, value, tail
<1>4. Last(s) = e
  BY <1>1 DEF Last
<1>5. IsList(Front(s)) /\ Len(Front(s)) = 4
  <2>1. IsList(s) /\ Len(s) # 0
    BY <1>1
  <2>2. IsList(Front(s)) /\ Len(Front(s)) = Len(s) - 1
    BY <2>1, FrontLength
  <2>3. QED
    BY <1>1, <2>2
<1>6. Len(Front(s) \o tail) = 6
  <2>1. IsList(Front(s)) /\ IsList(tail)
    BY <1>3, <1>5
  <2>2. Len(Front(s) \o tail) = Len(Front(s)) + Len(tail)
    BY <2>1, Joined
  <2>3. QED
    BY <1>3, <1>5, <2>2
<1>7. QED
  BY <1>2, <1>4, <1>6 DEF s, value

(* != through __eq__ diverges as a binary operator does.                     *)
LEMMA InequalityKept ==
  ASSUME Sites, site.rule = "inequality", BinaryApplies(site)
  PROVE  Faithful(InequalityTarget(site))
<1> DEFINE l == Eval("l")
           r == Eval("r")
           cl == Call("l", <<>>)
           cr == Call("r", <<>>)
           vl == Value("l")
           vr == Value("r")
           same == Value("identity")
           truth == <<"truth", "l">>
           truthNo == <<"truth", "NotImplemented">>
           no == Value("NotImplemented")
           L == "l" \in site.declines
           R == "r" \in site.declines
           D == site.declines
           target == InequalityTarget(site)
<1>1. source = Inequality(CompareSource(site, same))
  BY SiteIs
<1>2. Diverges <=> (site.right = "sub" /\ "r" \in site.has) \/ L
  BY DEF Diverges, FoldedRules
<1>3. "l" \in site.has
  BY DEF BinaryApplies
<1>4. /\ Operator(<<"l">>, D, same) = <<l, r, cl, IF L THEN same ELSE vl>>
      /\ Operator(<<"l", "r">>, D, same) = IF L THEN <<l, r, cl, cr, IF R THEN same ELSE vr>> ELSE <<l, r, cl, vl>>
      /\ Operator(<<"r", "l">>, D, same) = IF R THEN <<l, r, cr, cl, IF L THEN same ELSE vl>> ELSE <<l, r, cr, vr>>
  BY OperatorOne, OperatorTwo
<1>5. target = <<l, r, cl>> \o IF L THEN <<truthNo, no>> ELSE <<truth, vl>>
  BY DEF InequalityTarget
<1>6. /\ \A a, b, c, d : /\ d = vl => Inequality(<<a, b, c, d>>) = <<a, b, c, truth, vl>>
                         /\ d # vl => Inequality(<<a, b, c, d>>) = <<a, b, c, d>>
      /\ \A a, b, c, d, e : /\ e # vl => Inequality(<<a, b, c, d, e>>) = <<a, b, c, d, e>>
                            /\ e = vl => Len(Inequality(<<a, b, c, d, e>>)) = 6
  BY InequalityIs, InequalityLong
<1>7. cl # cr /\ vl # same /\ vl # vr /\ vr # no /\ same # no /\ cr # truthNo
  BY DEF Call, Value
<1>8. source = Inequality(Operator(IF "r" \in site.has
                                   THEN IF site.right = "sub" THEN <<"r", "l">> ELSE <<"l", "r">>
                                   ELSE <<"l">>, D, same))
  BY <1>1, <1>3, CompareOrder
<1>9. SUFFICES target = source <=> ~((site.right = "sub" /\ "r" \in site.has) \/ L)
  BY <1>2 DEF Faithful
<1> HIDE DEF l, r, cl, cr, vl, vr, same, truth, truthNo, no, L, R, D, target
<1>10. target = IF L THEN <<l, r, cl, truthNo, no>> ELSE <<l, r, cl, truth, vl>>
  BY <1>5, Concat32
<1>11. Len(target) = 5
  BY <1>10
<1>12. CASE "r" \in site.has /\ site.right = "sub"
  <2>1. source = Inequality(IF R THEN <<l, r, cr, cl, IF L THEN same ELSE vl>> ELSE <<l, r, cr, vr>>)
    BY <1>4, <1>8, <1>12
  <2>2. source = <<l, r, cr, cl, same>> \/ Len(source) = 6 \/ source = <<l, r, cr, vr>>
    BY <1>6, <1>7, <2>1
  <2>3. target # source
    BY <1>7, <1>10, <1>11, <2>2
  <2>4. QED
    BY <1>12, <2>3
<1>13. CASE ~("r" \in site.has /\ site.right = "sub")
  <2>1. \/ source = Inequality(<<l, r, cl, IF L THEN same ELSE vl>>)
        \/ source = Inequality(IF L THEN <<l, r, cl, cr, IF R THEN same ELSE vr>> ELSE <<l, r, cl, vl>>)
    BY <1>4, <1>8, <1>13
  <2>2. CASE L
    <3>1. source = <<l, r, cl, same>> \/ \E e : source = <<l, r, cl, cr, e>>
      BY <1>6, <1>7, <2>1, <2>2
    <3>2. target = <<l, r, cl, truthNo, no>>
      BY <1>10, <2>2
    <3>3. target # source
      BY <1>7, <3>1, <3>2
    <3>4. QED
      BY <2>2, <3>3
  <2>3. CASE ~L
    <3>1. source = <<l, r, cl, truth, vl>>
      BY <1>6, <2>1, <2>3
    <3>2. QED
      BY <1>10, <1>13, <2>3, <3>1
  <2>4. QED
    BY <2>2, <2>3
<1>14. QED
  BY <1>12, <1>13

-----------------------------------------------------------------------------
(* RuleSemantics: the statements of a deletion.                              *)

(* Equal joins whose second parts are equally long have equal parts.         *)
LEMMA JoinCancels ==
  ASSUME NEW s, NEW t, NEW u, NEW v, IsList(s), IsList(t), IsList(u), IsList(v),
         s \o t = u \o v, Len(t) = Len(v)
  PROVE  s = u /\ t = v
<1> DEFINE w == s \o t
<1>1. /\ Len(w) = Len(s) + Len(t) /\ Len(s) \in Nat /\ Len(t) \in Nat
      /\ \A i \in 1..Len(s) : w[i] = s[i]
      /\ \A i \in 1..Len(t) : w[Len(s) + i] = t[i]
  <2> HIDE DEF w
  <2>1. /\ Len(s \o t) = Len(s) + Len(t) /\ Len(s) \in Nat /\ Len(t) \in Nat
        /\ \A i \in 1..Len(s) : (s \o t)[i] = s[i]
        /\ \A i \in 1..Len(t) : (s \o t)[Len(s) + i] = t[i]
    <3>1. IsList(s) /\ IsList(t)
      OBVIOUS
    <3>2. QED
      BY ONLY <3>1, Joined
  <2>2. QED
    BY <2>1 DEF w
<1>2. /\ Len(w) = Len(u) + Len(v) /\ Len(u) \in Nat
      /\ \A i \in 1..Len(u) : w[i] = u[i]
      /\ \A i \in 1..Len(v) : w[Len(u) + i] = v[i]
  <2>1. w = u \o v
    OBVIOUS
  <2> HIDE DEF w
  <2>2. QED
    BY <2>1, Joined
<1> HIDE DEF w
<1>3. Len(s) = Len(u)
  BY <1>1, <1>2
<1>4. s = u
  BY <1>1, <1>2, <1>3, ListsEqual
<1>5. t = v
  BY <1>1, <1>2, <1>3, ListsEqual
<1>6. QED
  BY <1>4, <1>5

(* Equal runs of parts that are equally long in pairs have equal parts:      *)
(* were two unequal, the runs would differ from there to the end.            *)
LEMMA FlattenCancels ==
  ASSUME NEW a, NEW b, NEW k \in Nat,
         \A i \in 1..k : IsList(a[i]) /\ IsList(b[i]) /\ Len(a[i]) = Len(b[i]),
         FlattenSeq(FirstOf(a, k)) = FlattenSeq(FirstOf(b, k))
  PROVE  \A i \in 1..k : a[i] = b[i]
<1> DEFINE A(n) == FlattenSeq(FirstOf(a, n))
           B(n) == FlattenSeq(FirstOf(b, n))
           Bad == {n \in 0..k : A(k - n) # B(k - n)}
<1>1. ASSUME NEW n \in 1..k, A(n) = B(n)
      PROVE  A(n - 1) = B(n - 1) /\ a[n] = b[n]
  <2> DEFINE m == n - 1
  <2>1. m \in Nat /\ m + 1 = n /\ \A i \in 1..(m + 1) : i \in 1..k
    OBVIOUS
  <2> HIDE DEF m
  <2>2. A(m + 1) = A(m) \o a[m + 1] /\ B(m + 1) = B(m) \o b[m + 1]
    BY <2>1, FlattenFront
  <2>3. IsList(A(m)) /\ IsList(B(m))
    <3>1. \A i \in 1..m : i \in 1..k
      BY <2>1
    <3>2. QED
      BY <2>1, <3>1, FlattenIsList
  <2>4. IsList(a[n]) /\ IsList(b[n]) /\ Len(a[n]) = Len(b[n])
    OBVIOUS
  <2>5. A(m) \o a[n] = B(m) \o b[n]
    BY <1>1, <2>1, <2>2
  <2> HIDE DEF A, B
  <2>6. A(m) = B(m) /\ a[n] = b[n]
    BY <2>3, <2>4, <2>5, JoinCancels
  <2>7. QED
    BY <2>6 DEF m
<1>2. A(k) = B(k)
  OBVIOUS
<1> HIDE DEF A, B
<1>3. Bad = {}
  <2>1. SUFFICES ASSUME Bad # {} PROVE FALSE
    OBVIOUS
  <2>2. PICK n \in Bad : \A m \in Bad : n <= m
    <3>1. Bad \in SUBSET Nat
      OBVIOUS
    <3> HIDE DEF Bad
    <3>2. QED
      BY <2>1, <3>1, LeastNatural
  <2>3. n \in 0..k /\ A(k - n) # B(k - n) /\ k - 0 = k
    BY <2>2
  <2>4. n # 0
    BY <1>2, <2>3
  <2>5. n - 1 \in 0..k /\ n - 1 < n /\ k - (n - 1) \in 1..k /\ k - (n - 1) - 1 = k - n
    BY <2>3, <2>4
  <2>6. A(k - (n - 1)) = B(k - (n - 1))
    <3>1. n - 1 \notin Bad
      <4>1. \A m \in Bad : ~(m < n)
        BY <2>2, <2>3
      <4> HIDE DEF Bad
      <4>2. QED
        BY <2>5, <4>1
    <3>2. QED
      BY <2>5, <3>1
  <2>7. A(k - n) = B(k - n)
    BY <1>1, <2>5, <2>6
  <2>8. QED
    BY <2>3, <2>7
<1>4. ASSUME NEW i \in 1..k PROVE a[i] = b[i]
  <2>1. k - i \in 0..k /\ k - (k - i) = i
    OBVIOUS
  <2>2. A(i) = B(i)
    BY <1>3, <2>1
  <2>3. QED
    BY <1>1, <2>2
<1>5. QED
  BY <1>4

(* What a sequence of statements runs: its parts up to the first one that    *)
(* raises.                                                                   *)
LEMMA ChainIs ==
  ASSUME NEW parts, IsList(parts), NEW k \in 1..Len(parts),
         \A j \in 1..(k - 1) : Last(parts[j])[1] # "raise",
         k = Len(parts) \/ Last(parts[k])[1] = "raise"
  PROVE  Chain(parts) = FlattenSeq(FirstOf(parts, k))
<1> DEFINE raises(j) == Last(parts[j])[1] = "raise"
           n == Len(parts)
           reached == {i \in 1..n : \A j \in 1..(i - 1) : ~raises(j)}
<1>1. Chain(parts) = FlattenSeq(SubSeq(parts, 1, Cardinality(reached)))
  BY DEF Chain
<1>2. n \in Nat /\ k \in 1..n /\ (\A j \in 1..(k - 1) : ~raises(j)) /\ (k = n \/ raises(k))
  BY ListLength
<1> HIDE DEF raises, n
<1>3. reached = 1..k
  <2>1. ASSUME NEW i \in reached PROVE i \in 1..k
    BY <1>2
  <2>2. ASSUME NEW i \in 1..k PROVE i \in reached
    BY <1>2
  <2>3. QED
    BY <2>1, <2>2
<1> HIDE DEF reached
<1>4. Cardinality(reached) = k
  <2>1. 1 \in Int /\ k \in Int /\ ~(1 > k) /\ k - 1 + 1 = k /\ k \in Nat
    BY <1>2
  <2>2. Cardinality(1..k) = IF 1 > k THEN 0 ELSE k - 1 + 1
    BY <2>1, FS_Interval
  <2>3. QED
    BY <1>3, <2>1, <2>2
<1>5. k \in Nat
  BY <1>2
<1>6. QED
  BY <1>1, <1>4, <1>5, SubSeqIs

(* A deletion diverges where a target refuses it or a key is several: every  *)
(* part before is as it was, and the first that stops the run differs by     *)
(* what it raises.                                                           *)
LEMMA DeleteKept ==
  ASSUME Sites, site.rule = "delete", \A i \in 1..Len(site.targets) : Deletable(site.targets[i])
  PROVE  Faithful(Chain([i \in 1..Len(site.targets) |-> DeleteTarget(site.targets[i])]))
<1> DEFINE T == site.targets
           n == Len(T)
           f == [i \in 1..n |-> DeleteSource(T[i])]
           g == [i \in 1..n |-> DeleteTarget(T[i])]
           Stops(t) == t.of \in {"tuple", "float"}
           x == Eval("x")
           key == Eval("key")
           te == Raise("TypeError")
           ae == Raise("AttributeError")
           one == Call("x", <<"key">>)
           two == Call("x", <<"first", "second">>)
           index == Call("x", <<"index">>)
           Other(t) == IF t.key = "pair" THEN two ELSE index
<1>1. site \in DeleteSites /\ source = Chain(f)
  BY SiteIs
<1>2. n \in Nat \ {0} /\ \A i \in 1..n : T[i] \in DeleteTargets
  <2>1. T \in PartsOf(DeleteTargets)
    BY <1>1 DEF DeleteSites
  <2>2. PICK m \in 1..MaxParts : T \in [1..m -> DeleteTargets]
    BY <2>1 DEF PartsOf
  <2>3. m \in Nat \ {0} /\ T = [i \in 1..m |-> T[i]]
    BY <2>2, RuleAssumption
  <2>4. n = m
    BY <2>3, ListOf
  <2>5. QED
    BY <2>2, <2>3, <2>4
<1>3. Diverges <=> \E i \in 1..n : Stops(T[i]) \/ OtherKey(T[i])
  BY DEF Diverges, FoldedRules
<1>4. /\ te # ae /\ one # two /\ one # index
      /\ te[1] = "raise" /\ ae[1] = "raise"
      /\ one[1] # "raise" /\ two[1] # "raise" /\ index[1] # "raise"
  BY DEF Raise, Call
<1>5. ASSUME NEW i \in 1..n
      PROVE  /\ DeleteSource(T[i]) = <<x, key>> \o <<IF Stops(T[i]) THEN te ELSE one>>
             /\ DeleteTarget(T[i]) = <<x, key>> \o <<IF Stops(T[i]) THEN ae ELSE IF OtherKey(T[i]) THEN Other(T[i]) ELSE one>>
  <2>1. T[i].of = "class" => T[i].has
    BY DEF Deletable
  <2>2. QED
    BY <2>1 DEF DeleteSource, DeleteTarget, OtherKey
<1>50. \A t : Other(t) # one /\ Other(t)[1] # "raise"
  BY <1>4
<1> HIDE DEF T, Stops, Other, x, key, te, ae, one, two, index
<1>6. /\ IsList(f) /\ Len(f) = n
      /\ IsList(g) /\ Len(g) = n
  <2>1. f = [i \in 1..n |-> f[i]] /\ g = [i \in 1..n |-> g[i]]
    OBVIOUS
  <2>2. QED
    BY <1>2, <2>1, ListOf
<1>7. /\ \A i \in 1..n : f[i] = <<x, key, IF Stops(T[i]) THEN te ELSE one>>
      /\ \A i \in 1..n : g[i] = <<x, key, IF Stops(T[i]) THEN ae ELSE IF OtherKey(T[i]) THEN Other(T[i]) ELSE one>>
  BY ZenonT(60), <1>5, Concat21
<1> HIDE DEF n, f, g
<1>8. \A i \in 1..n : /\ Last(f[i])[1] = "raise" <=> Stops(T[i])
                      /\ Last(g[i])[1] = "raise" <=> Stops(T[i])
  <2>1. ASSUME NEW i \in 1..n
        PROVE  /\ Last(f[i]) = IF Stops(T[i]) THEN te ELSE one
               /\ Last(g[i]) = IF Stops(T[i]) THEN ae ELSE IF OtherKey(T[i]) THEN Other(T[i]) ELSE one
    <3> DEFINE p == IF Stops(T[i]) THEN te ELSE one
               q == IF Stops(T[i]) THEN ae ELSE IF OtherKey(T[i]) THEN Other(T[i]) ELSE one
    <3>1. f[i] = <<x, key, p>> /\ g[i] = <<x, key, q>>
      BY <1>7
    <3> HIDE DEF p, q
    <3>2. Last(<<x, key, p>>) = p /\ Last(<<x, key, q>>) = q
      BY DEF Last
    <3>3. Last(f[i]) = p /\ Last(g[i]) = q
      BY <3>1, <3>2
    <3>4. QED
      BY <3>3 DEF p, q
  <2>2. QED
    BY <1>4, <1>50, <2>1
<1>9. PICK k \in 1..n : (\A j \in 1..(k - 1) : ~Stops(T[j])) /\ (k = n \/ Stops(T[k]))
  <2> DEFINE stopped == {i \in 1..n : Stops(T[i])}
  <2>1. CASE stopped = {}
    <3>1. n \in 1..n /\ \A j \in 1..(n - 1) : ~Stops(T[j])
      BY <1>2, <2>1
    <3>2. QED
      BY <3>1
  <2>2. CASE stopped # {}
    <3>1. PICK k \in stopped : \A m \in stopped : k <= m
      <4>1. stopped \in SUBSET Nat
        BY <1>2
      <4> HIDE DEF stopped
      <4>2. QED
        BY <2>2, <4>1, LeastNatural
    <3>2. k \in 1..n /\ Stops(T[k]) /\ \A j \in 1..(k - 1) : ~Stops(T[j])
      BY <1>2, <3>1
    <3>3. QED
      BY <3>2
  <2>3. QED
    BY <2>1, <2>2
<1>10. k \in Nat /\ \A j \in 1..k : j \in 1..n
  BY <1>2
<1>11. /\ Chain(f) = FlattenSeq(FirstOf(f, k))
       /\ Chain(g) = FlattenSeq(FirstOf(g, k))
  <2>1. /\ \A j \in 1..(k - 1) : Last(f[j])[1] # "raise" /\ Last(g[j])[1] # "raise"
        /\ k = n \/ (Last(f[k])[1] = "raise" /\ Last(g[k])[1] = "raise")
    BY <1>2, <1>8, <1>9
  <2>2. k \in 1..Len(f) /\ k \in 1..Len(g)
    BY <1>6
  <2>3. QED
    BY <1>6, <2>1, <2>2, ChainIs
<1>12. \A i \in 1..k : IsList(f[i]) /\ IsList(g[i]) /\ Len(f[i]) = Len(g[i])
  <2>1. \A a, b, c : IsList(<<a, b, c>>) /\ Len(<<a, b, c>>) = 3
    BY Elements
  <2>2. ASSUME NEW i \in 1..n PROVE IsList(f[i]) /\ IsList(g[i]) /\ Len(f[i]) = 3 /\ Len(g[i]) = 3
    <3>1. (\E p : f[i] = <<x, key, p>>) /\ \E q : g[i] = <<x, key, q>>
      BY <1>7
    <3>2. QED
      BY <2>1, <3>1
  <2>3. QED
    BY <1>10, <2>2
<1>13. SUFFICES Chain(g) = source <=> ~\E i \in 1..n : Stops(T[i]) \/ OtherKey(T[i])
  BY <1>3 DEF Faithful, T, n, g
<1>14. CASE \A i \in 1..n : ~Stops(T[i]) /\ ~OtherKey(T[i])
  <2>1. \A i \in 1..n : f[i] = g[i]
    BY <1>7, <1>14
  <2>2. f = g
    BY <1>6, <2>1, ListsEqual
  <2>3. QED
    BY <1>1, <1>14, <2>2
<1>15. CASE \E i \in 1..n : Stops(T[i]) \/ OtherKey(T[i])
  <2>1. PICK i \in 1..k : f[i] # g[i]
    <3>1. CASE Stops(T[k])
      <4>1. f[k] # g[k] /\ k \in 1..k
        BY <1>4, <1>7, <1>10, <3>1
      <4>2. QED
        BY <4>1
    <3>2. CASE ~Stops(T[k])
      <4>1. k = n /\ \A j \in 1..n : ~Stops(T[j])
        BY <1>2, <1>9, <3>2
      <4>2. PICK i \in 1..n : OtherKey(T[i])
        BY <1>15, <4>1
      <4>3. f[i] # g[i]
        BY <1>50, <1>7, <4>1, <4>2
      <4>4. QED
        BY <4>1, <4>3
    <3>3. QED
      BY <3>1, <3>2
  <2>2. Chain(f) # Chain(g)
    BY <1>10, <1>11, <1>12, <2>1, FlattenCancels
  <2>3. QED
    BY <1>1, <1>15, <2>2
<1>16. QED
  BY <1>14, <1>15

-----------------------------------------------------------------------------
(* RuleSemantics: the steps.                                                 *)

(* What happens when a handler decides about a site: its text is faithful    *)
(* where it rewrites, and the site as it is written elsewhere.               *)
LEMMA LowerKeeps ==
  ASSUME Sites, NEW R, NEW STATE cannot, NEW STATE applies, NEW STATE events,
         Lower(R, cannot, applies, events),
         site.rule \in R /\ ~cannot /\ applies => Faithful(events)
  PROVE  /\ UNCHANGED <<site, source>>
         /\ decision' \in Decisions
         /\ code' = source <=> ~(decision' = "applied" /\ Diverges)
<1>1. /\ UNCHANGED <<site, source>>
      /\ decision' = IF cannot THEN "diagnosed" ELSE IF applies THEN "applied" ELSE "left"
      /\ code' = IF decision' = "applied" THEN events ELSE source
      /\ site.rule \in R
  BY DEF Lower
<1>2. decision' \in Decisions
  BY <1>1 DEF Decisions
<1>3. CASE ~cannot /\ applies
  <2>1. decision' = "applied" /\ code' = events
    BY <1>1, <1>3
  <2>2. Faithful(events)
    BY <1>1, <1>3
  <2>3. QED
    BY <1>1, <1>2, <2>1, <2>2 DEF Faithful
<1>4. CASE cannot \/ ~applies
  <2>1. decision' # "applied" /\ code' = source
    BY <1>1, <1>4
  <2>2. QED
    BY <1>1, <1>2, <2>1
<1>5. QED
  BY <1>3, <1>4

(* The site does not change, nor what is known to diverge at it.             *)
LEMMA SitesStay ==
  ASSUME Sites, UNCHANGED <<site, source>>
  PROVE  Sites' /\ (Diverges' <=> Diverges)
<1>1. Sites'
  BY DEF Sites
<1>2. Diverges' <=> Diverges
  BY DEF Diverges
<1>3. QED
  BY <1>1, <1>2

(* What every decision leaves: the text of the site is what CPython runs     *)
(* there, unless it is rewritten in circumstances that are known to          *)
(* diverge.                                                                  *)
LEMMA HandlersKeep ==
  ASSUME Sites, RuleNext, ~Happen
  PROVE  /\ UNCHANGED <<site, source>>
         /\ decision' \in Decisions
         /\ code' = source <=> ~(decision' = "applied" /\ Diverges)
<1>1. CASE LowerBinary
  BY <1>1, BinaryKept, LowerKeeps DEF LowerBinary, Handle
<1>2. CASE LowerCompare
  BY <1>2, CompareKept, LowerKeeps DEF LowerCompare, Handle
<1>3. CASE LowerInequality
  BY <1>3, InequalityKept, LowerKeeps DEF LowerInequality, Handle
<1>4. CASE LowerNan
  BY <1>4, AlwaysKept, LowerKeeps DEF LowerNan, Handle
<1>5. CASE LowerUnary
  BY <1>5, AlwaysKept, LowerKeeps DEF LowerUnary, Handle
<1>6. CASE LowerContains
  BY <1>6, ContainsKept, LowerKeeps DEF LowerContains, Handle
<1>7. CASE LowerGetItem
  BY <1>7, GetItemKept, LowerKeeps DEF LowerGetItem, Handle
<1>8. CASE LowerSetItem
  BY <1>8, SetItemKept, LowerKeeps DEF LowerSetItem, Handle
<1>9. CASE LowerSetAttr
  BY <1>9, SetAttrKept, LowerKeeps DEF LowerSetAttr, Handle
<1>10. CASE LowerCallable
  BY <1>10, AlwaysKept, LowerKeeps DEF LowerCallable, Handle
<1>11. CASE LowerDescriptor
  BY <1>11, DescriptorKept, LowerKeeps DEF LowerDescriptor, Handle
<1>12. CASE LowerSuper
  BY <1>12, SuperKept, LowerKeeps DEF LowerSuper, Handle
<1>13. CASE LowerGetAttr
  BY <1>13, GetAttrKept, LowerKeeps DEF LowerGetAttr, Handle
<1>14. CASE LowerBoundEq
  BY <1>14, BoundEqKept, LowerKeeps DEF LowerBoundEq, Handle
<1>15. CASE LowerDelete
  BY <1>15, DeleteKept, LowerKeeps DEF LowerDelete, Handle
<1>16. CASE LowerBuiltin
  BY <1>16, BuiltinKept, LowerKeeps DEF LowerBuiltin, Handle
<1>17. CASE LowerConversion
  BY <1>17, LowerKeeps DEF LowerConversion, Handle
<1>18. CASE LowerFolded
  BY <1>18, FoldedKept, LowerKeeps DEF LowerFolded, Handle
<1>19. CASE LowerPercent
  BY <1>19, PercentKept, LowerKeeps DEF LowerPercent, Handle
<1>20. CASE LowerFormat
  BY <1>20, FormatKept, LowerKeeps DEF LowerFormat, Handle
<1>21. CASE LowerFString
  BY <1>21, FStringKept, LowerKeeps DEF LowerFString, Handle
<1>22. CASE LowerUnion
  BY <1>22, UnionKept, LowerKeeps DEF LowerUnion, Handle
<1>23. CASE LowerGather
  BY <1>23, GatherKept, LowerKeeps DEF LowerGather, Handle
<1>24. CASE LowerCallableIterator
  BY <1>24, StopKept, LowerKeeps DEF LowerCallableIterator, Handle
<1>25. CASE LowerLazy
  BY <1>25, LazyKept, LowerKeeps DEF LowerLazy, Handle
<1>26. CASE LowerLateBound
  BY <1>26, AlwaysKept, LowerKeeps DEF LowerLateBound, Handle
<1>27. CASE LowerDataclass
  BY <1>27, DataclassKept, LowerKeeps DEF LowerDataclass, Handle
<1>28. CASE LowerStaticIf
  BY <1>28, IfKept, LowerKeeps DEF LowerStaticIf, Handle
<1>29. CASE LowerNestedClass
  BY <1>29, NestedKept, LowerKeeps DEF LowerNestedClass, Handle
<1>30. CASE LowerPrivateName
  BY <1>30, PrivateKept, LowerKeeps DEF LowerPrivateName, Handle
<1>31. CASE LowerClassTuple
  BY <1>31, TupleKept, LowerKeeps DEF LowerClassTuple, Handle
<1>32. CASE LowerDecorator
  BY <1>32, DecoratorKept, LowerKeeps DEF LowerDecorator, Handle
<1>33. CASE LowerAssert
  BY <1>33, AssertKept, LowerKeeps DEF LowerAssert, Handle
<1>34. CASE LowerForTarget
  BY <1>34, AlwaysKept, LowerKeeps DEF LowerForTarget, Handle
<1>35. CASE LowerWithTarget
  BY <1>35, AlwaysKept, LowerKeeps DEF LowerWithTarget, Handle
<1>36. CASE LowerWithExit
  BY <1>36, ExitKept, LowerKeeps DEF LowerWithExit, Handle
<1>37. CASE LowerDataclassImport
  BY <1>37, ImportKept, LowerKeeps DEF LowerDataclassImport, Handle
<1>38. CASE LowerClassComprehension
  BY <1>38, ComprehensionKept, LowerKeeps DEF LowerClassComprehension, Handle
<1>39. CASE LowerClassName
  BY <1>39, ClassNameKept, LowerKeeps DEF LowerClassName, Handle
<1>40. QED
  BY <1>1, <1>2, <1>3, <1>4, <1>5, <1>6, <1>7, <1>8, <1>9, <1>10, <1>11, <1>12, <1>13, <1>14, <1>15, <1>16, <1>17, <1>18, <1>19, <1>20, <1>21, <1>22, <1>23, <1>24, <1>25, <1>26, <1>27, <1>28, <1>29, <1>30, <1>31, <1>32, <1>33, <1>34, <1>35, <1>36, <1>37, <1>38, <1>39 DEF RuleNext

(* The invariant holds of every site before its handler runs.                *)
LEMMA RuleInitHolds == RuleInit => RuleInv
  BY DEF RuleInit, RuleInv, Decided, Decisions

(* Neither a decision nor an event of the run breaks it.                     *)
LEMMA RuleStepKeeps ==
  ASSUME RuleInv, [RuleNext]_ruleVars
  PROVE  RuleInv'
<1>1. CASE RuleNext /\ ~Happen
  <2>1. /\ UNCHANGED <<site, source>>
        /\ decision' \in Decisions
        /\ code' = source <=> ~(decision' = "applied" /\ Diverges)
    BY <1>1, HandlersKeep DEF RuleInv
  <2>2. Sites' /\ (Diverges' <=> Diverges)
    BY <2>1, SitesStay DEF RuleInv
  <2>3. QED
    BY <2>1, <2>2 DEF RuleInv, Decided
<1>2. CASE Happen \/ UNCHANGED ruleVars
  <2>1. UNCHANGED <<site, source, decision, code>>
    BY <1>2 DEF Happen, ruleVars
  <2>2. Sites' /\ (Diverges' <=> Diverges)
    BY <2>1, SitesStay DEF RuleInv
  <2>3. QED
    BY <2>1, <2>2 DEF RuleInv, Decided
<1>3. QED
  BY <1>1, <1>2

(* At every point of a run each site is one that its rule is about, and the  *)
(* text that runs there, once the handler has decided, equals what CPython   *)
(* runs exactly when it is not rewritten in a known gap.                     *)
THEOREM RuleInvariant == RuleSpec => []RuleInv
<1>1. RuleInit => RuleInv
  BY RuleInitHolds
<1>2. RuleInv /\ [RuleNext]_ruleVars => RuleInv'
  BY RuleStepKeeps
<1>3. QED
  BY <1>1, <1>2, PTL DEF RuleSpec

(* For any number of targets, iterables, managers, rounds and decorators:    *)
(* the observable run of a site that monty-lower has rewritten is that of    *)
(* CPython, event for event, outside the circumstances named in Diverges,    *)
(* and in every one of those it is not; a site that is left or diagnosed     *)
(* keeps its run.                                                            *)
THEOREM RewritesArePreserved == RuleSpec => []PreservedOutsideTheKnownGaps
<1>1. RuleInv => PreservedOutsideTheKnownGaps
  BY DEF RuleInv, Decided, PreservedOutsideTheKnownGaps, Ended
<1>2. QED
  BY <1>1, RuleInvariant, PTL
=============================================================================
