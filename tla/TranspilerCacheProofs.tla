------------------------- MODULE TranspilerCacheProofs ------------------------
(***************************************************************************)
(* Theorems about TranspilerCache, for any number of threads, any sources, *)
(* weights and limits, disabling ones included.                            *)
(***************************************************************************)
EXTENDS TranspilerCache, Folds, FiniteSetTheorems, NaturalsInduction, TLAPS

-------------------------------------------------------------------------------
(* Sums                                                                    *)
(*                                                                         *)
(* SumFunction folds its function over a set, taking the elements in the   *)
(* order CHOOSE gives.  That the sum exists and does not depend on that    *)
(* order is shown by least counterexample: the set of the cardinalities at *)
(* which it fails, if it has an element, has a least one.                  *)

LEMMA LeastNatural ==
  ASSUME NEW S \in SUBSET Nat, S # {}
  PROVE  \E n \in S : \A m \in S : n <= m
<1>1. PICK n \in S : \A m \in S : ~(<<m, n>> \in OpToRel(<, Nat))
  BY NatLessThanWellFounded, WFMin
<1>2. \A m \in S : ~(m < n)
  BY <1>1 DEF OpToRel
<1>3. QED
  BY <1>2

Pick(W) == CHOOSE x \in W : TRUE
SumOf(h, f, W) == IF W = {} THEN 0 ELSE f[Pick(W)] + h[W \ {Pick(W)}]
Sums(f, U) == CHOOSE h : h = [W \in SUBSET U |-> SumOf(h, f, W)]

LEMMA SumUnfolds ==
  ASSUME NEW f, NEW U
  PROVE  SumFunctionOnSet(f, U) = Sums(f, U)[U]
  BY DEF SumFunctionOnSet, FoldFunctionOnSet, MapThenFoldSet, Sums, SumOf, Pick

LEMMA PickIn ==
  ASSUME NEW W, W # {} PROVE Pick(W) \in W
  BY DEF Pick

UpTo(S, n) == {W \in SUBSET S : Cardinality(W) <= n}

LEMMA SmallerSubset ==
  ASSUME NEW S, IsFiniteSet(S), NEW W \in SUBSET S, NEW x \in W
  PROVE  /\ IsFiniteSet(W) /\ Cardinality(W) \in Nat
         /\ W \ {x} \in SUBSET S /\ Cardinality(W \ {x}) \in Nat
         /\ Cardinality(W \ {x}) = Cardinality(W) - 1
<1>1. IsFiniteSet(W)
  BY FS_Subset
<1>2. IsFiniteSet(W \ {x}) /\ Cardinality(W \ {x}) = Cardinality(W) - 1
  BY <1>1, FS_RemoveElement
<1>3. QED
  BY <1>1, <1>2, FS_CardinalityType

LEMMA SumsUpTo ==
  ASSUME NEW S, IsFiniteSet(S), NEW f \in [S -> Nat], NEW n \in Nat
  PROVE  \E h \in [UpTo(S, n) -> Nat] : \A W \in UpTo(S, n) : h[W] = SumOf(h, f, W)
<1> DEFINE Good(k) == \E h \in [UpTo(S, k) -> Nat] : \A W \in UpTo(S, k) : h[W] = SumOf(h, f, W)
           Bad == {k \in Nat : ~Good(k)}
<1> SUFFICES ASSUME Bad # {} PROVE FALSE
  OBVIOUS
<1>1. PICK k \in Bad : \A m \in Bad : k <= m
  <2>1. Bad \in SUBSET Nat
    OBVIOUS
  <2> HIDE DEF Bad
  <2>2. QED BY <2>1, LeastNatural
<1>2. CASE k = 0
  <2>1. \A W \in UpTo(S, 0) : W = {}
    <3> SUFFICES ASSUME NEW W \in UpTo(S, 0) PROVE W = {}
      OBVIOUS
    <3>1. IsFiniteSet(W) /\ Cardinality(W) \in Nat /\ Cardinality(W) <= 0
      BY FS_Subset, FS_CardinalityType DEF UpTo
    <3>2. QED
      BY <3>1, FS_EmptySet
  <2> DEFINE h == [W \in UpTo(S, 0) |-> 0]
  <2>2. h \in [UpTo(S, 0) -> Nat] /\ \A W \in UpTo(S, 0) : h[W] = SumOf(h, f, W)
    BY <2>1 DEF SumOf
  <2>3. Good(0)
    BY <2>2
  <2>4. QED
    BY <1>2, <2>3
<1>3. CASE k # 0
  <2>1. k - 1 \in Nat /\ Good(k - 1)
    BY <1>1, <1>3
  <2>2. PICK g \in [UpTo(S, k - 1) -> Nat] : \A W \in UpTo(S, k - 1) : g[W] = SumOf(g, f, W)
    BY <2>1
  <2> DEFINE h == [W \in UpTo(S, k) |-> SumOf(g, f, W)]
  <2>3. ASSUME NEW W \in UpTo(S, k), W # {}
        PROVE  /\ Pick(W) \in S /\ W \ {Pick(W)} \in UpTo(S, k - 1)
               /\ W \ {Pick(W)} \in UpTo(S, k)
    BY <2>1, <2>3, PickIn, SmallerSubset DEF UpTo
  <2>4. ASSUME NEW W \in UpTo(S, k - 1) PROVE W \in UpTo(S, k) /\ h[W] = g[W]
    <3>1. W \in UpTo(S, k)
      <4>1. Cardinality(W) \in Nat
        BY FS_Subset, FS_CardinalityType DEF UpTo
      <4>2. QED
        BY <2>1, <4>1 DEF UpTo
    <3>2. QED BY <2>2, <3>1
  <2>5. ASSUME NEW W \in UpTo(S, k) PROVE h[W] \in Nat /\ h[W] = SumOf(h, f, W)
    <3>1. h[W] = SumOf(g, f, W)
      OBVIOUS
    <3>2. CASE W = {}
      BY <3>1, <3>2 DEF SumOf
    <3>3. CASE W # {}
      <4> DEFINE V == W \ {Pick(W)}
      <4>1. f[Pick(W)] \in Nat /\ g[V] \in Nat /\ h[V] = g[V]
        BY <2>3, <2>4, <3>3
      <4>2. QED
        BY <3>1, <3>3, <4>1 DEF SumOf
    <3>4. QED BY <3>2, <3>3
  <2>6. Good(k)
    <3>1. \A W \in UpTo(S, k) : SumOf(g, f, W) \in Nat
      BY <2>5
    <3>2. h \in [UpTo(S, k) -> Nat]
      BY <3>1
    <3> HIDE DEF h
    <3>3. QED BY <2>5, <3>2
  <2>7. QED BY <2>6
<1>4. QED BY <1>2, <1>3

LEMMA SumsEquation ==
  ASSUME NEW S, IsFiniteSet(S), NEW f \in [S -> Nat]
  PROVE  /\ Sums(f, S) \in [SUBSET S -> Nat]
         /\ \A W \in SUBSET S : Sums(f, S)[W] = SumOf(Sums(f, S), f, W)
<1>1. Cardinality(S) \in Nat /\ UpTo(S, Cardinality(S)) = SUBSET S
  BY FS_Subset, FS_CardinalityType DEF UpTo
<1>2. PICK h \in [SUBSET S -> Nat] : \A W \in SUBSET S : h[W] = SumOf(h, f, W)
  <2>1. \A n \in Nat :
          \E h \in [UpTo(S, n) -> Nat] : \A W \in UpTo(S, n) : h[W] = SumOf(h, f, W)
    BY SumsUpTo
  <2>2. QED BY <1>1, <2>1
<1>3. h = [W \in SUBSET S |-> SumOf(h, f, W)]
  BY <1>2
<1>4. Sums(f, S) = [W \in SUBSET S |-> SumOf(Sums(f, S), f, W)]
  <2> DEFINE P(g) == g = [W \in SUBSET S |-> SumOf(g, f, W)]
  <2>1. P(h)
    BY <1>3
  <2>2. Sums(f, S) = CHOOSE g : P(g)
    BY DEF Sums
  <2>3. P(CHOOSE g : P(g))
    <3> HIDE DEF P
    <3>1. QED BY <2>1
  <2>4. QED
    BY <2>2, <2>3
<1> DEFINE s == Sums(f, S)
<1>5. \A W \in SUBSET S : s[W] = SumOf(s, f, W)
  BY <1>4
<1> HIDE DEF s
<1> DEFINE Differ == {k \in Nat : \E W \in SUBSET S : Cardinality(W) = k /\ s[W] # h[W]}
<1>6. Differ = {}
  <2> SUFFICES ASSUME Differ # {} PROVE FALSE
    OBVIOUS
  <2>1. PICK k \in Differ : \A m \in Differ : k <= m
    <3>1. Differ \in SUBSET Nat
      OBVIOUS
    <3> HIDE DEF Differ
    <3>2. QED BY <3>1, LeastNatural
  <2>2. PICK W \in SUBSET S : Cardinality(W) = k /\ s[W] # h[W]
    BY <2>1
  <2>3. W # {}
    BY <1>2, <1>5, <2>2 DEF SumOf
  <2>4. /\ W \ {Pick(W)} \in SUBSET S /\ Cardinality(W \ {Pick(W)}) \in Nat
        /\ Cardinality(W \ {Pick(W)}) < k
    BY <2>2, <2>3, PickIn, SmallerSubset
  <2>5. s[W \ {Pick(W)}] = h[W \ {Pick(W)}]
    BY <2>1, <2>4
  <2>6. QED
    BY <1>2, <1>5, <2>2, <2>3, <2>5 DEF SumOf
<1>7. \A W \in SUBSET S : s[W] = h[W]
  BY <1>6, FS_Subset, FS_CardinalityType
<1>8. s \in [SUBSET S -> Nat]
  <2>1. s = [W \in SUBSET S |-> SumOf(s, f, W)]
    BY <1>4 DEF s
  <2>2. QED BY <1>7, <2>1
<1>9. QED
  BY <1>5, <1>8 DEF s

(* Two sums of functions that agree on a set agree there, whatever the     *)
(* sets they are folded over.                                              *)
LEMMA SumsAgree ==
  ASSUME NEW S, IsFiniteSet(S), NEW f \in [S -> Nat],
         NEW T, IsFiniteSet(T), NEW g \in [T -> Nat],
         NEW U \in SUBSET S, U \in SUBSET T, \A x \in U : f[x] = g[x]
  PROVE  Sums(f, S)[U] = Sums(g, T)[U]
<1> DEFINE s == Sums(f, S)
           t == Sums(g, T)
           Differ == {k \in Nat : \E W \in SUBSET U : Cardinality(W) = k /\ s[W] # t[W]}
<1>1. /\ \A W \in SUBSET S : s[W] = SumOf(s, f, W)
      /\ \A W \in SUBSET T : t[W] = SumOf(t, g, W)
  BY SumsEquation
<1> HIDE DEF s, t
<1>2. Differ = {}
  <2> SUFFICES ASSUME Differ # {} PROVE FALSE
    OBVIOUS
  <2>1. PICK k \in Differ : \A m \in Differ : k <= m
    <3>1. Differ \in SUBSET Nat
      OBVIOUS
    <3> HIDE DEF Differ
    <3>2. QED BY <3>1, LeastNatural
  <2>2. PICK W \in SUBSET U : Cardinality(W) = k /\ s[W] # t[W]
    BY <2>1
  <2>3. W # {}
    BY <1>1, <2>2 DEF SumOf
  <2> DEFINE V == W \ {Pick(W)}
  <2>4. V \in SUBSET U /\ Cardinality(V) \in Nat /\ Cardinality(V) < k
    BY <2>2, <2>3, PickIn, SmallerSubset
  <2>5. s[V] = t[V] /\ f[Pick(W)] = g[Pick(W)]
    BY <2>1, <2>3, <2>4, PickIn
  <2>6. QED
    BY <1>1, <2>2, <2>3, <2>5 DEF SumOf
<1>3. IsFiniteSet(U) /\ Cardinality(U) \in Nat
  BY FS_Subset, FS_CardinalityType
<1>4. QED
  BY <1>2, <1>3 DEF s, t

(* The order in which the fold takes the elements does not matter.         *)
LEMMA SumsRemove ==
  ASSUME NEW S, IsFiniteSet(S), NEW f \in [S -> Nat], NEW U \in SUBSET S, NEW x \in U
  PROVE  Sums(f, S)[U] = f[x] + Sums(f, S)[U \ {x}]
<1> DEFINE s == Sums(f, S)
           Wrong(W) == \E y \in W : s[W] # f[y] + s[W \ {y}]
           Bad == {k \in Nat : \E W \in SUBSET S : Cardinality(W) = k /\ Wrong(W)}
<1>1. s \in [SUBSET S -> Nat] /\ \A W \in SUBSET S : s[W] = SumOf(s, f, W)
  BY SumsEquation
<1> HIDE DEF s
<1>2. Bad = {}
  <2> SUFFICES ASSUME Bad # {} PROVE FALSE
    OBVIOUS
  <2>1. PICK k \in Bad : \A m \in Bad : k <= m
    <3>1. Bad \in SUBSET Nat
      OBVIOUS
    <3> HIDE DEF Bad
    <3>2. QED BY <3>1, LeastNatural
  <2>2. PICK W \in SUBSET S : Cardinality(W) = k /\ Wrong(W)
    BY <2>1
  <2>0. PICK y \in W : s[W] # f[y] + s[W \ {y}]
    BY <2>2
  <2>3. PICK c \in W : c = Pick(W)
    BY PickIn
  <2>4. s[W] = f[c] + s[W \ {c}] /\ c # y
    BY <1>1, <2>0, <2>3 DEF SumOf
  <2>5. /\ W \ {c} \in SUBSET S /\ Cardinality(W \ {c}) \in Nat /\ Cardinality(W \ {c}) < k
        /\ W \ {y} \in SUBSET S /\ Cardinality(W \ {y}) \in Nat /\ Cardinality(W \ {y}) < k
    BY <2>2, SmallerSubset
  <2>6. ~Wrong(W \ {c}) /\ ~Wrong(W \ {y})
    <3> HIDE DEF Wrong
    <3>1. QED BY <2>1, <2>5
  <2>7. /\ s[W \ {c}] = f[y] + s[(W \ {c}) \ {y}]
        /\ s[W \ {y}] = f[c] + s[(W \ {y}) \ {c}]
    BY <2>4, <2>6
  <2>8. (W \ {c}) \ {y} = (W \ {y}) \ {c}
    OBVIOUS
  <2>9. /\ f[c] \in Nat /\ f[y] \in Nat /\ s[(W \ {y}) \ {c}] \in Nat
    BY <1>1, <2>5
  <2>10. QED
    <3>1. s[W] = f[c] + (f[y] + s[(W \ {y}) \ {c}])
      BY <2>4, <2>7, <2>8
    <3>2. f[y] + s[W \ {y}] = f[y] + (f[c] + s[(W \ {y}) \ {c}])
      BY <2>7
    <3>3. QED
      BY <2>0, <2>9, <3>1, <3>2
<1>3. IsFiniteSet(U) /\ Cardinality(U) \in Nat
  BY FS_Subset, FS_CardinalityType
<1>4. QED
  BY <1>2, <1>3 DEF s

(* SumFunction, as the properties use it.                                  *)

LEMMA SumType ==
  ASSUME NEW S, IsFiniteSet(S), NEW f \in [S -> Nat]
  PROVE  SumFunction(f) \in Nat
<1>1. DOMAIN f = S
  OBVIOUS
<1>2. SumFunction(f) = Sums(f, S)[S]
  BY <1>1, SumUnfolds DEF SumFunction
<1>3. Sums(f, S) \in [SUBSET S -> Nat]
  BY SumsEquation
<1>4. QED
  BY <1>2, <1>3

LEMMA SumEmpty ==
  ASSUME NEW f \in [{} -> Nat]
  PROVE  SumFunction(f) = 0
<1>1. SumFunction(f) = Sums(f, {})[{}]
  BY SumUnfolds DEF SumFunction
<1>2. Sums(f, {})[{}] = SumOf(Sums(f, {}), f, {})
  BY SumsEquation, FS_EmptySet
<1>3. QED
  BY <1>1, <1>2 DEF SumOf

(* A sum over a set, one of its elements, and the sum over the others.     *)
LEMMA SumSplit ==
  ASSUME NEW S, IsFiniteSet(S), NEW f \in [S -> Nat], NEW x \in S,
         NEW g \in [S \ {x} -> Nat], \A y \in S \ {x} : g[y] = f[y]
  PROVE  SumFunction(f) = f[x] + SumFunction(g)
<1>1. DOMAIN f = S /\ DOMAIN g = S \ {x} /\ IsFiniteSet(S \ {x})
  BY FS_RemoveElement
<1>2. SumFunction(f) = Sums(f, S)[S] /\ SumFunction(g) = Sums(g, S \ {x})[S \ {x}]
  BY <1>1, SumUnfolds DEF SumFunction
<1>3. Sums(f, S)[S] = f[x] + Sums(f, S)[S \ {x}]
  <2>1. \A U \in SUBSET S : \A y \in U : Sums(f, S)[U] = f[y] + Sums(f, S)[U \ {y}]
    BY SumsRemove
  <2>2. QED BY <2>1
<1>4. Sums(f, S)[S \ {x}] = Sums(g, S \ {x})[S \ {x}]
  BY <1>1, SumsAgree
<1>5. QED
  BY <1>2, <1>3, <1>4

(* A sum whose function changes at one element.                            *)
LEMMA SumUpdate ==
  ASSUME NEW S, IsFiniteSet(S), NEW f \in [S -> Nat], NEW x \in S, NEW v \in Nat
  PROVE  SumFunction([f EXCEPT ![x] = v]) = SumFunction(f) - f[x] + v
<1> DEFINE g == [f EXCEPT ![x] = v]
           h == [y \in S \ {x} |-> f[y]]
<1>1. g \in [S -> Nat] /\ g[x] = v /\ h \in [S \ {x} -> Nat] /\ IsFiniteSet(S \ {x})
      /\ \A y \in S \ {x} : h[y] = f[y] /\ h[y] = g[y]
  BY FS_RemoveElement
<1> HIDE DEF g, h
<1>2. SumFunction(f) = f[x] + SumFunction(h) /\ SumFunction(g) = g[x] + SumFunction(h)
  BY <1>1, SumSplit
<1>3. SumFunction(h) \in Nat /\ f[x] \in Nat
  BY <1>1, SumType
<1>4. QED
  BY <1>1, <1>2, <1>3 DEF g

-------------------------------------------------------------------------------
(* Operators of CacheState *)

LEMMA LimitsType ==
  ASSUME config \in Configs
  PROVE  MaxEntries \in Nat /\ MaxBytes \in 0..UsizeMax
  BY CacheAssumption DEF MaxEntries, MaxBytes

(* The configuration of a Transpiler never changes.                        *)
LEMMA ConfigKept ==
  ASSUME [Next]_vars
  PROVE  /\ config' = config /\ IsEnabled' = IsEnabled
         /\ MaxEntries' = MaxEntries /\ MaxBytes' = MaxBytes
<1>1. config' = config
  BY DEF Next, Transpile, Begin, ClearCache, vars
<1>2. QED
  BY <1>1 DEF IsEnabled, MaxEntries, MaxBytes

LEMMA AccessType ==
  ASSUME clock \in 0..ClockMax
  PROVE  NextAccess \in 0..ClockMax
  BY CacheAssumption DEF NextAccess

LEMMA SaturationType ==
  ASSUME NEW a \in 0..UsizeMax, NEW b \in Nat
  PROVE  /\ SaturatingAdd(a, b) \in 0..UsizeMax
         /\ SaturatingSub(a, b) \in 0..a
  BY CacheAssumption DEF SaturatingAdd, SaturatingSub

(* A lookup changes neither what is cached nor the artifacts and weights;  *)
(* a hit makes the entry's access the latest.                              *)
LEMMA GetEffect ==
  ASSUME TypeOK, NEW s \in Sources, Get(s)
  PROVE  /\ entries' \in [Sources -> Entry \cup {NoEntry}]
         /\ bytes' = bytes
         /\ clock' \in 0..ClockMax
         /\ Cached' = Cached
         /\ \A r \in Cached : /\ entries'[r].output = entries[r].output
                              /\ entries'[r].weight = entries[r].weight
         /\ s \in Cached => entries'[s].last_access = NextAccess
         /\ \A r \in Cached \ {s} : entries'[r] = entries[r]
<1>1. NextAccess \in 0..ClockMax
  BY AccessType DEF TypeOK
<1>2. CASE s \notin Cached
  BY <1>1, <1>2 DEF TypeOK, Get, Cached
<1>3. CASE s \in Cached
  <2>1. entries[s] \in Entry
    BY <1>3 DEF TypeOK, Cached
  <2>2. /\ Touch(entries[s]) \in Entry
        /\ Touch(entries[s]).output = entries[s].output
        /\ Touch(entries[s]).weight = entries[s].weight
        /\ Touch(entries[s]).last_access = NextAccess
    BY <2>1, <1>1 DEF Touch, Entry
  <2>3. Touch(entries[s]) # NoEntry
    BY <2>2, SentinelAssumption
  <2>4. entries' = [entries EXCEPT ![s] = Touch(entries[s])]
    BY <1>3 DEF Get
  <2>5. QED
    BY <2>2, <2>3, <2>4, <1>1 DEF TypeOK, Get, Cached
<1>4. QED
  BY <1>2, <1>3

LEMMA AddEntryEffect ==
  ASSUME TypeOK, NEW s \in Sources, NEW o \in Artifact, AddEntry(s, o)
  PROVE  /\ entries' \in [Sources -> Entry \cup {NoEntry}]
         /\ bytes' = SaturatingAdd(bytes, Weight[s])
         /\ bytes' \in 0..UsizeMax
         /\ clock' \in 0..ClockMax
         /\ Cached' = Cached \cup {s}
         /\ entries'[s].output = o
         /\ entries'[s].weight = Weight[s]
         /\ entries'[s].last_access = NextAccess
         /\ \A r \in Cached \ {s} : entries'[r] = entries[r]
<1>1. NextAccess \in 0..ClockMax
  BY AccessType DEF TypeOK
<1>2. Weight[s] \in Nat
  BY CacheAssumption
<1> DEFINE e == [output |-> o, last_access |-> NextAccess, weight |-> Weight[s]]
<1>3. e \in Entry /\ e.output = o /\ e.weight = Weight[s] /\ e.last_access = NextAccess
  BY <1>1, <1>2 DEF Entry
<1>4. e # NoEntry
  BY <1>3, SentinelAssumption
<1>5. entries' = [entries EXCEPT ![s] = e]
  BY DEF AddEntry
<1>6. bytes' \in 0..UsizeMax
  BY <1>2, SaturationType DEF TypeOK, AddEntry
<1>7. clock' \in 0..ClockMax /\ bytes' = SaturatingAdd(bytes, Weight[s])
  BY <1>1 DEF AddEntry
<1> HIDE DEF e
<1>8. QED
  BY <1>3, <1>4, <1>5, <1>6, <1>7 DEF TypeOK, Cached

LEMMA RemoveEntryEffect ==
  ASSUME TypeOK, NEW s \in Cached, RemoveEntry(s)
  PROVE  /\ entries' \in [Sources -> Entry \cup {NoEntry}]
         /\ entries[s].weight \in Nat
         /\ bytes' \in 0..bytes
         /\ bytes' = SaturatingSub(bytes, entries[s].weight)
         /\ clock' = clock
         /\ Cached' = Cached \ {s}
         /\ \A r \in Cached \ {s} : entries'[r] = entries[r]
<1>1. entries[s].weight \in Nat
  BY DEF TypeOK, Cached, Entry
<1>2. bytes' \in 0..bytes
  BY <1>1, SaturationType DEF TypeOK, RemoveEntry
<1>3. QED
  BY <1>1, <1>2 DEF TypeOK, RemoveEntry, Cached

(* The least recently used entry exists only if something is cached, and   *)
(* is one of the cached sources.                                           *)
LEMMA LeastRecentCached == LeastRecent \subseteq Cached
  BY DEF LeastRecent

LEMMA CachedFinite == IsFiniteSet(Cached) /\ Cardinality(Cached) \in Nat
<1>1. IsFiniteSet(Sources)
  BY CacheAssumption
<1>2. Cached \in SUBSET Sources
  BY DEF Cached
<1>3. QED
  BY <1>1, <1>2, FS_Subset, FS_CardinalityType

-------------------------------------------------------------------------------
(* The inductive invariant *)

LEMMA InitIInv == Init => IInv
<1> SUFFICES ASSUME Init PROVE IInv
  OBVIOUS
<1> USE CacheAssumption DEF Init
<1>1. TypeOK
  BY DEF TypeOK, Location, Counter
<1>2. Cached = {}
  BY DEF Cached
<1>3. Bounded
  BY <1>2, FS_EmptySet, LimitsType DEF Bounded
<1>4. NoPreviousEntry
  BY DEF NoPreviousEntry
<1>5. ASSUME NEW t \in Threads PROVE ThreadInv(t)
  BY <1>5 DEF ThreadInv, Holding
<1>6. QED
  BY <1>1, <1>3, <1>4, <1>5 DEF IInv

(* The control state of a thread inside a call. *)
LEMMA InCall ==
  ASSUME IInv, NEW t \in Threads, pc[t] # "idle"
  PROVE  source[t] \in Sources
  BY DEF IInv, ThreadInv

LEMMA LoweredType ==
  ASSUME IInv, NEW t \in Threads, pc[t] # "idle"
  PROVE  Lowered(t) \in Artifact
  BY InCall DEF IInv, TypeOK, Lowered, Artifact

LEMMA HeldType ==
  ASSUME IInv, NEW t \in Threads, pc[t] \in Holding
  PROVE  output[t] \in Artifact /\ output[t] = Lowered(t)
<1>1. pc[t] # "idle" /\ output[t] = Lowered(t)
  BY DEF IInv, ThreadInv, Holding
<1>2. QED
  BY <1>1, LoweredType

LEMMA TypeStep == IInv /\ [Next]_vars => TypeOK'
<1> SUFFICES ASSUME IInv, [Next]_vars PROVE TypeOK'
  OBVIOUS
<1>0. TypeOK /\ config' = config
  BY ConfigKept DEF IInv
<1>1. ASSUME NEW t \in Threads, NEW s \in Sources, Begin(t, s) PROVE TypeOK'
  <2>1. calls + 1 \in 0..MaxCalls
    BY <1>0, <1>1, CacheAssumption DEF TypeOK, Begin
  <2>2. metrics' \in [Counter -> Nat]
    BY <1>0, <1>1 DEF TypeOK, Begin, Count, Counter
  <2>3. pc' \in [Threads -> Location]
    BY <1>0, <1>1 DEF TypeOK, Begin, Step, Location
  <2>4. QED
    BY <1>0, <1>1, <2>1, <2>2, <2>3 DEF TypeOK, Begin, cacheVars
<1>2. ASSUME NEW t \in Threads, LookupHit(t) PROVE TypeOK'
  <2>1. source[t] \in Sources /\ pc[t] # "idle"
    BY <1>2, InCall DEF LookupHit, Return, Step
  <2>2. entries[source[t]].output \in Artifact
    BY <1>0, <1>2, <2>1 DEF LookupHit, TypeOK, Cached, Entry
  <2>3. metrics' \in [Counter -> Nat]
    BY <1>0, <1>2 DEF TypeOK, LookupHit, Count, Counter
  <2>4. QED
    BY <1>0, <1>2, <2>1, <2>2, <2>3, GetEffect
    DEF TypeOK, LookupHit, Return, Step, Location
<1>3. ASSUME NEW t \in Threads, LookupMiss(t) PROVE TypeOK'
  <2>1. source[t] \in Sources
    BY <1>3, InCall DEF LookupMiss, Step
  <2>2. QED
    BY <1>0, <1>3, <2>1, GetEffect DEF TypeOK, LookupMiss, Step, Location, callVars
<1>4. ASSUME NEW t \in Threads, CountMiss(t) PROVE TypeOK'
  BY <1>0, <1>4
  DEF TypeOK, CountMiss, Count, Counter, Step, Location, callVars, cacheVars
<1>5. ASSUME NEW t \in Threads, LowerFails(t) PROVE TypeOK'
  BY <1>0, <1>5 DEF TypeOK, LowerFails, Return, Step, Location, cacheVars
<1>6. ASSUME NEW t \in Threads, LowerSucceeds(t) PROVE TypeOK'
  <2>1. Lowered(t) \in Artifact
    BY <1>6, LoweredType DEF LowerSucceeds, Return, Step
  <2>2. QED
    BY <1>0, <1>6, <2>1 DEF TypeOK, LowerSucceeds, Return, Step, Location, cacheVars
<1>7. ASSUME NEW t \in Threads, InsertExisting(t) PROVE TypeOK'
  <2>1. source[t] \in Sources /\ pc[t] # "idle"
    BY <1>7, InCall DEF InsertExisting, Return, Step
  <2>2. CanonicalArtifact(t) \in Artifact
    BY <1>0, <1>7, <2>1 DEF InsertExisting, TypeOK, Cached, Entry, CanonicalArtifact
  <2>3. QED
    BY <1>0, <1>7, <2>1, <2>2, GetEffect
    DEF TypeOK, InsertExisting, Return, Step, Location
<1>8. ASSUME NEW t \in Threads, InsertSkip(t) PROVE TypeOK'
  <2>1. source[t] \in Sources
    BY <1>8, InCall DEF InsertSkip, Step
  <2>2. QED
    BY <1>0, <1>8, <2>1, GetEffect DEF TypeOK, InsertSkip, Step, Location, callVars
<1>9. ASSUME NEW t \in Threads, InsertStart(t) PROVE TypeOK'
  <2>1. source[t] \in Sources
    BY <1>9, InCall DEF InsertStart, Step
  <2>2. QED
    BY <1>0, <1>9, <2>1, GetEffect
    DEF TypeOK, InsertStart, Acquire, Step, Location, callVars
<1>10. ASSUME NEW t \in Threads, EvictLru(t) PROVE TypeOK'
  <2>1. CASE Cached = {}
    BY <1>0, <1>10, <2>1 DEF TypeOK, EvictLru, Step, Release, Location, cacheVars
  <2>2. CASE Cached # {}
    <3>1. PICK s \in Cached : RemoveEntry(s)
      BY <1>10, <2>2, LeastRecentCached DEF EvictLru
    <3>2. /\ entries' \in [Sources -> Entry \cup {NoEntry}]
          /\ bytes' \in 0..bytes /\ clock' = clock
      BY <1>0, <3>1, RemoveEntryEffect
    <3>3. bytes' \in 0..UsizeMax
      BY <1>0, <3>2, CacheAssumption DEF TypeOK
    <3>4. QED
      BY <1>0, <1>10, <2>2, <3>2, <3>3 DEF TypeOK, EvictLru
  <2>3. QED
    BY <2>1, <2>2
<1>11. ASSUME NEW t \in Threads, InsertFinish(t) PROVE TypeOK'
  <2>1. source[t] \in Sources /\ output[t] \in Artifact
    BY <1>11, InCall, HeldType DEF InsertFinish, Step, Holding
  <2>2. QED
    BY <1>0, <1>11, <2>1, AddEntryEffect
    DEF TypeOK, InsertFinish, Release, Step, Location, callVars
<1>12. ASSUME NEW t \in Threads, CountInsertion(t) PROVE TypeOK'
  BY <1>0, <1>12
  DEF TypeOK, CountInsertion, Count, Counter, Step, Location, callVars, cacheVars
<1>13. ASSUME NEW t \in Threads, CountEvictions(t) PROVE TypeOK'
  <2>1. output[t] \in Artifact
    BY <1>13, HeldType DEF CountEvictions, Return, Step, Holding
  <2>2. metrics' \in [Counter -> Nat]
    BY <1>0, <1>13 DEF TypeOK, CountEvictions, Count, Counter
  <2>3. QED
    BY <1>0, <1>13, <2>1, <2>2
    DEF TypeOK, CountEvictions, Return, Step, Location, cacheVars
<1>14. ASSUME NEW t \in Threads, CountSkipped(t) PROVE TypeOK'
  <2>1. output[t] \in Artifact
    BY <1>14, HeldType DEF CountSkipped, Return, Step, Holding
  <2>2. metrics' \in [Counter -> Nat]
    BY <1>0, <1>14 DEF TypeOK, CountSkipped, Count, Counter
  <2>3. QED
    BY <1>0, <1>14, <2>1, <2>2
    DEF TypeOK, CountSkipped, Return, Step, Location, cacheVars
<1>15. CASE ClearCache
  <2>1. Cardinality(Cached) \in Nat
    BY CachedFinite
  <2>2. QED
    BY <1>0, <1>15, <2>1, CacheAssumption DEF TypeOK, ClearCache, callVars
<1>16. CASE UNCHANGED vars
  BY <1>0, <1>16 DEF TypeOK, vars, cacheVars, callVars
<1>17. QED
  BY <1>1, <1>2, <1>3, <1>4, <1>5, <1>6, <1>7, <1>8, <1>9, <1>10, <1>11, <1>12,
     <1>13, <1>14, <1>15, <1>16 DEF Next, Transpile

(* Which sources a step may add to the cache or drop from it: the thread   *)
(* that holds the mutex evicts one or adds its own, ClearCache drops all,  *)
(* and every other step leaves the cached set, its artifacts and their     *)
(* weights alone.                                                          *)
CacheKept ==
    /\ Cached' = Cached
    /\ bytes' = bytes
    /\ \A s \in Cached : /\ entries'[s].output = entries[s].output
                         /\ entries'[s].weight = entries[s].weight

LEMMA UnchangedCacheKept ==
  ASSUME UNCHANGED cacheVars PROVE CacheKept
  BY DEF CacheKept, cacheVars, Cached

LEMMA GetCacheKept ==
  ASSUME IInv, NEW t \in Threads, pc[t] # "idle", Get(source[t])
  PROVE  CacheKept
<1>1. source[t] \in Sources /\ TypeOK
  BY InCall DEF IInv
<1>2. QED
  BY <1>1, GetEffect DEF CacheKept

LEMMA CacheStep ==
  ASSUME IInv, NEW t \in Threads, Transpile(t)
  PROVE  CacheKept \/ EvictLru(t) \/ InsertFinish(t)
<1>1. CASE CountMiss(t) \/ LowerFails(t) \/ LowerSucceeds(t) \/ CountInsertion(t)
           \/ CountEvictions(t) \/ CountSkipped(t)
  <2>1. UNCHANGED cacheVars
    BY <1>1 DEF CountMiss, LowerFails, LowerSucceeds, CountInsertion,
                CountEvictions, CountSkipped
  <2>2. QED
    BY <2>1, UnchangedCacheKept
<1>2. CASE LookupHit(t) \/ LookupMiss(t) \/ InsertExisting(t) \/ InsertSkip(t)
           \/ InsertStart(t)
  <2>1. Get(source[t]) /\ pc[t] # "idle"
    BY <1>2 DEF LookupHit, LookupMiss, InsertExisting, InsertSkip, InsertStart,
                Return, Step
  <2>2. QED
    BY <2>1, GetCacheKept
<1>3. QED
  BY <1>1, <1>2 DEF Transpile

(* A thread in the eviction loop is the only one, and holds the mutex.     *)
LEMMA MutualExclusion ==
  ASSUME IInv, NEW t \in Threads, pc[t] = "evicting"
  PROVE  /\ lock = t /\ ~LockFree
         /\ \A u \in Threads \ {t} : pc[u] # "evicting"
  BY CacheAssumption DEF IInv, ThreadInv, LockFree

LEMMA BoundedStep == IInv /\ [Next]_vars => Bounded'
<1> SUFFICES ASSUME IInv, [Next]_vars PROVE Bounded'
  OBVIOUS
<1>0. TypeOK /\ Bounded /\ IsFiniteSet(Cached) /\ Cardinality(Cached) \in Nat
  BY CachedFinite DEF IInv
<1>c. /\ MaxEntries' = MaxEntries /\ MaxBytes' = MaxBytes /\ IsEnabled' = IsEnabled
      /\ MaxEntries \in Nat /\ MaxBytes \in 0..UsizeMax
  BY <1>0, ConfigKept, LimitsType DEF TypeOK
<1>1. CASE CacheKept
  BY <1>0, <1>1, <1>c DEF Bounded, CacheKept
<1>2. ASSUME NEW t \in Threads, EvictLru(t) PROVE Bounded'
  <2>1. CASE Cached = {}
    BY <1>1, <1>2, <2>1, UnchangedCacheKept DEF EvictLru
  <2>2. CASE Cached # {}
    <3>1. PICK s \in Cached : RemoveEntry(s)
      BY <1>2, <2>2, LeastRecentCached DEF EvictLru
    <3>2. Cached' = Cached \ {s} /\ bytes' \in 0..bytes
      BY <1>0, <3>1, RemoveEntryEffect
    <3>3. Cardinality(Cached') = Cardinality(Cached) - 1
      BY <1>0, <3>2, FS_RemoveElement
    <3>4. QED
      BY <1>0, <1>c, <3>2, <3>3, CacheAssumption DEF Bounded, TypeOK
  <2>3. QED
    BY <2>1, <2>2
<1>3. ASSUME NEW t \in Threads, InsertFinish(t) PROVE Bounded'
  <2>1. /\ source[t] \in Sources /\ output[t] \in Artifact /\ IsEnabled
    BY <1>3, InCall, HeldType DEF InsertFinish, Step, Holding, IInv, ThreadInv
  <2>2. Cached' = Cached \cup {source[t]}
        /\ bytes' = SaturatingAdd(bytes, Weight[source[t]])
    BY <1>0, <1>3, <2>1, AddEntryEffect DEF InsertFinish
  <2>3. ~(Cardinality(Cached) >= MaxEntries) /\ ~(bytes' > MaxBytes)
    BY <1>3, <2>2 DEF InsertFinish, MakeRoom
  <2>4. Cardinality(Cached') <= Cardinality(Cached) + 1
    <3>1. /\ IsFiniteSet(Cached \cup {source[t]})
          /\ Cardinality(Cached \cup {source[t]}) =
               IF source[t] \in Cached THEN Cardinality(Cached)
                                       ELSE Cardinality(Cached) + 1
      BY <1>0, FS_AddElement
    <3>2. QED
      BY <1>0, <2>2, <3>1
  <2>5. bytes' \in Nat /\ Cardinality(Cached') \in Nat
    <3>1. bytes' \in 0..UsizeMax
      BY <1>0, <1>3, <2>1, AddEntryEffect DEF InsertFinish
    <3>2. IsFiniteSet(Cached')
      BY <1>0, <2>2, FS_AddElement
    <3>3. QED
      BY <3>1, <3>2, FS_CardinalityType, CacheAssumption
  <2>6. QED
    BY <1>0, <1>c, <2>1, <2>3, <2>4, <2>5, CacheAssumption DEF Bounded
<1>4. CASE ClearCache
  <2>1. Cached' = {} /\ bytes' = 0
    BY <1>4 DEF ClearCache, Cached
  <2>2. QED
    BY <1>c, <2>1, FS_EmptySet, CacheAssumption DEF Bounded
<1>5. ASSUME NEW t \in Threads, NEW s \in Sources, Begin(t, s) PROVE Bounded'
  BY <1>1, <1>5, UnchangedCacheKept DEF Begin
<1>6. CASE UNCHANGED vars
  BY <1>1, <1>6, UnchangedCacheKept DEF vars
<1>7. QED
  BY <1>1, <1>2, <1>3, <1>4, <1>5, <1>6, CacheStep DEF Next

LEMMA NoPreviousEntryStep == IInv /\ [Next]_vars => NoPreviousEntry'
<1> SUFFICES ASSUME IInv, [Next]_vars, NEW u \in Threads, pc'[u] = "evicting"
             PROVE  (source[u] \notin Cached)'
  BY DEF NoPreviousEntry
<1>0. TypeOK /\ NoPreviousEntry
  BY DEF IInv
<1>1. ASSUME NEW t \in Threads, NEW s \in Sources, Begin(t, s)
      PROVE  (source[u] \notin Cached)'
  BY <1>0, <1>1 DEF Begin, Step, TypeOK, NoPreviousEntry, cacheVars, Cached
<1>2. ASSUME NEW t \in Threads, InsertStart(t) PROVE (source[u] \notin Cached)'
  <2>1. CacheKept
    BY <1>2, GetCacheKept DEF InsertStart, Step
  <2>2. u = t
    BY <1>0, <1>2, CacheAssumption
    DEF InsertStart, Acquire, LockFree, Step, TypeOK, IInv, ThreadInv
  <2>3. QED
    BY <1>2, <2>1, <2>2 DEF InsertStart, CacheKept, callVars
<1>3. ASSUME NEW t \in Threads, EvictLru(t) PROVE (source[u] \notin Cached)'
  <2>1. u = t /\ source' = source /\ pc' = pc
    BY <1>0, <1>3, MutualExclusion DEF EvictLru, Step, TypeOK
  <2>2. PICK s \in Cached : RemoveEntry(s)
    BY <1>0, <1>3, <2>1, LeastRecentCached DEF EvictLru, Step, TypeOK
  <2>3. QED
    BY <1>0, <2>1, <2>2, RemoveEntryEffect DEF NoPreviousEntry
<1>4. ASSUME NEW t \in Threads, InsertFinish(t) PROVE FALSE
  BY <1>0, <1>4, MutualExclusion DEF InsertFinish, Step, TypeOK
<1>5. ASSUME NEW t \in Threads, Transpile(t), CacheKept, ~InsertStart(t), ~EvictLru(t)
      PROVE (source[u] \notin Cached)'
  <2>1. pc[u] = "evicting"
    BY <1>0, <1>5
    DEF Transpile, LookupHit, LookupMiss, CountMiss, LowerFails, LowerSucceeds,
        InsertExisting, InsertSkip, InsertFinish, CountInsertion, CountEvictions,
        CountSkipped, Return, Step, TypeOK
  <2>2. source'[u] = source[u]
    BY <1>0, <1>5, <2>1
    DEF Transpile, LookupHit, LookupMiss, CountMiss, LowerFails, LowerSucceeds,
        InsertExisting, InsertSkip, InsertFinish, CountInsertion, CountEvictions,
        CountSkipped, Return, Step, TypeOK, callVars
  <2>3. QED
    BY <1>0, <1>5, <2>1, <2>2 DEF NoPreviousEntry, CacheKept
<1>6. CASE ClearCache
  BY <1>6 DEF ClearCache, Cached
<1>7. CASE UNCHANGED vars
  BY <1>0, <1>7 DEF NoPreviousEntry, vars, cacheVars, callVars, Cached
<1>8. QED
  BY <1>1, <1>2, <1>3, <1>4, <1>5, <1>6, <1>7, CacheStep DEF Next

LEMMA ThreadStep == IInv /\ [Next]_vars => \A u \in Threads : ThreadInv(u)'
<1> SUFFICES ASSUME IInv, [Next]_vars, NEW u \in Threads
             PROVE  ThreadInv(u)'
  OBVIOUS
<1>0. TypeOK /\ ThreadInv(u) /\ IsEnabled' = IsEnabled
  BY ConfigKept DEF IInv
<1>1. ASSUME NEW t \in Threads, NEW s \in Sources, Begin(t, s)
      PROVE  ThreadInv(u)'
  BY <1>0, <1>1
  DEF Begin, Step, TypeOK, ThreadInv, Lowered, Holding
<1>2. ASSUME NEW t \in Threads,
             \/ LookupHit(t) \/ LowerFails(t) \/ InsertExisting(t)
             \/ CountEvictions(t) \/ CountSkipped(t)
      PROVE  ThreadInv(u)'
  BY <1>0, <1>2, CacheAssumption
  DEF LookupHit, LowerFails, InsertExisting, CountEvictions, CountSkipped,
      Return, Step, TypeOK, ThreadInv, Lowered, Holding
<1>3. ASSUME NEW t \in Threads,
             LookupMiss(t) \/ CountMiss(t) \/ InsertSkip(t) \/ CountInsertion(t)
      PROVE  ThreadInv(u)'
  BY <1>0, <1>3
  DEF LookupMiss, CountMiss, InsertSkip, CountInsertion,
      Step, TypeOK, ThreadInv, Lowered, Holding, callVars
<1>4. ASSUME NEW t \in Threads, LowerSucceeds(t) PROVE ThreadInv(u)'
  BY <1>0, <1>4, CacheAssumption
  DEF LowerSucceeds, Return, Step, TypeOK, ThreadInv, Lowered, Holding
<1>5. ASSUME NEW t \in Threads, InsertStart(t) PROVE ThreadInv(u)'
  BY <1>0, <1>5, CacheAssumption
  DEF InsertStart, Acquire, LockFree, Step, TypeOK, ThreadInv, Lowered, Holding, callVars
<1>6. ASSUME NEW t \in Threads, EvictLru(t) PROVE ThreadInv(u)'
  <2>1. u # t => pc[u] # "evicting"
    BY <1>6, MutualExclusion DEF EvictLru
  <2>2. QED
    BY <1>0, <1>6, <2>1, CacheAssumption
    DEF EvictLru, Release, Step, TypeOK, ThreadInv, Lowered, Holding
<1>7. ASSUME NEW t \in Threads, InsertFinish(t) PROVE ThreadInv(u)'
  <2>1. u # t => pc[u] # "evicting"
    BY <1>7, MutualExclusion DEF InsertFinish, Step
  <2>2. QED
    BY <1>0, <1>7, <2>1, CacheAssumption
    DEF InsertFinish, Release, Step, TypeOK, ThreadInv, Lowered, Holding, callVars
<1>8. CASE ClearCache
  BY <1>0, <1>8 DEF ClearCache, ThreadInv, Lowered, callVars
<1>9. CASE UNCHANGED vars
  BY <1>0, <1>9 DEF vars, callVars, ThreadInv, Lowered
<1>10. QED
  BY <1>1, <1>2, <1>3, <1>4, <1>5, <1>6, <1>7, <1>8, <1>9 DEF Next, Transpile

(* In every behaviour, whatever the threads, sources, weights and limits,  *)
(* a thread between its insert's lookup and its store holds the mutex, the *)
(* artifact it holds is the lowering of its own source, and only sources   *)
(* that lower are on the way into the cache.                               *)
THEOREM Inductive == Spec => []IInv
<1>1. IInv /\ [Next]_vars => IInv'
  BY TypeStep, BoundedStep, NoPreviousEntryStep, ThreadStep DEF IInv
<1>2. QED
  BY InitIInv, <1>1, PTL DEF Spec

(* The cache never exceeds max_entries or max_bytes (CacheConfig): not     *)
(* between two steps of an insert, and not when the clock or the byte      *)
(* count saturates.                                                        *)
THEOREM CacheBounded == Spec => []Bounded
<1>1. IInv => Bounded
  BY DEF IInv
<1>2. QED
  BY Inductive, <1>1, PTL

(* HashMap::insert never finds a previous entry: the branch of             *)
(* CacheState::insert that handles one is dead.                            *)
THEOREM InsertFindsNoEntry == Spec => []NoPreviousEntry
<1>1. IInv => NoPreviousEntry
  BY DEF IInv
<1>2. QED
  BY Inductive, <1>1, PTL

-------------------------------------------------------------------------------
(* Bytes *)

LEMMA WeightsType ==
  ASSUME TypeOK
  PROVE  /\ [s \in Cached |-> entries[s].weight] \in [Cached -> Nat]
         /\ IsFiniteSet(Cached)
         /\ CachedWeight \in Nat
<1>1. [s \in Cached |-> entries[s].weight] \in [Cached -> Nat]
  BY DEF TypeOK, Cached, Entry
<1>2. QED
  BY <1>1, CachedFinite, SumType DEF CachedWeight

LEMMA WeightKept ==
  ASSUME CacheKept PROVE CachedWeight' = CachedWeight
<1>1. [s \in Cached |-> entries[s].weight]' = [s \in Cached |-> entries[s].weight]
  BY DEF CacheKept
<1>2. QED
  BY <1>1 DEF CachedWeight

LEMMA WeightRemoved ==
  ASSUME TypeOK, NEW s \in Cached, RemoveEntry(s)
  PROVE  CachedWeight' \in Nat /\ CachedWeight = entries[s].weight + CachedWeight'
<1> DEFINE f == [r \in Cached |-> entries[r].weight]
           g == [r \in Cached' |-> entries'[r].weight]
<1>1. /\ Cached' = Cached \ {s}
      /\ \A r \in Cached \ {s} : entries'[r] = entries[r]
  BY RemoveEntryEffect
<1>2. f \in [Cached -> Nat] /\ IsFiniteSet(Cached) /\ IsFiniteSet(Cached \ {s})
  BY WeightsType, FS_RemoveElement
<1>3. g \in [Cached \ {s} -> Nat] /\ \A r \in Cached \ {s} : g[r] = f[r]
  BY <1>1, <1>2
<1>4. f[s] = entries[s].weight
  OBVIOUS
<1>5. CachedWeight = SumFunction(f) /\ CachedWeight' = SumFunction(g)
  BY DEF CachedWeight
<1> HIDE DEF f, g
<1>6. SumFunction(f) = f[s] + SumFunction(g)
  <2>1. \A h \in [Cached \ {s} -> Nat] :
            (\A r \in Cached \ {s} : h[r] = f[r])
            => SumFunction(f) = f[s] + SumFunction(h)
    BY <1>2, SumSplit
  <2>2. QED
    BY <1>3, <2>1
<1>7. SumFunction(g) \in Nat
  BY <1>2, <1>3, SumType
<1>8. QED
  BY <1>4, <1>5, <1>6, <1>7

LEMMA WeightAdded ==
  ASSUME TypeOK, NEW s \in Sources, s \notin Cached, NEW o \in Artifact, AddEntry(s, o)
  PROVE  CachedWeight' = CachedWeight + Weight[s]
<1> DEFINE f == [r \in Cached' |-> entries'[r].weight]
           g == [r \in Cached |-> entries[r].weight]
<1>1. /\ Cached' = Cached \cup {s}
      /\ entries'[s].weight = Weight[s]
      /\ \A r \in Cached \ {s} : entries'[r] = entries[r]
  BY AddEntryEffect
<1>2. g \in [Cached -> Nat] /\ IsFiniteSet(Cached) /\ IsFiniteSet(Cached \cup {s})
  BY WeightsType, FS_AddElement
<1>3. Weight[s] \in Nat /\ (Cached \cup {s}) \ {s} = Cached
  BY CacheAssumption
<1>4. /\ f \in [Cached \cup {s} -> Nat] /\ f[s] = Weight[s]
      /\ \A r \in Cached : g[r] = f[r]
  BY <1>1, <1>2, <1>3
<1>5. CachedWeight' = SumFunction(f) /\ CachedWeight = SumFunction(g)
  BY DEF CachedWeight
<1> HIDE DEF f, g
<1>6. SumFunction(f) = f[s] + SumFunction(g)
  <2>1. s \in Cached \cup {s} /\ g \in [(Cached \cup {s}) \ {s} -> Nat]
        /\ \A r \in (Cached \cup {s}) \ {s} : g[r] = f[r]
    BY <1>2, <1>3, <1>4
  <2>2. QED
    BY <1>2, <1>4, <2>1, SumSplit
<1>7. SumFunction(g) \in Nat
  BY <1>2, SumType
<1>8. QED
  BY <1>3, <1>4, <1>5, <1>6, <1>7

LEMMA WeightOfNothing ==
  ASSUME Cached = {} PROVE CachedWeight = 0
<1>1. [s \in Cached |-> entries[s].weight] \in [{} -> Nat]
  OBVIOUS
<1>2. QED
  BY <1>1, SumEmpty DEF CachedWeight

LEMMA BytesInit == Init => BytesAccounted
<1> SUFFICES ASSUME Init PROVE BytesAccounted
  OBVIOUS
<1>1. Cached = {} /\ bytes = 0
  BY DEF Init, Cached
<1>2. QED
  BY <1>1, WeightOfNothing DEF BytesAccounted

LEMMA BytesStep == IInv /\ BytesAccounted /\ [Next]_vars => BytesAccounted'
<1> SUFFICES ASSUME IInv, BytesAccounted, [Next]_vars PROVE BytesAccounted'
  OBVIOUS
<1>0. /\ TypeOK /\ bytes \in 0..UsizeMax /\ CachedWeight \in Nat
      /\ MaxBytes' = MaxBytes /\ MaxBytes \in 0..UsizeMax /\ UsizeMax \in Nat
  BY ConfigKept, LimitsType, WeightsType, CacheAssumption DEF IInv, TypeOK
<1>1. CASE CacheKept
  BY <1>0, <1>1, WeightKept DEF BytesAccounted, CacheKept
<1>2. ASSUME NEW t \in Threads, EvictLru(t) PROVE BytesAccounted'
  <2>1. CASE Cached = {}
    BY <1>1, <1>2, <2>1, UnchangedCacheKept DEF EvictLru
  <2>2. CASE Cached # {}
    <3>1. PICK s \in Cached : RemoveEntry(s)
      BY <1>2, <2>2, LeastRecentCached DEF EvictLru
    <3>2. entries[s].weight \in Nat /\ bytes' = SaturatingSub(bytes, entries[s].weight)
      BY <1>0, <3>1, RemoveEntryEffect
    <3>3. CachedWeight' \in Nat /\ CachedWeight = entries[s].weight + CachedWeight'
      BY <1>0, <3>1, WeightRemoved
    <3>4. QED
      BY <1>0, <3>2, <3>3 DEF BytesAccounted, SaturatingSub
  <2>3. QED
    BY <2>1, <2>2
<1>3. ASSUME NEW t \in Threads, InsertFinish(t) PROVE BytesAccounted'
  <2>1. /\ source[t] \in Sources /\ output[t] \in Artifact /\ source[t] \notin Cached
    BY <1>3, InCall, HeldType DEF InsertFinish, Step, Holding, IInv, NoPreviousEntry
  <2>2. /\ Weight[source[t]] \in Nat
        /\ bytes' = SaturatingAdd(bytes, Weight[source[t]])
        /\ CachedWeight' = CachedWeight + Weight[source[t]]
    BY <1>0, <1>3, <2>1, AddEntryEffect, WeightAdded, CacheAssumption DEF InsertFinish
  <2>3. ~(bytes' > MaxBytes)
    BY <1>3, <2>2 DEF InsertFinish, MakeRoom
  <2>4. QED
    BY <1>0, <2>2, <2>3 DEF BytesAccounted, SaturatingAdd
<1>4. CASE ClearCache
  <2>1. Cached' = {} /\ bytes' = 0
    BY <1>4 DEF ClearCache, Cached
  <2>2. (Cached = {})' => (CachedWeight = 0)'
    BY WeightOfNothing, PTL
  <2>3. QED
    BY <2>1, <2>2 DEF BytesAccounted
<1>5. ASSUME NEW t \in Threads, NEW s \in Sources, Begin(t, s) PROVE BytesAccounted'
  BY <1>1, <1>5, UnchangedCacheKept DEF Begin
<1>6. CASE UNCHANGED vars
  BY <1>1, <1>6, UnchangedCacheKept DEF vars
<1>7. QED
  BY <1>1, <1>2, <1>3, <1>4, <1>5, <1>6, CacheStep DEF Next

(* For any sources, weights and limits, the byte count that the eviction   *)
(* loop compares with max_bytes is the total weight of the entries in the  *)
(* map: saturating_add and saturating_sub never lose a byte, except that   *)
(* with max_bytes = usize::MAX the count may stay below the total.         *)
THEOREM BytesTotal == Spec => []BytesAccounted
  BY Inductive, BytesInit, BytesStep, PTL DEF Spec

-------------------------------------------------------------------------------
(* Skips *)

(* An insert never runs out of entries to evict: an empty cache holds no   *)
(* bytes, and the artifact fits in it.                                     *)
LEMMA NoGiveUp ==
  ASSUME IInv, BytesAccounted, NEW t \in Threads, SkipInv(t), pc[t] = "evicting",
         MakeRoom(source[t])
  PROVE  Cached # {}
<1> SUFFICES ASSUME Cached = {} PROVE FALSE
  OBVIOUS
<1>1. /\ source[t] \in Sources /\ Weight[source[t]] \in Nat /\ bytes \in 0..UsizeMax
      /\ MaxEntries \in Nat /\ MaxEntries > 0
  BY InCall, LimitsType, CacheAssumption DEF IInv, TypeOK, ThreadInv, IsEnabled
<1>2. bytes = 0 /\ Cardinality(Cached) = 0
  BY <1>1, WeightOfNothing, FS_EmptySet, CacheAssumption DEF BytesAccounted
<1>3. Weight[source[t]] <= UsizeMax /\ Weight[source[t]] <= MaxBytes
  BY DEF SkipInv, Retainable
<1>4. MaxBytes \in Nat /\ UsizeMax \in Nat
  BY LimitsType, CacheAssumption DEF IInv, TypeOK
<1>5. QED
  BY <1>1, <1>2, <1>3, <1>4 DEF MakeRoom, SaturatingAdd

LEMMA SkipInit == Init => \A u \in Threads : SkipInv(u)
  BY DEF Init, SkipInv

LEMMA SkipStep ==
  ASSUME IInv, BytesAccounted, [Next]_vars, NEW u \in Threads, SkipInv(u)
  PROVE  SkipInv(u)'
<1>0. /\ TypeOK /\ MaxBytes' = MaxBytes
      /\ \A s : Retainable(s)' = Retainable(s)
  BY ConfigKept DEF IInv, Retainable
<1>1. CASE pc'[u] = pc[u] /\ source'[u] = source[u] /\ evicted'[u] = evicted[u]
  BY <1>0, <1>1 DEF SkipInv
<1>2. ASSUME NEW t \in Threads, NEW s \in Sources, Begin(t, s) PROVE SkipInv(u)'
  BY <1>0, <1>2 DEF Begin, Step, TypeOK, SkipInv
<1>3. ASSUME NEW t \in Threads,
             \/ LookupHit(t) \/ LowerFails(t) \/ InsertExisting(t) \/ CountSkipped(t)
      PROVE  SkipInv(u)'
  BY <1>0, <1>1, <1>3
  DEF LookupHit, LowerFails, InsertExisting, CountSkipped, Return, Step, TypeOK,
      SkipInv
<1>4. ASSUME NEW t \in Threads, LookupMiss(t) \/ CountMiss(t) \/ CountInsertion(t)
      PROVE  SkipInv(u)'
  BY <1>0, <1>1, <1>4
  DEF LookupMiss, CountMiss, CountInsertion, Step, TypeOK, SkipInv, callVars
<1>5. ASSUME NEW t \in Threads, LowerSucceeds(t) PROVE SkipInv(u)'
  BY <1>0, <1>1, <1>5 DEF LowerSucceeds, Return, Step, TypeOK, SkipInv
<1>6. ASSUME NEW t \in Threads, InsertSkip(t) \/ InsertStart(t) PROVE SkipInv(u)'
  BY <1>0, <1>1, <1>6 DEF InsertSkip, InsertStart, Step, TypeOK, SkipInv, callVars
<1>7. ASSUME NEW t \in Threads, EvictLru(t) PROVE SkipInv(u)'
  <2>1. CASE u # t
    BY <1>0, <1>1, <1>7, <2>1 DEF EvictLru, Step, TypeOK
  <2>2. CASE u = t
    <3>1. Cached # {}
      BY <1>7, <2>2, NoGiveUp DEF EvictLru
    <3>2. QED
      BY <1>0, <1>7, <2>2, <3>1 DEF EvictLru, SkipInv
  <2>3. QED
    BY <2>1, <2>2
<1>8. ASSUME NEW t \in Threads, InsertFinish(t) PROVE SkipInv(u)'
  BY <1>0, <1>1, <1>8 DEF InsertFinish, Step, TypeOK, SkipInv, callVars
<1>9. ASSUME NEW t \in Threads, CountEvictions(t) PROVE SkipInv(u)'
  BY <1>0, <1>1, <1>9 DEF CountEvictions, Return, Step, TypeOK, SkipInv
<1>10. CASE ClearCache
  BY <1>1, <1>10 DEF ClearCache, callVars
<1>11. CASE UNCHANGED vars
  BY <1>1, <1>11 DEF vars, callVars
<1>12. QED
  BY <1>2, <1>3, <1>4, <1>5, <1>6, <1>7, <1>8, <1>9, <1>10, <1>11
  DEF Next, Transpile

(* The invariant of the counters' arguments, on which the theorems below   *)
(* rest.                                                                   *)
SkipsInv == \A u \in Threads : SkipInv(u)

LEMMA SkipsInductive == Spec => []SkipsInv
<1>1. Init => SkipsInv
  BY SkipInit DEF SkipsInv
<1>2. IInv /\ BytesAccounted /\ SkipsInv /\ [Next]_vars => SkipsInv'
  BY SkipStep DEF SkipsInv
<1>3. QED
  BY Inductive, BytesTotal, <1>1, <1>2, PTL DEF Spec

(* Whatever the weights and limits, an insert that skips its artifact has  *)
(* evicted nothing for it, and skips it only because max_bytes cannot hold *)
(* it: CacheState::insert never gives up in its loop.                      *)
THEOREM SkipsEvictNothing == Spec => []EvictionsNotWasted
<1>1. SkipsInv => EvictionsNotWasted
  BY DEF SkipsInv, SkipInv, EvictionsNotWasted
<1>2. QED
  BY SkipsInductive, <1>1, PTL

-------------------------------------------------------------------------------
(* Recency *)

(* s is used: its access becomes the latest.                               *)
LEMMA UseKept ==
  ASSUME TypeOK, UseInv, NEW s \in Sources, Cached' = Cached \cup {s},
         clock' = NextAccess, entries'[s].last_access = NextAccess,
         \A r \in Cached \ {s} : entries'[r] = entries[r], older' = UseLast(s)
  PROVE  UseInv'
<1>1. /\ \A r \in Cached : entries[r].last_access \in 0..ClockMax
      /\ clock \in 0..ClockMax /\ ClockMax \in Nat
  BY CacheAssumption DEF TypeOK, Cached, Entry
<1>2. ASSUME NEW r \in Cached' PROVE entries'[r].last_access <= clock'
  <2>1. clock' \in Nat /\ clock <= clock'
    BY <1>1 DEF NextAccess
  <2>2. CASE r = s
    BY <2>1, <2>2
  <2>3. CASE r # s
    <3>1. r \in Cached /\ entries'[r] = entries[r] /\ entries[r].last_access <= clock
      BY <2>3 DEF UseInv
    <3>2. QED
      BY <1>1, <2>1, <3>1
  <2>4. QED
    BY <2>2, <2>3
<1>3. ASSUME clock' < ClockMax, NEW q \in Cached', NEW r \in Cached', q # r
      PROVE  \/ entries'[q].last_access < entries'[r].last_access /\ <<q, r>> \in older'
             \/ entries'[r].last_access < entries'[q].last_access /\ <<r, q>> \in older'
  <2>1. clock < ClockMax /\ NextAccess = clock + 1
    BY <1>1, <1>3 DEF NextAccess
  <2>2. ASSUME NEW x \in Cached \ {s}
        PROVE  entries'[x].last_access < entries'[s].last_access /\ <<x, s>> \in older'
    <3>1. entries[x].last_access <= clock
      BY DEF UseInv
    <3>2. entries'[x].last_access < entries'[s].last_access
      BY <1>1, <2>1, <3>1
    <3>3. <<x, s>> \in older'
      BY DEF UseLast
    <3>4. QED
      BY <3>2, <3>3
  <2>3. CASE q = s \/ r = s
    BY <1>3, <2>2, <2>3
  <2>4. CASE q # s /\ r # s
    <3>1. \/ entries[q].last_access < entries[r].last_access /\ <<q, r>> \in older
          \/ entries[r].last_access < entries[q].last_access /\ <<r, q>> \in older
      BY <1>3, <2>1, <2>4 DEF UseInv
    <3>2. /\ <<q, r>> \in older => <<q, r>> \in older'
          /\ <<r, q>> \in older => <<r, q>> \in older'
      BY <2>4 DEF UseLast, Without
    <3>3. QED
      BY <2>4, <3>1, <3>2
  <2>5. QED
    BY <2>3, <2>4
<1>4. QED
  BY <1>2, <1>3 DEF UseInv

LEMMA GetUseKept ==
  ASSUME TypeOK, UseInv, NEW s \in Sources, Get(s)
  PROVE  UseInv'
<1>1. CASE s \in Cached
  <2>1. /\ Cached' = Cached /\ entries'[s].last_access = NextAccess
        /\ \A r \in Cached \ {s} : entries'[r] = entries[r]
    BY <1>1, GetEffect
  <2>2. Cached' = Cached \cup {s} /\ clock' = NextAccess /\ older' = UseLast(s)
    BY <1>1, <2>1 DEF Get
  <2>3. QED
    BY <2>1, <2>2, UseKept
<1>2. CASE s \notin Cached
  <2>1. entries' = entries /\ older' = older /\ clock' = NextAccess /\ Cached' = Cached
    BY <1>2 DEF Get, Cached
  <2>2. /\ \A r \in Cached : entries[r].last_access \in 0..ClockMax
        /\ clock \in 0..ClockMax /\ ClockMax \in Nat
    BY CacheAssumption DEF TypeOK, Cached, Entry
  <2>3. clock <= clock' /\ clock' \in Nat /\ (clock' < ClockMax => clock < ClockMax)
    BY <2>1, <2>2 DEF NextAccess
  <2>4. \A r \in Cached : entries[r].last_access <= clock'
    BY <2>2, <2>3 DEF UseInv
  <2>5. QED
    BY <2>1, <2>3, <2>4 DEF UseInv
<1>3. QED
  BY <1>1, <1>2

LEMMA UseInit == Init => UseInv
<1> SUFFICES ASSUME Init PROVE UseInv
  OBVIOUS
<1>1. Cached = {}
  BY DEF Init, Cached
<1>2. QED
  BY <1>1 DEF UseInv

LEMMA UseStep == IInv /\ UseInv /\ [Next]_vars => UseInv'
<1> SUFFICES ASSUME IInv, UseInv, [Next]_vars PROVE UseInv'
  OBVIOUS
<1>0. TypeOK
  BY DEF IInv
<1>1. CASE UNCHANGED cacheVars
  BY <1>1 DEF cacheVars, UseInv, Cached
<1>2. ASSUME NEW t \in Threads,
             \/ LookupHit(t) \/ LookupMiss(t) \/ InsertExisting(t) \/ InsertSkip(t)
             \/ InsertStart(t)
      PROVE  UseInv'
  <2>1. Get(source[t]) /\ pc[t] # "idle"
    BY <1>2 DEF LookupHit, LookupMiss, InsertExisting, InsertSkip, InsertStart,
                Return, Step
  <2>2. source[t] \in Sources
    BY <2>1, InCall
  <2>3. QED
    BY <1>0, <2>1, <2>2, GetUseKept
<1>3. ASSUME NEW t \in Threads, EvictLru(t) PROVE UseInv'
  <2>1. CASE Cached = {}
    BY <1>1, <1>3, <2>1 DEF EvictLru
  <2>2. CASE Cached # {}
    <3>1. PICK s \in Cached : RemoveEntry(s)
      BY <1>3, <2>2, LeastRecentCached DEF EvictLru
    <3>2. /\ Cached' = Cached \ {s} /\ clock' = clock /\ older' = Without(s)
          /\ \A r \in Cached \ {s} : entries'[r] = entries[r]
      BY <1>0, <3>1, RemoveEntryEffect DEF RemoveEntry
    <3>3. \A q, r \in Cached' : <<q, r>> \in older => <<q, r>> \in older'
      BY <3>2 DEF Without
    <3>4. QED
      BY <3>2, <3>3 DEF UseInv
  <2>3. QED
    BY <2>1, <2>2
<1>4. ASSUME NEW t \in Threads, InsertFinish(t) PROVE UseInv'
  <2>1. source[t] \in Sources /\ output[t] \in Artifact /\ AddEntry(source[t], output[t])
    BY <1>4, InCall, HeldType DEF InsertFinish, Step, Holding
  <2>2. /\ Cached' = Cached \cup {source[t]}
        /\ entries'[source[t]].last_access = NextAccess
        /\ \A r \in Cached \ {source[t]} : entries'[r] = entries[r]
    BY <1>0, <2>1, AddEntryEffect
  <2>3. clock' = NextAccess /\ older' = UseLast(source[t])
    BY <2>1 DEF AddEntry
  <2>4. QED
    BY <1>0, <2>1, <2>2, <2>3, UseKept
<1>5. CASE ClearCache
  <2>1. Cached' = {}
    BY <1>5 DEF ClearCache, Cached
  <2>2. QED
    BY <2>1 DEF UseInv
<1>6. QED
  BY <1>1, <1>2, <1>3, <1>4, <1>5
  DEF Next, Transpile, Begin, CountMiss, LowerFails, LowerSucceeds, CountInsertion,
      CountEvictions, CountSkipped, vars

LEMMA EvictionStep ==
  ASSUME IInv, UseInv, [Next]_vars,
         NEW t \in Threads, lock = t, lock' = t, clock < ClockMax,
         NEW s \in Cached \ Cached'
  PROVE  {s} \X (Cached \ {s}) \subseteq older
<1>0. TypeOK /\ ~LockFree /\ ~CacheKept
  BY CacheAssumption DEF IInv, LockFree, CacheKept
<1>1. ~ClearCache /\ ~UNCHANGED vars /\ (\A u \in Threads : ~InsertFinish(u))
      /\ \A u \in Threads, r \in Sources : ~Begin(u, r)
  <2>1. ~ClearCache
    BY <1>0 DEF ClearCache
  <2>2. ~UNCHANGED cacheVars
    BY <1>0, UnchangedCacheKept
  <2>3. ASSUME NEW u \in Threads, InsertFinish(u) PROVE FALSE
    BY <2>3, CacheAssumption DEF InsertFinish, Release
  <2>4. QED
    BY <2>1, <2>2, <2>3 DEF vars, Begin
<1>2. PICK u \in Threads : EvictLru(u)
  BY <1>0, <1>1, CacheStep DEF Next
<1>3. PICK r \in LeastRecent : RemoveEntry(r)
  BY <1>2 DEF EvictLru
<1>4. s = r
  BY <1>0, <1>3, LeastRecentCached, RemoveEntryEffect
<1>5. ASSUME NEW q \in Cached, q # s PROVE <<s, q>> \in older
  <2>1. entries[s].last_access <= entries[q].last_access
    BY <1>3, <1>4 DEF LeastRecent
  <2>2. entries[s].last_access \in Nat /\ entries[q].last_access \in Nat
    <3>1. entries[s] \in Entry /\ entries[q] \in Entry
      BY <1>0 DEF TypeOK, Cached
    <3>2. QED
      BY <3>1, CacheAssumption DEF Entry
  <2>3. \/ entries[s].last_access < entries[q].last_access /\ <<s, q>> \in older
        \/ entries[q].last_access < entries[s].last_access /\ <<q, s>> \in older
    BY <1>5 DEF UseInv
  <2>4. QED
    BY <2>1, <2>2, <2>3
<1>6. QED
  BY <1>5

LEMMA UseInductive == Spec => []UseInv
  BY Inductive, UseInit, UseStep, PTL DEF Spec

(* Whatever the threads do while another inserts, the entry an insert      *)
(* evicts is one that no other entry's last use is before: the last_access *)
(* numbers order the uses of all threads for as long as the clock has not  *)
(* saturated.                                                              *)
THEOREM EvictionIsOfTheLeastRecent == Spec => EvictsLeastRecentlyUsed
<1> DEFINE Due == \A t \in Threads :
                      lock = t /\ lock' = t /\ clock < ClockMax
                      => \A s \in Cached \ Cached' : {s} \X (Cached \ {s}) \subseteq older
<1>1. IInv /\ UseInv /\ [Next]_vars => [Due]_vars
  BY EvictionStep
<1>2. QED
  BY Inductive, UseInductive, <1>1, PTL DEF Spec, EvictsLeastRecentlyUsed

-------------------------------------------------------------------------------
(* Telemetry *)

LEMMA AtFinite ==
  ASSUME NEW L PROVE IsFiniteSet(At(L)) /\ Cardinality(At(L)) \in Nat
<1>1. At(L) \in SUBSET Threads
  BY DEF At
<1>2. QED
  BY <1>1, FS_Subset, FS_CardinalityType, CacheAssumption

(* A step of one thread into or out of some locations.                     *)
LEMMA AtMoves ==
  ASSUME TypeOK, NEW t \in Threads, NEW from, NEW to, Step(t, from, to), NEW L
  PROVE  Cardinality(At(L)') = Cardinality(At(L)) + (IF to \in L THEN 1 ELSE 0)
                                                  - (IF from \in L THEN 1 ELSE 0)
<1>1. /\ from \in L => t \in At(L)
      /\ from \notin L => t \notin At(L)
      /\ to \in L => At(L)' = At(L) \cup {t}
      /\ to \notin L => At(L)' = At(L) \ {t}
  BY DEF TypeOK, Step, At
<1>2. IsFiniteSet(At(L)) /\ Cardinality(At(L)) \in Nat
  BY AtFinite
<1>3. /\ Cardinality(At(L) \cup {t}) =
           IF t \in At(L) THEN Cardinality(At(L)) ELSE Cardinality(At(L)) + 1
      /\ Cardinality(At(L) \ {t}) =
           IF t \in At(L) THEN Cardinality(At(L)) - 1 ELSE Cardinality(At(L))
  BY <1>2, FS_AddElement, FS_RemoveElement
<1>4. Cardinality(At(L)') = IF to \in L THEN Cardinality(At(L) \cup {t})
                                       ELSE Cardinality(At(L) \ {t})
  BY <1>1
<1>5. QED
  BY <1>1, <1>2, <1>3, <1>4

LookingUp == {"lookup", "count_miss"}
Inserted == {"count_insertion"}
LookupsCounted ==
    metrics["hits"] + metrics["misses"] + metrics["bypasses"]
        + Cardinality(At(LookingUp)) = calls
EntriesCounted ==
    Cardinality(Cached) + cleared + metrics["evictions"] + SumFunction(evicted)
        = metrics["insertions"] + Cardinality(At(Inserted))

LEMMA MetricsParts == MetricsReconcile <=> LookupsCounted /\ EntriesCounted
  BY DEF MetricsReconcile, LookupsCounted, EntriesCounted, LookingUp, Inserted

LEMMA EvictedSum ==
  ASSUME TypeOK
  PROVE  /\ SumFunction(evicted) \in Nat
         /\ \A t \in Threads : evicted[t] \in Nat
         /\ \A t \in Threads, v \in Nat :
                SumFunction([evicted EXCEPT ![t] = v])
                    = SumFunction(evicted) - evicted[t] + v
<1>1. IsFiniteSet(Threads) /\ evicted \in [Threads -> Nat]
  BY CacheAssumption DEF TypeOK
<1>2. QED
  BY <1>1, SumType, SumUpdate

LEMMA MetricsInit == Init => MetricsReconcile
<1> SUFFICES ASSUME Init PROVE LookupsCounted /\ EntriesCounted
  BY MetricsParts
<1>1. Cached = {} /\ At(LookingUp) = {} /\ At(Inserted) = {}
  BY DEF Init, Cached, At, LookingUp, Inserted
<1>2. metrics["hits"] = 0 /\ metrics["misses"] = 0 /\ metrics["bypasses"] = 0
      /\ metrics["evictions"] = 0 /\ metrics["insertions"] = 0
      /\ calls = 0 /\ cleared = 0
  BY DEF Init, Counter
<1>3. SumFunction(evicted) = 0
  <2> DEFINE Zero(T) == [t \in T |-> 0]
             Wrong == {n \in Nat : \E T \in SUBSET Threads :
                           Cardinality(T) = n /\ SumFunction(Zero(T)) # 0}
  <2>1. Wrong = {}
    <3> SUFFICES ASSUME Wrong # {} PROVE FALSE
      OBVIOUS
    <3>1. PICK n \in Wrong : \A m \in Wrong : n <= m
      <4>1. Wrong \in SUBSET Nat
        OBVIOUS
      <4> HIDE DEF Wrong
      <4>2. QED
        BY <4>1, LeastNatural
    <3>2. PICK T \in SUBSET Threads : Cardinality(T) = n /\ SumFunction(Zero(T)) # 0
      BY <3>1
    <3>3. IsFiniteSet(T) /\ Zero(T) \in [T -> Nat]
      BY FS_Subset, CacheAssumption
    <3>4. CASE T = {}
      BY <3>2, <3>3, <3>4, SumEmpty
    <3>5. CASE T # {}
      <4>1. PICK t \in T : TRUE
        BY <3>5
      <4>2. /\ Cardinality(T \ {t}) \in Nat /\ Cardinality(T \ {t}) < n
            /\ T \ {t} \in SUBSET Threads
        BY <3>2, CacheAssumption, SmallerSubset
      <4>3. SumFunction(Zero(T \ {t})) = 0
        BY <3>1, <4>2
      <4>4. SumFunction(Zero(T)) = Zero(T)[t] + SumFunction(Zero(T \ {t}))
        <5>1. /\ Zero(T \ {t}) \in [T \ {t} -> Nat]
              /\ \A u \in T \ {t} : Zero(T \ {t})[u] = Zero(T)[u]
          OBVIOUS
        <5>2. \A h \in [T \ {t} -> Nat] :
                  (\A u \in T \ {t} : h[u] = Zero(T)[u])
                  => SumFunction(Zero(T)) = Zero(T)[t] + SumFunction(h)
          <6> HIDE DEF Zero
          <6>1. QED
            BY <3>3, SumSplit
        <5> HIDE DEF Zero
        <5>3. QED
          BY <5>1, <5>2
      <4>5. Zero(T)[t] = 0
        OBVIOUS
      <4> HIDE DEF Zero
      <4>6. QED
        BY <3>2, <4>3, <4>4, <4>5
    <3>6. QED
      BY <3>4, <3>5
  <2>2. evicted = Zero(Threads)
    BY DEF Init
  <2>3. Cardinality(Threads) \in Nat
    BY FS_CardinalityType, CacheAssumption
  <2>4. QED
    BY <2>1, <2>2, <2>3
<1>4. QED
  BY <1>1, <1>2, <1>3, FS_EmptySet DEF LookupsCounted, EntriesCounted

(* What the counters are about, in a state of the right type.              *)
LEMMA CountersType ==
  ASSUME TypeOK
  PROVE  /\ \A c \in Counter : metrics[c] \in Nat
         /\ {"hits", "misses", "bypasses", "evictions", "insertions", "skipped"} = Counter
         /\ calls \in Nat /\ cleared \in Nat
         /\ Cardinality(Cached) \in Nat /\ Cardinality(At(LookingUp)) \in Nat
         /\ Cardinality(At(Inserted)) \in Nat
  BY CachedFinite, AtFinite, CacheAssumption DEF TypeOK, Counter

LEMMA LookupsStep == IInv /\ LookupsCounted /\ [Next]_vars => LookupsCounted'
<1> SUFFICES ASSUME IInv, LookupsCounted, [Next]_vars PROVE LookupsCounted'
  OBVIOUS
<1>0. TypeOK
  BY DEF IInv
<1> DEFINE Moves(from, to) ==
             Cardinality(At(LookingUp)') = Cardinality(At(LookingUp))
                 + (IF to \in LookingUp THEN 1 ELSE 0)
                 - (IF from \in LookingUp THEN 1 ELSE 0)
<1>1. ASSUME NEW t \in Threads, NEW from, NEW to, Step(t, from, to)
      PROVE  Moves(from, to)
  BY <1>0, <1>1, AtMoves
<1>2. ASSUME NEW t \in Threads, NEW s \in Sources, Begin(t, s) PROVE LookupsCounted'
  <2>1. CASE IsEnabled
    <3>1. /\ Moves("idle", "lookup") /\ metrics' = metrics /\ calls' = calls + 1
      BY <1>1, <1>2, <2>1 DEF Begin
    <3>2. QED
      BY <1>0, <3>1, CountersType DEF LookupsCounted, LookingUp
  <2>2. CASE ~IsEnabled
    <3>1. /\ Moves("idle", "lowering") /\ calls' = calls + 1
          /\ metrics' = [metrics EXCEPT !["bypasses"] = @ + 1]
      BY <1>1, <1>2, <2>2 DEF Begin, Count
    <3>2. QED
      BY <1>0, <3>1, CountersType DEF LookupsCounted, LookingUp, TypeOK
  <2>3. QED
    BY <2>1, <2>2
<1>3. ASSUME NEW t \in Threads, LookupHit(t) PROVE LookupsCounted'
  <2>1. /\ Moves("lookup", "idle") /\ calls' = calls
        /\ metrics' = [metrics EXCEPT !["hits"] = @ + 1]
    BY <1>1, <1>3 DEF LookupHit, Return, Count
  <2>2. QED
    BY <1>0, <2>1, CountersType DEF LookupsCounted, LookingUp, TypeOK
<1>4. ASSUME NEW t \in Threads, LookupMiss(t) PROVE LookupsCounted'
  <2>1. Moves("lookup", "count_miss") /\ calls' = calls /\ metrics' = metrics
    BY <1>1, <1>4 DEF LookupMiss
  <2>2. QED
    BY <1>0, <2>1, CountersType DEF LookupsCounted, LookingUp
<1>5. ASSUME NEW t \in Threads, CountMiss(t) PROVE LookupsCounted'
  <2>1. /\ Moves("count_miss", "lowering") /\ calls' = calls
        /\ metrics' = [metrics EXCEPT !["misses"] = @ + 1]
    BY <1>1, <1>5 DEF CountMiss, Count
  <2>2. QED
    BY <1>0, <2>1, CountersType DEF LookupsCounted, LookingUp, TypeOK
(* Every other step is outside the lookup, and counts something else.      *)
<1>6. ASSUME /\ metrics'["hits"] = metrics["hits"]
             /\ metrics'["misses"] = metrics["misses"]
             /\ metrics'["bypasses"] = metrics["bypasses"]
             /\ calls' = calls /\ At(LookingUp)' = At(LookingUp)
      PROVE  LookupsCounted'
  BY <1>6 DEF LookupsCounted
<1>7. ASSUME NEW t \in Threads, Transpile(t),
             ~(LookupHit(t) \/ LookupMiss(t) \/ CountMiss(t))
      PROVE  LookupsCounted'
  <2>1. calls' = calls
    BY <1>7 DEF Transpile, LowerFails, LowerSucceeds, InsertExisting, InsertSkip,
                InsertStart, EvictLru, InsertFinish, CountInsertion, CountEvictions,
                CountSkipped
  <2>2. \E from, to \in Location \ LookingUp :
            Step(t, from, to) \/ UNCHANGED pc
    BY <1>7
    DEF Transpile, LowerFails, LowerSucceeds, InsertExisting, InsertSkip, InsertStart,
        EvictLru, InsertFinish, CountInsertion, CountEvictions, CountSkipped, Return,
        Step, Location, LookingUp
  <2>3. At(LookingUp)' = At(LookingUp)
    BY <1>0, <2>2 DEF Step, At, TypeOK
  <2>4. \/ metrics' = metrics
        \/ \E c \in {"insertions", "evictions", "skipped"} : \E n :
               metrics' = [metrics EXCEPT ![c] = @ + n]
    BY <1>7
    DEF Transpile, LowerFails, LowerSucceeds, InsertExisting, InsertSkip, InsertStart,
        EvictLru, InsertFinish, CountInsertion, CountEvictions, CountSkipped, Count
  <2>5. QED
    BY <1>0, <1>6, <2>1, <2>3, <2>4 DEF TypeOK, Counter
<1>8. CASE ClearCache
  BY <1>6, <1>8 DEF ClearCache, At
<1>9. CASE UNCHANGED vars
  BY <1>6, <1>9 DEF vars, At
<1>10. QED
  BY <1>2, <1>3, <1>4, <1>5, <1>7, <1>8, <1>9 DEF Next

LEMMA EntriesStep ==
  ASSUME IInv, BytesAccounted, SkipsInv, EntriesCounted, [Next]_vars
  PROVE  EntriesCounted'
<1>0. TypeOK
  BY DEF IInv
<1>1. ASSUME Cached' = Cached, cleared' = cleared, evicted' = evicted,
             metrics'["evictions"] = metrics["evictions"],
             metrics'["insertions"] = metrics["insertions"], At(Inserted)' = At(Inserted)
      PROVE  EntriesCounted'
  BY <1>1 DEF EntriesCounted
<1>2. ASSUME NEW t \in Threads, NEW s \in Sources, Begin(t, s) PROVE EntriesCounted'
  <2>1. At(Inserted)' = At(Inserted)
    BY <1>0, <1>2 DEF Begin, Step, At, Inserted, TypeOK
  <2>2. metrics' = metrics \/ metrics' = [metrics EXCEPT !["bypasses"] = @ + 1]
    BY <1>2 DEF Begin, Count
  <2>3. QED
    BY <1>0, <1>1, <1>2, <2>1, <2>2, UnchangedCacheKept
    DEF Begin, CacheKept, TypeOK, Counter
<1>3. ASSUME NEW t \in Threads, Transpile(t), CacheKept,
             ~EvictLru(t), ~InsertFinish(t), ~CountInsertion(t), ~CountEvictions(t)
      PROVE  EntriesCounted'
  <2>1. cleared' = cleared /\ evicted' = evicted
    BY <1>3
    DEF Transpile, LookupHit, LookupMiss, CountMiss, LowerFails, LowerSucceeds,
        InsertExisting, InsertSkip, InsertStart, CountSkipped, callVars
  <2>2. \E from, to \in Location \ {"count_insertion"} : Step(t, from, to)
    BY <1>3
    DEF Transpile, LookupHit, LookupMiss, CountMiss, LowerFails, LowerSucceeds,
        InsertExisting, InsertSkip, InsertStart, CountSkipped, Return, Step, Location
  <2>3. At(Inserted)' = At(Inserted)
    BY <1>0, <2>2 DEF Step, At, Inserted, TypeOK
  <2>4. \/ metrics' = metrics
        \/ \E c \in {"hits", "misses", "skipped"} : \E n :
               metrics' = [metrics EXCEPT ![c] = @ + n]
    BY <1>3
    DEF Transpile, LookupHit, LookupMiss, CountMiss, LowerFails, LowerSucceeds,
        InsertExisting, InsertSkip, InsertStart, CountSkipped, Count
  <2>5. QED
    BY <1>0, <1>1, <1>3, <2>1, <2>3, <2>4 DEF CacheKept, TypeOK, Counter
<1>4. ASSUME NEW t \in Threads, EvictLru(t) PROVE EntriesCounted'
  <2>1. Cached # {}
    BY <1>4, NoGiveUp DEF EvictLru, SkipsInv
  <2>2. PICK s \in Cached : RemoveEntry(s)
    BY <1>4, <2>1, LeastRecentCached DEF EvictLru
  <2>3. Cached' = Cached \ {s} /\ Cardinality(Cached') = Cardinality(Cached) - 1
    BY <1>0, <2>2, RemoveEntryEffect, CachedFinite, FS_RemoveElement
  <2>4. evicted' = [evicted EXCEPT ![t] = evicted[t] + 1]
        /\ metrics' = metrics /\ cleared' = cleared /\ At(Inserted)' = At(Inserted)
    BY <1>4, <2>1 DEF EvictLru, At
  <2>5. SumFunction(evicted') = SumFunction(evicted) + 1
    <3>1. SumFunction(evicted) \in Nat /\ evicted[t] \in Nat /\ evicted[t] + 1 \in Nat
      BY <1>0, EvictedSum
    <3>2. SumFunction([evicted EXCEPT ![t] = evicted[t] + 1])
            = SumFunction(evicted) - evicted[t] + (evicted[t] + 1)
      BY <1>0, <3>1, EvictedSum
    <3>3. QED
      BY <2>4, <3>1, <3>2
  <2>6. QED
    BY <1>0, <2>3, <2>4, <2>5, CountersType, EvictedSum DEF EntriesCounted
<1>5. ASSUME NEW t \in Threads, InsertFinish(t) PROVE EntriesCounted'
  <2>1. /\ source[t] \in Sources /\ output[t] \in Artifact /\ source[t] \notin Cached
    BY <1>5, InCall, HeldType DEF InsertFinish, Step, Holding, IInv, NoPreviousEntry
  <2>2. Cached' = Cached \cup {source[t]}
    BY <1>0, <1>5, <2>1, AddEntryEffect DEF InsertFinish
  <2>3. Cardinality(Cached') = Cardinality(Cached) + 1
    BY <2>1, <2>2, CachedFinite, FS_AddElement
  <2>4. Cardinality(At(Inserted)') = Cardinality(At(Inserted)) + 1
    <3>1. Step(t, "evicting", "count_insertion")
      BY <1>5 DEF InsertFinish
    <3>2. QED
      BY <1>0, <3>1, AtMoves, CountersType DEF Inserted
  <2>5. metrics' = metrics /\ cleared' = cleared /\ evicted' = evicted
    BY <1>5 DEF InsertFinish, callVars
  <2>6. QED
    BY <1>0, <2>3, <2>4, <2>5, CountersType, EvictedSum DEF EntriesCounted
<1>6. ASSUME NEW t \in Threads, CountInsertion(t) PROVE EntriesCounted'
  <2>1. Cardinality(At(Inserted)') = Cardinality(At(Inserted)) - 1
    <3>1. Step(t, "count_insertion", "count_evictions")
      BY <1>6 DEF CountInsertion
    <3>2. QED
      BY <1>0, <3>1, AtMoves, CountersType DEF Inserted
  <2>2. /\ metrics' = [metrics EXCEPT !["insertions"] = @ + 1]
        /\ cleared' = cleared /\ evicted' = evicted /\ Cached' = Cached
    BY <1>6, UnchangedCacheKept DEF CountInsertion, Count, callVars, CacheKept
  <2>3. QED
    BY <1>0, <2>1, <2>2, CountersType, EvictedSum DEF EntriesCounted, TypeOK
<1>7. ASSUME NEW t \in Threads, CountEvictions(t) PROVE EntriesCounted'
  <2>1. At(Inserted)' = At(Inserted)
    BY <1>0, <1>7 DEF CountEvictions, Return, Step, At, Inserted, TypeOK
  <2>2. /\ metrics' = [metrics EXCEPT !["evictions"] = @ + evicted[t]]
        /\ evicted' = [evicted EXCEPT ![t] = 0]
        /\ cleared' = cleared /\ Cached' = Cached
    BY <1>7, UnchangedCacheKept DEF CountEvictions, Count, CacheKept
  <2>3. /\ SumFunction(evicted') = SumFunction(evicted) - evicted[t]
        /\ SumFunction(evicted) \in Nat /\ evicted[t] \in Nat
    <3>1. SumFunction([evicted EXCEPT ![t] = 0]) = SumFunction(evicted) - evicted[t] + 0
      BY <1>0, EvictedSum
    <3>2. SumFunction(evicted) \in Nat /\ evicted[t] \in Nat
      BY <1>0, EvictedSum
    <3>3. QED
      BY <2>2, <3>1, <3>2
  <2>4. QED
    BY <1>0, <2>1, <2>2, <2>3, CountersType DEF EntriesCounted, TypeOK
<1>8. CASE ClearCache
  <2>1. Cached' = {} /\ Cardinality(Cached') = 0
    BY <1>8, FS_EmptySet DEF ClearCache, Cached
  <2>2. /\ cleared' = cleared + Cardinality(Cached)
        /\ metrics' = metrics /\ evicted' = evicted /\ At(Inserted)' = At(Inserted)
    BY <1>8 DEF ClearCache, callVars, At
  <2>3. QED
    BY <1>0, <2>1, <2>2, CountersType, EvictedSum DEF EntriesCounted
<1>9. CASE UNCHANGED vars
  BY <1>1, <1>9, UnchangedCacheKept DEF vars, callVars, CacheKept, At
<1>10. QED
  BY <1>2, <1>3, <1>4, <1>5, <1>6, <1>7, <1>8, <1>9, CacheStep DEF Next

(* The metrics a Transpiler reports reconcile at every moment with what it *)
(* has done: no interleaving of lookups, inserts, evictions and clears     *)
(* loses or double-counts a call, an insertion or an eviction; the         *)
(* counters lag by the calls in flight and by nothing else.                *)
THEOREM MetricsExact == Spec => []MetricsReconcile
<1>1. IInv /\ BytesAccounted /\ SkipsInv /\ MetricsReconcile /\ [Next]_vars
      => MetricsReconcile'
  <2>1. LookupsCounted' /\ EntriesCounted' => MetricsReconcile'
    BY MetricsParts, PTL
  <2>2. QED
    BY <2>1, MetricsParts, LookupsStep, EntriesStep
<1>2. QED
  BY Inductive, BytesTotal, SkipsInductive, MetricsInit, <1>1, PTL DEF Spec

-------------------------------------------------------------------------------
(* The cache implements the memo *)

LEMMA MemoKept ==
  ASSUME CacheKept PROVE memoBar' = memoBar
  BY DEF CacheKept, memoBar

(* Steps that neither open nor decide a request.                           *)
LEMMA Hidden ==
  ASSUME TypeOK, NEW t \in Threads, NEW from, NEW to, Step(t, from, to),
         UNCHANGED <<source, output, answer>>,
         \/ {from, to} \cap {"count_insertion", "count_evictions", "count_skipped"} = {}
         \/ {from, to} \subseteq {"count_insertion", "count_evictions", "count_skipped"}
  PROVE  requestBar' = requestBar /\ answerBar' = answerBar
<1>1. pc' = [pc EXCEPT ![t] = to] /\ pc[t] = from
  BY DEF Step
<1>2. \A u \in Threads : (u \in Decided)' <=> u \in Decided
  BY <1>1 DEF TypeOK, Decided, At
<1>3. QED
  BY <1>2 DEF requestBar, answerBar

(* A step that returns the answer a is the abstract answer, if the request *)
(* was still open.                                                         *)
LEMMA ReturnAnswers ==
  ASSUME TypeOK, NEW t \in Threads, NEW from \in {"lookup", "lowering", "insert"},
         NEW a, Return(t, from, a)
  PROVE  /\ requestBar[t] = source[t]
         /\ requestBar' = [requestBar EXCEPT ![t] = NoSource]
         /\ answerBar' = [answerBar EXCEPT ![t] = a]
  BY DEF TypeOK, Return, Step, Decided, At, requestBar, answerBar

(* A step that decides a request answers it with the artifact it holds.    *)
LEMMA DecideAnswers ==
  ASSUME TypeOK, NEW t \in Threads, NEW from \in {"insert", "evicting"},
         NEW to \in {"count_insertion", "count_skipped"}, Step(t, from, to),
         UNCHANGED <<source, output, answer>>
  PROVE  /\ requestBar[t] = source[t]
         /\ requestBar' = [requestBar EXCEPT ![t] = NoSource]
         /\ answerBar' = [answerBar EXCEPT ![t] = output[t]]
  BY DEF TypeOK, Step, Decided, At, requestBar, answerBar

(* Counting done, the call returns what it was answered.                   *)
LEMMA ReturnHidden ==
  ASSUME TypeOK, NEW t \in Threads, NEW from \in {"count_evictions", "count_skipped"},
         Return(t, from, output[t])
  PROVE  requestBar' = requestBar /\ answerBar' = answerBar
  BY DEF TypeOK, Return, Step, Decided, At, requestBar, answerBar

(* The artifact of a call in its lookup, lowering or insert, as an answer. *)
LEMMA ComputeFresh ==
  ASSUME IInv, NEW t \in Threads, pc[t] # "idle", source[t] \notin Unlowerable,
         source[t] \notin Cached, requestBar[t] = source[t],
         requestBar' = [requestBar EXCEPT ![t] = NoSource],
         answerBar' = [answerBar EXCEPT ![t] = Lowered(t)],
         memoBar' = memoBar \/ memoBar' = [memoBar EXCEPT ![source[t]] = Lowered(t)]
  PROVE  Memo!Compute(t)
<1>1. source[t] \in Sources /\ source[t] # NoSource /\ Lowered(t) \in Artifact
  BY InCall, LoweredType, CacheAssumption
<1>2. memoBar[source[t]] = NoOutput
  BY <1>1 DEF memoBar
<1>3. Lowered(t) \in Memo!Artifact /\ Lowered(t).source = source[t]
  BY <1>1 DEF Artifact, Memo!Artifact, Lowered
<1>4. QED
  BY <1>1, <1>2, <1>3 DEF Memo!Compute, Memo!Answer

LEMMA RecallCached ==
  ASSUME IInv, NEW t \in Threads, pc[t] # "idle", source[t] \in Cached, CacheKept,
         requestBar[t] = source[t],
         requestBar' = [requestBar EXCEPT ![t] = NoSource],
         answerBar' = [answerBar EXCEPT ![t] = entries[source[t]].output]
  PROVE  Memo!Recall(t)
<1>1. source[t] \in Sources /\ source[t] # NoSource
  BY InCall, CacheAssumption
<1>2. memoBar[source[t]] = entries[source[t]].output
  BY <1>1 DEF memoBar
<1>3. entries[source[t]].output \in Artifact
  BY <1>1 DEF IInv, TypeOK, Cached, Entry
<1>4. entries[source[t]].output # NoOutput
  BY <1>3, SentinelAssumption
<1>5. QED
  BY <1>1, <1>2, <1>4, MemoKept DEF Memo!Recall, Memo!Answer

LEMMA RefinementInit == Init => Memo!Init
  BY DEF Init, Memo!Init, memoBar, requestBar, answerBar, Cached, Decided, At

LEMMA RefinementStep == IInv /\ [Next]_vars => [Memo!Next]_(Memo!vars)
<1> SUFFICES ASSUME IInv, [Next]_vars PROVE Memo!Next \/ UNCHANGED Memo!vars
  OBVIOUS
<1>0. TypeOK
  BY DEF IInv
<1> DEFINE Hides == UNCHANGED <<memoBar, requestBar, answerBar>>
<1>1. Hides => UNCHANGED Memo!vars
  BY DEF Memo!vars
<1>2. ASSUME NEW t \in Threads, NEW s \in Sources, Begin(t, s) PROVE Memo!Ask(t, s)
  <2>1. memoBar' = memoBar
    BY <1>2, UnchangedCacheKept, MemoKept DEF Begin
  <2>2. pc[t] = "idle" /\ source[t] = NoSource
    BY <1>0, <1>2 DEF Begin, Step, IInv, ThreadInv, TypeOK
  <2>3. requestBar[t] = NoSource /\ requestBar' = [requestBar EXCEPT ![t] = s]
    BY <1>0, <1>2, <2>2 DEF Begin, Step, TypeOK, requestBar, Decided, At
  <2>4. answerBar' = [answerBar EXCEPT ![t] = NoOutput]
    BY <1>0, <1>2, <2>2 DEF Begin, Step, TypeOK, answerBar, Decided, At
  <2>5. QED
    BY <2>1, <2>3, <2>4 DEF Memo!Ask
<1>3. ASSUME NEW t \in Threads, LookupHit(t) PROVE Memo!Recall(t)
  BY <1>0, <1>3, GetCacheKept, ReturnAnswers, RecallCached
  DEF LookupHit, Return, Step
<1>4. ASSUME NEW t \in Threads, LookupMiss(t) \/ InsertStart(t) PROVE Hides
  BY <1>0, <1>4, GetCacheKept, MemoKept, Hidden
  DEF LookupMiss, InsertStart, Step, callVars
<1>5. ASSUME NEW t \in Threads, CountMiss(t) \/ CountInsertion(t) PROVE Hides
  BY <1>0, <1>5, UnchangedCacheKept, MemoKept, Hidden
  DEF CountMiss, CountInsertion, callVars
<1>6. ASSUME NEW t \in Threads, LowerFails(t) PROVE Memo!Fail(t)
  <2>1. memoBar' = memoBar
    BY <1>6, UnchangedCacheKept, MemoKept DEF LowerFails
  <2>2. source[t] # NoSource
    BY <1>6, InCall, CacheAssumption DEF LowerFails, Return, Step
  <2>3. QED
    BY <1>0, <1>6, <2>1, <2>2, ReturnAnswers
    DEF LowerFails, Memo!Fail, Memo!Answer
<1>7. ASSUME NEW t \in Threads, LowerSucceeds(t) PROVE Hides \/ Memo!Compute(t)
  <2>1. memoBar' = memoBar
    BY <1>7, UnchangedCacheKept, MemoKept DEF LowerSucceeds
  <2>2. CASE IsEnabled
    BY <1>0, <1>7, <2>1, <2>2
    DEF LowerSucceeds, Step, TypeOK, requestBar, answerBar, Decided, At
  <2>3. CASE ~IsEnabled
    <3>1. Cached = {}
      BY <2>3 DEF IInv, Bounded
    <3>2. Return(t, "lowering", Lowered(t)) /\ source[t] \notin Unlowerable
      BY <1>7, <2>3 DEF LowerSucceeds
    <3>3. pc[t] # "idle"
      BY <3>2 DEF Return, Step
    <3>4. QED
      BY <1>0, <2>1, <3>1, <3>2, <3>3, ReturnAnswers, ComputeFresh
  <2>4. QED
    BY <2>2, <2>3
<1>8. ASSUME NEW t \in Threads, InsertExisting(t) PROVE Memo!Recall(t)
  BY <1>0, <1>8, GetCacheKept, ReturnAnswers, RecallCached
  DEF InsertExisting, CanonicalArtifact, Return, Step
<1>9. ASSUME NEW t \in Threads, InsertSkip(t) PROVE Memo!Compute(t)
  <2>1. pc[t] # "idle" /\ pc[t] \in Holding
    BY <1>9 DEF InsertSkip, Step, Holding
  <2>2. output[t] = Lowered(t) /\ source[t] \notin Unlowerable
    BY <2>1 DEF IInv, ThreadInv
  <2>3. memoBar' = memoBar
    BY <1>9, <2>1, GetCacheKept, MemoKept DEF InsertSkip
  <2>4. QED
    BY <1>0, <1>9, <2>1, <2>2, <2>3, DecideAnswers, ComputeFresh
    DEF InsertSkip, callVars
<1>10. ASSUME NEW t \in Threads, EvictLru(t)
       PROVE  Memo!Forget \/ Memo!Compute(t)
  <2>1. pc[t] # "idle" /\ output[t] = Lowered(t) /\ source[t] \notin Unlowerable
    BY <1>10 DEF EvictLru, Step, IInv, ThreadInv, Holding
  <2>2. CASE Cached = {}
    <3>1. memoBar' = memoBar
      BY <1>10, <2>2, UnchangedCacheKept, MemoKept DEF EvictLru
    <3>2. QED
      BY <1>0, <1>10, <2>1, <2>2, <3>1, DecideAnswers, ComputeFresh DEF EvictLru
  <2>3. CASE Cached # {}
    <3>1. PICK s \in Cached : RemoveEntry(s)
      BY <1>10, <2>3, LeastRecentCached DEF EvictLru
    <3>2. memoBar' = [r \in Sources |-> IF r \in {s} THEN NoOutput ELSE memoBar[r]]
      BY <1>0, <3>1, RemoveEntryEffect DEF memoBar
    <3>3. s \in Sources
      BY DEF Cached
    <3>4. UNCHANGED <<requestBar, answerBar>>
      BY <1>10, <2>3 DEF EvictLru, requestBar, answerBar, Decided, At
    <3>5. QED
      BY <3>2, <3>3, <3>4 DEF Memo!Forget
  <2>4. QED
    BY <2>2, <2>3
<1>11. ASSUME NEW t \in Threads, InsertFinish(t) PROVE Memo!Compute(t)
  <2>1. pc[t] # "idle" /\ pc[t] = "evicting" /\ pc[t] \in Holding
    BY <1>11 DEF InsertFinish, Step, Holding
  <2>2. /\ output[t] = Lowered(t) /\ source[t] \notin Unlowerable
        /\ source[t] \notin Cached
    BY <2>1 DEF IInv, ThreadInv, NoPreviousEntry
  <2>3. source[t] \in Sources /\ output[t] \in Artifact
    BY <2>1, InCall, HeldType
  <2>4. memoBar' = [memoBar EXCEPT ![source[t]] = output[t]]
    <3>1. /\ Cached' = Cached \cup {source[t]}
          /\ entries'[source[t]].output = output[t]
          /\ \A r \in Cached \ {source[t]} : entries'[r] = entries[r]
      BY <1>0, <1>11, <2>3, AddEntryEffect DEF InsertFinish
    <3>2. QED
      BY <2>2, <2>3, <3>1 DEF memoBar
  <2>5. QED
    BY <1>0, <1>11, <2>1, <2>2, <2>4, DecideAnswers, ComputeFresh
    DEF InsertFinish, callVars
<1>12. ASSUME NEW t \in Threads, CountEvictions(t) \/ CountSkipped(t) PROVE Hides
  BY <1>0, <1>12, UnchangedCacheKept, MemoKept, ReturnHidden
  DEF CountEvictions, CountSkipped
<1>13. CASE ClearCache
  <2>1. memoBar' = [r \in Sources |-> IF r \in Sources THEN NoOutput ELSE memoBar[r]]
    BY <1>13 DEF ClearCache, memoBar, Cached
  <2>2. UNCHANGED <<requestBar, answerBar>>
    BY <1>13 DEF ClearCache, callVars, requestBar, answerBar, Decided, At
  <2>3. QED
    BY <2>1, <2>2 DEF Memo!Next, Memo!Forget
<1>14. CASE UNCHANGED vars
  <2>1. Hides
    BY <1>14 DEF vars, callVars, cacheVars, requestBar, answerBar, memoBar, Cached,
                 Decided, At
  <2>2. QED
    BY <1>1, <2>1
<1>15. QED
  BY <1>1, <1>2, <1>3, <1>4, <1>5, <1>6, <1>7, <1>8, <1>9, <1>10, <1>11, <1>12,
     <1>13, <1>14 DEF Next, Transpile, Memo!Next

(* For every number of threads, every set of sources and every limit, a    *)
(* Transpiler answers like a memo: each call is answered, at one instant,  *)
(* by the artifact in the cache if there is one and otherwise by a fresh   *)
(* lowering of its own source; failures are answered and never cached.     *)
THEOREM Refinement == Spec => AnswersLikeAMemo
  BY RefinementInit, RefinementStep, Inductive, PTL
  DEF Spec, AnswersLikeAMemo, Memo!Spec
===============================================================================
