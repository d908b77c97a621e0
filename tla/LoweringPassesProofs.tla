-------------------------- MODULE LoweringPassesProofs ---------------------------
(***************************************************************************)
(* Theorems about LoweringPasses, for any program: what lower_source says  *)
(* of the code it returns.                                                 *)
(***************************************************************************)
EXTENDS LoweringPasses, FiniteSetTheorems, NaturalsInduction, TLAPS

LEMMA DomainOfOver ==
  ASSUME NEW new, NEW old
  PROVE  DOMAIN Over(new, old) = DOMAIN new \cup DOMAIN old
  BY DEF Over

LEMMA DomainOfPut ==
  ASSUME NEW map, NEW s, NEW names
  PROVE  DOMAIN Put(map, s, names) = DOMAIN map \cup {s}
  BY DEF Put, Over

LEMMA DomainOfNothing == DOMAIN Nothing = {}
  BY DEF Nothing

LEMMA Initially == Init => IInv
<1> SUFFICES ASSUME Init PROVE IInv
  OBVIOUS
<1>1. TypeOK
  BY SizeAssumption, DomainOfNothing DEF Init, TypeOK, Outcomes
<1>2. AppliedInv /\ WalkInv
  BY DomainOfNothing DEF Init, AppliedInv, WalkInv, Rewritten, Reported, Sites
<1>3. QED
  BY <1>1, <1>2 DEF Init, IInv, DiagnosticsMatchCode, NothingSilentInText

(* A visit that adds diagnostics of its own site, and an edit exactly when *)
(* it reports one as applied; that cuts only what it reports; and that is  *)
(* silent only about what was rewritten, and accesses of properties.       *)
LEMMA VisitStep ==
  ASSUME IInv, NEW s \in Sites, Visiting(s), Keep,
         NEW dispositions \in SUBSET Dispositions,
         found' = found \cup ({s} \X dispositions),
         DOMAIN edits' = DOMAIN edits \cup (IF "applied" \in dispositions THEN {s} ELSE {}),
         Walk(s) \/ (Skip(s) /\ dispositions # {}),
         "applied" \in dispositions => kind[s] \notin NeverLowered,
         "applied" \notin dispositions /\ dispositions # {} => kind[s] \in NeverLowered,
         dispositions = {} =>
            Rewritten(s) \/ kind[s] \in {"property", "property_of_unknown"}
  PROVE  IInv'
<1>1. UNCHANGED <<program, code, helpers, diagnostics, left, outcome>> /\ outcome = "running"
  BY DEF Keep, Visiting
<1>2. UNCHANGED <<kind, enclosing, touched>>
  BY <1>1 DEF program
<1>3. at' = s + 1 /\ cut' \in {cut, cut \cup {s}} /\ (cut' # cut => dispositions # {})
  BY DEF Walk, Skip
<1>4. TypeOK'
  BY <1>1, <1>2, <1>3, SizeAssumption DEF IInv, TypeOK, Sites
<1>5. /\ \A t \in Sites : Rewritten(t)' = Rewritten(t)
      /\ \A t \in Sites : Reported(t) => Reported(t)'
      /\ \A t \in Sites \ {s} : Reported(t)' = Reported(t)
      /\ dispositions # {} => Reported(s)' \/ s \in DOMAIN edits'
  <2>1. \A t \in Sites : Rewritten(t)' = Rewritten(t)
    BY <1>1 DEF Rewritten
  <2>2. \A t \in Sites : Reported(t) => Reported(t)'
    BY DEF Reported
  <2>3. \A t \in Sites \ {s} : Reported(t)' = Reported(t)
    BY DEF Reported
  <2>4. ASSUME NEW d \in dispositions, d # "applied" PROVE Reported(s)'
    <3>1. <<s, d>> \in found'
      BY <2>4
    <3>2. QED
      BY <2>4, <3>1 DEF Reported
  <2>5. QED
    BY <2>1, <2>2, <2>3, <2>4
<1>6. AppliedInv'
  <2>1. ASSUME NEW t \in Sites
        PROVE  /\ <<t, "applied">> \in found' <=> t \in DOMAIN edits'
               /\ kind[t] \in NeverLowered => t \notin DOMAIN edits' /\ ~Rewritten(t)
               /\ Reported(t)' => kind[t] \in NeverLowered \/ t \in DOMAIN edits'
    <3>1. /\ <<t, "applied">> \in found <=> t \in DOMAIN edits
          /\ kind[t] \in NeverLowered => t \notin DOMAIN edits /\ ~Rewritten(t)
          /\ Reported(t) => kind[t] \in NeverLowered \/ t \in DOMAIN edits
      BY DEF IInv, AppliedInv
    <3>2. CASE t = s
      <4>1. Reported(s)' => Reported(s) \/ dispositions # {}
        BY DEF Reported
      <4>2. QED
        BY <3>1, <3>2, <4>1
    <3>3. CASE t # s
      BY <1>5, <3>1, <3>3
    <3>4. QED BY <3>2, <3>3
  <2>2. QED
    BY <1>1, <1>2, <1>5, <2>1 DEF IInv, AppliedInv
<1>7. WalkInv'
  <2>1. \A t \in Sites : Reached(t)' => Reached(t)
    BY <1>1, <1>2, <1>3 DEF Reached, Hoisted, Rewritten, IInv, TypeOK
  <2>2. ASSUME NEW t \in Sites, t < at'
        PROVE  \/ ~Reached(t)' \/ Rewritten(t)' \/ t \in DOMAIN edits' \/ Reported(t)'
               \/ kind[t] \in {"property", "property_of_unknown"}
    <3>1. CASE t = s
      BY <1>5, <3>1
    <3>2. CASE t < at
      BY <1>5, <2>1, <3>2 DEF IInv, WalkInv
    <3>3. CASE t # s /\ ~(t < at)
      <4>1. t < s /\ t >= at
        BY <1>3, <2>2, <3>3 DEF Sites, IInv, TypeOK
      <4>2. t \notin ToVisit
        BY <4>1 DEF Visiting, Sites
      <4>3. QED
        BY <2>1, <4>1, <4>2 DEF ToVisit
    <3>4. QED BY <3>1, <3>2, <3>3
  <2>3. ASSUME NEW t \in cut' PROVE t \in DOMAIN edits' \/ Reported(t)'
    <3>1. CASE t \in cut
      BY <1>5, <3>1 DEF IInv, WalkInv, TypeOK
    <3>2. CASE t \notin cut
      BY <1>3, <1>5, <2>3, <3>2
    <3>3. QED BY <3>1, <3>2
  <2>4. QED
    BY <1>2, <2>2, <2>3 DEF WalkInv
<1>8. QED
  BY <1>1, <1>4, <1>6, <1>7 DEF IInv, DiagnosticsMatchCode, NothingSilentInText

(* A rule that rewrites its site. *)
LEMMA EmitStep ==
  ASSUME IInv, NEW s \in Sites, Visiting(s), Keep, kind[s] \notin NeverLowered,
         NEW names, Emit(s, names), Walk(s) \/ Skip(s)
  PROVE  IInv'
<1>1. DOMAIN edits' = DOMAIN edits \cup {s}
  BY DomainOfPut DEF Emit
<1>2. found' = found \cup ({s} \X {"applied"})
  BY DEF Emit
<1>3. QED
  BY <1>1, <1>2, VisitStep DEF Dispositions

(* A visit that finds no rule for its site, and says so. *)
LEMMA DiagnoseStep ==
  ASSUME IInv, NEW s \in Sites, Visiting(s), Keep, kind[s] \in NeverLowered,
         NEW disposition \in Dispositions \ {"applied"}, Diagnose(s, disposition),
         Walk(s) \/ Skip(s)
  PROVE  IInv'
<1>1. edits' = edits /\ found' = found \cup ({s} \X {disposition})
  BY DEF Diagnose
<1>2. QED
  BY <1>1, VisitStep DEF Dispositions

LEMMA VisitKeepsInv ==
  ASSUME IInv, NEW s \in Sites, Visit(s)
  PROVE  IInv'
<1>1. CASE LowerDictUnion(s) \/ LowerClassBodyComprehension(s)
  <2>1. \E names : Emit(s, names)
    BY <1>1 DEF LowerDictUnion, LowerClassBodyComprehension, RequestHelper
  <2>2. QED
    BY <1>1, <2>1, EmitStep DEF LowerDictUnion, LowerClassBodyComprehension, NeverLowered
<1>2. CASE LowerPropertyAccess(s)
  BY <1>2, EmitStep DEF LowerPropertyAccess, NeverLowered
<1>3. CASE LowerClassName(s)
  <2>1. \E names : Emit(s, names)
    BY <1>3 DEF LowerClassName, ClassNameShadow
  <2>2. QED
    BY <1>3, <2>1, EmitStep DEF LowerClassName, NeverLowered
<1>4. CASE LowerDescriptorDecorator(s)
  <2>1. CASE kind[s] = "descriptor" /\ Emit(s, {})
    BY <1>4, <2>1, EmitStep DEF LowerDescriptorDecorator, NeverLowered
  <2>2. CASE kind[s] = "stacked" /\ Diagnose(s, "needs_review")
    BY <1>4, <2>2, DiagnoseStep DEF LowerDescriptorDecorator, NeverLowered, Dispositions
  <2>3. QED
    BY <1>4, <2>1, <2>2 DEF LowerDescriptorDecorator
<1>5. CASE LowerForTarget(s)
  BY <1>5, EmitStep DEF LowerForTarget, ForWalks, NeverLowered
<1>6. CASE LowerMatchStatement(s)
  <2>1. CASE kind[s] = "match" /\ Emit(s, {NewName("match", 0)}) /\ Skip(s)
    BY <1>6, <2>1, EmitStep DEF LowerMatchStatement, NeverLowered
  <2>2. CASE kind[s] = "wide_match" /\ Diagnose(s, "needs_review") /\ Walk(s)
    BY <1>6, <2>2, DiagnoseStep DEF LowerMatchStatement, NeverLowered, Dispositions
  <2>3. QED
    BY <1>6, <2>1, <2>2 DEF LowerMatchStatement
<1>7. CASE LowerWithExitBoundOnce(s)
  <2>1. /\ Visiting(s) /\ Keep /\ Skip(s) /\ kind[s] = "with"
        /\ \E names : edits' = Put(edits, s, names)
        /\ found' = found \cup {<<s, "not_lowerable">>, <<s, "applied">>}
    BY <1>7 DEF LowerWithExitBoundOnce
  <2>2. DOMAIN edits' = DOMAIN edits \cup {s}
    BY <2>1, DomainOfPut
  <2>3. found' = found \cup ({s} \X {"not_lowerable", "applied"})
    BY <2>1
  <2>4. QED
    BY <2>1, <2>2, <2>3, VisitStep DEF Dispositions, NeverLowered
<1>8. CASE DiagnoseUnlowerable(s)
  BY <1>8, DiagnoseStep DEF DiagnoseUnlowerable, NeverLowered, Dispositions
<1>9. CASE VisitOther(s)
  <2> DEFINE none == {}
  <2>1. none \in SUBSET Dispositions /\ "applied" \notin none
    OBVIOUS
  <2>2. found' = found \cup ({s} \X none) /\ DOMAIN edits' = DOMAIN edits
    BY <1>9 DEF VisitOther
  <2>3. /\ Visiting(s) /\ Keep /\ Walk(s)
        /\ Rewritten(s) \/ kind[s] \in {"property", "property_of_unknown"}
    BY <1>9 DEF VisitOther
  <2>4. DOMAIN edits' = DOMAIN edits \cup (IF "applied" \in none THEN {s} ELSE {})
    BY <2>1, <2>2
  <2>5. QED
    BY <2>1, <2>2, <2>3, <2>4, VisitStep
<1>10. QED
  BY <1>1, <1>2, <1>3, <1>4, <1>5, <1>6, <1>7, <1>8, <1>9 DEF Visit

(* A pass that made no edit ends the call: what stands in the text was     *)
(* visited, and all that was diagnosed is still so.                        *)
LEMMA ReturnKeepsInv == IInv /\ Return => IInv'
<1> SUFFICES ASSUME IInv, Return PROVE IInv'
  OBVIOUS
<1>1. /\ outcome = "running" /\ ToVisit = {} /\ DOMAIN edits = {} /\ outcome' = "ok"
      /\ UNCHANGED <<kind, enclosing, touched, code, edits, found, at, cut, left>>
      /\ diagnostics' = diagnostics \cup found
  BY DEF Return, PassEnds, program, pass, Diagnosed, KeptOfTheLastPass, IInv, TypeOK,
         Dispositions
<1>2. TypeOK'
  BY <1>1 DEF IInv, TypeOK, Outcomes
<1>3. \A s \in Sites : Rewritten(s)' = Rewritten(s) /\ Reported(s)' = Reported(s)
                       /\ Reached(s)' = Reached(s) /\ Hoisted(s)' = Hoisted(s)
  BY <1>1 DEF Rewritten, Reported, Reached, Hoisted
<1>4. AppliedInv'
  BY <1>1, <1>3 DEF IInv, AppliedInv
<1>5. WalkInv'
  BY <1>1, <1>3 DEF IInv, WalkInv, TypeOK
<1>6. DiagnosticsMatchCode'
  <2>1. ASSUME NEW s \in Sites, Rewritten(s), NEW d \in diagnostics', d[1] = s
        PROVE  d[2] = "applied"
    <3>1. CASE d \in diagnostics
      BY <1>1, <3>1 DEF IInv, AppliedInv
    <3>2. CASE d \in found
      <4>1. ~Reported(s)
        BY <1>1, <2>1 DEF IInv, AppliedInv
      <4>2. QED
        BY <2>1, <3>2, <4>1 DEF Reported
    <3>3. QED BY <1>1, <3>1, <3>2
  <2>2. QED
    BY <1>3, <1>4, <2>1 DEF DiagnosticsMatchCode, AppliedInv
<1>7. NothingSilentInText'
  <2>1. ASSUME NEW s \in Sites, ~Rewritten(s), ~Hoisted(s),
               kind[s] \notin {"property", "property_of_unknown"}
        PROVE  \E t \in enclosing[s] \cup {s} : Reported(t)
    <3>1. CASE Reached(s)
      <4>1. s < at
        BY <1>1, <3>1 DEF ToVisit, Sites, IInv, TypeOK
      <4>2. QED
        BY <1>1, <2>1, <3>1, <4>1 DEF IInv, WalkInv
    <3>2. CASE ~Reached(s)
      <4>1. PICK t \in enclosing[s] : t \in cut
        BY <2>1, <3>2 DEF Reached
      <4>2. QED
        BY <1>1, <4>1 DEF IInv, WalkInv
    <3>3. QED BY <3>1, <3>2
  <2>2. QED
    BY <1>1, <1>3, <2>1 DEF NothingSilentInText, Reported
<1>8. QED
  BY <1>2, <1>4, <1>5, <1>6, <1>7 DEF IInv

LEMMA NextPassKeepsInv == IInv /\ NextPass => IInv'
<1> SUFFICES ASSUME IInv, NextPass PROVE IInv'
  OBVIOUS
<1>1. /\ outcome = "running" /\ outcome' \in {"running", "non_convergent"}
      /\ left' = left - 1 /\ (outcome' = "running" => left' # 0)
      /\ code' = Over(edits, code) /\ UNCHANGED <<kind, enclosing, touched>>
      /\ edits' = Nothing /\ found' = {} /\ at' = 1 /\ cut' = {}
  BY DEF NextPass, PassEnds, NewCollector, program, Counted
<1>2. diagnostics' = diagnostics \cup {d \in found : d[2] = "applied"}
  BY DEF NextPass, Diagnosed, KeptOfAnEditingPass
<1>3. DOMAIN code' = DOMAIN edits \cup DOMAIN code /\ DOMAIN edits' = {}
  BY <1>1, DomainOfOver, DomainOfNothing
<1>4. TypeOK'
  BY <1>1, <1>2, <1>3, SizeAssumption DEF IInv, TypeOK, Outcomes
<1>5. AppliedInv'
  BY <1>1, <1>2, <1>3 DEF IInv, AppliedInv, Rewritten, Reported
<1>6. WalkInv'
  BY <1>1 DEF WalkInv, Sites
<1>7. QED
  BY <1>1, <1>4, <1>5, <1>6 DEF IInv, DiagnosticsMatchCode, NothingSilentInText

LEMMA Inductiveness == IInv /\ [Next]_vars => IInv'
<1> SUFFICES ASSUME IInv, [Next]_vars PROVE IInv'
  OBVIOUS
<1>1. CASE RefuseEdits
  <2>1. outcome' = "edit_error" /\ outcome = "running"
        /\ UNCHANGED <<kind, enclosing, touched, code, edits, found, at, cut,
                       diagnostics, left>>
    BY <1>1 DEF RefuseEdits, PassEnds, program, pass
  <2>2. TypeOK' /\ AppliedInv' /\ WalkInv'
    BY <2>1 DEF IInv, TypeOK, Outcomes, AppliedInv, WalkInv, Rewritten, Reported,
                Reached, Hoisted
  <2>3. QED
    BY <2>1, <2>2 DEF IInv, DiagnosticsMatchCode, NothingSilentInText
<1>2. CASE UNCHANGED vars
  BY <1>2 DEF vars, program, pass, IInv, TypeOK, AppliedInv, WalkInv, Rewritten, Reported,
              Reached, Hoisted, DiagnosticsMatchCode, NothingSilentInText
<1>3. QED
  BY <1>1, <1>2, VisitKeepsInv, ReturnKeepsInv, NextPassKeepsInv DEF Next

(* The inductive invariant: at every step of every pass the edits, the     *)
(* code and the diagnostics of lower_source agree, and the walk has dealt  *)
(* with each site it has passed.                                           *)
THEOREM LoweringInductive == Spec => []IInv
  BY Initially, Inductiveness, PTL DEF Spec

(* Whatever the program, however often its text is rewritten: the sites    *)
(* lower_source reports as applied are those it rewrote, and it reports    *)
(* nothing else of them.                                                   *)
THEOREM DiagnosticsAreOfTheCode == Spec => []DiagnosticsMatchCode
<1>1. IInv => DiagnosticsMatchCode
  BY DEF IInv
<1>2. QED
  BY <1>1, LoweringInductive, PTL

(* Whatever the program, nothing stays in the text that lower_source       *)
(* returns as it was written, accesses of properties aside, without a      *)
(* diagnostic that a caller can refuse.                                    *)
THEOREM NothingIsSilent == Spec => []NothingSilentInText
<1>1. IInv => NothingSilentInText
  BY DEF IInv
<1>2. QED
  BY <1>1, LoweringInductive, PTL
-------------------------------------------------------------------------------
(* Programs and generated names *)

LEMMA LeastNumber ==
  ASSUME NEW S \in SUBSET Nat, S # {}
  PROVE  \E n \in S : \A m \in S : n <= m
<1>1. PICK n \in S : \A m \in S : ~(<<m, n>> \in OpToRel(<, Nat))
  BY NatLessThanWellFounded, WFMin
<1>2. \A m \in S : ~(m < n)
  BY <1>1 DEF OpToRel
<1>3. QED
  BY <1>2

(* What encloses a site comes before it in the source and is enclosed by   *)
(* what encloses the site too.                                             *)
LEMMA Ancestors ==
  ASSUME TypeOK, InSourceOrder(enclosing), NEW s \in Sites, NEW t \in enclosing[s]
  PROVE  t < s /\ enclosing[t] \subseteq enclosing[s]
<1> DEFINE Wrong == {r \in Sites : \E u \in enclosing[r] :
                        ~(u < r /\ enclosing[u] \subseteq enclosing[r])}
<1> SUFFICES ASSUME Wrong # {} PROVE FALSE
  OBVIOUS
<1>1. PICK r \in Wrong : \A m \in Wrong : r <= m
  <2>1. Wrong \in SUBSET Nat
    BY DEF Sites
  <2> HIDE DEF Wrong
  <2>2. QED
    BY <2>1, LeastNumber
<1>2. r # 1 /\ r - 1 \in Sites /\ r \in Nat
  BY SizeAssumption DEF InSourceOrder, Sites
<1>3. PICK u \in enclosing[r - 1] \cup {r - 1} : enclosing[r] = enclosing[u] \cup {u}
  BY <1>1, <1>2 DEF InSourceOrder
<1>4. u \in Sites /\ u < r
  <2>1. r - 1 \notin Wrong
    BY <1>1, <1>2
  <2>2. \A x \in enclosing[r - 1] : x < r - 1 /\ x \in Sites
    BY <1>2, <2>1 DEF TypeOK
  <2>3. QED
    BY <1>2, <1>3, <2>2 DEF Sites
<1>5. u \notin Wrong
  BY <1>1, <1>4 DEF Sites
<1>6. \A x \in enclosing[u] : x < u /\ x \in Sites /\ enclosing[x] \subseteq enclosing[u]
  BY <1>4, <1>5 DEF TypeOK
<1>7. \A x \in enclosing[r] : x < r /\ enclosing[x] \subseteq enclosing[r]
  BY <1>2, <1>3, <1>4, <1>6 DEF Sites
<1>8. QED
  BY <1>7

LEMMA TextFinite ==
  ASSUME DOMAIN code \subseteq Sites, NamesIn(code)
  PROVE  /\ NamesInText \subseteq Name /\ UserNames \subseteq NamesInText
         /\ IsFiniteSet(NamesInText) /\ Cardinality(NamesInText) \in Nat
<1> DEFINE Held == {code[s] : s \in DOMAIN code}
<1>1. IsFiniteSet(DOMAIN code)
  <2>1. IsFiniteSet(Sites)
    BY SizeAssumption, FS_Interval DEF Sites
  <2>2. QED
    BY <2>1, FS_Subset
<1>2. IsFiniteSet(Held)
  <2>1. code \in Surjection(DOMAIN code, Held)
    BY DEF Surjection, NamesIn
  <2> HIDE DEF Held
  <2>2. QED
    BY <1>1, <2>1, FS_Surjection
<1>3. IsFiniteSet(UNION Held)
  <2>1. \A T \in Held : IsFiniteSet(T)
    BY DEF NamesIn
  <2> HIDE DEF Held
  <2>2. QED
    BY <1>2, <2>1, FS_UNION
<1>4. NamesInText = UserNames \cup UNION Held
  BY DEF NamesInText
<1>5. IsFiniteSet(UserNames \cup UNION Held)
  <2> HIDE DEF Held
  <2>1. QED
    BY <1>3, FS_Union, KindsAssumption
<1>6. NamesInText \subseteq Name /\ UserNames \subseteq NamesInText
  BY <1>4, KindsAssumption DEF NamesIn
<1>7. QED
  BY <1>4, <1>5, <1>6, FS_CardinalityType

(* The loop finds a name: a text with N generated names does not hold all  *)
(* of N + 1 numbers.                                                       *)
LEMMA FreshName ==
  ASSUME DOMAIN code \subseteq Sites, NamesIn(code), NEW role \in Roles, NEW counter \in Nat
  PROVE  /\ NewName(role, counter) \in Name \ NamesInText
         /\ NewName(role, counter).role = role
         /\ NewName(role, counter).number \in Nat
         /\ NewName(role, counter).number >= counter
<1> DEFINE n(i) == [role |-> role, number |-> i]
           last == counter + Cardinality(NamesInText)
           Free == {i \in counter .. last : n(i) \notin NamesInText}
           Least(i) == n(i) \notin NamesInText
                       /\ \A m \in counter .. i - 1 : n(m) \in NamesInText
<1>1. /\ IsFiniteSet(NamesInText) /\ Cardinality(NamesInText) \in Nat
      /\ last \in Nat /\ IsFiniteSet(counter .. last)
      /\ Cardinality(counter .. last) = Cardinality(NamesInText) + 1
  <2>1. IsFiniteSet(NamesInText) /\ Cardinality(NamesInText) \in Nat
    BY TextFinite
  <2>2. last \in Nat /\ counter <= last
    BY <2>1
  <2>3. /\ IsFiniteSet(counter .. last)
        /\ Cardinality(counter .. last) = IF counter > last THEN 0 ELSE last - counter + 1
    <3> HIDE DEF last
    <3>1. QED
      BY <2>2, FS_Interval
  <2>4. QED
    BY <2>1, <2>2, <2>3
<1>2. Free # {}
  <2> SUFFICES ASSUME Free = {} PROVE FALSE
    OBVIOUS
  <2> DEFINE f == [i \in counter .. last |-> n(i)]
  <2>1. f \in [counter .. last -> NamesInText]
    OBVIOUS
  <2>2. Cardinality(NamesInText) < Cardinality(counter .. last)
    BY <1>1
  <2>3. \E i, j \in counter .. last : i # j /\ f[i] = f[j]
    <3> HIDE DEF f, last
    <3>1. QED
      BY <1>1, <2>1, <2>2, FS_PigeonHole
  <2>4. \A i, j \in counter .. last : f[i] = f[j] => f[i].number = f[j].number
    OBVIOUS
  <2>5. \A i \in counter .. last : f[i].number = i
    OBVIOUS
  <2> HIDE DEF f
  <2>6. QED
    BY <2>3, <2>4, <2>5
<1>3. PICK i \in Free : \A m \in Free : i <= m
  <2>1. Free \in SUBSET Nat
    OBVIOUS
  <2> HIDE DEF Free
  <2>2. QED
    BY <1>2, <2>1, LeastNumber
<1>4. i \in counter .. last /\ Least(i)
  <2>1. \A m \in counter .. i - 1 : m \in counter .. last /\ ~(i <= m)
    BY <1>1, <1>3
  <2>2. QED
    BY <1>3, <2>1
<1>5. NextNumber(role, counter) = CHOOSE j \in counter .. last : Least(j)
  BY DEF NextNumber
<1>6. NextNumber(role, counter) \in counter .. last /\ Least(NextNumber(role, counter))
  <2> HIDE DEF Least
  <2>1. QED
    BY <1>4, <1>5
<1>7. QED
  BY <1>1, <1>6 DEF NewName, Name
LEMMA NamesOfPut ==
  ASSUME NEW map, NamesIn(map), NEW x, NEW names \in SUBSET Name, IsFiniteSet(names)
  PROVE  /\ NamesIn(Put(map, x, names))
         /\ Put(map, x, names)[x] = names
         /\ \A y \in DOMAIN map \ {x} : Put(map, x, names)[y] = map[y]
  BY DEF NamesIn, Put, Over

LEMMA NamesOfOver ==
  ASSUME NEW new, NEW old, NamesIn(new), NamesIn(old)
  PROVE  /\ NamesIn(Over(new, old))
         /\ \A x \in DOMAIN new : Over(new, old)[x] = new[x]
         /\ \A x \in DOMAIN old \ DOMAIN new : Over(new, old)[x] = old[x]
  BY DEF NamesIn, Over

LEMMA NamesOfNothing == NamesIn(Nothing)
  BY DEF NamesIn, Nothing

(* A visit hands out further names: what was allocated stays so.           *)
LEMMA AllocatedKept ==
  ASSUME code' = code,
         helperCounter \in Nat, helperCounter' \in Nat, helperCounter <= helperCounter',
         tempCounter \in Nat, tempCounter' \in Nat, tempCounter <= tempCounter',
         NEW n, Allocated(n)
  PROVE  Allocated(n)'
<1>1. NamesInText' = NamesInText
  BY DEF NamesInText
<1>2. n \in Name /\ n.number \in Nat
  BY DEF Allocated, Name
<1>3. QED
  BY <1>1, <1>2 DEF Allocated

LEMMA VisitedLast ==
  ASSUME TypeOK, EditsInv, InSourceOrder(enclosing), NEW s \in Sites, Visiting(s)
  PROVE  /\ s \notin DOMAIN edits /\ enclosing[s] \cap cut = {} /\ s \notin enclosing[s]
         /\ \A t \in DOMAIN edits : t < s /\ s \notin enclosing[t]
<1>1. s >= at /\ Reached(s)
  BY DEF Visiting, ToVisit
<1>2. at \in Nat /\ s \in Nat
  BY SizeAssumption DEF TypeOK, Sites
<1>3. ASSUME NEW t \in Sites, NEW u \in enclosing[t] PROVE u < t
  BY Ancestors
<1>4. ASSUME NEW t \in DOMAIN edits PROVE t < s /\ s \notin enclosing[t]
  <2>1. t \in Sites /\ t \in Nat /\ t < at
    BY DEF TypeOK, EditsInv, Sites
  <2>2. t < s
    BY <1>1, <1>2, <2>1
  <2>3. QED
    BY <1>2, <1>3, <2>1, <2>2
<1>5. s \notin DOMAIN edits /\ s \notin enclosing[s]
  BY <1>2, <1>3, <1>4
<1>6. QED
  BY <1>1, <1>4, <1>5 DEF Reached

(* What a visit that hands out names leaves of the state of its pass.      *)
Handed ==
    /\ helperCounter' \in Nat /\ helperCounter <= helperCounter'
    /\ tempCounter' \in Nat /\ tempCounter <= tempCounter'
    /\ NamesIn(passHelpers')
    /\ shadow' \subseteq Name /\ IsFiniteSet(shadow')
    /\ \A h \in DOMAIN passHelpers' : \A n \in passHelpers'[h] :
         Allocated(n)' /\ n.role = IF h = 0 THEN "dict_union" ELSE "class_comprehension"
    /\ \A n \in shadow' : Allocated(n)' /\ n.role = "nested_name"

LEMMA NothingHanded ==
  ASSUME AllocationInv, code' = code,
         helperCounter' \in Nat, helperCounter <= helperCounter',
         tempCounter' \in Nat, tempCounter <= tempCounter',
         UNCHANGED <<passHelpers, shadow>>
  PROVE  Handed
<1>1. \A n : Allocated(n) => Allocated(n)'
  BY AllocatedKept DEF AllocationInv
<1>2. QED
  BY <1>1 DEF AllocationInv, Handed

(* A visit that rewrites its site. *)
LEMMA EditNames ==
  ASSUME TypeOK, NamesInv, NEW s \in Sites, Visiting(s), Keep, Handed,
         NEW names \in SUBSET Name, IsFiniteSet(names), edits' = Put(edits, s, names),
         \A n \in names : Allocated(n)' /\ RoleFits(kind[s], n.role),
         \A t \in DOMAIN edits : edits[t] \cap names # {} => MayShare(s, t),
         \A h \in DOMAIN passHelpers' : h = 0 \/ h \in DOMAIN edits \cup {s},
         Walk(s) \/ Skip(s), kind[s] = "match" => Skip(s)
  PROVE  NamesInv'
<1>1. code' = code /\ UNCHANGED <<kind, enclosing, touched>> /\ NamesInText' = NamesInText
  BY DEF Keep, program, NamesInText
<1>2. at' = s + 1 /\ cut' \subseteq cut \cup {s} /\ cut \subseteq cut'
      /\ (kind[s] = "match" => s \in cut')
  BY DEF Walk, Skip
<1>3. \A n : Allocated(n) => Allocated(n)'
  BY <1>1, AllocatedKept DEF NamesInv, AllocationInv, Handed
<1>4. /\ DOMAIN edits' = DOMAIN edits \cup {s} /\ NamesIn(edits') /\ edits'[s] = names
      /\ s \notin DOMAIN edits /\ \A t \in DOMAIN edits : edits'[t] = edits[t]
  <2>1. s \notin DOMAIN edits
    BY VisitedLast DEF NamesInv
  <2>2. DOMAIN edits' = DOMAIN edits \cup {s}
    BY DomainOfPut
  <2>3. NamesIn(edits)
    BY DEF NamesInv, AllocationInv
  <2>4. /\ NamesIn(edits') /\ edits'[s] = names
        /\ \A t \in DOMAIN edits \ {s} : edits'[t] = edits[t]
    <3>1. /\ NamesIn(Put(edits, s, names)) /\ Put(edits, s, names)[s] = names
          /\ \A t \in DOMAIN edits \ {s} : Put(edits, s, names)[t] = edits[t]
      BY <2>3, NamesOfPut
    <3>2. QED
      BY <3>1 DEF NamesIn
  <2>5. QED
    BY <2>1, <2>2, <2>4
<1>5. AllocationInv'
  <2>1. \A t \in DOMAIN edits' : \A n \in edits'[t] : Allocated(n)' /\ RoleFits(kind[t], n.role)
    BY <1>3, <1>4 DEF NamesInv, AllocationInv
  <2>2. \A t \in DOMAIN code : \A n \in code[t] : RoleFits(kind[t], n.role)
    BY DEF NamesInv, AllocationInv
  <2>3. NamesIn(code')
    BY <1>1 DEF NamesInv, AllocationInv
  <2>4. QED
    BY <1>1, <1>4, <2>1, <2>2, <2>3 DEF AllocationInv, Handed
<1>6. EditsInv'
  <2>1. /\ enclosing[s] \cap cut = {} /\ s \notin enclosing[s]
        /\ \A t \in DOMAIN edits : t < s /\ s \notin enclosing[t]
    BY VisitedLast DEF NamesInv
  <2>2. s \in Nat /\ DOMAIN edits \subseteq Nat
    BY SizeAssumption DEF Sites, TypeOK
  <2>3. \A t \in DOMAIN edits' : t < at' /\ enclosing[t] \cap cut' = {}
    BY <1>2, <1>4, <2>1, <2>2 DEF NamesInv, EditsInv
  <2>4. \A t \in DOMAIN edits' : kind[t] = "match" => t \in cut'
    BY <1>2, <1>4 DEF NamesInv, EditsInv
  <2>5. ASSUME NEW t \in DOMAIN edits', NEW u \in DOMAIN edits', t # u,
               edits'[t] \cap edits'[u] # {}
        PROVE  MayShare(t, u)
    <3>1. CASE t = s
      BY <1>4, <2>5, <3>1
    <3>2. CASE u = s
      <4>1. MayShare(u, t)
        BY <1>4, <2>5, <3>2
      <4>2. QED
        BY <4>1 DEF MayShare
    <3>3. CASE t # s /\ u # s
      BY <1>4, <2>5, <3>3 DEF NamesInv, EditsInv
    <3>4. QED
      BY <3>1, <3>2, <3>3
  <2>6. QED
    BY <1>1, <2>3, <2>4, <2>5 DEF EditsInv, MayShare
<1>7. NamesAreFresh'
  BY <1>1 DEF NamesInv, NamesAreFresh, Rewritten, MayShare
<1>8. QED
  BY <1>1, <1>5, <1>6, <1>7 DEF NamesInv, InSourceOrder

LEMMA OtherNames ==
  ASSUME TypeOK, NamesInv, NEW s \in Sites, Visiting(s), Keep, NoNewName, edits' = edits,
         Walk(s) \/ Skip(s)
  PROVE  NamesInv'
<1>1. UNCHANGED <<code, kind, enclosing, touched, edits, passHelpers, shadow,
                  helperCounter, tempCounter>> /\ NamesInText' = NamesInText
  BY DEF Keep, program, NamesInText, NoNewName
<1>2. at' = s + 1 /\ cut' \subseteq cut \cup {s} /\ cut \subseteq cut'
  BY DEF Walk, Skip
<1>3. AllocationInv'
  BY <1>1 DEF NamesInv, AllocationInv, Allocated, NamesIn
<1>4. EditsInv'
  <2>1. \A t \in DOMAIN edits : t < s /\ s \notin enclosing[t]
    BY VisitedLast DEF NamesInv
  <2>2. s \in Nat /\ DOMAIN edits \subseteq Nat
    BY SizeAssumption DEF Sites, TypeOK
  <2>3. \A t \in DOMAIN edits : t < at' /\ enclosing[t] \cap cut' = {}
    BY <1>2, <2>1, <2>2 DEF NamesInv, EditsInv
  <2>4. QED
    BY <1>1, <1>2, <2>3 DEF NamesInv, EditsInv, MayShare
<1>5. QED
  BY <1>1, <1>3, <1>4 DEF NamesInv, InSourceOrder, NamesAreFresh, Rewritten, MayShare
HelperRoles == {"dict_union", "class_comprehension", "nested_name"}

(* A number from the allocator's counter on is not in use in this pass.    *)
LEMMA FreshInPass ==
  ASSUME TypeOK, AllocationInv, NEW role \in Roles, NEW counter \in Nat,
         \/ role \in HelperRoles /\ helperCounter <= counter
         \/ role = "target" /\ tempCounter <= counter
  PROVE  \A t \in DOMAIN edits : NewName(role, counter) \notin edits[t]
<1>1. PICK n : n = NewName(role, counter)
  OBVIOUS
<1>2. n \in Name /\ n.role = role /\ n.number \in Nat /\ n.number >= counter
  BY <1>1, FreshName DEF TypeOK, AllocationInv
<1>3. helperCounter \in Nat /\ tempCounter \in Nat
  BY DEF AllocationInv
<1>4. ~Allocated(n)
  BY <1>2, <1>3 DEF Allocated, HelperRoles
<1>5. QED
  BY <1>1, <1>4 DEF AllocationInv

(* A name the pass shares among the sites of a role, or the one it makes   *)
(* for the role when there is none yet.                                    *)
LEMMA HelperNames ==
  ASSUME TypeOK, NamesInv, NEW s \in Sites, Visiting(s), Keep,
         kind[s] \in {"union", "comprehension"}, RequestHelper(s), Skip(s)
  PROVE  NamesInv'
<1> DEFINE role == HelperRole(s)
           h == HelperKind(s)
<1>0. AllocationInv /\ EditsInv /\ code' = code
      /\ s \notin DOMAIN edits /\ s # 0
  BY VisitedLast DEF NamesInv, Keep, Sites
<1>1. /\ role \in Roles /\ role \in HelperRoles /\ RoleFits(kind[s], role)
      /\ role = (IF h = 0 THEN "dict_union" ELSE "class_comprehension")
      /\ (h = 0 <=> kind[s] = "union") /\ (h # 0 => h = s)
  BY <1>0 DEF HelperRole, HelperKind, HelperRoles, Roles, RoleFits
<1>2. UNCHANGED <<shadow, tempCounter>>
  BY DEF RequestHelper
<1>3. CASE /\ h \in DOMAIN passHelpers /\ Emit(s, passHelpers[h])
           /\ UNCHANGED <<passHelpers, helperCounter>>
  <2>1. Handed
    BY <1>0, <1>2, <1>3, NothingHanded DEF AllocationInv
  <2>2. h = 0 /\ kind[s] = "union"
    BY <1>0, <1>1, <1>3 DEF AllocationInv
  <2>3. /\ passHelpers[h] \in SUBSET Name /\ IsFiniteSet(passHelpers[h])
        /\ \A n \in passHelpers[h] : Allocated(n)' /\ n.role = "dict_union"
    BY <1>0, <1>3, <2>1, <2>2 DEF AllocationInv, NamesIn, Handed
  <2>4. \A n \in passHelpers[h] : RoleFits(kind[s], n.role)
    BY <1>1, <2>2, <2>3
  <2>5. ASSUME NEW t \in DOMAIN edits, edits[t] \cap passHelpers[h] # {}
        PROVE  MayShare(s, t)
    <3>1. RoleFits(kind[t], "dict_union")
      BY <1>0, <2>3, <2>5 DEF AllocationInv
    <3>2. QED
      BY <2>2, <3>1 DEF RoleFits, MayShare
  <2>6. edits' = Put(edits, s, passHelpers[h])
    BY <1>3 DEF Emit
  <2>7. \A k \in DOMAIN passHelpers' : k = 0 \/ k \in DOMAIN edits \cup {s}
    BY <1>0, <1>3 DEF AllocationInv
  <2> HIDE DEF h, role
  <2>8. PICK names : names = passHelpers[h]
    OBVIOUS
  <2>9. QED
    BY <2>1, <2>2, <2>3, <2>4, <2>5, <2>6, <2>7, <2>8, EditNames
<1>4. CASE /\ h \notin DOMAIN passHelpers
           /\ Emit(s, {NewName(role, helperCounter)})
           /\ passHelpers' = Put(passHelpers, h, {NewName(role, helperCounter)})
           /\ helperCounter' = NewName(role, helperCounter).number + 1
  <2>1. PICK n : n = NewName(role, helperCounter)
    OBVIOUS
  <2>2. /\ n \in Name \ NamesInText /\ n.role = role
        /\ n.number \in Nat /\ n.number >= helperCounter /\ helperCounter \in Nat
    BY <1>0, <1>1, <2>1, FreshName DEF TypeOK, AllocationInv
  <2>3. helperCounter' = n.number + 1 /\ helperCounter' \in Nat /\ helperCounter <= helperCounter'
    BY <1>4, <2>1, <2>2
  <2>4. NamesInText' = NamesInText /\ Allocated(n)'
    BY <1>0, <1>1, <2>2, <2>3 DEF NamesInText, Allocated, HelperRoles
  <2>5. \A m : Allocated(m) => Allocated(m)'
    BY <1>0, <1>2, <2>3, AllocatedKept DEF AllocationInv
  <2>6. /\ DOMAIN passHelpers' = DOMAIN passHelpers \cup {h} /\ NamesIn(passHelpers')
        /\ passHelpers'[h] = {n}
        /\ \A k \in DOMAIN passHelpers : passHelpers'[k] = passHelpers[k]
    <3>1. passHelpers' = Put(passHelpers, h, {n}) /\ {n} \in SUBSET Name /\ IsFiniteSet({n})
      BY <1>4, <2>1, <2>2, FS_Singleton
    <3>2. NamesIn(passHelpers)
      BY <1>0 DEF AllocationInv
    <3>3. /\ NamesIn(Put(passHelpers, h, {n})) /\ Put(passHelpers, h, {n})[h] = {n}
          /\ \A k \in DOMAIN passHelpers \ {h} : Put(passHelpers, h, {n})[k] = passHelpers[k]
      <4>1. PICK names \in SUBSET Name : names = {n}
        BY <3>1
      <4>2. \A x : /\ NamesIn(Put(passHelpers, x, names))
                   /\ Put(passHelpers, x, names)[x] = names
                   /\ \A k \in DOMAIN passHelpers \ {x} :
                        Put(passHelpers, x, names)[k] = passHelpers[k]
        <5>1. IsFiniteSet(names)
          BY <3>1, <4>1
        <5>2. QED
          BY <3>2, <5>1, NamesOfPut
      <4>3. QED
        BY <4>1, <4>2
    <3>4. DOMAIN Put(passHelpers, h, {n}) = DOMAIN passHelpers \cup {h}
      BY DomainOfPut
    <3>5. QED
      BY <1>4, <3>1, <3>3, <3>4 DEF NamesIn
  <2>7. Handed
    <3>1. \A k \in DOMAIN passHelpers' : \A m \in passHelpers'[k] :
            Allocated(m)' /\ m.role = IF k = 0 THEN "dict_union" ELSE "class_comprehension"
      BY <1>0, <1>1, <2>2, <2>4, <2>5, <2>6 DEF AllocationInv
    <3>2. QED
      BY <1>0, <1>2, <2>3, <2>5, <2>6, <3>1 DEF AllocationInv, Handed
  <2>8. \A t \in DOMAIN edits : n \notin edits[t]
    BY <1>0, <1>1, <2>1, <2>2, FreshInPass
  <2>9. \A k \in DOMAIN passHelpers' : k = 0 \/ k \in DOMAIN edits \cup {s}
    BY <1>0, <1>1, <2>6 DEF AllocationInv
  <2>10. PICK names : names = {n}
    OBVIOUS
  <2>11. /\ edits' = Put(edits, s, names) /\ names \in SUBSET Name /\ IsFiniteSet(names)
         /\ \A m \in names : Allocated(m)' /\ RoleFits(kind[s], m.role)
         /\ \A t \in DOMAIN edits : edits[t] \cap names = {}
    BY <1>1, <1>4, <2>1, <2>2, <2>4, <2>8, <2>10, FS_Singleton DEF Emit
  <2>12. kind[s] # "match"
    OBVIOUS
  <2> HIDE DEF h, role
  <2>13. QED
    BY <2>7, <2>9, <2>11, <2>12, EditNames
<1>5. QED
  BY <1>3, <1>4 DEF RequestHelper

LEMMA ShadowNames ==
  ASSUME TypeOK, NamesInv, NEW s \in Sites, Visiting(s), Keep,
         kind[s] \in {"name_get", "name_set"}, ClassNameShadow(s), Skip(s)
  PROVE  NamesInv'
<1>0. AllocationInv /\ EditsInv /\ code' = code
      /\ UNCHANGED <<passHelpers, tempCounter>>
      /\ \A h \in DOMAIN passHelpers' : h = 0 \/ h \in DOMAIN edits \cup {s}
  BY DEF NamesInv, Keep, ClassNameShadow, AllocationInv
<1>1. CASE shadow # {} /\ Emit(s, shadow) /\ UNCHANGED <<shadow, helperCounter>>
  <2>1. Handed
    BY <1>0, <1>1, NothingHanded DEF AllocationInv
  <2>2. /\ shadow \in SUBSET Name /\ IsFiniteSet(shadow)
        /\ \A n \in shadow : Allocated(n)' /\ n.role = "nested_name"
    BY <1>0, <1>1, <2>1 DEF AllocationInv, Handed
  <2>3. \A n \in shadow : RoleFits(kind[s], n.role)
    BY <2>2 DEF RoleFits
  <2>4. ASSUME NEW t \in DOMAIN edits, edits[t] \cap shadow # {} PROVE MayShare(s, t)
    <3>1. RoleFits(kind[t], "nested_name")
      BY <1>0, <2>2, <2>4 DEF AllocationInv
    <3>2. QED
      BY <3>1 DEF RoleFits, MayShare
  <2>5. PICK names : names = shadow
    OBVIOUS
  <2>6. edits' = Put(edits, s, names) /\ kind[s] # "match"
    BY <1>1, <2>5 DEF Emit
  <2>7. QED
    BY <1>0, <2>1, <2>2, <2>3, <2>4, <2>5, <2>6, EditNames
<1>2. CASE /\ Emit(s, {NewName("nested_name", helperCounter)})
           /\ shadow' = {NewName("nested_name", helperCounter)}
           /\ helperCounter' = NewName("nested_name", helperCounter).number + 1
  <2>1. PICK n : n = NewName("nested_name", helperCounter)
    OBVIOUS
  <2>2. /\ n \in Name \ NamesInText /\ n.role = "nested_name"
        /\ n.number \in Nat /\ n.number >= helperCounter /\ helperCounter \in Nat
    BY <1>0, <2>1, FreshName DEF TypeOK, AllocationInv, Roles
  <2>3. helperCounter' = n.number + 1 /\ helperCounter' \in Nat /\ helperCounter <= helperCounter'
    BY <1>2, <2>1, <2>2
  <2>4. NamesInText' = NamesInText /\ Allocated(n)'
    BY <1>0, <2>2, <2>3 DEF NamesInText, Allocated
  <2>5. \A m : Allocated(m) => Allocated(m)'
    BY <1>0, <2>3, AllocatedKept DEF AllocationInv
  <2>6. Handed
    <3>1. shadow' \subseteq Name /\ IsFiniteSet(shadow')
          /\ \A m \in shadow' : Allocated(m)' /\ m.role = "nested_name"
      BY <1>2, <2>1, <2>2, <2>4, FS_Singleton
    <3>2. QED
      BY <1>0, <2>3, <2>5, <3>1 DEF AllocationInv, Handed
  <2>7. \A t \in DOMAIN edits : n \notin edits[t]
    BY <1>0, <2>1, <2>2, FreshInPass DEF Roles, HelperRoles
  <2>8. PICK names : names = {n}
    OBVIOUS
  <2>9. /\ edits' = Put(edits, s, names) /\ names \in SUBSET Name /\ IsFiniteSet(names)
        /\ \A m \in names : Allocated(m)' /\ RoleFits(kind[s], m.role)
        /\ \A t \in DOMAIN edits : edits[t] \cap names = {}
    BY <1>2, <2>1, <2>2, <2>4, <2>7, <2>8, FS_Singleton DEF Emit, RoleFits
  <2>10. kind[s] # "match"
    OBVIOUS
  <2>11. QED
    BY <1>0, <2>6, <2>9, <2>10, EditNames
<1>3. QED
  BY <1>1, <1>2 DEF ClassNameShadow

(* A site that takes names of its own for the targets it assigns.          *)
LEMMA TargetNames ==
  ASSUME TypeOK, NamesInv, NEW s \in Sites, Visiting(s), Keep,
         kind[s] \in {"for", "with"}, UNCHANGED <<passHelpers, shadow, helperCounter>>,
         Walk(s) \/ Skip(s), NEW names \in SUBSET Name, IsFiniteSet(names),
         edits' = Put(edits, s, names),
         tempCounter' \in Nat, tempCounter <= tempCounter',
         \A n \in names : /\ n \notin NamesInText /\ n.role = "target"
                          /\ n.number < tempCounter'
                          /\ \A t \in DOMAIN edits : n \notin edits[t]
  PROVE  NamesInv'
<1>0. AllocationInv /\ code' = code /\ helperCounter' \in Nat /\ helperCounter <= helperCounter'
  BY DEF NamesInv, Keep, AllocationInv
<1>1. Handed
  BY <1>0, NothingHanded
<1>2. NamesInText' = NamesInText
  BY <1>0 DEF NamesInText
<1>3. \A n \in names : Allocated(n)' /\ RoleFits(kind[s], n.role)
  BY <1>2 DEF Allocated, RoleFits
<1>4. /\ \A h \in DOMAIN passHelpers' : h = 0 \/ h \in DOMAIN edits \cup {s}
      /\ \A t \in DOMAIN edits : edits[t] \cap names = {}
      /\ kind[s] # "match"
  BY <1>0 DEF AllocationInv
<1>5. QED
  BY <1>1, <1>3, <1>4, EditNames

LEMMA MatchNames ==
  ASSUME TypeOK, NamesInv, NEW s \in Sites, Visiting(s), Keep, NoNewName,
         kind[s] = "match", Emit(s, {NewName("match", 0)}), Skip(s)
  PROVE  NamesInv'
<1>0. AllocationInv /\ EditsInv /\ code' = code
      /\ UNCHANGED <<passHelpers, shadow, helperCounter, tempCounter>>
  BY DEF NamesInv, Keep, NoNewName
<1>1. Handed
  BY <1>0, NothingHanded DEF AllocationInv
<1>2. PICK n : n = NewName("match", 0)
  OBVIOUS
<1>3. n \in Name \ NamesInText /\ n.role = "match"
  BY <1>0, <1>2, FreshName DEF TypeOK, AllocationInv, Roles
<1>4. NamesInText' = NamesInText /\ Allocated(n)' /\ RoleFits(kind[s], n.role)
  BY <1>0, <1>3 DEF NamesInText, Allocated, RoleFits
<1>5. ASSUME NEW t \in DOMAIN edits, edits[t] \cap {n} # {} PROVE MayShare(s, t)
  <2>1. kind[t] = "match"
    BY <1>0, <1>3, <1>5 DEF AllocationInv, RoleFits
  <2>2. t \in cut
    BY <1>0, <2>1 DEF EditsInv
  <2>3. t \notin enclosing[s] /\ s \notin enclosing[t]
    BY <2>2, VisitedLast DEF NamesInv
  <2>4. QED
    BY <2>1, <2>3 DEF MayShare
<1>6. \A h \in DOMAIN passHelpers' : h = 0 \/ h \in DOMAIN edits \cup {s}
  BY <1>0 DEF AllocationInv
<1>7. PICK names : names = {n}
  OBVIOUS
<1>8. /\ edits' = Put(edits, s, names) /\ names \in SUBSET Name /\ IsFiniteSet(names)
      /\ \A m \in names : Allocated(m)' /\ RoleFits(kind[s], m.role)
      /\ \A t \in DOMAIN edits : edits[t] \cap names # {} => MayShare(s, t)
  BY <1>2, <1>3, <1>4, <1>5, <1>7, FS_Singleton DEF Emit
<1>9. QED
  BY <1>1, <1>6, <1>8, EditNames

(* A rule that puts no generated name into the text.                       *)
LEMMA NamelessStep ==
  ASSUME TypeOK, NamesInv, NEW s \in Sites, Visiting(s), Keep, NoNewName,
         kind[s] # "match", Emit(s, {}), Walk(s) \/ Skip(s)
  PROVE  NamesInv'
<1>0. AllocationInv /\ code' = code
      /\ UNCHANGED <<passHelpers, shadow, helperCounter, tempCounter>>
  BY DEF NamesInv, Keep, NoNewName
<1>1. Handed
  BY <1>0, NothingHanded DEF AllocationInv
<1>2. PICK names : names = {}
  OBVIOUS
<1>3. /\ edits' = Put(edits, s, names) /\ names \in SUBSET Name /\ IsFiniteSet(names)
      /\ \A h \in DOMAIN passHelpers' : h = 0 \/ h \in DOMAIN edits \cup {s}
  BY <1>0, <1>2, FS_EmptySet DEF Emit, AllocationInv
<1>4. QED
  BY <1>1, <1>2, <1>3, EditNames
LEMMA ForNames ==
  ASSUME TypeOK, NamesInv, NEW s \in Sites, LowerForTarget(s)
  PROVE  NamesInv'
<1>0. AllocationInv
  BY DEF NamesInv
<1>1. PICK n : n = NewName("target", tempCounter)
  OBVIOUS
<1>2. /\ n \in Name \ NamesInText /\ n.role = "target"
      /\ n.number \in Nat /\ n.number >= tempCounter /\ tempCounter \in Nat
  BY <1>0, <1>1, FreshName DEF TypeOK, AllocationInv, Roles
<1>3. \A t \in DOMAIN edits : n \notin edits[t]
  BY <1>0, <1>1, <1>2, FreshInPass DEF Roles
<1>4. /\ Visiting(s) /\ Keep /\ kind[s] \in {"for", "with"} /\ Walk(s)
      /\ UNCHANGED <<passHelpers, shadow, helperCounter>>
      /\ edits' = Put(edits, s, {n}) /\ tempCounter' = n.number + 1
  BY <1>1 DEF LowerForTarget, ForWalks, Emit
<1>5. PICK names : names = {n}
  OBVIOUS
<1>6. IsFiniteSet(names)
  BY <1>5, FS_Singleton
<1>7. /\ names \in SUBSET Name /\ edits' = Put(edits, s, names)
      /\ tempCounter' \in Nat /\ tempCounter <= tempCounter'
      /\ \A m \in names : /\ m \notin NamesInText /\ m.role = "target"
                          /\ m.number < tempCounter'
                          /\ \A t \in DOMAIN edits : m \notin edits[t]
  BY <1>2, <1>3, <1>4, <1>5
<1>8. QED
  BY <1>4, <1>6, <1>7, TargetNames

LEMMA WithNames ==
  ASSUME TypeOK, NamesInv, NEW s \in Sites, LowerWithExitBoundOnce(s)
  PROVE  NamesInv'
<1>0. AllocationInv
  BY DEF NamesInv
<1>1. PICK manager : manager = NewName("target", tempCounter)
  OBVIOUS
<1>2. /\ manager \in Name \ NamesInText /\ manager.role = "target"
      /\ manager.number \in Nat /\ manager.number >= tempCounter /\ tempCounter \in Nat
  BY <1>0, <1>1, FreshName DEF TypeOK, AllocationInv, Roles
<1>3. PICK next \in Nat : next = manager.number + 1
  BY <1>2
<1>4. PICK exit : exit = NewName("target", next)
  OBVIOUS
<1>5. /\ exit \in Name \ NamesInText /\ exit.role = "target"
      /\ exit.number \in Nat /\ exit.number >= next
  BY <1>0, <1>4, FreshName DEF TypeOK, AllocationInv, Roles
<1>6. \A t \in DOMAIN edits : manager \notin edits[t] /\ exit \notin edits[t]
  <2>1. \A t \in DOMAIN edits : manager \notin edits[t]
    BY <1>0, <1>1, <1>2, FreshInPass DEF Roles
  <2>2. tempCounter <= next
    BY <1>2, <1>3
  <2>3. \A t \in DOMAIN edits : exit \notin edits[t]
    BY <1>0, <1>4, <2>2, FreshInPass DEF Roles
  <2>4. QED
    BY <2>1, <2>3
<1>7. /\ Visiting(s) /\ Keep /\ kind[s] \in {"for", "with"} /\ Skip(s)
      /\ UNCHANGED <<passHelpers, shadow, helperCounter>>
      /\ edits' = Put(edits, s, {manager, exit}) /\ tempCounter' = exit.number + 1
  BY <1>1, <1>3, <1>4 DEF LowerWithExitBoundOnce
<1>8. PICK names : names = {manager, exit}
  OBVIOUS
<1>9. IsFiniteSet(names)
  <2>1. IsFiniteSet({manager}) /\ IsFiniteSet({exit})
    BY FS_Singleton
  <2>2. names = {manager} \cup {exit}
    BY <1>8
  <2>3. QED
    BY <2>1, <2>2, FS_Union
<1>10. /\ names \in SUBSET Name /\ edits' = Put(edits, s, names)
       /\ tempCounter' \in Nat /\ tempCounter <= tempCounter'
       /\ \A m \in names : /\ m \notin NamesInText /\ m.role = "target"
                           /\ m.number < tempCounter'
                           /\ \A t \in DOMAIN edits : m \notin edits[t]
  BY <1>2, <1>3, <1>5, <1>6, <1>7, <1>8
<1>11. QED
  BY <1>7, <1>9, <1>10, TargetNames

LEMMA VisitKeepsNames ==
  ASSUME TypeOK, NamesInv, NEW s \in Sites, Visit(s)
  PROVE  NamesInv'
<1>1. CASE LowerDictUnion(s) \/ LowerClassBodyComprehension(s)
  BY <1>1, HelperNames DEF LowerDictUnion, LowerClassBodyComprehension
<1>2. CASE LowerPropertyAccess(s)
  BY <1>2, NamelessStep DEF LowerPropertyAccess
<1>3. CASE LowerClassName(s)
  BY <1>3, ShadowNames DEF LowerClassName
<1>4. CASE LowerDescriptorDecorator(s)
  BY <1>4, NamelessStep, OtherNames DEF LowerDescriptorDecorator, Diagnose
<1>5. CASE LowerForTarget(s)
  BY <1>5, ForNames
<1>6. CASE LowerMatchStatement(s)
  BY <1>6, MatchNames, OtherNames DEF LowerMatchStatement, Diagnose
<1>7. CASE LowerWithExitBoundOnce(s)
  BY <1>7, WithNames
<1>8. CASE DiagnoseUnlowerable(s)
  BY <1>8, OtherNames DEF DiagnoseUnlowerable, Diagnose
<1>9. CASE VisitOther(s)
  BY <1>9, OtherNames DEF VisitOther
<1>10. QED
  BY <1>1, <1>2, <1>3, <1>4, <1>5, <1>6, <1>7, <1>8, <1>9 DEF Visit

LEMMA EndKeepsNames ==
  ASSUME NamesInv, UNCHANGED <<program, code, pass>>
  PROVE  NamesInv'
<1>1. UNCHANGED <<kind, enclosing, code, edits, at, cut, passHelpers, shadow,
                  helperCounter, tempCounter>>
  BY DEF program, pass
<1>2. NamesInText' = NamesInText
  BY <1>1 DEF NamesInText
<1>3. AllocationInv'
  BY <1>1, <1>2 DEF NamesInv, AllocationInv, Allocated, NamesIn
<1>4. EditsInv'
  BY <1>1 DEF NamesInv, EditsInv, MayShare
<1>5. QED
  BY <1>1, <1>3, <1>4 DEF NamesInv, InSourceOrder, NamesAreFresh, Rewritten, MayShare

(* The edits become text: the names in it were in none before.             *)
LEMMA NextPassKeepsNames ==
  ASSUME TypeOK, NamesInv, NextPass
  PROVE  NamesInv'
<1>0. /\ AllocationInv /\ EditsInv /\ NamesAreFresh
      /\ UNCHANGED <<kind, enclosing, touched>> /\ code' = Over(edits, code)
      /\ edits' = Nothing /\ cut' = {} /\ passHelpers' = Nothing /\ shadow' = {}
      /\ helperCounter' = 0 /\ tempCounter' = 0
  BY DEF NamesInv, NextPass, NewCollector, program
<1>1. /\ DOMAIN code' = DOMAIN edits \cup DOMAIN code /\ NamesIn(code')
      /\ \A s \in DOMAIN edits : code'[s] = edits[s]
      /\ \A s \in DOMAIN code \ DOMAIN edits : code'[s] = code[s]
  <2>1. NamesIn(edits) /\ NamesIn(code)
    BY <1>0 DEF AllocationInv
  <2>2. /\ NamesIn(Over(edits, code))
        /\ \A s \in DOMAIN edits : Over(edits, code)[s] = edits[s]
        /\ \A s \in DOMAIN code \ DOMAIN edits : Over(edits, code)[s] = code[s]
    BY <2>1, NamesOfOver
  <2>3. DOMAIN Over(edits, code) = DOMAIN edits \cup DOMAIN code
    BY DomainOfOver
  <2>4. NamesIn(code') = NamesIn(Over(edits, code))
    BY <1>0 DEF NamesIn
  <2>5. QED
    BY <1>0, <2>2, <2>3, <2>4
<1>2. AllocationInv'
  <2>1. \A s \in DOMAIN code' : \A n \in code'[s] : RoleFits(kind[s], n.role)
    BY <1>0, <1>1 DEF AllocationInv
  <2>2. NamesIn(edits') /\ NamesIn(passHelpers')
    BY <1>0, NamesOfNothing DEF NamesIn
  <2>3. DOMAIN edits' = {} /\ DOMAIN passHelpers' = {}
    BY <1>0, DomainOfNothing
  <2>4. QED
    BY <1>0, <1>1, <2>1, <2>2, <2>3, FS_EmptySet DEF AllocationInv
<1>3. EditsInv'
  BY <1>0, DomainOfNothing DEF EditsInv
<1>4. NamesAreFresh'
  <2>1. \A s \in DOMAIN edits : edits[s] \cap NamesInText = {}
    BY <1>0 DEF AllocationInv, Allocated
  <2>2. UserNames \subseteq NamesInText /\ \A s \in DOMAIN code : code[s] \subseteq NamesInText
    BY DEF NamesInText
  <2>3. \A s \in DOMAIN code' : code'[s] \cap UserNames = {}
    BY <1>0, <1>1, <2>1, <2>2 DEF NamesAreFresh, Rewritten, TypeOK
  <2>4. ASSUME NEW s \in DOMAIN code', NEW t \in DOMAIN code', s # t,
               code'[s] \cap code'[t] # {}
        PROVE  MayShare(s, t)
    <3>1. CASE s \in DOMAIN edits /\ t \in DOMAIN edits
      BY <1>0, <1>1, <2>4, <3>1 DEF EditsInv
    <3>2. CASE s \notin DOMAIN edits /\ t \notin DOMAIN edits
      BY <1>0, <1>1, <2>4, <3>2 DEF NamesAreFresh, Rewritten, TypeOK
    <3>3. CASE s \in DOMAIN edits /\ t \notin DOMAIN edits
      BY <1>1, <2>1, <2>2, <2>4, <3>3
    <3>4. CASE s \notin DOMAIN edits /\ t \in DOMAIN edits
      BY <1>1, <2>1, <2>2, <2>4, <3>4
    <3>5. QED
      BY <3>1, <3>2, <3>3, <3>4
  <2>5. QED
    BY <1>0, <2>3, <2>4 DEF NamesAreFresh, Rewritten, MayShare
<1>5. QED
  BY <1>0, <1>2, <1>3, <1>4 DEF NamesInv, InSourceOrder

LEMMA NamesInit == Init => NamesInv
<1> SUFFICES ASSUME Init PROVE NamesInv
  OBVIOUS
<1>1. DOMAIN code = {} /\ DOMAIN edits = {} /\ DOMAIN passHelpers = {}
      /\ NamesIn(code) /\ NamesIn(edits) /\ NamesIn(passHelpers)
  BY DomainOfNothing, NamesOfNothing DEF Init, NamesIn
<1>2. AllocationInv /\ EditsInv
  BY <1>1, FS_EmptySet DEF Init, AllocationInv, EditsInv
<1>3. NamesAreFresh
  BY <1>1 DEF NamesAreFresh, Rewritten
<1>4. QED
  BY <1>2, <1>3 DEF Init, NamesInv

LEMMA NamesStep == IInv /\ NamesInv /\ [Next]_vars => NamesInv'
<1> SUFFICES ASSUME TypeOK, NamesInv, [Next]_vars PROVE NamesInv'
  BY DEF IInv
<1>1. CASE Return \/ RefuseEdits \/ UNCHANGED vars
  BY <1>1, EndKeepsNames DEF Return, RefuseEdits, vars
<1>2. QED
  BY <1>1, VisitKeepsNames, NextPassKeepsNames DEF Next

LEMMA NamesInductive == Spec => []NamesInv
  BY LoweringInductive, NamesInit, NamesStep, PTL DEF Spec

(* Whatever the program, whatever generated-looking names it already holds *)
(* and however its rules nest: a name that lower_source generates is none  *)
(* of the program's, and two sites have one in common only where they are  *)
(* meant to, the users of one helper or shadow and match statements that   *)
(* are not inside one another.                                             *)
THEOREM GeneratedNamesAreFresh == Spec => []NamesAreFresh
<1>1. NamesInv => NamesAreFresh
  BY DEF NamesInv
<1>2. QED
  BY <1>1, NamesInductive, PTL
-------------------------------------------------------------------------------
(* One pass is consistent *)

LEMMA LeavesHold ==
  ASSUME TypeOK, InSourceOrder(enclosing), WellFormed,
         NEW s \in Sites, NEW t \in enclosing[s]
  PROVE  kind[t] \notin Leaves
<1> DEFINE Wrong == {r \in Sites : \E u \in enclosing[r] : kind[u] \in Leaves}
<1> SUFFICES ASSUME Wrong # {} PROVE FALSE
  OBVIOUS
<1>1. PICK r \in Wrong : \A m \in Wrong : r <= m
  <2>1. Wrong \in SUBSET Nat
    BY DEF Sites
  <2> HIDE DEF Wrong
  <2>2. QED
    BY <2>1, LeastNumber
<1>2. r \in Sites /\ enclosing[r] # {} /\ r # 1
  BY <1>1 DEF InSourceOrder
<1>3. PICK u \in enclosing[r - 1] \cup {r - 1} : enclosing[r] = enclosing[u] \cup {u}
  BY <1>2 DEF InSourceOrder
<1>4. u \in enclosing[r] /\ u \in Sites /\ enclosing[r] \subseteq Nat
  BY <1>2, <1>3 DEF TypeOK, Sites
<1>5. u < r /\ \A x \in enclosing[u] : x < u
  BY <1>2, <1>4, Ancestors
<1>6. Parent(r) = u
  <2>1. \A x \in enclosing[r] : x <= u
    BY <1>3, <1>4, <1>5
  <2>2. \A x \in enclosing[r] : (\A y \in enclosing[r] : y <= x) => x = u
    BY <1>4, <2>1
  <2>3. QED
    BY <1>2, <1>4, <2>1, <2>2 DEF Parent
<1>7. kind[u] \notin Leaves
  BY <1>2, <1>4, <1>6 DEF WellFormed, Sites
<1>8. u \in Wrong
  BY <1>1, <1>3, <1>4, <1>7
<1>9. QED
  BY <1>1, <1>2, <1>4, <1>5, <1>8 DEF Sites

LEMMA NoRuleAround ==
  ASSUME TypeOK, ReachedAtOnce, NEW s \in Sites, NEW t \in enclosing[s]
  PROVE  kind[t] \notin Cutting \cup {"comprehension"}
<1> DEFINE around == {u \in enclosing[s] : kind[u] \in Cutting}
<1>1. Cardinality(around) = 0 /\ kind[t] # "comprehension"
  BY DEF ReachedAtOnce, Depth
<1>2. IsFiniteSet(around)
  <2>1. IsFiniteSet(Sites) /\ around \in SUBSET Sites
    BY SizeAssumption, FS_Interval DEF Sites, TypeOK
  <2> HIDE DEF around
  <2>2. QED
    BY <2>1, FS_Subset
<1>3. around = {}
  <2> HIDE DEF around
  <2>1. QED
    BY <1>1, <1>2, FS_EmptySet
<1>4. QED
  BY <1>1, <1>3

(* What the walk reaches is in no generator expression: the walk would     *)
(* have reached that first, and not entered it.                            *)
LEMMA OutsideGenerators ==
  ASSUME TypeOK, OnePassInv, NEW s \in Sites, Reached(s),
         \A r \in Sites : r < s /\ Reached(r) => r < at
  PROVE  ~InGenerator(s)
<1> SUFFICES ASSUME NEW g \in enclosing[s], kind[g] = "generator" PROVE FALSE
  BY DEF InGenerator
<1>1. g \in Sites /\ g < s /\ enclosing[g] \subseteq enclosing[s]
  BY Ancestors DEF TypeOK, OnePassInv
<1>2. Reached(g)
  BY <1>1 DEF Reached, Hoisted
<1>3. g \in cut
  BY <1>1, <1>2 DEF OnePassInv
<1>4. QED
  BY <1>3 DEF Reached

(* The shapes of a visit: a helper is asked for, a shadow, a site is       *)
(* rewritten without either, or no site is.                                *)
Asks(s) == OfHelper(s) /\ ~Rewritten(s) /\ RequestHelper(s)
Shadows(s) == OfName(s) /\ ~Rewritten(s) /\ ClassNameShadow(s)
Rewrites(s) ==
    /\ ~OfHelper(s) /\ ~OfName(s) /\ HasRule(s) /\ (kind[s] = "property" \/ ~Rewritten(s))
    /\ \E names : edits' = Put(edits, s, names)
    /\ UNCHANGED <<passHelpers, shadow>>
LeavesAlone(s) ==
    /\ kind[s] = "property" => ~IsProperty
    /\ UNCHANGED <<edits, passHelpers, shadow>>

LEMMA VisitShape ==
  ASSUME IInv, NEW s \in Sites, Visit(s)
  PROVE  /\ Visiting(s) /\ Keep /\ at' = s + 1
         /\ \/ cut' = cut /\ kind[s] # "generator"
            \/ /\ cut' = cut \cup {s}
               /\ kind[s] \in Cutting \cup {"comprehension", "property", "name_get", "generator"}
         /\ Asks(s) \/ Shadows(s) \/ Rewrites(s) \/ LeavesAlone(s)
<1> USE DEF Walk, Skip
<1>0. kind[s] \in NeverLowered => ~Rewritten(s)
  BY DEF IInv, AppliedInv
<1>1. CASE LowerDictUnion(s) \/ LowerClassBodyComprehension(s)
  BY <1>1 DEF LowerDictUnion, LowerClassBodyComprehension, Asks, OfHelper, Cutting
<1>2. CASE LowerPropertyAccess(s)
  BY <1>2 DEF LowerPropertyAccess, Rewrites, OfHelper, OfName, HasRule, NeverLowered, Emit,
              NoNewName
<1>3. CASE LowerClassName(s)
  BY <1>3 DEF LowerClassName, Shadows, OfName, Cutting
<1>4. CASE LowerDescriptorDecorator(s)
  BY <1>4 DEF LowerDescriptorDecorator, Rewrites, LeavesAlone, OfHelper, OfName, HasRule,
              NeverLowered, Emit, Diagnose, NoNewName
<1>5. CASE LowerForTarget(s)
  BY <1>5 DEF LowerForTarget, ForWalks, Rewrites, OfHelper, OfName, HasRule, NeverLowered, Emit
<1>6. CASE LowerMatchStatement(s)
  BY <1>6 DEF LowerMatchStatement, Rewrites, LeavesAlone, OfHelper, OfName, HasRule,
              NeverLowered, Emit, Diagnose, NoNewName, Cutting
<1>7. CASE LowerWithExitBoundOnce(s)
  <2>1. \E names : edits' = Put(edits, s, names)
    BY <1>7 DEF LowerWithExitBoundOnce
  <2>2. QED
    BY <1>7, <2>1 DEF LowerWithExitBoundOnce, Rewrites, OfHelper, OfName, HasRule,
                      NeverLowered, Cutting
<1>8. CASE DiagnoseUnlowerable(s)
  BY <1>8 DEF DiagnoseUnlowerable, LeavesAlone, Diagnose, NoNewName
<1>9. CASE VisitOther(s)
  BY <1>0, <1>9 DEF VisitOther, LeavesAlone, NoNewName, NeverLowered
<1>10. QED
  BY <1>1, <1>2, <1>3, <1>4, <1>5, <1>6, <1>7, <1>8, <1>9 DEF Visit

LEMMA VisitedBefore ==
  ASSUME TypeOK, NEW s \in Sites, Visiting(s)
  PROVE  \A r \in Sites : r < s /\ Reached(r) => r < at
<1> SUFFICES ASSUME NEW r \in Sites, r < s, Reached(r), ~(r < at) PROVE FALSE
  OBVIOUS
<1>1. r \in Nat /\ s \in Nat /\ at \in Nat
  BY SizeAssumption DEF Sites, TypeOK
<1>2. r \in ToVisit
  BY <1>1 DEF ToVisit
<1>3. QED
  BY <1>1, <1>2 DEF Visiting

(* In the first pass the class whose property is accessed is as written.   *)
LEMMA PropertyOfTheSource ==
  ASSUME WellFormed, DOMAIN code = {}, NEW s \in Sites, kind[s] = "property"
  PROVE  IsProperty
  BY DEF WellFormed, IsProperty, Rewritten

LEMMA FirstPassVisit ==
  ASSUME TypeOK, FirstPassInv, EditsInv, InSourceOrder(enclosing), WellFormed,
         NEW s \in Sites, Visiting(s),
         DOMAIN code = {}, at' = s + 1, \A r \in Sites : Reached(r)' => Reached(r),
         UNCHANGED <<kind, enclosing, code, helpers, outcome>>,
         Asks(s) \/ Shadows(s) \/ Rewrites(s) \/ LeavesAlone(s)
  PROVE  FirstPassInv'
<1>0. /\ s \notin DOMAIN edits /\ DOMAIN edits \subseteq Sites /\ s \in Nat /\ s # 0
      /\ \A r \in Sites : HelperKind(r)' = HelperKind(r) /\ OfHelper(r)' = OfHelper(r)
                          /\ OfName(r)' = OfName(r)
  BY VisitedLast DEF TypeOK, Sites, HelperKind, OfHelper, OfName
<1>1. SameHelpers(edits, passHelpers)' /\ \A r \in DOMAIN edits' : r \in Sites
  <2>1. CASE Asks(s)
    <3> DEFINE h == HelperKind(s)
    <3>1. CASE /\ h \in DOMAIN passHelpers /\ edits' = Put(edits, s, passHelpers[h])
               /\ passHelpers' = passHelpers
      <4>1. \A r \in DOMAIN edits : OfHelper(r) =>
              HelperKind(r) \in DOMAIN passHelpers /\ edits[r] = passHelpers[HelperKind(r)]
        BY DEF FirstPassInv, SameHelpers
      <4>2. /\ DOMAIN edits' = DOMAIN edits \cup {s} /\ edits'[s] = passHelpers[h]
            /\ \A r \in DOMAIN edits : edits'[r] = edits[r]
        BY <1>0, <3>1 DEF Put, Over
      <4>3. QED
        BY <1>0, <3>1, <4>1, <4>2 DEF SameHelpers
    <3>2. CASE \E names : /\ h \notin DOMAIN passHelpers /\ edits' = Put(edits, s, names)
                          /\ passHelpers' = Put(passHelpers, h, names)
      <4>1. \A r \in DOMAIN edits : OfHelper(r) =>
              HelperKind(r) \in DOMAIN passHelpers /\ edits[r] = passHelpers[HelperKind(r)]
        BY DEF FirstPassInv, SameHelpers
      <4>2. PICK names : /\ h \notin DOMAIN passHelpers /\ edits' = Put(edits, s, names)
                         /\ passHelpers' = Put(passHelpers, h, names)
        BY <3>2
      <4>3. /\ DOMAIN edits' = DOMAIN edits \cup {s} /\ edits'[s] = names
            /\ \A r \in DOMAIN edits : edits'[r] = edits[r]
            /\ DOMAIN passHelpers' = DOMAIN passHelpers \cup {h} /\ passHelpers'[h] = names
            /\ \A r \in DOMAIN passHelpers : passHelpers'[r] = passHelpers[r]
        BY <1>0, <4>2 DEF Put, Over
      <4>4. QED
        BY <1>0, <4>1, <4>3 DEF SameHelpers
    <3>3. QED
      BY <2>1, <3>1, <3>2 DEF Asks, RequestHelper, Emit
  <2>2. CASE Shadows(s) \/ Rewrites(s)
    <3>1. /\ passHelpers' = passHelpers /\ ~OfHelper(s)
          /\ \E names : edits' = Put(edits, s, names)
      BY <2>2 DEF Shadows, Rewrites, ClassNameShadow, Emit, OfName, OfHelper
    <3>2. QED
      BY <1>0, <3>1 DEF FirstPassInv, SameHelpers, Put, Over
  <2>3. CASE LeavesAlone(s)
    BY <1>0, <2>3 DEF FirstPassInv, SameHelpers, LeavesAlone
  <2>4. QED
    BY <2>1, <2>2, <2>3
<1>2. \A r \in DOMAIN edits' : OfName(r)' => shadow' # {} /\ edits'[r] = shadow'
  <2>1. CASE Asks(s) \/ Rewrites(s)
    <3>1. /\ shadow' = shadow /\ ~OfName(s)
          /\ \E names : edits' = Put(edits, s, names)
      BY <2>1 DEF Asks, Rewrites, RequestHelper, Emit, OfName, OfHelper
    <3>2. QED
      BY <1>0, <3>1 DEF FirstPassInv, Put, Over
  <2>2. CASE Shadows(s)
    <3>1. \/ shadow # {} /\ shadow' = shadow /\ edits' = Put(edits, s, shadow)
          \/ \E n : shadow = {} /\ shadow' = {n} /\ edits' = Put(edits, s, {n})
      BY <2>2 DEF Shadows, ClassNameShadow, Emit
    <3>2. QED
      BY <1>0, <3>1 DEF FirstPassInv, Put, Over
  <2>3. CASE LeavesAlone(s)
    BY <1>0, <2>3 DEF FirstPassInv, LeavesAlone
  <2>4. QED
    BY <2>1, <2>2, <2>3
<1>3. ASSUME NEW r \in Sites, r < at', kind[r] = "property", Reached(r)'
      PROVE  r \in DOMAIN edits'
  <2>1. Reached(r) /\ IsProperty
    BY <1>3, PropertyOfTheSource
  <2>2. DOMAIN edits \subseteq DOMAIN edits'
        /\ (kind[s] = "property" => s \in DOMAIN edits')
    <3>1. \/ \E names : edits' = Put(edits, s, names)
          \/ edits' = edits /\ kind[s] # "property"
      BY <2>1
      DEF Asks, Shadows, Rewrites, LeavesAlone, RequestHelper, ClassNameShadow, Emit
    <3>2. \A names : DOMAIN Put(edits, s, names) = DOMAIN edits \cup {s}
      BY DomainOfPut
    <3>3. QED
      BY <3>1, <3>2
  <2>3. CASE r = s
    BY <1>3, <2>2, <2>3
  <2>4. CASE r # s
    <3>1. r < s
      BY <1>0, <1>3, <2>4 DEF Sites
    <3>2. r < at
      BY <2>1, <3>1, VisitedBefore
    <3>3. QED
      BY <1>3, <2>1, <2>2, <3>2 DEF FirstPassInv
  <2>5. QED
    BY <2>3, <2>4
<1>4. QED
  BY <1>1, <1>2, <1>3 DEF FirstPassInv

LEMMA LaterPassVisit ==
  ASSUME TypeOK, OnePassInv, LaterPassInv, NEW s \in Sites, Visiting(s),
         UNCHANGED <<kind, enclosing, code, helpers>>,
         Asks(s) \/ Shadows(s) \/ Rewrites(s) \/ LeavesAlone(s)
  PROVE  LaterPassInv'
<1>1. ~InGenerator(s)
  BY OutsideGenerators, VisitedBefore DEF Visiting, ToVisit
<1>2. HasRule(s) => Rewritten(s)
  BY <1>1 DEF LaterPassInv
<1>3. ~Asks(s) /\ ~Shadows(s)
  BY <1>2 DEF Asks, Shadows, OfHelper, OfName, HasRule, NeverLowered
<1>4. /\ passHelpers' = passHelpers
      /\ edits' = edits \/ (kind[s] = "property" /\ \E names : edits' = Put(edits, s, names))
  <2>1. CASE Rewrites(s)
    <3>1. HasRule(s) /\ (kind[s] = "property" \/ ~Rewritten(s))
      BY <2>1 DEF Rewrites
    <3>2. kind[s] = "property"
      BY <1>2, <3>1
    <3>3. QED
      BY <2>1, <3>2 DEF Rewrites
  <2>2. CASE LeavesAlone(s)
    BY <2>2 DEF LeavesAlone
  <2>3. QED
    BY <1>3, <2>1, <2>2
<1>5. \A r \in DOMAIN edits' : kind[r] = "property"
  <2>1. \A names : DOMAIN Put(edits, s, names) = DOMAIN edits \cup {s}
    BY DomainOfPut
  <2>2. QED
    BY <1>4, <2>1 DEF LaterPassInv
<1>6. QED
  BY <1>4, <1>5 DEF LaterPassInv, HasRule, Rewritten, InGenerator, SameHelpers, HelperKind,
                    OfHelper, OfName
LEMMA ProgramKept ==
  ASSUME UNCHANGED <<kind, enclosing, touched>>
  PROVE  /\ InSourceOrder(enclosing)' = InSourceOrder(enclosing)
         /\ WellFormed' = WellFormed /\ ReachedAtOnce' = ReachedAtOnce
  BY DEF InSourceOrder, WellFormed, Parent, ReachedAtOnce, Depth

LEMMA VisitKeepsOnePass ==
  ASSUME IInv, NamesInv, OnePassInv, NEW s \in Sites, Visit(s)
  PROVE  OnePassInv'
<1>0. TypeOK /\ EditsInv
  BY DEF IInv, NamesInv
<1>1. /\ Visiting(s) /\ at' = s + 1
      /\ UNCHANGED <<kind, enclosing, touched, code, helpers, outcome>>
      /\ Asks(s) \/ Shadows(s) \/ Rewrites(s) \/ LeavesAlone(s)
  BY VisitShape DEF Keep, program
<1>2. \/ cut' = cut /\ kind[s] # "generator"
      \/ /\ cut' = cut \cup {s}
         /\ kind[s] \in Cutting \cup {"comprehension", "property", "name_get", "generator"}
  BY VisitShape
<1>3. InSourceOrder(enclosing)' /\ WellFormed' /\ ReachedAtOnce' = ReachedAtOnce
  BY <1>1, ProgramKept DEF OnePassInv
<1>4. \A r \in Sites : Reached(r)' => Reached(r)
  BY <1>1, <1>2 DEF Reached, Hoisted, Rewritten
<1>5. \A r \in cut' : kind[r] \in Cutting \cup {"comprehension", "property", "name_get",
                                                 "generator"}
  BY <1>2 DEF OnePassInv
<1>6. ASSUME NEW r \in Sites, r < at', kind[r] = "generator", Reached(r)' PROVE r \in cut'
  <2>1. Reached(r)
    BY <1>4, <1>6
  <2>2. CASE r = s
    BY <1>2, <1>6, <2>2
  <2>3. CASE r # s
    <3>1. r < s
      BY <1>1, <1>6, <2>3 DEF Sites
    <3>2. r < at
      BY <1>0, <1>1, <2>1, <3>1, VisitedBefore
    <3>3. QED
      BY <1>2, <1>6, <2>1, <3>2 DEF OnePassInv
  <2>4. QED
    BY <2>2, <2>3
<1>7. ReachedAtOnce => IF DOMAIN code = {} THEN FirstPassInv' ELSE LaterPassInv'
  <2>1. ASSUME ReachedAtOnce, DOMAIN code = {} PROVE FirstPassInv'
    BY <1>0, <1>1, <1>4, <2>1, FirstPassVisit DEF OnePassInv
  <2>2. ASSUME ReachedAtOnce, DOMAIN code # {} PROVE LaterPassInv'
    BY <1>0, <1>1, <2>2, LaterPassVisit DEF OnePassInv
  <2>3. QED
    BY <2>1, <2>2
<1>8. QED
  BY <1>1, <1>3, <1>5, <1>6, <1>7 DEF OnePassInv

(* At the end of the first pass only what is inside a generator expression *)
(* is as written.                                                          *)
LEMMA FirstPassComplete ==
  ASSUME IInv, OnePassInv, ReachedAtOnce, DOMAIN code = {}, ToVisit = {},
         NEW s \in Sites, HasRule(s), s \notin DOMAIN edits
  PROVE  InGenerator(s)
<1>0. TypeOK /\ FirstPassInv
  BY DEF IInv, OnePassInv
<1>1. ~Rewritten(s) /\ ~Hoisted(s)
  BY DEF Rewritten, Hoisted
<1>2. ~Reached(s)
  <2> SUFFICES ASSUME Reached(s) PROVE FALSE
    OBVIOUS
  <2>1. s < at
    BY <1>0, SizeAssumption DEF ToVisit, Sites, TypeOK
  <2>2. s \in DOMAIN edits \/ Reported(s) \/ kind[s] = "property"
    BY <1>1, <2>1 DEF IInv, WalkInv, HasRule
  <2>3. ~Reported(s)
    BY DEF IInv, AppliedInv, HasRule
  <2>4. QED
    BY <1>0, <2>1, <2>2, <2>3 DEF FirstPassInv
<1>3. PICK g \in enclosing[s] : g \in cut
  BY <1>1, <1>2 DEF Reached
<1>4. kind[g] \notin Cutting \cup {"comprehension"} /\ kind[g] \notin Leaves
  BY <1>0, NoRuleAround, LeavesHold DEF OnePassInv
<1>5. kind[g] = "generator"
  BY <1>3, <1>4 DEF OnePassInv, Leaves
<1>6. QED
  BY <1>5 DEF InGenerator

LEMMA NextPassKeepsOnePass ==
  ASSUME IInv, OnePassInv, NextPass
  PROVE  OnePassInv'
<1>0. /\ TypeOK /\ ToVisit = {} /\ DOMAIN edits # {} /\ UNCHANGED <<kind, enclosing, touched>>
      /\ code' = Over(edits, code) /\ helpers' = Over(helpers, passHelpers)
      /\ edits' = Nothing /\ at' = 1 /\ cut' = {} /\ passHelpers' = Nothing
      /\ outcome = "running"
  BY DEF IInv, NextPass, PassEnds, NewCollector, program, Merged
<1>1. /\ DOMAIN code' = DOMAIN edits \cup DOMAIN code /\ DOMAIN code' # {}
      /\ \A s \in DOMAIN edits : code'[s] = edits[s]
      /\ \A s \in DOMAIN code \ DOMAIN edits : code'[s] = code[s]
      /\ DOMAIN helpers' = DOMAIN passHelpers \cup DOMAIN helpers
      /\ \A h \in DOMAIN helpers : helpers'[h] = helpers[h]
      /\ \A h \in DOMAIN passHelpers \ DOMAIN helpers : helpers'[h] = passHelpers[h]
  BY <1>0 DEF Over
<1>2. InSourceOrder(enclosing)' /\ WellFormed' /\ ReachedAtOnce' = ReachedAtOnce
      /\ \A s \in Sites : ~(s < at')
  BY <1>0, ProgramKept DEF OnePassInv, Sites
<1>3. \A s \in Sites : /\ HelperKind(s)' = HelperKind(s) /\ OfHelper(s)' = OfHelper(s)
                       /\ OfName(s)' = OfName(s) /\ HasRule(s)' = HasRule(s)
                       /\ InGenerator(s)' = InGenerator(s)
                       /\ Rewritten(s)' = (s \in DOMAIN code')
      /\ DOMAIN code' \subseteq Sites
  BY <1>0, <1>1
  DEF HelperKind, OfHelper, OfName, HasRule, InGenerator, Rewritten, TypeOK
<1>4. ASSUME ReachedAtOnce PROVE LaterPassInv'
  <2>1. /\ \A s \in Sites : HasRule(s) /\ s \notin DOMAIN code' => InGenerator(s)
        /\ \A s \in DOMAIN code' : OfHelper(s) =>
             HelperKind(s) \in DOMAIN helpers' /\ code'[s] = helpers'[HelperKind(s)]
        /\ \A s, t \in DOMAIN code' : OfName(s) /\ OfName(t) => code'[s] = code'[t]
    <3>1. CASE DOMAIN code = {}
      <4>0. FirstPassInv /\ DOMAIN helpers = {} /\ DOMAIN code' = DOMAIN edits
        BY <1>0, <1>1, <1>4, <3>1, DomainOfNothing DEF OnePassInv, FirstPassInv
      <4>1. \A s \in Sites : HasRule(s) /\ s \notin DOMAIN code' => InGenerator(s)
        BY <1>0, <1>4, <3>1, <4>0, FirstPassComplete
      <4>2. \A s \in DOMAIN edits : OfHelper(s) =>
               HelperKind(s) \in DOMAIN passHelpers /\ edits[s] = passHelpers[HelperKind(s)]
        BY <4>0 DEF FirstPassInv, SameHelpers
      <4>3. \A s \in DOMAIN edits : OfName(s) => edits[s] = shadow
        BY <4>0 DEF FirstPassInv
      <4>4. QED
        BY <1>1, <4>0, <4>1, <4>2, <4>3
    <3>2. CASE DOMAIN code # {}
      <4>0. LaterPassInv /\ DOMAIN passHelpers = {}
        BY <1>4, <3>2, DomainOfNothing DEF OnePassInv, LaterPassInv
      <4>1. \A s \in Sites : HasRule(s) /\ s \notin DOMAIN code' => InGenerator(s)
        BY <1>1, <4>0 DEF LaterPassInv, Rewritten
      <4>2. \A s \in DOMAIN code' : OfHelper(s) \/ OfName(s)
                => s \in DOMAIN code /\ code'[s] = code[s]
        BY <1>1, <4>0 DEF LaterPassInv, OfHelper, OfName
      <4>3. \A s \in DOMAIN code : OfHelper(s) =>
               HelperKind(s) \in DOMAIN helpers /\ code[s] = helpers[HelperKind(s)]
        BY <4>0 DEF LaterPassInv, SameHelpers
      <4>4. \A s, t \in DOMAIN code : OfName(s) /\ OfName(t) => code[s] = code[t]
        BY <4>0 DEF LaterPassInv
      <4>5. QED
        BY <1>1, <4>0, <4>1, <4>2, <4>3, <4>4
    <3>3. QED
      BY <3>1, <3>2
  <2>2. \A s \in Sites : HasRule(s)' /\ ~Rewritten(s)' => InGenerator(s)'
    BY <1>3, <2>1
  <2>3. \A s \in DOMAIN code' : OfHelper(s)' =>
          HelperKind(s)' \in DOMAIN helpers' /\ code'[s] = helpers'[HelperKind(s)']
    BY <1>0, <2>1 DEF OfHelper, HelperKind
  <2>4. \A s, t \in DOMAIN code' : OfName(s)' /\ OfName(t)' => code'[s] = code'[t]
    BY <1>0, <2>1 DEF OfName
  <2>5. SameHelpers(code, helpers)'
    BY <2>3 DEF SameHelpers
  <2>6. QED
    BY <1>0, <2>2, <2>4, <2>5, DomainOfNothing DEF LaterPassInv
<1>5. QED
  BY <1>0, <1>1, <1>2, <1>4 DEF OnePassInv

LEMMA EndKeepsOnePass ==
  ASSUME OnePassInv, UNCHANGED <<program, code, pass>>,
         \/ UNCHANGED <<helpers, outcome>>
         \/ outcome' # "running" /\ (helpers' = helpers \/ helpers' = Merged)
  PROVE  OnePassInv'
<1>1. UNCHANGED <<kind, enclosing, touched, code, edits, at, cut, passHelpers, shadow>>
  BY DEF program, pass
<1>2. InSourceOrder(enclosing)' /\ WellFormed' /\ ReachedAtOnce' = ReachedAtOnce
  BY <1>1, ProgramKept DEF OnePassInv
<1>3. \A s \in Sites : Reached(s)' = Reached(s) /\ Rewritten(s)' = Rewritten(s)
  BY <1>1 DEF Reached, Hoisted, Rewritten
<1>4. FirstPassInv => FirstPassInv'
  BY <1>1, <1>3 DEF FirstPassInv, SameHelpers, HelperKind, OfHelper, OfName
<1>5. ASSUME LaterPassInv PROVE LaterPassInv'
  <2>1. DOMAIN helpers' = DOMAIN helpers /\ \A h \in DOMAIN helpers : helpers'[h] = helpers[h]
    BY <1>5 DEF LaterPassInv, Merged, Over, Nothing
  <2>2. SameHelpers(code, helpers)'
    BY <1>1, <1>5, <2>1 DEF LaterPassInv, SameHelpers, HelperKind, OfHelper
  <2>3. QED
    BY <1>1, <1>3, <1>5, <2>2 DEF LaterPassInv, HasRule, InGenerator, OfName
<1>6. QED
  BY <1>1, <1>2, <1>3, <1>4, <1>5 DEF OnePassInv

LEMMA OnePassInit == Init => OnePassInv
<1> SUFFICES ASSUME Init PROVE OnePassInv
  OBVIOUS
<1>1. DOMAIN code = {} /\ DOMAIN edits = {} /\ at = 1 /\ cut = {}
      /\ InSourceOrder(enclosing) /\ WellFormed
  BY DomainOfNothing DEF Init
<1>2. FirstPassInv
  BY <1>1 DEF Init, FirstPassInv, SameHelpers, Sites
<1>3. QED
  BY <1>1, <1>2 DEF OnePassInv, Sites

LEMMA OnePassStep == IInv /\ NamesInv /\ OnePassInv /\ [Next]_vars => OnePassInv'
<1> SUFFICES ASSUME IInv, NamesInv, OnePassInv, [Next]_vars PROVE OnePassInv'
  OBVIOUS
<1>1. CASE Return \/ RefuseEdits \/ UNCHANGED vars
  BY <1>1, EndKeepsOnePass DEF Return, RefuseEdits, vars
<1>2. QED
  BY <1>1, VisitKeepsOnePass, NextPassKeepsOnePass DEF Next

LEMMA OnePassInductive == Spec => []OnePassInv
  BY LoweringInductive, NamesInductive, OnePassInit, OnePassStep, PTL DEF Spec

LEMMA Consistent ==
  ASSUME IInv, OnePassInv, ReachedAtOnce
  PROVE  HelpersAreDefined /\ AccessFollowsDescriptor /\ OneShadowOfTheName
<1>0. DOMAIN code \subseteq Sites /\ TypeOK
  BY DEF IInv, TypeOK
<1>1. CASE DOMAIN code = {}
  <2>1. HelpersAreDefined /\ AccessFollowsDescriptor
    BY <1>1 DEF HelpersAreDefined, AccessFollowsDescriptor, Rewritten
  <2>2. ASSUME Accepted, NEW s \in Sites, NEW t \in Sites,
               kind[s] = "name_set", kind[t] = "name_get", code[s] # code[t]
        PROVE  FALSE
    <3>1. ~Rewritten(s) /\ ~Hoisted(s)
      BY <1>1 DEF Rewritten, Hoisted
    <3>2. \E d \in diagnostics : d[2] # "applied"
      BY <2>2, <3>1 DEF IInv, NothingSilentInText, Accepted
    <3>3. QED
      BY <2>2, <3>2 DEF Accepted
  <2>3. QED
    BY <2>1, <2>2 DEF OneShadowOfTheName
<1>2. CASE DOMAIN code # {}
  <2>0. LaterPassInv
    BY <1>2 DEF OnePassInv
  <2>1. HelpersAreDefined
    BY <2>0 DEF HelpersAreDefined, LaterPassInv, SameHelpers, OfHelper, Rewritten
  <2>2. ASSUME Accepted, NEW t \in Sites, HasRule(t) PROVE Rewritten(t)
    <3> SUFFICES ASSUME ~Rewritten(t) PROVE FALSE
      OBVIOUS
    <3>1. PICK g \in enclosing[t] : kind[g] = "generator"
      BY <2>0, <2>2 DEF LaterPassInv, InGenerator
    <3>2. g \in Sites
      BY <1>0 DEF TypeOK
    <3>3. ~Rewritten(g) /\ ~Hoisted(g)
      BY <3>1, <3>2 DEF IInv, AppliedInv, NeverLowered, ReachedAtOnce, Hoisted
    <3>4. \E d \in diagnostics : d[2] # "applied"
      BY <2>2, <3>1, <3>2, <3>3 DEF IInv, NothingSilentInText, Accepted
    <3>5. QED
      BY <2>2, <3>4 DEF Accepted
  <2>3. AccessFollowsDescriptor
    <3> SUFFICES ASSUME Accepted, NEW t \in Sites,
                        kind[t] \in {"property", "property_of_unknown"}
                 PROVE  Rewritten(t)
      BY DEF AccessFollowsDescriptor
    <3>1. HasRule(t)
      BY DEF HasRule, NeverLowered, ReachedAtOnce
    <3>2. QED
      BY <2>2, <3>1
  <2>4. OneShadowOfTheName
    <3> SUFFICES ASSUME Accepted, NEW s \in Sites, NEW t \in Sites,
                        kind[s] = "name_set", kind[t] = "name_get"
                 PROVE  code[s] = code[t]
      BY DEF OneShadowOfTheName
    <3>1. Rewritten(s) /\ Rewritten(t) /\ OfName(s) /\ OfName(t)
      BY <2>2 DEF HasRule, NeverLowered, OfName
    <3>2. QED
      BY <2>0, <3>1 DEF LaterPassInv, Rewritten
  <2>5. QED
    BY <2>1, <2>3, <2>4
<1>3. QED
  BY <1>1, <1>2

(* Of every program whose sites the first pass reaches, generator          *)
(* expressions apart, and whose receivers are known, lower_source keeps    *)
(* what it promises: each helper a rewritten site names is defined, where  *)
(* a property's decorator was removed each access is a call, and the reads *)
(* and assignments of C.__name__ name one variable.                        *)
THEOREM OnePassConsistency == Spec => []OnePassIsConsistent
<1>1. IInv /\ OnePassInv => OnePassIsConsistent
  BY Consistent DEF OnePassIsConsistent
<1>2. QED
  BY <1>1, LoweringInductive, OnePassInductive, PTL

===============================================================================
