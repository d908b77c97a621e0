------------------------------ MODULE PassProofs -----------------------------
(***************************************************************************)
(* Theorems about the parts of one pass that MCRules runs each alone:       *)
(*  - SourceEdits, for any source, any character boundaries and any list of *)
(*    edits;                                                                *)
(*  - TypeFacts, for texts of any length over any classes;                  *)
(*  - ClassHierarchy, for any number of class statements.                   *)
(***************************************************************************)
EXTENDS SourceEdits, TypeFacts, ClassHierarchy, SequenceTheorems,
        FiniteSetTheorems, NaturalsInduction, WellFoundedInduction, TLAPS

-----------------------------------------------------------------------------
(* SourceEdits.                                                             *)

(* What a list of edits gives for an index.                                 *)
LEMMA EditFields ==
  ASSUME EditsTypeOK
  PROVE  /\ Len(edits) \in Nat
         /\ \A i \in 1..Len(edits) :
               /\ edits[i] \in EditType
               /\ edits[i].start \in Nat /\ edits[i].end \in Nat /\ edits[i].id \in Nat \ {0}
<1>1. edits \in Seq(EditType)
  BY DEF EditsTypeOK
<1>2. Len(edits) \in Nat /\ \A i \in 1..Len(edits) : edits[i] \in EditType
  BY <1>1, ElementOfSeq, LenProperties
<1>3. QED
  BY <1>2 DEF EditType

(* The texts in the initial states.                                         *)
LEMMA EditsInitHolds == EditsInit => EditsIInv
<1>1. SUFFICES ASSUME EditsInit PROVE EditsIInv
  OBVIOUS
<1>2. EditsTypeOK
  BY <1>1, SourceAssumption DEF EditsInit, EditsTypeOK, Phases
<1>3. Numbered /\ ValidUpTo(1)
  BY <1>1, <1>2, SourceAssumption, EditFields DEF EditsInit, Numbered, ValidUpTo
<1>4. QED
  BY <1>1, <1>2, <1>3 DEF EditsInit, EditsIInv

LEMMA ValidateKeeps ==
  ASSUME EditsIInv, Validate
  PROVE  EditsIInv'
<1>1. EditsTypeOK'
  BY DEF Validate, EditsIInv, EditsTypeOK
<1>2. ValidUpTo(pos)' /\ Numbered'
  BY EditFields DEF Validate, EditsIInv, EditsTypeOK, ValidUpTo, Numbered, InRange, AtBoundaries
<1>3. QED
  BY <1>1, <1>2 DEF Validate, EditsIInv

LEMMA RejectKeeps ==
  ASSUME EditsIInv, Reject
  PROVE  EditsIInv'
<1>1. phase' \in {"not_a_boundary", "invalid_range"}
  BY DEF Reject
<1>2. EditsTypeOK'
  BY <1>1 DEF Reject, EditsIInv, EditsTypeOK, Phases
<1>3. QED
  BY <1>1, <1>2 DEF EditsIInv

(* The sort keeps every edit, in range, and orders them.                    *)
LEMMA SortKeeps ==
  ASSUME EditsIInv, Sort
  PROVE  EditsIInv'
<1> DEFINE n == Len(edits)
<1>1. PICK order \in [1..n -> 1..n] :
        Sorted(edits, order) /\ edits' = [i \in 1..n |-> edits[order[i]]]
  BY DEF Sort
<1>2. n \in Nat /\ \A i \in 1..n : edits[i] \in EditType
  BY EditFields DEF EditsIInv
<1>3. edits' \in Seq(EditType) /\ Len(edits') = n /\ \A i \in 1..n : edits'[i] = edits[order[i]]
  BY <1>1, <1>2
<1>4. phase' = "compare" /\ pos' = 1 /\ cursor' = 0 /\ output' = <<>> /\ ValidUpTo(pos)
      /\ pos > n /\ Numbered /\ pos \in Nat
  BY DEF Sort, EditsIInv, EditsTypeOK
<1>5. EditsTypeOK'
  BY <1>3, <1>4 DEF EditsIInv, EditsTypeOK, Phases, Sort
<1>6. AllValid'
  <2>1. \A i \in 1..n : InRange(edits[i]) /\ AtBoundaries(edits[i])
    BY <1>2, <1>4 DEF ValidUpTo
  <2>2. \A i \in 1..n : InRange(edits'[i]) /\ AtBoundaries(edits'[i])
    BY <1>1, <1>3, <2>1
  <2>3. QED
    BY <1>3, <2>2 DEF AllValid, ValidUpTo, InRange, AtBoundaries
<1>7. InOrder'
  <2>1. SUFFICES ASSUME NEW i \in 1..n, NEW j \in 1..n, i < j
                 PROVE  \/ edits'[i].start < edits'[j].start
                        \/ edits'[i].start = edits'[j].start /\ edits'[i].end < edits'[j].end
                        \/ /\ edits'[i].start = edits'[j].start /\ edits'[i].end = edits'[j].end
                           /\ edits'[i].id < edits'[j].id
    BY <1>3 DEF InOrder
  <2>2. order[i] \in 1..n /\ order[j] \in 1..n /\ Before(edits, order[i], order[j])
    BY <1>1, <2>1 DEF Sorted
  <2>3. edits[order[i]].id = order[i] /\ edits[order[j]].id = order[j]
    BY <1>4, <2>2 DEF Numbered
  <2>4. edits'[i] = edits[order[i]] /\ edits'[j] = edits[order[j]]
    BY <1>3
  <2>5. QED
    BY <2>2, <2>3, <2>4 DEF Before
<1>8. DisjointUpTo(pos)'
  BY <1>3, <1>4 DEF DisjointUpTo
<1>9. QED
  BY <1>4, <1>5, <1>6, <1>7, <1>8 DEF EditsIInv

(* Comparing one pair of neighbours: without a clash, no edit up to the     *)
(* second one reaches into a later one of them; with a clash the two share  *)
(* a byte or one is inserted into the other.                                *)
LEMMA CompareKeeps ==
  ASSUME EditsIInv, Compare
  PROVE  EditsIInv'
<1>1. EditsTypeOK /\ AllValid /\ InOrder /\ DisjointUpTo(pos) /\ cursor = 0 /\ output = <<>>
      /\ pos \in Nat \ {0} /\ pos < Len(edits) /\ phase = "compare"
  BY DEF EditsIInv, Compare, EditsTypeOK
<1>2. /\ Len(edits) \in Nat /\ pos \in 1..Len(edits) /\ pos + 1 \in 1..Len(edits)
      /\ \A i \in 1..Len(edits) : /\ edits[i].start \in Nat /\ edits[i].end \in Nat
                                  /\ edits[i].id \in Nat /\ edits[i].start <= edits[i].end
  BY <1>1, EditFields DEF AllValid, ValidUpTo, InRange
<1>3. CASE ClashesWithNext(pos)
  <2>1. phase' = "conflict" /\ UNCHANGED <<edits, pos, cursor, output>>
    BY <1>3 DEF Compare
  <2>2. Overlap(edits[pos], edits[pos + 1])
    BY SMTT(40), <1>1, <1>2, <1>3 DEF ClashesWithNext, Overlap, InOrder
  <2>3. Conflicting(edits)'
    BY SMTT(40), <1>2, <2>1, <2>2 DEF Conflicting, Overlap
  <2>4. EditsTypeOK'
    BY <1>1, <2>1 DEF EditsTypeOK, Phases
  <2>5. QED
    BY <2>1, <2>3, <2>4 DEF EditsIInv
<1>4. CASE ~ClashesWithNext(pos)
  <2>1. pos' = pos + 1 /\ UNCHANGED <<edits, phase, cursor, output>>
    BY <1>4 DEF Compare
  <2>2. \A i, j \in 1..Len(edits) : i < j /\ j <= pos + 1 => edits[i].end <= edits[j].start
    <3>1. SUFFICES ASSUME NEW i \in 1..Len(edits), NEW j \in 1..Len(edits), i < j, j <= pos + 1
                   PROVE  edits[i].end <= edits[j].start
      OBVIOUS
    <3>2. edits[pos].end <= edits[pos + 1].start
      BY <1>2, <1>4 DEF ClashesWithNext
    <3>3. CASE j <= pos
      BY <1>1, <3>1, <3>3 DEF DisjointUpTo
    <3>4. CASE j = pos + 1 /\ i = pos
      BY <3>2, <3>4
    <3>5. CASE j = pos + 1 /\ i < pos
      <4>1. edits[i].end <= edits[pos].start
        BY <1>1, <1>2, <3>5 DEF DisjointUpTo
      <4>2. QED
        BY SMTT(40), <1>2, <3>2, <3>5, <4>1
    <3>6. QED
      BY <1>2, <3>1, <3>3, <3>4, <3>5
  <2>3. DisjointUpTo(pos)'
    BY <2>1, <2>2 DEF DisjointUpTo
  <2>4. EditsTypeOK' /\ AllValid' /\ InOrder'
    BY <1>1, <2>1 DEF EditsTypeOK, AllValid, ValidUpTo, InRange, AtBoundaries, InOrder
  <2>5. QED
    BY <1>1, <2>1, <2>3, <2>4 DEF EditsIInv
<1>5. QED
  BY <1>3, <1>4

LEMMA StartSpliceKeeps ==
  ASSUME EditsIInv, StartSplice
  PROVE  EditsIInv'
<1>1. EditsTypeOK /\ AllValid /\ InOrder /\ DisjointUpTo(pos) /\ cursor = 0 /\ output = <<>>
      /\ pos \in Nat \ {0} /\ pos >= Len(edits) /\ Len(edits) \in Nat
  BY EditFields DEF EditsIInv, StartSplice, EditsTypeOK
<1>2. phase' = "splice" /\ pos' = 1 /\ UNCHANGED <<edits, cursor, output>>
  BY DEF StartSplice
<1>3. DisjointUpTo(Len(edits))'
  BY <1>1, <1>2 DEF DisjointUpTo
<1>4. SplicedSoFar' /\ Len(output') = 0
  BY <1>1, <1>2 DEF SplicedSoFar, From
<1>5. EditsTypeOK' /\ AllValid' /\ InOrder'
  BY <1>1, <1>2 DEF EditsTypeOK, AllValid, ValidUpTo, InRange, AtBoundaries, InOrder, Phases
<1>6. QED
  BY <1>1, <1>2, <1>3, <1>4, <1>5 DEF EditsIInv

LEMMA Joined ==
  ASSUME NEW s \in Seq(PieceType), NEW p \in PieceType, NEW q \in PieceType
  PROVE  LET t == Append(Append(s, p), q)
         IN  /\ t \in Seq(PieceType) /\ Len(t) = Len(s) + 2
             /\ \A i \in 1..Len(s) : t[i] = s[i]
             /\ t[Len(s) + 1] = p /\ t[Len(s) + 2] = q
<1>1. /\ Append(s, p) \in Seq(PieceType) /\ Len(Append(s, p)) = Len(s) + 1
      /\ \A i \in 1..Len(s) : Append(s, p)[i] = s[i]
      /\ Append(s, p)[Len(s) + 1] = p
  BY AppendProperties
<1>2. /\ Append(Append(s, p), q) \in Seq(PieceType)
      /\ Len(Append(Append(s, p), q)) = Len(Append(s, p)) + 1
      /\ \A i \in 1..Len(Append(s, p)) : Append(Append(s, p), q)[i] = Append(s, p)[i]
      /\ Append(Append(s, p), q)[Len(Append(s, p)) + 1] = q
  BY <1>1, AppendProperties
<1>3. Len(s) \in Nat
  BY LenProperties
<1>4. QED
  BY <1>1, <1>2, <1>3

(* What the splice knows of the edit it stands at, or of the end: the part  *)
(* of the source from the cursor on is a slice of it.                       *)
LEMMA SliceExists ==
  ASSUME EditsIInv, phase = "splice"
  PROVE  /\ cursor \in Nat /\ pos \in 1..(Len(edits) + 1) /\ Len(edits) \in Nat
         /\ pos <= Len(edits) => cursor <= edits[pos].start /\ edits[pos].start \in Boundaries
         /\ pos > Len(edits) => cursor <= SourceLen
<1>1. EditsTypeOK /\ AllValid /\ DisjointUpTo(Len(edits)) /\ SplicedSoFar /\ pos <= Len(edits) + 1
  BY DEF EditsIInv
<1>2. pos \in Nat \ {0} /\ Len(edits) \in Nat /\ cursor = From(pos) /\ SourceLen \in Nat
  BY <1>1, EditFields, SourceAssumption DEF EditsTypeOK, SplicedSoFar
<1>3. \A i \in 1..Len(edits) :
         /\ edits[i].start \in Boundaries /\ edits[i].end <= SourceLen
         /\ edits[i].start \in Nat /\ edits[i].end \in Nat
  BY <1>1, EditFields DEF AllValid, ValidUpTo, InRange, AtBoundaries
<1>4. CASE pos = 1
  <2>1. cursor = 0
    BY <1>2, <1>4 DEF From
  <2>2. QED
    BY <1>2, <1>3, <1>4, <2>1
<1>5. CASE pos > 1
  <2>1. cursor = edits[pos - 1].end /\ pos - 1 \in 1..Len(edits)
    BY <1>1, <1>2, <1>5 DEF From
  <2>2. pos <= Len(edits) => edits[pos - 1].end <= edits[pos].start
    BY <1>1, <1>2, <1>5, <2>1 DEF DisjointUpTo
  <2>3. QED
    BY <1>1, <1>2, <1>3, <2>1, <2>2
<1>6. QED
  BY <1>2, <1>4, <1>5

LEMMA SpliceKeeps ==
  ASSUME EditsIInv, Splice
  PROVE  EditsIInv'
<1> DEFINE slice == Slice(cursor, edits[pos].start)
           piece == Inserted(edits[pos])
<1>1. /\ EditsTypeOK /\ AllValid /\ InOrder /\ DisjointUpTo(Len(edits)) /\ SplicedSoFar
      /\ Len(output) = 2 * (pos - 1) /\ phase = "splice" /\ pos <= Len(edits)
      /\ pos \in Nat \ {0} /\ Len(edits) \in Nat
  BY EditFields DEF EditsIInv, Splice, EditsTypeOK
<1>2. cursor <= edits[pos].start /\ edits[pos].start \in Boundaries /\ cursor \in Nat
  BY <1>1, SliceExists
<1>3. /\ output' = Append(Append(output, slice), piece)
      /\ cursor' = edits[pos].end /\ pos' = pos + 1 /\ UNCHANGED <<edits, phase>>
  BY <1>2 DEF Splice
<1>4. /\ edits[pos].start \in Nat /\ edits[pos].end \in Nat /\ edits[pos].id \in Nat
      /\ slice \in PieceType /\ piece \in PieceType
  BY <1>1, <1>2, EditFields DEF Slice, Inserted, PieceType
<1>5. /\ output' \in Seq(PieceType) /\ Len(output') = Len(output) + 2
      /\ \A i \in 1..Len(output) : output'[i] = output[i]
      /\ output'[Len(output) + 1] = slice /\ output'[Len(output) + 2] = piece
  <2>1. output \in Seq(PieceType) /\ slice \in PieceType /\ piece \in PieceType
    BY <1>1, <1>4 DEF EditsTypeOK
  <2>2. output' = Append(Append(output, slice), piece)
    BY <1>3
  <2> HIDE DEF slice, piece
  <2>3. QED
    BY <2>1, <2>2, Joined
<1>6. EditsTypeOK'
  BY <1>1, <1>3, <1>4, <1>5 DEF EditsTypeOK
<1>7. SplicedSoFar'
  <2>1. cursor' = From(pos)'
    BY <1>1, <1>3 DEF From
  <2>2. \A i \in 1..Len(edits) : From(i)' = From(i)
    BY <1>3 DEF From
  <2>3. ASSUME NEW i \in 1..Len(edits), i < pos + 1
        PROVE  /\ output'[2 * i - 1] = Slice(From(i), edits[i].start)
               /\ output'[2 * i] = Inserted(edits[i])
    <3>1. CASE i < pos
      <4>1. 2 * i - 1 \in 1..Len(output) /\ 2 * i \in 1..Len(output)
        BY <1>1, <3>1
      <4>2. /\ output[2 * i - 1] = Slice(From(i), edits[i].start)
            /\ output[2 * i] = Inserted(edits[i])
        BY <1>1, <3>1 DEF SplicedSoFar
      <4>3. QED
        BY <1>5, <4>1, <4>2
    <3>2. CASE i = pos
      <4>1. 2 * i - 1 = Len(output) + 1 /\ 2 * i = Len(output) + 2 /\ cursor = From(i)
        BY <1>1, <3>2 DEF SplicedSoFar
      <4>2. QED
        BY <1>5, <3>2, <4>1
    <3>3. QED
      BY <1>1, <2>3, <3>1, <3>2
  <2>4. QED
    BY <1>3, <2>1, <2>2, <2>3 DEF SplicedSoFar, Slice, Inserted
<1>8. AllValid' /\ InOrder' /\ DisjointUpTo(Len(edits))'
  BY <1>1, <1>3 DEF AllValid, ValidUpTo, InRange, AtBoundaries, InOrder, DisjointUpTo
<1>9. pos' <= Len(edits') + 1 /\ Len(output') = 2 * (pos' - 1) /\ phase' = "splice"
  BY <1>1, <1>3, <1>5
<1>10. QED
  BY <1>6, <1>7, <1>8, <1>9 DEF EditsIInv

LEMMA PushTailKeeps ==
  ASSUME EditsIInv, PushTail
  PROVE  EditsIInv'
<1> DEFINE slice == Slice(cursor, SourceLen)
<1>1. /\ EditsTypeOK /\ AllValid /\ InOrder /\ DisjointUpTo(Len(edits)) /\ SplicedSoFar
      /\ Len(output) = 2 * (pos - 1) /\ phase = "splice" /\ pos > Len(edits) /\ pos <= Len(edits) + 1
      /\ pos \in Nat \ {0} /\ Len(edits) \in Nat
  BY EditFields DEF EditsIInv, PushTail, EditsTypeOK
<1>2. cursor <= SourceLen /\ cursor \in Nat /\ SourceLen \in Nat
  BY <1>1, SliceExists, SourceAssumption
<1>3. output' = Append(output, slice) /\ phase' = "done" /\ UNCHANGED <<edits, pos, cursor>>
  BY <1>2 DEF PushTail
<1>4. slice \in PieceType
  BY <1>2 DEF Slice, PieceType
<1>5. /\ output' \in Seq(PieceType) /\ Len(output') = Len(output) + 1
      /\ \A i \in 1..Len(output) : output'[i] = output[i]
      /\ output'[Len(output) + 1] = slice
  BY <1>1, <1>3, <1>4, AppendProperties DEF EditsTypeOK
<1>6. EditsTypeOK'
  BY <1>1, <1>3, <1>5 DEF EditsTypeOK, Phases
<1>7. SplicedSoFar'
  <2>1. cursor' = From(pos)' /\ \A i \in 1..Len(edits) : From(i)' = From(i)
    BY <1>1, <1>3 DEF From, SplicedSoFar
  <2>2. ASSUME NEW i \in 1..Len(edits), i < pos
        PROVE  /\ output'[2 * i - 1] = Slice(From(i), edits[i].start)
               /\ output'[2 * i] = Inserted(edits[i])
    <3>1. 2 * i - 1 \in 1..Len(output) /\ 2 * i \in 1..Len(output)
      BY <1>1, <2>2
    <3>2. /\ output[2 * i - 1] = Slice(From(i), edits[i].start)
          /\ output[2 * i] = Inserted(edits[i])
      BY <1>1, <2>2 DEF SplicedSoFar
    <3>3. QED
      BY <1>5, <3>1, <3>2
  <2>3. QED
    BY <1>3, <2>1, <2>2 DEF SplicedSoFar, Slice, Inserted
<1>8. AllValid' /\ InOrder' /\ DisjointUpTo(Len(edits))'
  BY <1>1, <1>3 DEF AllValid, ValidUpTo, InRange, AtBoundaries, InOrder, DisjointUpTo
<1>9. /\ pos' = Len(edits') + 1 /\ Len(output') = 2 * pos' - 1 /\ phase' = "done"
      /\ output'[2 * pos' - 1] = slice /\ 2 * pos' - 1 = Len(output) + 1
  BY <1>1, <1>3, <1>5
<1>10. slice = Slice(cursor, SourceLen)'
  BY <1>3 DEF Slice
<1>11. QED
  BY <1>2, <1>3, <1>6, <1>7, <1>8, <1>9, <1>10 DEF EditsIInv

(* The invariant holds in every state: what each loop of apply_edits has     *)
(* established up to its index.                                              *)
THEOREM EditsInvariant == EditsSpec => []EditsIInv
<1>1. EditsInit => EditsIInv
  BY EditsInitHolds
<1>2. EditsIInv /\ [EditsNext]_editVars => EditsIInv'
  <2>1. SUFFICES ASSUME EditsIInv, [EditsNext]_editVars PROVE EditsIInv'
    OBVIOUS
  <2>2. CASE UNCHANGED editVars
    BY <2>1, <2>2 DEF editVars, EditsIInv, EditsTypeOK, ValidUpTo, AllValid, Numbered, InOrder,
       DisjointUpTo, SplicedSoFar, From, InRange, AtBoundaries, Conflicting, Overlap, Slice, Inserted
  <2>3. QED
    BY <2>1, <2>2, ValidateKeeps, RejectKeeps, SortKeeps, CompareKeeps, StartSpliceKeeps,
       SpliceKeeps, PushTailKeeps DEF EditsNext
<1>3. QED
  BY <1>1, <1>2, PTL DEF EditsSpec

(* Comparing neighbours after the sort finds an overlap exactly when two     *)
(* edits of the list overlap.                                                *)
THEOREM ConflictsRefused == EditsSpec => []ConflictsAreRefused
<1>1. EditsIInv => ConflictsAreRefused
  <2>1. SUFFICES ASSUME EditsIInv, phase \in {"splice", "done"} PROVE ~Conflicting(edits)
    BY DEF EditsIInv, ConflictsAreRefused
  <2>2. DisjointUpTo(Len(edits)) /\ Len(edits) \in Nat
        /\ \A i \in 1..Len(edits) : edits[i].start \in Nat /\ edits[i].end \in Nat
    BY <2>1, EditFields DEF EditsIInv
  <2>3. SUFFICES ASSUME NEW i \in 1..Len(edits), NEW j \in 1..Len(edits), i # j
                 PROVE  ~Overlap(edits[i], edits[j])
    BY DEF Conflicting
  <2>4. edits[i].end <= edits[j].start \/ edits[j].end <= edits[i].start
    BY <2>2, <2>3 DEF DisjointUpTo
  <2>5. QED
    BY <2>2, <2>3, <2>4 DEF Overlap
<1>2. QED
  BY <1>1, EditsInvariant, PTL

(* Once the edits are compared, apply_edits cannot fail.                     *)
THEOREM SlicesExist == EditsSpec => []NoSliceIsLost
<1>1. EditsIInv => NoSliceIsLost
  BY DEF EditsIInv, NoSliceIsLost
<1>2. QED
  BY <1>1, EditsInvariant, PTL

LEMMA LeastNatural ==
  ASSUME NEW T \in SUBSET Nat, T # {}
  PROVE  \E x \in T : \A y \in T : x <= y
<1>1. PICK x \in T : \A y \in T : ~(<<y, x>> \in OpToRel(<, Nat))
  BY NatLessThanWellFounded, WFMin
<1>2. \A y \in T : ~(y < x)
  BY <1>1 DEF OpToRel
<1>3. QED
  BY <1>2

(* What a finished call has put out: between two edits, and before the first *)
(* and after the last, the slice from where one ends to where the next one   *)
(* starts.                                                                   *)
Until(i) == IF i = Len(edits) + 1 THEN SourceLen ELSE edits[i].start

LEMMA FinishedOutput ==
  ASSUME EditsIInv, phase = "done"
  PROVE  LET n == Len(edits) IN
         /\ n \in Nat /\ SourceLen \in Nat /\ Len(output) = 2 * n + 1 /\ DisjointUpTo(n)
         /\ \A i \in 1..n : /\ edits[i].start \in Nat /\ edits[i].end \in Nat
                            /\ edits[i].start <= edits[i].end /\ edits[i].end <= SourceLen
                            /\ output[2 * i] = Inserted(edits[i])
         /\ \A i \in 1..(n + 1) : /\ output[2 * i - 1] = Slice(From(i), Until(i))
                                  /\ From(i) \in Nat /\ Until(i) \in Nat
<1> DEFINE n == Len(edits)
<1>1. EditsTypeOK /\ AllValid /\ DisjointUpTo(n) /\ SplicedSoFar /\ pos = n + 1
      /\ Len(output) = 2 * pos - 1 /\ output[2 * pos - 1] = Slice(cursor, SourceLen)
      /\ n \in Nat /\ SourceLen \in Nat
  BY EditFields, SourceAssumption DEF EditsIInv
<1>2. \A i \in 1..n : /\ edits[i].start \in Nat /\ edits[i].end \in Nat
                      /\ edits[i].start <= edits[i].end /\ edits[i].end <= SourceLen
                      /\ output[2 * i] = Inserted(edits[i])
                      /\ output[2 * i - 1] = Slice(From(i), edits[i].start)
  <2>1. \A i \in 1..n : edits[i].start \in Nat /\ edits[i].end \in Nat
    BY <1>1, EditFields
  <2>2. \A i \in 1..n : i < n + 1
    BY <1>1
  <2>3. \A i \in 1..n : edits[i].start <= edits[i].end /\ edits[i].end <= SourceLen
    BY <1>1, <2>2 DEF AllValid, ValidUpTo, InRange
  <2>4. \A i \in 1..n : output[2 * i] = Inserted(edits[i]) /\ output[2 * i - 1] = Slice(From(i), edits[i].start)
    BY <1>1, <2>2 DEF SplicedSoFar
  <2>5. QED
    BY <2>1, <2>3, <2>4
<1>3. ASSUME NEW i \in 1..(n + 1)
      PROVE  output[2 * i - 1] = Slice(From(i), Until(i)) /\ From(i) \in Nat /\ Until(i) \in Nat
  <2>1. From(i) \in Nat
    BY <1>1, <1>2, <1>3 DEF From
  <2>2. Until(i) \in Nat
    BY <1>1, <1>2, <1>3 DEF Until
  <2>3. CASE i = n + 1
    <3>1. output[2 * i - 1] = Slice(cursor, SourceLen) /\ cursor = From(i) /\ Until(i) = SourceLen
      BY <1>1, <2>3 DEF SplicedSoFar, Until
    <3>2. QED
      BY <2>1, <2>2, <3>1
  <2>4. CASE i # n + 1
    <3>1. i \in 1..n /\ Until(i) = edits[i].start
      BY <1>1, <1>3, <2>4 DEF Until
    <3>2. QED
      BY <1>2, <2>1, <2>2, <3>1
  <2>5. QED
    BY <2>3, <2>4
<1>4. n \in Nat /\ SourceLen \in Nat /\ Len(output) = 2 * n + 1 /\ DisjointUpTo(n)
  BY <1>1
<1> HIDE DEF n
<1>5. QED
  BY <1>2, <1>3, <1>4 DEF n

LEMMA FinishedRanges ==
  ASSUME EditsIInv, phase = "done"
  PROVE  /\ Len(edits) \in Nat /\ SourceLen \in Nat
         /\ \A i \in 1..Len(edits) : /\ edits[i].start \in Nat /\ edits[i].end \in Nat
                                     /\ edits[i].start <= edits[i].end
         /\ \A i, j \in 1..Len(edits) : i < j => edits[i].end <= edits[j].start
BY FinishedOutput DEF DisjointUpTo

(* No slice of the output holds a byte that an edit covers.                  *)
LEMMA CoveredIsDropped ==
  ASSUME EditsIInv, phase = "done", NEW o \in Nat, Covered(o),
         NEW k \in 1..(Len(edits) + 1), From(k) <= o, o < Until(k)
  PROVE  FALSE
<1>1. PICK i \in 1..Len(edits) : edits[i].start <= o /\ o < edits[i].end
  BY DEF Covered
<1>2. CASE k <= i
  <2>1. Until(k) = edits[k].start /\ k \in 1..Len(edits)
    BY <1>2, FinishedRanges DEF Until
  <2>2. edits[k].start <= edits[i].start
    <3>1. CASE k = i
      BY <3>1, FinishedRanges
    <3>2. CASE k < i
      <4>1. edits[k].end <= edits[i].start
        BY <2>1, <3>2, FinishedRanges
      <4>2. QED
        BY <2>1, <4>1, FinishedRanges
    <3>3. QED
      BY <1>2, <3>1, <3>2
  <2>3. QED
    BY <1>1, <2>1, <2>2, FinishedRanges
<1>3. CASE k > i
  <2>1. From(k) = edits[k - 1].end /\ k - 1 \in 1..Len(edits)
    BY <1>3, FinishedRanges DEF From
  <2>2. edits[i].end <= edits[k - 1].end
    <3>1. CASE k - 1 = i
      BY <3>1, FinishedRanges
    <3>2. CASE i < k - 1
      <4>1. edits[i].end <= edits[k - 1].start
        BY <2>1, <3>2, FinishedRanges
      <4>2. QED
        BY SMTT(40), <2>1, <4>1, FinishedRanges
    <3>3. QED
      BY <1>3, <3>1, <3>2
  <2>3. QED
    BY <1>1, <2>1, <2>2, FinishedRanges
<1>4. QED
  BY <1>2, <1>3

(* A byte that no edit covers is in the slice before the first edit that     *)
(* starts after it, or in the last one.                                      *)
LEMMA UncoveredIsKept ==
  ASSUME EditsIInv, phase = "done", NEW o \in 0..(SourceLen - 1), ~Covered(o)
  PROVE  \E k \in 1..(Len(edits) + 1) : From(k) <= o /\ o < Until(k)
<1> DEFINE after == {k \in 1..(Len(edits) + 1) : o < Until(k)}
<1>1. Len(edits) + 1 \in after /\ after \in SUBSET Nat
  BY FinishedOutput DEF Until
<1>2. PICK k \in after : \A j \in after : k <= j
  BY <1>1, LeastNatural
<1>3. CASE k = 1
  BY <1>2, <1>3, FinishedOutput DEF From
<1>4. CASE k # 1
  <2>1. k - 1 \in 1..Len(edits) /\ k \in Nat
    BY <1>2, <1>4, FinishedRanges
  <2>2. k - 1 \notin after
    BY <1>2, <2>1
  <2>3. ~(o < Until(k - 1)) /\ Until(k - 1) = edits[k - 1].start
    BY <2>1, <2>2, FinishedRanges DEF Until
  <2>4. edits[k - 1].start <= o
    BY <2>1, <2>3, FinishedRanges
  <2>5. ~(o < edits[k - 1].end)
    BY <2>1, <2>4 DEF Covered
  <2>6. From(k) = edits[k - 1].end
    BY <1>4 DEF From
  <2>7. QED
    BY <1>2, <2>1, <2>5, <2>6, FinishedRanges
<1>5. QED
  BY <1>3, <1>4

LEMMA Pieces ==
  ASSUME EditsIInv, phase = "done", NEW i \in 1..Len(output)
  PROVE  \/ \E k \in 1..Len(edits) : i = 2 * k /\ output[i] = Inserted(edits[k])
         \/ \E k \in 1..(Len(edits) + 1) : i = 2 * k - 1 /\ output[i] = Slice(From(k), Until(k))
<1>1. Len(edits) \in Nat /\ i \in 1..(2 * Len(edits) + 1)
  BY FinishedOutput
<1>2. PICK k \in Nat : i = 2 * k \/ i = 2 * k - 1
  <2>1. i \in Nat /\ i \div 2 \in Nat /\ (i = 2 * (i \div 2) \/ i = 2 * ((i \div 2) + 1) - 1)
    BY <1>1
  <2>2. QED
    BY <2>1
<1>3. CASE i = 2 * k
  <2>1. k \in 1..Len(edits)
    BY <1>1, <1>3
  <2>2. QED
    BY <1>3, <2>1, FinishedOutput
<1>4. CASE i = 2 * k - 1
  <2>1. k \in 1..(Len(edits) + 1)
    BY <1>1, <1>4
  <2>2. QED
    BY <1>4, <2>1, FinishedOutput
<1>5. QED
  BY <1>2, <1>3, <1>4

(* The output of apply_edits is the source with each edit in its place: for  *)
(* every source and every list of edits.                                     *)
THEOREM OutputIsEdited == EditsSpec => []OutputIsTheEditedSource
<1>1. ASSUME EditsIInv, phase = "done", NEW o \in 0..(SourceLen - 1)
      PROVE  Covered(o) <=> ~\E i \in 1..Len(output) : output[i].from <= o /\ o < output[i].to
  <2>1. o \in Nat /\ Len(edits) \in Nat
    BY <1>1, FinishedOutput
  <2>2. ASSUME Covered(o), NEW i \in 1..Len(output), output[i].from <= o, o < output[i].to
        PROVE  FALSE
    <3>1. CASE \E k \in 1..Len(edits) : i = 2 * k /\ output[i] = Inserted(edits[k])
      BY <2>1, <2>2, <3>1 DEF Inserted
    <3>2. CASE \E k \in 1..(Len(edits) + 1) : i = 2 * k - 1 /\ output[i] = Slice(From(k), Until(k))
      <4>1. PICK k \in 1..(Len(edits) + 1) : output[i] = Slice(From(k), Until(k))
        BY <3>2
      <4>2. From(k) <= o /\ o < Until(k)
        BY <2>2, <4>1 DEF Slice
      <4>3. QED
        BY <1>1, <2>1, <2>2, <4>2, CoveredIsDropped
    <3>3. QED
      BY <1>1, <2>2, <3>1, <3>2, Pieces
  <2>3. ASSUME ~Covered(o)
        PROVE  \E i \in 1..Len(output) : output[i].from <= o /\ o < output[i].to
    <3>1. PICK k \in 1..(Len(edits) + 1) : From(k) <= o /\ o < Until(k)
      BY <1>1, <2>3, UncoveredIsKept
    <3>2. 2 * k - 1 \in 1..Len(output) /\ output[2 * k - 1] = Slice(From(k), Until(k))
      BY <1>1, FinishedOutput
    <3>3. QED
      BY <3>1, <3>2 DEF Slice
  <2>4. QED
    BY <2>2, <2>3
<1>2. ASSUME EditsIInv, phase = "done", NEW i \in 1..Len(output), NEW j \in 1..Len(output),
             i < j, output[i].id = 0, output[j].id = 0
      PROVE  output[i].to <= output[j].from
  <2>1. \A k \in 1..Len(edits) : Inserted(edits[k]).id # 0
    BY <1>2, EditFields DEF Inserted, EditsIInv
  <2>2. PICK k \in 1..(Len(edits) + 1) : i = 2 * k - 1 /\ output[i] = Slice(From(k), Until(k))
    BY <1>2, <2>1, Pieces
  <2>3. PICK m \in 1..(Len(edits) + 1) : j = 2 * m - 1 /\ output[j] = Slice(From(m), Until(m))
    BY <1>2, <2>1, Pieces
  <2>4. /\ k \in 1..Len(edits) /\ m - 1 \in 1..Len(edits) /\ k <= m - 1
        /\ Until(k) = edits[k].start /\ From(m) = edits[m - 1].end
    BY <1>2, <2>2, <2>3, FinishedRanges DEF Until, From
  <2>5. edits[k].start <= edits[m - 1].end
    <3>1. CASE k = m - 1
      BY <1>2, <2>4, <3>1, FinishedRanges
    <3>2. CASE k < m - 1
      <4>1. edits[k].end <= edits[m - 1].start
        BY <1>2, <2>4, <3>2, FinishedRanges
      <4>2. /\ edits[k].start \in Nat /\ edits[k].end \in Nat /\ edits[k].start <= edits[k].end
            /\ edits[m - 1].start \in Nat /\ edits[m - 1].end \in Nat
            /\ edits[m - 1].start <= edits[m - 1].end
        BY <1>2, <2>4, FinishedRanges
      <4>3. QED
        BY SMTT(40), <4>1, <4>2
    <3>3. QED
      BY <2>4, <3>1, <3>2
  <2>6. QED
    BY <2>2, <2>3, <2>4, <2>5 DEF Slice
<1>3. ASSUME EditsIInv, phase = "done", NEW i \in 1..Len(edits)
      PROVE  /\ output[2 * i] = Inserted(edits[i])
             /\ output[2 * i - 1].to = edits[i].start
             /\ output[2 * i + 1].from = edits[i].end
  <2>1. /\ i \in 1..(Len(edits) + 1) /\ i + 1 \in 1..(Len(edits) + 1) /\ i # Len(edits) + 1
        /\ 2 * (i + 1) - 1 = 2 * i + 1 /\ Len(edits) \in Nat
    BY <1>3, FinishedRanges
  <2>2. /\ output[2 * i] = Inserted(edits[i])
        /\ output[2 * i - 1] = Slice(From(i), Until(i))
        /\ output[2 * i + 1] = Slice(From(i + 1), Until(i + 1))
    <3>1. \A k \in 1..(Len(edits) + 1) : output[2 * k - 1] = Slice(From(k), Until(k))
      BY <1>3, FinishedOutput
    <3>2. output[2 * (i + 1) - 1] = Slice(From(i + 1), Until(i + 1))
      BY <2>1, <3>1
    <3>3. QED
      BY <1>3, <2>1, <3>1, <3>2, FinishedOutput
  <2>3. Until(i) = edits[i].start /\ From(i + 1) = edits[i].end
    BY <2>1 DEF Until, From
  <2>4. QED
    BY <2>2, <2>3 DEF Slice
<1>4. ASSUME EditsIInv, phase = "done", NEW i \in 1..Len(edits), NEW j \in 1..Len(edits),
             i < j, edits[i].start = edits[j].start, edits[i].end = edits[j].end
      PROVE  edits[i].id < edits[j].id
  BY <1>4, FinishedRanges DEF EditsIInv, InOrder
<1>5. EditsIInv => OutputIsTheEditedSource
  BY <1>1, <1>2, <1>3, <1>4 DEF OutputIsTheEditedSource
<1>6. QED
  BY <1>5, EditsInvariant, PTL

\* For any source, boundaries and list of edits: those that clash are refused,
\* and all others are made.
THEOREM EditsSound == EditsSpec => []EditsAreSound
  BY ConflictsRefused, SlicesExist, OutputIsEdited, PTL DEF EditsAreSound

-----------------------------------------------------------------------------
(* TypeFacts.                                                               *)

LEMMA TextLength ==
  ASSUME FactsTypeOK
  PROVE  Len(text) \in Nat /\ \A i \in 1..Len(text) : text[i] \in Occurrence
<1>1. text \in Seq(Occurrence)
  BY DEF FactsTypeOK
<1>2. QED
  BY <1>1, ElementOfSeq, LenProperties

(* The two states that are no facts.                                         *)
LEMMA NoFacts ==
  Unbound # Ambiguous /\ \A f \in Facts : f # Unbound /\ f # Ambiguous
<1>1. "unbound" # "ambiguous" /\ "instance" # "unbound" /\ "instance" # "ambiguous"
      /\ "builtin" # "unbound" /\ "builtin" # "ambiguous"
  OBVIOUS
<1>2. Unbound[1] = "unbound" /\ Ambiguous[1] = "ambiguous"
  BY DEF Unbound, Ambiguous
<1>3. \A f \in Facts : f[1] = "instance" \/ f[1] = "builtin"
  BY DEF Facts, Instance, Builtin
<1>4. \A f \in Facts : f # Unbound /\ f # Ambiguous
  <2>1. SUFFICES ASSUME NEW f \in Facts PROVE f # Unbound /\ f # Ambiguous
    OBVIOUS
  <2>2. f[1] # Unbound[1] /\ f[1] # Ambiguous[1]
    BY <1>1, <1>2, <1>3
  <2>3. QED
    BY <2>2
<1>5. Unbound # Ambiguous
  BY <1>1, <1>2
<1>6. QED
  BY <1>4, <1>5

(* A state of a binding is one of the facts, or the ambiguity.              *)
LEMMA BindingStates ==
  \A o : BindingState(o) \in Facts \cup {Ambiguous} /\ BindingState(o) # Unbound
<1>1. \A o : BindingState(o) \in Facts \cup {Ambiguous}
  BY DEF BindingState
<1>2. Unbound \notin Facts /\ Unbound # Ambiguous
  BY NoFacts
<1>3. QED
  BY <1>1, <1>2

(* Visiting one occurrence: what was known of those before it stays known.  *)
LEMMA CollectKeeps ==
  ASSUME FactsIInv, Collect
  PROVE  FactsIInv'
<1> DEFINE o == text[collected + 1]
<1>1. /\ FactsTypeOK /\ CollectedInv /\ RunInv /\ collected < Len(text)
      /\ Len(text) \in Nat /\ collected \in Nat
  BY TextLength DEF FactsIInv, FactsTypeOK, Collect
<1>2. /\ IF IsRecorded(o) THEN Record(BindingState(o)) ELSE UNCHANGED fact
      /\ referenced' = (referenced \/ IsReference(o))
      /\ dynamic' = (dynamic \/ o.form = "eval")
      /\ collected' = collected + 1 /\ UNCHANGED <<text, held, read>>
  BY DEF Collect
<1>3. fact' \in Facts \cup {Unbound, Ambiguous}
  <2>1. BindingState(o) \in Facts \cup {Ambiguous} /\ fact \in Facts \cup {Unbound, Ambiguous}
    BY <1>1, BindingStates DEF FactsTypeOK
  <2>2. fact' \in {fact, BindingState(o), Ambiguous}
    BY <1>2 DEF Record
  <2>3. QED
    BY <2>1, <2>2
<1>4. FactsTypeOK'
  <2>1. referenced' \in BOOLEAN /\ dynamic' \in BOOLEAN
    BY <1>2
  <2>2. collected' \in 0..Len(text)
    BY <1>1, <1>2
  <2>3. QED
    BY <1>1, <1>2, <1>3, <2>1, <2>2 DEF FactsTypeOK
<1>5. IsRecorded(o) => fact' \in {BindingState(o), Ambiguous}
  BY <1>2 DEF Record
<1>6. \A s : s # Unbound /\ fact \in {s, Ambiguous} => fact' \in {s, Ambiguous}
  BY <1>2, NoFacts DEF Record
<1>7. CollectedInv'
  <2>1. SUFFICES ASSUME NEW i \in 1..Len(text), i <= collected + 1
                 PROVE  /\ IsRecorded(text[i]) => fact' \in {BindingState(text[i]), Ambiguous}
                        /\ IsReference(text[i]) => referenced'
                        /\ text[i].form = "eval" => dynamic'
    BY <1>2 DEF CollectedInv, IsRecorded, IsReference, BindingState
  <2>2. CASE i = collected + 1
    BY <1>2, <1>5, <2>2
  <2>3. CASE i <= collected
    <3>1. /\ IsRecorded(text[i]) => fact \in {BindingState(text[i]), Ambiguous}
          /\ IsReference(text[i]) => referenced
          /\ text[i].form = "eval" => dynamic
      BY <1>1, <2>3 DEF CollectedInv
    <3>2. IsRecorded(text[i]) => fact' \in {BindingState(text[i]), Ambiguous}
      BY <1>6, <3>1, BindingStates
    <3>3. QED
      BY <1>2, <3>1, <3>2
  <2>4. QED
    BY <1>1, <2>1, <2>2, <2>3
<1>8. RunInv'
  <2>1. held = 0 /\ read = {}
    BY <1>1 DEF RunInv
  <2>2. held' = 0 /\ read' = {}
    BY <1>2, <2>1
  <2>3. QED
    BY <2>2 DEF RunInv
<1>9. QED
  BY <1>4, <1>7, <1>8 DEF FactsIInv

LEMMA ExecuteKeeps ==
  ASSUME FactsIInv, Execute
  PROVE  FactsIInv'
<1>1. /\ FactsTypeOK /\ CollectedInv /\ RunInv /\ collected = Len(text) /\ Len(text) \in Nat
      /\ UNCHANGED <<text, collected, fact, referenced, dynamic>>
  BY TextLength DEF FactsIInv, Execute
<1>2. PICK i \in 1..Len(text) :
        /\ Binds(text[i]) \/ text[i].form = "statement"
        /\ text[i].form = "augmented" => held # 0
        /\ held' = IF Binds(text[i]) THEN i ELSE held
        /\ read' = read \cup (IF text[i].head THEN {i} ELSE {})
                        \cup (IF text[i].form = "augmented" THEN {held} ELSE {})
  BY DEF Execute
<1>3. FactsTypeOK'
  <2>1. held \in 0..Len(text) /\ read \subseteq 1..Len(text)
    BY <1>1 DEF FactsTypeOK
  <2>2. held' \in 0..Len(text)
    BY <1>1, <1>2, <2>1
  <2>3. read' \subseteq 1..Len(text)
    BY <1>1, <1>2, <2>1
  <2>4. QED
    BY <1>1, <2>2, <2>3 DEF FactsTypeOK
<1>4. CollectedInv'
  BY <1>1 DEF CollectedInv, IsRecorded, IsReference, BindingState
<1>5. RunInv'
  <2>1. held' # 0 => Binds(text[held'])
    BY <1>1, <1>2 DEF RunInv
  <2>2. SUFFICES ASSUME NEW k \in read'
                 PROVE  \/ text[k].head
                        \/ Binds(text[k]) /\ \E j \in 1..Len(text) : text[j].form \in Uses
    BY <1>1, <2>1 DEF RunInv, Binds
  <2>3. k \in read \/ (k = i /\ text[i].head) \/ (k = held /\ text[i].form = "augmented")
    BY <1>2
  <2>4. CASE k \in read
    BY <1>1, <2>4 DEF RunInv
  <2>5. CASE k = held /\ text[i].form = "augmented"
    <3>1. Binds(text[k])
      BY <1>1, <1>2, <2>5 DEF RunInv
    <3>2. text[i].form \in Uses
      BY <2>5 DEF Uses
    <3>3. QED
      BY <1>2, <3>1, <3>2
  <2>6. QED
    BY <2>3, <2>4, <2>5
<1>6. QED
  BY <1>3, <1>4, <1>5 DEF FactsIInv

LEMMA UseKeeps ==
  ASSUME FactsIInv, Use
  PROVE  FactsIInv'
<1>1. /\ FactsTypeOK /\ CollectedInv /\ RunInv /\ collected = Len(text) /\ held # 0
      /\ UNCHANGED <<text, collected, fact, referenced, dynamic, held>>
      /\ read' = read \cup {held} /\ \E j \in 1..Len(text) : text[j].form \in Uses
      /\ Len(text) \in Nat
  BY TextLength DEF FactsIInv, Use
<1>2. FactsTypeOK'
  BY <1>1 DEF FactsTypeOK
<1>3. CollectedInv'
  BY <1>1 DEF CollectedInv, IsRecorded, IsReference, BindingState
<1>4. RunInv'
  <2>1. \A k \in read' :
          \/ text[k].head
          \/ Binds(text[k]) /\ \E j \in 1..Len(text) : text[j].form \in Uses
    BY <1>1 DEF RunInv
  <2>2. QED
    BY <1>1, <2>1 DEF RunInv, Binds
<1>5. QED
  BY <1>2, <1>3, <1>4 DEF FactsIInv

(* What the collectors know, and what the run can do, in every state.       *)
THEOREM FactsInvariant == FactsSpec => []FactsIInv
<1>1. FactsInit => FactsIInv
  <2>1. SUFFICES ASSUME FactsInit PROVE FactsIInv
    OBVIOUS
  <2>2. text \in Seq(Occurrence) /\ Len(text) \in Nat
    BY <2>1, TextsAssumption, LenProperties DEF FactsInit
  <2>3. /\ collected = 0 /\ fact = Unbound /\ referenced = FALSE /\ dynamic = FALSE
        /\ held = 0 /\ read = {}
    BY <2>1 DEF FactsInit
  <2>4. FactsTypeOK
    <3>1. collected \in 0..Len(text) /\ held \in 0..Len(text)
      BY <2>2, <2>3
    <3>2. referenced \in BOOLEAN /\ dynamic \in BOOLEAN
      BY <2>3
    <3>3. fact \in Facts \cup {Unbound, Ambiguous} /\ read \subseteq 1..Len(text)
      BY <2>3
    <3>4. QED
      BY <2>2, <3>1, <3>2, <3>3 DEF FactsTypeOK
  <2>5. CollectedInv
    <3>1. \A i \in 1..Len(text) : ~(i <= 0)
      BY <2>2
    <3>2. QED
      BY <2>3, <3>1 DEF CollectedInv
  <2>6. RunInv
    BY <2>3 DEF RunInv
  <2>7. QED
    BY <2>4, <2>5, <2>6 DEF FactsIInv
<1>2. FactsIInv /\ [FactsNext]_factVars => FactsIInv'
  <2>1. SUFFICES ASSUME FactsIInv, [FactsNext]_factVars PROVE FactsIInv'
    OBVIOUS
  <2>2. CASE UNCHANGED factVars
    BY <2>1, <2>2 DEF factVars, FactsIInv, FactsTypeOK, CollectedInv, RunInv, Binds, IsRecorded,
       IsReference, BindingState
  <2>3. QED
    BY <2>1, <2>2, CollectKeeps, ExecuteKeeps, UseKeeps DEF FactsNext
<1>3. QED
  BY <1>1, <1>2, PTL DEF FactsSpec

(* The facts that a rule asks for are right of whatever binding ran last,   *)
(* for every text: the collector need not know in which order they run.     *)
THEOREM FactsSound == FactsSpec => []FactsAreSound
<1>1. FactsIInv => FactsAreSound
  <2>1. SUFFICES ASSUME FactsIInv, collected = Len(text), fact \in Facts, held # 0,
                        ~Surprises(text[held])
                 PROVE  text[held].yields = fact
    BY DEF FactsAreSound
  <2>2. held \in 1..Len(text) /\ Binds(text[held]) /\ Len(text) \in Nat
    BY <2>1, TextLength DEF FactsIInv, FactsTypeOK, RunInv
  <2>3. IsRecorded(text[held])
    <3>1. text[held].form \notin UnrecordedForms
      BY <2>1 DEF Surprises
    <3>2. text[held].form \in ValueForms \cup OpaqueForms \cup UnrecordedForms
      BY <2>2 DEF Binds
    <3>3. QED
      BY <3>1, <3>2 DEF IsRecorded
  <2>4. fact \in {BindingState(text[held]), Ambiguous}
    BY <2>1, <2>2, <2>3 DEF FactsIInv, CollectedInv
  <2>5. fact # Ambiguous
    BY <2>1, NoFacts
  <2>6. text[held].says \in Facts /\ fact = text[held].says
    BY <2>4, <2>5 DEF BindingState
  <2>7. QED
    BY <2>1, <2>6 DEF Surprises
<1>2. QED
  BY <1>1, FactsInvariant, PTL

(* No result that is taken for dead is used, outside the three ways that     *)
(* DeadResultsAreUnread names.                                               *)
THEOREM DeadUnread == FactsSpec => []DeadResultsAreUnread
<1>1. FactsIInv => DeadResultsAreUnread
  <2>1. SUFFICES ASSUME FactsIInv, NEW i \in read, IsDead(text[i]), ~text[i].head
                 PROVE  \E j \in 1..Len(text) : text[j].form \in {"attribute", "augmented"}
    BY DEF DeadResultsAreUnread
  <2>2. /\ Binds(text[i]) /\ collected = Len(text) /\ Len(text) \in Nat
        /\ \E j \in 1..Len(text) : text[j].form \in Uses
    BY <2>1, TextLength DEF FactsIInv, RunInv
  <2>3. ~dynamic /\ ~referenced
    BY <2>1, <2>2 DEF IsDead, Binds, ValueForms, OpaqueForms, UnrecordedForms
  <2>4. PICK j \in 1..Len(text) : text[j].form \in Uses
    BY <2>2
  <2>5. text[j].form \notin {"load", "eval"}
    BY <2>1, <2>2, <2>3 DEF FactsIInv, CollectedInv, IsReference
  <2>6. QED
    BY <2>4, <2>5 DEF Uses
<1>2. QED
  BY <1>1, FactsInvariant, PTL

------------------------------------------------------------------------------
(* ClassHierarchy *)

LEMMA LeastPosition ==
  ASSUME NEW S \in SUBSET Nat, S # {}
  PROVE  Min(S) \in S /\ \A m \in S : Min(S) <= m
<1>1. PICK n \in S : \A m \in S : ~(<<m, n>> \in OpToRel(<, Nat))
  BY NatLessThanWellFounded, WFMin
<1>2. \A m \in S : ~(m < n)
  BY <1>1 DEF OpToRel
<1>3. n \in S /\ \A m \in S : n <= m
  BY <1>2
<1>4. QED
  BY <1>3 DEF Min

LEMMA LastPosition ==
  ASSUME NEW N \in Nat, NEW S \in SUBSET (0..N), S # {}
  PROVE  Max(S) \in S /\ \A m \in S : Max(S) >= m
<1> DEFINE T == {N - m : m \in S}
<1>0. \A m \in S : m \in Nat /\ N - m \in Nat
  OBVIOUS
<1>1. T \in SUBSET Nat /\ T # {}
  BY <1>0
<1> HIDE DEF T
<1>2. Min(T) \in T /\ \A x \in T : Min(T) <= x
  BY <1>1, LeastPosition
<1>3. PICK m \in S : \A n \in S : N - m <= N - n
  BY <1>2 DEF T
<1>4. \A n \in S : m >= n
  BY <1>3
<1>5. QED
  BY <1>4 DEF Max

LEMMA ClassAt ==
  ASSUME classes \in Hierarchies
  PROVE  /\ Len(classes) \in Nat
         /\ \A i \in 1..Len(classes) :
              /\ classes[i].name \in ClassNames
              /\ classes[i].bases \in Seq(ClassNames \cup {External, Expression})
              /\ Len(classes[i].bases) \in Nat
              /\ classes[i].own \in SUBSET Members /\ classes[i].declared \in SUBSET Members
              /\ classes[i].methods \subseteq classes[i].own
<1>1. classes \in Seq(Class)
  BY HierarchiesAssumption
<1>2. ASSUME NEW i \in 1..Len(classes)
      PROVE  /\ classes[i].name \in ClassNames
             /\ classes[i].bases \in Seq(ClassNames \cup {External, Expression})
             /\ Len(classes[i].bases) \in Nat
             /\ classes[i].own \in SUBSET Members /\ classes[i].declared \in SUBSET Members
             /\ classes[i].methods \subseteq classes[i].own
  <2>1. classes[i] \in Class
    BY <1>1, ElementOfSeq
  <2>2. /\ classes[i].name \in ClassNames
        /\ classes[i].bases \in Seq(ClassNames \cup {External, Expression})
        /\ classes[i].own \in SUBSET Members /\ classes[i].declared \in SUBSET Members
        /\ classes[i].methods \subseteq classes[i].own
    BY <2>1 DEF Class
  <2>3. QED
    BY <2>2, LenProperties
<1>3. QED
  BY <1>1, <1>2, LenProperties

(* The class the facts know of a name is one of that name.                   *)
LEMMA KnownIsNamed ==
  ASSUME classes \in Hierarchies, NEW name
  PROVE  /\ Known(name) \in 0..Len(classes)
         /\ Known(name) # 0 => classes[Known(name)].name = name
         /\ \A k \in 1..Len(classes) : classes[k].name = name => Known(name) # 0
<1> DEFINE named == {k \in 1..Len(classes) : classes[k].name = name}
<1>1. Len(classes) \in Nat /\ named \in SUBSET (0..Len(classes))
  BY ClassAt
<1>2. Known(name) = IF named = {} THEN 0 ELSE Max(named)
  BY DEF Known
<1>3. named # {} => Max(named) \in named
  <2> HIDE DEF named
  <2>1. QED
    BY <1>1, LastPosition
<1>4. CASE named = {}
  BY <1>1, <1>2, <1>4
<1>5. CASE named # {}
  <2>1. Known(name) \in named
    BY <1>2, <1>3, <1>5
  <2>2. Known(name) \in 1..Len(classes) /\ classes[Known(name)].name = name
    BY <2>1
  <2>3. QED
    BY <1>1, <2>2
<1>6. QED
  BY <1>4, <1>5

LEMMA BaseIsEarlier ==
  ASSUME classes \in Hierarchies, NEW i \in 1..Len(classes), NEW name, NamedBefore(i, name) # {},
         name \notin {External, Expression}
  PROVE  BoundTo(i, name) \in NamedBefore(i, name)
<1>1. Len(classes) \in Nat /\ NamedBefore(i, name) \in SUBSET (0..Len(classes))
  BY ClassAt DEF NamedBefore
<1>2. Max(NamedBefore(i, name)) \in NamedBefore(i, name)
  BY <1>1, LastPosition
<1>3. QED
  BY <1>2 DEF BoundTo

(* The merge takes a list first whose classes stand in no other list, or only *)
(* at its start.                                                             *)
LEMMA MergeStartsWithFirst ==
  ASSUME NEW lists, NEW m \in Nat \ {0}, DOMAIN lists = 1..m,
         NEW N \in Nat, NEW first, first = lists[1], DOMAIN first = 1..N, IsInjective(first),
         NEW M \in Nat, NEW merged, DOMAIN merged = 1..M, IsInjective(merged),
         Range(merged) = AllOf(lists), IsMerge(merged, lists),
         \A q \in 2..m : /\ \A n \in DOMAIN lists[q] : n \in Nat
                         /\ \A n \in DOMAIN lists[q], i \in 1..N : lists[q][n] = first[i] => n = 1
  PROVE  N <= M /\ \A n \in 1..N : merged[n] = first[n]
<1> DEFINE wrong == {n \in 1..N : n > M \/ merged[n] # first[n]}
<1>1. SUFFICES wrong = {}
  OBVIOUS
<1>2. SUFFICES ASSUME wrong # {} PROVE FALSE
  OBVIOUS
<1>3. PICK n \in wrong : \A k \in wrong : n <= k
  <2>1. wrong \in SUBSET Nat
    OBVIOUS
  <2> HIDE DEF wrong
  <2>2. QED
    BY <1>2, <2>1, LeastPosition
<1>4. n \in 1..N /\ (n > M \/ merged[n] # first[n])
  OBVIOUS
<1>5. \A j \in 1..(n - 1) : j <= M /\ merged[j] = first[j]
  <2>1. SUFFICES ASSUME NEW j \in 1..(n - 1) PROVE j <= M /\ merged[j] = first[j]
    OBVIOUS
  <2>2. j \notin wrong /\ j \in 1..N
    BY <1>3, <1>4
  <2>3. QED
    BY <2>2
<1>6. first[n] \in Range(merged)
  <2>1. first[n] \in Range(lists[1])
    BY <1>4 DEF Range
  <2>2. 1 \in DOMAIN lists
    OBVIOUS
  <2>3. QED
    BY <2>1, <2>2 DEF AllOf
<1>7. n \in DOMAIN merged
  <2>1. PICK k \in 1..M : merged[k] = first[n]
    BY <1>6 DEF Range
  <2>2. CASE k < n
    <3>1. first[k] = first[n] /\ k \in 1..N
      BY <1>4, <1>5, <2>1, <2>2
    <3>2. QED
      BY <1>4, <2>2, <3>1 DEF IsInjective
  <2>3. CASE k >= n
    BY <1>4, <2>3
  <2>4. QED
    BY <1>4, <2>2, <2>3
<1> DEFINE taken == {merged[j] : j \in 1..(n - 1)}
<1>8. \A k \in 1..N : first[k] \in taken <=> k < n
  <2>1. SUFFICES ASSUME NEW k \in 1..N PROVE first[k] \in taken <=> k < n
    OBVIOUS
  <2>2. k < n => merged[k] = first[k] /\ k \in 1..(n - 1)
    BY <1>4, <1>5
  <2>3. ASSUME NEW j \in 1..(n - 1), first[k] = merged[j] PROVE k < n
    <3>1. first[k] = first[j] /\ j \in 1..N
      BY <1>4, <1>5, <2>3
    <3>2. k = j
      BY <3>1 DEF IsInjective
    <3>3. QED
      BY <1>4, <3>2
  <2>4. QED
    BY <2>2, <2>3
<1>9. first[n] \in Ready(lists, 1, taken)
  <2>1. first[n] \in Range(lists[1]) \ taken
    BY <1>4, <1>8 DEF Range
  <2>2. ASSUME NEW q \in 1..m, NEW k \in DOMAIN lists[q], lists[q][k] = first[n], NEW j \in 1..(k - 1)
        PROVE  lists[q][j] \in taken
    <3>1. CASE q = 1
      <4>1. k = n
        BY <1>4, <2>2, <3>1 DEF IsInjective
      <4>2. j \in 1..N /\ j < n
        BY <1>4, <4>1
      <4>3. QED
        BY <1>8, <3>1, <4>2
    <3>2. CASE q \in 2..m
      <4>1. k = 1
        BY <1>4, <2>2, <3>2
      <4>2. QED
        BY <4>1
    <3>3. QED
      BY <3>1, <3>2
  <2>3. QED
    BY <2>1, <2>2 DEF Ready
<1>10. PICK p \in 1..m : /\ merged[n] \in Ready(lists, p, taken)
                         /\ \A q \in 1..(p - 1) : Ready(lists, q, taken) = {}
  BY <1>7 DEF IsMerge
<1>11. p = 1
  BY <1>9, <1>10
<1>12. PICK k \in 1..N : merged[n] = first[k] /\ k >= n
  <2>1. merged[n] \in Range(lists[1]) /\ merged[n] \notin taken
    BY <1>10, <1>11 DEF Ready
  <2>2. PICK k \in 1..N : merged[n] = first[k]
    BY <2>1 DEF Range
  <2>3. QED
    BY <1>4, <1>8, <2>1, <2>2
<1>13. k > n => first[n] \in taken
  <2>1. SUFFICES ASSUME k > n PROVE first[n] \in taken
    OBVIOUS
  <2>2. \A j \in 1..(k - 1) : lists[1][j] \in taken
    BY <1>10, <1>11, <1>12 DEF Ready
  <2>3. QED
    BY <1>4, <2>1, <2>2
<1>14. k = n
  BY <1>4, <1>8, <1>12, <1>13
<1>15. QED
  BY <1>4, <1>7, <1>12, <1>14

(* What is known of the orders.                                              *)
LEMMA OrderAt ==
  ASSUME HierarchyTypeOK, NEW i \in 1..Len(orders)
  PROVE  /\ Len(orders) \in Nat /\ Len(classes) \in Nat /\ i \in 1..Len(classes)
         /\ orders[i] \in Seq(1..Len(classes) \cup Elsewhere)
         /\ Len(orders[i]) \in Nat /\ DOMAIN orders[i] = 1..Len(orders[i])
         /\ OrderInv => /\ 1 \in DOMAIN orders[i] /\ orders[i][1] = i
                        /\ \A n \in DOMAIN orders[i] : orders[i][n] <= i
<1>1. /\ Len(orders) \in Nat /\ Len(classes) \in Nat /\ Len(orders) <= Len(classes)
      /\ orders \in Seq(Seq(1..Len(classes) \cup Elsewhere))
  BY ClassAt, LenProperties DEF HierarchyTypeOK
<1>2. i \in 1..Len(classes) /\ orders[i] \in Seq(1..Len(classes) \cup Elsewhere)
  BY <1>1, ElementOfSeq
<1>3. Len(orders[i]) \in Nat /\ DOMAIN orders[i] = 1..Len(orders[i])
  BY <1>2, LenProperties
<1>4. ASSUME OrderInv
      PROVE  /\ 1 \in DOMAIN orders[i] /\ orders[i][1] = i
             /\ \A n \in DOMAIN orders[i] : orders[i][n] <= i
  <2>1. orders[i] # <<>> /\ orders[i][1] = i /\ \A n \in 2..Len(orders[i]) : orders[i][n] < i
    BY <1>4 DEF OrderInv
  <2>2. Len(orders[i]) # 0
    BY <1>2, <2>1, EmptySeq
  <2>3. \A n \in 2..Len(orders[i]) : orders[i][n] \in Int
    <3>1. \A n \in 1..Len(orders[i]) : orders[i][n] \in 1..Len(classes) \cup Elsewhere
      BY <1>2, ElementOfSeq
    <3>2. 1..Len(classes) \cup Elsewhere \subseteq Int
      BY <1>1 DEF Elsewhere
    <3>3. QED
      BY <1>3, <3>1, <3>2
  <2>4. QED
    BY <1>2, <1>3, <2>1, <2>2, <2>3
<1>5. QED
  BY <1>1, <1>2, <1>3, <1>4

(* The classes that CPython found for the bases are defined before, or from  *)
(* elsewhere.                                                                *)
LEMMA BasesAreBefore ==
  ASSUME classes \in Hierarchies, NEW i \in 1..Len(classes), BasesBound(i)
  PROVE  /\ Len(classes[i].bases) \in Nat /\ Len(RuntimeBases(i)) = Len(classes[i].bases)
         /\ DOMAIN RuntimeBases(i) = 1..Len(classes[i].bases)
         /\ \A b \in 1..Len(classes[i].bases) : RuntimeBases(i)[b] \in Elsewhere \cup 1..(i - 1)
         /\ RuntimeBases(i) \in Seq(1..Len(classes) \cup Elsewhere)
<1> DEFINE N == Len(classes[i].bases)
<1>1. N \in Nat /\ Len(classes) \in Nat
  BY ClassAt
<1>2. RuntimeBases(i) = [b \in 1..N |-> BoundTo(i, classes[i].bases[b])]
  BY DEF RuntimeBases
<1>3. ASSUME NEW b \in 1..N
      PROVE  RuntimeBases(i)[b] \in Elsewhere \cup 1..(i - 1)
  <2>1. CASE classes[i].bases[b] \in {External, Expression}
    BY <1>2, <2>1 DEF BoundTo, Elsewhere
  <2>2. CASE RuntimeBases(i)[b] \in NamedBefore(i, classes[i].bases[b])
    BY <2>2 DEF NamedBefore
  <2>3. QED
    BY <2>1, <2>2 DEF BasesBound
<1>4. \A b \in 1..N : RuntimeBases(i)[b] \in 1..Len(classes) \cup Elsewhere
  BY <1>1, <1>3
<1> HIDE DEF N
<1>5. RuntimeBases(i) \in [1..N -> 1..Len(classes) \cup Elsewhere]
  BY <1>2, <1>4
<1>6. RuntimeBases(i) \in Seq(1..Len(classes) \cup Elsewhere) /\ Len(RuntimeBases(i)) = N
  BY <1>1, <1>5
<1>7. QED
  BY <1>1, <1>2, <1>3, <1>6 DEF N

(* Defining a class leaves alone what is known of the classes before it, and *)
(* of the bases of its own.                                                  *)
LEMMA OrdersStay ==
  ASSUME HierarchyTypeOK, NEW o, UNCHANGED classes, orders' = Append(orders, o),
         NEW i \in 1..Len(classes), i <= Len(orders) + 1, BasesBound(i)
  PROVE  /\ RuntimeBases(i)' = RuntimeBases(i)
         /\ \A b \in 1..Len(classes[i].bases) :
              OrderOf(RuntimeBases(i)[b])' = OrderOf(RuntimeBases(i)[b])
         /\ Diamond(i)' <=> Diamond(i)
         /\ BasesBound(i)'
<1>1. Len(orders) \in Nat /\ orders \in Seq(Seq(1..Len(classes) \cup Elsewhere))
  BY LenProperties DEF HierarchyTypeOK
<1>2. classes \in Hierarchies
  BY DEF HierarchyTypeOK
<1>3. /\ Len(classes[i].bases) \in Nat /\ Len(RuntimeBases(i)) = Len(classes[i].bases)
      /\ \A b \in 1..Len(classes[i].bases) : RuntimeBases(i)[b] \in Elsewhere \cup 1..(i - 1)
  BY <1>2, BasesAreBefore
<1>4. RuntimeBases(i)' = RuntimeBases(i) /\ BasesBound(i)'
  BY DEF RuntimeBases, BoundTo, NamedBefore, BasesBound
<1>5. ASSUME NEW b \in 1..Len(classes[i].bases)
      PROVE  OrderOf(RuntimeBases(i)[b])' = OrderOf(RuntimeBases(i)[b])
  <2>1. PICK k : k = RuntimeBases(i)[b]
    OBVIOUS
  <2>2. k \in Elsewhere \/ k \in 1..Len(orders)
    BY <1>1, <1>3, <2>1
  <2>3. k \in 1..Len(orders) => orders'[k] = orders[k]
    BY <1>1
  <2>4. OrderOf(k)' = OrderOf(k)
    BY <2>2, <2>3 DEF OrderOf
  <2>5. QED
    BY <1>4, <2>1, <2>4
<1>6. Diamond(i)' <=> Diamond(i)
  BY <1>3, <1>4, <1>5 DEF Diamond
<1>7. QED
  BY <1>4, <1>5, <1>6

(* What is merged.                                                           *)
LEMMA ListsToMerge ==
  ASSUME HierarchyTypeOK, OrderInv, NEW i \in 1..Len(classes), i <= Len(orders) + 1, BasesBound(i)
  PROVE  LET N == Len(classes[i].bases)
             lists == ToMerge(i)
         IN  /\ N \in Nat /\ DOMAIN lists = 1..(N + 1)
             /\ lists[N + 1] = RuntimeBases(i)
             /\ \A p \in 1..N : lists[p] = OrderOf(RuntimeBases(i)[p])
             /\ \A p \in 1..N : /\ 1 \in DOMAIN lists[p] /\ lists[p][1] = RuntimeBases(i)[p]
                                /\ IsInjective(lists[p])
             /\ \A p \in 1..(N + 1) : /\ lists[p] \in Seq(1..Len(classes) \cup Elsewhere)
                                      /\ \A n \in DOMAIN lists[p] : lists[p][n] \in Elsewhere \cup 1..(i - 1)
<1> DEFINE N == Len(classes[i].bases)
<1> DEFINE lists == ToMerge(i)
<1> DEFINE S == 1..Len(classes) \cup Elsewhere
<1>1. Len(orders) \in Nat /\ classes \in Hierarchies /\ Len(classes) \in Nat
  BY LenProperties, ClassAt DEF HierarchyTypeOK
<1>2. /\ N \in Nat /\ Len(RuntimeBases(i)) = N /\ DOMAIN RuntimeBases(i) = 1..N
      /\ RuntimeBases(i) \in Seq(S)
      /\ \A b \in 1..N : RuntimeBases(i)[b] \in Elsewhere \cup 1..(i - 1)
  BY <1>1, BasesAreBefore
<1>3. lists = [p \in 1..(N + 1) |-> IF p <= N THEN OrderOf(RuntimeBases(i)[p]) ELSE RuntimeBases(i)]
  BY <1>2 DEF ToMerge
<1> HIDE DEF N, lists
<1>4. /\ DOMAIN lists = 1..(N + 1) /\ lists[N + 1] = RuntimeBases(i)
      /\ \A p \in 1..N : lists[p] = OrderOf(RuntimeBases(i)[p])
  BY <1>2, <1>3
<1>5. ASSUME NEW p \in 1..N
      PROVE  /\ 1 \in DOMAIN lists[p] /\ lists[p][1] = RuntimeBases(i)[p] /\ IsInjective(lists[p])
             /\ lists[p] \in Seq(S)
             /\ \A n \in DOMAIN lists[p] : lists[p][n] \in Elsewhere \cup 1..(i - 1)
  <2>1. PICK k \in Elsewhere \cup 1..(i - 1) : k = RuntimeBases(i)[p]
    BY <1>2
  <2>2. lists[p] = OrderOf(k)
    BY <1>4, <2>1
  <2>3. CASE k \in Elsewhere
    <3>1. lists[p] = <<k>> /\ k \in S
      BY <2>2, <2>3 DEF OrderOf
    <3>2. lists[p] \in Seq(S) /\ DOMAIN lists[p] = {1} /\ lists[p][1] = k
      BY <3>1
    <3>3. QED
      BY <2>1, <2>3, <3>2 DEF IsInjective
  <2>4. CASE k \notin Elsewhere
    <3>1. k \in 1..Len(orders) /\ k \in 1..(i - 1) /\ lists[p] = orders[k]
      BY <1>1, <2>1, <2>2, <2>4 DEF OrderOf
    <3>2. /\ orders[k] \in Seq(S) /\ 1 \in DOMAIN orders[k] /\ orders[k][1] = k
          /\ \A n \in DOMAIN orders[k] : orders[k][n] <= k
          /\ DOMAIN orders[k] = 1..Len(orders[k])
      BY <3>1, OrderAt
    <3>3. \A n \in DOMAIN orders[k] : orders[k][n] \in S
      BY <3>2, ElementOfSeq
    <3>4. \A n \in DOMAIN orders[k] : orders[k][n] \in Elsewhere \cup 1..(i - 1)
      BY <1>1, <3>1, <3>2, <3>3
    <3>5. IsInjective(orders[k])
      BY <3>1 DEF OrderInv
    <3>6. QED
      BY <2>1, <3>1, <3>2, <3>4, <3>5
  <2>5. QED
    BY <2>3, <2>4
<1>6. ASSUME NEW p \in 1..(N + 1)
      PROVE  /\ lists[p] \in Seq(S)
             /\ \A n \in DOMAIN lists[p] : lists[p][n] \in Elsewhere \cup 1..(i - 1)
  <2>1. CASE p \in 1..N
    BY <1>5, <2>1
  <2>2. CASE p = N + 1
    BY <1>2, <1>4, <2>2
  <2>3. QED
    BY <1>2, <2>1, <2>2
<1>7. QED
  BY <1>2, <1>4, <1>5, <1>6 DEF N, lists

(* A sequence of all elements of a finite set, each once.                    *)
LEMMA SequenceOfSet ==
  ASSUME NEW S, IsFiniteSet(S), NEW A \in SUBSET S, NEW merged \in SetToSeqs(A)
  PROVE  /\ merged \in Seq(S) /\ DOMAIN merged = 1..Len(merged) /\ Len(merged) \in Nat
         /\ IsInjective(merged) /\ Range(merged) = A
<1>1. IsFiniteSet(A) /\ Cardinality(A) \in Nat
  BY FS_Subset, FS_CardinalityType
<1>2. PICK n \in Nat : n = Cardinality(A)
  BY <1>1
<1>3. merged \in [1..n -> A] /\ \A i, j \in 1..n : i # j => merged[i] # merged[j]
  BY <1>2 DEF SetToSeqs
<1>4. merged \in Seq(S) /\ Len(merged) = n /\ DOMAIN merged = 1..n
  BY <1>2, <1>3
<1>5. IsInjective(merged)
  BY <1>3 DEF IsInjective
<1>6. merged \in Injection(1..n, A)
  BY <1>3, <1>5 DEF Injection
<1>7. IsFiniteSet(1..n) /\ Cardinality(1..n) = n
  BY <1>2, FS_Interval
<1>8. merged \in Surjection(1..n, A)
  BY <1>1, <1>2, <1>6, <1>7, FS_Injection
<1>9. Range(merged) = A
  BY <1>3, <1>8 DEF Surjection, Range
<1>10. QED
  BY <1>4, <1>5, <1>9

LEMMA IsDiamond ==
  ASSUME NEW i, NEW a \in 1..Len(RuntimeBases(i)), NEW b \in 1..Len(RuntimeBases(i)), a # b,
         NEW x, x \in Range(OrderOf(RuntimeBases(i)[a])), x \in Range(OrderOf(RuntimeBases(i)[b]))
  PROVE  Diamond(i)
  BY DEF Diamond

LEMMA DefineClassKeeps ==
  ASSUME HierarchyIInv, DefineClass
  PROVE  HierarchyIInv'
<1> DEFINE i == Len(orders) + 1
<1> DEFINE S == 1..Len(classes) \cup Elsewhere
<1> DEFINE lists == ToMerge(i)
<1> DEFINE N == Len(classes[i].bases)
<1>1. /\ HierarchyTypeOK /\ OrderInv /\ VisitInv
      /\ Len(orders) \in Nat /\ orders \in Seq(Seq(S)) /\ Len(classes) \in Nat /\ classes \in Hierarchies
      /\ Len(orders) < Len(classes) /\ i \in 1..Len(classes)
      /\ UNCHANGED <<classes, visited, refused, bodies, asked, current, met, resolving, assigned>>
  BY ClassAt, LenProperties DEF HierarchyIInv, HierarchyTypeOK, DefineClass, walkVars
<1>2. visited = 0 /\ resolving = "no" /\ assigned = {}
  BY <1>1 DEF HierarchyTypeOK, Defined
<1>3. \A name \in Range(classes[i].bases) :
        name \in {External, Expression} \/ NamedBefore(i, name) # {}
  BY DEF DefineClass
<1>4. BasesBound(i)
  <2>1. SUFFICES ASSUME NEW b \in 1..N, classes[i].bases[b] \notin {External, Expression}
                 PROVE  RuntimeBases(i)[b] \in NamedBefore(i, classes[i].bases[b])
    BY DEF BasesBound
  <2>2. classes[i].bases[b] \in Range(classes[i].bases)
    <3>1. DOMAIN classes[i].bases = 1..N
      BY <1>1, ClassAt, LenProperties
    <3>2. QED
      BY <3>1 DEF Range
  <2>3. BoundTo(i, classes[i].bases[b]) \in NamedBefore(i, classes[i].bases[b])
    BY <1>1, <1>3, <2>1, <2>2, BaseIsEarlier
  <2>4. QED
    BY <2>3 DEF RuntimeBases
<1>5. PICK merged \in SetToSeqs(AllOf(lists)) :
        IsMerge(merged, lists) /\ orders' = Append(orders, <<i>> \o merged)
  BY DEF DefineClass
<1>6. /\ N \in Nat /\ DOMAIN lists = 1..(N + 1)
      /\ lists[N + 1] = RuntimeBases(i)
      /\ \A p \in 1..N : lists[p] = OrderOf(RuntimeBases(i)[p])
      /\ \A p \in 1..N : /\ 1 \in DOMAIN lists[p] /\ lists[p][1] = RuntimeBases(i)[p]
                         /\ IsInjective(lists[p])
      /\ \A p \in 1..(N + 1) : /\ lists[p] \in Seq(S)
                               /\ \A n \in DOMAIN lists[p] : lists[p][n] \in Elsewhere \cup 1..(i - 1)
  BY <1>1, <1>4, ListsToMerge
<1> HIDE DEF lists
<1>7. AllOf(lists) \subseteq Elsewhere \cup 1..(i - 1) /\ AllOf(lists) \in SUBSET S
  <2>1. AllOf(lists) \subseteq Elsewhere \cup 1..(i - 1)
    BY <1>6 DEF AllOf, Range
  <2>2. QED
    BY <1>1, <2>1
<1>8. IsFiniteSet(S)
  <2>1. IsFiniteSet(1..Len(classes))
    BY <1>1, FS_Interval
  <2>2. IsFiniteSet(Elsewhere)
    <3>1. Elsewhere \in SUBSET ((-2)..(-1))
      BY DEF Elsewhere
    <3>2. PICK a \in Int, b \in Int : a = -2 /\ b = -1
      OBVIOUS
    <3>3. IsFiniteSet(a..b)
      BY FS_Interval
    <3>4. QED
      BY <3>1, <3>2, <3>3, FS_Subset
  <2>3. QED
    BY <2>1, <2>2, FS_Union
<1>9. /\ merged \in Seq(S) /\ DOMAIN merged = 1..Len(merged) /\ Len(merged) \in Nat
      /\ IsInjective(merged) /\ Range(merged) = AllOf(lists)
  BY <1>5, <1>7, <1>8, SequenceOfSet
<1> DEFINE order == <<i>> \o merged
<1>10. /\ order \in Seq(S) /\ Len(order) = Len(merged) + 1 /\ order[1] = i
       /\ \A n \in 1..Len(merged) : order[n + 1] = merged[n]
  <2>1. <<i>> \in Seq(S) /\ Len(<<i>>) = 1
    BY <1>1
  <2>2. /\ order \in Seq(S) /\ Len(order) = 1 + Len(merged)
        /\ \A n \in 1..(1 + Len(merged)) : order[n] = IF n <= 1 THEN <<i>>[n] ELSE merged[n - 1]
    BY <1>9, <2>1, ConcatProperties
  <2> HIDE DEF order
  <2>3. \A n \in 1..Len(merged) : order[n + 1] = merged[n]
    <3>1. SUFFICES ASSUME NEW n \in 1..Len(merged) PROVE order[n + 1] = merged[n]
      OBVIOUS
    <3>2. n + 1 \in 1..(1 + Len(merged)) /\ ~(n + 1 <= 1) /\ (n + 1) - 1 = n
      BY <1>9
    <3>3. QED
      BY <2>2, <3>2
  <2>4. QED
    BY <1>9, <2>2, <2>3
<1> HIDE DEF order
<1>11. orders' \in Seq(Seq(S)) /\ Len(orders') = i
       /\ orders'[i] = order /\ \A k \in 1..Len(orders) : orders'[k] = orders[k]
  BY <1>1, <1>5, <1>10 DEF order
<1>12. HierarchyTypeOK'
  BY <1>1, <1>2, <1>11 DEF HierarchyTypeOK, Defined
<1>13. \A k \in 1..Len(merged) : merged[k] \in Elsewhere \cup 1..(i - 1)
  BY <1>7, <1>9 DEF Range
<1>14. IsInjective(order) /\ order # <<>> /\ \A n \in 2..Len(order) : order[n] < i
  <2>1. DOMAIN order = 1..(Len(merged) + 1)
    BY <1>10, LenProperties
  <2>2. \A n \in 2..(Len(merged) + 1) : n - 1 \in 1..Len(merged) /\ order[n] = merged[n - 1]
    <3>1. SUFFICES ASSUME NEW n \in 2..(Len(merged) + 1)
                   PROVE  n - 1 \in 1..Len(merged) /\ order[n] = merged[n - 1]
      OBVIOUS
    <3>2. n - 1 \in 1..Len(merged) /\ (n - 1) + 1 = n
      BY <1>9
    <3>3. QED
      BY <1>10, <3>2
  <2>3. \A n \in 2..(Len(merged) + 1) : order[n] < i
    <3>1. \A k \in Elsewhere \cup 1..(i - 1) : k < i
      BY <1>1 DEF Elsewhere
    <3>2. QED
      BY <1>13, <2>2, <3>1
  <2>4. IsInjective(order)
    <3>1. SUFFICES ASSUME NEW a \in 1..(Len(merged) + 1), NEW b \in 1..(Len(merged) + 1),
                          order[a] = order[b]
                   PROVE  a = b
      BY <2>1 DEF IsInjective
    <3>2. CASE a = 1 \/ b = 1
      BY <1>1, <1>9, <1>10, <2>3, <3>1, <3>2
    <3>3. CASE a # 1 /\ b # 1
      <4>1. a \in 2..(Len(merged) + 1) /\ b \in 2..(Len(merged) + 1)
        BY <1>9, <3>3
      <4>2. merged[a - 1] = merged[b - 1] /\ a - 1 \in 1..Len(merged) /\ b - 1 \in 1..Len(merged)
        BY <2>2, <3>1, <4>1
      <4>3. a - 1 = b - 1
        BY <1>9, <4>2 DEF IsInjective
      <4>4. QED
        BY <4>1, <4>3
    <3>4. QED
      BY <3>2, <3>3
  <2>5. order # <<>>
    BY <1>9, <1>10, EmptySeq
  <2>6. QED
    BY <1>9, <1>10, <2>3, <2>4, <2>5
<1>15. ASSUME ~Diamond(i), classes[i].bases # <<>>
       PROVE  GoesOnWith(order, 1, OrderOf(RuntimeBases(i)[1]))
  <2>1. N >= 1
    <3>1. classes[i].bases \in Seq(ClassNames \cup {External, Expression})
      BY <1>1, ClassAt
    <3>2. QED
      BY <1>6, <1>15, <3>1, EmptySeq
  <2> DEFINE first == lists[1]
  <2>2. 1 \in 1..N /\ first = OrderOf(RuntimeBases(i)[1])
    BY <1>6, <2>1
  <2>3. first \in Seq(S) /\ DOMAIN first = 1..Len(first) /\ Len(first) \in Nat /\ IsInjective(first)
    BY <1>6, <2>2, LenProperties
  <2>4. ASSUME NEW q \in 2..(N + 1)
        PROVE  /\ \A n \in DOMAIN lists[q] : n \in Nat
               /\ \A n \in DOMAIN lists[q], k \in 1..Len(first) : lists[q][n] = first[k] => n = 1
    <3>1. q \in 1..(N + 1) /\ q # 1 /\ DOMAIN lists[q] = 1..Len(lists[q]) /\ Len(lists[q]) \in Nat
      BY <1>6, LenProperties
    <3>2. SUFFICES ASSUME NEW n \in DOMAIN lists[q], NEW k \in 1..Len(first), lists[q][n] = first[k], n # 1
                   PROVE  FALSE
      BY <3>1
    <3>3. first[k] \in Range(OrderOf(RuntimeBases(i)[1]))
      BY <2>2, <2>3 DEF Range
    <3>4. Len(RuntimeBases(i)) = N /\ DOMAIN RuntimeBases(i) = 1..N
      BY <1>1, <1>4, BasesAreBefore
    <3>5. CASE q \in 1..N
      <4>1. first[k] \in Range(OrderOf(RuntimeBases(i)[q]))
        BY <1>6, <3>2, <3>5 DEF Range
      <4>2. Diamond(i)
        BY <2>2, <3>1, <3>3, <3>4, <3>5, <4>1, IsDiamond
      <4>3. QED
        BY <1>15, <4>2
    <3>6. CASE q = N + 1
      <4>1. n \in 1..N /\ RuntimeBases(i)[n] = first[k]
        BY <1>6, <3>2, <3>4, <3>6
      <4>2. first[k] \in Range(OrderOf(RuntimeBases(i)[n]))
        BY <1>6, <4>1 DEF Range
      <4>3. Diamond(i)
        BY <2>2, <3>2, <3>3, <3>4, <4>1, <4>2, IsDiamond
      <4>4. QED
        BY <1>15, <4>3
    <3>7. QED
      BY SMTT(40), <1>6, <3>5, <3>6
  <2>5. Len(first) <= Len(merged) /\ \A n \in 1..Len(first) : merged[n] = first[n]
    <3>1. PICK m \in Nat \ {0} : m = N + 1
      BY <1>6
    <3>2. PICK M \in Nat : M = Len(first)
      BY SMTT(40), <2>3
    <3>3. PICK K \in Nat : K = Len(merged)
      BY <1>9
    <3>4. /\ DOMAIN lists = 1..m /\ first = lists[1] /\ DOMAIN first = 1..M /\ IsInjective(first)
          /\ DOMAIN merged = 1..K /\ IsInjective(merged)
          /\ Range(merged) = AllOf(lists) /\ IsMerge(merged, lists)
      BY <1>5, <1>6, <1>9, <2>3, <3>1, <3>2, <3>3 DEF lists
    <3>5. \A q \in 2..m : /\ \A n \in DOMAIN lists[q] : n \in Nat
                          /\ \A n \in DOMAIN lists[q], k \in 1..M : lists[q][n] = first[k] => n = 1
      BY <2>4, <3>1, <3>2
    <3> HIDE DEF first
    <3>6. M <= K /\ \A n \in 1..M : merged[n] = first[n]
      BY <3>4, <3>5, MergeStartsWithFirst
    <3>7. QED
      BY <3>2, <3>3, <3>6
  <2> HIDE DEF first
  <2>6. 1 + Len(first) <= Len(order)
    BY <1>9, <1>10, <2>3, <2>5
  <2>7. ASSUME NEW j \in 1..Len(first) PROVE order[1 + j] = first[j]
    <3>1. j \in 1..Len(merged) /\ 1 + j = j + 1
      BY <1>9, <2>3, <2>5
    <3>2. QED
      BY <1>10, <2>5, <3>1
  <2>8. QED
    BY <2>2, <2>6, <2>7 DEF GoesOnWith
<1>16. OrderInv'
  <2>1. SUFFICES ASSUME NEW k \in 1..i
                 PROVE  /\ IsInjective(orders'[k]) /\ orders'[k] # <<>> /\ orders'[k][1] = k
                        /\ \A n \in 2..Len(orders'[k]) : orders'[k][n] < k
                        /\ BasesBound(k)'
                        /\ Diamond(k)' \/ classes[k].bases = <<>>
                             \/ GoesOnWith(orders'[k], 1, OrderOf(RuntimeBases(k)[1])')
    BY <1>1, <1>11 DEF OrderInv, GoesOnWith, OrderOf
  <2>2. k \in 1..Len(classes) /\ k <= Len(orders) + 1
    BY <1>1
  <2>3. BasesBound(k)
    BY <1>1, <1>4, <2>1 DEF OrderInv
  <2>4. /\ BasesBound(k)' /\ (Diamond(k)' <=> Diamond(k))
        /\ \A b \in 1..Len(classes[k].bases) : OrderOf(RuntimeBases(k)[b])' = OrderOf(RuntimeBases(k)[b])
    BY <1>1, <1>5, <2>2, <2>3, OrdersStay
  <2>5. classes[k].bases # <<>> => OrderOf(RuntimeBases(k)[1])' = OrderOf(RuntimeBases(k)[1])
    <3>1. classes[k].bases \in Seq(ClassNames \cup {External, Expression})
      BY <1>1, <2>2, ClassAt
    <3>2. classes[k].bases # <<>> => 1 \in 1..Len(classes[k].bases)
      BY <3>1, EmptySeq
    <3>3. QED
      BY <2>4, <3>2
  <2>6. CASE k = i
    BY <1>10, <1>11, <1>14, <1>15, <2>4, <2>5, <2>6
  <2>7. CASE k \in 1..Len(orders)
    <3>1. orders'[k] = orders[k]
      BY <1>11, <2>7
    <3>2. /\ IsInjective(orders[k]) /\ orders[k] # <<>> /\ orders[k][1] = k
          /\ \A n \in 2..Len(orders[k]) : orders[k][n] < k
          /\ Diamond(k) \/ classes[k].bases = <<>> \/ GoesOnWith(orders[k], 1, OrderOf(RuntimeBases(k)[1]))
      BY <1>1, <2>7 DEF OrderInv
    <3>3. QED
      BY <2>4, <2>5, <3>1, <3>2
  <2>8. QED
    BY <1>1, <2>6, <2>7
<1>17. VisitInv'
  BY <1>1, <1>2 DEF VisitInv
<1>18. WalkInv'
  BY <1>1, <1>2 DEF WalkInv
<1>19. QED
  BY <1>12, <1>16, <1>17, <1>18 DEF HierarchyIInv

(* What depends only on the classes and their orders stays with them.        *)
LEMMA OrdersAndClassesStay ==
  ASSUME UNCHANGED <<classes, orders>>
  PROVE  /\ \A i : BasesBound(i)' <=> BasesBound(i)
         /\ \A i : Diamond(i)' <=> Diamond(i)
         /\ \A i : OrderOf(RuntimeBases(i)[1])' = OrderOf(RuntimeBases(i)[1])
         /\ \A name : Known(name)' = Known(name)
         /\ \A i, base : BodyOf(i, base)' = BodyOf(i, base)
         /\ OrderInv => OrderInv'
<1>1. \A i : RuntimeBases(i)' = RuntimeBases(i)
  BY DEF RuntimeBases, BoundTo, NamedBefore
<1>2. \A i : BasesBound(i)' <=> BasesBound(i)
  BY DEF RuntimeBases, BoundTo, NamedBefore, BasesBound
<1>3. \A k : OrderOf(k)' = OrderOf(k)
  BY DEF OrderOf
<1>4. \A i, a : OrderOf(RuntimeBases(i)[a])' = OrderOf(RuntimeBases(i)[a])
  BY DEF OrderOf, RuntimeBases, BoundTo, NamedBefore
<1>5. \A i : Diamond(i)' <=> Diamond(i)
  <2>1. SUFFICES ASSUME NEW i PROVE Diamond(i)' <=> Diamond(i)
    OBVIOUS
  <2>2. RuntimeBases(i)' = RuntimeBases(i)
    BY <1>1
  <2>3. orders' = orders
    OBVIOUS
  <2>4. QED
    BY <2>2, <2>3 DEF Diamond, OrderOf
<1>6. \A name : Known(name)' = Known(name)
  BY DEF Known
<1>7. \A i, base : BodyOf(i, base)' = BodyOf(i, base)
  BY DEF BodyOf, Copied
<1>8. OrderInv => OrderInv'
  BY <1>2, <1>4, <1>5 DEF OrderInv, GoesOnWith
<1>9. QED
  BY <1>2, <1>4, <1>5, <1>6, <1>7, <1>8

LEMMA PlainStays ==
  ASSUME UNCHANGED <<classes, orders, asked>>
  PROVE  Plain(asked[1])' <=> Plain(asked[1])
<1>1. Ancestors(asked[1])' = Ancestors(asked[1])
  BY DEF Ancestors
<1>2. UniqueNames' <=> UniqueNames
  BY DEF UniqueNames
<1>3. \A i : Diamond(i)' <=> Diamond(i)
  BY OrdersAndClassesStay
<1>4. QED
  BY <1>1, <1>2, <1>3 DEF Plain

LEMMA VisitInvStays ==
  ASSUME VisitInv, UNCHANGED <<classes, visited, refused, bodies>>
  PROVE  VisitInv'
<1>1. \A name : Known(name)' = Known(name)
  BY DEF Known
<1>2. \A i, base : BodyOf(i, base)' = BodyOf(i, base)
  BY DEF BodyOf, Copied
<1>3. QED
  BY <1>1, <1>2 DEF VisitInv, SingleKnownBase

LEMMA VisitClassKeeps ==
  ASSUME HierarchyIInv, VisitClass
  PROVE  HierarchyIInv'
<1> DEFINE i == visited + 1
<1> DEFINE bases == classes[i].bases
<1> DEFINE flattens == bases # <<>> /\ SingleKnownBase(bases)
<1> DEFINE body == BodyOf(i, IF flattens THEN Known(bases[1]) ELSE 0)
<1>1. /\ HierarchyTypeOK /\ OrderInv /\ VisitInv /\ WalkInv /\ classes \in Hierarchies
      /\ Len(classes) \in Nat /\ visited \in Nat /\ i \in 1..Len(classes) /\ Defined
      /\ bodies \in Seq([Members -> 0..Len(classes) \cup {Altered}]) /\ Len(bodies) = visited
      /\ UNCHANGED <<classes, orders, asked, current, met, resolving, assigned>>
  BY ClassAt DEF HierarchyIInv, HierarchyTypeOK, VisitClass, walkVars
<1>2. /\ bodies' = Append(bodies, body) /\ visited' = i
      /\ refused' = (refused \/ (bases # <<>> /\ ~flattens))
  BY DEF VisitClass
<1>3. body \in [Members -> 0..Len(classes) \cup {Altered}]
  <2>1. PICK base \in 0..Len(classes) : body = BodyOf(i, base)
    <3>1. Known(bases[1]) \in 0..Len(classes)
      BY <1>1, KnownIsNamed
    <3>2. CASE flattens
      BY <3>1, <3>2
    <3>3. CASE ~flattens
      BY <1>1, <3>3
    <3>4. QED
      BY <3>2, <3>3
  <2>2. BodyOf(i, base) \in [Members -> 0..Len(classes) \cup {Altered}]
    BY <1>1 DEF BodyOf, Copied
  <2>3. QED
    BY <2>1, <2>2
<1> HIDE DEF body
<1>4. /\ bodies' \in Seq([Members -> 0..Len(classes) \cup {Altered}]) /\ Len(bodies') = i /\ bodies'[i] = body
      /\ \A k \in 1..visited : bodies'[k] = bodies[k]
  BY <1>1, <1>2, <1>3
<1>5. HierarchyTypeOK'
  <2>1. refused' \in BOOLEAN
    BY <1>1, <1>2 DEF HierarchyTypeOK
  <2>2. QED
    BY <1>1, <1>2, <1>4, <2>1 DEF HierarchyTypeOK, Defined
<1>6. OrderInv'
  BY <1>1, OrdersAndClassesStay
<1>7. VisitInv'
  <2> DEFINE Flattens(k) == classes[k].bases # <<>> /\ SingleKnownBase(classes[k].bases)
  <2>1. SUFFICES ASSUME NEW k \in 1..i
                 PROVE  /\ bodies'[k] = BodyOf(k, IF Flattens(k) THEN Known(classes[k].bases[1]) ELSE 0)
                        /\ refused' \/ Flattens(k) \/ classes[k].bases = <<>>
    <3>1. /\ \A name : Known(name)' = Known(name)
          /\ \A k, base : BodyOf(k, base)' = BodyOf(k, base)
      BY <1>1, OrdersAndClassesStay
    <3>2. QED
      BY <1>1, <1>2, <3>1 DEF VisitInv, SingleKnownBase
  <2>2. CASE k = i
    BY <1>2, <1>4, <2>2 DEF body
  <2>3. CASE k \in 1..visited
    BY <1>1, <1>2, <1>4, <2>3 DEF VisitInv
  <2>4. QED
    BY <1>1, <2>2, <2>3
<1>8. WalkInv'
  <2>1. Plain(asked[1])' <=> Plain(asked[1])
    BY <1>1, PlainStays
  <2>2. QED
    BY <1>1, <2>1 DEF WalkInv, GoesOnWith
<1>9. QED
  BY <1>5, <1>6, <1>7, <1>8 DEF HierarchyIInv

LEMMA AssignKeeps ==
  ASSUME HierarchyIInv, AssignAttribute
  PROVE  HierarchyIInv'
<1>1. /\ HierarchyTypeOK /\ OrderInv /\ VisitInv /\ WalkInv
      /\ Defined /\ resolving # "walking"
      /\ UNCHANGED <<classes, orders, visited, refused, bodies, asked, current, met, resolving>>
  BY DEF HierarchyIInv, AssignAttribute, walkVars
<1>2. PICK k \in 1..Len(classes), m \in Members : assigned' = assigned \cup {<<k, m>>}
  BY DEF AssignAttribute
<1>3. HierarchyTypeOK'
  <2>1. assigned' \subseteq (1..Len(classes)) \X Members
    BY <1>1, <1>2 DEF HierarchyTypeOK
  <2>2. QED
    BY <1>1, <2>1 DEF HierarchyTypeOK, Defined
<1>4. OrderInv'
  BY <1>1, OrdersAndClassesStay
<1>5. VisitInv'
  BY <1>1, VisitInvStays
<1>6. WalkInv'
  <2>1. Plain(asked[1])' <=> Plain(asked[1])
    BY <1>1, PlainStays
  <2>2. QED
    BY <1>1, <2>1 DEF WalkInv, GoesOnWith
<1>7. QED
  BY <1>3, <1>4, <1>5, <1>6 DEF HierarchyIInv

(* What a step of the walk has to show.                                      *)
WalkHolds(a, m, c, answered) ==
    Plain(a) /\ c # 0 =>
        /\ \E n \in 0..Len(orders[a]) :
              /\ GoesOnWith(orders[a], n, orders[c])
              /\ \A j \in 1..n : /\ orders[a][j] \in 1..Len(classes)
                                /\ m \notin classes[orders[a][j]].methods
        /\ answered => m \in classes[c].methods

LEMMA WalkStep ==
  ASSUME HierarchyIInv, UNCHANGED <<classes, orders, visited, refused, bodies, assigned>>,
         Defined, asked' \in (1..Len(classes)) \X Members,
         current' \in 0..Len(classes), met' \subseteq 1..Len(classes),
         resolving' \in {"walking", "answered"},
         resolving' = "walking" => current' # 0 /\ assigned = {},
         WalkHolds(asked'[1], asked'[2], current', resolving' = "answered")
  PROVE  HierarchyIInv'
<1>1. HierarchyTypeOK /\ OrderInv /\ VisitInv
  BY DEF HierarchyIInv
<1>2. HierarchyTypeOK'
  BY <1>1 DEF HierarchyTypeOK, Defined
<1>3. OrderInv'
  BY <1>1, OrdersAndClassesStay
<1>4. VisitInv'
  BY <1>1, VisitInvStays
<1>5. WalkInv'
  <2>1. Plain(asked[1])' <=> Plain(asked'[1])
    BY DEF Plain, Ancestors, UniqueNames, Diamond, RuntimeBases, BoundTo, NamedBefore, OrderOf
  <2>2. QED
    BY <2>1 DEF WalkInv, WalkHolds, GoesOnWith
<1>6. QED
  BY <1>2, <1>3, <1>4, <1>5 DEF HierarchyIInv

LEMMA AskKeeps ==
  ASSUME HierarchyIInv, AskForMethod
  PROVE  HierarchyIInv'
<1>1. /\ HierarchyTypeOK /\ OrderInv /\ classes \in Hierarchies /\ Defined /\ assigned = {}
      /\ UNCHANGED <<classes, orders, visited, refused, bodies, assigned>>
      /\ met' = {} /\ resolving' = "walking"
  BY DEF HierarchyIInv, HierarchyTypeOK, AskForMethod
<1>2. PICK i \in 1..Len(classes), m \in Members :
        asked' = <<i, m>> /\ current' = Known(classes[i].name)
  BY DEF AskForMethod
<1>3. current' \in 1..Len(classes) /\ classes[current'].name = classes[i].name
  <2>1. Known(classes[i].name) \in 0..Len(classes) /\ Known(classes[i].name) # 0
        /\ classes[Known(classes[i].name)].name = classes[i].name
    BY <1>1, KnownIsNamed
  <2>2. QED
    BY <1>1, <1>2, <2>1, ClassAt
<1>4. WalkHolds(i, m, current', FALSE)
  <2>1. SUFFICES ASSUME Plain(i)
                 PROVE  \E n \in 0..Len(orders[i]) :
                           /\ GoesOnWith(orders[i], n, orders[current'])
                           /\ \A j \in 1..n : /\ orders[i][j] \in 1..Len(classes)
                                             /\ m \notin classes[orders[i][j]].methods
    BY DEF WalkHolds
  <2>2. current' = i
    BY <1>3, <2>1 DEF Plain, UniqueNames
  <2>3. Len(orders[i]) \in Nat
    BY <1>1, OrderAt DEF Defined
  <2>4. GoesOnWith(orders[i], 0, orders[i])
    BY <2>3 DEF GoesOnWith
  <2>5. QED
    BY <2>2, <2>3, <2>4
<1>5. asked'[1] = i /\ asked'[2] = m /\ asked' \in (1..Len(classes)) \X Members
  BY <1>2
<1>6. resolving' \in {"walking", "answered"} /\ (resolving' = "answered") = FALSE
  BY <1>1
<1>7. WalkHolds(asked'[1], asked'[2], current', resolving' = "answered")
  BY <1>4, <1>5, <1>6
<1>8. current' \in 0..Len(classes) /\ current' # 0 /\ met' \subseteq 1..Len(classes)
  BY <1>1, <1>3, ClassAt
<1>9. QED
  BY <1>1, <1>5, <1>6, <1>7, <1>8, WalkStep

(* What is known while a walk is under way.                                  *)
LEMMA WhileWalking ==
  ASSUME HierarchyIInv, resolving = "walking"
  PROVE  /\ HierarchyTypeOK /\ OrderInv /\ Defined /\ classes \in Hierarchies
         /\ asked \in (1..Len(classes)) \X Members /\ assigned = {}
         /\ current \in 1..Len(classes) /\ met \subseteq 1..Len(classes)
         /\ WalkHolds(asked[1], asked[2], current, FALSE)
<1>1. HierarchyTypeOK /\ OrderInv /\ WalkInv /\ classes \in Hierarchies
  BY DEF HierarchyIInv, HierarchyTypeOK
<1>2. /\ Defined /\ asked \in (1..Len(classes)) \X Members /\ assigned = {}
      /\ current \in 0..Len(classes) /\ current # 0 /\ met \subseteq 1..Len(classes)
  BY <1>1 DEF HierarchyTypeOK
<1>3. current \in 1..Len(classes)
  BY <1>1, <1>2, ClassAt
<1>4. WalkHolds(asked[1], asked[2], current, FALSE)
  BY <1>1 DEF WalkInv, WalkHolds
<1>5. QED
  BY <1>1, <1>2, <1>3, <1>4

LEMMA FindMethodKeeps ==
  ASSUME HierarchyIInv, FindMethod
  PROVE  HierarchyIInv'
<1>1. /\ resolving = "walking" /\ asked[2] \in classes[current].methods /\ resolving' = "answered"
      /\ UNCHANGED <<classes, orders, visited, refused, bodies, asked, current, met, assigned>>
  BY DEF FindMethod
<1>2. /\ HierarchyTypeOK /\ Defined /\ asked \in (1..Len(classes)) \X Members
      /\ current \in 0..Len(classes) /\ met \subseteq 1..Len(classes)
      /\ WalkHolds(asked[1], asked[2], current, FALSE)
  BY <1>1, WhileWalking DEF HierarchyTypeOK
<1>3. WalkHolds(asked[1], asked[2], current, TRUE)
  BY <1>1, <1>2 DEF WalkHolds
<1>4. WalkHolds(asked'[1], asked'[2], current', resolving' = "answered")
  BY <1>1, <1>3
<1>5. resolving' \in {"walking", "answered"} /\ resolving' # "walking"
  BY <1>1
<1>6. QED
  BY <1>1, <1>2, <1>4, <1>5, WalkStep

LEMMA FindNothingKeeps ==
  ASSUME HierarchyIInv, FindNothing
  PROVE  HierarchyIInv'
<1>1. /\ resolving = "walking" /\ current' = 0 /\ resolving' = "answered"
      /\ UNCHANGED <<classes, orders, visited, refused, bodies, asked, met, assigned>>
  BY DEF FindNothing
<1>2. /\ Defined /\ asked \in (1..Len(classes)) \X Members /\ classes \in Hierarchies
      /\ met \subseteq 1..Len(classes)
  BY <1>1, WhileWalking
<1>3. current' \in 0..Len(classes)
  BY <1>1, <1>2, ClassAt
<1>4. WalkHolds(asked'[1], asked'[2], current', resolving' = "answered")
  BY <1>1 DEF WalkHolds
<1>5. resolving' \in {"walking", "answered"} /\ resolving' # "walking"
  BY <1>1
<1>6. QED
  BY <1>1, <1>2, <1>3, <1>4, <1>5, WalkStep

(* Where no class shares its name, the class that is known of a first base is *)
(* the one it was bound to.                                                  *)
LEMMA KnownIsBound ==
  ASSUME classes \in Hierarchies, UniqueNames, NEW i \in 1..Len(classes), BasesBound(i),
         1 \in 1..Len(classes[i].bases), Known(classes[i].bases[1]) # 0
  PROVE  LET k == Known(classes[i].bases[1]) IN
         /\ k \in 1..Len(classes) /\ RuntimeBases(i)[1] = k /\ OrderOf(k) = orders[k]
<1> DEFINE bases == classes[i].bases
<1>1. Len(classes) \in Nat /\ Len(bases) \in Nat
  BY ClassAt
<1>2. PICK k \in 1..Len(classes) : k = Known(bases[1]) /\ classes[k].name = bases[1]
  <2>1. Known(bases[1]) \in 0..Len(classes) /\ classes[Known(bases[1])].name = bases[1]
    BY KnownIsNamed
  <2>2. QED
    BY <1>1, <2>1
<1>3. bases[1] \notin {External, Expression}
  BY <1>2, ClassAt, HierarchiesAssumption
<1>4. RuntimeBases(i)[1] \in NamedBefore(i, bases[1])
  BY <1>3 DEF BasesBound
<1>5. RuntimeBases(i)[1] = k
  <2>1. RuntimeBases(i)[1] \in 1..Len(classes) /\ classes[RuntimeBases(i)[1]].name = bases[1]
    BY <1>1, <1>4 DEF NamedBefore
  <2>2. QED
    BY <1>2, <2>1 DEF UniqueNames
<1>6. OrderOf(k) = orders[k]
  <2>1. k \notin Elsewhere
    BY <1>1 DEF Elsewhere
  <2>2. QED
    BY <2>1 DEF OrderOf
<1>7. QED
  BY <1>2, <1>5, <1>6

(* The first base that is a name is the one that CPython's order goes on     *)
(* with, where all bases are names and no class shares its name.             *)
LEMMA FirstBaseIsNext ==
  ASSUME HierarchyTypeOK, OrderInv, Defined, UniqueNames, NEW c \in 1..Len(classes),
         ~Diamond(c), Expression \notin Range(classes[c].bases), NextBase(c) # 0
  PROVE  NextBase(c) \in 1..Len(classes) /\ GoesOnWith(orders[c], 1, orders[NextBase(c)])
<1> DEFINE bases == classes[c].bases
<1> DEFINE named == {b \in 1..Len(bases) : bases[b] # Expression}
<1>1. /\ classes \in Hierarchies /\ Len(classes) \in Nat /\ bases \in Seq(ClassNames \cup {External, Expression})
      /\ Len(bases) \in Nat /\ DOMAIN bases = 1..Len(bases) /\ Len(orders) = Len(classes)
  BY ClassAt, LenProperties DEF HierarchyTypeOK, Defined
<1>2. named # {} /\ NextBase(c) = Known(bases[Min(named)])
  BY DEF NextBase, Follow
<1>3. named = 1..Len(bases)
  BY <1>1 DEF Range
<1>4. Min(named) = 1 /\ 1 \in 1..Len(bases)
  <2>1. 1 \in named /\ named \in SUBSET Nat
    BY <1>1, <1>2, <1>3
  <2>2. Min(named) \in named /\ Min(named) <= 1
    BY <2>1, LeastPosition
  <2>3. QED
    BY <1>3, <2>1, <2>2
<1>5. PICK k \in 1..Len(classes) : k = NextBase(c) /\ RuntimeBases(c)[1] = k /\ OrderOf(k) = orders[k]
  <2>1. NextBase(c) = Known(bases[1]) /\ BasesBound(c)
    BY <1>1, <1>2, <1>4 DEF OrderInv
  <2>2. QED
    BY <1>1, <1>4, <2>1, KnownIsBound
<1>6. bases # <<>>
  BY <1>4, EmptySeq
<1>7. GoesOnWith(orders[c], 1, OrderOf(RuntimeBases(c)[1]))
  BY <1>1, <1>6 DEF OrderInv
<1>8. QED
  BY <1>5, <1>7

LEMMA FollowBaseKeeps ==
  ASSUME HierarchyIInv, FollowBase
  PROVE  HierarchyIInv'
<1> DEFINE a == asked[1]
<1> DEFINE m == asked[2]
<1> DEFINE order == orders[a]
<1> DEFINE next == NextBase(current)
<1>1. /\ resolving = "walking" /\ m \notin classes[current].methods /\ next # 0
      /\ current' = next /\ met' = met \cup {current}
      /\ UNCHANGED <<classes, orders, visited, refused, bodies, asked, resolving, assigned>>
  BY DEF FollowBase
<1>2. /\ HierarchyTypeOK /\ OrderInv /\ Defined /\ asked \in (1..Len(classes)) \X Members
      /\ current \in 1..Len(classes) /\ met \subseteq 1..Len(classes) /\ assigned = {}
      /\ classes \in Hierarchies /\ Len(classes) \in Nat
      /\ WalkHolds(a, m, current, FALSE)
  BY <1>1, WhileWalking, ClassAt
<1>3. next \in 0..Len(classes)
  BY <1>2, KnownIsNamed DEF NextBase
<1>4. WalkHolds(a, m, next, FALSE)
  <2>1. SUFFICES ASSUME Plain(a)
                 PROVE  \E n \in 0..Len(order) :
                           /\ GoesOnWith(order, n, orders[next])
                           /\ \A j \in 1..n : /\ order[j] \in 1..Len(classes)
                                             /\ m \notin classes[order[j]].methods
    BY DEF WalkHolds
  <2>2. PICK n \in 0..Len(order) :
            /\ GoesOnWith(order, n, orders[current])
            /\ \A j \in 1..n : order[j] \in 1..Len(classes) /\ m \notin classes[order[j]].methods
    BY <1>2, <2>1 DEF WalkHolds
  <2>3. /\ a \in 1..Len(orders) /\ current \in 1..Len(orders)
        /\ Len(order) \in Nat /\ DOMAIN order = 1..Len(order)
        /\ Len(orders[current]) \in Nat /\ 1 \in 1..Len(orders[current]) /\ orders[current][1] = current
    <3>1. a \in 1..Len(orders) /\ current \in 1..Len(orders)
      BY <1>2 DEF Defined
    <3>2. QED
      BY <1>2, <3>1, OrderAt
  <2>4. n + Len(orders[current]) <= Len(order) /\ \A j \in 1..Len(orders[current]) : order[n + j] = orders[current][j]
    BY <2>2 DEF GoesOnWith
  <2>5. n + 1 \in 1..Len(order) /\ order[n + 1] = current
    BY SMTT(40), <2>3, <2>4
  <2>6. current \in Ancestors(a)
    <3>1. current \in Range(order)
      BY <2>3, <2>5 DEF Range
    <3>2. current \notin Elsewhere
      BY <1>2 DEF Elsewhere
    <3>3. QED
      BY <3>1, <3>2 DEF Ancestors
  <2>7. UniqueNames /\ ~Diamond(current) /\ Expression \notin Range(classes[current].bases)
    BY <2>1, <2>6 DEF Plain
  <2>8. next \in 1..Len(classes) /\ GoesOnWith(orders[current], 1, orders[next])
    BY <1>1, <1>2, <2>7, FirstBaseIsNext
  <2>9. /\ Len(orders[next]) \in Nat /\ 1 + Len(orders[next]) <= Len(orders[current])
        /\ \A j \in 1..Len(orders[next]) : orders[current][1 + j] = orders[next][j]
    BY <1>2, <2>8, OrderAt DEF GoesOnWith, Defined
  <2>10. GoesOnWith(order, n + 1, orders[next])
    <3>1. (n + 1) + Len(orders[next]) <= Len(order)
      <4>1. PICK x \in Nat, y \in Nat, z \in Nat :
              x = Len(orders[next]) /\ y = Len(orders[current]) /\ z = Len(order)
        BY <2>3, <2>9
      <4>2. n \in Nat /\ 1 + x <= y /\ n + y <= z
        BY <2>4, <2>9, <4>1
      <4>3. (n + 1) + x <= z
        BY <4>2
      <4>4. QED
        BY <4>1, <4>3
    <3>2. ASSUME NEW j \in 1..Len(orders[next]) PROVE order[(n + 1) + j] = orders[next][j]
      <4>1. 1 + j \in 1..Len(orders[current]) /\ n + (1 + j) = (n + 1) + j
        <5>1. \A x \in Nat, y \in Nat : \A k \in 1..x : 1 + x <= y => 1 + k \in 1..y
          OBVIOUS
        <5>2. 1 + j \in 1..Len(orders[current])
          BY <2>3, <2>9, <5>1
        <5>3. \A k \in 1..Len(orders[next]) : n + (1 + k) = (n + 1) + k
          BY <2>9
        <5>4. QED
          BY <5>2, <5>3
      <4>2. order[n + (1 + j)] = orders[current][1 + j]
        BY <2>4, <4>1
      <4>3. orders[current][1 + j] = orders[next][j]
        BY <2>9
      <4>4. QED
        BY <4>1, <4>2, <4>3
    <3>3. QED
      BY <3>1, <3>2 DEF GoesOnWith
  <2>11. ASSUME NEW j \in 1..(n + 1)
         PROVE  order[j] \in 1..Len(classes) /\ m \notin classes[order[j]].methods
    <3>1. CASE j = n + 1
      BY <1>1, <1>2, <2>5, <3>1
    <3>2. CASE j # n + 1
      BY <2>2, <3>2
    <3>3. QED
      BY <3>1, <3>2
  <2>12. QED
    BY <2>5, <2>10, <2>11
<1>5. resolving' \in {"walking", "answered"} /\ (resolving' = "answered") = FALSE
  BY <1>1
<1>6. WalkHolds(asked'[1], asked'[2], current', resolving' = "answered")
  BY <1>1, <1>4, <1>5
<1>7. met' \subseteq 1..Len(classes) /\ current' \in 0..Len(classes) /\ current' # 0
  BY <1>1, <1>2, <1>3
<1>8. asked' \in (1..Len(classes)) \X Members
  BY <1>1, <1>2
<1>9. QED
  BY <1>1, <1>2, <1>5, <1>6, <1>7, <1>8, WalkStep

(* The inductive invariant of classes and of what the facts make of them.    *)
THEOREM HierarchyInductive == HierarchySpec => []HierarchyIInv
<1>1. HierarchyInit => HierarchyIInv
  <2>1. SUFFICES ASSUME HierarchyInit PROVE HierarchyIInv
    OBVIOUS
  <2>2. Len(classes) \in Nat
    BY <2>1, ClassAt DEF HierarchyInit
  <2>3. /\ orders \in Seq(Seq(1..Len(classes) \cup Elsewhere)) /\ Len(orders) = 0
        /\ bodies \in Seq([Members -> 0..Len(classes) \cup {Altered}]) /\ Len(bodies) = 0
    BY <2>1, EmptySeq DEF HierarchyInit
  <2>4. HierarchyTypeOK
    <3>1. Len(orders) <= Len(classes) /\ visited \in 0..Len(classes)
            /\ Len(bodies) = visited /\ current \in 0..Len(classes)
      BY <2>1, <2>2, <2>3 DEF HierarchyInit
    <3>2. refused \in BOOLEAN /\ met \subseteq 1..Len(classes)
            /\ assigned \subseteq (1..Len(classes)) \X Members
      BY <2>1 DEF HierarchyInit
    <3>3. resolving = "no" /\ resolving # "walking"
      BY <2>1 DEF HierarchyInit
    <3>4. ~(visited > 0 \/ assigned # {})
      BY <2>1 DEF HierarchyInit
    <3>5. classes \in Hierarchies
      BY <2>1 DEF HierarchyInit
    <3>6. QED
      BY <2>3, <3>1, <3>2, <3>3, <3>4, <3>5 DEF HierarchyTypeOK
  <2>5. OrderInv /\ VisitInv /\ WalkInv
    BY <2>1, <2>3 DEF HierarchyInit, OrderInv, VisitInv, WalkInv
  <2>6. QED
    BY <2>4, <2>5 DEF HierarchyIInv
<1>2. HierarchyIInv /\ [HierarchyNext]_hierarchyVars => HierarchyIInv'
  <2>1. SUFFICES ASSUME HierarchyIInv, [HierarchyNext]_hierarchyVars PROVE HierarchyIInv'
    OBVIOUS
  <2>2. CASE DefineClass
    BY <2>1, <2>2, DefineClassKeeps
  <2>3. CASE VisitClass
    BY <2>1, <2>3, VisitClassKeeps
  <2>4. CASE AskForMethod
    BY <2>1, <2>4, AskKeeps
  <2>5. CASE FindMethod
    BY <2>1, <2>5, FindMethodKeeps
  <2>6. CASE FollowBase
    BY <2>1, <2>6, FollowBaseKeeps
  <2>7. CASE FindNothing
    BY <2>1, <2>7, FindNothingKeeps
  <2>8. CASE AssignAttribute
    BY <2>1, <2>8, AssignKeeps
  <2>9. CASE UNCHANGED hierarchyVars
    <3>1. UNCHANGED <<classes, orders, visited, refused, bodies, asked, current, met, resolving, assigned>>
      BY <2>9 DEF hierarchyVars, walkVars
    <3>2. HierarchyTypeOK /\ OrderInv /\ VisitInv /\ WalkInv
      BY <2>1 DEF HierarchyIInv
    <3>3. HierarchyTypeOK'
      BY <3>1, <3>2 DEF HierarchyTypeOK, Defined
    <3>4. OrderInv' /\ VisitInv'
      BY <3>1, <3>2, OrdersAndClassesStay, VisitInvStays
    <3>5. Plain(asked[1])' <=> Plain(asked[1])
      BY <3>1, PlainStays
    <3>6. WalkInv'
      BY <3>1, <3>2, <3>5 DEF WalkInv, GoesOnWith
    <3>7. QED
      BY <3>3, <3>4, <3>6 DEF HierarchyIInv
  <2>10. QED
    BY <2>1, <2>2, <2>3, <2>4, <2>5, <2>6, <2>7, <2>8, <2>9 DEF HierarchyNext
<1>3. QED
  BY <1>1, <1>2, PTL DEF HierarchySpec

(* The class that answers for a member is the first in the order that        *)
(* provides it.                                                              *)
LEMMA InheritedIsProvided ==
  ASSUME HierarchyTypeOK, NEW i \in 1..Len(orders), NEW m, Inherited(i, m) # 0
  PROVE  Provides(Inherited(i, m), m)
<1> DEFINE providers == {k \in 1..Len(orders[i]) : Provides(orders[i][k], m)}
<1>1. providers # {} /\ Inherited(i, m) = orders[i][Min(providers)]
  BY DEF Inherited
<1>2. providers \in SUBSET Nat
  OBVIOUS
<1>3. Min(providers) \in providers
  <2> HIDE DEF providers
  <2>1. QED
    BY <1>1, <1>2, LeastPosition
<1>4. QED
  BY <1>1, <1>3

LEMMA InheritedFrom ==
  ASSUME HierarchyTypeOK, NEW i \in 1..Len(orders), NEW m, NEW n \in 1..Len(orders[i]),
         Provides(orders[i][n], m), \A j \in 1..(n - 1) : ~Provides(orders[i][j], m)
  PROVE  Inherited(i, m) = orders[i][n]
<1> DEFINE providers == {k \in 1..Len(orders[i]) : Provides(orders[i][k], m)}
<1>1. Len(orders[i]) \in Nat
  BY OrderAt
<1>2. n \in providers /\ providers \in SUBSET Nat
  OBVIOUS
<1>3. Inherited(i, m) = orders[i][Min(providers)]
  BY <1>2 DEF Inherited
<1>4. Min(providers) \in providers /\ \A k \in providers : Min(providers) <= k
  <2> HIDE DEF providers
  <2>1. QED
    BY <1>2, LeastPosition
<1>5. Min(providers) = n
  <2>1. Min(providers) <= n /\ Min(providers) \in 1..Len(orders[i]) /\ Min(providers) \notin 1..(n - 1)
    BY <1>2, <1>4
  <2>2. QED
    BY <1>1, <2>1
<1>6. QED
  BY <1>3, <1>5

(* A method is resolved as CPython dispatches it, outside the known gaps, in *)
(* every hierarchy.                                                          *)
THEOREM ResolvedAsCalled == HierarchySpec => []ResolvedAsDispatched
<1>1. HierarchyIInv => ResolvedAsDispatched
  <2> DEFINE i == asked[1]
  <2> DEFINE m == asked[2]
  <2>1. SUFFICES ASSUME HierarchyIInv, resolving = "answered", current # 0, UniqueNames,
                        \A k \in Ancestors(i) : /\ ~Diamond(k) /\ Expression \notin Range(classes[k].bases)
                                                /\ m \notin classes[k].own \ classes[k].methods
                                                /\ <<k, m>> \notin assigned
                 PROVE  current = Inherited(i, m)
    BY DEF ResolvedAsDispatched
  <2>2. /\ HierarchyTypeOK /\ OrderInv /\ WalkInv /\ Defined /\ i \in 1..Len(orders)
        /\ current \in 1..Len(orders) /\ Len(orders) = Len(classes)
    BY <2>1, ClassAt DEF HierarchyIInv, HierarchyTypeOK, Defined
  <2>3. Plain(i)
    BY <2>1 DEF Plain
  <2>4. PICK n \in 0..Len(orders[i]) :
          /\ GoesOnWith(orders[i], n, orders[current])
          /\ \A j \in 1..n : orders[i][j] \in 1..Len(classes) /\ m \notin classes[orders[i][j]].methods
    BY <2>1, <2>2, <2>3 DEF WalkInv
  <2>5. m \in classes[current].own
    <3>1. m \in classes[current].methods
      BY <2>1, <2>2, <2>3 DEF WalkInv
    <3>2. classes[current].methods \subseteq classes[current].own
      BY <2>2, ClassAt DEF HierarchyTypeOK
    <3>3. QED
      BY <3>1, <3>2
  <2>6. /\ Len(orders[i]) \in Nat /\ DOMAIN orders[i] = 1..Len(orders[i])
        /\ Len(orders[current]) \in Nat /\ 1 \in 1..Len(orders[current]) /\ orders[current][1] = current
    BY <2>2, OrderAt
  <2>7. n + 1 \in 1..Len(orders[i]) /\ orders[i][n + 1] = current
    BY <2>4, <2>6 DEF GoesOnWith
  <2>8. ASSUME NEW j \in 1..n PROVE ~Provides(orders[i][j], m)
    <3>1. orders[i][j] \in 1..Len(classes) /\ m \notin classes[orders[i][j]].methods
      BY <2>4
    <3>2. orders[i][j] \notin Elsewhere
      BY <3>1 DEF Elsewhere
    <3>3. orders[i][j] \in Ancestors(i)
      <4>1. j \in DOMAIN orders[i]
        BY <2>6, <2>7
      <4>2. QED
        BY <3>2, <4>1 DEF Ancestors, Range
    <3>4. QED
      BY <2>1, <3>1, <3>2, <3>3 DEF Provides
  <2>9. Provides(orders[i][n + 1], m)
    BY <2>5, <2>7 DEF Provides
  <2>10. \A j \in 1..((n + 1) - 1) : ~Provides(orders[i][j], m)
    <3>1. (n + 1) - 1 = n
      OBVIOUS
    <3>2. QED
      BY <2>8, <3>1
  <2>11. Inherited(i, m) = orders[i][n + 1]
    BY <2>2, <2>7, <2>9, <2>10, InheritedFrom
  <2>12. QED
    BY <2>7, <2>11
<1>2. QED
  BY <1>1, HierarchyInductive, PTL

(* The members of a class whose one base is known.                           *)
LEMMA OneBase ==
  ASSUME HierarchyIInv, Defined, UniqueNames, NEW i \in 1..Len(classes), NEW k,
         Len(classes[i].bases) = 1, k = Known(classes[i].bases[1]), k # 0
  PROVE  /\ k \in 1..Len(classes) /\ k \in Ancestors(i) \ {i} /\ Range(RuntimeBases(i)) = {k}
         /\ 2 \in 1..Len(orders[i]) /\ orders[i][2] = k
<1>1. /\ HierarchyTypeOK /\ OrderInv /\ classes \in Hierarchies /\ Len(classes) \in Nat
      /\ i \in 1..Len(orders) /\ Len(orders) = Len(classes)
      /\ classes[i].bases \in Seq(ClassNames \cup {External, Expression})
  BY ClassAt DEF HierarchyIInv, HierarchyTypeOK, Defined
<1>2. BasesBound(i) /\ classes[i].bases # <<>> /\ 1 \in 1..Len(classes[i].bases)
  BY <1>1, EmptySeq DEF OrderInv
<1>3. k \in 1..Len(classes) /\ RuntimeBases(i)[1] = k /\ OrderOf(k) = orders[k]
  BY <1>1, <1>2, KnownIsBound
<1>4. /\ Len(RuntimeBases(i)) = 1 /\ DOMAIN RuntimeBases(i) = 1..1
      /\ RuntimeBases(i)[1] \in Elsewhere \cup 1..(i - 1)
  BY <1>1, <1>2, BasesAreBefore
<1>5. Range(RuntimeBases(i)) = {k}
  BY <1>3, <1>4 DEF Range
<1>6. k \notin Elsewhere /\ k # i
  <2>1. k \notin Elsewhere
    BY <1>1, <1>3 DEF Elsewhere
  <2>2. QED
    BY <1>3, <1>4, <2>1
<1>7. ~Diamond(i)
  BY <1>4 DEF Diamond
<1>8. GoesOnWith(orders[i], 1, orders[k])
  BY <1>1, <1>2, <1>3, <1>7 DEF OrderInv
<1>9. /\ Len(orders[i]) \in Nat /\ DOMAIN orders[i] = 1..Len(orders[i])
      /\ Len(orders[k]) \in Nat /\ 1 \in 1..Len(orders[k]) /\ orders[k][1] = k
  BY <1>1, <1>3, OrderAt
<1>10. 2 \in 1..Len(orders[i]) /\ orders[i][2] = k
  <2>1. 1 + Len(orders[k]) <= Len(orders[i]) /\ orders[i][1 + 1] = orders[k][1]
    BY <1>8, <1>9 DEF GoesOnWith
  <2>2. 1 + 1 = 2
    OBVIOUS
  <2>3. QED
    BY <1>9, <2>1, <2>2
<1>11. k \in Ancestors(i) \ {i}
  BY <1>6, <1>9, <1>10 DEF Ancestors, Range
<1>12. QED
  BY <1>3, <1>5, <1>10, <1>11

(* A flattened class has the members it inherited, outside the known gaps,   *)
(* in every hierarchy.                                                       *)
THEOREM FlattenedInherits == HierarchySpec => []FlattenedAsInherited
<1>1. HierarchyIInv => FlattenedAsInherited
  <2>1. SUFFICES ASSUME HierarchyIInv, visited = Len(classes), ~refused, NEW i \in 1..visited,
                        NEW m \in Members, UniqueNames,
                        Inherited(i, m) \in {0, i} \cup Range(RuntimeBases(i)), m \notin classes[i].declared,
                        ~classes[i].inline,
                        \A k \in Ancestors(i) \ {i} : <<k, m>> \notin assigned /\ m \notin classes[k].strings
                 PROVE  Flattened(i, m) = Inherited(i, m)
    BY DEF FlattenedAsInherited
  <2>2. /\ HierarchyTypeOK /\ OrderInv /\ VisitInv /\ classes \in Hierarchies /\ Len(classes) \in Nat
        /\ i \in 1..Len(classes) /\ i \in 1..Len(orders) /\ Defined
    BY <2>1, ClassAt DEF HierarchyIInv, HierarchyTypeOK, Defined
  <2>3. /\ Len(orders[i]) \in Nat /\ 1 \in 1..Len(orders[i]) /\ orders[i][1] = i
    BY <2>2, OrderAt
  <2> DEFINE bases == classes[i].bases
  <2> DEFINE flattens == bases # <<>> /\ SingleKnownBase(bases)
  <2>4. /\ bodies[i] = BodyOf(i, IF flattens THEN Known(bases[1]) ELSE 0)
        /\ flattens \/ bases = <<>>
    BY <2>1, <2>2 DEF VisitInv
  <2>5. i \notin Elsewhere
    BY <2>2 DEF Elsewhere
  <2>6. CASE Provides(i, m)
    <3>1. Inherited(i, m) = i
      <4>1. Provides(orders[i][1], m) /\ \A j \in 1..(1 - 1) : ~Provides(orders[i][j], m)
        BY <2>3, <2>6
      <4>2. Inherited(i, m) = orders[i][1]
        BY <2>2, <2>3, <4>1, InheritedFrom
      <4>3. QED
        BY <2>3, <4>2
    <3>2. <<i, m>> \in assigned \/ m \in classes[i].own
      BY <2>5, <2>6 DEF Provides
    <3>3. m \in classes[i].own => bodies[i][m] = i
      BY <2>4 DEF BodyOf, Copied
    <3>4. QED
      BY <3>1, <3>2, <3>3 DEF Flattened
  <2>7. CASE ~Provides(i, m)
    <3>1. <<i, m>> \notin assigned /\ m \notin classes[i].own
      BY <2>7 DEF Provides
    <3>2. Inherited(i, m) # 0 => Provides(Inherited(i, m), m)
      BY <2>2, InheritedIsProvided
    <3>3. CASE bases = <<>>
      <4>1. Flattened(i, m) = 0
        <5>1. bodies[i] = BodyOf(i, 0)
          BY <2>4, <3>3
        <5>2. QED
          BY <3>1, <5>1 DEF Flattened, BodyOf, Copied
      <4>2. Range(RuntimeBases(i)) = {}
        <5>1. BasesBound(i) /\ Len(bases) = 0
          BY <2>2, <3>3, EmptySeq DEF OrderInv
        <5>2. DOMAIN RuntimeBases(i) = 1..0
          BY <2>2, <5>1, BasesAreBefore
        <5>3. QED
          BY <5>2 DEF Range
      <4>3. Inherited(i, m) = 0
        BY <2>1, <2>7, <3>2, <4>2
      <4>4. QED
        BY <4>1, <4>3
    <3>4. CASE flattens
      <4>1. PICK k : k = Known(bases[1]) /\ k # 0 /\ Len(bases) = 1
        BY <3>4 DEF SingleKnownBase
      <4>2. /\ k \in 1..Len(classes) /\ k \in Ancestors(i) \ {i} /\ Range(RuntimeBases(i)) = {k}
            /\ 2 \in 1..Len(orders[i]) /\ orders[i][2] = k
        BY <2>1, <2>2, <4>1, OneBase
      <4>3. Flattened(i, m) = IF m \in classes[k].own THEN k ELSE 0
        <5>1. bodies[i] = BodyOf(i, k)
          BY <2>4, <3>4, <4>1
        <5>2. QED
          BY <2>1, <3>1, <4>1, <4>2, <5>1 DEF Flattened, BodyOf, Copied
      <4>4. k \notin Elsewhere /\ (Provides(k, m) <=> m \in classes[k].own)
        <5>1. k \notin Elsewhere
          BY <4>2 DEF Ancestors
        <5>2. QED
          BY <2>1, <4>2, <5>1 DEF Provides
      <4>5. CASE m \in classes[k].own
        <5>1. Provides(orders[i][2], m)
          BY <4>2, <4>4, <4>5
        <5>2. \A j \in 1..(2 - 1) : ~Provides(orders[i][j], m)
          <6>1. \A j \in 1..(2 - 1) : j = 1
            OBVIOUS
          <6>2. QED
            BY <2>3, <2>7, <6>1
        <5>3. Inherited(i, m) = orders[i][2]
          BY <2>2, <4>2, <5>1, <5>2, InheritedFrom
        <5>4. QED
          BY <4>2, <4>3, <4>5, <5>3
      <4>6. CASE m \notin classes[k].own
        <5>1. Inherited(i, m) = 0
          BY <2>1, <2>7, <3>2, <4>2, <4>4, <4>6
        <5>2. QED
          BY <4>3, <4>6, <5>1
      <4>7. QED
        BY <4>5, <4>6
    <3>5. QED
      BY <2>4, <3>3, <3>4
  <2>8. QED
    BY <2>6, <2>7
<1>2. QED
  BY <1>1, HierarchyInductive, PTL
==============================================================================
