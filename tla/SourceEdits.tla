---------------------------- MODULE SourceEdits ----------------------------
(***************************************************************************)
(* apply_edits of monty-lower (crates/monty-lower/src/edit.rs): the edits   *)
(* that one pass collected are validated, sorted, compared pairwise with    *)
(* their neighbours, and spliced into the source with a cursor.             *)
(*                                                                         *)
(* A text is a sequence of offsets: offset o stands for the byte of the     *)
(* source at o, and an edit stands for its replacement.  An edit is         *)
(* numbered by its place in the order in which the rules pushed them, which *)
(* is the order of visiting the tree and not that of the offsets.           *)
(***************************************************************************)
EXTENDS Integers, Sequences

CONSTANTS
    SourceLen,      \* the length of the source in bytes
    Boundaries,     \* the offsets at which a character starts, and the end
    EditLists       \* the lists of edits that a pass may collect

EditType == [start : Nat, end : Nat, id : Nat \ {0}]

ASSUME SourceAssumption ==
    /\ SourceLen \in Nat
    /\ Boundaries \subseteq 0..SourceLen /\ {0, SourceLen} \subseteq Boundaries
    /\ EditLists \subseteq Seq(EditType)
    /\ \A list \in EditLists : \A i \in 1..Len(list) : list[i].id = i

VARIABLES
    edits,          \* the list of edits, sorted in place
    phase,          \* where apply_edits stands
    pos,            \* the index of the loop of the phase
    cursor,         \* the offset up to which the source is copied
    output          \* the pieces pushed: slices of the source and edits

editVars == <<edits, phase, pos, cursor, output>>

Phases == {"validate", "sort", "compare", "splice", "done",
           "invalid_range", "not_a_boundary", "conflict", "lost_slice"}

PieceType == [from : Nat, to : Nat, id : Nat]
Slice(from, to) == [from |-> from, to |-> to, id |-> 0]
Inserted(edit) == [from |-> 0, to |-> 0, id |-> edit.id]

----------------------------------------------------------------------------
InRange(edit) == edit.start <= edit.end /\ edit.end <= SourceLen
AtBoundaries(edit) == edit.start \in Boundaries /\ edit.end \in Boundaries

\* sort_by_key(|edit| (edit.start, edit.end)) is stable: equal keys keep the
\* order in which they were pushed.
BeforeUnstable(s, i, j) ==
    \/ s[i].start < s[j].start
    \/ s[i].start = s[j].start /\ s[i].end < s[j].end
    \/ s[i].start = s[j].start /\ s[i].end = s[j].end /\ i > j

Before(s, i, j) ==
    \/ s[i].start < s[j].start
    \/ s[i].start = s[j].start /\ s[i].end < s[j].end
    \/ s[i].start = s[j].start /\ s[i].end = s[j].end /\ i < j

Sorted(s, order) ==
    /\ order \in [1..Len(s) -> 1..Len(s)]
    /\ \A i, j \in 1..Len(s) : i < j => Before(s, order[i], order[j])

ClashesWhenTouching(i) == edits[i + 1].start <= edits[i].end
ClashesWithNext(i) == edits[i + 1].start < edits[i].end

EditsInit ==
    /\ edits \in EditLists
    /\ phase = "validate"
    /\ pos = 1
    /\ cursor = 0
    /\ output = <<>>

\* One edit passes both checks.
Validate ==
    /\ phase = "validate" /\ pos <= Len(edits)
    /\ InRange(edits[pos]) /\ AtBoundaries(edits[pos])
    /\ pos' = pos + 1
    /\ UNCHANGED <<edits, phase, cursor, output>>

Reject ==
    /\ phase = "validate" /\ pos <= Len(edits)
    /\ ~(InRange(edits[pos]) /\ AtBoundaries(edits[pos]))
    /\ phase' = IF InRange(edits[pos]) THEN "not_a_boundary" ELSE "invalid_range"
    /\ UNCHANGED <<edits, pos, cursor, output>>

Sort ==
    /\ phase = "validate" /\ pos > Len(edits)
    /\ \E order \in [1..Len(edits) -> 1..Len(edits)] :
          /\ Sorted(edits, order)
          /\ edits' = [i \in 1..Len(edits) |-> edits[order[i]]]
    /\ phase' = "compare"
    /\ pos' = 1
    /\ UNCHANGED <<cursor, output>>

Compare ==
    /\ phase = "compare" /\ pos < Len(edits)
    /\ IF ClashesWithNext(pos)
       THEN phase' = "conflict" /\ UNCHANGED pos
       ELSE pos' = pos + 1 /\ UNCHANGED phase
    /\ UNCHANGED <<edits, cursor, output>>

StartSplice ==
    /\ phase = "compare" /\ pos >= Len(edits)
    /\ phase' = "splice"
    /\ pos' = 1
    /\ UNCHANGED <<edits, cursor, output>>

\* source.get(cursor..start) is None when the slice is not one of the source.
Splice ==
    /\ phase = "splice" /\ pos <= Len(edits)
    /\ IF cursor <= edits[pos].start /\ edits[pos].start \in Boundaries
       THEN /\ output' = Append(Append(output, Slice(cursor, edits[pos].start)),
                               Inserted(edits[pos]))
            /\ cursor' = edits[pos].end
            /\ pos' = pos + 1
            /\ UNCHANGED phase
       ELSE phase' = "lost_slice" /\ UNCHANGED <<output, cursor, pos>>
    /\ UNCHANGED edits

PushTail ==
    /\ phase = "splice" /\ pos > Len(edits)
    /\ IF cursor <= SourceLen
       THEN output' = Append(output, Slice(cursor, SourceLen)) /\ phase' = "done"
       ELSE phase' = "lost_slice" /\ UNCHANGED output
    /\ UNCHANGED <<edits, pos, cursor>>

EditsNext ==
    \/ Validate \/ Reject \/ Sort \/ Compare
    \/ StartSplice \/ Splice \/ PushTail

EditsSpec == EditsInit /\ [][EditsNext]_editVars

----------------------------------------------------------------------------
\* Two edits that cannot both be made: they share a byte, or one of them is
\* an insertion strictly inside the other.
Overlap(e, f) == e.start < f.end /\ f.start < e.end

Conflicting(s) == \E i, j \in 1..Len(s) : i # j /\ Overlap(s[i], s[j])

Covered(o) == \E i \in 1..Len(edits) : edits[i].start <= o /\ o < edits[i].end

\* The inductive invariant: what the loops have established, up to pos.
EditsTypeOK ==
    /\ edits \in Seq(EditType)
    /\ phase \in Phases
    /\ pos \in Nat \ {0}
    /\ cursor \in Nat
    /\ output \in Seq(PieceType)

ValidUpTo(n) ==
    \A i \in 1..Len(edits) : i < n => InRange(edits[i]) /\ AtBoundaries(edits[i])

AllValid == ValidUpTo(Len(edits) + 1)

\* Sorted by start, then by end, then in the order of the pushes.
InOrder ==
    \A i, j \in 1..Len(edits) : i < j =>
        \/ edits[i].start < edits[j].start
        \/ edits[i].start = edits[j].start /\ edits[i].end < edits[j].end
        \/ /\ edits[i].start = edits[j].start /\ edits[i].end = edits[j].end
           /\ edits[i].id < edits[j].id

DisjointUpTo(n) ==
    \A i, j \in 1..Len(edits) : i < j /\ j <= n => edits[i].end <= edits[j].start

Numbered == \A i \in 1..Len(edits) : edits[i].id = i

\* Where the slice before an edit starts.
From(i) == IF i = 1 THEN 0 ELSE edits[i - 1].end

SplicedSoFar ==
    /\ cursor = From(pos)
    /\ \A i \in 1..Len(edits) : i < pos =>
          output[2 * i - 1] = Slice(From(i), edits[i].start) /\ output[2 * i] = Inserted(edits[i])

EditsIInv ==
    /\ EditsTypeOK
    /\ phase = "validate" => ValidUpTo(pos) /\ Numbered
    /\ phase \in {"validate", "compare"} => cursor = 0 /\ output = <<>>
    /\ phase \in {"compare", "splice", "done"} => AllValid /\ InOrder
    /\ phase = "compare" => DisjointUpTo(pos)
    /\ phase \in {"splice", "done"} => DisjointUpTo(Len(edits)) /\ SplicedSoFar
    /\ phase = "splice" => pos <= Len(edits) + 1 /\ Len(output) = 2 * (pos - 1)
    /\ phase = "done" =>
          /\ pos = Len(edits) + 1 /\ Len(output) = 2 * pos - 1
          /\ output[2 * pos - 1] = Slice(cursor, SourceLen) /\ cursor <= SourceLen
    /\ phase = "conflict" => Conflicting(edits)
    /\ phase # "lost_slice"

\* apply_edits answers with a conflict exactly when two of the edits overlap:
\* comparing neighbours after the sort misses no overlap and reports no pair
\* that could have been spliced (an insertion at the border of an edit is none).
ConflictsAreRefused ==
    /\ phase = "conflict" => Conflicting(edits)
    /\ phase \in {"splice", "done"} => ~Conflicting(edits)

\* Once the edits are compared, the splice never finds a slice that ends before
\* it starts: source.get cannot fail, and the call never fails half way.
NoSliceIsLost == phase # "lost_slice"

\* The output holds each byte of the source that no edit covers, and each
\* replacement, exactly once and in the order of the source; replacements that
\* share a range stand in the order in which the rules pushed them, and every
\* edit of the list is among them.
OutputIsTheEditedSource ==
    phase = "done" =>
      /\ \A o \in 0..(SourceLen - 1) :
            Covered(o) <=> ~\E i \in 1..Len(output) :
                              output[i].from <= o /\ o < output[i].to
      /\ \A i, j \in 1..Len(output) :
            i < j /\ output[i].id = 0 /\ output[j].id = 0 => output[i].to <= output[j].from
      /\ \A i \in 1..Len(edits) :
            /\ output[2 * i] = Inserted(edits[i])
            /\ output[2 * i - 1].to = edits[i].start
            /\ output[2 * i + 1].from = edits[i].end
      /\ \A i, j \in 1..Len(edits) :
            i < j /\ edits[i].start = edits[j].start /\ edits[i].end = edits[j].end
              => edits[i].id < edits[j].id

\* apply_edits refuses exactly the edits that clash, and makes all others.
EditsAreSound == ConflictsAreRefused /\ NoSliceIsLost /\ OutputIsTheEditedSource
============================================================================
