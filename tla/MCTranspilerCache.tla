-------------------------- MODULE MCTranspilerCache ---------------------------
(* Small instances of TranspilerCache: sources named by what they weigh    *)
(* against max_bytes, and one that cannot be lowered.                      *)
EXTENDS TranspilerCache, TLC

CONSTANTS light, small, medium, heavy, oversized, broken

MCWeight ==
    [s \in Sources |->
        CASE s \in {light, small, broken} -> 1
          [] s = medium -> 2 [] s = heavy -> 4 [] s = oversized -> 5]

Limits(entryLimit, byteLimit) == [max_entries |-> entryLimit, max_bytes |-> byteLimit]

(* Two light entries or four bytes fill the cache.                         *)
MCSmall == {Limits(2, 4)}

(* The same, with limits that disable the cache; max_bytes is usize::MAX   *)
(* where four bytes are all a usize holds.                                 *)
MCEdges == {Limits(2, 4), Limits(0, 4), Limits(2, 0)}

(* The threads run the same code and are only compared for equality, and   *)
(* so are two sources of one weight.                                       *)
ThreadSymmetry == Permutations(Threads)
Symmetry == ThreadSymmetry \cup Permutations({light, small})
===============================================================================
