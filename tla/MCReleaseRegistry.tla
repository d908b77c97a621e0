-------------------------- MODULE MCReleaseRegistry ----------------------------
(***************************************************************************)
(* ReleaseRegistry for TLC: a wheel that bundles one release, a revised    *)
(* manifest of that release, a manifest of a newer release and one that    *)
(* the engine cannot accept.                                               *)
(***************************************************************************)
EXTENDS ReleaseRegistry, TLC

CONSTANTS r19, r20, bundled19, revised19, new20, unknown20

MCBundle == r19 :> bundled19
MCTarget == bundled19 :> r19 @@ revised19 :> r19 @@ new20 :> r20 @@ unknown20 :> r20

ThreadSymmetry == Permutations(Threads)
===============================================================================
