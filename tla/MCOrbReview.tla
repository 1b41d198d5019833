----------------------------- MODULE MCOrbReview -----------------------------
(* Small instances of OrbReview for TLC. *)
EXTENDS OrbReview, TLC

CONSTANTS r1, r2, c1, c2, b1, b2

MCReviews == {r1, r2}
MCOneReview == {r1}
MCCalls == {c1, c2}
MCBodies == {b1, b2}

MCSymmetry == Permutations({r1, r2}) \union Permutations({c1, c2})
                \union Permutations({b1, b2})
===============================================================================
