----------------------------- MODULE MCSeeding -----------------------------
(***************************************************************************)
(* A small instance of Seeding: two runs of the seed, one after the other  *)
(* or at once, one reader, and two edits of the administrators.            *)
(***************************************************************************)
EXTENDS Seeding, TLC

CONSTANTS s1, s2, r1

MCSeeds == {s1, s2}
MCReaders == {r1}
MCLocales == {"any", "en", "pt"}
SeedSymmetry == Permutations(MCSeeds)
=============================================================================
