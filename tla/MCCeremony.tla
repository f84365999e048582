----------------------------- MODULE MCCeremony -----------------------------
(* A small instance of Ceremony: d is discoverable, s and t are sealed and *)
(* share a counter.                                                        *)
EXTENDS Ceremony, TLC

CONSTANTS d, s, t, MaxImages

SealedSymmetry == Permutations(Sealed)

\* Bound: how many contents a directory may have that are not settled.
FewImages == \A x \in Directories : Cardinality(images[x]) <= MaxImages
=============================================================================
