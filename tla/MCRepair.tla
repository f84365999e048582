------------------------------ MODULE MCRepair ------------------------------
(* A small instance of Repair: a1 and a2 are passkeys of one account.      *)
EXTENDS Repair

CONSTANTS a1, a2, A, MaxImages

MCAccount == [i \in Ids |-> A]

\* Bound: how many contents a directory may have that are not settled.
FewImages == \A d \in Directories : Cardinality(images[d]) <= MaxImages
=============================================================================
