-------------------------- MODULE MCCredentialStore --------------------------
(* Small instances of CredentialStore: a1 and a2 are passkeys of one       *)
(* account, n is not discoverable.                                         *)
EXTENDS CredentialStore, TLC

CONSTANTS a1, a2, n, A, MaxImages

MCAccount == [i \in Ids |-> IF i = n THEN NoAccount ELSE A]

\* Which passkey of the account is which makes no difference.
AccountSymmetry == Permutations({a1, a2})

\* Bound: how many contents a directory may have that are not settled.
FewImages == \A d \in Directories : Cardinality(images[d]) <= MaxImages
=============================================================================
