--------------------- MODULE MCCredentialDelegation ---------------------
(* Small instances of CredentialDelegation for TLC. *)
EXTENDS CredentialDelegation, TLC

CONSTANTS p1, p2, n1, n2, r1, r2, c1

MCPairs == {p1, p2}
MCNames == {n1, n2}
MCSecretName == (p1 :> n1) @@ (p2 :> n2)
MCPats == {p2}
OnePair == {p1}
OneName == {n1}
OneSecretName == (p1 :> n1)
NoPats == {}
MCRequests == {r1, r2}
MCCallbacks == {c1}
Always == {TRUE}
Sometimes == BOOLEAN
RequestSymmetry == Permutations(MCRequests)
=========================================================================
