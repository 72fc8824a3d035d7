------------------------------ MODULE MCIdentity ------------------------------
(* Small instances of Identity for TLC. *)
EXTENDS Identity, TLC

IdentitySymmetry == Permutations(Members)
=============================================================================
