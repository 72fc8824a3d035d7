--------------------------- MODULE MCKeyProjection ---------------------------
(* Small instances of KeyProjection. *)
EXTENDS KeyProjection, FiniteSets, TLC

\* Every key belongs to one tenant: tenants share nothing but the processes.
SameOwner == [k \in Keys |-> CHOOSE t \in Tenants : TRUE]

\* Keys are interchangeable while they have one owner; so are processes.
KeyNodeSymmetry == Permutations(Keys) \union Permutations(Nodes)

=============================================================================
