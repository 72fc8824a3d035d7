-------------------------- MODULE MCTenantIsolation --------------------------
(* A small instance of TenantIsolation for TLC: prompts, their versions and *)
(* their sessions, which have two parents and meet both of upstream's       *)
(* actions, the key pool and the sessions.                                  *)
EXTENDS TenantIsolation, TLC

MCStrict == <<"prompts", "prompt_versions", "prompt_sessions">>
MCEdges ==
    <<[child |-> "prompt_versions", parent |-> "prompts",
       nullable |-> FALSE, onDelete |-> "CASCADE"],
      [child |-> "prompt_sessions", parent |-> "prompts",
       nullable |-> FALSE, onDelete |-> "CASCADE"],
      [child |-> "prompt_sessions", parent |-> "prompt_versions",
       nullable |-> TRUE, onDelete |-> "SET NULL"]>>

\* Any rows of the strict tables together, the others alone.
MCRowSets == SUBSET ToSet(MCStrict) \cup {{CClassTable}, {SessionsTable}}

\* Two bounds: processes race over prompts and versions, or one process at a
\* time works on every table.
VARIABLE part

InPart ==
    \/ part = "races" /\ {t \in Tables : rows[t] # NoRow} \subseteq {"prompts", "prompt_versions"}
    \/ part = "edges" /\ Cardinality({p \in Processes : proc[p].does # "down"}) <= 1

PartInit == Init /\ part \in {"races", "edges"} /\ InPart
PartNext == Next /\ part' = part /\ InPart'
PartSpec == PartInit /\ [][PartNext]_<<vars, part>>

IsolationSymmetry == Permutations(Tenants) \cup Permutations(Processes)
=============================================================================
