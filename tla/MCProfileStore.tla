--------------------------- MODULE MCProfileStore ---------------------------
(***************************************************************************)
(* Small instances of ProfileStore for TLC.                                *)
(***************************************************************************)
EXTENDS ProfileStore, TLC

\* Requests are interchangeable: no action or property names one.
RequestSymmetry == Permutations(Requests)

\* Bound of the run of three requests: none reads, which changes nothing, the
\* process stays alive, and time passes or another program writes, not both.
OnlyMutations ==
    /\ \A r \in Requests : call[r].op # "get" /\ pc[r] # "crashed"
    /\ \/ clock = 0
       \/ \A u \in Users : Foreign \notin {log[u][i] : i \in DOMAIN log[u]}
=============================================================================
