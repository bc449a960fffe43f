--------------------------- MODULE MCAnalysisChat ---------------------------
(* Instances of AnalysisChat for TLC. *)
EXTENDS AnalysisChat, TLC

CONSTANTS s1, s2, o1, k1, k2, q1, i1, b1, b2, h1, h2, l1, l2

OneOwner == [s \in Sessions |-> o1]

\* Ids, leases, handlers, keys and revisions are drawn from their sets and compared
\* for equality only; a symmetry for safety properties.
Interchangeable ==
    UNION {Permutations(S) : S \in {Sessions, Keys, Requests, Bases, Handlers, Leases}}
=============================================================================
