-------------------------- MODULE MCActionRequests --------------------------
(* Instances of ActionRequests for TLC. *)
EXTENDS ActionRequests, TLC

CONSTANTS r1, r2, r3

AllIssues == [r \in Requests |-> "create-issue"]
AllFixes == [r \in Requests |-> "propose-fix"]
AllAnalysisFixes == [r \in Requests |-> "analysis-fix"]

OneOwner == [r \in Requests |-> "ada"]
TwoOwners == (r1 :> "ada") @@ (r2 :> "bob")
OneFailure == [r \in Requests |-> "f"]
OneInstruction == [r \in Requests |-> ""]
OwnInstruction == [r \in Requests |-> r]

\* Handlers are interchangeable; a symmetry for safety properties.
Interchangeable == Permutations(Handlers)
=============================================================================
