--------------------------- MODULE MCPreviewStore ---------------------------
(* Instances of PreviewStore for TLC. *)
EXTENDS PreviewStore, TLC

CONSTANTS s1, s2, e1, a1, a2, a3, g1

\* Two drafts of one failure, and the exact fix of a chat answer.
TwoActions == [p \in Previews |-> IF p = e1 THEN "chat" ELSE "failure"]

Interchangeable == Permutations(Attempts) \cup Permutations(Previews \ {e1})
=============================================================================
