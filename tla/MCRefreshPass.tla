--------------------------- MODULE MCRefreshPass ---------------------------
(* Instances of RefreshPass for TLC. *)
EXTENDS RefreshPass, TLC

\* Two failures of one signature and one of a whole build.
TwoAlikeAndABuild == {{1, 2}, {3}}

\* The first pass finds them all or none, the later ones find none.
FirstPassFindsThem == <<{{}, Items}, {{}}, {{}}>>

\* Remediation has a second turn when fixes changed what it tracks.
RemediationAroundFixes == <<"remediation", "fixes", "remediation">>
=============================================================================
