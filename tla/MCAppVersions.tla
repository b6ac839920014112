--------------------------- MODULE MCAppVersions ---------------------------
(* Model values and symmetry for the runs of AppVersions.                  *)
EXTENDS AppVersions, TLC

CONSTANTS tmpl, good, bad, c1, c2

MCTemplates == {tmpl}
MCCode == {tmpl, good, bad}
MCBuildable == {tmpl, good}
TwoCalls == {c1, c2}
\* A smaller alphabet for the liveness run.
SmallCode == {tmpl, bad}
SmallBuildable == {tmpl}
Symmetric == Permutations(Calls)
=============================================================================
