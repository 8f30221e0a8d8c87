---------------------------- MODULE MCOnboardDbs ----------------------------
(* Instances of OnboardDbs for TLC.                                        *)
EXTENDS OnboardDbs, TLC

\* Apps, runs and passwords are alike.
MCSymmetry == Permutations(Apps) \cup Permutations(Runs) \cup Permutations(HandMade)

=============================================================================
