-------------------------- MODULE MCPublishSetup --------------------------
(* The setup's windows behave alike, and every property of the run is a safety *)
(* property, so states that differ in a renaming of the windows are one.       *)
EXTENDS PublishSetup, TLC

MCSymmetry == Permutations(Windows)
=============================================================================
