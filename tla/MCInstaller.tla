------------------------------ MODULE MCInstaller ------------------------------
(* The release of scripts/build-release.ps1 with one component for each of its *)
(* cases: for every profile, and for one of the two, both in one target.       *)
EXTENDS Installer

Release == <<[target |-> "versions", profile |-> "all"],
             [target |-> "models", profile |-> "small"],
             [target |-> "models", profile |-> "large"]>>

================================================================================
