-------------------------- MODULE MCReleaseManager --------------------------
(* The instance of ReleaseManager for TLC. *)
EXTENDS ReleaseManager, TLC

ThreeReleases == 1..3
=============================================================================
