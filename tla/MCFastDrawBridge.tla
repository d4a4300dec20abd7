-------------------------- MODULE MCFastDrawBridge --------------------------
(* Instances of FastDrawBridge for TLC. *)
EXTENDS FastDrawBridge, TLC

CONSTANTS p1, p2, v, w, s1, s2

OneProc == {p1}
TwoProcs == {p1, p2}

\* Processes are told apart only by equality.
ProcSymmetry == Permutations(TwoProcs)

\* Bound of the run of two processes: what has been previewed was previewed before the
\* first command, under the first name.
PreviewsFirst ==
    \A r \in previews' \ previews : commands = 0 /\ now = 0 /\ r.stamp[2] = 1
=============================================================================
