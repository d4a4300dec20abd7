--------------------------- MODULE MCStage1Sweep ---------------------------
(* Instances of Stage1Sweep for TLC. *)
EXTENDS Stage1Sweep

\* No rows of an older regime: a fresh sweep.
FreshOnly == {<<>>}

LegacyRow(m, r, is) ==
    [regime |-> "legacy", model |-> m, battery |-> 1, round |-> r,
     status |-> "scored", items |-> is]

\* An older regime got part of round 1 done, for one or both finalists.
LegacyRounds ==
    {<<LegacyRow(1, 1, {1, 2})>>,
     <<LegacyRow(1, 1, {1})>>,
     <<LegacyRow(1, 1, {1, 2}), LegacyRow(2, 1, {1})>>}

OneBank == <<2>>
\* Two batteries that take turns, and one whose bank is empty.
ThreeBanks == <<1, 1, 0>>
=============================================================================
