------------------------- MODULE MeasurementLedger -------------------------
(***************************************************************************)
(* What a sweep promises about its measurements, whoever runs it and       *)
(* however often it is interrupted: every key is measured at most once,    *)
(* rows are never taken back, and each process stays within the allowance  *)
(* it has when it opens the ledger - the cap, or one more call if the      *)
(* ledger has reached it already.                                          *)
(***************************************************************************)
EXTENDS Integers, FiniteSets

CONSTANTS Keys, Cap

VARIABLES count,        \* count[key]: rows recorded for the key
          allowance     \* rows the ledger may hold while this process runs

Measured == {key \in Keys : count[key] > 0}

AllowanceAt(n) == IF n >= Cap THEN n + 1 ELSE Cap

Init ==
    /\ count = [key \in Keys |-> 0]
    /\ allowance = AllowanceAt(0)

OpenLedger ==
    /\ allowance' = AllowanceAt(Cardinality(Measured))
    /\ UNCHANGED count

Measure(key) ==
    /\ count[key] = 0
    /\ Cardinality(Measured) < allowance
    /\ count' = [count EXCEPT ![key] = 1]
    /\ UNCHANGED allowance

Next == OpenLedger \/ \E key \in Keys : Measure(key)

Spec == Init /\ [][Next]_<<count, allowance>>
=============================================================================
