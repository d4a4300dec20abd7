--------------------------- MODULE UndoableFiles ----------------------------
(***************************************************************************)
(* What `hr apply` promises: the two files change in one step, by one      *)
(* preset entry and, if asked, the boot-time state; the files as they were *)
(* are a recovery point by then; going back to any recovery point is one   *)
(* step as well; and there is always a recovery point left.                *)
(***************************************************************************)
EXTENDS Integers

CONSTANTS Names, Seatings, None, Absent

VARIABLES files,    \* the pair of files
          points    \* recovery points: pairs that can be put back

Store == IF files.presets = Absent THEN [n \in Names |-> None] ELSE files.presets

Init == points = {}

Save ==
    /\ points' \in SUBSET (points \cup {files}) /\ files \in points'
    /\ UNCHANGED files

Expire ==
    /\ points' \in SUBSET points /\ points' # {}
    /\ UNCHANGED files

Commit(name, seating, state) ==
    /\ files \in points
    /\ files' = [presets |-> [Store EXCEPT ![name] = seating], state |-> state]
    /\ UNCHANGED points

Undo ==
    /\ files' \in points
    /\ UNCHANGED points

Next ==
    \/ Save \/ Expire \/ Undo
    \/ \E name \in Names, seating \in Seatings :
           Commit(name, seating, files.state) \/ Commit(name, seating, seating)

Spec == Init /\ [][Next]_<<files, points>>
=============================================================================
