--------------------------- MODULE MCTurnkeyInstall ---------------------------
(* Instances of TurnkeyInstall for TLC. *)
EXTENDS TurnkeyInstall

MCParts == <<"pg", "app">>
MCConfigs == <<"opencode">>

\* A machine without docker, its bundle half placed, whose user has no files yet.
Bare ==
    [host |-> [docker |-> FALSE, manifest |-> TRUE, writable |-> FALSE],
     parts |-> {"app"},
     envs |-> [f \in Candidates |-> None],
     volume |-> None,
     container |-> [st |-> "absent", port |-> None, owner |-> "ours"],
     rcs |-> [f \in RcFiles |-> None],
     cfgs |-> [f \in ConfigSet |-> None]]

\* A machine with docker and the stack of an older version: another checkout's
\* container, the retired namespace, an env file, and files of the user.
Veteran(p) ==
    [host |-> [docker |-> TRUE, manifest |-> TRUE, writable |-> TRUE],
     parts |-> {"pg", "app"},
     envs |-> [f \in Candidates |->
                 IF f = "primary" THEN [pw |-> p, port |-> DefaultPort] ELSE None],
     volume |-> [pw |-> p, usable |-> TRUE, db |-> TRUE,
                 schema |-> [ns |-> "hr2", cols |-> {}, indexed |-> FALSE]],
     container |-> [st |-> "exited", port |-> DefaultPort, owner |-> "other"],
     rcs |-> [f \in RcFiles |-> [text |-> TRUE, block |-> FALSE]],
     cfgs |-> [f \in ConfigSet |->
                 [array |-> FALSE, entry |-> FALSE, plugins |-> FALSE, keys |-> TRUE,
                  valid |-> TRUE, made |-> "user"]]]

MCMachines == {Bare} \cup {Veteran(p) : p \in {CHOOSE q \in Passwords : TRUE}}
=============================================================================
