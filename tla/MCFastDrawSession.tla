-------------------------- MODULE MCFastDrawSession -------------------------
(* Instances of FastDrawSession for TLC. *)
EXTENDS FastDrawSession, TLC

CONSTANTS p1, v,        \* an hr process, and a preset name
          agent, task, mine,    \* an agent and a category of OMO's, the user's own agent
          mA, mB, mC

OneProc == {p1}
Bindings(a, t, m) == agent :> a @@ task :> t @@ mine :> m

\* What hr's verdict seats.
Seating == [agents |-> Bindings(mC, mC, mB), omo |-> NoRecords]
OneSeating == {Seating}

At(m, origin) == [model |-> m, origin |-> origin]
Scattered == Bindings(At(mC, "project"), At(mB, "omo"), At(mC, "md"))
OneImport == {v :> [bindings |-> Scattered]}

\* Configuration files: none, or several that do not agree, one of them loose
\* and one unreadable.
NoFiles == [f \in Layers!LayerFiles |-> Absent]
Layer(bindings, loose) == [models |-> bindings, loose |-> loose]
Several == [NoFiles EXCEPT !["json"] = Layer(Bindings(None, None, mA), FALSE),
                           !["jsonc"] = Layer(Bindings(mA, None, None), TRUE),
                           !["env"] = Layer(Bindings(mB, None, mA), FALSE),
                           !["md"] = Torn]

\* The OMO file: an agent, and a category with a chain; or each in its older
\* form, or without a model of its own.
OmoOf(a, t) == [Omo!NewFile EXCEPT !.block = Bindings(a, t, None)]
Chained == OmoOf(Omo!Scalar(mA), Omo!Chain(<<mA, mB>>))
Older == [OmoOf(Omo!Bare, None) EXCEPT !.top = Bindings(None, Omo!Legacy(mA, <<mB>>), None)]

AnyFiles == Contents
Fresh == {[presets |-> Absent, state |-> Absent]}
ByHr == {[presets |-> v :> Seating, state |-> Seating]}

Quietly == [cast |-> {}, hr |-> 0, turns |-> 0, trouble |-> 0, modes |-> {}, edits |-> {},
            files |-> Fresh, omo |-> Absent, config |-> NoFiles, here |-> {mine}]

SessionScenes == {
    [Quietly EXCEPT !.hr = 2, !.files = AnyFiles],
    [Quietly EXCEPT !.hr = 1, !.files = Fresh \cup ByHr, !.cast = {"server"}, !.turns = 1,
                    !.modes = {"global"}],
    [Quietly EXCEPT !.cast = {"server"}, !.turns = 2, !.trouble = 1, !.files = ByHr,
                    !.modes = {"global", "original", "project"}, !.omo = Chained,
                    !.config = Several, !.edits = {Torn, Absent}],
    [Quietly EXCEPT !.cast = {"tui"}, !.turns = 2, !.trouble = 1, !.files = ByHr,
                    !.modes = {"original", "md"}, !.omo = Older, !.config = Several,
                    !.edits = {Chained}],
    [Quietly EXCEPT !.cast = {"server", "tui"}, !.turns = 3, !.modes = {"global"},
                    !.omo = Chained]}

\* Bound of the scene of one command: its preview and its backup have the first name of
\* the second, for there is no other name to compare it with.
FirstName == scene.hr = 1 => \A r \in previews' \cup backups' : r.stamp[2] = 1

EffectScenes == {[Quietly EXCEPT !.hr = 1, !.files = AnyFiles, !.cast = {"server"}, !.turns = 1]}

OriginalScenes == {[Quietly EXCEPT !.cast = {"server"}, !.turns = 3, !.omo = Older]}
=============================================================================
