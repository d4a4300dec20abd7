----------------------------- MODULE MCEvaluation -----------------------------
(* Five models, the eight kinds of benchmark battery and two batteries of    *)
(* the item pool.                                                            *)
EXTENDS Evaluation

MCRanked == <<"a", "b", "c", "e">>

\* "a" and "c" are two ids of one model behind a gateway, with thinking and without; "b"
\* is known to opencode's registry alone, and not probed; "e" has an oauth token, and no
\* wire of its own is known for "f".
id(provider, slug) == [provider |-> provider, slug |-> slug]
MCIds == [a |-> id("gate", "m"), b |-> id("direct", "n"), c |-> id("lite", "m"),
          e |-> id("oauth", "o"), f |-> id("odd", "m")]
MCNpmWire == [compatible |-> "openai", anthropic |-> "anthropic"]

block(npm, url, key, models) == [npm |-> npm, url |-> url, key |-> key, models |-> models]
MCSetup == [
    files |-> <<[gate |-> block("compatible", "v", "key", {}),
                 lite |-> block(None, "v", "key", {"m"}), odd |-> block("other", "u", "key", {"m"})],
                [gate |-> block("compatible", None, None, {"m"}),
                 oauth |-> block("anthropic", "w", None, {"o"})]>>,
    wires |-> [lite |-> "openai", direct |-> "anthropic"],
    gateways |-> [gate |-> "u", direct |-> "w"],
    cache |-> [lite |-> "u"],
    v2 |-> [gate |-> "token", oauth |-> "token", direct |-> "key"],
    legacy |-> [gate |-> "key"],
    extras |-> {"b"},
    overlay |-> [a |-> {"thinking"}, n |-> {"vision"}, b |-> {"vision"}, m |-> {}]]
MCAble == [e \in {[url |-> "u", slug |-> "m"]} |-> {"efforts", "starves", "tools"}]
MCTries == [openai |-> 2, anthropic |-> 2]

MCLive == {"text", "image", "speed", "reasoning", "code", "facts", "stress", "tools"}
MCPool == {"pool", "deep"}
MCKind == [b \in MCLive |-> CASE b = "reasoning" -> "parts" [] b = "facts" -> "cards"
                              [] b = "stress" -> "dialog" [] OTHER -> b]
MCNItems == [b \in MCLive \cup MCPool |-> IF b \in {"text", "reasoning", "code", "facts", "pool"} THEN 2 ELSE 1]
MCNeeds == [b \in MCLive |-> CASE b = "tools" -> {"tool_calls"} [] b = "reasoning" -> {"thinking"}
                               [] OTHER -> {}]
MCBand == [b \in MCLive |-> <<50, 100>>]

\* The pool knows "a" as the weaker of the two; "c" is out of quota for text, and never
\* stops calling tools.
MCHabit == [x \in {<<"a", "pool">>, <<"c", "text">>, <<"c", "tools">>} |->
                CASE x[2] = "pool" -> "wrong" [] x[2] = "text" -> "busy" [] OTHER -> "use"]

\* The seat weighs reasoning and, by knob_battery, the pool; the task is the same battery
\* under one name, and speed.
MCSeatWeights == [b \in {"reasoning", "pool"} |-> IF b = "pool" THEN 1 ELSE 4]
MCSeatPenalty == [truncation |-> 25, completion |-> 15]
MCCanon == [b \in MCLive \cup MCPool |-> IF b = "pool" THEN "reasoning" ELSE b]
MCRowOrder == <<"text", "image", "speed", "reasoning", "code", "facts", "stress", "tools", "pool", "deep">>
MCTask == {"reasoning", "speed"}

\* The repository has an item that Stage 0 does not ask, in a tier without a band. Of the
\* three anchors one speaks the other wire, one has no key. Stage 1 has had one battery.
MCTier == [pool |-> <<3, 3>>, deep |-> <<6, 2>>]
MCAcceptanceBands == [t \in {1, 3, 6} |-> CASE t = 1 -> <<90, 100>> [] t = 3 -> <<40, 60>> [] OTHER -> <<5, 25>>]
MCAnchors == [cheap |-> "a", mid |-> "b", expensive |-> "e"]

bench(models, batteries) == [cmd |-> "bench", models |-> models, batteries |-> batteries]
preflight(models, batteries) == [cmd |-> "preflight", models |-> models, batteries |-> batteries]
stage0Of(models, forced, database) ==
    [cmd |-> "stage0", models |-> models, batteries |-> <<"pool">>,
     forced |-> forced, database |-> database]
stage0(forced, database) == stage0Of(<<"a", "b">>, forced, database)

calibrate(anchors, batteries, resume, cap) ==
    [cmd |-> "calibrate", anchors |-> anchors, batteries |-> batteries, resume |-> resume, cap |-> cap]

Script(trouble_, commands) == [commands |-> commands, trouble |-> trouble_]
MCScripts == {
    Script(2, <<bench(<<"a">>, <<"text", "image", "tools">>)>>),
    Script(2, <<bench(<<"b">>, <<"reasoning", "code">>)>>),
    Script(2, <<bench(<<"b">>, <<"facts", "stress">>)>>),
    Script(0, <<bench(<<"c">>, <<"text", "tools">>), stage0(FALSE, FALSE)>>),
    Script(1, <<bench(<<"a">>, <<"tools">>), bench(<<"c">>, <<"speed">>), bench(<<"a">>, <<"tools", "reasoning">>)>>),
    Script(1, <<bench(<<"b">>, <<"speed">>), preflight(<<"a", "b">>, <<"speed", "text">>), stage0(FALSE, TRUE)>>),
    Script(0, <<bench(<<"b">>, <<"speed">>), preflight(<<"a", "b">>, <<"speed", "text", "tools">>), stage0(FALSE, TRUE)>>),
    Script(2, <<bench(<<"b">>, <<"speed">>), preflight(<<"a">>, <<"speed", "text", "reasoning">>)>>),
    Script(0, <<preflight(<<"b">>, <<"speed">>), bench(<<"d">>, <<"speed">>), preflight(<<"d">>, <<"speed">>)>>),
    Script(1, <<bench(<<"a", "b">>, <<"reasoning", "speed">>), stage0(TRUE, TRUE)>>),
    Script(0, <<bench(<<"a", "b">>, <<"speed">>), stage0(TRUE, TRUE), stage0Of(<<"a", "b", "c">>, TRUE, TRUE)>>),
    Script(0, <<bench(<<"e", "f", "b">>, <<"speed">>), stage0Of(<<"a", "f">>, TRUE, TRUE),
                stage0Of(<<"e", "b">>, TRUE, TRUE)>>),
    Script(2, <<stage0Of(<<"b">>, TRUE, TRUE), calibrate(<<"cheap">>, <<"pool">>, FALSE, 1),
                calibrate(<<"cheap", "mid">>, <<"pool">>, TRUE, 8)>>),
    Script(1, <<calibrate(<<"cheap">>, <<"pool", "deep">>, FALSE, 8), stage0Of(<<"b">>, TRUE, TRUE),
                calibrate(<<"cheap", "expensive">>, <<"pool">>, TRUE, 8), calibrate(<<"none">>, <<"pool">>, TRUE, 8)>>),
    Script(1, <<calibrate(<<"cheap">>, <<"deep">>, FALSE, 1), calibrate(<<"mid">>, <<"deep">>, TRUE, 8)>>),
    Script(2, <<stage0(TRUE, TRUE)>>)}
=============================================================================
