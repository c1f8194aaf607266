-------------------------------- MODULE MCRoute --------------------------------
(* An instance of RouteGate: a mapped key, a channel key, a request without  *)
(* a key; three live states, two of them differing in one binding each.  The *)
(* Codex rules map a model and the model with the effort low differently and *)
(* leave it with the effort high alone.                                      *)
EXTENDS RouteGate

CONSTANTS mapped, channel, r1, r2

RuleText(chars) == ParseRules(chars)
Unset == <<>>

MCRules == [global |-> RuleText(<<"a", "=", ">", "b">>),
            claude |-> Unset,
            codex  |-> RuleText(<<"a", "(", "low", ")", "=", ">", "b", ";", "a", "(", "*", "=", ">", "a", "(", "$", "1",
                                ";", "a", "=", ">", "c">>),
            openai |-> Unset]
Plain == [global |-> Unset, claude |-> Unset, codex |-> Unset, openai |-> Unset]

Binding(key, rules, enabled, blocked, fast, target, auths) ==
  [key |-> key, rules |-> rules, enabled |-> enabled, blocked |-> blocked, fastAllowed |-> fast,
   target |-> [enabled |-> target, auths |-> auths]]

MCBindings == <<Binding(mapped, [Plain EXCEPT !.claude = RuleText(<<"b", "=", ">", "c">>)], TRUE, FALSE, FALSE, FALSE, {}),
                Binding(channel, Plain, TRUE, FALSE, TRUE, TRUE, {1, 2})>>

MCSource1 == [rules |-> MCRules, bindings |-> MCBindings]
MCSource2 == [MCSource1 EXCEPT !.bindings = <<[MCBindings[1] EXCEPT !.blocked = TRUE, !.enabled = FALSE], [MCBindings[2] EXCEPT !.target.enabled = FALSE]>>]
MCSource3 == [rules |-> [Plain EXCEPT !.global = Broken], bindings |-> <<MCBindings[2]>>]
MCSources == {MCSource1, MCSource2, MCSource3}

Shape(key, format, effort, fast) == [key |-> key, format |-> format, model |-> <<"a">>, effort |-> effort, fast |-> fast]
MCShapes == {Shape(mapped, "claude", "none", TRUE),
             Shape(channel, "openai-response", "high", FALSE), Shape(NoKey, "openai-response", "low", FALSE)}

Symmetry == Permutations({r1, r2})
=============================================================================
