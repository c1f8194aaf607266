------------------------------ MODULE Routing ------------------------------
(***************************************************************************)
(* The decisions src/main.go, src/state.go and src/management.go take for  *)
(* one request from one reading of the configuration and the live state:   *)
(* which binding belongs to a client key, whether the request is blocked,  *)
(* how its model is mapped, which credentials may serve it, and what the   *)
(* dry run of the rules shows.                                             *)
(*                                                                         *)
(* A rule set has a parsed rule list per segment, <<>> for a segment that  *)
(* is not set and Broken for one that does not parse.  decodeConfig and    *)
(* validateState refuse such a text before it is installed; the routes     *)
(* have an error for it all the same, and so has the model.                *)
(***************************************************************************)
EXTENDS RuleEngine

CONSTANT NoKey

Broken == <<CaseEntry("broken")>>
Efforts == {"low", "high"}

SegmentOf == [claude |-> "claude", codex |-> "openai-response", openai |-> "openai"]

(***************************************************************************)
(* selectRulesFrom: the segment of the request's format, else the global   *)
(* one.                                                                    *)
(***************************************************************************)
SelectRules(rs, format) ==
  LET own == {seg \in DOMAIN SegmentOf : SegmentOf[seg] = format /\ rs[seg] # <<>>}
  IN  IF own = {} THEN rs.global ELSE rs[CHOOSE seg \in own : TRUE]

Applied(rules, done) ==
  IF rules = Broken THEN [model |-> <<>>, matched |-> FALSE, error |-> TRUE]
  ELSE [model |-> done.model, matched |-> done.matched, error |-> FALSE]

ApplyRuleSet(rs, format, model) ==
  LET rules == SelectRules(rs, format)
  IN  Applied(rules, ApplyRules(model, rules))

-----------------------------------------------------------------------------
(***************************************************************************)
(* The bindings of a client key: the first one with that key, whatever its *)
(* switches; enabled for mapping; with an enabled target; blocked.         *)
(***************************************************************************)
BindingsOf(bindings, key) == {i \in DOMAIN bindings : key # NoKey /\ bindings[i].key = key}

KeyBinding(bindings, key) ==
  LET own == BindingsOf(bindings, key)
  IN  IF own = {} THEN <<>> ELSE <<bindings[CHOOSE i \in own : \A j \in own : i <= j]>>

EnabledBinding(bindings, key) ==
  LET own == KeyBinding(bindings, key) IN IF own # <<>> /\ own[1].enabled THEN own ELSE <<>>

ActiveTarget(bindings, key) ==
  LET own == KeyBinding(bindings, key) IN IF own # <<>> /\ own[1].target.enabled THEN own ELSE <<>>

\* Mutant of Blocked: a binding that is switched off does not block.
BlockedIfEnabled(bindings, key) ==
  \E i \in BindingsOf(bindings, key) : bindings[i].blocked /\ bindings[i].enabled

Blocked(bindings, key) == \E i \in BindingsOf(bindings, key) : bindings[i].blocked

(***************************************************************************)
(* Both layers of mapping: the top-level rules, then those of the binding. *)
(***************************************************************************)
SecondLayer(m1, own, format) ==
  IF m1.error \/ own = <<>> THEN m1 ELSE ApplyRuleSet(own[1].rules, format, m1.model)

TwoLayers(src, format, model, key) ==
  SecondLayer(ApplyRuleSet(src.rules, format, model), EnabledBinding(src.bindings, key), format)

Unhandled == [handled |-> FALSE, original |-> <<>>, upstream |-> <<>>, error |-> FALSE]
RouteError == [Unhandled EXCEPT !.error = TRUE]

(***************************************************************************)
(* routeModel: a disabled plugin and a key with a channel target leave the *)
(* model alone, and so does a chain that ends where it began.              *)
(***************************************************************************)
Routed(model, chain) ==
  CASE chain.error -> RouteError
    [] ~chain.error /\ chain.model = model -> Unhandled
    [] OTHER -> [handled |-> TRUE, original |-> model, upstream |-> chain.model, error |-> FALSE]

\* Mutant of RouteModel: a channel target does not stop the mapping.
RouteModelUntargeted(on, src, format, model, key) ==
  IF on THEN Routed(model, TwoLayers(src, format, model, key)) ELSE Unhandled

RouteModel(on, src, format, model, key) ==
  IF on /\ ActiveTarget(src.bindings, key) = <<>>
  THEN Routed(model, TwoLayers(src, format, model, key))
  ELSE Unhandled

(***************************************************************************)
(* The effort of a Codex Responses body takes part as a model suffix.      *)
(***************************************************************************)
HasModelSuffix(model) ==
  LET opens == {i \in DOMAIN model : model[i] = "("}
      open  == CHOOSE i \in opens : \A j \in opens : j <= i
  IN  opens # {} /\ open > 1 /\ Last(model) = ")" /\ open + 1 < Len(model)

CodexEffort(format, model, effort) ==
  IF format = "openai-response" /\ ~HasModelSuffix(model) /\ effort \in Efforts THEN effort ELSE "none"

Qualified(model, effort) == model \o <<"(", effort, ")">>

\* Mutants of RouteForRequest: no second try without the effort; the suffix
\* stays in the original name.
RouteForRequestOnce(on, src, format, model, key, effort) ==
  LET e == CodexEffort(format, model, effort)
      named(q) == IF q.handled THEN [q EXCEPT !.original = model] ELSE q
  IN  named(RouteModel(on, src, format, IF e = "none" THEN model ELSE Qualified(model, e), key))

RouteForRequestQualified(on, src, format, model, key, effort) ==
  LET e    == CodexEffort(format, model, effort)
      q    == RouteModel(on, src, format, Qualified(model, e), key)
      bare == RouteModel(on, src, format, model, key)
  IN  IF e # "none" /\ (q.error \/ q.handled) THEN q ELSE bare

LongFirst(model, e, q, bare) ==
  CASE e # "none" /\ q.error -> q
    [] e # "none" /\ q.handled -> [q EXCEPT !.original = model]
    [] OTHER -> bare

RouteForRequest(on, src, format, model, key, effort) ==
  LET e == CodexEffort(format, model, effort)
  IN  LongFirst(model, e, RouteModel(on, src, format, Qualified(model, e), key),
                RouteModel(on, src, format, model, key))

(***************************************************************************)
(* upstreamModelForRequest: what an executor sends upstream and which name *)
(* it puts back into the answer.  Routing has changed its mind or fails:   *)
(* the client's model passes through.                                      *)
(***************************************************************************)
Forwarded(model, d) ==
  IF d.handled THEN [upstream |-> d.upstream, original |-> d.original]
  ELSE [upstream |-> model, original |-> model]

\* Mutant of UpstreamFor: the effort left out.
UpstreamForBare(on, src, format, model, key, effort) ==
  Forwarded(model, RouteModel(on, src, format, model, key))

UpstreamFor(on, src, format, model, key, effort) ==
  Forwarded(model, RouteForRequest(on, src, format, model, key, effort))

(***************************************************************************)
(* previewRoute, the dry run: written out a second time in management.go.  *)
(***************************************************************************)
Idle(model) == [m1 |-> model, m2 |-> model, routed |-> FALSE, error |-> FALSE]

Shown(model, m1, m2) ==
  IF m1.error \/ m2.error THEN [Idle(model) EXCEPT !.error = TRUE]
  ELSE [m1 |-> m1.model, m2 |-> m2.model, routed |-> m2.model # model, error |-> FALSE]

\* Mutant of PreviewRoute: a binding that is switched off takes part.
PreviewRouteAnyBinding(on, src, format, model, key) ==
  LET m1 == ApplyRuleSet(src.rules, format, model)
  IN  IF on /\ ActiveTarget(src.bindings, key) = <<>>
      THEN Shown(model, m1, SecondLayer(m1, KeyBinding(src.bindings, key), format))
      ELSE Idle(model)

PreviewRoute(on, src, format, model, key) ==
  LET m1 == ApplyRuleSet(src.rules, format, model)
  IN  IF on /\ ActiveTarget(src.bindings, key) = <<>>
      THEN Shown(model, m1, SecondLayer(m1, EnabledBinding(src.bindings, key), format))
      ELSE Idle(model)

=============================================================================
