------------------------------ MODULE RuleDesk ------------------------------
(***************************************************************************)
(* What an operator meets who types a rule text, piece by piece, and a     *)
(* model name to try it on: the rule engine and the routing decisions      *)
(* against definitions that say what they are to compute.                  *)
(***************************************************************************)
EXTENDS Routing

CONSTANTS Pieces,       \* what the rule text is typed from
          Letters,      \* what the model name is typed from
          MaxPieces,    \* bound: pieces of the rule text
          MaxLetters    \* bound: letters of the model name

ASSUME TextsAssumption == Pieces \subseteq Seq(STRING) /\ Letters \subseteq STRING

VARIABLES rule, model, typed

deskVars == <<rule, model, typed>>

(***************************************************************************)
(* Bound: no number in the rule text is beyond an int.  parseReplace lets  *)
(* it overflow (main.go:1752), and takes a negative one for a reference to *)
(* a capture.                                                              *)
(***************************************************************************)
NumbersFit(s) ==
  \A i, j \in DOMAIN s : (\A k \in i..j : IsDigit(s[k])) => 2 * Numeral(SubSeq(s, i, j)) < IntSpan

DeskInit == rule = <<>> /\ model = <<>> /\ typed = 0

TypeRule ==
  /\ typed < MaxPieces
  /\ \E p \in Pieces : NumbersFit(rule \o p) /\ rule' = rule \o p
  /\ typed' = typed + 1
  /\ UNCHANGED model

TypeModel ==
  /\ Len(model) < MaxLetters
  /\ \E c \in Letters : model' = Append(model, c)
  /\ UNCHANGED <<rule, typed>>

DeskNext == TypeRule \/ TypeModel

DeskSpec == DeskInit /\ [][DeskNext]_deskVars

-----------------------------------------------------------------------------
(***************************************************************************)
(* A fit of a pattern: one end for every token, in order, up to the end of *)
(* the text, such that a literal covers itself.                            *)
(***************************************************************************)
Start(ends, k) == IF k = 1 THEN 0 ELSE ends[k - 1]

Fits(s, tokens) ==
  {ends \in [DOMAIN tokens -> 0..Len(s)] :
     /\ ends[Len(tokens)] = Len(s)
     /\ \A k \in DOMAIN tokens :
          /\ Start(ends, k) <= ends[k]
          /\ IsLit(tokens[k]) => Sub(s, Start(ends, k), ends[k]) = tokens[k].lit}

CapturesOf(s, tokens, ends) ==
  FlattenSeq([k \in DOMAIN tokens |-> Taken(s, tokens[k], Start(ends, k), ends[k])])

Nearer(e, f) ==
  e = f \/ \E k \in DOMAIN e : e[k] < f[k] /\ \A l \in 1..k-1 : e[l] = f[l]

Adjacent(tokens) == \E k \in 1..Len(tokens)-1 : ~IsLit(tokens[k]) /\ ~IsLit(tokens[k+1])

Pattern == ParseSide(rule, TRUE, 0)

(***************************************************************************)
(* The matcher with its memo finds a fit whenever there is one, also where *)
(* a literal repeats, and gives the nearest one: each capture in turn as   *)
(* short as a fit allows (matchTokens; of two captures side by side the    *)
(* first one ends where the next literal occurs, and need not be short).   *)
(***************************************************************************)
MatcherIsReference ==
  Pattern # <<>> =>
    LET got  == MatchTokens(model, Pattern)
        fits == Fits(model, Pattern)
    IN  /\ got.ok = (fits # {})
        /\ (got.ok /\ ~Adjacent(Pattern)) =>
             got.caps = CapturesOf(model, Pattern, CHOOSE e \in fits : \A f \in fits : Nearer(e, f))
        /\ got.ok => \E e \in fits : got.caps = CapturesOf(model, Pattern, e)

(***************************************************************************)
(* Every text without blanks can be written as a literal of a rule, on     *)
(* either side, with the escapes of the language: the rule then takes that *)
(* name, and no other, to the other text (parseFind, parseReplace,         *)
(* findRuleSeparator, splitEscaped).                                       *)
(***************************************************************************)
Quote(s) ==
  FlattenSeq([i \in DOMAIN s |->
    IF s[i] \in {"*", ";", "$", "\\"} \/ (s[i] = "=" /\ i < Len(s) /\ s[i+1] = ">")
    THEN <<"\\", s[i]>> ELSE <<s[i]>>])

Writable(s) == s # <<>> /\ \A i \in DOMAIN s : s[i] \notin Refused

QuotedRuleIsExact ==
  (Writable(rule) /\ Writable(model)) =>
    \A way \in {<<rule, model>>, <<model, rule>>} :
      LET rules == ParseRules(Quote(way[1]) \o <<"=", ">">> \o Quote(way[2]))
      IN  /\ Len(rules) = 1 /\ rules[1].op = "none"
          /\ ApplyRules(way[1], rules) = [model |-> way[2], matched |-> TRUE]
          /\ \A other \in {way[2], Append(way[1], "a"), <<"a">> \o way[1]} :
               other # way[1] => ~ApplyRules(other, rules).matched

(***************************************************************************)
(* The live states that can be made of the typed rule: in one of the       *)
(* segments, alone or below a binding that is on, off or has a channel.    *)
(***************************************************************************)
NoRules == [global |-> <<>>, claude |-> <<>>, codex |-> <<>>, openai |-> <<>>]
SwapRule == ParseRules(<<"a", "=", ">", "b">>)
Client == "client"

Saved(text, rules) == IF rules = <<>> /\ text # <<>> THEN Broken ELSE rules
LayersOf(r) == {[NoRules EXCEPT !.global = r], [NoRules EXCEPT !.codex = r, !.global = SwapRule], NoRules}
Layers == LayersOf(Saved(rule, ParseRules(rule)))

Switched == {<<TRUE, FALSE>>, <<FALSE, FALSE>>, <<FALSE, TRUE>>}   \* a binding and its channel

LiveStates ==
  [rules : Layers,
   bindings : {<<>>} \cup {<<[key |-> Client, enabled |-> on[1], blocked |-> FALSE, rules |-> l,
                              target |-> [enabled |-> on[2], auths |-> {}], fastAllowed |-> TRUE]>> :
                             on \in Switched, l \in Layers}]

Agrees(shown, route, sent) ==
  /\ shown.error = route.error
  /\ ~shown.error => shown.routed = route.handled /\ shown.m2 = sent.upstream

(***************************************************************************)
(* management.go:355: the dry run matches production routing.  It has no   *)
(* request body, so it cannot show an effort; for a request without one    *)
(* its answer is the executor's upstream model, whatever the rules.        *)
(***************************************************************************)
PreviewAgrees ==
  model # <<>> =>
    \A on \in BOOLEAN, s \in LiveStates, format \in {"openai-response", "openai"} :
      Agrees(PreviewRoute(on, s, format, model, Client),
             RouteForRequest(on, s, format, model, Client, "none"),
             UpstreamFor(on, s, format, model, Client, "none"))

Kept(bare, full, name) ==
  /\ full.error = bare.error
  /\ bare.handled => full.handled
  /\ full.handled => full.original = name /\ full.upstream # <<>>

(***************************************************************************)
(* main.go:1000: a request with an effort is mapped wherever the same      *)
(* request without one is, and the client's name is restored.              *)
(***************************************************************************)
EffortKeepsMappings ==
  model # <<>> =>
    \A s \in LiveStates, effort \in Efforts :
      Kept(RouteForRequest(TRUE, s, "openai-response", model, Client, "none"),
           RouteForRequest(TRUE, s, "openai-response", model, Client, effort), model)

=============================================================================
