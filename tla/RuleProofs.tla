------------------------------ MODULE RuleProofs ------------------------------
(***************************************************************************)
(* What a rule text and a model name come to, for every text and every     *)
(* name that can be typed.                                                 *)
(***************************************************************************)
EXTENDS RuleDesk, Inductions

(***************************************************************************)
(* Without an effort a request is routed by its bare name.                 *)
(***************************************************************************)
LEMMA NoEffort ==
  ASSUME NEW on, NEW s, NEW format, NEW name, NEW key
  PROVE  RouteForRequest(on, s, format, name, key, "none") = RouteModel(on, s, format, name, key)
<1>1. "none" \notin Efforts
  BY DEF Efforts
<1>2. CodexEffort(format, name, "none") = "none"
  BY <1>1 DEF CodexEffort
<1> DEFINE q == RouteModel(on, s, format, Qualified(name, "none"), key)
           bare == RouteModel(on, s, format, name, key)
<1>3. RouteForRequest(on, s, format, name, key, "none") = LongFirst(name, "none", q, bare)
  BY <1>2 DEF RouteForRequest
<1> HIDE DEF q, bare
<1>4. LongFirst(name, "none", q, bare) = bare
  BY DEF LongFirst
<1> QED
  BY <1>3, <1>4 DEF bare

(***************************************************************************)
(* The second implementation of the two layers comes to what the first one *)
(* does: an error of either is an error of the chain, and where the chain  *)
(* ends is what is shown and what is sent (previewRoute, routeModel).      *)
(***************************************************************************)
LEMMA ShownIsRouted ==
  ASSUME NEW on \in BOOLEAN, NEW s, NEW format, NEW name, NEW key
  PROVE  LET shown == PreviewRoute(on, s, format, name, key)
             route == RouteModel(on, s, format, name, key)
         IN  /\ shown.error = route.error
             /\ ~shown.error => /\ shown.routed = route.handled
                                /\ shown.m2 = Forwarded(name, route).upstream
<1> DEFINE m1 == ApplyRuleSet(s.rules, format, name)
           own == EnabledBinding(s.bindings, key)
           m2 == SecondLayer(m1, own, format)
           target == ActiveTarget(s.bindings, key)
<1>1. CASE on /\ target = <<>>
  <2>1. PreviewRoute(on, s, format, name, key) = Shown(name, m1, m2)
    BY <1>1 DEF PreviewRoute
  <2>2. RouteModel(on, s, format, name, key) = Routed(name, m2)
    BY <1>1 DEF RouteModel, TwoLayers
  <2>3. m1.error => m2 = m1
    BY DEF SecondLayer
  <2> HIDE DEF m1, m2, own, target
  <2>4. CASE m1.error \/ m2.error
    <3>1. m2.error
      BY <2>3, <2>4
    <3>2. Shown(name, m1, m2).error = TRUE
      BY <2>4 DEF Shown, Idle
    <3>3. Routed(name, m2).error = TRUE
      BY <3>1 DEF Routed, RouteError, Unhandled
    <3> QED
      BY <2>1, <2>2, <3>2, <3>3
  <2>5. CASE ~(m1.error \/ m2.error)
    <3>1. Shown(name, m1, m2) = [m1 |-> m1.model, m2 |-> m2.model, routed |-> m2.model # name, error |-> FALSE]
      BY <2>5 DEF Shown
    <3>2. CASE m2.model = name
      <4>1. Routed(name, m2) = Unhandled
        BY <2>5, <3>2 DEF Routed
      <4>2. Shown(name, m1, m2) = [m1 |-> m1.model, m2 |-> name, routed |-> FALSE, error |-> FALSE]
        BY <3>1, <3>2
      <4> QED
        BY <2>1, <2>2, <4>1, <4>2 DEF Unhandled, Forwarded
    <3>3. CASE m2.model # name
      <4>1. Routed(name, m2) = [handled |-> TRUE, original |-> name, upstream |-> m2.model, error |-> FALSE]
        BY <2>5, <3>3 DEF Routed
      <4>2. Shown(name, m1, m2) = [m1 |-> m1.model, m2 |-> m2.model, routed |-> TRUE, error |-> FALSE]
        BY <3>1, <3>3
      <4> QED
        BY <2>1, <2>2, <4>1, <4>2 DEF Forwarded
    <3> QED
      BY <3>2, <3>3
  <2> QED
    BY <2>4, <2>5
<1>2. CASE ~(on /\ target = <<>>)
  <2>1. PreviewRoute(on, s, format, name, key) = Idle(name) /\ RouteModel(on, s, format, name, key) = Unhandled
    BY <1>2 DEF PreviewRoute, RouteModel
  <2> QED
    BY <2>1 DEF Idle, Unhandled, Forwarded
<1> QED
  BY <1>1, <1>2

(***************************************************************************)
(* Whatever the rules, the bindings and the model name, the dry run of a   *)
(* route shows an error where the request would meet one, and otherwise    *)
(* the model its executor would send upstream (management.go, main.go).    *)
(***************************************************************************)
THEOREM PreviewsAgree == DeskSpec => []PreviewAgrees
<1>1. PreviewAgrees
  <2> SUFFICES ASSUME NEW on \in BOOLEAN, NEW s \in LiveStates, NEW format \in {"openai-response", "openai"}
               PROVE  LET shown == PreviewRoute(on, s, format, model, Client)
                          route == RouteForRequest(on, s, format, model, Client, "none")
                      IN  /\ shown.error = route.error
                          /\ ~shown.error => /\ shown.routed = route.handled
                                             /\ shown.m2 = UpstreamFor(on, s, format, model, Client, "none").upstream
    BY DEF PreviewAgrees, Agrees
  <2>1. RouteForRequest(on, s, format, model, Client, "none") = RouteModel(on, s, format, model, Client)
    BY NoEffort
  <2>2. UpstreamFor(on, s, format, model, Client, "none") = Forwarded(model, RouteModel(on, s, format, model, Client))
    BY <2>1 DEF UpstreamFor
  <2> QED
    BY <2>1, <2>2, ShownIsRouted
<1> QED
  BY <1>1, PTL

-----------------------------------------------------------------------------
Char == STRING \union {"\\", "=", ">", "(", ")", "low", "high", "a", "b", "A", "B"}
Text == Seq(Char)
Token == [lit : Text, cap : Int]
Answers == [ok : BOOLEAN, caps : Seq(Text), failed : SUBSET (Nat \X Nat)]

LEMMA LeastOf ==
  ASSUME NEW S, S \subseteq Nat, S # {}
  PROVE  Least(S) \in S /\ \A y \in S : Least(S) <= y
<1>1. \E n \in S : \A m \in S : n <= m
  BY LeastElement
<1> QED
  BY <1>1 DEF Least

LEMMA EndsType ==
  ASSUME NEW s \in Text, NEW tokens \in Seq(Token), NEW ti \in 1..Len(tokens), NEW pos \in 0..Len(s)
  PROVE  TokenEnds(s, tokens, ti, pos) \subseteq pos..Len(s)
<1>1. Len(s) \in Nat
  BY DEF Text
<1> QED
  BY <1>1 DEF TokenEnds, CaptureEnds, Occurrences

LEMMA TakenType ==
  ASSUME NEW s \in Text, NEW token, NEW pos \in 0..Len(s), NEW end \in pos..Len(s)
  PROVE  Taken(s, token, pos, end) \in Seq(Text)
<1>1. Sub(s, pos, end) \in Text
  <2>1. Len(s) \in Nat /\ pos + 1 \in 1..Len(s)+1 /\ end \in 0..Len(s)
    BY DEF Text
  <2>2. SubSeq(s, pos + 1, end) \in Seq(Char)
    BY <2>1, SMT DEF Text
  <2> QED
    BY <2>2 DEF Sub, Text
<1>2. <<Sub(s, pos, end)>> \in Seq(Text) /\ <<>> \in Seq(Text)
  BY <1>1
<1> QED
  BY <1>2 DEF Taken

(***************************************************************************)
(* The ends a search still has before it, and what it says.                *)
(***************************************************************************)
Left(s, tokens, a) == {e \in TokenEnds(s, tokens, a.ti, a.pos) : a.from <= e}
Deeper(s, tokens, a) == Attempt(a.ti + 1, Least(Left(s, tokens, a)), Least(Left(s, tokens, a)), a.failed)
Again(s, tokens, a, r) == Attempt(a.ti, a.pos, Least(Left(s, tokens, a)) + 1, r.failed)
Todo(s, tokens, a) == (Len(tokens) + 1 - a.ti) * (Len(s) + 2) + (Len(s) + 1 - a.from)

LEMMA MatchParts ==
  ASSUME NEW s, NEW tokens, NEW a, NEW m
  PROVE  Match(s, tokens, a, m) =
           LET r == m[Deeper(s, tokens, a)]
           IN  IF a.ti > Len(tokens) THEN Outcome(a.pos = Len(s), <<>>, a.failed)
               ELSE IF Known(a.failed, a.ti, a.pos) THEN Outcome(FALSE, <<>>, a.failed)
               ELSE IF Left(s, tokens, a) = {} THEN Outcome(FALSE, <<>>, a.failed \union {<<a.ti, a.pos>>})
               ELSE IF r.ok THEN Outcome(TRUE, Taken(s, tokens[a.ti], a.pos, Least(Left(s, tokens, a))) \o r.caps, r.failed)
               ELSE m[Again(s, tokens, a, r)]
  BY DEF Match, Left, Deeper, Again

LEMMA LeftLeast ==
  ASSUME NEW s \in Text, NEW tokens \in Seq(Token), NEW a \in Attempts(s, tokens),
         a.ti <= Len(tokens), Left(s, tokens, a) # {}
  PROVE  LET end == Least(Left(s, tokens, a))
         IN  /\ end \in TokenEnds(s, tokens, a.ti, a.pos) /\ a.from <= end
             /\ end \in a.pos..Len(s) /\ end \in 0..Len(s)
             /\ \A e \in TokenEnds(s, tokens, a.ti, a.pos) : a.from <= e => end <= e
<1>1. Len(s) \in Nat /\ Len(tokens) \in Nat /\ a.ti \in 1..Len(tokens) /\ a.pos \in 0..Len(s)
  BY DEF Text, Attempts
<1>2. TokenEnds(s, tokens, a.ti, a.pos) \subseteq a.pos..Len(s)
  BY <1>1, EndsType
<1>3. Left(s, tokens, a) \subseteq Nat
  BY <1>1, <1>2 DEF Left
<1>4. Least(Left(s, tokens, a)) \in Left(s, tokens, a) /\ \A y \in Left(s, tokens, a) : Least(Left(s, tokens, a)) <= y
  BY <1>3, LeastOf
<1> DEFINE end == Least(Left(s, tokens, a))
<1>5. end \in TokenEnds(s, tokens, a.ti, a.pos) /\ a.from <= end
  BY <1>4 DEF Left
<1>6. \A e \in TokenEnds(s, tokens, a.ti, a.pos) : a.from <= e => end <= e
  BY <1>4 DEF Left
<1> HIDE DEF end
<1>7. end \in a.pos..Len(s)
  BY <1>2, <1>5
<1>8. end \in 0..Len(s)
  BY <1>1, <1>7
<1> QED
  BY <1>5, <1>6, <1>7, <1>8 DEF end

(***************************************************************************)
(* Both searches a search may call are smaller.                            *)
(***************************************************************************)
LEMMA SmallerSearches ==
  ASSUME NEW s \in Text, NEW tokens \in Seq(Token), NEW a \in Attempts(s, tokens),
         a.ti <= Len(tokens), Left(s, tokens, a) # {}
  PROVE  /\ Deeper(s, tokens, a) \in Attempts(s, tokens)
         /\ Todo(s, tokens, Deeper(s, tokens, a)) < Todo(s, tokens, a)
         /\ \A r \in Answers : /\ Again(s, tokens, a, r) \in Attempts(s, tokens)
                               /\ Todo(s, tokens, Again(s, tokens, a, r)) < Todo(s, tokens, a)
<1> DEFINE end == Least(Left(s, tokens, a))
<1>1. Len(s) \in Nat /\ Len(tokens) \in Nat /\ a.ti \in 1..Len(tokens) /\ a.pos \in 0..Len(s)
      /\ a.from \in 0..Len(s)+1 /\ a.failed \in SUBSET (Nat \X Nat)
  BY DEF Text, Attempts
<1>2. end \in 0..Len(s) /\ a.from <= end
  BY LeftLeast
<1> HIDE DEF end
<1>3. Attempt(a.ti + 1, end, end, a.failed) \in Attempts(s, tokens)
  BY <1>1, <1>2 DEF Attempt, Attempts
<1>4. \A f \in SUBSET (Nat \X Nat) : Attempt(a.ti, a.pos, end + 1, f) \in Attempts(s, tokens)
  BY <1>1, <1>2 DEF Attempt, Attempts
<1>5. (Len(tokens) + 1 - (a.ti + 1)) * (Len(s) + 2) = (Len(tokens) + 1 - a.ti) * (Len(s) + 2) - (Len(s) + 2)
      /\ (Len(tokens) + 1 - a.ti) * (Len(s) + 2) \in Int
  <2> DEFINE x == Len(tokens) + 1 - a.ti
             y == Len(s) + 2
  <2>1. x \in Int /\ y \in Int /\ Len(tokens) + 1 - (a.ti + 1) = x - 1
    BY <1>1
  <2> HIDE DEF x, y
  <2>2. (x - 1) * y = x * y - y /\ x * y \in Int
    BY <2>1
  <2> QED
    BY <2>1, <2>2 DEF x, y
<1>6. Todo(s, tokens, Attempt(a.ti + 1, end, end, a.failed)) < Todo(s, tokens, a)
  <2>1. Todo(s, tokens, Attempt(a.ti + 1, end, end, a.failed))
          = (Len(tokens) + 1 - (a.ti + 1)) * (Len(s) + 2) + (Len(s) + 1 - end)
    BY DEF Todo, Attempt
  <2> DEFINE p == (Len(tokens) + 1 - a.ti) * (Len(s) + 2)
  <2>2. Todo(s, tokens, a) = p + (Len(s) + 1 - a.from)
    BY DEF Todo
  <2>3. Todo(s, tokens, Attempt(a.ti + 1, end, end, a.failed)) = p - (Len(s) + 2) + (Len(s) + 1 - end) /\ p \in Int
    BY <1>5, <2>1
  <2> HIDE DEF p
  <2> QED
    BY <1>1, <1>2, <2>2, <2>3
<1>7. \A f : Todo(s, tokens, Attempt(a.ti, a.pos, end + 1, f)) < Todo(s, tokens, a)
  <2> TAKE f
  <2> DEFINE p == (Len(tokens) + 1 - a.ti) * (Len(s) + 2)
  <2>1. Todo(s, tokens, Attempt(a.ti, a.pos, end + 1, f)) = p + (Len(s) + 1 - (end + 1))
    BY DEF Todo, Attempt
  <2>2. Todo(s, tokens, a) = p + (Len(s) + 1 - a.from) /\ p \in Int
    BY <1>5 DEF Todo
  <2> HIDE DEF p
  <2> QED
    BY <1>1, <1>2, <2>1, <2>2
<1> QED
  BY <1>3, <1>4, <1>6, <1>7 DEF Deeper, Again, end, Answers

TodoOf(s, tokens) == [a \in Attempts(s, tokens) |-> Todo(s, tokens, a)]

LEMMA TodoType ==
  ASSUME NEW s \in Text, NEW tokens \in Seq(Token)
  PROVE  TodoOf(s, tokens) \in Codings(Attempts(s, tokens), Nat)
<1>1. ASSUME NEW a \in Attempts(s, tokens) PROVE Todo(s, tokens, a) \in Nat
  <2>1. Len(s) \in Nat /\ Len(tokens) \in Nat /\ a.ti \in 1..Len(tokens)+1 /\ a.from \in 0..Len(s)+1
    BY DEF Text, Attempts
  <2>2. Len(tokens) + 1 - a.ti \in Nat /\ Len(s) + 2 \in Nat /\ Len(s) + 1 - a.from \in Nat
    BY <2>1
  <2>3. \A x, y, z \in Nat : x * y + z \in Nat
    OBVIOUS
  <2> QED
    BY <2>2, <2>3 DEF Todo
<1> QED
  BY <1>1 DEF TodoOf, Codings

LEMMA MatchType ==
  ASSUME NEW s \in Text, NEW tokens \in Seq(Token), NEW a \in Attempts(s, tokens),
         NEW m \in Codings(Attempts(s, tokens), Answers)
  PROVE  Match(s, tokens, a, m) \in Answers
<1> DEFINE r == m[Deeper(s, tokens, a)]
           end == Least(Left(s, tokens, a))
<1>1. a.ti \in Nat /\ a.pos \in Nat /\ a.failed \in SUBSET (Nat \X Nat) /\ Len(tokens) \in Nat
  BY DEF Attempts
<1>2. \A ok \in BOOLEAN, caps \in Seq(Text), failed \in SUBSET (Nat \X Nat) : Outcome(ok, caps, failed) \in Answers
  BY DEF Outcome, Answers
<1>3. <<>> \in Seq(Text)
  OBVIOUS
<1>4. a.failed \union {<<a.ti, a.pos>>} \in SUBSET (Nat \X Nat)
  BY <1>1
<1>5. CASE a.ti > Len(tokens) \/ Known(a.failed, a.ti, a.pos) \/ Left(s, tokens, a) = {}
  <2>1. (a.pos = Len(s)) \in BOOLEAN
    OBVIOUS
  <2> QED
    BY <1>1, <1>2, <1>3, <1>4, <1>5, <2>1, MatchParts
<1>6. CASE ~(a.ti > Len(tokens) \/ Known(a.failed, a.ti, a.pos) \/ Left(s, tokens, a) = {})
  <2>1. a.ti <= Len(tokens) /\ Left(s, tokens, a) # {}
    BY <1>1, <1>6
  <2>2. Deeper(s, tokens, a) \in Attempts(s, tokens)
    BY <2>1, SmallerSearches
  <2>3. r \in Answers
    BY <2>2 DEF Codings
  <2>4. end \in a.pos..Len(s) /\ a.pos \in 0..Len(s)
    BY <2>1, LeftLeast DEF Attempts
  <2>5. Taken(s, tokens[a.ti], a.pos, end) \in Seq(Text)
    BY <2>4, TakenType
  <2>6. r.caps \in Seq(Text) /\ r.failed \in SUBSET (Nat \X Nat)
    BY <2>3 DEF Answers
  <2>7. Taken(s, tokens[a.ti], a.pos, end) \o r.caps \in Seq(Text)
    BY <2>5, <2>6
  <2>8. Again(s, tokens, a, r) \in Attempts(s, tokens)
    BY <2>1, <2>3, SmallerSearches
  <2>9. m[Again(s, tokens, a, r)] \in Answers
    BY <2>8 DEF Codings
  <2>10. Outcome(TRUE, Taken(s, tokens[a.ti], a.pos, end) \o r.caps, r.failed) \in Answers
    BY <1>2, <2>6, <2>7
  <2>11. Match(s, tokens, a, m) = IF r.ok THEN Outcome(TRUE, Taken(s, tokens[a.ti], a.pos, end) \o r.caps, r.failed)
                                  ELSE m[Again(s, tokens, a, r)]
    BY <1>6, MatchParts
  <2> HIDE DEF r, end
  <2> QED
    BY <2>9, <2>10, <2>11
<1> QED
  BY <1>5, <1>6

Matcher(s, tokens) == CHOOSE m : m = [a \in Attempts(s, tokens) |-> Match(s, tokens, a, m)]

LEMMA MatcherRuns ==
  ASSUME NEW s \in Text, NEW tokens \in Seq(Token)
  PROVE  /\ \A a \in Attempts(s, tokens) :
              Matcher(s, tokens)[a] \in Answers /\ Matcher(s, tokens)[a] = Match(s, tokens, a, Matcher(s, tokens))
         /\ MatchTokens(s, tokens) = Matcher(s, tokens)[Attempt(1, 0, 0, {})]
<1> DEFINE S == Attempts(s, tokens)
           F == Codings(S, Answers)
           E == [x \in S \X F |-> Match(s, tokens, x[1], x[2])]
           mu == TodoOf(s, tokens)
<1>1. Outcome(FALSE, <<>>, {}) \in Answers
  BY DEF Outcome, Answers
<1>2. mu \in Codings(S, Nat)
  BY TodoType
<1>3. ASSUME NEW a \in S, NEW m \in F PROVE E[<<a, m>>] = Match(s, tokens, a, m) /\ Match(s, tokens, a, m) \in Answers
  <2>1. Match(s, tokens, a, m) \in Answers
    BY MatchType
  <2> HIDE DEF F, S
  <2> QED
    BY <2>1
<1>4. E \in Codings(S \X F, Answers)
  <2>1. ASSUME NEW x \in S \X F PROVE Match(s, tokens, x[1], x[2]) \in Answers
    <3>1. x[1] \in S /\ x[2] \in F
      OBVIOUS
    <3> QED
      BY <3>1, MatchType
  <2> HIDE DEF F, S
  <2> QED
    BY <2>1 DEF Codings
<1>5. ASSUME NEW a \in S, NEW g \in F, NEW h \in F, \A y \in S : mu[y] < mu[a] => g[y] = h[y]
      PROVE  Match(s, tokens, a, g) = Match(s, tokens, a, h)
  <2>1. CASE a.ti > Len(tokens) \/ Known(a.failed, a.ti, a.pos) \/ Left(s, tokens, a) = {}
    BY <2>1, MatchParts
  <2>2. CASE ~(a.ti > Len(tokens) \/ Known(a.failed, a.ti, a.pos) \/ Left(s, tokens, a) = {})
    <3>1. a.ti <= Len(tokens) /\ Left(s, tokens, a) # {}
      BY <2>2 DEF Attempts
    <3>2. \A y \in S : Todo(s, tokens, y) < Todo(s, tokens, a) => g[y] = h[y]
      BY <1>5 DEF TodoOf
    <3>3. Deeper(s, tokens, a) \in S /\ Todo(s, tokens, Deeper(s, tokens, a)) < Todo(s, tokens, a)
      BY <3>1, SmallerSearches
    <3>4. g[Deeper(s, tokens, a)] = h[Deeper(s, tokens, a)] /\ g[Deeper(s, tokens, a)] \in Answers
      BY <3>2, <3>3 DEF Codings
    <3>5. Again(s, tokens, a, g[Deeper(s, tokens, a)]) \in S
          /\ Todo(s, tokens, Again(s, tokens, a, g[Deeper(s, tokens, a)])) < Todo(s, tokens, a)
      BY <3>1, <3>4, SmallerSearches
    <3>6. g[Again(s, tokens, a, g[Deeper(s, tokens, a)])] = h[Again(s, tokens, a, g[Deeper(s, tokens, a)])]
      BY <3>2, <3>5
    <3> HIDE DEF S, F
    <3> QED
      BY <3>4, <3>6, MatchParts
  <2> QED
    BY <2>1, <2>2
<1>6. PICK f \in F : \A x \in S : f[x] = E[<<x, f>>]
  <2>1. \A x \in S : \A g, h \in F : (\A y \in S : mu[y] < mu[x] => g[y] = h[y]) => E[<<x, g>>] = E[<<x, h>>]
    <3> HIDE DEF S, E, F, mu
    <3> QED
      BY <1>3, <1>5
  <2> DEFINE V == Answers
             v0 == Outcome(FALSE, <<>>, {})
  <2>3. v0 \in V /\ mu \in Codings(S, Nat) /\ E \in Codings(S \X Codings(S, V), V)
    BY <1>1, <1>2, <1>4
  <2>4. \A x \in S : \A g, h \in Codings(S, V) : (\A y \in S : mu[y] < mu[x] => g[y] = h[y]) => E[<<x, g>>] = E[<<x, h>>]
    <3> HIDE DEF S, E, mu
    <3> QED
      BY <2>1
  <2> HIDE DEF S, E, mu, V, v0
  <2>5. \E f \in Codings(S, V) : \A x \in S : f[x] = E[<<x, f>>]
    BY <2>3, <2>4, MeasureRecursion
  <2>2. \E f \in F : \A x \in S : f[x] = E[<<x, f>>]
    BY <2>5 DEF V
  <2> QED
    BY <2>2
<1>7. f = [a \in S |-> Match(s, tokens, a, f)]
  <2>1. f = [a \in S |-> f[a]]
    BY DEF Codings
  <2>2. \A a \in S : f[a] = Match(s, tokens, a, f)
    BY <1>3, <1>6
  <2> HIDE DEF S, E, F
  <2> QED
    BY <2>1, <2>2
<1> DEFINE M == Matcher(s, tokens)
<1>8. M = [a \in S |-> Match(s, tokens, a, M)]
  BY <1>7 DEF Matcher
<1>9. \A a \in S : M[a] = Match(s, tokens, a, M)
  <2> HIDE DEF M, S
  <2> QED
    BY <1>8
<1>10. \A a \in S : M[a] \in Answers
  <2>1. M = [a \in S |-> M[a]]
    <3> HIDE DEF M, S
    <3> QED
      BY <1>8
  <2>2. ASSUME NEW a \in S, \A y \in S : mu[y] < mu[a] => M[y] \in Answers PROVE M[a] \in Answers
    <3> DEFINE g == [y \in S |-> IF mu[y] < mu[a] THEN M[y] ELSE Outcome(FALSE, <<>>, {})]
    <3>1. g \in F
      BY <1>1, <2>2 DEF Codings
    <3>2. CASE a.ti > Len(tokens) \/ Known(a.failed, a.ti, a.pos) \/ Left(s, tokens, a) = {}
      <4>1. Match(s, tokens, a, M) = Match(s, tokens, a, g)
        <5> HIDE DEF g, M, S, F, mu
        <5> QED
          BY <3>2, MatchParts
      <4> QED
        BY <1>9, <3>1, <4>1, MatchType
    <3>3. CASE ~(a.ti > Len(tokens) \/ Known(a.failed, a.ti, a.pos) \/ Left(s, tokens, a) = {})
      <4>1. a.ti <= Len(tokens) /\ Left(s, tokens, a) # {}
        BY <3>3 DEF Attempts
      <4>2. \A y \in S : Todo(s, tokens, y) < Todo(s, tokens, a) => g[y] = M[y]
        BY DEF TodoOf
      <4>3. Deeper(s, tokens, a) \in S /\ Todo(s, tokens, Deeper(s, tokens, a)) < Todo(s, tokens, a)
        BY <4>1, SmallerSearches
      <4>4. g[Deeper(s, tokens, a)] = M[Deeper(s, tokens, a)] /\ g[Deeper(s, tokens, a)] \in Answers
        <5> HIDE DEF g, M, S
        <5> QED
          BY <3>1, <4>2, <4>3 DEF Codings, S
      <4>5. Again(s, tokens, a, g[Deeper(s, tokens, a)]) \in S
            /\ Todo(s, tokens, Again(s, tokens, a, g[Deeper(s, tokens, a)])) < Todo(s, tokens, a)
        BY <4>1, <4>4, SmallerSearches
      <4>6. g[Again(s, tokens, a, g[Deeper(s, tokens, a)])] = M[Again(s, tokens, a, g[Deeper(s, tokens, a)])]
        <5> HIDE DEF g, M, S
        <5> QED
          BY <4>2, <4>5
      <4>7. Match(s, tokens, a, M) = Match(s, tokens, a, g)
        <5> HIDE DEF g, M, S, F, mu
        <5> QED
          BY <4>4, <4>6, MatchParts
      <4> QED
        BY <1>9, <3>1, <4>7, MatchType
    <3> QED
      BY <3>2, <3>3
  <2> DEFINE W == {n \in Nat : \A y \in S : mu[y] = n => M[y] \in Answers}
  <2>3. ASSUME NEW n \in Nat, \A k \in 0..n-1 : k \in W PROVE n \in W
    <3>1. SUFFICES ASSUME NEW y \in S, mu[y] = n PROVE M[y] \in Answers
      OBVIOUS
    <3>2. ASSUME NEW z \in S, mu[z] < mu[y] PROVE M[z] \in Answers
      <4>1. mu[z] \in Nat
        BY <1>2 DEF Codings
      <4>2. mu[z] \in 0..n-1
        BY <3>1, <3>2, <4>1
      <4> QED
        BY <2>3, <4>2
    <3> HIDE DEF M, S, mu
    <3> QED
      BY <2>2, <3>2
  <2>4. Nat \subseteq W
    <3> HIDE DEF W
    <3> QED
      BY <2>3, StrongInduction
  <2>5. \A y \in S : mu[y] \in Nat
    BY <1>2 DEF Codings
  <2> QED
    BY <2>4, <2>5
<1>11. MatchTokens(s, tokens) = M[Attempt(1, 0, 0, {})]
  BY DEF MatchTokens, Matcher
<1> QED
  BY <1>9, <1>10, <1>11

(***************************************************************************)
(* A path of the search from a token and a position: an end for every      *)
(* token from there on, each one the search would try.                     *)
(***************************************************************************)
Before(e, ti, pos, k) == IF k = ti THEN pos ELSE e[k - 1]

Paths(s, tokens, ti, pos) ==
  {e \in [DOMAIN tokens -> 0..Len(s)] :
     /\ Before(e, ti, pos, Len(tokens) + 1) = Len(s)
     /\ \A k \in ti..Len(tokens) : e[k] \in TokenEnds(s, tokens, k, Before(e, ti, pos, k))}

LEMMA PathFirst ==
  ASSUME NEW s \in Text, NEW tokens \in Seq(Token), NEW ti \in 1..Len(tokens), NEW pos \in 0..Len(s),
         NEW e \in Paths(s, tokens, ti, pos)
  PROVE  e[ti] \in TokenEnds(s, tokens, ti, pos) /\ e \in Paths(s, tokens, ti + 1, e[ti])
<1>1. Len(tokens) \in Nat /\ ti + 1 - 1 = ti /\ ti \in ti..Len(tokens)
  OBVIOUS
<1>2. \A k \in ti+1..Len(tokens)+1 : Before(e, ti, pos, k) = Before(e, ti + 1, e[ti], k)
  BY <1>1 DEF Before
<1>3. e[ti] \in TokenEnds(s, tokens, ti, pos)
  BY <1>1 DEF Paths, Before
<1>4. \A k \in ti+1..Len(tokens) : k \in ti..Len(tokens) /\ k \in ti+1..Len(tokens)+1
  OBVIOUS
<1>5. Len(tokens) + 1 \in ti+1..Len(tokens)+1
  OBVIOUS
<1> QED
  BY <1>2, <1>3, <1>4, <1>5 DEF Paths

WithEnd(g, ti, end) == [g EXCEPT ![ti] = end]

LEMMA PathOn ==
  ASSUME NEW s \in Text, NEW tokens \in Seq(Token), NEW ti \in 1..Len(tokens), NEW pos \in 0..Len(s),
         NEW end \in TokenEnds(s, tokens, ti, pos), NEW g \in Paths(s, tokens, ti + 1, end)
  PROVE  WithEnd(g, ti, end) \in Paths(s, tokens, ti, pos)
<1> DEFINE h == WithEnd(g, ti, end)
<1>1. Len(tokens) \in Nat /\ ti + 1 - 1 = ti /\ ti \in ti..Len(tokens) /\ DOMAIN tokens = 1..Len(tokens) /\ Len(s) \in Nat
  BY DEF Text
<1>2. end \in 0..Len(s)
  <2>1. end \in pos..Len(s)
    BY EndsType
  <2> QED
    BY <1>1, <2>1
<1>3. g \in [DOMAIN tokens -> 0..Len(s)]
  BY DEF Paths
<1>4. h \in [DOMAIN tokens -> 0..Len(s)] /\ h[ti] = end /\ \A k \in ti+1..Len(tokens) : h[k] = g[k]
  BY <1>1, <1>2, <1>3 DEF WithEnd
<1> HIDE DEF h
<1>5. ASSUME NEW k \in ti+1..Len(tokens)+1 PROVE Before(h, ti, pos, k) = Before(g, ti + 1, end, k)
  <2>1. CASE k = ti + 1
    BY <1>1, <1>4, <2>1 DEF Before
  <2>2. CASE k # ti + 1
    <3>1. k - 1 \in ti+1..Len(tokens) /\ k # ti
      BY <2>2
    <3> QED
      BY <1>4, <2>2, <3>1 DEF Before
  <2> QED
    BY <2>1, <2>2
<1>6. Before(h, ti, pos, Len(tokens) + 1) = Len(s)
  <2>1. Len(tokens) + 1 \in ti+1..Len(tokens)+1
    BY <1>1
  <2> QED
    BY <1>5, <2>1 DEF Paths
<1>7. ASSUME NEW k \in ti..Len(tokens) PROVE h[k] \in TokenEnds(s, tokens, k, Before(h, ti, pos, k))
  <2>1. CASE k = ti
    BY <1>4, <2>1 DEF Before
  <2>2. CASE k # ti
    <3>1. k \in ti+1..Len(tokens) /\ k \in ti+1..Len(tokens)+1
      BY <2>2
    <3> QED
      BY <1>4, <1>5, <3>1 DEF Paths
  <2> QED
    BY <2>1, <2>2
<1> QED
  BY <1>4, <1>6, <1>7 DEF Paths, h

NearerFrom(tokens, ti, e, f) ==
  \/ \A k \in ti..Len(tokens) : e[k] = f[k]
  \/ \E k \in ti..Len(tokens) : e[k] < f[k] /\ \A l \in ti..k-1 : e[l] = f[l]

Best(s, tokens, ti, pos, e) ==
  e \in Paths(s, tokens, ti, pos) /\ \A f \in Paths(s, tokens, ti, pos) : NearerFrom(tokens, ti, e, f)

LEMMA BestOn ==
  ASSUME NEW s \in Text, NEW tokens \in Seq(Token), NEW ti \in 1..Len(tokens), NEW pos \in 0..Len(s),
         NEW end \in TokenEnds(s, tokens, ti, pos), NEW g, Best(s, tokens, ti + 1, end, g),
         \A e \in TokenEnds(s, tokens, ti, pos) : e < end => Paths(s, tokens, ti + 1, e) = {}
  PROVE  Best(s, tokens, ti, pos, WithEnd(g, ti, end))
<1> DEFINE h == WithEnd(g, ti, end)
<1>1. h \in Paths(s, tokens, ti, pos)
  BY PathOn DEF Best
<1>2. ASSUME NEW f \in Paths(s, tokens, ti, pos) PROVE NearerFrom(tokens, ti, h, f)
  <2>1. f[ti] \in TokenEnds(s, tokens, ti, pos) /\ f \in Paths(s, tokens, ti + 1, f[ti])
    BY PathFirst
  <2>2. ~(f[ti] < end)
    BY <2>1
  <2>3. end \in pos..Len(s) /\ f[ti] \in pos..Len(s) /\ Len(s) \in Nat
    BY <2>1, EndsType DEF Text
  <2>4. DOMAIN tokens = 1..Len(tokens) /\ Len(tokens) \in Nat /\ g \in [DOMAIN tokens -> 0..Len(s)]
    BY DEF Best, Paths
  <2>5. h[ti] = end /\ \A k \in ti+1..Len(tokens) : h[k] = g[k]
    BY <2>4 DEF WithEnd
  <2> HIDE DEF h
  <2>6. CASE end < f[ti]
    <3>1. ti \in ti..Len(tokens) /\ ti..ti-1 = {}
      BY <2>4
    <3> QED
      BY <2>5, <2>6, <3>1 DEF NearerFrom
  <2>7. CASE f[ti] = end
    <3>1. NearerFrom(tokens, ti + 1, g, f)
      BY <2>1, <2>7 DEF Best
    <3>2. CASE \A k \in ti+1..Len(tokens) : g[k] = f[k]
      <4>1. \A k \in ti..Len(tokens) : k = ti \/ k \in ti+1..Len(tokens)
        BY <2>4
      <4> QED
        BY <2>5, <2>7, <3>2, <4>1 DEF NearerFrom
    <3>3. CASE \E k \in ti+1..Len(tokens) : g[k] < f[k] /\ \A l \in ti+1..k-1 : g[l] = f[l]
      <4>1. PICK k \in ti+1..Len(tokens) : g[k] < f[k] /\ \A l \in ti+1..k-1 : g[l] = f[l]
        BY <3>3
      <4>2. k \in ti..Len(tokens) /\ \A l \in ti..k-1 : l = ti \/ (l \in ti+1..k-1 /\ l \in ti+1..Len(tokens))
        BY <2>4
      <4> QED
        BY <2>5, <2>7, <4>1, <4>2 DEF NearerFrom
    <3> QED
      BY <3>1, <3>2, <3>3 DEF NearerFrom
  <2> QED
    BY <2>2, <2>3, <2>6, <2>7
<1> QED
  BY <1>1, <1>2 DEF Best

(***************************************************************************)
(* What a path captures.                                                   *)
(***************************************************************************)
CapturedAt(s, tokens, ti, pos, e, k) == Taken(s, tokens[k], Before(e, ti, pos, k), e[k])
CapturedFrom(s, tokens, ti, pos, e) ==
  [j \in 1..Len(tokens)+1-ti |-> CapturedAt(s, tokens, ti, pos, e, ti + j - 1)]
Captured(s, tokens, ti, pos, e) == FlattenSeq(CapturedFrom(s, tokens, ti, pos, e))

LEMMA CapturedType ==
  ASSUME NEW s \in Text, NEW tokens \in Seq(Token), NEW ti \in 1..Len(tokens)+1, NEW pos \in 0..Len(s),
         NEW e \in Paths(s, tokens, ti, pos)
  PROVE  CapturedFrom(s, tokens, ti, pos, e) \in Seq(Seq(Text)) /\ Len(CapturedFrom(s, tokens, ti, pos, e)) = Len(tokens) + 1 - ti
<1>1. Len(tokens) \in Nat /\ DOMAIN tokens = 1..Len(tokens) /\ Len(s) \in Nat /\ e \in [DOMAIN tokens -> 0..Len(s)]
  BY DEF Text, Paths
<1>2. ASSUME NEW k \in ti..Len(tokens) PROVE CapturedAt(s, tokens, ti, pos, e, k) \in Seq(Text)
  <2>1. Before(e, ti, pos, k) \in 0..Len(s)
    <3>1. k # ti => k - 1 \in 1..Len(tokens)
      BY <1>1
    <3> QED
      BY <1>1, <3>1 DEF Before
  <2>2. e[k] \in TokenEnds(s, tokens, k, Before(e, ti, pos, k)) /\ k \in 1..Len(tokens)
    BY DEF Paths
  <2>3. e[k] \in Before(e, ti, pos, k)..Len(s)
    BY <2>1, <2>2, EndsType
  <2> QED
    BY <2>1, <2>3, TakenType DEF CapturedAt
<1>3. Len(tokens) + 1 - ti \in Nat /\ \A j \in 1..Len(tokens)+1-ti : ti + j - 1 \in ti..Len(tokens)
  BY <1>1
<1>4. \A j \in 1..Len(tokens)+1-ti : CapturedAt(s, tokens, ti, pos, e, ti + j - 1) \in Seq(Text)
  BY <1>2, <1>3
<1> DEFINE n == Len(tokens) + 1 - ti
           c(j) == CapturedAt(s, tokens, ti, pos, e, ti + j - 1)
<1>5. n \in Nat /\ \A j \in 1..n : c(j) \in Seq(Text)
  BY <1>3, <1>4
<1>6. CapturedFrom(s, tokens, ti, pos, e) = [j \in 1..n |-> c(j)]
  BY DEF CapturedFrom
<1> HIDE DEF n, c
<1>7. [j \in 1..n |-> c(j)] \in Seq(Seq(Text)) /\ Len([j \in 1..n |-> c(j)]) = n
  BY <1>5
<1> QED
  BY <1>6, <1>7 DEF n

LEMMA CapturedOn ==
  ASSUME NEW s \in Text, NEW tokens \in Seq(Token), NEW ti \in 1..Len(tokens), NEW pos \in 0..Len(s),
         NEW end \in TokenEnds(s, tokens, ti, pos), NEW g \in Paths(s, tokens, ti + 1, end)
  PROVE  Captured(s, tokens, ti, pos, WithEnd(g, ti, end))
           = Taken(s, tokens[ti], pos, end) \o Captured(s, tokens, ti + 1, end, g)
<1> DEFINE h == WithEnd(g, ti, end)
           n == Len(tokens) + 1 - ti
           all == CapturedFrom(s, tokens, ti, pos, h)
           rest == CapturedFrom(s, tokens, ti + 1, end, g)
<1>1. Len(tokens) \in Nat /\ DOMAIN tokens = 1..Len(tokens) /\ g \in [DOMAIN tokens -> 0..Len(s)] /\ Len(s) \in Nat
  BY DEF Text, Paths
<1>2. end \in 0..Len(s) /\ ti + 1 \in 1..Len(tokens)+1
  <2>1. end \in pos..Len(s)
    BY EndsType
  <2> QED
    BY <1>1, <2>1
<1>3. h[ti] = end /\ \A k \in ti+1..Len(tokens) : h[k] = g[k]
  BY <1>1 DEF WithEnd
<1>4. h \in Paths(s, tokens, ti, pos)
  BY PathOn
<1>5. all \in Seq(Seq(Text)) /\ Len(all) = n
  BY <1>4, CapturedType
<1>6. rest \in Seq(Seq(Text)) /\ Len(rest) = n - 1
  BY <1>1, <1>2, CapturedType
<1>7. n \in Nat /\ n >= 1
  BY <1>1
<1>8. all[1] = Taken(s, tokens[ti], pos, end)
  <2>1. 1 \in 1..n /\ ti + 1 - 1 = ti
    BY <1>7
  <2> QED
    BY <1>3, <2>1 DEF CapturedFrom, CapturedAt, Before
<1>9. ASSUME NEW j \in 1..n-1 PROVE all[j+1] = rest[j]
  <2>1. j + 1 \in 1..n /\ ti + (j + 1) - 1 = ti + 1 + j - 1 /\ j \in 1..Len(tokens)+1-(ti+1) /\ ti + j \in ti+1..Len(tokens)
    BY <1>1
  <2>2. ti + (j + 1) - 1 = ti + j /\ ti + 1 + j - 1 = ti + j /\ ti + j # ti
    BY <1>1
  <2>3. all[j+1] = CapturedAt(s, tokens, ti, pos, h, ti + j)
    BY <2>1, <2>2 DEF CapturedFrom
  <2>4. rest[j] = CapturedAt(s, tokens, ti + 1, end, g, ti + j)
    BY <2>1, <2>2 DEF CapturedFrom
  <2>5. h[ti + j] = g[ti + j]
    BY <1>3, <2>1
  <2> HIDE DEF h, all, rest, n
  <2>6. Before(h, ti, pos, ti + j) = Before(g, ti + 1, end, ti + j)
    <3>1. CASE j = 1
      <4>1. ti + j = ti + 1 /\ ti + j - 1 = ti
        BY <3>1
      <4> QED
        BY <1>3, <2>2, <4>1 DEF Before
    <3>2. CASE j # 1
      <4>1. ti + j # ti + 1 /\ ti + j - 1 \in ti+1..Len(tokens)
        BY <1>1, <3>2 DEF n
      <4> QED
        BY <1>3, <2>2, <4>1 DEF Before
    <3> QED
      BY <3>1, <3>2
  <2> QED
    BY <2>3, <2>4, <2>5, <2>6 DEF CapturedAt
<1> HIDE DEF all, rest, n, h
<1>10. Head(all) = all[1] /\ all # <<>> /\ Tail(all) \in Seq(Seq(Text)) /\ Len(Tail(all)) = n - 1
       /\ \A j \in 1..n-1 : Tail(all)[j] = all[j+1]
  BY <1>5, <1>7
<1>11. Tail(all) = rest
  BY <1>6, <1>9, <1>10, SeqEqual
<1> QED
  BY <1>5, <1>8, <1>10, <1>11, FlattenHead DEF Captured, all, rest, h

LEMMA AtTheEnd ==
  ASSUME NEW s \in Text, NEW tokens \in Seq(Token), NEW pos \in 0..Len(s)
  PROVE  LET ti == Len(tokens) + 1
         IN  /\ (Paths(s, tokens, ti, pos) # {}) <=> pos = Len(s)
             /\ \A e : Captured(s, tokens, ti, pos, e) = <<>>
             /\ \A e \in Paths(s, tokens, ti, pos) : Best(s, tokens, ti, pos, e)
<1> DEFINE ti == Len(tokens) + 1
<1>1. Len(tokens) \in Nat /\ ti..Len(tokens) = {} /\ Len(s) \in Nat /\ 1..Len(tokens)+1-ti = {}
  BY DEF Text
<1>2. Paths(s, tokens, ti, pos) = {e \in [DOMAIN tokens -> 0..Len(s)] : pos = Len(s)}
  BY <1>1 DEF Paths, Before
<1>3. [k \in DOMAIN tokens |-> 0] \in [DOMAIN tokens -> 0..Len(s)]
  BY <1>1
<1>4. \A e : Captured(s, tokens, ti, pos, e) = <<>>
  <2> TAKE e
  <2>1. CapturedFrom(s, tokens, ti, pos, e) = <<>>
    BY <1>1 DEF CapturedFrom
  <2> QED
    BY <2>1, FlattenEmpty DEF Captured
<1>5. \A e \in Paths(s, tokens, ti, pos) : Best(s, tokens, ti, pos, e)
  BY <1>1 DEF Best, NearerFrom
<1> HIDE DEF ti
<1>6. (Paths(s, tokens, ti, pos) # {}) <=> pos = Len(s)
  BY <1>2, <1>3
<1> QED
  BY <1>4, <1>5, <1>6 DEF ti

(***************************************************************************)
(* What is remembered of failed attempts is true of every attempt, and so  *)
(* a search, from wherever it starts, finds a path if there is one, and    *)
(* the nearest.                                                            *)
(***************************************************************************)
Sound(s, tokens, failed) == \A ti, pos \in Nat : Known(failed, ti, pos) => Paths(s, tokens, ti, pos) = {}

Begun(s, tokens, a) ==
  /\ a.from \in a.pos..Len(s)+1
  /\ Sound(s, tokens, a.failed)
  /\ a.ti <= Len(tokens) =>
       \A e \in TokenEnds(s, tokens, a.ti, a.pos) : e < a.from => Paths(s, tokens, a.ti + 1, e) = {}

Right(s, tokens, a, r) ==
  /\ Sound(s, tokens, r.failed)
  /\ r.ok <=> Paths(s, tokens, a.ti, a.pos) # {}
  /\ r.ok => \E e : Best(s, tokens, a.ti, a.pos, e) /\ r.caps = Captured(s, tokens, a.ti, a.pos, e)

LEMMA MatchIsRight ==
  ASSUME NEW s \in Text, NEW tokens \in Seq(Token), NEW a \in Attempts(s, tokens), Begun(s, tokens, a),
         \A b \in Attempts(s, tokens) :
           (Todo(s, tokens, b) < Todo(s, tokens, a) /\ Begun(s, tokens, b)) => Right(s, tokens, b, Matcher(s, tokens)[b])
  PROVE  Right(s, tokens, a, Matcher(s, tokens)[a])
<1> DEFINE M == Matcher(s, tokens)
           end == Least(Left(s, tokens, a))
           deep == Deeper(s, tokens, a)
           r == M[deep]
<1> SUFFICES Right(s, tokens, a, M[a])
  OBVIOUS
<1>1. M[a] = Match(s, tokens, a, M)
  BY MatcherRuns
<1>8. \A b \in Attempts(s, tokens) : M[b] \in Answers
  BY MatcherRuns
<1>9. \A b \in Attempts(s, tokens) :
        (Todo(s, tokens, b) < Todo(s, tokens, a) /\ Begun(s, tokens, b)) => Right(s, tokens, b, M[b])
  OBVIOUS
<1> HIDE DEF M
<1>10. ~(a.ti > Len(tokens)) =>
        /\ Known(a.failed, a.ti, a.pos) => M[a] = Outcome(FALSE, <<>>, a.failed)
        /\ (~Known(a.failed, a.ti, a.pos) /\ Left(s, tokens, a) = {}) => M[a] = Outcome(FALSE, <<>>, a.failed \union {<<a.ti, a.pos>>})
        /\ (~Known(a.failed, a.ti, a.pos) /\ Left(s, tokens, a) # {} /\ r.ok) =>
             M[a] = Outcome(TRUE, Taken(s, tokens[a.ti], a.pos, end) \o r.caps, r.failed)
        /\ (~Known(a.failed, a.ti, a.pos) /\ Left(s, tokens, a) # {} /\ ~r.ok) => M[a] = M[Again(s, tokens, a, r)]
  <2> DEFINE x == Match(s, tokens, a, M)
  <2>1. ~(a.ti > Len(tokens)) =>
        /\ Known(a.failed, a.ti, a.pos) => x = Outcome(FALSE, <<>>, a.failed)
        /\ (~Known(a.failed, a.ti, a.pos) /\ Left(s, tokens, a) = {}) => x = Outcome(FALSE, <<>>, a.failed \union {<<a.ti, a.pos>>})
        /\ (~Known(a.failed, a.ti, a.pos) /\ Left(s, tokens, a) # {} /\ r.ok) =>
             x = Outcome(TRUE, Taken(s, tokens[a.ti], a.pos, end) \o r.caps, r.failed)
        /\ (~Known(a.failed, a.ti, a.pos) /\ Left(s, tokens, a) # {} /\ ~r.ok) => x = M[Again(s, tokens, a, r)]
    BY DEF Match, Left, Deeper, Again
  <2>2. M[a] = x
    BY <1>1
  <2> HIDE DEF x
  <2> QED
    BY <2>1, <2>2
<1>2. a.ti \in 1..Len(tokens)+1 /\ a.pos \in 0..Len(s) /\ a.from \in 0..Len(s)+1 /\ a.failed \in SUBSET (Nat \X Nat)
      /\ Len(tokens) \in Nat /\ Len(s) \in Nat /\ a.ti \in Nat /\ a.pos \in Nat
  BY DEF Attempts, Text
<1>7. a.ti <= Len(tokens) => ~(a.ti > Len(tokens))
  BY <1>2
<1>3. CASE a.ti > Len(tokens)
  <2>1. a.ti = Len(tokens) + 1
    BY <1>2, <1>3
  <2>2. M[a] = Outcome(a.pos = Len(s), <<>>, a.failed)
    BY <1>1, <1>3, MatchParts
  <2>3. /\ (Paths(s, tokens, a.ti, a.pos) # {}) <=> a.pos = Len(s)
        /\ \A e : Captured(s, tokens, a.ti, a.pos, e) = <<>>
        /\ \A e \in Paths(s, tokens, a.ti, a.pos) : Best(s, tokens, a.ti, a.pos, e)
    BY <1>2, <2>1, AtTheEnd
  <2>4. M[a].ok = (a.pos = Len(s)) /\ M[a].caps = <<>> /\ M[a].failed = a.failed
    BY <2>2 DEF Outcome
  <2>5. M[a].ok <=> Paths(s, tokens, a.ti, a.pos) # {}
    BY <2>3, <2>4
  <2>6. M[a].ok => \E e : Best(s, tokens, a.ti, a.pos, e) /\ M[a].caps = Captured(s, tokens, a.ti, a.pos, e)
    BY <2>3, <2>4, <2>5
  <2>7. Sound(s, tokens, M[a].failed)
    BY <2>4 DEF Begun
  <2> QED
    BY <2>5, <2>6, <2>7 DEF Right
<1>4. CASE a.ti <= Len(tokens) /\ Known(a.failed, a.ti, a.pos)
  <2>1. M[a] = Outcome(FALSE, <<>>, a.failed)
    BY <1>10, <1>7, <1>4
  <2>2. Paths(s, tokens, a.ti, a.pos) = {}
    BY <1>2, <1>4 DEF Begun, Sound
  <2>3. M[a].ok = FALSE /\ M[a].failed = a.failed
    BY <2>1 DEF Outcome
  <2> QED
    BY <2>2, <2>3 DEF Right, Begun
<1>5. CASE a.ti <= Len(tokens) /\ ~Known(a.failed, a.ti, a.pos) /\ Left(s, tokens, a) = {}
  <2>1. M[a] = Outcome(FALSE, <<>>, a.failed \union {<<a.ti, a.pos>>})
    BY <1>10, <1>7, <1>5
  <2>2. M[a].ok = FALSE /\ M[a].failed = a.failed \union {<<a.ti, a.pos>>}
    BY <2>1 DEF Outcome
  <2>3. ASSUME NEW e \in Paths(s, tokens, a.ti, a.pos) PROVE FALSE
    <3>1. e[a.ti] \in TokenEnds(s, tokens, a.ti, a.pos) /\ e \in Paths(s, tokens, a.ti + 1, e[a.ti])
      BY <1>2, <1>5, PathFirst
    <3>2. e[a.ti] \in a.pos..Len(s)
      BY <1>2, <1>5, <3>1, EndsType
    <3>3. ~(a.from <= e[a.ti])
      BY <1>5, <3>1 DEF Left
    <3>4. e[a.ti] < a.from
      BY <1>2, <3>2, <3>3
    <3> QED
      BY <1>5, <3>1, <3>4 DEF Begun
  <2>4. Sound(s, tokens, M[a].failed)
    <3>1. ASSUME NEW t \in Nat, NEW p \in Nat, Known(M[a].failed, t, p) PROVE Paths(s, tokens, t, p) = {}
      <4>1. <<t, p>> \in a.failed \/ (t = a.ti /\ p = a.pos)
        BY <2>2, <3>1 DEF Known
      <4> QED
        BY <2>3, <4>1 DEF Begun, Sound, Known
    <3> QED
      BY <3>1 DEF Sound
  <2> QED
    BY <2>2, <2>3, <2>4 DEF Right
<1>6. CASE a.ti <= Len(tokens) /\ ~Known(a.failed, a.ti, a.pos) /\ Left(s, tokens, a) # {}
  <2>1. /\ end \in TokenEnds(s, tokens, a.ti, a.pos) /\ a.from <= end
        /\ end \in a.pos..Len(s) /\ end \in 0..Len(s)
        /\ \A e \in TokenEnds(s, tokens, a.ti, a.pos) : a.from <= e => end <= e
    BY <1>6, LeftLeast
  <2>2. a.ti \in 1..Len(tokens) /\ a.ti + 1 \in 1..Len(tokens)+1
    BY <1>2, <1>6
  <2>3. deep = Attempt(a.ti + 1, end, end, a.failed)
    BY DEF Deeper
  <2>4. deep \in Attempts(s, tokens) /\ Todo(s, tokens, deep) < Todo(s, tokens, a)
    BY <1>6, SmallerSearches
  <2> HIDE DEF deep, end
  <2>5. deep.ti = a.ti + 1 /\ deep.pos = end /\ deep.from = end /\ deep.failed = a.failed
    BY <2>3 DEF Attempt
  <2>6. Begun(s, tokens, deep)
    <3>1. ASSUME a.ti + 1 <= Len(tokens), NEW e \in TokenEnds(s, tokens, a.ti + 1, end) PROVE ~(e < end)
      <4>1. a.ti + 1 \in 1..Len(tokens)
        BY <2>2, <3>1, <1>2
      <4>2. e \in end..Len(s)
        BY <2>1, <4>1, EndsType
      <4> QED
        BY <1>2, <2>1, <4>2
    <3>2. end \in end..Len(s)+1
      BY <1>2, <2>1
    <3> QED
      BY <2>5, <3>1, <3>2 DEF Begun
  <2>7. Right(s, tokens, deep, r) /\ r \in Answers
    BY <1>8, <1>9, <2>4, <2>6
  <2>8. \A e \in TokenEnds(s, tokens, a.ti, a.pos) : e < end => Paths(s, tokens, a.ti + 1, e) = {}
    <3>1. ASSUME NEW e \in TokenEnds(s, tokens, a.ti, a.pos), e < end PROVE Paths(s, tokens, a.ti + 1, e) = {}
      <4>1. e \in a.pos..Len(s)
        BY <1>2, <2>2, EndsType
      <4>2. ~(a.from <= e)
        BY <1>2, <2>1, <3>1, <4>1
      <4>3. e < a.from
        BY <1>2, <4>1, <4>2
      <4> QED
        BY <1>6, <4>3 DEF Begun
    <3> QED
      BY <3>1
  <2>9. CASE r.ok
    <3>1. M[a] = Outcome(TRUE, Taken(s, tokens[a.ti], a.pos, end) \o r.caps, r.failed)
      BY <1>10, <1>7, <1>6, <2>9
    <3>2. PICK g : Best(s, tokens, a.ti + 1, end, g) /\ r.caps = Captured(s, tokens, a.ti + 1, end, g)
      BY <2>5, <2>7, <2>9 DEF Right
    <3> DEFINE h == WithEnd(g, a.ti, end)
    <3>3. Best(s, tokens, a.ti, a.pos, h)
      BY <1>2, <2>1, <2>2, <2>8, <3>2, BestOn
    <3>4. Captured(s, tokens, a.ti, a.pos, h) = Taken(s, tokens[a.ti], a.pos, end) \o r.caps
      <4>1. a.ti \in 1..Len(tokens) /\ a.pos \in 0..Len(s) /\ g \in Paths(s, tokens, a.ti + 1, end)
        BY <1>2, <2>2, <3>2 DEF Best
      <4>2. Captured(s, tokens, a.ti, a.pos, h) = Taken(s, tokens[a.ti], a.pos, end) \o Captured(s, tokens, a.ti + 1, end, g)
        BY <2>1, <4>1, CapturedOn
      <4> QED
        BY <3>2, <4>2
    <3>5. M[a].ok = TRUE /\ M[a].caps = Taken(s, tokens[a.ti], a.pos, end) \o r.caps /\ M[a].failed = r.failed
      <4> DEFINE c == Taken(s, tokens[a.ti], a.pos, end) \o r.caps
      <4>1. M[a] = Outcome(TRUE, c, r.failed)
        BY <3>1
      <4> HIDE DEF c, r
      <4>2. M[a].ok = TRUE /\ M[a].caps = c /\ M[a].failed = r.failed
        BY <4>1 DEF Outcome
      <4> QED
        BY <4>2 DEF c
    <3>6. Sound(s, tokens, r.failed)
      BY <2>7 DEF Right
    <3> HIDE DEF h, r
    <3>7. Paths(s, tokens, a.ti, a.pos) # {}
      BY <3>3 DEF Best
    <3> QED
      BY <3>3, <3>4, <3>5, <3>6, <3>7 DEF Right
  <2>10. CASE ~r.ok
    <3> DEFINE again == Again(s, tokens, a, r)
    <3>1. M[a] = M[again]
      BY <1>10, <1>7, <1>6, <2>10
    <3>2. again \in Attempts(s, tokens) /\ Todo(s, tokens, again) < Todo(s, tokens, a)
      BY <1>6, <2>7, SmallerSearches
    <3>3. again.ti = a.ti /\ again.pos = a.pos /\ again.from = end + 1 /\ again.failed = r.failed
      BY DEF Again, Attempt, end
    <3> HIDE DEF again
    <3>4. Begun(s, tokens, again)
      <4>1. Sound(s, tokens, r.failed)
        BY <2>7 DEF Right
      <4>2. end + 1 \in a.pos..Len(s)+1
        BY <1>2, <2>1
      <4>3. ASSUME NEW e \in TokenEnds(s, tokens, a.ti, a.pos), e < end + 1 PROVE Paths(s, tokens, a.ti + 1, e) = {}
        <5>1. e \in a.pos..Len(s)
          BY <1>2, <2>2, EndsType
        <5>2. e = end \/ e < end
          BY <1>2, <2>1, <4>3, <5>1
        <5>3. Paths(s, tokens, a.ti + 1, end) = {}
          BY <2>5, <2>7, <2>10 DEF Right
        <5> QED
          BY <2>8, <5>2, <5>3
      <4> HIDE DEF r
      <4> QED
        BY <3>3, <4>1, <4>2, <4>3 DEF Begun
    <3>5. Right(s, tokens, again, M[again])
      BY <1>9, <3>2, <3>4
    <3> QED
      BY <3>1, <3>3, <3>5 DEF Right
  <2> QED
    BY <2>9, <2>10
<1> QED
  BY <1>2, <1>3, <1>4, <1>5, <1>6

LEMMA MatcherFinds ==
  ASSUME NEW s \in Text, NEW tokens \in Seq(Token)
  PROVE  LET got == MatchTokens(s, tokens)
         IN  /\ got \in Answers
             /\ got.ok <=> Paths(s, tokens, 1, 0) # {}
             /\ got.ok => \E e : Best(s, tokens, 1, 0, e) /\ got.caps = Captured(s, tokens, 1, 0, e)
<1> DEFINE S == Attempts(s, tokens)
           M == Matcher(s, tokens)
           mu == TodoOf(s, tokens)
           W == {n \in Nat : \A a \in S : (mu[a] = n /\ Begun(s, tokens, a)) => Right(s, tokens, a, M[a])}
<1>1. \A a \in S : mu[a] \in Nat /\ mu[a] = Todo(s, tokens, a)
  <2>1. mu \in Codings(S, Nat)
    BY TodoType
  <2> QED
    BY <2>1 DEF TodoOf, Codings
<1>2. ASSUME NEW n \in Nat, \A k \in 0..n-1 : k \in W PROVE n \in W
  <2>1. SUFFICES ASSUME NEW a \in S, mu[a] = n, Begun(s, tokens, a) PROVE Right(s, tokens, a, M[a])
    OBVIOUS
  <2>2. ASSUME NEW b \in S, Todo(s, tokens, b) < Todo(s, tokens, a), Begun(s, tokens, b) PROVE Right(s, tokens, b, M[b])
    <3>1. mu[b] \in 0..n-1
      BY <1>1, <2>1, <2>2
    <3>2. mu[b] \in W
      BY <1>2, <3>1
    <3> QED
      BY <2>2, <3>2
  <2> QED
    BY <2>1, <2>2, MatchIsRight
<1>3. Nat \subseteq W
  <2> HIDE DEF W
  <2> QED
    BY <1>2, StrongInduction
<1> DEFINE a == Attempt(1, 0, 0, {})
<1>4. a \in S
  BY DEF Attempt, Attempts, Text
<1>5. a.ti = 1 /\ a.pos = 0 /\ a.from = 0 /\ a.failed = {}
  BY DEF Attempt
<1>6. Begun(s, tokens, a)
  <2>1. ASSUME 1 <= Len(tokens), NEW e \in TokenEnds(s, tokens, 1, 0) PROVE ~(e < 0)
    <3>1. 1 \in 1..Len(tokens) /\ 0 \in 0..Len(s) /\ Len(s) \in Nat
      BY <2>1 DEF Text
    <3>2. e \in 0..Len(s)
      BY <3>1, EndsType
    <3> QED
      BY <3>2
  <2>2. 0 \in 0..Len(s)+1
    BY DEF Text
  <2> HIDE DEF a
  <2> QED
    BY <1>5, <2>1, <2>2 DEF Begun, Sound, Known
<1> HIDE DEF a
<1>7. Right(s, tokens, a, M[a])
  BY <1>1, <1>3, <1>4, <1>6
<1>8. MatchTokens(s, tokens) = M[a] /\ M[a] \in Answers
  BY <1>4, MatcherRuns DEF a
<1> HIDE DEF M
<1> QED
  BY <1>5, <1>7, <1>8 DEF Right

(***************************************************************************)
(* A path is a fit, and where two captures are not side by side a fit is a *)
(* path.                                                                   *)
(***************************************************************************)
LEMMA PrefixEnds ==
  ASSUME NEW s \in Text, NEW t \in Text, NEW pos \in 0..Len(s), NEW end \in pos..Len(s), Sub(s, pos, end) = t
  PROVE  end = pos + Len(t) /\ HasPrefixAt(s, pos, t)
<1>1. Len(s) \in Nat /\ pos \in Nat /\ end \in Nat /\ pos <= end
  BY DEF Text
<1>2. Len(SubSeq(s, pos + 1, end)) = end - pos
  BY <1>1, SMT DEF Text
<1>3. Len(t) = end - pos
  BY <1>2 DEF Sub
<1>4. end = pos + Len(t)
  BY <1>1, <1>3
<1> QED
  BY <1>1, <1>4 DEF HasPrefixAt

LEMMA PathIsFit ==
  ASSUME NEW s \in Text, NEW tokens \in Seq(Token), tokens # <<>>, NEW e \in Paths(s, tokens, 1, 0)
  PROVE  e \in Fits(s, tokens)
<1>1. Len(tokens) \in Nat /\ Len(tokens) # 0 /\ DOMAIN tokens = 1..Len(tokens) /\ Len(s) \in Nat
      /\ e \in [DOMAIN tokens -> 0..Len(s)] /\ Len(tokens) + 1 # 1 /\ Len(tokens) + 1 - 1 = Len(tokens)
  BY DEF Text, Paths
<1>2. e[Len(tokens)] = Len(s)
  BY <1>1 DEF Paths, Before
<1>3. ASSUME NEW k \in DOMAIN tokens
      PROVE  Start(e, k) <= e[k] /\ (IsLit(tokens[k]) => Sub(s, Start(e, k), e[k]) = tokens[k].lit)
  <2>1. Before(e, 1, 0, k) = Start(e, k)
    BY DEF Before, Start
  <2>2. Start(e, k) \in 0..Len(s)
    <3>1. k # 1 => k - 1 \in 1..Len(tokens)
      BY <1>1
    <3> QED
      BY <1>1, <3>1 DEF Start
  <2>3. e[k] \in TokenEnds(s, tokens, k, Start(e, k)) /\ k \in 1..Len(tokens)
    BY <1>1, <2>1 DEF Paths
  <2>4. e[k] \in Start(e, k)..Len(s)
    BY <2>2, <2>3, EndsType
  <2>5. Start(e, k) <= e[k]
    BY <1>1, <2>2, <2>4
  <2>6. ASSUME IsLit(tokens[k]) PROVE Sub(s, Start(e, k), e[k]) = tokens[k].lit
    BY <2>3, <2>6 DEF TokenEnds, HasPrefixAt
  <2> QED
    BY <2>5, <2>6
<1> QED
  BY <1>1, <1>2, <1>3 DEF Fits

LEMMA FitParts ==
  ASSUME NEW s \in Text, NEW tokens \in Seq(Token), NEW e \in Fits(s, tokens), NEW k \in 1..Len(tokens)
  PROVE  /\ Start(e, k) \in 0..Len(s) /\ e[k] \in Start(e, k)..Len(s)
         /\ IsLit(tokens[k]) => /\ Sub(s, Start(e, k), e[k]) = tokens[k].lit
                                /\ e[k] = Start(e, k) + Len(tokens[k].lit)
                                /\ HasPrefixAt(s, Start(e, k), tokens[k].lit)
<1>1. Len(tokens) \in Nat /\ DOMAIN tokens = 1..Len(tokens) /\ Len(s) \in Nat /\ e \in [DOMAIN tokens -> 0..Len(s)]
  BY DEF Text, Fits
<1>2. Start(e, k) \in 0..Len(s)
  <2>1. k # 1 => k - 1 \in 1..Len(tokens)
    BY <1>1
  <2> QED
    BY <1>1, <2>1 DEF Start
<1>3. Start(e, k) <= e[k] /\ (IsLit(tokens[k]) => Sub(s, Start(e, k), e[k]) = tokens[k].lit)
  BY <1>1 DEF Fits
<1>4. e[k] \in Start(e, k)..Len(s)
  BY <1>1, <1>2, <1>3
<1>5. tokens[k].lit \in Text
  <2>1. tokens[k] \in Token
    BY <1>1
  <2> QED
    BY <2>1 DEF Token
<1> QED
  BY <1>2, <1>3, <1>4, <1>5, PrefixEnds

LEMMA NextIsNear ==
  ASSUME NEW tokens \in Seq(Token), NEW k \in 1..Len(tokens)
  PROVE  /\ k = Len(tokens) => NextLit(tokens, k) = <<>>
         /\ (k # Len(tokens) /\ IsLit(tokens[k+1])) => NextLit(tokens, k) = tokens[k+1].lit
<1> DEFINE later == {l \in k+1..Len(tokens) : IsLit(tokens[l])}
<1>1. Len(tokens) \in Nat
  OBVIOUS
<1>2. k = Len(tokens) => later = {}
  BY <1>1
<1>3. ASSUME k # Len(tokens), IsLit(tokens[k+1]) PROVE later # {} /\ Least(later) = k + 1
  <2>1. k + 1 \in later
    BY <1>1, <1>3
  <2>2. later \subseteq Nat /\ later # {} /\ \A l \in later : k + 1 <= l
    BY <1>1, <2>1
  <2> HIDE DEF later
  <2>3. Least(later) \in later /\ Least(later) <= k + 1
    BY <2>1, <2>2, LeastOf
  <2>4. k + 1 <= Least(later) /\ Least(later) \in Nat
    BY <2>2, <2>3
  <2> QED
    BY <2>2, <2>3, <2>4
<1> HIDE DEF later
<1> QED
  BY <1>2, <1>3 DEF NextLit, later

LEMMA FitIsPath ==
  ASSUME NEW s \in Text, NEW tokens \in Seq(Token), tokens # <<>>, ~Adjacent(tokens), NEW e \in Fits(s, tokens)
  PROVE  e \in Paths(s, tokens, 1, 0)
<1>1. Len(tokens) \in Nat /\ Len(tokens) # 0 /\ DOMAIN tokens = 1..Len(tokens) /\ Len(s) \in Nat
      /\ e \in [DOMAIN tokens -> 0..Len(s)] /\ Len(tokens) + 1 # 1 /\ Len(tokens) + 1 - 1 = Len(tokens)
      /\ e[Len(tokens)] = Len(s)
  BY DEF Text, Fits
<1>2. Before(e, 1, 0, Len(tokens) + 1) = Len(s)
  BY <1>1 DEF Before
<1>3. ASSUME NEW k \in 1..Len(tokens) PROVE e[k] \in TokenEnds(s, tokens, k, Before(e, 1, 0, k))
  <2>1. Before(e, 1, 0, k) = Start(e, k)
    BY DEF Before, Start
  <2>2. /\ Start(e, k) \in 0..Len(s) /\ e[k] \in Start(e, k)..Len(s)
        /\ IsLit(tokens[k]) => /\ e[k] = Start(e, k) + Len(tokens[k].lit)
                               /\ HasPrefixAt(s, Start(e, k), tokens[k].lit)
    BY FitParts
  <2>3. CASE IsLit(tokens[k])
    BY <2>1, <2>2, <2>3 DEF TokenEnds
  <2>4. CASE ~IsLit(tokens[k]) /\ k = Len(tokens)
    <3>1. NextLit(tokens, k) = <<>>
      BY <2>4, NextIsNear
    <3> QED
      BY <1>1, <2>1, <2>4, <3>1 DEF TokenEnds, CaptureEnds
  <2>5. CASE ~IsLit(tokens[k]) /\ k # Len(tokens)
    <3>1. k \in 1..Len(tokens)-1 /\ k + 1 \in 1..Len(tokens) /\ k + 1 # 1 /\ k + 1 - 1 = k
      <4>1. k # Len(tokens) /\ Len(tokens) \in Nat /\ k \in 1..Len(tokens)
        BY <1>1, <2>5
      <4> QED
        BY <4>1
    <3>2. IsLit(tokens[k+1])
      BY <2>5, <3>1 DEF Adjacent
    <3>3. NextLit(tokens, k) = tokens[k+1].lit
      BY <2>5, <3>2, NextIsNear
    <3>4. Start(e, k + 1) = e[k]
      BY <3>1 DEF Start
    <3>5. HasPrefixAt(s, e[k], tokens[k+1].lit)
      BY <3>1, <3>2, <3>4, FitParts
    <3> QED
      BY <2>1, <2>2, <2>5, <3>2, <3>3, <3>5 DEF TokenEnds, CaptureEnds, Occurrences, IsLit
  <2> QED
    BY <2>3, <2>4, <2>5
<1> QED
  BY <1>1, <1>2, <1>3 DEF Paths

LEMMA OneNearest ==
  ASSUME NEW N \in Nat, NEW L \in Nat, NEW e \in [1..L -> 0..N], NEW f \in [1..L -> 0..N], Nearer(e, f), Nearer(f, e)
  PROVE  e = f
<1> SUFFICES ASSUME e # f PROVE FALSE
  OBVIOUS
<1>1. PICK k \in 1..L : e[k] < f[k] /\ \A l \in 1..k-1 : e[l] = f[l]
  BY DEF Nearer
<1>2. PICK j \in 1..L : f[j] < e[j] /\ \A l \in 1..j-1 : f[l] = e[l]
  BY DEF Nearer
<1>3. e[k] \in Nat /\ f[k] \in Nat /\ e[j] \in Nat /\ f[j] \in Nat
  OBVIOUS
<1>4. k < j \/ j < k \/ k = j
  OBVIOUS
<1>5. k < j => k \in 1..j-1
  OBVIOUS
<1>6. j < k => j \in 1..k-1
  OBVIOUS
<1>7. CASE k < j
  BY <1>1, <1>2, <1>3, <1>5, <1>7
<1>8. CASE j < k
  BY <1>1, <1>2, <1>3, <1>6, <1>8
<1>9. CASE k = j
  BY <1>1, <1>2, <1>3, <1>9
<1> QED
  BY <1>4, <1>7, <1>8, <1>9

LEMMA CapturedIsCapturesOf ==
  ASSUME NEW s, NEW tokens \in Seq(Token), NEW e
  PROVE  Captured(s, tokens, 1, 0, e) = CapturesOf(s, tokens, e)
<1>1. Len(tokens) \in Nat /\ DOMAIN tokens = 1..Len(tokens) /\ Len(tokens) + 1 - 1 = Len(tokens)
  OBVIOUS
<1>2. \A k \in 1..Len(tokens) : 1 + k - 1 = k /\ Before(e, 1, 0, k) = Start(e, k)
  BY DEF Before, Start
<1>3. CapturedFrom(s, tokens, 1, 0, e) = [k \in DOMAIN tokens |-> Taken(s, tokens[k], Start(e, k), e[k])]
  BY <1>1, <1>2 DEF CapturedFrom, CapturedAt
<1> QED
  BY <1>3 DEF Captured, CapturesOf

(***************************************************************************)
(* Where there is a fit there is a path: of captures side by side the      *)
(* first one takes what all of them take, the others nothing.              *)
(***************************************************************************)
Fitting(s, tokens, ti, pos) ==
  {e \in [DOMAIN tokens -> 0..Len(s)] :
     /\ Before(e, ti, pos, Len(tokens) + 1) = Len(s)
     /\ \A k \in ti..Len(tokens) :
          /\ Before(e, ti, pos, k) <= e[k]
          /\ IsLit(tokens[k]) => Sub(s, Before(e, ti, pos, k), e[k]) = tokens[k].lit}

LEMMA FittingClimbs ==
  ASSUME NEW s \in Text, NEW tokens \in Seq(Token), NEW ti \in 1..Len(tokens), NEW pos \in 0..Len(s),
         NEW e \in Fitting(s, tokens, ti, pos), NEW k \in ti..Len(tokens)
  PROVE  pos <= e[k]
<1>1. Len(tokens) \in Nat /\ DOMAIN tokens = 1..Len(tokens) /\ Len(s) \in Nat /\ e \in [DOMAIN tokens -> 0..Len(s)]
  BY DEF Text, Fitting
<1> DEFINE S == {n \in Nat : ti + n <= Len(tokens) => pos <= e[ti + n]}
<1>2. 0 \in S
  <2>1. ti + 0 = ti /\ ti \in ti..Len(tokens)
    BY <1>1
  <2> QED
    BY <2>1 DEF Fitting, Before
<1>3. ASSUME NEW n \in Nat, n \in S PROVE n + 1 \in S
  <2>1. SUFFICES ASSUME ti + (n + 1) <= Len(tokens) PROVE pos <= e[ti + (n + 1)]
    OBVIOUS
  <2>2. ti + n <= Len(tokens) /\ ti + (n + 1) \in ti..Len(tokens) /\ ti + (n + 1) # ti /\ ti + (n + 1) - 1 = ti + n
        /\ ti + n \in 1..Len(tokens) /\ ti + (n + 1) \in 1..Len(tokens)
    BY <1>1, <2>1
  <2>3. e[ti + n] <= e[ti + (n + 1)]
    BY <2>2 DEF Fitting, Before
  <2>4. e[ti + n] \in Nat /\ e[ti + (n + 1)] \in Nat /\ pos \in Nat
    BY <1>1, <2>2
  <2> QED
    BY <1>3, <2>2, <2>3, <2>4
<1>4. Nat \subseteq S
  <2> HIDE DEF S
  <2> QED
    BY <1>2, <1>3, Induction
<1>5. k - ti \in Nat /\ ti + (k - ti) = k /\ k <= Len(tokens)
  BY <1>1
<1> QED
  BY <1>4, <1>5

LEMMA FitFirst ==
  ASSUME NEW s \in Text, NEW tokens \in Seq(Token), NEW ti \in 1..Len(tokens), NEW pos \in 0..Len(s),
         Fitting(s, tokens, ti, pos) # {}
  PROVE  \E end \in TokenEnds(s, tokens, ti, pos) : Fitting(s, tokens, ti + 1, end) # {}
<1> DEFINE L == Len(tokens)
           N == Len(s)
<1>0. L \in Nat /\ N \in Nat /\ DOMAIN tokens = 1..L
  BY DEF Text
<1>1. PICK e : e \in Fitting(s, tokens, ti, pos)
  OBVIOUS
<1>2. e \in [1..L -> 0..N] /\ Before(e, ti, pos, L + 1) = N
      /\ \A k \in ti..L : Before(e, ti, pos, k) <= e[k] /\ (IsLit(tokens[k]) => Sub(s, Before(e, ti, pos, k), e[k]) = tokens[k].lit)
  BY <1>0, <1>1 DEF Fitting
<1> HIDE DEF L, N
<1>3. ASSUME NEW x \in 0..N, NEW h \in [1..L -> 0..N], NEW j \in ti+1..L+1,
             \A k \in ti+1..j-1 : h[k] = x /\ ~IsLit(tokens[k]),
             \A k \in j..L : h[k] = e[k],
             j # L + 1 => x = Before(e, ti, pos, j),
             j = L + 1 => x = N
      PROVE  h \in Fitting(s, tokens, ti + 1, x)
  <2>1. ASSUME NEW k \in ti+1..j PROVE Before(h, ti + 1, x, k) = x
    <3>1. k # ti + 1 => k - 1 \in ti+1..j-1
      BY <1>0, <2>1
    <3> QED
      BY <1>3, <3>1 DEF Before
  <2>2. ASSUME NEW k \in j+1..L+1 PROVE Before(h, ti + 1, x, k) = Before(e, ti, pos, k)
    <3>1. k - 1 \in j..L /\ k # ti /\ k # ti + 1
      BY <1>0, <2>2
    <3> QED
      BY <1>3, <3>1 DEF Before
  <2>3. Before(h, ti + 1, x, L + 1) = N
    <3>1. CASE j = L + 1
      <4>1. L + 1 \in ti+1..j
        BY <1>0, <3>1
      <4> QED
        BY <1>3, <2>1, <3>1, <4>1
    <3>2. CASE j # L + 1
      <4>1. L + 1 \in j+1..L+1
        BY <1>0, <3>2
      <4> QED
        BY <1>2, <2>2, <4>1
    <3> QED
      BY <3>1, <3>2
  <2>4. ASSUME NEW k \in ti+1..L
        PROVE  Before(h, ti + 1, x, k) <= h[k] /\ (IsLit(tokens[k]) => Sub(s, Before(h, ti + 1, x, k), h[k]) = tokens[k].lit)
    <3>1. CASE k < j
      <4>1. k \in ti+1..j-1 /\ k \in ti+1..j
        BY <1>0, <3>1
      <4>2. Before(h, ti + 1, x, k) = x /\ h[k] = x /\ ~IsLit(tokens[k]) /\ x <= x
        BY <1>0, <1>3, <2>1, <4>1
      <4> QED
        BY <4>2
    <3>2. CASE k = j
      <4>1. k \in ti+1..j /\ k \in j..L /\ j # L + 1 /\ k \in ti..L
        BY <1>0, <3>2
      <4> QED
        BY <1>2, <1>3, <2>1, <3>2, <4>1
    <3>3. CASE k > j
      <4>1. k \in j+1..L+1 /\ k \in j..L /\ k \in ti..L
        BY <1>0, <3>3
      <4> QED
        BY <1>2, <1>3, <2>2, <4>1
    <3> QED
      BY <1>0, <3>1, <3>2, <3>3
  <2> QED
    BY <1>0, <2>3, <2>4 DEF Fitting, L, N
<1>4. pos <= e[ti] /\ e[ti] \in pos..N /\ e[ti] \in 0..N /\ ti \in 1..L /\ pos \in 0..N
  <2>1. ti \in ti..L /\ ti \in 1..L /\ pos \in 0..N
    BY <1>0 DEF L, N
  <2>2. pos <= e[ti] /\ e[ti] \in 0..N
    BY <1>2, <2>1 DEF Before
  <2> QED
    BY <1>0, <2>1, <2>2
<1>5. CASE IsLit(tokens[ti])
  <2>1. Sub(s, pos, e[ti]) = tokens[ti].lit
    <3>1. ti \in ti..L
      BY <1>0, <1>4
    <3> QED
      BY <1>2, <1>5, <3>1 DEF Before
  <2>2. tokens[ti].lit \in Text
    <3>1. tokens[ti] \in Token
      OBVIOUS
    <3> QED
      BY <3>1 DEF Token
  <2>3. e[ti] = pos + Len(tokens[ti].lit) /\ HasPrefixAt(s, pos, tokens[ti].lit)
    BY <1>4, <2>1, <2>2, PrefixEnds DEF N
  <2>4. e[ti] \in TokenEnds(s, tokens, ti, pos)
    BY <1>4, <1>5, <2>3 DEF TokenEnds, N
  <2>5. e \in Fitting(s, tokens, ti + 1, e[ti])
    <3>1. ti + 1 \in ti+1..L+1 /\ ti+1..ti+1-1 = {}
      BY <1>0, <1>4
    <3>2. ti + 1 # L + 1 => e[ti] = Before(e, ti, pos, ti + 1)
      BY <1>4 DEF Before
    <3>3. ti + 1 = L + 1 => e[ti] = N
      BY <1>0, <1>2, <1>4 DEF Before
    <3> DEFINE j == ti + 1
               x == e[ti]
    <3>4. /\ j \in ti+1..L+1 /\ x \in 0..N /\ e \in [1..L -> 0..N]
          /\ \A k \in ti+1..j-1 : e[k] = x /\ ~IsLit(tokens[k])
          /\ \A k \in j..L : e[k] = e[k]
          /\ j # L + 1 => x = Before(e, ti, pos, j)
          /\ j = L + 1 => x = N
      BY <1>2, <1>4, <3>1, <3>2, <3>3
    <3> HIDE DEF j, x
    <3>5. e \in Fitting(s, tokens, ti + 1, x)
      BY <1>3, <3>4
    <3> QED
      BY <3>5 DEF x
  <2> QED
    BY <2>4, <2>5
<1> DEFINE later == {k \in ti+1..Len(tokens) : IsLit(tokens[k])}
<1>6. CASE ~IsLit(tokens[ti]) /\ later = {}
  <2> DEFINE h == [k \in 1..L |-> N]
  <2>1. TokenEnds(s, tokens, ti, pos) = {N}
    BY <1>6 DEF TokenEnds, CaptureEnds, NextLit, N
  <2>2. h \in Fitting(s, tokens, ti + 1, N)
    <3>1. L + 1 \in ti+1..L+1 /\ L+1..L = {} /\ N \in 0..N /\ h \in [1..L -> 0..N]
      BY <1>0, <1>4
    <3>2. \A k \in ti+1..L+1-1 : h[k] = N /\ ~IsLit(tokens[k])
      BY <1>0, <1>4, <1>6 DEF L
    <3> DEFINE j == L + 1
               x == N
    <3> HIDE DEF h
    <3>3. /\ j \in ti+1..L+1 /\ x \in 0..N /\ h \in [1..L -> 0..N]
          /\ \A k \in ti+1..j-1 : h[k] = x /\ ~IsLit(tokens[k])
          /\ \A k \in j..L : h[k] = e[k]
          /\ j # L + 1 => x = Before(e, ti, pos, j)
          /\ j = L + 1 => x = N
      <4>1. \A k \in j..L : h[k] = e[k]
        BY <3>1
      <4>2. \A k \in ti+1..j-1 : h[k] = x /\ ~IsLit(tokens[k])
        <5>1. ti+1..j-1 = ti+1..L+1-1
          BY <1>0, <1>4
        <5> HIDE DEF j
        <5> QED
          BY <3>2, <5>1
      <4>3. j \in ti+1..L+1 /\ x \in 0..N /\ h \in [1..L -> 0..N] /\ j = L + 1 /\ x = N
        BY <3>1
      <4> HIDE DEF j, x
      <4> QED
        BY <4>1, <4>2, <4>3
    <3> HIDE DEF j, x
    <3>4. h \in Fitting(s, tokens, ti + 1, x)
      BY <1>3, <3>3
    <3> QED
      BY <3>4 DEF x
  <2> QED
    BY <2>1, <2>2
<1>7. CASE ~IsLit(tokens[ti]) /\ later # {}
  <2> DEFINE j == Least(later)
             x == e[j-1]
             h == [k \in 1..L |-> IF k < j THEN x ELSE e[k]]
  <2>1. later \subseteq Nat
    BY <1>0 DEF L
  <2>2. j \in later /\ \A k \in later : j <= k
    <3> HIDE DEF later
    <3> QED
      BY <1>7, <2>1, LeastOf
  <2>3. j \in ti+1..L /\ IsLit(tokens[j]) /\ j - 1 \in ti..L /\ j - 1 \in 1..L /\ j # ti
    BY <1>0, <1>4, <2>2 DEF L
  <2>4. NextLit(tokens, ti) = tokens[j].lit
    BY <1>7 DEF NextLit
  <2>5. \A k \in ti+1..j-1 : ~IsLit(tokens[k])
    <3>1. ASSUME NEW k \in ti+1..j-1, IsLit(tokens[k]) PROVE FALSE
      <4>1. k \in later /\ k < j
        BY <1>0, <1>4, <2>3, <3>1 DEF L
      <4> QED
        BY <2>1, <2>2, <4>1
    <3> QED
      BY <3>1
  <2> HIDE DEF later, j
  <2>6. pos <= x /\ x \in 0..N /\ x \in pos..N
    <3>1. pos <= x
      BY <1>1, <2>3, FittingClimbs DEF L
    <3>2. x \in 0..N
      BY <1>2, <2>3
    <3> QED
      BY <1>0, <1>4, <3>1, <3>2
  <2>7. Before(e, ti, pos, j) = x
    BY <2>3 DEF Before
  <2> HIDE DEF x
  <2>8. x <= e[j] /\ Sub(s, x, e[j]) = tokens[j].lit /\ e[j] \in 0..N
    <3>1. j \in ti..L /\ j \in 1..L
      BY <1>0, <1>4, <2>3
    <3> QED
      BY <1>2, <2>3, <2>7, <3>1
  <2>9. e[j] \in x..N /\ tokens[j].lit \in Text
    <3>1. tokens[j] \in Token
      BY <1>0, <1>4, <2>3 DEF L
    <3> QED
      BY <1>0, <2>6, <2>8, <3>1 DEF Token
  <2>10. HasPrefixAt(s, x, tokens[j].lit)
    BY <2>6, <2>8, <2>9, PrefixEnds DEF N
  <2>11. x \in TokenEnds(s, tokens, ti, pos)
    BY <1>7, <2>3, <2>4, <2>6, <2>10 DEF TokenEnds, CaptureEnds, Occurrences, IsLit, N
  <2>12. h \in Fitting(s, tokens, ti + 1, x)
    <3>1. h \in [1..L -> 0..N] /\ \A k \in ti+1..j-1 : h[k] = x
      BY <1>0, <1>2, <1>4, <2>3, <2>6
    <3>2. \A k \in j..L : h[k] = e[k]
      BY <1>0, <1>4, <2>3
    <3>3. j \in ti+1..L+1 /\ j # L + 1
      BY <1>0, <1>4, <2>3
    <3> HIDE DEF h
    <3> QED
      BY <1>3, <2>5, <2>6, <2>7, <3>1, <3>2, <3>3
  <2> QED
    BY <2>11, <2>12
<1> QED
  BY <1>5, <1>6, <1>7

LEMMA FittingHasPath ==
  ASSUME NEW s \in Text, NEW tokens \in Seq(Token)
  PROVE  \A ti \in 1..Len(tokens)+1, pos \in 0..Len(s) :
           Fitting(s, tokens, ti, pos) # {} => Paths(s, tokens, ti, pos) # {}
<1> DEFINE L == Len(tokens)
           S == {n \in Nat : \A pos \in 0..Len(s) :
                   n <= L => (Fitting(s, tokens, L + 1 - n, pos) # {} => Paths(s, tokens, L + 1 - n, pos) # {})}
<1>0. L \in Nat
  OBVIOUS
<1>1. 0 \in S
  <2>1. L + 1 - 0 = L + 1 /\ L+1..L = {}
    BY <1>0
  <2>2. \A pos : Fitting(s, tokens, L + 1, pos) = Paths(s, tokens, L + 1, pos)
    BY <2>1 DEF Fitting, Paths
  <2> HIDE DEF L
  <2> QED
    BY <2>1, <2>2
<1>2. ASSUME NEW n \in Nat, n \in S PROVE n + 1 \in S
  <2>1. SUFFICES ASSUME NEW pos \in 0..Len(s), n + 1 <= L, Fitting(s, tokens, L + 1 - (n + 1), pos) # {}
                 PROVE  Paths(s, tokens, L + 1 - (n + 1), pos) # {}
    OBVIOUS
  <2> DEFINE ti == L + 1 - (n + 1)
  <2>2. ti \in 1..L /\ ti + 1 = L + 1 - n /\ n <= L
    BY <1>0, <2>1
  <2> HIDE DEF ti
  <2>3. PICK end \in TokenEnds(s, tokens, ti, pos) : Fitting(s, tokens, ti + 1, end) # {}
    BY <2>1, <2>2, FitFirst DEF ti
  <2>4. end \in 0..Len(s)
    <3>1. end \in pos..Len(s) /\ Len(s) \in Nat
      BY <2>2, EndsType DEF Text
    <3> QED
      BY <3>1
  <2>5. Paths(s, tokens, ti + 1, end) # {}
    BY <1>2, <2>2, <2>3, <2>4
  <2>6. PICK g : g \in Paths(s, tokens, ti + 1, end)
    BY <2>5
  <2>7. WithEnd(g, ti, end) \in Paths(s, tokens, ti, pos)
    BY <2>2, <2>6, PathOn
  <2> QED
    BY <2>7 DEF ti
<1>3. Nat \subseteq S
  <2> HIDE DEF S
  <2> QED
    BY <1>1, <1>2, Induction
<1>4. \A ti \in 1..L+1 : L + 1 - ti \in Nat /\ L + 1 - ti <= L /\ L + 1 - (L + 1 - ti) = ti
  BY <1>0
<1> QED
  BY <1>3, <1>4

LEMMA FitHasPath ==
  ASSUME NEW s \in Text, NEW tokens \in Seq(Token), tokens # <<>>, Fits(s, tokens) # {}
  PROVE  Paths(s, tokens, 1, 0) # {}
<1>1. Len(tokens) \in Nat /\ Len(tokens) # 0 /\ DOMAIN tokens = 1..Len(tokens) /\ Len(s) \in Nat
      /\ Len(tokens) + 1 # 1 /\ Len(tokens) + 1 - 1 = Len(tokens) /\ 1 \in 1..Len(tokens)+1 /\ 0 \in 0..Len(s)
  BY DEF Text
<1>2. PICK e : e \in Fits(s, tokens)
  OBVIOUS
<1>3. \A k : Before(e, 1, 0, k) = Start(e, k)
  BY DEF Before, Start
<1>4. Start(e, Len(tokens) + 1) = e[Len(tokens)]
  BY <1>1 DEF Start
<1>5. e \in Fitting(s, tokens, 1, 0)
  BY <1>1, <1>2, <1>3, <1>4 DEF Fits, Fitting
<1> QED
  BY <1>1, <1>5, FittingHasPath

LEMMA MatchTokensIsReference ==
  ASSUME NEW s \in Text, NEW tokens \in Seq(Token), tokens # <<>>
  PROVE  LET got  == MatchTokens(s, tokens)
             fits == Fits(s, tokens)
         IN  /\ got.ok = (fits # {})
             /\ (got.ok /\ ~Adjacent(tokens)) =>
                  got.caps = CapturesOf(s, tokens, CHOOSE e \in fits : \A f \in fits : Nearer(e, f))
             /\ got.ok => \E e \in fits : got.caps = CapturesOf(s, tokens, e)
<1> DEFINE got == MatchTokens(s, tokens)
           fits == Fits(s, tokens)
<1>1. /\ got \in Answers
      /\ got.ok <=> Paths(s, tokens, 1, 0) # {}
      /\ got.ok => \E e : Best(s, tokens, 1, 0, e) /\ got.caps = Captured(s, tokens, 1, 0, e)
  BY MatcherFinds
<1>2. \A e \in Paths(s, tokens, 1, 0) : e \in fits
  BY PathIsFit
<1>3. got.ok = (fits # {})
  <2>1. got.ok \in BOOLEAN
    BY <1>1 DEF Answers
  <2>2. fits # {} => Paths(s, tokens, 1, 0) # {}
    BY FitHasPath
  <2> HIDE DEF got, fits
  <2> QED
    BY <1>1, <1>2, <2>1, <2>2
<1>4. ASSUME got.ok PROVE \E e \in fits : got.caps = CapturesOf(s, tokens, e)
  BY <1>1, <1>2, <1>4, CapturedIsCapturesOf DEF Best
<1>5. ASSUME got.ok, ~Adjacent(tokens)
      PROVE  got.caps = CapturesOf(s, tokens, CHOOSE e \in fits : \A f \in fits : Nearer(e, f))
  <2>1. PICK e : Best(s, tokens, 1, 0, e) /\ got.caps = CapturesOf(s, tokens, e)
    BY <1>1, <1>5, CapturedIsCapturesOf
  <2>2. Len(tokens) \in Nat /\ Len(s) \in Nat /\ DOMAIN tokens = 1..Len(tokens) /\ fits \subseteq [DOMAIN tokens -> 0..Len(s)]
    BY DEF Text, Fits
  <2>3. e \in fits
    BY <1>2, <2>1 DEF Best
  <2>4. ASSUME NEW f \in fits PROVE Nearer(e, f)
    <3>1. NearerFrom(tokens, 1, e, f)
      BY <1>5, <2>1, FitIsPath DEF Best
    <3>2. CASE \A k \in 1..Len(tokens) : e[k] = f[k]
      <4>1. e = f
        <5> HIDE DEF fits
        <5> QED
          BY <2>2, <2>3, <3>2
      <4> QED
        BY <4>1 DEF Nearer
    <3>3. CASE \E k \in 1..Len(tokens) : e[k] < f[k] /\ \A l \in 1..k-1 : e[l] = f[l]
      <4>1. DOMAIN e = 1..Len(tokens)
        BY <2>2, <2>3
      <4> QED
        BY <3>3, <4>1 DEF Nearer
    <3> QED
      BY <3>1, <3>2, <3>3 DEF NearerFrom
  <2> DEFINE nearest == CHOOSE x \in fits : \A f \in fits : Nearer(x, f)
  <2>5. nearest \in fits /\ \A f \in fits : Nearer(nearest, f)
    <3> HIDE DEF fits
    <3> QED
      BY <2>3, <2>4
  <2> HIDE DEF nearest, fits
  <2>6. nearest = e
    BY <2>2, <2>3, <2>4, <2>5, OneNearest
  <2> QED
    BY <2>1, <2>6 DEF nearest
<1> QED
  BY <1>3, <1>4, <1>5

(***************************************************************************)
(* A number in the rules is a number.                                      *)
(***************************************************************************)
LEMMA NumeralIsNat ==
  ASSUME NEW digits \in Text, \A k \in DOMAIN digits : IsDigit(digits[k])
  PROVE  Numeral(digits) \in Nat /\ (digits = <<>> => Numeral(digits) = 0)
<1> DEFINE N == Len(digits)
           Eq(f) == f = [k \in 0..N |-> IF k = 0 THEN 0 ELSE 10 * f[k-1] + DigitValue(digits[k])]
           next == [p \in (1..N) \X Nat |-> 10 * p[2] + DigitValue(digits[p[1]])]
           g == CHOOSE f : Eq(f)
<1>1. N \in Nat /\ DOMAIN digits = 1..N
  BY DEF Text
<1>2. \A k \in 1..N : DigitValue(digits[k]) \in Nat
  <2>1. ASSUME NEW k \in 1..N PROVE DigitValue(digits[k]) \in Nat
    <3>1. \E d \in DOMAIN Digits : Digits[d] = digits[k]
      BY <1>1 DEF IsDigit
    <3>2. (CHOOSE d \in DOMAIN Digits : Digits[d] = digits[k]) \in DOMAIN Digits
      BY <3>1
    <3>3. DOMAIN Digits = 1..10
      BY DEF Digits
    <3> DEFINE x == CHOOSE d \in DOMAIN Digits : Digits[d] = digits[k]
    <3>4. DigitValue(digits[k]) = x - 1
      BY DEF DigitValue
    <3>5. x \in 1..10
      BY <3>2, <3>3
    <3> HIDE DEF x
    <3> QED
      BY <3>4, <3>5
  <2> QED
    BY <2>1
<1> HIDE DEF N
<1>3. next \in Codings((1..N) \X Nat, Nat)
  <2>1. ASSUME NEW p \in (1..N) \X Nat PROVE 10 * p[2] + DigitValue(digits[p[1]]) \in Nat
    <3>1. p[1] \in 1..N /\ p[2] \in Nat
      OBVIOUS
    <3>2. DigitValue(digits[p[1]]) \in Nat
      BY <1>2, <3>1
    <3> QED
      BY <3>1, <3>2
  <2> QED
    BY <2>1 DEF Codings
<1>4. \A k \in 1..N, x \in Nat : next[<<k, x>>] = 10 * x + DigitValue(digits[k])
  OBVIOUS
<1> HIDE DEF next
<1>5. PICK f \in Codings(0..N, Nat) : Counts(f, N, 0, next)
  <2> DEFINE V == Nat
  <2>1. 0 \in V /\ next \in Codings((1..N) \X V, V)
    BY <1>3
  <2> HIDE DEF V
  <2>2. \E f \in Codings(0..N, V) : Counts(f, N, 0, next)
    BY <1>1, <2>1, CountRecursion
  <2> QED
    BY <2>2 DEF V
<1>6. f \in [0..N -> Nat] /\ f[0] = 0 /\ \A n \in 1..N : f[n] = next[<<n, f[n-1]>>]
  BY <1>5 DEF Codings, Counts
<1>7. Eq(f)
  <2>1. \A k \in 0..N : f[k] = IF k = 0 THEN 0 ELSE 10 * f[k-1] + DigitValue(digits[k])
    <3>1. ASSUME NEW k \in 1..N PROVE f[k] = 10 * f[k-1] + DigitValue(digits[k])
      <4>1. k - 1 \in 0..N
        BY <1>1
      <4>2. f[k-1] \in Nat
        BY <1>6, <4>1
      <4> QED
        BY <1>4, <1>6, <4>2
    <3>2. \A k \in 0..N : k = 0 \/ k \in 1..N
      BY <1>1
    <3> QED
      BY <1>6, <3>1, <3>2
  <2>2. f = [k \in 0..N |-> f[k]]
    BY <1>6
  <2> QED
    BY <2>1, <2>2
<1>8. Eq(g)
  <2> HIDE DEF Eq
  <2> QED
    BY <1>7
<1> HIDE DEF g
<1>9. g[0] = 0 /\ \A k \in 1..N : g[k] = 10 * g[k-1] + DigitValue(digits[k])
  <2>1. 0 \in 0..N /\ \A k \in 1..N : k \in 0..N /\ k # 0
    BY <1>1
  <2> QED
    BY <1>8, <2>1
<1> DEFINE S == {n \in Nat : n <= N => g[n] \in Nat}
<1>10. Nat \subseteq S
  <2>1. 0 \in S
    BY <1>9
  <2>2. ASSUME NEW n \in Nat, n \in S PROVE n + 1 \in S
    <3>1. SUFFICES ASSUME n + 1 <= N PROVE g[n+1] \in Nat
      OBVIOUS
    <3>2. n + 1 \in 1..N /\ n <= N /\ (n + 1) - 1 = n
      BY <1>1, <3>1
    <3>3. g[n+1] = 10 * g[n] + DigitValue(digits[n+1]) /\ DigitValue(digits[n+1]) \in Nat
      BY <1>2, <1>9, <3>2
    <3> QED
      BY <2>2, <3>2, <3>3
  <2> HIDE DEF S
  <2> QED
    BY <2>1, <2>2, Induction
<1>11. Numeral(digits) = g[N]
  BY DEF Numeral, N, g
<1>12. digits = <<>> => N = 0
  BY DEF N
<1> QED
  BY <1>1, <1>9, <1>10, <1>11, <1>12

-----------------------------------------------------------------------------
(***************************************************************************)
(* Tokens whose captures have numbers of C.                                *)
(***************************************************************************)
Tokens(C) == {t \in Token : IsLit(t) \/ t.cap \in C}
Readable(q, C) == q.len \in Nat /\ (q.len # 0 => q.token \in Tokens(C))

LEMMA LettersAreText ==
  /\ \A c \in Char : <<c>> \in Text /\ <<c>> # <<>>
  /\ <<"=", ">">> \in Text /\ <<"=", ">">> # <<>> /\ <<>> \in Text
<1>1. "=" \in Char /\ ">" \in Char
  BY DEF Char
<1>2. \A c, d \in Char : <<c>> \in Seq(Char) /\ <<c>> # <<>> /\ <<c, d>> \in Seq(Char) /\ <<c, d>> # <<>>
  OBVIOUS
<1>3. <<>> \in Seq(Char)
  OBVIOUS
<1> QED
  BY <1>1, <1>2, <1>3 DEF Text

LEMMA LitIsToken ==
  ASSUME NEW C, NEW t \in Text, t # <<>>
  PROVE  Lit(t) \in Tokens(C) /\ IsLit(Lit(t))
  BY DEF Lit, Tokens, Token, IsLit

LEMMA CapIsToken ==
  ASSUME NEW C, C \subseteq Int, NEW n \in C
  PROVE  Cap(n) \in Tokens(C)
  BY LettersAreText DEF Cap, Tokens, Token

LEMMA PieceParts ==
  ASSUME NEW n, NEW t
  PROVE  Piece(n, t).len = n /\ Piece(n, t).token = t
  BY DEF Piece

LEMMA EscapeReads ==
  ASSUME NEW C, NEW s \in Text, NEW i \in 1..Len(s)
  PROVE  Readable(EscapePiece(s, i), C)
<1>1. Len(s) \in Nat /\ \A k \in 1..Len(s) : s[k] \in Char
  BY DEF Text
<1>2. Readable(Piece(0, Lit(<<>>)), C)
  BY PieceParts DEF Readable
<1>3. ASSUME i + 1 <= Len(s) PROVE Readable(Piece(2, Lit(<<s[i+1]>>)), C)
  <2>1. s[i+1] \in Char
    BY <1>1, <1>3
  <2>2. Lit(<<s[i+1]>>) \in Tokens(C)
    BY <2>1, LettersAreText, LitIsToken
  <2> QED
    BY <2>2, PieceParts DEF Readable
<1>4. Readable(Piece(3, Lit(<<"=", ">">>)), C)
  <2>1. Lit(<<"=", ">">>) \in Tokens(C)
    BY LettersAreText, LitIsToken
  <2> QED
    BY <2>1, PieceParts DEF Readable
<1>5. \/ EscapePiece(s, i) = Piece(0, Lit(<<>>))
      \/ EscapePiece(s, i) = Piece(2, Lit(<<s[i+1]>>)) /\ i + 1 <= Len(s)
      \/ EscapePiece(s, i) = Piece(3, Lit(<<"=", ">">>))
  <2>1. CASE i + 1 > Len(s)
    <3>1. ~(i + 1 <= Len(s)) /\ ~(i + 2 <= Len(s))
      BY <1>1, <2>1
    <3>2. EscapePiece(s, i) = Piece(0, Lit(<<>>))
      BY <2>1, <3>1 DEF EscapePiece
    <3> QED
      BY <3>2
  <2>2. CASE ~(i + 1 > Len(s))
    <3>1. i + 1 <= Len(s)
      BY <1>1, <2>2
    <3> QED
      BY <2>2, <3>1 DEF EscapePiece
  <2> QED
    BY <2>1, <2>2
<1> QED
  BY <1>2, <1>3, <1>4, <1>5

LEMMA FindReads ==
  ASSUME NEW s \in Text, NEW i \in 1..Len(s), NEW captures \in Nat
  PROVE  Readable(FindPiece(s, i, captures), Int)
<1>1. Readable(EscapePiece(s, i), Int)
  BY EscapeReads
<1>2. Readable(Piece(1, Cap(captures + 1)), Int)
  <2>1. Cap(captures + 1) \in Tokens(Int)
    BY CapIsToken
  <2> QED
    BY <2>1, PieceParts DEF Readable
<1>3. Readable(Piece(1, Lit(<<s[i]>>)), Int)
  <2>1. s[i] \in Char
    BY DEF Text
  <2>2. Lit(<<s[i]>>) \in Tokens(Int)
    BY <2>1, LettersAreText, LitIsToken
  <2> QED
    BY <2>2, PieceParts DEF Readable
<1>4. \/ FindPiece(s, i, captures) = EscapePiece(s, i)
      \/ FindPiece(s, i, captures) = Piece(1, Cap(captures + 1))
      \/ FindPiece(s, i, captures) = Piece(1, Lit(<<s[i]>>))
  BY DEF FindPiece
<1> QED
  BY <1>1, <1>2, <1>3, <1>4

LEMMA SubIsText ==
  ASSUME NEW s \in Text, NEW i \in 1..Len(s)+1, NEW j \in 0..Len(s)
  PROVE  SubSeq(s, i, j) \in Text
<1>1. Len(s) \in Nat
  BY DEF Text
<1> QED
  BY <1>1, SMT DEF Text

LEMMA SubSubSeq ==
  ASSUME NEW s \in Text, NEW a \in 1..Len(s)+1, NEW b \in 0..Len(s), NEW i \in 1..Len(SubSeq(s, a, b)), NEW j \in 1..Len(SubSeq(s, a, b))
  PROVE  /\ a + i - 1 \in DOMAIN s /\ a + j - 1 \in DOMAIN s
         /\ SubSeq(SubSeq(s, a, b), i, j) = SubSeq(s, a + i - 1, a + j - 1)
         /\ \A k \in 1..Len(SubSeq(s, a, b)) : SubSeq(s, a, b)[k] = s[a + k - 1]
<1> DEFINE t == SubSeq(s, a, b)
           u == SubSeq(t, i, j)
           v == SubSeq(s, a + i - 1, a + j - 1)
<1>1. Len(s) \in Nat /\ DOMAIN s = 1..Len(s)
  BY DEF Text
<1>2. t \in Seq(Char) /\ Len(t) = IF a <= b THEN b - a + 1 ELSE 0
  BY <1>1, SMT DEF Text
<1>3. Len(t) = b - a + 1 /\ i >= 1 /\ i <= b - a + 1 /\ j >= 1 /\ j <= b - a + 1 /\ a >= 1 /\ b <= Len(s) /\ i \in Int /\ j \in Int
      /\ a \in Int /\ b \in Int
  BY <1>1, <1>2
<1>4. \A k \in 1..Len(t) : t[k] = s[a + k - 1]
  BY <1>1, <1>3, SMT DEF Text
<1>5. u \in Seq(Char) /\ Len(u) = (IF i <= j THEN j - i + 1 ELSE 0) /\ \A k \in 1..Len(u) : u[k] = t[i + k - 1]
  <2>1. i \in 1..Len(t) /\ j \in 1..Len(t) /\ Len(t) \in Nat
    BY <1>2, <1>3
  <2> HIDE DEF t
  <2>2. \A k \in i..j : k \in 1..Len(t) /\ t[k] \in Char
    BY <1>2, <2>1
  <2>3. u = [k \in 1..j-i+1 |-> t[i + k - 1]]
    BY <2>1 DEF SubSeq
  <2>4. Len(u) = IF i <= j THEN j - i + 1 ELSE 0
    BY <1>2, <2>1
  <2>5. u \in Seq(Char)
    BY <1>2, <2>1
  <2>6. \A k \in 1..Len(u) : u[k] = t[i + k - 1]
    <3> SUFFICES ASSUME NEW k \in 1..Len(u)
                 PROVE  u[k] = t[i + k - 1]
      OBVIOUS
    <3>1. k \in 1..j-i+1
      <4> HIDE DEF u
      <4> QED
        BY <2>1, <2>4
    <3> QED
      BY <2>3, <3>1, Zenon
  <2> QED
    BY <2>4, <2>5, <2>6
<1>6. v \in Seq(Char) /\ Len(v) = (IF i <= j THEN j - i + 1 ELSE 0) /\ \A k \in 1..Len(v) : v[k] = s[a + i - 1 + k - 1]
  BY <1>1, <1>3, SMT DEF Text
<1>7. a + i - 1 \in DOMAIN s /\ a + j - 1 \in DOMAIN s
  BY <1>1, <1>3
<1>8. u = v
  <2> HIDE DEF t, u, v
  <2>1. Len(u) = Len(v)
    BY <1>5, <1>6
  <2>2. ASSUME NEW k \in 1..Len(u) PROVE u[k] = v[k]
    <3>1. k \in 1..Len(v) /\ i + k - 1 \in 1..Len(t)
      BY <1>2, <1>3, <1>5, <2>1
    <3>2. u[k] = s[a + (i + k - 1) - 1] /\ v[k] = s[a + i - 1 + k - 1]
      BY <1>4, <1>5, <1>6, <3>1
    <3>3. a + (i + k - 1) - 1 = a + i - 1 + k - 1
      BY <1>3
    <3> QED
      BY <3>2, <3>3
  <2> QED
    BY <1>5, <1>6, <2>1, <2>2, SeqEqual
<1> QED
  BY <1>4, <1>7, <1>8

LEMMA PartsFit ==
  ASSUME NEW s \in Text, NumbersFit(s), NEW a \in 1..Len(s)+1, NEW b \in 0..Len(s)
  PROVE  NumbersFit(SubSeq(s, a, b))
<1> DEFINE t == SubSeq(s, a, b)
<1>1. t \in Text
  BY SubIsText
<1>2. DOMAIN t = 1..Len(t) /\ Len(t) \in Nat /\ Len(s) \in Nat
  BY <1>1 DEF Text
<1>3. ASSUME NEW i \in 1..Len(t), NEW j \in 1..Len(t), \A k \in i..j : IsDigit(t[k])
      PROVE  2 * Numeral(SubSeq(t, i, j)) < IntSpan
  <2>1. /\ a + i - 1 \in DOMAIN s /\ a + j - 1 \in DOMAIN s
        /\ SubSeq(t, i, j) = SubSeq(s, a + i - 1, a + j - 1)
        /\ \A k \in 1..Len(t) : t[k] = s[a + k - 1]
    BY SubSubSeq
  <2>2. \A k \in a+i-1..a+j-1 : k - a + 1 \in i..j /\ k - a + 1 \in 1..Len(t) /\ a + (k - a + 1) - 1 = k
    BY <1>2
  <2>3. \A k \in a+i-1..a+j-1 : IsDigit(s[k])
    <3> HIDE DEF t
    <3>1. ASSUME NEW k \in a+i-1..a+j-1 PROVE IsDigit(s[k])
      <4>1. t[k - a + 1] = s[a + (k - a + 1) - 1]
        BY <2>1, <2>2
      <4> QED
        BY <1>3, <2>2, <4>1
    <3> QED
      BY <3>1
  <2> QED
    BY <2>1, <2>3 DEF NumbersFit
<1> HIDE DEF t
<1>4. NumbersFit(t)
  BY <1>2, <1>3 DEF NumbersFit
<1> QED
  BY <1>4 DEF t

LEMMA IntOfSmall ==
  ASSUME NEW n \in Nat, 2 * n < IntSpan
  PROVE  AsInt(n) = n
<1>1. IntSpan \in Nat /\ n < IntSpan
  BY IntAssumption
<1>2. n % IntSpan = n
  BY <1>1
<1> QED
  BY <1>2 DEF AsInt

LEMMA DigitsAreNumber ==
  ASSUME NEW s \in Text, NumbersFit(s), NEW i \in 1..Len(s)
  PROVE  LET digits == DigitsAfter(s, i)
         IN  /\ digits \in Text
             /\ digits # <<>> => Numeral(digits) \in Nat /\ AsInt(Numeral(digits)) = Numeral(digits)
<1> DEFINE stops == {j \in i+1..Len(s) : ~IsDigit(s[j])}
           last == IF stops = {} THEN Len(s) ELSE Least(stops) - 1
           digits == SubSeq(s, i + 1, last)
<1>1. Len(s) \in Nat /\ DOMAIN s = 1..Len(s)
  BY DEF Text
<1>2. stops # {} => Least(stops) \in stops /\ \A j \in stops : Least(stops) <= j
  <2>1. stops \subseteq Nat
    BY <1>1
  <2> HIDE DEF stops
  <2> QED
    BY <2>1, LeastOf
<1>3. last \in i..Len(s) /\ last \in Int
  BY <1>1, <1>2
<1>4. \A k \in i+1..last : IsDigit(s[k])
  <2>1. ASSUME NEW k \in i+1..last, ~IsDigit(s[k]) PROVE FALSE
    <3>1. k \in stops
      BY <1>1, <1>3, <2>1
    <3>2. Least(stops) <= k /\ last = Least(stops) - 1 /\ Least(stops) \in Int
      BY <1>2, <3>1
    <3> QED
      BY <3>2
  <2> QED
    BY <2>1
<1>5. DigitsAfter(s, i) = digits
  BY DEF DigitsAfter
<1> HIDE DEF stops, last
<1>6. digits \in Text /\ Len(digits) = last - i /\ \A k \in 1..Len(digits) : digits[k] = s[i + k]
  <2>1. i + 1 \in 1..Len(s)+1 /\ last \in 0..Len(s)
    BY <1>1, <1>3
  <2>2. digits \in Text
    BY <2>1, SubIsText
  <2>3. Len(digits) = last - i /\ \A k \in 1..Len(digits) : digits[k] = s[i + k]
    BY <1>1, <1>3, <2>1, SMT DEF Text
  <2> QED
    BY <2>2, <2>3
<1>7. ASSUME digits # <<>> PROVE Numeral(digits) \in Nat /\ AsInt(Numeral(digits)) = Numeral(digits)
  <2>1. \A k \in DOMAIN digits : IsDigit(digits[k])
    <3>1. ASSUME NEW k \in DOMAIN digits PROVE IsDigit(digits[k])
      <4>1. k \in 1..Len(digits)
        BY <1>6 DEF Text
      <4>2. digits[k] = s[i + k] /\ i + k \in i+1..last
        BY <1>1, <1>3, <1>6, <4>1
      <4> QED
        BY <1>4, <4>2
    <3> QED
      BY <3>1
  <2>2. Numeral(digits) \in Nat
    BY <1>6, <2>1, NumeralIsNat
  <2>3. Len(digits) # 0
    BY <1>6, <1>7 DEF Text
  <2>4. i + 1 \in DOMAIN s /\ last \in DOMAIN s
    BY <1>1, <1>3, <1>6, <2>3
  <2>5. 2 * Numeral(digits) < IntSpan
    BY <1>4, <2>4 DEF NumbersFit
  <2> QED
    BY <2>2, <2>5, IntOfSmall
<1> QED
  BY <1>5, <1>6, <1>7

LEMMA PutReads ==
  ASSUME NEW s \in Text, NumbersFit(s), NEW i \in 1..Len(s), NEW captures \in Nat
  PROVE  Readable(PutPiece(s, i, captures), 1..captures)
<1> DEFINE C == 1..captures
           digits == DigitsAfter(s, i)
           n == AsInt(Numeral(digits))
<1>1. Readable(EscapePiece(s, i), C)
  BY EscapeReads
<1>2. Readable(Piece(1, Lit(<<s[i]>>)), C)
  <2>1. s[i] \in Char
    BY DEF Text
  <2>2. Lit(<<s[i]>>) \in Tokens(C)
    BY <2>1, LettersAreText, LitIsToken
  <2> QED
    BY <2>2, PieceParts DEF Readable
<1>3. Readable(Piece(0, Lit(<<>>)), C)
  BY PieceParts DEF Readable
<1>4. ASSUME digits # <<>>, n # 0, n <= captures PROVE Readable(Piece(Len(digits) + 1, Cap(n)), C)
  <2>1. n \in Nat /\ digits \in Text
    BY <1>4, DigitsAreNumber
  <2>2. n \in C /\ C \subseteq Int
    BY <1>4, <2>1
  <2> HIDE DEF C, n, digits
  <2>3. Cap(n) \in Tokens(C)
    BY <2>2, CapIsToken
  <2>4. Len(digits) + 1 \in Nat
    BY <2>1 DEF Text
  <2> QED
    BY <2>3, <2>4, PieceParts DEF Readable
<1>5. Readable(CapturePiece(digits, captures), C)
  <2> HIDE DEF C, digits
  <2> QED
    BY <1>3, <1>4 DEF CapturePiece
<1>6. \/ PutPiece(s, i, captures) = EscapePiece(s, i)
      \/ PutPiece(s, i, captures) = CapturePiece(digits, captures)
      \/ PutPiece(s, i, captures) = Piece(1, Lit(<<s[i]>>))
  BY DEF PutPiece
<1> HIDE DEF C, digits
<1>7. Readable(PutPiece(s, i, captures), C)
  BY <1>1, <1>2, <1>5, <1>6
<1> QED
  BY <1>7 DEF C

(***************************************************************************)
(* A side of a rule, read to its end, is a list of tokens.                 *)
(***************************************************************************)
LEMMA AddIsTokens ==
  ASSUME NEW C, NEW ts \in Seq(Tokens(C)), NEW t \in Tokens(C)
  PROVE  AddToken(ts, t) \in Seq(Tokens(C))
<1>1. CASE IsLit(t) /\ ts # <<>> /\ IsLit(Last(ts))
  <2>1. Len(ts) \in Nat /\ Len(ts) \in 1..Len(ts) /\ Last(ts) = ts[Len(ts)] /\ Last(ts) \in Tokens(C)
    BY <1>1 DEF Last
  <2>2. Last(ts).lit \in Text /\ t.lit \in Text /\ t.lit # <<>>
    BY <1>1, <2>1 DEF Tokens, Token, IsLit
  <2>3. \A p, q \in Text : q # <<>> => p \o q \in Text /\ p \o q # <<>>
    BY DEF Text
  <2>4. Lit(Last(ts).lit \o t.lit) \in Tokens(C)
    BY <2>2, <2>3, LitIsToken
  <2> DEFINE x == Lit(Last(ts).lit \o t.lit)
  <2>5. AddToken(ts, t) = [ts EXCEPT ![Len(ts)] = x]
    BY <1>1 DEF AddToken
  <2> HIDE DEF x
  <2> QED
    BY <2>1, <2>4, <2>5 DEF x
<1>2. CASE ~(IsLit(t) /\ ts # <<>> /\ IsLit(Last(ts)))
  <2>1. AddToken(ts, t) = Append(ts, t)
    BY <1>2 DEF AddToken
  <2> QED
    BY <2>1
<1> QED
  BY <1>1, <1>2

LEMMA CapturesIsNat ==
  ASSUME NEW ts \in Seq(Token)
  PROVE  Captures(ts) \in Nat
<1> DEFINE f == [k \in DOMAIN ts |-> IF IsLit(ts[k]) THEN <<>> ELSE <<k>>]
<1>1. \A k \in 1..Len(ts) : (IF IsLit(ts[k]) THEN <<>> ELSE <<k>>) \in Seq(Nat)
  OBVIOUS
<1>2. DOMAIN ts = 1..Len(ts) /\ Len(ts) \in Nat
  OBVIOUS
<1>3. f \in Seq(Seq(Nat))
  BY <1>1, <1>2
<1> HIDE DEF f
<1>4. FlattenSeq(f) \in Seq(Nat)
  <2> DEFINE V == Nat
  <2>1. f \in Seq(Seq(V))
    BY <1>3
  <2> HIDE DEF V
  <2>2. FlattenSeq(f) \in Seq(V)
    BY <2>1, FlattenType
  <2> QED
    BY <2>2 DEF V
<1>5. Captures(ts) = Len(FlattenSeq(f))
  BY DEF Captures, CaptureTokens, f
<1> QED
  BY <1>4, <1>5

Readings(C) == [at : Nat \ {0}, tokens : Seq(Tokens(C)), failed : BOOLEAN]

LEMMA ReadIsReading ==
  ASSUME NEW C, NEW s \in Text, NEW IsFind \in BOOLEAN, NEW captures, NEW r \in Readings(C),
         \A x \in Readings(C) : x.at <= Len(s) => Readable(PieceAt(s, IsFind, captures, x), C)
  PROVE  ReadPiece(s, IsFind, captures, r) \in Readings(C)
<1> DEFINE q == PieceAt(s, IsFind, captures, r)
<1>0. Len(s) \in Nat /\ r.at \in Nat \ {0} /\ r.tokens \in Seq(Tokens(C))
  BY DEF Text, Readings
<1>1. CASE r.failed \/ r.at > Len(s)
  BY <1>1 DEF ReadPiece
<1>2. CASE ~(r.failed \/ r.at > Len(s))
  <2>1. ReadPiece(s, IsFind, captures, r) = ReadOn(r, q)
    BY <1>2 DEF ReadPiece
  <2>2. Readable(q, C)
    BY <1>0, <1>2
  <2> HIDE DEF q
  <2>3. q.len # 0 => AddToken(r.tokens, q.token) \in Seq(Tokens(C))
    BY <1>0, <2>2, AddIsTokens DEF Readable
  <2>4. ReadOn(r, q) \in Readings(C)
    <3>1. CASE q.len = 0
      BY <1>0, <3>1 DEF ReadOn, Reading, Readings
    <3>2. CASE q.len # 0
      <4>1. r.at + q.len \in Nat \ {0}
        BY <1>0, <2>2 DEF Readable
      <4> QED
        BY <2>3, <3>2, <4>1 DEF ReadOn, Reading, Readings
    <3> QED
      BY <3>1, <3>2
  <2> QED
    BY <2>1, <2>4
<1> QED
  BY <1>1, <1>2

AllReadable(C, s, IsFind, captures) ==
  \A x \in Readings(C) : x.at <= Len(s) => Readable(PieceAt(s, IsFind, captures, x), C)

(***************************************************************************)
(* What is read after every piece of a side, from a set that no piece      *)
(* leaves.                                                                 *)
(***************************************************************************)
Start0 == Reading(1, <<>>, FALSE)
ReadsOn(s, IsFind, captures, V) == \A x \in V : ReadPiece(s, IsFind, captures, x) \in V

LEMMA SideRuns ==
  ASSUME NEW s \in Text, NEW IsFind, NEW captures, NEW V, Start0 \in V, ReadsOn(s, IsFind, captures, V)
  PROVE  \E g \in Codings(0..Len(s), V) :
           /\ g[0] = Start0
           /\ \A k \in 1..Len(s) : g[k] = ReadPiece(s, IsFind, captures, g[k-1])
           /\ ParseSide(s, IsFind, captures) = IF g[Len(s)].failed THEN <<>> ELSE g[Len(s)].tokens
<1> DEFINE N == Len(s)
           v0 == Start0
           Eq(f) == f = [n \in 0..N |-> IF n = 0 THEN v0 ELSE ReadPiece(s, IsFind, captures, f[n-1])]
           next == [p \in (1..N) \X V |-> ReadPiece(s, IsFind, captures, p[2])]
           g == CHOOSE f : Eq(f)
<1>1. N \in Nat
  BY DEF Text
<1>3. \A x \in V : ReadPiece(s, IsFind, captures, x) \in V
  BY DEF ReadsOn
<1> HIDE DEF N, v0
<1>4. next \in Codings((1..N) \X V, V)
  <2>1. \A p \in (1..N) \X V : ReadPiece(s, IsFind, captures, p[2]) \in V
    BY <1>3
  <2> QED
    BY <2>1 DEF Codings
<1>5. \A k \in 1..N, x \in V : next[<<k, x>>] = ReadPiece(s, IsFind, captures, x)
  OBVIOUS
<1> HIDE DEF next
<1>2. v0 \in V
  BY DEF v0
<1>6. PICK f \in Codings(0..N, V) : Counts(f, N, v0, next)
  BY <1>1, <1>2, <1>4, CountRecursion
<1>6a. f[0] = v0 /\ \A n \in 1..N : f[n] = next[<<n, f[n-1]>>]
  BY <1>6 DEF Counts
<1>7. Eq(f)
  <2>1. f \in [0..N -> V]
    BY <1>6 DEF Codings
  <2>2. \A k \in 0..N : f[k] = IF k = 0 THEN v0 ELSE ReadPiece(s, IsFind, captures, f[k-1])
    <3>1. ASSUME NEW k \in 1..N PROVE f[k] = ReadPiece(s, IsFind, captures, f[k-1])
      <4>1. k - 1 \in 0..N
        BY <1>1
      <4>2. f[k-1] \in V
        BY <2>1, <4>1
      <4> QED
        BY <1>5, <1>6a, <4>2
    <3>2. \A k \in 0..N : k = 0 \/ k \in 1..N
      BY <1>1
    <3> QED
      BY <1>6a, <3>1, <3>2
  <2>3. f = [k \in 0..N |-> f[k]]
    BY <2>1
  <2> QED
    BY <2>2, <2>3
<1>8. Eq(g)
  <2> HIDE DEF Eq
  <2> QED
    BY <1>7
<1>8a. g = [k \in 0..N |-> g[k]]
  BY <1>8
<1> HIDE DEF g
<1>9. g[0] = v0 /\ \A k \in 1..N : g[k] = ReadPiece(s, IsFind, captures, g[k-1])
  <2>1. 0 \in 0..N /\ \A k \in 1..N : k \in 0..N /\ k # 0
    BY <1>1
  <2> QED
    BY <1>8, <2>1
<1> DEFINE S == {n \in Nat : n <= N => g[n] \in V}
<1>10. Nat \subseteq S
  <2>1. 0 \in S
    BY <1>2, <1>9
  <2>2. ASSUME NEW n \in Nat, n \in S PROVE n + 1 \in S
    <3>1. SUFFICES ASSUME n + 1 <= N PROVE g[n+1] \in V
      OBVIOUS
    <3>2. n + 1 \in 1..N /\ n <= N /\ (n + 1) - 1 = n
      BY <1>1, <3>1
    <3>3. g[n+1] = ReadPiece(s, IsFind, captures, g[n])
      BY <1>9, <3>2
    <3> QED
      BY <1>3, <2>2, <3>2, <3>3
  <2> HIDE DEF S
  <2> QED
    BY <2>1, <2>2, Induction
<1>11. g \in Codings(0..N, V)
  <2>1. \A k \in 0..N : g[k] \in V
    BY <1>1, <1>10
  <2> QED
    BY <1>8a, <2>1 DEF Codings
<1>12. ParseSide(s, IsFind, captures) = IF g[N].failed THEN <<>> ELSE g[N].tokens
  BY DEF ParseSide, N, v0, g, Start0
<1> QED
  BY <1>9, <1>11, <1>12 DEF N, v0

LEMMA SideIsTokens ==
  ASSUME NEW C, NEW s \in Text, NEW IsFind \in BOOLEAN, NEW captures, AllReadable(C, s, IsFind, captures)
  PROVE  ParseSide(s, IsFind, captures) \in Seq(Tokens(C))
<1> DEFINE V == Readings(C)
<1>1. Start0 \in V
  BY DEF Start0, Reading, Readings
<1>2. ReadsOn(s, IsFind, captures, V)
  BY ReadIsReading DEF AllReadable, ReadsOn
<1> HIDE DEF V
<1>3. PICK g \in Codings(0..Len(s), V) :
           /\ g[0] = Start0
           /\ \A k \in 1..Len(s) : g[k] = ReadPiece(s, IsFind, captures, g[k-1])
           /\ ParseSide(s, IsFind, captures) = IF g[Len(s)].failed THEN <<>> ELSE g[Len(s)].tokens
  BY <1>1, <1>2, SideRuns
<1>4. g[Len(s)] \in V
  <2>1. Len(s) \in 0..Len(s)
    BY DEF Text
  <2> QED
    BY <2>1 DEF Codings
<1> QED
  BY <1>3, <1>4 DEF V, Readings

LEMMA FindIsTokens ==
  ASSUME NEW s \in Text, NEW captures
  PROVE  ParseSide(s, TRUE, captures) \in Seq(Token)
<1>1. Tokens(Int) = Token
  BY DEF Tokens, Token
<1>2. ASSUME NEW x \in Readings(Int), x.at <= Len(s) PROVE Readable(PieceAt(s, TRUE, captures, x), Int)
  <2>1. x.at \in Nat \ {0} /\ x.tokens \in Seq(Token) /\ Len(s) \in Nat
    BY <1>1 DEF Readings, Text
  <2>2. x.at \in 1..Len(s) /\ Captures(x.tokens) \in Nat
    BY <1>2, <2>1, CapturesIsNat
  <2>3. PieceAt(s, TRUE, captures, x) = FindPiece(s, x.at, Captures(x.tokens))
    BY DEF PieceAt
  <2> QED
    BY <2>2, <2>3, FindReads
<1>3. ParseSide(s, TRUE, captures) \in Seq(Tokens(Int))
  BY <1>2, SideIsTokens DEF AllReadable
<1> QED
  BY <1>1, <1>3

LEMMA PutIsTokens ==
  ASSUME NEW s \in Text, NumbersFit(s), NEW captures \in Nat
  PROVE  ParseSide(s, FALSE, captures) \in Seq(Tokens(1..captures))
<1>1. ASSUME NEW x \in Readings(1..captures), x.at <= Len(s) PROVE Readable(PieceAt(s, FALSE, captures, x), 1..captures)
  <2>1. x.at \in 1..Len(s)
    BY <1>1 DEF Readings, Text
  <2>2. PieceAt(s, FALSE, captures, x) = PutPiece(s, x.at, captures)
    BY DEF PieceAt
  <2> QED
    BY <2>1, <2>2, PutReads
<1> QED
  BY <1>1, SideIsTokens DEF AllReadable

-----------------------------------------------------------------------------
(***************************************************************************)
(* What is typed is text, and its numbers fit.                             *)
(***************************************************************************)
DeskTyped == rule \in Text /\ NumbersFit(rule) /\ model \in Text

LEMMA SeqOfPart ==
  ASSUME NEW S, NEW T, S \subseteq T, NEW s \in Seq(S)
  PROVE  s \in Seq(T)
<1>1. Len(s) \in Nat /\ s \in [1..Len(s) -> S]
  OBVIOUS
<1>2. s \in [1..Len(s) -> T]
  BY <1>1
<1> QED
  BY <1>1, <1>2

LEMMA TypedIsText ==
  /\ \A p \in Pieces : p \in Text
  /\ \A c \in Letters : c \in Char
<1>1. STRING \subseteq Char
  BY DEF Char
<1>2. ASSUME NEW p \in Pieces PROVE p \in Text
  <2> DEFINE S == STRING
             T == Char
  <2>1. S \subseteq T /\ p \in Seq(S)
    BY <1>1, TextsAssumption
  <2> HIDE DEF S, T
  <2>2. p \in Seq(T)
    BY <2>1, SeqOfPart
  <2> QED
    BY <2>2 DEF T, Text
<1> QED
  BY <1>1, <1>2, TextsAssumption

LEMMA DeskTypedInit == ASSUME DeskInit PROVE DeskTyped
<1>1. NumbersFit(<<>>)
  BY DEF NumbersFit
<1> QED
  BY <1>1, LettersAreText DEF DeskInit, DeskTyped

LEMMA DeskTypedNext == ASSUME DeskTyped, [DeskNext]_deskVars PROVE DeskTyped'
<1>1. CASE TypeRule
  <2>1. PICK p \in Pieces : NumbersFit(rule \o p) /\ rule' = rule \o p
    BY <1>1 DEF TypeRule
  <2>2. p \in Seq(Char) /\ rule \in Seq(Char)
    BY TypedIsText DEF DeskTyped, Text
  <2>3. rule \o p \in Seq(Char)
    BY <2>2
  <2>4. rule' \in Text
    BY <2>1, <2>3 DEF Text
  <2>5. NumbersFit(rule')
    BY <2>1
  <2>6. NumbersFit(rule)'
    BY <2>5 DEF NumbersFit
  <2> QED
    BY <1>1, <2>4, <2>6 DEF TypeRule, DeskTyped
<1>2. CASE TypeModel
  <2>1. PICK c \in Letters : model' = Append(model, c)
    BY <1>2 DEF TypeModel
  <2>2. c \in Char /\ model \in Seq(Char)
    BY TypedIsText DEF DeskTyped, Text
  <2>3. model' \in Text
    BY <2>1, <2>2 DEF Text
  <2> QED
    BY <1>2, <2>3 DEF TypeModel, DeskTyped, NumbersFit
<1>3. CASE UNCHANGED deskVars
  BY <1>3 DEF deskVars, DeskTyped, NumbersFit
<1> QED
  BY <1>1, <1>2, <1>3 DEF DeskNext

(***************************************************************************)
(* The desk shows texts only.                                              *)
(***************************************************************************)
LEMMA DeskIsTyped == DeskSpec => []DeskTyped
<1>1. DeskInit => DeskTyped
  BY DeskTypedInit
<1>2. DeskTyped /\ [DeskNext]_deskVars => DeskTyped'
  BY DeskTypedNext
<1> QED
  BY <1>1, <1>2, PTL DEF DeskSpec

(***************************************************************************)
(* The matcher agrees with its reference: it finds a fit whenever there is *)
(* one, although it never tries a failed position again, and captures what *)
(* the nearest fit captures (matchTokens).                                 *)
(***************************************************************************)
LEMMA TypedMatches == ASSUME DeskTyped PROVE MatcherIsReference
<1>1. rule \in Text /\ model \in Text
  BY DEF DeskTyped
<1>2. Pattern \in Seq(Token)
  BY <1>1, FindIsTokens DEF Pattern
<1>3. ASSUME Pattern # <<>>
      PROVE  LET got  == MatchTokens(model, Pattern)
                 fits == Fits(model, Pattern)
             IN  /\ got.ok = (fits # {})
                 /\ (got.ok /\ ~Adjacent(Pattern)) =>
                      got.caps = CapturesOf(model, Pattern, CHOOSE e \in fits : \A f \in fits : Nearer(e, f))
                 /\ got.ok => \E e \in fits : got.caps = CapturesOf(model, Pattern, e)
  BY <1>1, <1>2, <1>3, MatchTokensIsReference
<1> QED
  BY <1>3 DEF MatcherIsReference

THEOREM MatcherAgrees == DeskSpec => []MatcherIsReference
<1>1. DeskTyped => MatcherIsReference
  BY TypedMatches
<1> QED
  BY <1>1, DeskIsTyped, PTL

-----------------------------------------------------------------------------
(***************************************************************************)
(* Sequences whose parts have the same lengths are as long when flat.      *)
(***************************************************************************)
SameLengths(ss, tt) == Len(ss) = Len(tt) /\ \A k \in 1..Len(ss) : Len(ss[k]) = Len(tt[k])

LEMMA SeqParts ==
  ASSUME NEW V, NEW s \in Seq(V)
  PROVE  Len(s) \in Nat /\ \A k \in 1..Len(s) : s[k] \in V
  OBVIOUS

LEMMA LongerBy ==
  ASSUME NEW T, NEW f \in [Nat -> Seq(T)], NEW s \in Seq(T), NEW n \in Nat, f[n+1] = f[n] \o s
  PROVE  f[n] \in Seq(T) /\ Len(f[n+1]) = Len(f[n]) + Len(s)
<1>1. f[n] \in Seq(T)
  OBVIOUS
<1> QED
  BY <1>1

LEMMA FlattenLength ==
  ASSUME NEW T, NEW U, NEW ss \in Seq(Seq(T)), NEW tt \in Seq(Seq(U)), SameLengths(ss, tt)
  PROVE  Len(FlattenSeq(ss)) = Len(FlattenSeq(tt))
<1>1. PICK f \in [Nat -> Seq(T)] : Flattens(f, ss)
  BY FlattenSteps
<1>2. PICK g \in [Nat -> Seq(U)] : Flattens(g, tt)
  BY FlattenSteps
<1>3. Len(ss) \in Nat /\ \A k \in 1..Len(ss) : ss[k] \in Seq(T) /\ tt[k] \in Seq(U)
  <2>1. Len(ss) \in Nat /\ \A k \in 1..Len(ss) : ss[k] \in Seq(T)
    BY SeqParts
  <2>2. \A k \in 1..Len(tt) : tt[k] \in Seq(U)
    BY SeqParts
  <2> QED
    BY <2>1, <2>2 DEF SameLengths
<1> DEFINE S == {n \in Nat : n <= Len(ss) => Len(f[n]) = Len(g[n])}
<1>4. 0 \in S
  BY <1>1, <1>2 DEF Flattens
<1>5. ASSUME NEW n \in Nat, n \in S PROVE n + 1 \in S
  <2>1. SUFFICES ASSUME n + 1 <= Len(ss) PROVE Len(f[n+1]) = Len(g[n+1])
    OBVIOUS
  <2>2. n \in 0..Len(ss)-1 /\ n + 1 \in 1..Len(ss) /\ n <= Len(ss)
    BY <1>3, <2>1
  <2>3. f[n+1] = f[n] \o ss[n+1] /\ g[n+1] = g[n] \o tt[n+1]
    <3>1. f[n+1] = f[n] \o ss[n+1]
      BY <1>1, <2>2 DEF Flattens
    <3>2. n \in 0..Len(tt)-1
      BY <2>2 DEF SameLengths
    <3>3. g[n+1] = g[n] \o tt[n+1]
      BY <1>2, <3>2 DEF Flattens
    <3> QED
      BY <3>1, <3>3
  <2>4. f[n] \in Seq(T) /\ g[n] \in Seq(U) /\ ss[n+1] \in Seq(T) /\ tt[n+1] \in Seq(U) /\ Len(f[n]) = Len(g[n])
        /\ Len(ss[n+1]) = Len(tt[n+1])
    BY <1>3, <1>5, <2>2 DEF SameLengths
  <2>5. Len(f[n+1]) = Len(f[n]) + Len(ss[n+1])
    <3>1. Len(f[n] \o ss[n+1]) = Len(f[n]) + Len(ss[n+1])
      BY <2>4, ConcatProperties
    <3> QED
      BY <2>3, <3>1
  <2>6. Len(g[n+1]) = Len(g[n]) + Len(tt[n+1])
    <3>1. Len(g[n] \o tt[n+1]) = Len(g[n]) + Len(tt[n+1])
      BY <2>4, ConcatProperties
    <3> QED
      BY <2>3, <3>1
  <2> QED
    BY <2>4, <2>5, <2>6
<1>6. Nat \subseteq S
  <2> HIDE DEF S
  <2> QED
    BY <1>4, <1>5, Induction
<1>7. Len(f[Len(ss)]) = Len(g[Len(ss)])
  <2>1. Len(ss) \in S
    BY <1>3, <1>6
  <2> QED
    BY <1>3, <2>1
<1> QED
  BY <1>1, <1>2, <1>7 DEF Flattens, SameLengths

(***************************************************************************)
(* A match has one text for every capture of the pattern.                  *)
(***************************************************************************)
LEMMA OneTextPerCapture ==
  ASSUME NEW s \in Text, NEW find \in Seq(Token), find # <<>>, MatchTokens(s, find).ok
  PROVE  MatchTokens(s, find).caps \in Seq(Text) /\ Len(MatchTokens(s, find).caps) = Captures(find)
<1> DEFINE got == MatchTokens(s, find)
<1>1. \E e \in Fits(s, find) : got.caps = CapturesOf(s, find, e)
  BY MatchTokensIsReference
<1>2. got \in Answers
  BY MatcherFinds
<1> HIDE DEF got
<1>3. PICK e \in Fits(s, find) : got.caps = CapturesOf(s, find, e)
  BY <1>1
<1>4. Len(find) \in Nat /\ DOMAIN find = 1..Len(find) /\ Len(s) \in Nat
  BY DEF Text
<1>5. \A k \in 1..Len(find) : Start(e, k) \in 0..Len(s) /\ e[k] \in Start(e, k)..Len(s)
  <2>1. e \in [1..Len(find) -> 0..Len(s)] /\ \A k \in 1..Len(find) : Start(e, k) <= e[k]
    BY <1>4 DEF Fits
  <2>2. ASSUME NEW k \in 1..Len(find) PROVE Start(e, k) \in 0..Len(s)
    <3>1. CASE k = 1
      BY <1>4, <3>1 DEF Start
    <3>2. CASE k # 1
      <4>1. k - 1 \in 1..Len(find)
        BY <1>4, <3>2
      <4> QED
        BY <2>1, <3>2, <4>1 DEF Start
    <3> QED
      BY <3>1, <3>2
  <2> QED
    BY <1>4, <2>1, <2>2
<1> DEFINE Here(k) == Taken(s, find[k], Start(e, k), e[k])
           Mark(k) == IF IsLit(find[k]) THEN <<>> ELSE <<k>>
           ss == [k \in DOMAIN find |-> Here(k)]
           tt == [k \in DOMAIN find |-> Mark(k)]
<1>6. \A k \in 1..Len(find) : Here(k) \in Seq(Text) /\ Len(Here(k)) = Len(Mark(k)) /\ Mark(k) \in Seq(Nat)
  <2>1. ASSUME NEW k \in 1..Len(find) PROVE Here(k) \in Seq(Text) /\ Len(Here(k)) = Len(Mark(k)) /\ Mark(k) \in Seq(Nat)
    <3>1. Here(k) \in Seq(Text)
      BY <1>5, TakenType
    <3>2. CASE IsLit(find[k])
      <4>1. Here(k) = <<>> /\ Mark(k) = <<>>
        BY <3>2 DEF Taken
      <4> QED
        BY <3>1, <4>1
    <3>3. CASE ~IsLit(find[k])
      <4>1. Here(k) = <<Sub(s, Start(e, k), e[k])>> /\ Mark(k) = <<k>>
        BY <3>3 DEF Taken
      <4> QED
        BY <3>1, <4>1
    <3> QED
      BY <3>2, <3>3
  <2> QED
    BY <2>1
<1> HIDE DEF Here, Mark
<1>7. ss \in Seq(Seq(Text)) /\ tt \in Seq(Seq(Nat)) /\ Len(ss) = Len(find) /\ Len(tt) = Len(find)
      /\ \A k \in 1..Len(find) : ss[k] = Here(k) /\ tt[k] = Mark(k)
  BY <1>4, <1>6
<1> HIDE DEF ss, tt
<1>8. Len(FlattenSeq(ss)) = Len(FlattenSeq(tt))
  <2> DEFINE T == Text
             U == Nat
  <2>1. ss \in Seq(Seq(T)) /\ tt \in Seq(Seq(U)) /\ SameLengths(ss, tt)
    BY <1>6, <1>7 DEF SameLengths
  <2> HIDE DEF T, U
  <2> QED
    BY <2>1, FlattenLength
<1>9. got.caps = FlattenSeq(ss)
  BY <1>3 DEF CapturesOf, ss, Here
<1>10. Captures(find) = Len(FlattenSeq(tt))
  BY DEF Captures, CaptureTokens, tt, Mark
<1> QED
  BY <1>2, <1>8, <1>9, <1>10 DEF Answers, got

(***************************************************************************)
(* Rule entries: what is referred to is captured.                          *)
(***************************************************************************)
Entry(op, find, put) == [op |-> op, find |-> find, put |-> put]
MappingEntries ==
  {r \in [op : {"none"}, find : Seq(Token), put : Seq(Token)] :
     r.find # <<>> /\ r.put \in Seq(Tokens(1..Captures(r.find)))}
CaseEntries == {CaseEntry("lower"), CaseEntry("upper")}
Entries == MappingEntries \union CaseEntries
Names == Text \ {<<>>}

LEMMA ReplacementIsText ==
  ASSUME NEW n \in Nat, NEW put \in Seq(Tokens(1..n)), NEW caps \in Seq(Text), Len(caps) = n
  PROVE  BuildReplacement(put, caps) \in Text
<1> DEFINE Part(k) == IF IsLit(put[k]) THEN put[k].lit ELSE caps[put[k].cap]
           ss == [k \in DOMAIN put |-> Part(k)]
<1>1. \A k \in 1..Len(put) : Part(k) \in Text
  <2>1. ASSUME NEW k \in 1..Len(put) PROVE Part(k) \in Text
    <3>1. put[k] \in Tokens(1..n)
      OBVIOUS
    <3>2. put[k] \in Token /\ (IsLit(put[k]) \/ put[k].cap \in 1..n)
      BY <3>1 DEF Tokens
    <3>3. put[k].lit \in Text
      BY <3>2 DEF Token
    <3>4. ~IsLit(put[k]) => caps[put[k].cap] \in Text
      BY <3>2
    <3> QED
      BY <3>3, <3>4
  <2> QED
    BY <2>1
<1> HIDE DEF Part
<1>2. DOMAIN put = 1..Len(put) /\ Len(put) \in Nat
  OBVIOUS
<1>3. ss \in Seq(Text)
  BY <1>1, <1>2
<1> HIDE DEF ss
<1>4. ss \in Seq(Seq(Char))
  BY <1>3 DEF Text
<1>5. FlattenSeq(ss) \in Seq(Char)
  BY <1>4, FlattenType
<1> QED
  BY <1>5 DEF BuildReplacement, ss, Part, Text

LEMMA CaseKeeps ==
  ASSUME NEW s \in Names, NEW op
  PROVE  ModelCase(s, op) \in Names
<1>1. s \in Seq(Char) /\ Len(s) \in Nat /\ DOMAIN s = 1..Len(s) /\ s # <<>>
  BY DEF Names, Text
<1>2. Len(s) # 0
  BY <1>1
<1> DEFINE c(i) == CASE op = "upper" /\ s[i] \in DOMAIN Upper -> Upper[s[i]]
                     [] op = "lower" /\ \E x \in DOMAIN Upper : Upper[x] = s[i] -> CHOOSE x \in DOMAIN Upper : Upper[x] = s[i]
                     [] OTHER -> s[i]
<1>3. DOMAIN Upper \subseteq Char /\ \A x \in DOMAIN Upper : Upper[x] \in Char
  BY DEF Upper, Char
<1>4. \A i \in 1..Len(s) : c(i) \in Char
  <2>1. ASSUME NEW i \in 1..Len(s) PROVE c(i) \in Char
    <3>1. CASE op = "upper" /\ s[i] \in DOMAIN Upper
      <4>1. c(i) = Upper[s[i]]
        BY <3>1
      <4> QED
        BY <1>3, <3>1, <4>1
    <3>2. CASE op = "lower" /\ \E x \in DOMAIN Upper : Upper[x] = s[i]
      <4>1. c(i) = CHOOSE x \in DOMAIN Upper : Upper[x] = s[i]
        BY <3>2
      <4> HIDE DEF c
      <4> QED
        BY <1>3, <3>2, <4>1
    <3>3. CASE ~(op = "upper" /\ s[i] \in DOMAIN Upper) /\ ~(op = "lower" /\ \E x \in DOMAIN Upper : Upper[x] = s[i])
      <4>1. c(i) = s[i]
        BY <3>3
      <4> HIDE DEF c
      <4> QED
        BY <1>1, <4>1
    <3> QED
      BY <3>1, <3>2, <3>3
  <2> QED
    BY <2>1
<1>5. ModelCase(s, op) = [i \in DOMAIN s |-> c(i)]
  BY DEF ModelCase
<1> HIDE DEF c
<1>6. ModelCase(s, op) \in [1..Len(s) -> Char]
  BY <1>1, <1>4, <1>5
<1>7. ModelCase(s, op) \in Seq(Char) /\ Len(ModelCase(s, op)) = Len(s)
  BY <1>1, <1>6
<1> QED
  BY <1>1, <1>2, <1>7 DEF Names, Text

LEMMA EntryKeeps ==
  ASSUME NEW acc, acc.model \in Names, NEW r \in Entries
  PROVE  ApplyEntry(acc, r).model \in Names
<1>1. CASE r \in CaseEntries
  <2>1. r.op # "none"
    BY <1>1 DEF CaseEntries, CaseEntry
  <2>2. ApplyEntry(acc, r).model = ModelCase(acc.model, r.op)
    BY <2>1 DEF ApplyEntry
  <2> QED
    BY <2>2, CaseKeeps
<1>2. CASE r \in MappingEntries
  <2>1. r.op = "none" /\ r.find \in Seq(Token) /\ r.find # <<>> /\ r.put \in Seq(Tokens(1..Captures(r.find)))
    BY <1>2 DEF MappingEntries
  <2> DEFINE found == MatchTokens(acc.model, r.find)
             next == BuildReplacement(r.put, found.caps)
  <2>2. ApplyEntry(acc, r) = IF found.ok /\ next # <<>> THEN [model |-> next, matched |-> TRUE] ELSE acc
    BY <2>1 DEF ApplyEntry, Rewritten
  <2>3. found.ok => next \in Text
    <3>1. SUFFICES ASSUME found.ok PROVE next \in Text
      OBVIOUS
    <3>2. acc.model \in Text
      BY DEF Names
    <3>3. found.caps \in Seq(Text) /\ Len(found.caps) = Captures(r.find)
      BY <2>1, <3>1, <3>2, OneTextPerCapture
    <3>4. Captures(r.find) \in Nat
      BY <2>1, CapturesIsNat
    <3> HIDE DEF found
    <3> QED
      BY <2>1, <3>3, <3>4, ReplacementIsText
  <2> HIDE DEF found, next
  <2>4. CASE found.ok /\ next # <<>>
    BY <2>2, <2>3, <2>4 DEF Names
  <2>5. CASE ~(found.ok /\ next # <<>>)
    BY <2>2, <2>5
  <2> QED
    BY <2>4, <2>5
<1> QED
  BY <1>1, <1>2 DEF Entries

(***************************************************************************)
(* A pass over the rules ends, and with a name (applyRules).               *)
(***************************************************************************)
LEMMA RulesKeep ==
  ASSUME NEW name \in Names, NEW rules \in Seq(Entries)
  PROVE  ApplyRules(name, rules).model \in Names
<1> DEFINE N == Len(rules)
           V == [model : Names, matched : BOOLEAN]
           v0 == [model |-> name, matched |-> FALSE]
           Eq(f) == f = [n \in 0..N |-> IF n = 0 THEN v0 ELSE ApplyEntry(f[n-1], rules[n])]
           next == [p \in (1..N) \X V |-> ApplyEntry(p[2], rules[p[1]])]
           g == CHOOSE f : Eq(f)
<1>1. N \in Nat /\ \A k \in 1..N : rules[k] \in Entries
  OBVIOUS
<1>2. v0 \in V
  OBVIOUS
<1>3. \A k \in 1..N, x \in V : ApplyEntry(x, rules[k]) \in V
  <2>1. ASSUME NEW k \in 1..N, NEW x \in V PROVE ApplyEntry(x, rules[k]) \in V
    <3>1. x.model \in Names /\ rules[k] \in Entries
      BY <1>1
    <3>2. ApplyEntry(x, rules[k]).model \in Names
      BY <3>1, EntryKeeps
    <3>3. \/ ApplyEntry(x, rules[k]) = x
          \/ \E y : ApplyEntry(x, rules[k]) = [model |-> y, matched |-> TRUE]
      BY DEF ApplyEntry, Rewritten
    <3>4. ASSUME NEW y, ApplyEntry(x, rules[k]) = [model |-> y, matched |-> TRUE]
          PROVE  ApplyEntry(x, rules[k]) \in V
      <4>1. y \in Names
        BY <3>2, <3>4
      <4> QED
        BY <3>4, <4>1
    <3> QED
      BY <3>3, <3>4
  <2> QED
    BY <2>1
<1> HIDE DEF N, V, v0
<1>4. next \in Codings((1..N) \X V, V)
  <2>1. \A p \in (1..N) \X V : ApplyEntry(p[2], rules[p[1]]) \in V
    BY <1>3
  <2> QED
    BY <2>1 DEF Codings
<1>5. \A k \in 1..N, x \in V : next[<<k, x>>] = ApplyEntry(x, rules[k])
  OBVIOUS
<1> HIDE DEF next
<1>6. PICK f \in Codings(0..N, V) : Counts(f, N, v0, next)
  BY <1>1, <1>2, <1>4, CountRecursion
<1>7. f \in [0..N -> V] /\ f[0] = v0 /\ \A n \in 1..N : f[n] = next[<<n, f[n-1]>>]
  BY <1>6 DEF Codings, Counts
<1>8. Eq(f)
  <2>1. \A k \in 0..N : f[k] = IF k = 0 THEN v0 ELSE ApplyEntry(f[k-1], rules[k])
    <3>1. ASSUME NEW k \in 1..N PROVE f[k] = ApplyEntry(f[k-1], rules[k])
      <4>1. k - 1 \in 0..N
        BY <1>1
      <4>2. f[k-1] \in V
        BY <1>7, <4>1
      <4> QED
        BY <1>5, <1>7, <4>2
    <3>2. \A k \in 0..N : k = 0 \/ k \in 1..N
      BY <1>1
    <3> QED
      BY <1>7, <3>1, <3>2
  <2>2. f = [k \in 0..N |-> f[k]]
    BY <1>7
  <2> QED
    BY <2>1, <2>2
<1>9. Eq(g)
  <2> HIDE DEF Eq
  <2> QED
    BY <1>8
<1> HIDE DEF g
<1>10. g[0] = v0 /\ \A k \in 1..N : g[k] = ApplyEntry(g[k-1], rules[k])
  <2>1. 0 \in 0..N /\ \A k \in 1..N : k \in 0..N /\ k # 0
    BY <1>1
  <2> QED
    BY <1>9, <2>1
<1> DEFINE S == {n \in Nat : n <= N => g[n] \in V}
<1>11. Nat \subseteq S
  <2>1. 0 \in S
    BY <1>2, <1>10
  <2>2. ASSUME NEW n \in Nat, n \in S PROVE n + 1 \in S
    <3>1. SUFFICES ASSUME n + 1 <= N PROVE g[n+1] \in V
      OBVIOUS
    <3>2. n + 1 \in 1..N /\ n <= N /\ (n + 1) - 1 = n
      BY <1>1, <3>1
    <3>3. g[n+1] = ApplyEntry(g[n], rules[n+1])
      BY <1>10, <3>2
    <3> QED
      BY <1>3, <2>2, <3>2, <3>3
  <2> HIDE DEF S
  <2> QED
    BY <2>1, <2>2, Induction
<1>12. g[N] \in V
  BY <1>1, <1>11
<1>13. ApplyRules(name, rules) = g[N]
  BY DEF ApplyRules, N, v0, g
<1> QED
  BY <1>12, <1>13 DEF V

(***************************************************************************)
(* The parts of a rule text, and what they parse to.                       *)
(***************************************************************************)
Parts == {p \in Text : NumbersFit(p)}

LEMMA InOrderType ==
  ASSUME NEW n \in Nat, NEW S
  PROVE  InOrder(S, n) \in Seq(1..n)
<1> DEFINE V == 1..n
           At(i) == IF i \in S THEN <<i>> ELSE <<>>
           ss == [i \in 1..n |-> At(i)]
<1>1. \A i \in 1..n : At(i) \in Seq(V)
  <2>1. ASSUME NEW i \in V PROVE <<i>> \in Seq(V) /\ <<>> \in Seq(V)
    <3> HIDE DEF V
    <3> QED
      OBVIOUS
  <2> QED
    BY <2>1
<1> HIDE DEF At, V
<1>2. ss \in Seq(Seq(V))
  BY <1>1
<1> HIDE DEF ss
<1>3. FlattenSeq(ss) \in Seq(V)
  BY <1>2, FlattenType
<1> QED
  BY <1>3 DEF InOrder, ss, At, V

LEMMA PartsAreParts ==
  ASSUME NEW s \in Parts, NEW sep
  PROVE  SplitEscaped(s, sep) \in Seq(Parts)
<1>1. s \in Text /\ NumbersFit(s) /\ Len(s) \in Nat
  BY DEF Parts, Text
<1> DEFINE cuts == {i \in 1..Len(s) : s[i] = sep /\ ~Escaped(s)[i]}
           marks == <<0>> \o InOrder(cuts, Len(s)) \o <<Len(s) + 1>>
           parts == Between(s, marks)
           M == 0..Len(s)+1
<1>2. marks \in Seq(M)
  <2>1. InOrder(cuts, Len(s)) \in Seq(1..Len(s))
    BY <1>1, InOrderType
  <2>2. (1..Len(s)) \subseteq M
    BY <1>1
  <2> DEFINE P == 1..Len(s)
  <2>3. InOrder(cuts, Len(s)) \in Seq(P) /\ P \subseteq M
    BY <2>1, <2>2
  <2> HIDE DEF cuts, P
  <2>4. <<0>> \in Seq(M) /\ <<Len(s) + 1>> \in Seq(M)
    BY <1>1
  <2> HIDE DEF M
  <2>5. InOrder(cuts, Len(s)) \in Seq(M)
    BY <2>3, SeqOfPart
  <2> QED
    BY <2>4, <2>5
<1> HIDE DEF marks
<1>3. Len(marks) \in Nat /\ \A k \in 1..Len(marks) : marks[k] \in 0..Len(s)+1
  BY <1>2
<1>4. ASSUME NEW k \in 1..Len(marks)-1 PROVE SubSeq(s, marks[k] + 1, marks[k+1] - 1) \in Parts
  <2>1. k \in 1..Len(marks) /\ k + 1 \in 1..Len(marks)
    BY <1>3
  <2>2. marks[k] \in 0..Len(s)+1 /\ marks[k+1] \in 0..Len(s)+1
    BY <1>3, <2>1
  <2>3. CASE marks[k] <= Len(s) /\ marks[k+1] >= 1
    <3>1. marks[k] + 1 \in 1..Len(s)+1 /\ marks[k+1] - 1 \in 0..Len(s)
      BY <1>1, <2>2, <2>3
    <3> QED
      BY <1>1, <3>1, SubIsText, PartsFit DEF Parts
  <2>4. CASE ~(marks[k] <= Len(s) /\ marks[k+1] >= 1)
    <3>1. marks[k] + 1 > marks[k+1] - 1 /\ marks[k] + 1 \in Int /\ marks[k+1] - 1 \in Int
      BY <1>1, <2>2, <2>4
    <3> DEFINE a == marks[k] + 1
               b == marks[k+1] - 1
    <3>2. a > b /\ a \in Int /\ b \in Int
      BY <3>1
    <3> HIDE DEF a, b
    <3>3. SubSeq(s, a, b) = <<>>
      BY <1>1, <3>2, SMT DEF Text
    <3>4. <<>> \in Parts
      BY LettersAreText DEF Parts, NumbersFit
    <3> QED
      BY <3>3, <3>4 DEF a, b
  <2> QED
    BY <2>3, <2>4
<1>5. parts \in Seq(Parts)
  <2>1. parts = [k \in 1..Len(marks)-1 |-> SubSeq(s, marks[k] + 1, marks[k+1] - 1)]
    BY DEF Between
  <2>2. Len(marks) >= 1
    <3>1. InOrder(cuts, Len(s)) \in Seq(1..Len(s))
      BY <1>1, InOrderType
    <3> HIDE DEF cuts
    <3>2. Len(marks) = 1 + Len(InOrder(cuts, Len(s))) + 1 /\ Len(InOrder(cuts, Len(s))) \in Nat
      BY <3>1 DEF marks
    <3> QED
      BY <3>2
  <2>3. Len(marks) - 1 \in Nat
    BY <1>3, <2>2
  <2> HIDE DEF parts
  <2> QED
    BY <1>4, <2>1, <2>3
<1>6. SplitEscaped(s, sep) = <<>> \/ SplitEscaped(s, sep) = AllOrNone(parts)
  BY DEF SplitEscaped, marks
<1>7. <<>> \in Seq(Parts)
  OBVIOUS
<1> HIDE DEF parts
<1> QED
  BY <1>5, <1>6, <1>7 DEF AllOrNone

LEMMA SeparatorType ==
  ASSUME NEW s \in Text
  PROVE  RuleSeparator(s) = 0 \/ RuleSeparator(s) \in 1..Len(s)-1
<1> DEFINE at == {i \in 1..Len(s)-1 : ~Escaped(s)[i] /\ s[i] = "=" /\ s[i+1] = ">"}
<1>1. RuleSeparator(s) = IF \E i \in at : at = {i} THEN CHOOSE i \in at : TRUE ELSE 0
  BY DEF RuleSeparator
<1>2. at \subseteq 1..Len(s)-1
  OBVIOUS
<1> HIDE DEF at
<1>3. (\E i \in at : at = {i}) => (CHOOSE i \in at : TRUE) \in at
  OBVIOUS
<1> QED
  BY <1>1, <1>2, <1>3

LEMMA MappingsAreEntries ==
  ASSUME NEW find \in Seq(Token), NEW put \in Seq(Tokens(1..Captures(find)))
  PROVE  MappingOf(find, put) \in Seq(Entries)
<1>1. Tokens(1..Captures(find)) \subseteq Token
  BY DEF Tokens
<1>2. put \in Seq(Token)
  BY <1>1, SeqOfPart
<1>3. find # <<>> => Mapping(find, put) \in Entries
  BY <1>2 DEF Mapping, Entries, MappingEntries
<1>4. find # <<>> => <<Mapping(find, put)>> \in Seq(Entries)
  BY <1>3
<1>5. <<>> \in Seq(Entries)
  OBVIOUS
<1> QED
  BY <1>4, <1>5 DEF MappingOf

LEMMA EntryIsEntries ==
  ASSUME NEW part \in Parts
  PROVE  ParseEntry(part) \in Seq(Entries)
<1>1. part \in Text /\ NumbersFit(part) /\ Len(part) \in Nat
  BY DEF Parts, Text
<1>2. ParseMapping(part, RuleSeparator(part)) \in Seq(Entries)
  <2> DEFINE sep == RuleSeparator(part)
             left == SubSeq(part, 1, sep - 1)
             right == SubSeq(part, sep + 2, Len(part))
             find == ParseSide(left, TRUE, 0)
             put == ParseSide(right, FALSE, Captures(find))
  <2>1. CASE sep = 0
    <3>1. <<>> \in Seq(Entries)
      OBVIOUS
    <3> QED
      BY <2>1, <3>1 DEF ParseMapping
  <2>2. CASE sep # 0
    <3>1. sep \in 1..Len(part)-1
      BY <1>1, <2>2, SeparatorType
    <3> HIDE DEF sep
    <3>2. 1 \in 1..Len(part)+1 /\ sep - 1 \in 0..Len(part) /\ sep + 2 \in 1..Len(part)+1 /\ Len(part) \in 0..Len(part)
      BY <1>1, <3>1
    <3>3. left \in Text
      BY <1>1, <3>2, SubIsText
    <3>4. right \in Text /\ NumbersFit(right)
      BY <1>1, <3>2, SubIsText, PartsFit
    <3> HIDE DEF left, right
    <3>5. find \in Seq(Token)
      BY <3>3, FindIsTokens
    <3>6. Captures(find) \in Nat
      BY <3>5, CapturesIsNat
    <3> HIDE DEF find
    <3>7. put \in Seq(Tokens(1..Captures(find)))
      BY <3>4, <3>6, PutIsTokens
    <3> HIDE DEF put
    <3>8. MappingOf(find, put) \in Seq(Entries)
      BY <3>5, <3>7, MappingsAreEntries
    <3>9. ParseMapping(part, sep) = MappingOf(find, put)
      BY <2>2 DEF ParseMapping, find, put, left, right
    <3> QED
      BY <3>8, <3>9 DEF sep
  <2> QED
    BY <2>1, <2>2
<1>3. <<CaseEntry("lower")>> \in Seq(Entries) /\ <<CaseEntry("upper")>> \in Seq(Entries)
  <2>1. CaseEntry("lower") \in Entries /\ CaseEntry("upper") \in Entries
    BY DEF Entries, CaseEntries
  <2> QED
    BY <2>1
<1>4. \/ ParseEntry(part) = <<CaseEntry("lower")>>
      \/ ParseEntry(part) = <<CaseEntry("upper")>>
      \/ ParseEntry(part) = ParseMapping(part, RuleSeparator(part))
  BY DEF ParseEntry
<1> QED
  BY <1>2, <1>3, <1>4

(***************************************************************************)
(* What parses refers only to what it captures (parseRules).               *)
(***************************************************************************)
LEMMA RulesAreEntries ==
  ASSUME NEW raw \in Parts
  PROVE  ParseRules(raw) \in Seq(Entries)
<1> DEFINE parts == SplitEscaped(raw, ";")
           E == Entries
           ss == [k \in DOMAIN parts |-> ParseEntry(parts[k])]
<1>1. parts \in Seq(Parts)
  BY PartsAreParts
<1> HIDE DEF parts
<1>2. DOMAIN parts = 1..Len(parts) /\ Len(parts) \in Nat /\ \A k \in 1..Len(parts) : parts[k] \in Parts
  BY <1>1
<1>3. \A k \in 1..Len(parts) : ParseEntry(parts[k]) \in Seq(E)
  BY <1>2, EntryIsEntries
<1> HIDE DEF E
<1>4. ss \in Seq(Seq(E))
  BY <1>2, <1>3
<1> HIDE DEF ss
<1>5. <<>> \in Seq(E) /\ <<>> \in Seq(Seq(E))
  OBVIOUS
<1>6. FlattenSeq(AllOrNone(ss)) \in Seq(E)
  <2>1. AllOrNone(ss) \in Seq(Seq(E))
    BY <1>4, <1>5 DEF AllOrNone
  <2> QED
    BY <2>1, FlattenType
<1>7. ParseRules(raw) = <<>> \/ ParseRules(raw) = FlattenSeq(AllOrNone(ss))
  BY DEF ParseRules, parts, ss
<1> QED
  BY <1>5, <1>6, <1>7 DEF E

-----------------------------------------------------------------------------
(***************************************************************************)
(* The live states made of the typed rule.                                 *)
(***************************************************************************)
RuleLists == Seq(Entries) \union {Broken}
RuleSets == [global : RuleLists, claude : RuleLists, codex : RuleLists, openai : RuleLists]

LEMMA SwapIsEntries == SwapRule \in Seq(Entries)
<1> DEFINE t == <<"a", "=", ">", "b">>
<1>1. \A k \in 1..4 : ~IsDigit(t[k])
  <2>1. DOMAIN Digits = 1..10 /\ \A d \in 1..10 : Digits[d] \in {"0", "1", "2", "3", "4", "5", "6", "7", "8", "9"}
    BY DEF Digits
  <2>2. t[1] = "a" /\ t[2] = "=" /\ t[3] = ">" /\ t[4] = "b"
    OBVIOUS
  <2>3. ~IsDigit("a") /\ ~IsDigit("=") /\ ~IsDigit(">") /\ ~IsDigit("b")
    BY <2>1 DEF IsDigit
  <2> HIDE DEF t
  <2>4. \A k \in 1..4 : k = 1 \/ k = 2 \/ k = 3 \/ k = 4
    OBVIOUS
  <2> QED
    BY <2>2, <2>3, <2>4
<1>2. t \in Text
  <2>1. "a" \in Char /\ "=" \in Char /\ ">" \in Char /\ "b" \in Char
    BY DEF Char
  <2> QED
    BY <2>1 DEF Text
<1>3. DOMAIN t = 1..4
  OBVIOUS
<1> HIDE DEF t
<1>4. NumbersFit(t)
  <2>1. SUFFICES ASSUME NEW i \in 1..4, NEW j \in 1..4, \A k \in i..j : IsDigit(t[k])
                 PROVE  2 * Numeral(SubSeq(t, i, j)) < IntSpan
    BY <1>3 DEF NumbersFit
  <2>2. i > j
    <3>1. CASE i <= j
      <4>1. i \in i..j
        BY <3>1
      <4> QED
        BY <1>1, <2>1, <4>1
    <3> QED
      BY <3>1
  <2>3. SubSeq(t, i, j) = <<>>
    BY <1>2, <2>2, SMT DEF Text
  <2>4. <<>> \in Text /\ \A k \in DOMAIN <<>> : IsDigit(<<>>[k])
    BY LettersAreText
  <2>5. Numeral(<<>>) = 0
    BY <2>4, NumeralIsNat
  <2>6. IntSpan \in Nat \ {0}
    BY IntAssumption
  <2> QED
    BY <2>3, <2>5, <2>6
<1>5. ParseRules(t) \in Seq(Entries)
  BY <1>2, <1>4, RulesAreEntries DEF Parts
<1> QED
  BY <1>5 DEF SwapRule, t

LEMMA LiveRulesTyped ==
  ASSUME DeskTyped, NEW s \in LiveStates
  PROVE  /\ s.rules \in RuleSets
         /\ s.bindings = <<>> \/ \E b : s.bindings = <<b>> /\ b.rules \in RuleSets
<1> DEFINE r == Saved(rule, ParseRules(rule))
<1>1. ParseRules(rule) \in Seq(Entries)
  BY RulesAreEntries DEF DeskTyped, Parts
<1>2. r \in RuleLists
  BY <1>1 DEF Saved, RuleLists
<1>3. SwapRule \in RuleLists /\ <<>> \in RuleLists
  BY SwapIsEntries DEF RuleLists
<1> HIDE DEF r
<1>4. LayersOf(r) \subseteq RuleSets
  <2> DEFINE L == RuleLists
  <2>1. r \in L /\ SwapRule \in L /\ <<>> \in L
    BY <1>2, <1>3
  <2> HIDE DEF L
  <2>2. NoRules \in [global : L, claude : L, codex : L, openai : L]
    BY <2>1 DEF NoRules
  <2>3. [NoRules EXCEPT !.global = r] \in [global : L, claude : L, codex : L, openai : L]
    BY <2>1, <2>2
  <2>4. [NoRules EXCEPT !.codex = r, !.global = SwapRule] \in [global : L, claude : L, codex : L, openai : L]
    BY <2>1, <2>2
  <2> QED
    BY <2>2, <2>3, <2>4 DEF LayersOf, RuleSets, L
<1>5. Layers \subseteq RuleSets
  BY <1>4 DEF Layers, r
<1>6. s.rules \in Layers
  BY DEF LiveStates
<1> DEFINE Bound(e, t, l) == [key |-> Client, enabled |-> e, blocked |-> FALSE, rules |-> l,
                              target |-> [enabled |-> t, auths |-> {}], fastAllowed |-> TRUE]
<1>7. \/ s.bindings = <<>>
      \/ \E on \in Switched, l \in Layers : s.bindings = <<Bound(on[1], on[2], l)>>
  BY DEF LiveStates
<1>8. ASSUME NEW e, NEW t, NEW l \in Layers, s.bindings = <<Bound(e, t, l)>>
      PROVE  \E b : s.bindings = <<b>> /\ b.rules \in RuleSets
  <2>1. Bound(e, t, l).rules = l
    OBVIOUS
  <2> HIDE DEF Bound
  <2> QED
    BY <1>5, <1>8, <2>1
<1> QED
  BY <1>5, <1>6, <1>7, <1>8

LEMMA SelectedTyped ==
  ASSUME NEW rs \in RuleSets, NEW format
  PROVE  SelectRules(rs, format) \in RuleLists
<1>1. DOMAIN SegmentOf = {"claude", "codex", "openai"}
  BY DEF SegmentOf
<1>2. \A seg \in {"claude", "codex", "openai"} : rs[seg] \in RuleLists
  BY DEF RuleSets
<1>3. rs.global \in RuleLists
  BY DEF RuleSets
<1> DEFINE own == {seg \in DOMAIN SegmentOf : SegmentOf[seg] = format /\ rs[seg] # <<>>}
<1>4. own \subseteq DOMAIN SegmentOf
  OBVIOUS
<1>5. SelectRules(rs, format) = IF own = {} THEN rs.global ELSE rs[CHOOSE seg \in own : TRUE]
  BY DEF SelectRules
<1> HIDE DEF own
<1>6. own # {} => (CHOOSE seg \in own : TRUE) \in own
  OBVIOUS
<1> QED
  BY <1>1, <1>2, <1>3, <1>4, <1>5, <1>6

LEMMA LayerKeeps ==
  ASSUME NEW rs \in RuleSets, NEW format, NEW name \in Names, ~ApplyRuleSet(rs, format, name).error
  PROVE  ApplyRuleSet(rs, format, name).model \in Names
<1> DEFINE rules == SelectRules(rs, format)
<1>1. rules # Broken
  BY DEF ApplyRuleSet, Applied
<1>2. rules \in Seq(Entries)
  BY <1>1, SelectedTyped DEF RuleLists
<1>3. ApplyRules(name, rules).model \in Names
  BY <1>2, RulesKeep
<1> QED
  BY <1>1, <1>3 DEF ApplyRuleSet, Applied

(***************************************************************************)
(* Whether a layer fails depends on its rules alone.                       *)
(***************************************************************************)
LEMMA LayerFails ==
  ASSUME NEW rs, NEW format, NEW name
  PROVE  ApplyRuleSet(rs, format, name).error = (SelectRules(rs, format) = Broken)
  BY DEF ApplyRuleSet, Applied

Failing(s, format, own) ==
  \/ SelectRules(s.rules, format) = Broken
  \/ own # <<>> /\ SelectRules(own[1].rules, format) = Broken

LEMMA LayersFail ==
  ASSUME NEW s, NEW format, NEW name, NEW key
  PROVE  TwoLayers(s, format, name, key).error = Failing(s, format, EnabledBinding(s.bindings, key))
<1> DEFINE m1 == ApplyRuleSet(s.rules, format, name)
           own == EnabledBinding(s.bindings, key)
           m2 == ApplyRuleSet(own[1].rules, format, m1.model)
<1>1. m1.error = (SelectRules(s.rules, format) = Broken)
  BY LayerFails
<1>2. m2.error = (SelectRules(own[1].rules, format) = Broken)
  BY LayerFails
<1>3. TwoLayers(s, format, name, key) = IF m1.error \/ own = <<>> THEN m1 ELSE m2
  BY DEF TwoLayers, SecondLayer
<1> HIDE DEF m1, own, m2
<1>4. CASE m1.error
  BY <1>1, <1>3, <1>4 DEF Failing, own
<1>5. CASE ~m1.error /\ own = <<>>
  <2>1. TwoLayers(s, format, name, key).error = m1.error
    BY <1>3, <1>5
  <2>2. Failing(s, format, own) = (SelectRules(s.rules, format) = Broken)
    BY <1>5 DEF Failing
  <2> QED
    BY <1>1, <2>1, <2>2 DEF own
<1>6. CASE ~m1.error /\ own # <<>>
  <2>1. TwoLayers(s, format, name, key).error = m2.error
    BY <1>3, <1>6
  <2>2. Failing(s, format, own) = (SelectRules(own[1].rules, format) = Broken)
    BY <1>1, <1>6 DEF Failing
  <2> QED
    BY <1>2, <2>1, <2>2 DEF own
<1> QED
  BY <1>4, <1>5, <1>6

LEMMA LayersKeep ==
  ASSUME DeskTyped, NEW s \in LiveStates, NEW format, NEW name \in Names, NEW key,
         ~TwoLayers(s, format, name, key).error
  PROVE  TwoLayers(s, format, name, key).model \in Names
<1> DEFINE m1 == ApplyRuleSet(s.rules, format, name)
           own == EnabledBinding(s.bindings, key)
           m2 == ApplyRuleSet(own[1].rules, format, m1.model)
<1>1. s.rules \in RuleSets
  BY LiveRulesTyped
<1>2. own # <<>> => own[1].rules \in RuleSets
  <2>1. CASE s.bindings = <<>>
    <3>1. BindingsOf(s.bindings, key) = {}
      BY <2>1 DEF BindingsOf
    <3> QED
      BY <3>1 DEF EnabledBinding, KeyBinding
  <2>2. CASE s.bindings # <<>>
    <3>1. PICK b : s.bindings = <<b>> /\ b.rules \in RuleSets
      BY <2>2, LiveRulesTyped
    <3>2. DOMAIN s.bindings = {1} /\ s.bindings[1] = b
      BY <3>1
    <3> DEFINE of == BindingsOf(s.bindings, key)
               i == CHOOSE j \in of : \A k \in of : j <= k
    <3>3. of = {} \/ of = {1}
      BY <3>2 DEF BindingsOf
    <3>4. KeyBinding(s.bindings, key) = IF of = {} THEN <<>> ELSE <<s.bindings[i]>>
      BY DEF KeyBinding
    <3> HIDE DEF of
    <3>5. of = {1} => i = 1
      <4>1. SUFFICES ASSUME of = {1} PROVE i = 1
        OBVIOUS
      <4>2. \E j \in of : \A k \in of : j <= k
        BY <4>1
      <4>3. i \in of
        BY <4>2
      <4> QED
        BY <4>1, <4>3
    <3> HIDE DEF i
    <3>6. KeyBinding(s.bindings, key) = <<>> \/ KeyBinding(s.bindings, key) = <<b>>
      BY <3>2, <3>3, <3>4, <3>5
    <3>7. own = <<>> \/ own = <<b>>
      BY <3>6 DEF EnabledBinding
    <3> HIDE DEF own
    <3>8. <<b>>[1] = b
      OBVIOUS
    <3> QED
      BY <3>1, <3>7, <3>8
  <2> QED
    BY <2>1, <2>2
<1>3. TwoLayers(s, format, name, key) = IF m1.error \/ own = <<>> THEN m1 ELSE m2
  BY DEF TwoLayers, SecondLayer
<1>4. ~m1.error => m1.model \in Names
  BY <1>1, LayerKeeps
<1>5. (~m1.error /\ own # <<>> /\ ~m2.error) => m2.model \in Names
  BY <1>2, <1>4, LayerKeeps
<1> HIDE DEF m1, own, m2
<1> QED
  BY <1>3, <1>4, <1>5

Fails(on, s, format, key) ==
  on /\ ActiveTarget(s.bindings, key) = <<>> /\ Failing(s, format, EnabledBinding(s.bindings, key))

(***************************************************************************)
(* A decision: whether it fails depends on the rules alone; a name that is *)
(* mapped comes with both names, and neither is empty (routeModel).        *)
(***************************************************************************)
LEMMA RouteParts ==
  ASSUME DeskTyped, NEW on \in BOOLEAN, NEW s \in LiveStates, NEW format, NEW name \in Names, NEW key
  PROVE  LET route == RouteModel(on, s, format, name, key)
         IN  /\ route.error = Fails(on, s, format, key)
             /\ route.error => ~route.handled
             /\ route.handled => route.original = name /\ route.upstream \in Names
<1> DEFINE chain == TwoLayers(s, format, name, key)
           route == RouteModel(on, s, format, name, key)
<1>1. chain.error = Failing(s, format, EnabledBinding(s.bindings, key))
  BY LayersFail
<1>2. ~chain.error => chain.model \in Names
  BY LayersKeep
<1>3. route = IF on /\ ActiveTarget(s.bindings, key) = <<>> THEN Routed(name, chain) ELSE Unhandled
  BY DEF RouteModel
<1>4. Fails(on, s, format, key) \in BOOLEAN
  BY DEF Fails, Failing
<1>5. Failing(s, format, EnabledBinding(s.bindings, key)) \in BOOLEAN
  BY DEF Failing
<1> SUFFICES /\ route.error = Fails(on, s, format, key)
             /\ route.error => ~route.handled
             /\ route.handled => route.original = name /\ route.upstream \in Names
  OBVIOUS
<1> HIDE DEF chain, route
<1>6. CASE ~(on /\ ActiveTarget(s.bindings, key) = <<>>)
  BY <1>3, <1>6 DEF Unhandled, Fails
<1>7. CASE on /\ ActiveTarget(s.bindings, key) = <<>>
  <2>1. Fails(on, s, format, key) = chain.error
    BY <1>1, <1>5, <1>7 DEF Fails
  <2>2. route = Routed(name, chain)
    BY <1>3, <1>7
  <2>3. CASE chain.error
    <3>1. route = RouteError
      BY <2>2, <2>3 DEF Routed
    <3>2. route.error = TRUE /\ route.handled = FALSE
      BY <3>1 DEF RouteError, Unhandled
    <3>3. Fails(on, s, format, key) = TRUE
      BY <1>4, <2>1, <2>3
    <3> QED
      BY <3>2, <3>3
  <2>4. CASE ~chain.error /\ chain.model = name
    <3>1. route = Unhandled
      BY <2>2, <2>4 DEF Routed
    <3>2. Fails(on, s, format, key) = FALSE
      BY <1>4, <2>1, <2>4
    <3> QED
      BY <3>1, <3>2 DEF Unhandled
  <2>5. CASE ~chain.error /\ chain.model # name
    <3>1. route = [handled |-> TRUE, original |-> name, upstream |-> chain.model, error |-> FALSE]
      BY <2>2, <2>5 DEF Routed
    <3>2. Fails(on, s, format, key) = FALSE
      BY <1>4, <2>1, <2>5
    <3>3. chain.model \in Names
      BY <1>2, <2>5
    <3> QED
      BY <3>1, <3>2, <3>3
  <2> QED
    BY <2>3, <2>4, <2>5
<1> QED
  BY <1>6, <1>7

LEMMA QualifiedIsName ==
  ASSUME NEW name \in Names, NEW effort \in Efforts
  PROVE  Qualified(name, effort) \in Names
<1>1. name \in Seq(Char) /\ name # <<>>
  BY DEF Names, Text
<1>2. <<"(", effort, ")">> \in Seq(Char)
  <2>1. effort \in Char /\ "(" \in Char /\ ")" \in Char
    BY DEF Efforts, Char
  <2> QED
    BY <2>1
<1> DEFINE t == <<"(", effort, ")">>
<1> HIDE DEF t
<1>3. t \in Seq(Char)
  BY <1>2 DEF t
<1>4. name \o t \in Seq(Char) /\ Len(name \o t) = Len(name) + Len(t)
  BY <1>1, <1>3
<1>5. Len(name) # 0 /\ Len(name) \in Nat /\ Len(t) \in Nat
  BY <1>1, <1>3
<1>6. name \o t # <<>>
  BY <1>4, <1>5
<1> QED
  BY <1>4, <1>6 DEF Qualified, Names, Text, t

LEMMA TypedEfforts == ASSUME DeskTyped PROVE EffortKeepsMappings
<1> DEFINE F == "openai-response"
           Bare(s) == RouteModel(TRUE, s, F, model, Client)
           Long(s, effort) == RouteModel(TRUE, s, F, Qualified(model, effort), Client)
           Full(s, effort) == RouteForRequest(TRUE, s, F, model, Client, effort)
<1>0. \A s : RouteForRequest(TRUE, s, F, model, Client, "none") = Bare(s)
  BY NoEffort
<1>1. SUFFICES ASSUME model # <<>>, NEW s \in LiveStates, NEW effort \in Efforts
               PROVE  /\ Full(s, effort).error = Bare(s).error
                      /\ Bare(s).handled => Full(s, effort).handled
                      /\ Full(s, effort).handled => Full(s, effort).original = model /\ Full(s, effort).upstream # <<>>
  BY <1>0 DEF EffortKeepsMappings, Kept
<1>2. model \in Names
  BY <1>1 DEF DeskTyped, Names
<1> DEFINE bare == Bare(s)
           long == Long(s, effort)
           full == Full(s, effort)
           e == CodexEffort(F, model, effort)
<1>3. /\ bare.error = Fails(TRUE, s, F, Client)
      /\ bare.error => ~bare.handled
      /\ bare.handled => bare.original = model /\ bare.upstream \in Names
  BY <1>2, RouteParts
<1>4. /\ long.error = Fails(TRUE, s, F, Client)
      /\ long.error => ~long.handled
      /\ long.handled => long.upstream \in Names
  <2>1. Qualified(model, effort) \in Names
    BY <1>2, QualifiedIsName
  <2> QED
    BY <2>1, RouteParts
<1>5. e = "none" \/ e = effort
  BY DEF CodexEffort
<1>6. e = "none" => full = bare
  BY DEF RouteForRequest, LongFirst
<1>7. (e # "none" /\ e = effort) => full = LongFirst(model, e, long, bare)
  BY DEF RouteForRequest
<1> SUFFICES /\ full.error = bare.error
             /\ bare.handled => full.handled
             /\ full.handled => full.original = model /\ full.upstream # <<>>
  OBVIOUS
<1>8. \A x \in Names : x # <<>>
  BY DEF Names
<1>9. long \in [handled : BOOLEAN, original : {long.original}, upstream : {long.upstream}, error : BOOLEAN]
  BY DEF RouteModel, Routed, Unhandled, RouteError
<1> HIDE DEF bare, long, full, e
<1>10. CASE e = "none"
  BY <1>3, <1>6, <1>8, <1>10
<1>11. CASE e # "none" /\ long.error
  <2>1. full = long
    BY <1>4, <1>5, <1>7, <1>11 DEF LongFirst
  <2> QED
    BY <1>3, <1>4, <1>11, <2>1
<1>12. CASE e # "none" /\ ~long.error /\ long.handled
  <2>1. full = [long EXCEPT !.original = model]
    BY <1>5, <1>7, <1>12 DEF LongFirst
  <2>2. full.error = long.error /\ full.handled = long.handled /\ full.upstream = long.upstream /\ full.original = model
    BY <1>9, <2>1
  <2> QED
    BY <1>3, <1>4, <1>8, <1>12, <2>2
<1>13. CASE e # "none" /\ ~long.error /\ ~long.handled
  <2>1. full = bare
    BY <1>5, <1>7, <1>13 DEF LongFirst
  <2> QED
    BY <1>3, <1>8, <2>1
<1> QED
  BY <1>10, <1>11, <1>12, <1>13

(***************************************************************************)
(* A request with an effort is mapped wherever the same request without    *)
(* one is, and the client's name comes back.                               *)
(***************************************************************************)
THEOREM EffortsAreKept == DeskSpec => []EffortKeepsMappings
<1>1. DeskTyped => EffortKeepsMappings
  BY TypedEfforts
<1> QED
  BY <1>1, DeskIsTyped, PTL

-----------------------------------------------------------------------------
(***************************************************************************)
(* Which characters of a text are escaped, one after the other.            *)
(***************************************************************************)
EscapedOn(s) ==
  \A i \in 1..Len(s) : Escaped(s)[i] <=> (i >= 2 /\ s[i-1] = "\\" /\ ~Escaped(s)[i-1])

LEMMA EscapedRuns ==
  ASSUME NEW s \in Text
  PROVE  /\ ~Escaped(s)[0]
         /\ \A i \in 0..Len(s) : Escaped(s)[i] \in BOOLEAN
         /\ EscapedOn(s)
<1> DEFINE N == Len(s)
           Eq(f) == f = [i \in 0..N |-> IF i < 2 THEN FALSE ELSE s[i-1] = "\\" /\ ~f[i-1]]
           next == [p \in (1..N) \X BOOLEAN |-> IF p[1] < 2 THEN FALSE ELSE s[p[1]-1] = "\\" /\ ~p[2]]
           g == CHOOSE f : Eq(f)
<1>1. N \in Nat
  BY DEF Text
<1> HIDE DEF N
<1>2. next \in Codings((1..N) \X BOOLEAN, BOOLEAN)
  BY DEF Codings
<1>3. \A k \in 1..N, x \in BOOLEAN : next[<<k, x>>] = IF k < 2 THEN FALSE ELSE s[k-1] = "\\" /\ ~x
  OBVIOUS
<1> HIDE DEF next
<1>4. PICK f \in Codings(0..N, BOOLEAN) : Counts(f, N, FALSE, next)
  <2> DEFINE V == BOOLEAN
             v0 == FALSE
  <2>1. v0 \in V /\ next \in Codings((1..N) \X V, V)
    BY <1>2
  <2> HIDE DEF V, v0
  <2>2. \E f \in Codings(0..N, V) : Counts(f, N, v0, next)
    BY <1>1, <2>1, CountRecursion
  <2> QED
    BY <2>2 DEF V, v0
<1>5. f \in [0..N -> BOOLEAN] /\ f[0] = FALSE /\ \A n \in 1..N : f[n] = next[<<n, f[n-1]>>]
  BY <1>4 DEF Codings, Counts
<1>6. Eq(f)
  <2>1. \A k \in 0..N : f[k] = IF k < 2 THEN FALSE ELSE s[k-1] = "\\" /\ ~f[k-1]
    <3>1. ASSUME NEW k \in 1..N PROVE f[k] = IF k < 2 THEN FALSE ELSE s[k-1] = "\\" /\ ~f[k-1]
      <4>1. k - 1 \in 0..N
        BY <1>1
      <4>2. f[k-1] \in BOOLEAN
        BY <1>5, <4>1
      <4> QED
        BY <1>3, <1>5, <4>2
    <3>2. \A k \in 0..N : k = 0 \/ k \in 1..N
      BY <1>1
    <3>3. f[0] = IF 0 < 2 THEN FALSE ELSE s[0-1] = "\\" /\ ~f[0-1]
      <4>1. 0 < 2
        OBVIOUS
      <4>2. f[0] = FALSE
        BY <1>5
      <4> QED
        BY <4>1, <4>2, Zenon
    <3> QED
      BY <3>1, <3>2, <3>3
  <2>2. f = [k \in 0..N |-> f[k]]
    BY <1>5
  <2> QED
    BY <2>1, <2>2
<1>7. Eq(g)
  <2> HIDE DEF Eq
  <2> QED
    BY <1>6
<1>8. g = Escaped(s)
  BY DEF Escaped, N
<1> HIDE DEF g
<1>9. g[0] = FALSE /\ \A k \in 1..N : g[k] \in BOOLEAN /\ (g[k] <=> (k >= 2 /\ s[k-1] = "\\" /\ ~g[k-1]))
  <2>1. 0 \in 0..N /\ \A k \in 1..N : k \in 0..N
    BY <1>1
  <2>2. g[0] = FALSE
    BY <1>7, <2>1
  <2>3. ASSUME NEW k \in 1..N PROVE g[k] \in BOOLEAN /\ (g[k] <=> (k >= 2 /\ s[k-1] = "\\" /\ ~g[k-1]))
    <3>1. g[k] = IF k < 2 THEN FALSE ELSE s[k-1] = "\\" /\ ~g[k-1]
      BY <1>7, <2>1
    <3>2. CASE k < 2
      <4>1. g[k] = FALSE
        BY <3>1, <3>2
      <4>2. ~(k >= 2)
        BY <1>1, <3>2
      <4> QED
        BY <4>1, <4>2
    <3>3. CASE ~(k < 2)
      <4>1. g[k] = (s[k-1] = "\\" /\ ~g[k-1])
        BY <3>1, <3>3
      <4>2. k >= 2
        BY <1>1, <3>3
      <4> QED
        BY <4>1, <4>2
    <3> QED
      BY <3>2, <3>3
  <2> QED
    BY <2>2, <2>3
<1>10. \A k \in 0..N : g[k] \in BOOLEAN
  <2>1. \A k \in 0..N : k = 0 \/ k \in 1..N
    BY <1>1
  <2> QED
    BY <1>9, <2>1
<1> QED
  BY <1>8, <1>9, <1>10 DEF EscapedOn, N

(***************************************************************************)
(* A quoted text: where each character of the text stands in it.           *)
(***************************************************************************)
Special(s, i) ==
  s[i] \in {"*", ";", "$", "\\"} \/ (s[i] = "=" /\ i < Len(s) /\ s[i+1] = ">")

Spelled(s, i) == IF Special(s, i) THEN <<"\\", s[i]>> ELSE <<s[i]>>

Stands(q, s, P, i) ==
  IF Special(s, i)
  THEN P[i] = P[i-1] + 2 /\ q[P[i-1] + 1] = "\\" /\ q[P[i-1] + 2] = s[i]
  ELSE P[i] = P[i-1] + 1 /\ q[P[i-1] + 1] = s[i]

Spells(q, s, P) ==
  /\ q \in Text /\ P \in [0..Len(s) -> Nat]
  /\ P[0] = 0 /\ P[Len(s)] = Len(q)
  /\ \A i \in 1..Len(s) : Stands(q, s, P, i)

LEMMA SpelledType ==
  ASSUME NEW s \in Text, NEW i \in 1..Len(s)
  PROVE  /\ Spelled(s, i) \in Text
         /\ Special(s, i) => Len(Spelled(s, i)) = 2 /\ Spelled(s, i)[1] = "\\" /\ Spelled(s, i)[2] = s[i]
         /\ ~Special(s, i) => Len(Spelled(s, i)) = 1 /\ Spelled(s, i)[1] = s[i]
<1>1. s[i] \in Char /\ "\\" \in Char
  BY DEF Text, Char
<1>2. <<s[i]>> \in Seq(Char) /\ <<"\\", s[i]>> \in Seq(Char)
  BY <1>1
<1> QED
  BY <1>2 DEF Spelled, Text

LEMMA LaterStands ==
  ASSUME NEW s \in Text, NEW i \in 1..Len(s), NEW P \in [0..Len(s) -> Nat], NEW q \in Text, NEW t \in Text,
         Stands(q, s, P, i), P[i] <= Len(q)
  PROVE  Stands(q \o t, s, P, i)
<1>1. Len(s) \in Nat /\ i - 1 \in 0..Len(s) /\ i \in 0..Len(s)
  BY DEF Text
<1>2. P[i-1] \in Nat /\ P[i] \in Nat
  BY <1>1
<1>3. \A k \in 1..Len(q) : (q \o t)[k] = q[k]
  BY DEF Text
<1>4. CASE Special(s, i)
  <2>1. P[i] = P[i-1] + 2 /\ q[P[i-1] + 1] = "\\" /\ q[P[i-1] + 2] = s[i]
    BY <1>4 DEF Stands
  <2>2. P[i-1] + 1 \in 1..Len(q) /\ P[i-1] + 2 \in 1..Len(q)
    BY <1>2, <2>1 DEF Text
  <2> QED
    BY <1>3, <1>4, <2>1, <2>2 DEF Stands
<1>5. CASE ~Special(s, i)
  <2>1. P[i] = P[i-1] + 1 /\ q[P[i-1] + 1] = s[i]
    BY <1>5 DEF Stands
  <2>2. P[i-1] + 1 \in 1..Len(q)
    BY <1>2, <2>1 DEF Text
  <2> QED
    BY <1>3, <1>5, <2>1, <2>2 DEF Stands
<1> QED
  BY <1>4, <1>5

LEMMA LastStands ==
  ASSUME NEW s \in Text, NEW i \in 1..Len(s), NEW P \in [0..Len(s) -> Nat], NEW q \in Text,
         P[i-1] = Len(q), P[i] = Len(q \o Spelled(s, i))
  PROVE  Stands(q \o Spelled(s, i), s, P, i)
<1> DEFINE t == Spelled(s, i)
<1>1. /\ t \in Text
      /\ Special(s, i) => Len(t) = 2 /\ t[1] = "\\" /\ t[2] = s[i]
      /\ ~Special(s, i) => Len(t) = 1 /\ t[1] = s[i]
  BY SpelledType
<1> HIDE DEF t
<1>2. Len(q \o t) = Len(q) + Len(t) /\ Len(q) \in Nat /\ \A k \in 1..Len(t) : (q \o t)[Len(q) + k] = t[k]
  BY <1>1 DEF Text
<1>3. CASE Special(s, i)
  <2>1. 1 \in 1..Len(t) /\ 2 \in 1..Len(t)
    BY <1>1, <1>3
  <2>2. (q \o t)[Len(q) + 1] = t[1] /\ (q \o t)[Len(q) + 2] = t[2]
    BY <1>2, <2>1
  <2> QED
    BY <1>1, <1>2, <1>3, <2>2 DEF Stands, t
<1>4. CASE ~Special(s, i)
  <2>1. 1 \in 1..Len(t)
    <3>1. Len(t) = 1
      BY <1>1, <1>4, Zenon
    <3> QED
      BY <3>1
  <2>2. (q \o t)[Len(q) + 1] = t[1]
    BY <1>2, <2>1
  <2> QED
    BY <1>1, <1>2, <1>4, <2>2 DEF Stands, t
<1> QED
  BY <1>3, <1>4

LEMMA QuoteSpells ==
  ASSUME NEW s \in Text
  PROVE  \E P : Spells(Quote(s), s, P)
<1> DEFINE n == Len(s)
           ss == [i \in DOMAIN s |-> Spelled(s, i)]
<1>1. n \in Nat /\ DOMAIN s = 1..n
  BY DEF Text
<1>2. \A i \in 1..n : Spelled(s, i) \in Seq(Char)
  BY SpelledType DEF Text
<1>3. ss \in Seq(Seq(Char)) /\ Len(ss) = n /\ \A i \in 1..n : ss[i] = Spelled(s, i)
  BY <1>1, <1>2
<1>4. Quote(s) = FlattenSeq(ss)
  BY DEF Quote, ss, Spelled, Special
<1> HIDE DEF ss, n
<1>5. PICK f \in [Nat -> Seq(Char)] : Flattens(f, ss)
  BY <1>3, FlattenSteps
<1> DEFINE P == [i \in 0..n |-> Len(f[i])]
<1>6. P \in [0..n -> Nat] /\ \A i \in 0..n : P[i] = Len(f[i]) /\ f[i] \in Text
  BY <1>1 DEF Text
<1> HIDE DEF P
<1>7. f[0] = <<>> /\ (\A i \in 0..n-1 : f[i+1] = f[i] \o Spelled(s, i+1)) /\ FlattenSeq(ss) = f[n]
  <2>1. f[0] = <<>> /\ (\A i \in 0..n-1 : f[i+1] = f[i] \o ss[i+1]) /\ FlattenSeq(ss) = f[n]
    BY <1>3, <1>5 DEF Flattens
  <2>2. \A i \in 0..n-1 : i + 1 \in 1..n
    BY <1>1
  <2> QED
    BY <1>3, <2>1, <2>2
<1> DEFINE S == {j \in Nat : j <= n => \A i \in 1..j : Stands(f[j], s, P, i) /\ P[i] <= Len(f[j])}
<1>8. 0 \in S
  OBVIOUS
<1>9. ASSUME NEW j \in Nat, j \in S PROVE j + 1 \in S
  <2>1. SUFFICES ASSUME j + 1 <= n, NEW i \in 1..j+1
                 PROVE  Stands(f[j+1], s, P, i) /\ P[i] <= Len(f[j+1])
    OBVIOUS
  <2>2. j \in 0..n /\ j + 1 \in 0..n /\ j \in 0..n-1 /\ j + 1 \in 1..n /\ (j + 1) - 1 = j
    BY <1>1, <2>1
  <2>3. f[j] \in Text /\ f[j+1] \in Text /\ f[j+1] = f[j] \o Spelled(s, j+1) /\ P[j] = Len(f[j]) /\ P[j+1] = Len(f[j+1])
    BY <1>6, <1>7, <2>2
  <2>4. Spelled(s, j+1) \in Text
    BY <2>2, SpelledType DEF n
  <2>5. Len(f[j]) <= Len(f[j+1]) /\ Len(f[j]) \in Nat /\ Len(f[j+1]) \in Nat
    <3> DEFINE u == Len(f[j])
               v == Len(f[j+1])
               w == Len(Spelled(s, j+1))
    <3>1. v = u + w
      BY <2>3, <2>4, LongerBy DEF Text
    <3>2. u \in Nat /\ w \in Nat
      <4>1. \A t \in Text : Len(t) \in Nat
        BY DEF Text
      <4> QED
        BY <2>3, <2>4, <4>1
    <3> HIDE DEF u, v, w
    <3>3. u <= v /\ v \in Nat
      BY <3>1, <3>2
    <3> QED
      BY <3>2, <3>3 DEF u, v
  <2>6. CASE i = j + 1
    <3>1. Stands(f[j] \o Spelled(s, j+1), s, P, j+1)
      BY <1>6, <2>2, <2>3, LastStands DEF n
    <3> QED
      BY <2>3, <2>5, <2>6, <3>1
  <2>7. CASE i # j + 1
    <3>1. i \in 1..j /\ i \in 1..n
      BY <1>1, <2>1, <2>7
    <3>2. Stands(f[j], s, P, i) /\ P[i] <= Len(f[j])
      BY <1>9, <2>2, <3>1
    <3>3. Stands(f[j] \o Spelled(s, j+1), s, P, i)
      BY <1>6, <2>3, <2>4, <3>1, <3>2, LaterStands DEF n
    <3>4. P[i] \in Nat
      BY <1>1, <1>6, <3>1
    <3>5. Stands(f[j+1], s, P, i)
      BY <2>3, <3>3
    <3>6. P[i] <= Len(f[j+1])
      <4> DEFINE u == Len(f[j])
                 v == Len(f[j+1])
                 p == P[i]
      <4>1. p \in Nat /\ u \in Nat /\ v \in Nat /\ p <= u /\ u <= v
        BY <2>5, <3>2, <3>4
      <4> HIDE DEF p, u, v
      <4>2. p <= v
        BY <4>1
      <4> QED
        BY <4>2 DEF p, v
    <3> QED
      BY <3>5, <3>6
  <2> QED
    BY <2>6, <2>7
<1>10. Nat \subseteq S
  <2> HIDE DEF S
  <2> QED
    BY <1>8, <1>9, Induction
<1>11. n \in S
  BY <1>1, <1>10
<1>12. \A i \in 1..n : Stands(f[n], s, P, i)
  BY <1>1, <1>11
<1>13. P[0] = 0 /\ P[n] = Len(f[n]) /\ f[n] \in Text
  BY <1>1, <1>6, <1>7
<1>14. Spells(Quote(s), s, P)
  BY <1>4, <1>6, <1>7, <1>12, <1>13 DEF Spells, n
<1> QED
  BY <1>14

(***************************************************************************)
(* The places are in order, and between them they take every character of  *)
(* the quoted text.                                                        *)
(***************************************************************************)
LEMMA PlacesClimb ==
  ASSUME NEW s \in Text, NEW q, NEW P, Spells(q, s, P)
  PROVE  \A i \in 1..Len(s) : /\ P[i-1] \in Nat /\ P[i] \in Nat /\ P[i] <= Len(q)
                              /\ P[i] = IF Special(s, i) THEN P[i-1] + 2 ELSE P[i-1] + 1
<1> DEFINE n == Len(s)
<1>1. n \in Nat /\ P \in [0..n -> Nat] /\ P[n] = Len(q)
  BY DEF Spells, Text
<1>2. \A i \in 1..n : Stands(q, s, P, i)
  BY DEF Spells
<1> HIDE DEF n
<1>3. \A i \in 1..n : P[i-1] \in Nat /\ P[i] \in Nat
  BY <1>1
<1>4. \A i \in 1..n : P[i] = IF Special(s, i) THEN P[i-1] + 2 ELSE P[i-1] + 1
  BY <1>2 DEF Stands
<1> DEFINE S == {j \in Nat : j <= n => P[n-j] <= P[n]}
<1>5. 0 \in S
  BY <1>1
<1>6. ASSUME NEW j \in Nat, j \in S PROVE j + 1 \in S
  <2>1. SUFFICES ASSUME j + 1 <= n PROVE P[n-(j+1)] <= P[n]
    OBVIOUS
  <2> DEFINE i == n - j
             a == P[i-1]
             b == P[i]
             c == P[n]
  <2>2. i \in 1..n /\ i - 1 = n - (j + 1) /\ j <= n
    BY <1>1, <2>1
  <2>3. a \in Nat /\ b \in Nat /\ c \in Nat
    BY <1>1, <1>3, <2>2
  <2>4. b = a + 2 \/ b = a + 1
    BY <1>4, <2>2
  <2>5. b <= c
    BY <1>6, <2>2
  <2> HIDE DEF a, b, c
  <2>6. a <= c
    BY <2>3, <2>4, <2>5
  <2> QED
    BY <2>2, <2>6 DEF a, c
<1>7. Nat \subseteq S
  <2> HIDE DEF S
  <2> QED
    BY <1>5, <1>6, Induction
<1>8. \A i \in 1..n : P[i] <= P[n]
  <2>1. ASSUME NEW i \in 1..n PROVE P[i] <= P[n]
    <3>1. n - i \in Nat /\ n - i <= n /\ n - (n - i) = i
      BY <1>1
    <3>2. n - i \in S
      BY <1>7, <3>1
    <3> QED
      BY <3>1, <3>2
  <2> QED
    BY <2>1
<1> QED
  BY <1>1, <1>3, <1>4, <1>8 DEF n

At(s, P, k, i) == k = P[i-1] + 1 \/ (Special(s, i) /\ k = P[i-1] + 2)

LEMMA PlacesCover ==
  ASSUME NEW s \in Text, NEW q, NEW P, Spells(q, s, P), NEW k \in 1..Len(q)
  PROVE  \E i \in 1..Len(s) : At(s, P, k, i)
<1> DEFINE n == Len(s)
<1>1. n \in Nat /\ P[n] = Len(q) /\ P[0] = 0
  BY DEF Spells, Text
<1>2. \A i \in 1..n : P[i-1] \in Nat /\ P[i] \in Nat /\ P[i] = IF Special(s, i) THEN P[i-1] + 2 ELSE P[i-1] + 1
  BY PlacesClimb
<1> HIDE DEF n
<1> DEFINE S == {j \in Nat : (j <= n /\ k <= P[j]) => \E i \in 1..n : At(s, P, k, i)}
<1>3. 0 \in S
  BY <1>1
<1>4. ASSUME NEW j \in Nat, j \in S PROVE j + 1 \in S
  <2>1. SUFFICES ASSUME j + 1 <= n, k <= P[j+1] PROVE \E i \in 1..n : At(s, P, k, i)
    OBVIOUS
  <2>2. j + 1 \in 1..n /\ (j + 1) - 1 = j /\ j <= n
    BY <1>1, <2>1
  <2>3. CASE k <= P[j]
    BY <1>4, <2>2, <2>3
  <2>4. CASE ~(k <= P[j])
    <3> DEFINE a == P[j]
               b == P[j+1]
    <3>1. a \in Nat /\ b \in Nat /\ b = IF Special(s, j+1) THEN a + 2 ELSE a + 1
      BY <1>2, <2>2
    <3>2. k > a /\ k <= b
      BY <2>1, <2>4, <3>1
    <3> HIDE DEF a, b
    <3>3. k = a + 1 \/ (Special(s, j+1) /\ k = a + 2)
      BY <3>1, <3>2
    <3>4. At(s, P, k, j+1)
      BY <2>2, <3>3 DEF At, a
    <3> QED
      BY <2>2, <3>4
  <2> QED
    BY <2>3, <2>4
<1>5. Nat \subseteq S
  <2> HIDE DEF S
  <2> QED
    BY <1>3, <1>4, Induction
<1>6. n \in S
  BY <1>1, <1>5
<1> QED
  BY <1>1, <1>6 DEF n

(***************************************************************************)
(* In a longer text too a place is not escaped, and what stands behind the *)
(* backslash of a special character is.                                    *)
(***************************************************************************)
Within(w, q, o) ==
  o \in Nat /\ o + Len(q) <= Len(w) /\ \A k \in 1..Len(q) : w[o+k] = q[k]

LEMMA NotEscapedOn ==
  ASSUME NEW s \in Text, NEW q, NEW P, Spells(q, s, P), NEW w \in Text, NEW o, Within(w, q, o),
         NEW i \in 1..Len(s), ~Escaped(w)[o + P[i-1] + 1]
  PROVE  /\ Special(s, i) => Escaped(w)[o + P[i-1] + 2]
         /\ o + P[i] + 1 <= Len(w) => ~Escaped(w)[o + P[i] + 1]
<1> DEFINE a == P[i-1]
           b == P[i]
           E == Escaped(w)
           c == o + a + 1
<1>1. Len(q) \in Nat /\ Len(w) \in Nat /\ o \in Nat /\ o + Len(q) <= Len(w) /\ \A k \in 1..Len(q) : w[o+k] = q[k]
  BY DEF Spells, Within, Text
<1>2. a \in Nat /\ b \in Nat /\ b <= Len(q) /\ b = IF Special(s, i) THEN a + 2 ELSE a + 1
  BY PlacesClimb
<1>3. IF Special(s, i) THEN q[a + 1] = "\\" /\ q[a + 2] = s[i] ELSE q[a + 1] = s[i]
  BY DEF Spells, Stands
<1>4. ~E[c]
  OBVIOUS
<1>5. \A k \in 1..Len(w) : E[k] <=> (k >= 2 /\ w[k-1] = "\\" /\ ~E[k-1])
  BY EscapedRuns DEF EscapedOn
<1> SUFFICES (Special(s, i) => E[o + a + 2]) /\ (o + b + 1 <= Len(w) => ~E[o + b + 1])
  OBVIOUS
<1> HIDE DEF a, b, E
<1>6. CASE Special(s, i)
  <2>1. b = a + 2 /\ q[a+1] = "\\"
    BY <1>2, <1>3, <1>6
  <2>2. a + 1 \in 1..Len(q) /\ c \in 1..Len(w) /\ c + 1 \in 1..Len(w) /\ c + 1 >= 2 /\ (c + 1) - 1 = c
        /\ o + (a + 1) = c /\ c + 1 = o + a + 2
    BY <1>1, <1>2, <2>1
  <2>3. w[c] = "\\"
    BY <1>1, <2>1, <2>2
  <2>4. E[c + 1]
    BY <1>4, <1>5, <2>2, <2>3
  <2>5. ASSUME c + 2 <= Len(w) PROVE ~E[c + 2]
    <3>1. c + 2 \in 1..Len(w) /\ c + 2 >= 2 /\ (c + 2) - 1 = c + 1
      <4> DEFINE l == Len(w)
      <4>1. c \in 1..l /\ l \in Nat /\ c + 2 <= l
        BY <1>1, <2>2, <2>5
      <4> HIDE DEF c, l
      <4>2. c + 2 \in 1..l /\ c + 2 >= 2 /\ (c + 2) - 1 = c + 1
        BY <4>1
      <4> QED
        BY <4>2 DEF l
    <3> HIDE DEF c
    <3> QED
      BY <1>5, <2>4, <3>1
  <2>6. o + b + 1 = c + 2
    BY <1>1, <1>2, <2>1
  <2> QED
    BY <2>2, <2>4, <2>5, <2>6
<1>7. CASE ~Special(s, i)
  <2>1. b = a + 1 /\ q[a+1] = s[i]
    BY <1>2, <1>3, <1>7
  <2>2. a + 1 \in 1..Len(q) /\ c \in 1..Len(w) /\ o + (a + 1) = c /\ o + b + 1 = c + 1
    BY <1>1, <1>2, <2>1
  <2>3. w[c] = s[i]
    BY <1>1, <2>1, <2>2
  <2>4. s[i] # "\\"
    BY <1>7 DEF Special
  <2>5. ASSUME c + 1 <= Len(w) PROVE ~E[c + 1]
    <3>1. c + 1 \in 1..Len(w) /\ (c + 1) - 1 = c
      BY <1>1, <2>2, <2>5
    <3> QED
      BY <1>5, <2>3, <2>4, <3>1
  <2> QED
    BY <1>7, <2>2, <2>5
<1> QED
  BY <1>6, <1>7

LEMMA PlacesEscaped ==
  ASSUME NEW s \in Text, NEW q, NEW P, Spells(q, s, P), NEW w \in Text, NEW o, Within(w, q, o),
         o + 1 <= Len(w) => ~Escaped(w)[o + 1]
  PROVE  /\ \A i \in 1..Len(s) : /\ ~Escaped(w)[o + P[i-1] + 1]
                                 /\ Special(s, i) => Escaped(w)[o + P[i-1] + 2]
         /\ o + Len(q) + 1 <= Len(w) => ~Escaped(w)[o + Len(q) + 1]
<1> DEFINE n == Len(s)
           E == Escaped(w)
           Open(j) == o + P[j] + 1 <= Len(w) => ~E[o + P[j] + 1]
           S == {j \in Nat : j <= n => Open(j)}
<1>1. n \in Nat /\ P[0] = 0 /\ P[n] = Len(q) /\ o \in Nat /\ o + Len(q) <= Len(w) /\ Len(q) \in Nat /\ Len(w) \in Nat
  BY DEF Spells, Within, Text
<1>2. \A i \in 1..n : P[i-1] \in Nat /\ P[i] \in Nat /\ P[i] <= Len(q) /\ P[i-1] + 1 <= P[i]
  <2>1. ASSUME NEW i \in 1..n PROVE P[i-1] \in Nat /\ P[i] \in Nat /\ P[i] <= Len(q) /\ P[i-1] + 1 <= P[i]
    <3>1. P[i-1] \in Nat /\ P[i] \in Nat /\ P[i] <= Len(q) /\ P[i] = IF Special(s, i) THEN P[i-1] + 2 ELSE P[i-1] + 1
      BY PlacesClimb
    <3> QED
      BY <3>1
  <2> QED
    BY <2>1
<1>3. ASSUME NEW i \in 1..n PROVE o + P[i-1] + 1 <= Len(w)
  <2> DEFINE a == P[i-1]
             b == P[i]
             u == Len(w)
             v == Len(q)
  <2>1. a \in Nat /\ b \in Nat /\ b <= v /\ a + 1 <= b /\ o \in Nat /\ o + v <= u /\ u \in Nat /\ v \in Nat
    BY <1>1, <1>2
  <2> HIDE DEF a, b, u, v
  <2>2. o + a + 1 <= u
    BY <2>1
  <2> QED
    BY <2>2 DEF a, u
<1>4. 0 \in S
  BY <1>1
<1>5. ASSUME NEW j \in Nat, j \in S PROVE j + 1 \in S
  <2>1. SUFFICES ASSUME j + 1 <= n PROVE Open(j+1)
    OBVIOUS
  <2>2. j + 1 \in 1..n /\ (j + 1) - 1 = j /\ j <= n
    BY <1>1, <2>1
  <2>3. ~E[o + P[j] + 1]
    BY <1>3, <1>5, <2>2
  <2> QED
    BY <2>2, <2>3, NotEscapedOn
<1>6. Nat \subseteq S
  <2> HIDE DEF S
  <2> QED
    BY <1>4, <1>5, Induction
<1>7. \A j \in 0..n : Open(j)
  BY <1>1, <1>6
<1>8. ASSUME NEW i \in 1..n PROVE ~E[o + P[i-1] + 1] /\ (Special(s, i) => E[o + P[i-1] + 2])
  <2>1. i - 1 \in 0..n
    BY <1>1
  <2>2. ~E[o + P[i-1] + 1]
    BY <1>3, <1>7, <2>1
  <2> QED
    BY <2>2, NotEscapedOn
<1>9. Open(n)
  BY <1>1, <1>7
<1> QED
  BY <1>1, <1>8, <1>9

LEMMA TwoParts ==
  ASSUME NEW T, NEW p \in Seq(T), NEW q \in Seq(T)
  PROVE  /\ p \o q \in Seq(T) /\ Len(p) \in Nat /\ Len(q) \in Nat /\ Len(p \o q) = Len(p) + Len(q)
         /\ \A k \in 1..Len(p) : (p \o q)[k] = p[k]
         /\ \A k \in 1..Len(q) : (p \o q)[Len(p) + k] = q[k]
<1>1. p \o q \in Seq(T) /\ Len(p) \in Nat /\ Len(q) \in Nat /\ Len(p \o q) = Len(p) + Len(q)
  OBVIOUS
<1>2. \A k \in 1..Len(p) : (p \o q)[k] = p[k]
  OBVIOUS
<1>3. \A k \in 1..Len(q) : (p \o q)[Len(p) + k] = q[k]
  OBVIOUS
<1> QED
  BY <1>1, <1>2, <1>3

LEMMA OneAndOne ==
  ASSUME NEW T, NEW a \in T, NEW b \in T
  PROVE  <<a>> \o <<b>> = <<a, b>>
<1> DEFINE u == <<a>>
           v == <<b>>
           w == <<a, b>>
<1>1. u \in Seq(T) /\ v \in Seq(T) /\ w \in Seq(T)
  OBVIOUS
<1>2. Len(u) = 1 /\ Len(v) = 1 /\ Len(w) = 2 /\ u[1] = a /\ v[1] = b /\ w[1] = a /\ w[2] = b
  OBVIOUS
<1> HIDE DEF u, v, w
<1>3. /\ u \o v \in Seq(T) /\ Len(u \o v) = Len(u) + Len(v)
      /\ \A k \in 1..Len(u) : (u \o v)[k] = u[k]
      /\ \A k \in 1..Len(v) : (u \o v)[Len(u) + k] = v[k]
  BY <1>1, TwoParts
<1>4. 1 \in 1..Len(u) /\ 1 \in 1..Len(v)
  BY <1>2
<1>5. (u \o v)[1] = w[1] /\ (u \o v)[1+1] = w[2]
  BY <1>2, <1>3, <1>4
<1>6. Len(u \o v) = 2 /\ \A k \in 1..2 : (u \o v)[k] = w[k]
  BY <1>2, <1>3, <1>5
<1>7. u \o v = w
  BY <1>1, <1>2, <1>3, <1>6
<1> QED
  BY <1>7 DEF u, v, w

(***************************************************************************)
(* Reading a quoted text goes from character to character of the text.     *)
(***************************************************************************)
LitOf(t) == IF t = <<>> THEN <<>> ELSE <<Lit(t)>>
ReadUpTo(s, P, i) == Reading(P[i] + 1, LitOf(SubSeq(s, 1, i)), FALSE)

LEMMA LitGrows ==
  ASSUME NEW t \in Text, NEW u \in Text, u # <<>>
  PROVE  AddToken(LitOf(t), Lit(u)) = LitOf(t \o u)
<1>1. t \o u # <<>>
  BY DEF Text
<1>2. CASE t = <<>>
  <2>1. t \o u = u
    BY <1>2 DEF Text
  <2>2. LitOf(t) = <<>>
    BY <1>2 DEF LitOf
  <2>3. Append(<<>>, Lit(u)) = <<Lit(u)>>
    OBVIOUS
  <2> QED
    BY <1>1, <2>1, <2>2, <2>3 DEF AddToken, LitOf
<1>3. CASE t # <<>>
  <2> DEFINE ts == <<Lit(t)>>
  <2>1. LitOf(t) = ts /\ ts # <<>> /\ Len(ts) = 1 /\ ts[1] = Lit(t)
    BY <1>3 DEF LitOf
  <2>2. Last(ts) = Lit(t)
    BY <2>1 DEF Last
  <2>3. IsLit(Lit(u)) /\ IsLit(Last(ts)) /\ Lit(u).lit = u /\ Last(ts).lit = t
    BY <1>3, <2>2 DEF IsLit, Lit
  <2>4. [ts EXCEPT ![1] = Lit(t \o u)] = <<Lit(t \o u)>>
    OBVIOUS
  <2> HIDE DEF ts
  <2>5. AddToken(ts, Lit(u)) = [ts EXCEPT ![1] = Lit(t \o u)]
    BY <2>1, <2>3 DEF AddToken
  <2> QED
    BY <1>1, <2>1, <2>4, <2>5 DEF LitOf
<1> QED
  BY <1>2, <1>3

LEMMA PlacesReached ==
  ASSUME NEW s \in Text, NEW q, NEW P, Spells(q, s, P)
  PROVE  Len(s) <= Len(q)
<1> DEFINE n == Len(s)
           S == {j \in Nat : j <= n => j <= P[j]}
<1>1. n \in Nat /\ P[0] = 0 /\ P[n] = Len(q)
  BY DEF Spells, Text
<1>2. 0 \in S
  BY <1>1
<1>3. ASSUME NEW j \in Nat, j \in S PROVE j + 1 \in S
  <2>1. SUFFICES ASSUME j + 1 <= n PROVE j + 1 <= P[j+1]
    OBVIOUS
  <2> DEFINE a == P[j]
             b == P[j+1]
  <2>2. j + 1 \in 1..n /\ (j + 1) - 1 = j /\ j <= n
    BY <1>1, <2>1
  <2>3. a \in Nat /\ b \in Nat /\ b = IF Special(s, j+1) THEN a + 2 ELSE a + 1
    BY <2>2, PlacesClimb
  <2>4. j <= a
    BY <1>3, <2>2
  <2> HIDE DEF a, b
  <2>5. j + 1 <= b
    BY <2>3, <2>4
  <2> QED
    BY <2>5 DEF b
<1>4. Nat \subseteq S
  <2> HIDE DEF S
  <2> QED
    BY <1>2, <1>3, Induction
<1> QED
  BY <1>1, <1>4

LEMMA LongerPart ==
  ASSUME NEW s \in Text, NEW i \in Nat, i + 1 <= Len(s)
  PROVE  /\ SubSeq(s, 1, i) \in Text /\ s[i+1] \in Char /\ <<s[i+1]>> \in Text /\ <<s[i+1]>> # <<>>
         /\ SubSeq(s, 1, i) \o <<s[i+1]>> = SubSeq(s, 1, i + 1)
<1>1. Len(s) \in Nat /\ i \in 0..Len(s) /\ 1 \in 1..Len(s)+1 /\ i + 1 \in 1..Len(s)
  BY DEF Text
<1>2. SubSeq(s, 1, i) \in Text
  BY <1>1, SubIsText
<1>3. s[i+1] \in Char
  BY <1>1 DEF Text
<1>4. SubSeq(s, 1, i) \o <<s[i+1]>> = SubSeq(s, 1, i + 1)
  BY <1>1 DEF Text
<1> QED
  BY <1>2, <1>3, <1>4, LettersAreText

(* The next piece of q is the character of s after the first i, spelt with *)
(* d characters.                                                           *)
SpeltWith(q, IsFind, captures, s, P, i, d) ==
  /\ d \in Nat /\ d # 0 /\ Len(q) \in Nat
  /\ P[i] \in Nat /\ P[i] + 1 <= Len(q) /\ P[i+1] = P[i] + d
  /\ PieceAt(q, IsFind, captures, ReadUpTo(s, P, i)) = Piece(d, Lit(<<s[i+1]>>))

LEMMA ReadsOne ==
  ASSUME NEW s \in Text, NEW P, NEW i \in Nat, i + 1 <= Len(s), NEW q,
         NEW IsFind, NEW captures, NEW d, SpeltWith(q, IsFind, captures, s, P, i, d)
  PROVE  ReadPiece(q, IsFind, captures, ReadUpTo(s, P, i)) = ReadUpTo(s, P, i+1)
<1> USE DEF SpeltWith
<1> DEFINE r == ReadUpTo(s, P, i)
           t == SubSeq(s, 1, i)
           p == Piece(d, Lit(<<s[i+1]>>))
<1>1. r.at = P[i] + 1 /\ r.tokens = LitOf(t) /\ r.failed = FALSE
  BY DEF ReadUpTo, Reading
<1>2. t \in Text /\ <<s[i+1]>> \in Text /\ <<s[i+1]>> # <<>> /\ t \o <<s[i+1]>> = SubSeq(s, 1, i+1)
  BY LongerPart
<1>3. p.len = d /\ p.token = Lit(<<s[i+1]>>)
  BY PieceParts
<1> HIDE DEF p
<1>4. ReadPiece(q, IsFind, captures, r) = ReadOn(r, p)
  BY <1>1 DEF ReadPiece, p
<1> HIDE DEF r
<1>5. ReadOn(r, p) = Reading(P[i] + 1 + d, AddToken(LitOf(t), Lit(<<s[i+1]>>)), FALSE)
  BY <1>1, <1>3 DEF ReadOn
<1>6. AddToken(LitOf(t), Lit(<<s[i+1]>>)) = LitOf(SubSeq(s, 1, i+1))
  <2> HIDE DEF t
  <2> QED
    BY <1>2, LitGrows
<1>7. P[i] + 1 + d = P[i+1] + 1
  <2> DEFINE a == P[i]
             b == P[i+1]
  <2>1. a \in Nat /\ b = a + d
    OBVIOUS
  <2> HIDE DEF a, b
  <2>2. a + 1 + d = b + 1
    BY <2>1
  <2> QED
    BY <2>2 DEF a, b
<1> QED
  BY <1>4, <1>5, <1>6, <1>7 DEF r, ReadUpTo

LEMMA ReadsStanding ==
  ASSUME NEW s \in Text, NEW q, NEW P, Spells(q, s, P), NEW IsFind, NEW captures, NEW i \in Nat, i + 1 <= Len(s)
  PROVE  LET r == ReadPiece(q, IsFind, captures, ReadUpTo(s, P, i))
         IN  r = ReadUpTo(s, P, i+1) \/ (i + 2 <= Len(s) /\ r = ReadUpTo(s, P, i+2))
<1> DEFINE a == P[i]
           b == P[i+1]
           c == s[i+1]
           r == ReadUpTo(s, P, i)
<1>1. i + 1 \in 1..Len(s) /\ (i + 1) - 1 = i /\ Len(s) \in Nat /\ Len(q) \in Nat /\ q \in Text
  BY DEF Text, Spells
<1>2. a \in Nat /\ b \in Nat /\ b <= Len(q) /\ b = IF Special(s, i+1) THEN a + 2 ELSE a + 1
  BY <1>1, PlacesClimb
<1>3. IF Special(s, i+1) THEN q[a+1] = "\\" /\ q[a+2] = c ELSE q[a+1] = c
  BY <1>1 DEF Spells, Stands
<1>4. r.at = a + 1 /\ r.tokens = LitOf(SubSeq(s, 1, i)) /\ r.failed = FALSE
  BY DEF ReadUpTo, Reading
<1> HIDE DEF r
<1>5. CASE ~Special(s, i+1)
  <2>1. q[a+1] = c /\ b = a + 1 /\ c \notin {"*", ";", "$", "\\"}
    BY <1>2, <1>3, <1>5 DEF Special
  <2>2. PieceAt(q, IsFind, captures, r) = Piece(1, Lit(<<c>>))
    BY <1>4, <2>1 DEF PieceAt, FindPiece, PutPiece
  <2>3. a + 1 <= Len(q)
    BY <1>2, <2>1
  <2>4. /\ P[i] \in Nat /\ P[i] + 1 <= Len(q) /\ P[i+1] = P[i] + 1
        /\ PieceAt(q, IsFind, captures, ReadUpTo(s, P, i)) = Piece(1, Lit(<<s[i+1]>>))
    BY <1>2, <2>1, <2>2, <2>3 DEF r
  <2> DEFINE d == 1
  <2>5. d \in Nat /\ d # 0
    OBVIOUS
  <2>6. P[i+1] = P[i] + d /\ PieceAt(q, IsFind, captures, ReadUpTo(s, P, i)) = Piece(d, Lit(<<s[i+1]>>))
    BY <2>4
  <2> HIDE DEF a, b, c, d
  <2>7. SpeltWith(q, IsFind, captures, s, P, i, d)
    BY <1>1, <2>4, <2>5, <2>6, Zenon DEF SpeltWith
  <2>8. ReadPiece(q, IsFind, captures, ReadUpTo(s, P, i)) = ReadUpTo(s, P, i+1)
    BY <2>7, ReadsOne, Zenon
  <2> QED
    BY <2>8 DEF r
<1>6. CASE Special(s, i+1)
  <2>1. b = a + 2 /\ q[a+1] = "\\" /\ q[a+2] = c /\ (a + 1) + 1 = a + 2 /\ (a + 1) + 2 = a + 3
    BY <1>2, <1>3, <1>6
  <2>2. PieceAt(q, IsFind, captures, r) = EscapePiece(q, a + 1)
    BY <1>4, <2>1 DEF PieceAt, FindPiece, PutPiece
  <2>3. a + 2 <= Len(q) /\ ~(a + 2 > Len(q)) /\ a + 1 <= Len(q)
    BY <1>1, <1>2, <2>1
  <2>4. CASE c \in {"*", ";", "$", "\\"}
    <3>1. EscapePiece(q, a + 1) = Piece(2, Lit(<<c>>))
      <4>1. q[(a + 1) + 1] = c /\ ~((a + 1) + 1 > Len(q)) /\ (a + 1) + 1 <= Len(q)
        BY <2>1, <2>3
      <4>2. c # "="
        BY <2>4
      <4> HIDE DEF a, c
      <4> QED
        BY <4>1, <4>2, <2>4 DEF EscapePiece
    <3>2. /\ P[i] \in Nat /\ P[i] + 1 <= Len(q) /\ P[i+1] = P[i] + 2
          /\ PieceAt(q, IsFind, captures, ReadUpTo(s, P, i)) = Piece(2, Lit(<<s[i+1]>>))
      BY <1>2, <2>1, <2>2, <2>3, <3>1 DEF r
    <3> DEFINE d == 2
    <3>3. d \in Nat /\ d # 0
      OBVIOUS
    <3>4. P[i+1] = P[i] + d /\ PieceAt(q, IsFind, captures, ReadUpTo(s, P, i)) = Piece(d, Lit(<<s[i+1]>>))
      BY <3>2
    <3> HIDE DEF a, b, c, d
    <3>5. SpeltWith(q, IsFind, captures, s, P, i, d)
      BY <1>1, <3>2, <3>3, <3>4, Zenon DEF SpeltWith
    <3>6. ReadPiece(q, IsFind, captures, ReadUpTo(s, P, i)) = ReadUpTo(s, P, i+1)
      BY <3>5, ReadsOne, Zenon
    <3> QED
      BY <3>6 DEF r
  <2>5. CASE c \notin {"*", ";", "$", "\\"}
    <3>1. c = "=" /\ i + 1 < Len(s) /\ s[(i+1)+1] = ">"
      BY <1>6, <2>5 DEF Special
    <3>2. i + 2 \in 1..Len(s) /\ (i + 2) - 1 = i + 1 /\ s[i+2] = ">" /\ i + 2 <= Len(s) /\ (i+1)+1 = i+2
      BY <1>1, <3>1
    <3>3. ~Special(s, i+2)
      <4>1. s[i+2] = ">"
        BY <3>2
      <4> QED
        BY <4>1 DEF Special
    <3> DEFINE e == P[i+2]
    <3>4. e = b + 1 /\ e \in Nat /\ e <= Len(q) /\ q[b + 1] = ">"
      <4>1. P[i+2] = P[i+1] + 1 /\ q[P[i+1] + 1] = s[i+2]
        BY <3>2, <3>3 DEF Spells, Stands
      <4>2. P[i+2] \in Nat /\ P[i+2] <= Len(q)
        BY <3>2, PlacesClimb
      <4> QED
        BY <3>2, <4>1, <4>2
    <3>5. e = a + 3 /\ a + 3 <= Len(q) /\ q[a + 3] = ">"
      <4> HIDE DEF a, b, e
      <4>1. b + 1 = a + 3
        BY <1>2, <2>1
      <4> QED
        BY <3>4, <4>1
    <3>6. EscapePiece(q, a + 1) = Piece(3, Lit(<<"=", ">">>))
      <4>1. q[(a + 1) + 1] = "=" /\ q[(a + 1) + 2] = ">" /\ ~((a + 1) + 1 > Len(q)) /\ (a + 1) + 1 <= Len(q)
            /\ (a + 1) + 2 <= Len(q)
        BY <2>1, <2>3, <3>1, <3>5
      <4> HIDE DEF a, c
      <4> QED
        BY <4>1 DEF EscapePiece
    <3> DEFINE t == SubSeq(s, 1, i)
               p == Piece(3, Lit(<<"=", ">">>))
    <3>7. p.len = 3 /\ p.token = Lit(<<"=", ">">>)
      BY PieceParts
    <3>8. ReadPiece(q, IsFind, captures, r) = ReadOn(r, p)
      <4>1. ~r.failed /\ ~(r.at > Len(q))
        <5> HIDE DEF a
        <5>1. ~(a + 1 > Len(q))
          BY <1>1, <1>2, <2>3
        <5> QED
          BY <1>4, <5>1
      <4> QED
        BY <2>2, <3>6, <4>1 DEF ReadPiece
    <3> HIDE DEF p
    <3>9. ReadOn(r, p) = Reading(a + 1 + 3, AddToken(LitOf(t), Lit(<<"=", ">">>)), FALSE)
      BY <1>4, <3>7 DEF ReadOn
    <3>10. AddToken(LitOf(t), Lit(<<"=", ">">>)) = LitOf(SubSeq(s, 1, i+2))
      <4>1. t \in Text
        BY LongerPart
      <4>2. t \o <<"=", ">">> = SubSeq(s, 1, i+2)
        <5>1. t \o <<c>> = SubSeq(s, 1, i+1)
          BY LongerPart
        <5>2. SubSeq(s, 1, i+1) \o <<">">> = SubSeq(s, 1, i+2)
          <6> DEFINE j == i + 1
          <6>1. j \in Nat /\ j + 1 <= Len(s) /\ j + 1 = i + 2 /\ s[j + 1] = ">"
            BY <3>2
          <6> HIDE DEF j
          <6>2. SubSeq(s, 1, j) \o <<s[j + 1]>> = SubSeq(s, 1, j + 1)
            BY <6>1, LongerPart
          <6> QED
            BY <6>1, <6>2 DEF j
        <5>3. <<c>> \o <<">">> = <<"=", ">">>
          <6>1. c = "="
            BY <3>1
          <6>2. <<"=">> \o <<">">> = <<"=", ">">>
            <7>1. "=" \in Char /\ ">" \in Char
              BY DEF Char
            <7> QED
              BY <7>1, OneAndOne
          <6> HIDE DEF c
          <6> QED
            BY <6>1, <6>2
        <5>4. (t \o <<c>>) \o <<">">> = t \o (<<c>> \o <<">">>)
          <6>1. <<c>> \in Text /\ <<">">> \in Text
            BY <3>1, LettersAreText DEF Char
          <6> HIDE DEF t
          <6> QED
            BY <4>1, <6>1 DEF Text
        <5> QED
          BY <5>1, <5>2, <5>3, <5>4
      <4> HIDE DEF t
      <4> QED
        BY <4>1, <4>2, LettersAreText, LitGrows
    <3>11. a + 1 + 3 = e + 1
      <4> HIDE DEF a, e
      <4> QED
        BY <1>2, <3>5
    <3> QED
      BY <3>2, <3>8, <3>9, <3>10, <3>11 DEF r, ReadUpTo
  <2> QED
    BY <2>4, <2>5
<1> QED
  BY <1>5, <1>6

(***************************************************************************)
(* Reading back a quoted text gives the text, as one literal.              *)
(***************************************************************************)
LEMMA QuoteIsRead ==
  ASSUME NEW s \in Text, s # <<>>, NEW IsFind, NEW captures
  PROVE  ParseSide(Quote(s), IsFind, captures) = <<Lit(s)>>
<1> DEFINE q == Quote(s)
           n == Len(s)
<1>1. PICK P : Spells(q, s, P)
  BY QuoteSpells
<1> HIDE DEF q
<1> DEFINE r(i) == ReadUpTo(s, P, i)
           V == {r(i) : i \in 0..n}
<1>2. n \in Nat /\ q \in Text /\ Len(q) \in Nat /\ P[0] = 0 /\ P[n] = Len(q) /\ n <= Len(q) /\ n # 0
  BY <1>1, PlacesReached DEF Text, Spells
<1>3. ASSUME NEW i \in 0..n, i # n
      PROVE  \E j \in i+1..n : ReadPiece(q, IsFind, captures, r(i)) = r(j)
  <2>1. i \in Nat /\ i + 1 <= n
    BY <1>2, <1>3
  <2>2. LET x == ReadPiece(q, IsFind, captures, r(i))
        IN  x = r(i+1) \/ (i + 2 <= n /\ x = r(i+2))
    BY <1>1, <2>1, ReadsStanding
  <2>3. i + 1 \in i+1..n /\ (i + 2 <= n => i + 2 \in i+1..n)
    BY <1>2, <2>1
  <2> HIDE DEF r
  <2> QED
    BY <2>2, <2>3
<1>4. ReadPiece(q, IsFind, captures, r(n)) = r(n)
  <2>1. r(n).at = Len(q) + 1
    BY <1>2 DEF ReadUpTo, Reading
  <2>2. Len(q) + 1 > Len(q)
    BY <1>2
  <2> HIDE DEF r
  <2> QED
    BY <2>1, <2>2 DEF ReadPiece
<1>5. Start0 = r(0)
  <2>1. SubSeq(s, 1, 0) = <<>>
    BY DEF Text
  <2>2. P[0] + 1 = 1
    BY <1>2
  <2> QED
    BY <2>1, <2>2 DEF Start0, ReadUpTo, LitOf
<1>6. r(n).failed = FALSE /\ r(n).tokens = <<Lit(s)>>
  <2>1. SubSeq(s, 1, n) = s
    BY <1>2 DEF Text
  <2> QED
    BY <2>1 DEF ReadUpTo, Reading, LitOf
<1> HIDE DEF r
<1>7. ReadsOn(q, IsFind, captures, V)
  <2>1. ASSUME NEW i \in 0..n PROVE ReadPiece(q, IsFind, captures, r(i)) \in V
    <3>1. CASE i = n
      BY <1>2, <1>4, <3>1
    <3>2. CASE i # n
      <4>1. PICK j \in i+1..n : ReadPiece(q, IsFind, captures, r(i)) = r(j)
        BY <1>3, <3>2
      <4>2. j \in 0..n
        BY <1>2
      <4> QED
        BY <4>1, <4>2
    <3> QED
      BY <3>1, <3>2
  <2> QED
    BY <2>1 DEF ReadsOn
<1>8. Start0 \in V
  BY <1>2, <1>5
<1> HIDE DEF V
<1>9. PICK g \in Codings(0..Len(q), V) :
           /\ g[0] = Start0
           /\ \A k \in 1..Len(q) : g[k] = ReadPiece(q, IsFind, captures, g[k-1])
           /\ ParseSide(q, IsFind, captures) = IF g[Len(q)].failed THEN <<>> ELSE g[Len(q)].tokens
  BY <1>2, <1>7, <1>8, SideRuns
<1> DEFINE S == {m \in Nat : m <= Len(q) => \E i \in 0..n : g[m] = r(i) /\ (i = n \/ m <= i)}
<1>10. 0 \in S
  BY <1>2, <1>5, <1>9
<1>11. ASSUME NEW m \in Nat, m \in S PROVE m + 1 \in S
  <2>1. SUFFICES ASSUME m + 1 <= Len(q) PROVE \E i \in 0..n : g[m+1] = r(i) /\ (i = n \/ m + 1 <= i)
    OBVIOUS
  <2>2. m + 1 \in 1..Len(q) /\ (m + 1) - 1 = m /\ m <= Len(q)
    BY <1>2, <2>1
  <2>3. PICK i \in 0..n : g[m] = r(i) /\ (i = n \/ m <= i)
    BY <1>11, <2>2
  <2>4. g[m+1] = ReadPiece(q, IsFind, captures, r(i))
    BY <1>9, <2>2, <2>3
  <2>5. CASE i = n
    BY <1>2, <1>4, <2>4, <2>5
  <2>6. CASE i # n
    <3>1. PICK j \in i+1..n : ReadPiece(q, IsFind, captures, r(i)) = r(j)
      BY <1>3, <2>6
    <3>2. j \in 0..n /\ m + 1 <= j
      BY <1>2, <2>3, <2>6
    <3> QED
      BY <2>4, <3>1, <3>2
  <2> QED
    BY <2>5, <2>6
<1>12. Nat \subseteq S
  <2> HIDE DEF S
  <2> QED
    BY <1>10, <1>11, Induction
<1>13. PICK i \in 0..n : g[Len(q)] = r(i) /\ (i = n \/ Len(q) <= i)
  <2>1. Len(q) \in S /\ Len(q) <= Len(q)
    BY <1>2, <1>12
  <2> QED
    BY <2>1
<1>14. g[Len(q)] = r(n)
  BY <1>2, <1>13
<1> QED
  BY <1>6, <1>9, <1>14 DEF q

-----------------------------------------------------------------------------
(***************************************************************************)
(* Inside a longer text: no separator of the rule language stands free in  *)
(* a quoted text.                                                          *)
(***************************************************************************)
Free(w, o, m, k) ==
  ~Escaped(w)[o+k] =>
    /\ w[o+k] # ";"
    /\ k = m => w[o+k] # "\\"
    /\ k < m => ~(w[o+k] = "=" /\ w[o+k+1] = ">")

LEMMA QuotedChars ==
  ASSUME NEW s \in Text, NEW w \in Text, NEW o, Within(w, Quote(s), o),
         o + 1 <= Len(w) => ~Escaped(w)[o + 1]
  PROVE  /\ \A k \in 1..Len(Quote(s)) : Free(w, o, Len(Quote(s)), k)
         /\ Writable(s) => \A k \in 1..Len(Quote(s)) : w[o+k] \notin Refused
         /\ o + Len(Quote(s)) + 1 <= Len(w) => ~Escaped(w)[o + Len(Quote(s)) + 1]
<1> DEFINE q == Quote(s)
           n == Len(s)
           m == Len(q)
           E == Escaped(w)
<1>1. PICK P : Spells(q, s, P)
  BY QuoteSpells
<1> HIDE DEF q
<1>2. n \in Nat /\ m \in Nat /\ o \in Nat /\ o + m <= Len(w) /\ Len(w) \in Nat /\ \A k \in 1..m : w[o+k] = q[k]
  BY <1>1 DEF Text, Spells, Within, q
<1>3. \A i \in 1..n : /\ P[i-1] \in Nat /\ P[i] \in Nat /\ P[i] <= m
                      /\ P[i] = IF Special(s, i) THEN P[i-1] + 2 ELSE P[i-1] + 1
  BY <1>1, PlacesClimb
<1>4. /\ \A i \in 1..n : ~E[o + P[i-1] + 1] /\ (Special(s, i) => E[o + P[i-1] + 2])
      /\ o + m + 1 <= Len(w) => ~E[o + m + 1]
  BY <1>1, PlacesEscaped DEF q
<1>5. ASSUME NEW k \in 1..m
      PROVE  Free(w, o, m, k) /\ (Writable(s) => w[o+k] \notin Refused)
  <2>1. PICK i \in 1..n : At(s, P, k, i)
    BY <1>1, PlacesCover
  <2> DEFINE a == P[i-1]
             b == P[i]
  <2>2. a \in Nat /\ b \in Nat /\ b <= m /\ b = IF Special(s, i) THEN a + 2 ELSE a + 1
    BY <1>3
  <2>3. IF Special(s, i) THEN q[a + 1] = "\\" /\ q[a + 2] = s[i] ELSE q[a + 1] = s[i]
    BY <1>1 DEF Spells, Stands
  <2>4. ~E[o + a + 1] /\ (Special(s, i) => E[o + a + 2])
    BY <1>4
  <2>5. k = a + 1 \/ (Special(s, i) /\ k = a + 2)
    BY <2>1 DEF At
  <2>6. w[o+k] = q[k]
    BY <1>2
  <2> HIDE DEF a, b
  <2>7. o + k = o + a + 1 \/ (Special(s, i) /\ o + k = o + a + 2)
    BY <1>2, <2>2, <2>5
  <2>8. Writable(s) => w[o+k] \notin Refused
    <3>1. q[k] = "\\" \/ q[k] = s[i]
      BY <2>3, <2>5
    <3>2. "\\" \notin Refused
      BY DEF Refused
    <3>3. Writable(s) => s[i] \notin Refused
      BY DEF Writable, Text
    <3> QED
      BY <2>6, <3>1, <3>2, <3>3
  <2>9. CASE Special(s, i) /\ k = a + 1
    <3>1. w[o+k] = "\\" /\ k < m
      BY <1>2, <2>2, <2>3, <2>6, <2>9
    <3> QED
      BY <1>2, <2>8, <3>1 DEF Free
  <2>10. CASE Special(s, i) /\ k = a + 2
    <3>1. o + k = o + a + 2
      BY <1>2, <2>2, <2>10
    <3> QED
      BY <2>4, <2>8, <2>10, <3>1 DEF Free
  <2>11. CASE ~Special(s, i)
    <3>1. k = a + 1 /\ b = k /\ w[o+k] = s[i]
      BY <2>2, <2>3, <2>5, <2>6, <2>11
    <3>2. s[i] \notin {"*", ";", "$", "\\"}
      BY <2>11 DEF Special
    <3>3. ASSUME k < m, s[i] = "=" PROVE w[o+k+1] # ">"
      <4>1. i < n
        <5>1. P[n] = m
          BY <1>1 DEF Spells
        <5>2. i # n
          BY <1>2, <3>1, <3>3, <5>1 DEF b
        <5> QED
          BY <1>2, <5>2
      <4>2. i + 1 \in 1..n /\ (i + 1) - 1 = i
        BY <1>2, <4>1
      <4>3. s[i+1] # ">"
        BY <2>11, <3>3, <4>1 DEF Special
      <4>4. q[b + 1] = "\\" \/ q[b + 1] = s[i+1]
        BY <1>1, <4>2 DEF Spells, Stands, b
      <4>5. q[k + 1] # ">"
        BY <3>1, <4>3, <4>4
      <4>6. k + 1 \in 1..m /\ o + (k + 1) = o + k + 1
        BY <1>2, <3>3
      <4> QED
        BY <1>2, <4>5, <4>6
    <3>4. w[o+k] # ";" /\ w[o+k] # "\\"
      BY <3>1, <3>2
    <3> QED
      BY <2>8, <3>1, <3>3, <3>4 DEF Free
  <2> QED
    BY <2>5, <2>9, <2>10, <2>11
<1> QED
  BY <1>4, <1>5 DEF q

(***************************************************************************)
(* A rule written with quoted sides.                                       *)
(***************************************************************************)
Arrow == <<"=", ">">>
Written(x, y) == Quote(x) \o Arrow \o Quote(y)

Joined(w, p, a, q) ==
  /\ Len(w) = Len(p) + 2 + Len(q) /\ Len(p) \in Nat /\ Len(q) \in Nat
  /\ \A k \in 1..Len(p) : w[k] = p[k]
  /\ w[Len(p) + 1] = a[1] /\ w[Len(p) + 2] = a[2]
  /\ \A k \in 1..Len(q) : w[Len(p) + 2 + k] = q[k]

LEMMA ThreeParts ==
  ASSUME NEW T, NEW p \in Seq(T), NEW a \in Seq(T), NEW q \in Seq(T), Len(a) = 2
  PROVE  p \o a \o q \in Seq(T) /\ Joined(p \o a \o q, p, a, q)
<1> DEFINE u == p \o a
           w == u \o q
<1>1. u \in Seq(T) /\ Len(u) = Len(p) + 2 /\ Len(p) \in Nat /\ Len(q) \in Nat
  <2>1. u \in Seq(T) /\ Len(p) \in Nat /\ Len(u) = Len(p) + Len(a)
    BY TwoParts, Zenon
  <2>2. Len(q) \in Nat
    OBVIOUS
  <2> QED
    BY <2>1, <2>2, Zenon
<1>2. (\A k \in 1..Len(p) : u[k] = p[k]) /\ (\A k \in 1..Len(a) : u[Len(p) + k] = a[k])
  BY TwoParts
<1>3. u[Len(p) + 1] = a[1] /\ u[Len(p) + 2] = a[2]
  <2>1. 1 \in 1..Len(a) /\ 2 \in 1..Len(a)
    OBVIOUS
  <2> HIDE DEF u
  <2> QED
    BY <1>2, <2>1
<1> HIDE DEF u
<1>4. w \in Seq(T) /\ Len(w) = Len(u) + Len(q)
  BY <1>1, TwoParts
<1>5. (\A k \in 1..Len(u) : w[k] = u[k]) /\ (\A k \in 1..Len(q) : w[Len(u) + k] = q[k])
  BY <1>1, TwoParts
<1> HIDE DEF w
<1>6. \A k \in 1..Len(p) : w[k] = p[k]
  <2>1. \A k \in 1..Len(p) : k \in 1..Len(u)
    BY <1>1
  <2> QED
    BY <1>2, <1>5, <2>1
<1>7. w[Len(p) + 1] = a[1] /\ w[Len(p) + 2] = a[2]
  <2>1. Len(p) + 1 \in 1..Len(u) /\ Len(p) + 2 \in 1..Len(u)
    BY <1>1
  <2> QED
    BY <1>3, <1>5, <2>1
<1>8. Len(w) = Len(p) + 2 + Len(q) /\ \A k \in 1..Len(q) : w[Len(p) + 2 + k] = q[k]
  BY <1>1, <1>4, <1>5
<1> QED
  BY <1>1, <1>4, <1>6, <1>7, <1>8 DEF u, w, Joined

LEMMA QuoteIsText ==
  ASSUME NEW s \in Text
  PROVE  Quote(s) \in Text /\ (s # <<>> => Len(Quote(s)) > 0)
<1>1. PICK P : Spells(Quote(s), s, P)
  BY QuoteSpells
<1>2. Quote(s) \in Text /\ Len(s) <= Len(Quote(s))
  BY <1>1, PlacesReached DEF Spells
<1>3. s # <<>> => Len(s) > 0
  BY DEF Text
<1>4. Len(s) \in Nat /\ Len(Quote(s)) \in Nat
  BY <1>2 DEF Text
<1> QED
  BY <1>2, <1>3, <1>4

LEMMA WrittenParts ==
  ASSUME NEW x \in Text, NEW y \in Text
  PROVE  LET w == Written(x, y)
             A == Len(Quote(x))
         IN  /\ w \in Text /\ A \in Nat /\ Len(w) = A + 2 + Len(Quote(y)) /\ Len(Quote(y)) \in Nat
             /\ Within(w, Quote(x), 0) /\ Within(w, Quote(y), A + 2)
             /\ w[A + 1] = "=" /\ w[A + 2] = ">"
             /\ SubSeq(w, 1, A) = Quote(x) /\ SubSeq(w, A + 3, Len(w)) = Quote(y)
<1> DEFINE p == Quote(x)
           q == Quote(y)
           w == p \o Arrow \o q
           A == Len(p)
           B == Len(q)
<1>1. p \in Seq(Char) /\ q \in Seq(Char)
  BY QuoteIsText DEF Text
<1>2. Arrow \in Seq(Char) /\ Len(Arrow) = 2 /\ Arrow[1] = "=" /\ Arrow[2] = ">"
  BY LettersAreText DEF Text, Arrow
<1>3. w = Written(x, y)
  BY DEF Written
<1> HIDE DEF p, q
<1>4. /\ w \in Seq(Char) /\ Len(w) = A + 2 + B /\ A \in Nat /\ B \in Nat
      /\ \A k \in 1..A : w[k] = p[k]
      /\ w[A + 1] = "=" /\ w[A + 2] = ">"
      /\ \A k \in 1..B : w[A + 2 + k] = q[k]
  <2>1. /\ w \in Seq(Char) /\ Len(w) = A + 2 + B /\ A \in Nat /\ B \in Nat
        /\ \A k \in 1..A : w[k] = p[k]
        /\ w[A + 1] = Arrow[1] /\ w[A + 2] = Arrow[2]
        /\ \A k \in 1..B : w[A + 2 + k] = q[k]
    <3>1. w \in Seq(Char) /\ Joined(w, p, Arrow, q)
      BY <1>1, <1>2, ThreeParts
    <3> HIDE DEF w
    <3> QED
      BY <3>1 DEF Joined
  <2> HIDE DEF w
  <2> QED
    BY <1>2, <2>1, Zenon
<1> HIDE DEF w
<1>5. Within(w, p, 0) /\ Within(w, q, A + 2)
  BY <1>4 DEF Within
<1>6. SubSeq(w, 1, A) = p
  <2>1. SubSeq(w, 1, A) \in Seq(Char) /\ Len(SubSeq(w, 1, A)) = A /\ \A k \in 1..A : SubSeq(w, 1, A)[k] = p[k]
    BY <1>4
  <2> QED
    BY <1>1, <2>1
<1>7. SubSeq(w, A + 3, Len(w)) = q
  <2> DEFINE v == SubSeq(w, A + 3, Len(w))
  <2>1. v \in Seq(Char) /\ Len(v) = B
    BY <1>4
  <2>2. \A k \in 1..B : v[k] = w[A + 2 + k]
    BY <1>4
  <2> HIDE DEF v
  <2>3. v = q
    BY <1>1, <1>4, <2>1, <2>2, SeqEqual
  <2> QED
    BY <2>3 DEF v
<1> QED
  BY <1>3, <1>4, <1>5, <1>6, <1>7 DEF Text, p, q

LEMMA WrittenChars ==
  ASSUME NEW x \in Names, NEW y \in Names
  PROVE  LET w == Written(x, y)
             E == Escaped(w)
         IN  /\ \A k \in 1..Len(w) : ~E[k] => w[k] # ";"
             /\ ~E[Len(w)] => w[Len(w)] # "\\"
             /\ RuleSeparator(w) = Len(Quote(x)) + 1
             /\ (Writable(x) /\ Writable(y)) => \A k \in 1..Len(w) : w[k] \notin Refused
<1> DEFINE w == Written(x, y)
           E == Escaped(w)
           A == Len(Quote(x))
           B == Len(Quote(y))
           L == Len(w)
<1>1. /\ w \in Text /\ A \in Nat /\ L = A + 2 + B /\ B \in Nat
      /\ Within(w, Quote(x), 0) /\ Within(w, Quote(y), A + 2)
      /\ w[A + 1] = "=" /\ w[A + 2] = ">"
  BY WrittenParts DEF Names
<1>2. A > 0 /\ B > 0 /\ x \in Text /\ y \in Text
  BY QuoteIsText DEF Names
<1> HIDE DEF w
<1>3. \A k \in 1..L : E[k] <=> (k >= 2 /\ w[k-1] = "\\" /\ ~E[k-1])
  BY <1>1, EscapedRuns DEF EscapedOn
<1>4. ~E[0 + 1]
  <2>1. 0 + 1 \in 1..L /\ ~(0 + 1 >= 2)
    BY <1>1, <1>2
  <2> QED
    BY <1>3, <2>1
<1>5. /\ \A k \in 1..A : Free(w, 0, A, k)
      /\ Writable(x) => \A k \in 1..A : w[0+k] \notin Refused
      /\ 0 + A + 1 <= L => ~E[0 + A + 1]
  BY <1>1, <1>2, <1>4, QuotedChars
<1>6. ~E[A + 1] /\ ~E[A + 2] /\ ~E[A + 3]
  <2>1. 0 + A + 1 = A + 1 /\ A + 1 <= L /\ A + 2 \in 1..L /\ A + 3 \in 1..L /\ (A + 2) - 1 = A + 1 /\ (A + 3) - 1 = A + 2
    BY <1>1, <1>2
  <2>2. ~E[A + 1]
    BY <1>5, <2>1
  <2>3. ~E[A + 2]
    BY <1>1, <1>3, <2>1
  <2>4. ~E[A + 3]
    BY <1>1, <1>3, <2>1
  <2> QED
    BY <2>2, <2>3, <2>4
<1>7. /\ \A k \in 1..B : Free(w, A + 2, B, k)
      /\ Writable(y) => \A k \in 1..B : w[A+2+k] \notin Refused
  <2> DEFINE o == A + 2
  <2>1. ~E[o + 1] /\ Within(w, Quote(y), o)
    BY <1>1, <1>6
  <2> HIDE DEF o
  <2>2. /\ \A k \in 1..B : Free(w, o, B, k)
        /\ Writable(y) => \A k \in 1..B : w[o+k] \notin Refused
    BY <1>1, <1>2, <2>1, QuotedChars
  <2> QED
    BY <2>2 DEF o
<1> HIDE DEF E, A, B, L
<1>8. \A k \in 1..L : \/ k \in 1..A /\ 0 + k = k
                      \/ k = A + 1 \/ k = A + 2
                      \/ k - (A + 2) \in 1..B /\ A + 2 + (k - (A + 2)) = k
  BY <1>1
<1>9. ASSUME NEW k \in 1..L, ~E[k]
      PROVE  w[k] # ";" /\ (k = L => w[k] # "\\") /\ ((k < L /\ w[k] = "=" /\ w[k+1] = ">") => k = A + 1)
  <2>1. CASE k \in 1..A /\ 0 + k = k
    <3>1. Free(w, 0, A, k)
      BY <1>5, <2>1
    <3>2. w[k] # ";" /\ (k < A => ~(w[k] = "=" /\ w[k+1] = ">"))
      BY <1>9, <2>1, <3>1 DEF Free, E
    <3>3. k = A => w[k+1] = "="
      BY <1>1
    <3>4. k # L /\ (k < A \/ k = A)
      BY <1>1, <2>1
    <3> QED
      BY <3>2, <3>3, <3>4
  <2>2. CASE k = A + 1
    BY <1>1, <1>2, <2>2
  <2>3. CASE k = A + 2
    BY <1>1, <1>2, <2>3
  <2>4. CASE k - (A + 2) \in 1..B /\ A + 2 + (k - (A + 2)) = k
    <3> DEFINE j == k - (A + 2)
               o == A + 2
    <3>1. j \in 1..B /\ o + j = k
      BY <2>4
    <3>2. Free(w, o, B, j)
      BY <1>7, <3>1
    <3>3. (k = L => j = B) /\ (k < L => j < B)
      BY <1>1, <2>4
    <3> HIDE DEF j, o
    <3>4. ~Escaped(w)[o + j]
      BY <1>9, <3>1 DEF E
    <3>5. w[o+j] # ";" /\ (j = B => w[o+j] # "\\") /\ (j < B => ~(w[o+j] = "=" /\ w[o+j+1] = ">"))
      BY <3>2, <3>4 DEF Free
    <3> QED
      BY <3>1, <3>3, <3>5
  <2> QED
    BY <1>8, <2>1, <2>2, <2>3, <2>4
<1>10. RuleSeparator(w) = A + 1
  <2> DEFINE at == {i \in 1..L-1 : ~E[i] /\ w[i] = "=" /\ w[i+1] = ">"}
  <2>1. \A i \in at : i = A + 1
    <3>1. \A i \in 1..L-1 : i \in 1..L /\ i < L
      BY <1>1
    <3> QED
      BY <1>9, <3>1
  <2>2. A + 1 \in at
    BY <1>1, <1>2, <1>6
  <2>3. RuleSeparator(w) = IF \E i \in at : at = {i} THEN CHOOSE i \in at : TRUE ELSE 0
    BY DEF RuleSeparator, E, L
  <2> HIDE DEF at
  <2>4. at = {A + 1}
    BY <2>1, <2>2
  <2> QED
    BY <2>3, <2>4
<1>11. (Writable(x) /\ Writable(y)) => \A k \in 1..L : w[k] \notin Refused
  <2>1. SUFFICES ASSUME Writable(x), Writable(y), NEW k \in 1..L PROVE w[k] \notin Refused
    OBVIOUS
  <2>2. "=" \notin Refused /\ ">" \notin Refused
    BY DEF Refused
  <2> QED
    BY <1>1, <1>5, <1>7, <1>8, <2>1, <2>2
<1>12. L \in 1..L
  BY <1>1
<1> QED
  BY <1>9, <1>10, <1>11, <1>12 DEF w, E, A, L

LEMMA NoneInOrder ==
  ASSUME NEW n \in Nat
  PROVE  InOrder({}, n) = <<>>
<1> DEFINE ss == [i \in 1..n |-> <<>>]
<1>1. InOrder({}, n) = FlattenSeq(ss)
  BY DEF InOrder
<1>2. ss \in Seq(Seq(Nat)) /\ Len(ss) = n /\ \A i \in 1..n : ss[i] = <<>>
  OBVIOUS
<1> HIDE DEF ss
<1>3. PICK f \in [Nat -> Seq(Nat)] : Flattens(f, ss)
  BY <1>2, FlattenSteps
<1>4. f[0] = <<>> /\ (\A i \in 0..n-1 : f[i+1] = f[i] \o ss[i+1]) /\ FlattenSeq(ss) = f[n]
  BY <1>2, <1>3 DEF Flattens
<1> DEFINE S == {j \in Nat : j <= n => f[j] = <<>>}
<1>5. 0 \in S
  BY <1>4
<1>6. ASSUME NEW j \in Nat, j \in S PROVE j + 1 \in S
  <2>1. SUFFICES ASSUME j + 1 <= n PROVE f[j+1] = <<>>
    OBVIOUS
  <2>2. j \in 0..n-1 /\ j + 1 \in 1..n /\ j <= n
    BY <2>1
  <2>3. f[j+1] = <<>> \o <<>>
    BY <1>2, <1>4, <1>6, <2>2
  <2>4. <<>> \o <<>> = <<>>
    OBVIOUS
  <2> QED
    BY <2>3, <2>4
<1>7. Nat \subseteq S
  <2> HIDE DEF S
  <2> QED
    BY <1>5, <1>6, Induction
<1> QED
  BY <1>1, <1>4, <1>7

LEMMA WrittenIsOne ==
  ASSUME NEW x \in Names, NEW y \in Names
  PROVE  SplitEscaped(Written(x, y), ";") = <<Written(x, y)>>
<1> DEFINE w == Written(x, y)
           E == Escaped(w)
           L == Len(w)
           cuts == {i \in 1..L : w[i] = ";" /\ ~E[i]}
           marks == <<0>> \o InOrder(cuts, L) \o <<L + 1>>
           dangling == w # <<>> /\ w[L] = "\\" /\ ~E[L]
<1>1. (\A k \in 1..L : ~E[k] => w[k] # ";") /\ (~E[L] => w[L] # "\\")
  BY WrittenChars
<1>2. w \in Text /\ L \in Nat /\ L > 0
  BY WrittenParts DEF Names
<1> HIDE DEF w
<1>3. SplitEscaped(w, ";") = IF dangling THEN <<>> ELSE AllOrNone(Between(w, marks))
  BY DEF SplitEscaped
<1>4. ~dangling /\ cuts = {}
  BY <1>1
<1>5. InOrder(cuts, L) = <<>>
  BY <1>2, <1>4, NoneInOrder
<1>6. marks = <<0, L + 1>>
  <2>1. <<0>> \o <<>> = <<0>>
    OBVIOUS
  <2>2. <<0>> \o <<L + 1>> = <<0, L + 1>>
    <3>1. 0 \in Nat /\ L + 1 \in Nat
      BY <1>2
    <3> QED
      BY <3>1, OneAndOne
  <2> QED
    BY <1>5, <2>1, <2>2
<1> HIDE DEF cuts, marks, dangling, E
<1>7. SubSeq(w, 0 + 1, (L + 1) - 1) = w
  BY <1>2 DEF Text
<1>8. Between(w, <<0, L + 1>>) = <<w>>
  <2> DEFINE m == <<0, L + 1>>
  <2>1. Len(m) = 2 /\ m[1] = 0 /\ m[2] = L + 1 /\ 1..Len(m)-1 = {1} /\ 1 + 1 = 2
    OBVIOUS
  <2> HIDE DEF m
  <2>2. Between(w, m) = [k \in {1} |-> w]
    <3>1. \A k \in {1} : SubSeq(w, m[k] + 1, m[k+1] - 1) = w
      BY <1>7, <2>1
    <3> QED
      BY <2>1, <3>1 DEF Between
  <2>3. <<w>> = [k \in {1} |-> w]
    OBVIOUS
  <2> QED
    BY <2>2, <2>3 DEF m
<1>9. AllOrNone(<<w>>) = <<w>>
  <2>1. DOMAIN <<w>> = {1} /\ <<w>>[1] = w /\ w # <<>>
    BY <1>2
  <2> QED
    BY <2>1 DEF AllOrNone
<1> QED
  BY <1>3, <1>4, <1>6, <1>8, <1>9 DEF w

-----------------------------------------------------------------------------
(***************************************************************************)
(* The rule that a text written with quoted sides is parsed to, and what   *)
(* it does to a name.                                                      *)
(***************************************************************************)
Exact(x, y) == Mapping(<<Lit(x)>>, <<Lit(y)>>)

LEMMA OneMapped ==
  ASSUME NEW w, NEW e, NEW F, F = [k \in DOMAIN <<w>> |-> e]
  PROVE  F = <<e>>
<1>1. DOMAIN <<w>> = {1} /\ <<e>> = [k \in {1} |-> e]
  OBVIOUS
<1> QED
  BY <1>1

LEMMA OneOrNone ==
  ASSUME NEW e, e # <<>>
  PROVE  AllOrNone(<<e>>) = <<e>>
<1>1. DOMAIN <<e>> = {1} /\ <<e>>[1] = e
  OBVIOUS
<1> QED
  BY <1>1 DEF AllOrNone

LEMMA WrittenIsParsed ==
  ASSUME NEW x \in Names, NEW y \in Names, Writable(x), Writable(y)
  PROVE  ParseRules(Written(x, y)) = <<Exact(x, y)>>
<1> DEFINE w == Written(x, y)
           A == Len(Quote(x))
           e == <<Exact(x, y)>>
           parts == SplitEscaped(w, ";")
           all == [k \in DOMAIN parts |-> ParseEntry(parts[k])]
<1>1. /\ w \in Text /\ A \in Nat /\ Len(w) = A + 2 + Len(Quote(y)) /\ Len(Quote(y)) \in Nat
      /\ SubSeq(w, 1, A) = Quote(x) /\ SubSeq(w, A + 3, Len(w)) = Quote(y)
  BY WrittenParts DEF Names
<1>2. A > 0 /\ Len(Quote(y)) > 0 /\ x \in Text /\ y \in Text /\ x # <<>> /\ y # <<>>
  BY QuoteIsText DEF Names
<1>3. RuleSeparator(w) = A + 1 /\ \A k \in 1..Len(w) : w[k] \notin Refused
  BY WrittenChars
<1>4. parts = <<w>>
  BY WrittenIsOne
<1> HIDE DEF w
<1>5. ParseEntry(w) = e
  <2>1. w # <<"\\", "a">> /\ w # <<"\\", "A">>
    <3>1. Len(<<"\\", "a">>) = 2 /\ Len(<<"\\", "A">>) = 2
      OBVIOUS
    <3> QED
      BY <1>1, <1>2, <3>1
  <2>2. ParseEntry(w) = ParseMapping(w, A + 1)
    BY <1>3, <2>1 DEF ParseEntry
  <2>3. (A + 1) - 1 = A /\ A + 1 # 0 /\ (A + 1) + 2 = A + 3
    BY <1>1
  <2> DEFINE find == ParseSide(SubSeq(w, 1, (A + 1) - 1), TRUE, 0)
             put == ParseSide(SubSeq(w, (A + 1) + 2, Len(w)), FALSE, Captures(find))
  <2>4. find = <<Lit(x)>>
    BY <1>1, <1>2, <2>3, QuoteIsRead
  <2>5. put = <<Lit(y)>>
    <3> HIDE DEF find
    <3> QED
      BY <1>1, <1>2, <2>3, QuoteIsRead
  <2>6. ParseMapping(w, A + 1) = MappingOf(find, put)
    <3> HIDE DEF A
    <3> QED
      BY <2>3 DEF ParseMapping
  <2>7. MappingOf(<<Lit(x)>>, <<Lit(y)>>) = e
    BY DEF MappingOf, Exact
  <2> HIDE DEF find, put, e
  <2> QED
    BY <2>2, <2>4, <2>5, <2>6, <2>7
<1>6. ~\E i \in DOMAIN w : w[i] \in Refused
  BY <1>1, <1>3 DEF Text
<1> HIDE DEF parts, e
<1>7. all = <<e>>
  <2>1. DOMAIN <<w>> = {1} /\ <<w>>[1] = w
    OBVIOUS
  <2>2. all = [k \in DOMAIN <<w>> |-> e]
    BY <1>4, <1>5, <2>1
  <2> QED
    BY <2>2, OneMapped
<1>8. e # <<>> /\ e \in Seq({Exact(x, y)})
  BY DEF e
<1>9. ParseRules(w) = FlattenSeq(AllOrNone(all))
  BY <1>6 DEF ParseRules, parts
<1> HIDE DEF all
<1>10. AllOrNone(all) = <<e>>
  BY <1>7, <1>8, OneOrNone
<1>11. FlattenSeq(<<e>>) = e
  BY <1>8, FlattenOne
<1> QED
  BY <1>9, <1>10, <1>11 DEF w, e

LEMMA OneRule ==
  ASSUME NEW name, NEW r
  PROVE  ApplyRules(name, <<r>>) = ApplyEntry([model |-> name, matched |-> FALSE], r)
<1> DEFINE v0 == [model |-> name, matched |-> FALSE]
           rs == <<r>>
           Eq(f) == f = [n \in 0..Len(rs) |-> IF n = 0 THEN v0 ELSE ApplyEntry(f[n-1], rs[n])]
           g == CHOOSE f : Eq(f)
           h == [n \in 0..1 |-> IF n = 0 THEN v0 ELSE ApplyEntry(v0, r)]
<1>1. Len(rs) = 1 /\ rs[1] = r
  OBVIOUS
<1>2. ApplyRules(name, rs) = g[Len(rs)]
  BY DEF ApplyRules
<1> HIDE DEF v0, rs
<1>3. Eq(h)
  <2>1. h[0] = v0 /\ h[1] = ApplyEntry(v0, r)
    OBVIOUS
  <2>2. \A n \in 0..1 : h[n] = IF n = 0 THEN v0 ELSE ApplyEntry(h[n-1], rs[n])
    <3>1. \A n \in 0..1 : n = 0 \/ n = 1
      OBVIOUS
    <3>2. 1 - 1 = 0
      OBVIOUS
    <3> HIDE DEF h
    <3> QED
      BY <1>1, <2>1, <3>1, <3>2
  <2>3. h = [n \in 0..1 |-> h[n]]
    OBVIOUS
  <2> HIDE DEF h
  <2> QED
    BY <1>1, <2>2, <2>3
<1>4. Eq(g)
  <2> HIDE DEF Eq, h
  <2> QED
    BY <1>3
<1> HIDE DEF g
<1>5. g[0] = v0 /\ g[1] = ApplyEntry(g[0], r)
  <2>1. 0 \in 0..Len(rs) /\ 1 \in 0..Len(rs) /\ 1 - 1 = 0
    BY <1>1
  <2> QED
    BY <1>1, <1>4, <2>1
<1> QED
  BY <1>1, <1>2, <1>5 DEF v0, rs

LEMMA OnlyItself ==
  ASSUME NEW s \in Text, NEW x \in Names
  PROVE  MatchTokens(s, <<Lit(x)>>).ok <=> s = x
<1> DEFINE ts == <<Lit(x)>>
           fits == Fits(s, ts)
<1>1. ts \in Seq(Token) /\ ts # <<>> /\ Len(ts) = 1 /\ ts[1] = Lit(x) /\ DOMAIN ts = {1}
  <2>1. Lit(x) \in Token
    BY LitIsToken DEF Names, Tokens
  <2> QED
    BY <2>1
<1>2. IsLit(ts[1]) /\ ts[1].lit = x /\ x \in Text
  BY <1>1 DEF IsLit, Lit, Names
<1> HIDE DEF ts
<1>3. MatchTokens(s, ts).ok = (fits # {})
  BY <1>1, MatchTokensIsReference
<1>4. Len(s) \in Nat /\ Sub(s, 0, Len(s)) = s
  BY DEF Text, Sub
<1>5. \A e \in fits : s = x
  <2>1. ASSUME NEW e \in fits PROVE s = x
    <3>1. e[1] = Len(s)
      BY <1>1 DEF Fits
    <3>2. Start(e, 1) = 0 /\ 1 \in DOMAIN ts
      BY <1>1 DEF Start
    <3>3. Sub(s, Start(e, 1), e[1]) = ts[1].lit
      BY <1>2, <3>2 DEF Fits
    <3> QED
      BY <1>2, <1>4, <3>1, <3>2, <3>3
  <2> QED
    BY <2>1
<1>6. s = x => fits # {}
  <2>1. SUFFICES ASSUME s = x PROVE fits # {}
    OBVIOUS
  <2> DEFINE e == [k \in DOMAIN ts |-> Len(s)]
  <2>2. e \in [DOMAIN ts -> 0..Len(s)] /\ e[1] = Len(s)
    BY <1>1, <1>4
  <2> HIDE DEF e
  <2>3. Start(e, 1) = 0 /\ 0 <= Len(s)
    BY <1>4 DEF Start
  <2>4. \A k \in DOMAIN ts : /\ Start(e, k) <= e[k]
                             /\ IsLit(ts[k]) => Sub(s, Start(e, k), e[k]) = ts[k].lit
    BY <1>1, <1>2, <1>4, <2>1, <2>2, <2>3
  <2>5. e \in fits
    BY <1>1, <2>2, <2>4 DEF Fits
  <2> QED
    BY <2>5
<1> QED
  BY <1>3, <1>5, <1>6 DEF ts

LEMMA LitIsBuilt ==
  ASSUME NEW y \in Names, NEW caps
  PROVE  BuildReplacement(<<Lit(y)>>, caps) = y
<1> DEFINE ts == <<Lit(y)>>
           F == [k \in DOMAIN ts |-> IF IsLit(ts[k]) THEN ts[k].lit ELSE caps[ts[k].cap]]
<1>1. ts[1] = Lit(y) /\ DOMAIN ts = {1} /\ IsLit(Lit(y)) /\ Lit(y).lit = y /\ y \in Seq(Char)
  BY DEF IsLit, Lit, Names, Text
<1>2. BuildReplacement(ts, caps) = FlattenSeq(F)
  BY DEF BuildReplacement
<1> HIDE DEF ts
<1>3. F = [k \in {1} |-> y]
  BY <1>1
<1>4. <<y>> = [k \in {1} |-> y]
  OBVIOUS
<1> HIDE DEF F
<1>5. FlattenSeq(<<y>>) = y
  BY <1>1, FlattenOne
<1> QED
  BY <1>2, <1>3, <1>4, <1>5 DEF ts

LEMMA ExactRuleApplied ==
  ASSUME NEW x \in Names, NEW y \in Names, NEW s \in Text
  PROVE  ApplyRules(s, <<Exact(x, y)>>) = IF s = x THEN [model |-> y, matched |-> TRUE] ELSE [model |-> s, matched |-> FALSE]
<1> DEFINE v0 == [model |-> s, matched |-> FALSE]
           r == Exact(x, y)
           found == MatchTokens(s, <<Lit(x)>>)
<1>1. ApplyRules(s, <<r>>) = ApplyEntry(v0, r)
  BY OneRule
<1>2. r.op = "none" /\ r.find = <<Lit(x)>> /\ r.put = <<Lit(y)>> /\ v0.model = s
  BY DEF Exact, Mapping
<1>3. BuildReplacement(<<Lit(y)>>, found.caps) = y /\ y # <<>>
  BY LitIsBuilt DEF Names
<1>4. found.ok <=> s = x
  BY OnlyItself
<1> HIDE DEF found, r
<1>5. ApplyEntry(v0, r) = Rewritten(v0, <<Lit(y)>>, found)
  <2> HIDE DEF v0
  <2> QED
    BY <1>2 DEF ApplyEntry, found
<1>6. Rewritten(v0, <<Lit(y)>>, found) = IF s = x THEN [model |-> y, matched |-> TRUE] ELSE v0
  <2> HIDE DEF v0
  <2> QED
    BY <1>3, <1>4 DEF Rewritten
<1> QED
  BY <1>1, <1>5, <1>6 DEF r

LEMMA TypedQuotes == ASSUME DeskTyped PROVE QuotedRuleIsExact
<1> SUFFICES ASSUME Writable(rule), Writable(model), NEW way \in {<<rule, model>>, <<model, rule>>}
             PROVE  LET rules == ParseRules(Quote(way[1]) \o <<"=", ">">> \o Quote(way[2]))
                    IN  /\ Len(rules) = 1 /\ rules[1].op = "none"
                        /\ ApplyRules(way[1], rules) = [model |-> way[2], matched |-> TRUE]
                        /\ \A other \in {way[2], Append(way[1], "a"), <<"a">> \o way[1]} :
                             other # way[1] => ~ApplyRules(other, rules).matched
  BY DEF QuotedRuleIsExact
<1> DEFINE x == way[1]
           y == way[2]
           r == Exact(x, y)
           rules == ParseRules(Quote(x) \o <<"=", ">">> \o Quote(y))
<1>1. rule \in Names /\ model \in Names
  BY DEF DeskTyped, Names, Writable
<1>2. x \in Names /\ y \in Names /\ Writable(x) /\ Writable(y)
  BY <1>1
<1>3. Append(x, "a") \in Text /\ <<"a">> \o x \in Text /\ y \in Text /\ x \in Text
  <2>1. "a" \in Char
    BY DEF Char
  <2> HIDE DEF x, y
  <2> QED
    BY <1>2, <2>1 DEF Names, Text
<1> HIDE DEF x, y
<1>4. rules = <<r>>
  BY <1>2, WrittenIsParsed DEF Written, Arrow
<1>5. r.op = "none"
  BY DEF Exact, Mapping
<1>6. \A s \in Text : ApplyRules(s, <<r>>) = IF s = x THEN [model |-> y, matched |-> TRUE] ELSE [model |-> s, matched |-> FALSE]
  BY <1>2, ExactRuleApplied
<1> HIDE DEF rules, r
<1>7. ApplyRules(x, rules) = [model |-> y, matched |-> TRUE]
  BY <1>3, <1>4, <1>6
<1>8. ASSUME NEW other \in {y, Append(x, "a"), <<"a">> \o x}, other # x
      PROVE  ~ApplyRules(other, rules).matched
  <2>1. other \in Text
    BY <1>3
  <2>2. ApplyRules(other, rules) = [model |-> other, matched |-> FALSE]
    BY <1>4, <1>6, <1>8, <2>1
  <2> QED
    BY <2>2
<1>9. Len(rules) = 1 /\ rules[1].op = "none"
  BY <1>4, <1>5
<1> QED
  BY <1>7, <1>8, <1>9 DEF rules, x, y

(***************************************************************************)
(* Any text without blanks, also one full of separators and backslashes,   *)
(* can be written as one side of a rule, and the rule then takes exactly   *)
(* that name to exactly the other text (parseRules, applyRules).           *)
(***************************************************************************)
THEOREM QuotedRulesAreExact == DeskSpec => []QuotedRuleIsExact
<1>1. DeskSpec => []DeskTyped
  BY DeskIsTyped
<1>2. DeskTyped => QuotedRuleIsExact
  BY TypedQuotes
<1> QED
  BY <1>1, <1>2, PTL

=============================================================================
