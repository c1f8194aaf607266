----------------------------- MODULE RouteProofs -----------------------------
(***************************************************************************)
(* What a mapped request gets and what is sent for it, for every set of    *)
(* requests, rules, bindings and credentials and every sequence of edits.  *)
(* Of the rule engine nothing is needed but that it is a function of its   *)
(* arguments.                                                              *)
(***************************************************************************)
EXTENDS RouteGate, FiniteSetTheorems, WellFoundedInduction, TLAPS

(***************************************************************************)
(* A decision to map names the client's model and the result of both       *)
(* layers, which differ (routeModel).                                      *)
(***************************************************************************)
LEMMA RouteModelMaps ==
  ASSUME NEW o \in BOOLEAN, NEW s, NEW format, NEW model, NEW key,
         RouteModel(o, s, format, model, key).handled
  PROVE  /\ RouteModel(o, s, format, model, key).original = model
         /\ RouteModel(o, s, format, model, key).upstream = TwoLayers(s, format, model, key).model
         /\ TwoLayers(s, format, model, key).model # model
         /\ o /\ ActiveTarget(s.bindings, key) = <<>>
<1> DEFINE chain == TwoLayers(s, format, model, key)
           target == ActiveTarget(s.bindings, key)
<1>1. RouteModel(o, s, format, model, key) =
        CASE ~o \/ target # <<>> -> Unhandled
          [] o /\ target = <<>> /\ chain.error -> RouteError
          [] OTHER -> IF chain.model = model THEN Unhandled
                      ELSE [handled |-> TRUE, original |-> model, upstream |-> chain.model, error |-> FALSE]
  BY DEF RouteModel, Routed
<1>2. ~Unhandled.handled /\ ~RouteError.handled
  BY DEF Unhandled, RouteError
<1> HIDE DEF chain, target
<1>3. /\ RouteModel(o, s, format, model, key) = [handled |-> TRUE, original |-> model, upstream |-> chain.model, error |-> FALSE]
      /\ chain.model # model
  BY <1>1, <1>2
<1>4. o /\ target = <<>>
  BY <1>1, <1>2
<1>5. o /\ ActiveTarget(s.bindings, key) = <<>>
  BY <1>4, Zenon DEF target
<1> QED
  BY <1>3, <1>5 DEF chain

(***************************************************************************)
(* What is in force and is not mapped, without an error, the two layers    *)
(* leave alone.                                                            *)
(***************************************************************************)
LEMMA RouteModelLeaves ==
  ASSUME NEW o \in BOOLEAN, NEW s, NEW format, NEW model, NEW key, o, ActiveTarget(s.bindings, key) = <<>>,
         ~RouteModel(o, s, format, model, key).handled, ~RouteModel(o, s, format, model, key).error
  PROVE  TwoLayers(s, format, model, key).model = model
<1> DEFINE chain == TwoLayers(s, format, model, key)
           mapped == [handled |-> TRUE, original |-> model, upstream |-> chain.model, error |-> FALSE]
<1>1. CASE chain.error
  <2>1. RouteModel(o, s, format, model, key) = RouteError
    BY <1>1 DEF RouteModel, Routed
  <2>2. RouteError.error
    BY DEF RouteError
  <2> QED
    BY <2>1, <2>2
<1>2. CASE ~chain.error /\ chain.model # model
  <2>1. RouteModel(o, s, format, model, key) = mapped
    BY <1>2 DEF RouteModel, Routed
  <2>2. mapped.handled
    OBVIOUS
  <2> HIDE DEF mapped
  <2> QED
    BY <2>1, <2>2
<1> QED
  BY <1>1, <1>2

(***************************************************************************)
(* What a request is mapped to: with an effort the rules for the suffixed  *)
(* name come first, and those for the name itself only where they leave    *)
(* it alone (routeModelForRequest).                                        *)
(***************************************************************************)
Maps(s, format, model, key) == TwoLayers(s, format, model, key).model # model

MapsTo(s, format, model, key, effort, upstream) ==
  LET e    == CodexEffort(format, model, effort)
      long == Qualified(model, e)
      wins == e # "none" /\ Maps(s, format, long, key)
  IN  \/ wins /\ upstream = TwoLayers(s, format, long, key).model
      \/ ~wins /\ Maps(s, format, model, key) /\ upstream = TwoLayers(s, format, model, key).model

LEMMA RouteForRequestMaps ==
  ASSUME NEW o \in BOOLEAN, NEW s, NEW format, NEW model, NEW key, NEW effort,
         RouteForRequest(o, s, format, model, key, effort).handled
  PROVE  /\ RouteForRequest(o, s, format, model, key, effort).original = model
         /\ MapsTo(s, format, model, key, effort, RouteForRequest(o, s, format, model, key, effort).upstream)
<1> DEFINE e    == CodexEffort(format, model, effort)
           d    == RouteForRequest(o, s, format, model, key, effort)
           q    == RouteModel(o, s, format, Qualified(model, e), key)
           bare == RouteModel(o, s, format, model, key)
<1>1. d = CASE e # "none" /\ q.error -> q
            [] e # "none" /\ q.handled -> [q EXCEPT !.original = model]
            [] OTHER -> bare
  BY DEF RouteForRequest, LongFirst
<1>3. q \in {Unhandled, RouteError, [handled |-> TRUE, original |-> Qualified(model, e),
                                    upstream |-> TwoLayers(s, format, Qualified(model, e), key).model, error |-> FALSE]}
  BY DEF RouteModel, Routed
<1>4. /\ ~(q.error /\ q.handled)
      /\ [q EXCEPT !.original = model].handled = q.handled
      /\ [q EXCEPT !.original = model].upstream = q.upstream
      /\ [q EXCEPT !.original = model].original = model
  BY <1>3 DEF Unhandled, RouteError
<1>5. CASE e # "none" /\ q.error
  BY <1>1, <1>4, <1>5
<1>6. CASE e # "none" /\ ~q.error /\ q.handled
  <2>1. /\ q.upstream = TwoLayers(s, format, Qualified(model, e), key).model
        /\ TwoLayers(s, format, Qualified(model, e), key).model # Qualified(model, e)
    BY <1>6, RouteModelMaps
  <2>2. d = [q EXCEPT !.original = model]
    BY <1>1, <1>6
  <2> HIDE DEF e, q, d
  <2>3. d.original = model /\ d.upstream = TwoLayers(s, format, Qualified(model, e), key).model
    BY <1>4, <2>1, <2>2
  <2>4. MapsTo(s, format, model, key, effort, d.upstream)
    BY <1>6, <2>1, <2>3 DEF Maps, MapsTo, e
  <2> QED
    BY <2>3, <2>4 DEF d
<1>7. CASE ~(e # "none" /\ (q.error \/ q.handled))
  <2>1. d = bare
    BY <1>1, <1>7
  <2>2. /\ d.original = model /\ d.upstream = TwoLayers(s, format, model, key).model
        /\ TwoLayers(s, format, model, key).model # model
        /\ o /\ ActiveTarget(s.bindings, key) = <<>>
    BY <2>1, RouteModelMaps
  <2>3. e # "none" => TwoLayers(s, format, Qualified(model, e), key).model = Qualified(model, e)
    BY <1>7, <2>2, RouteModelLeaves
  <2> HIDE DEF e, d
  <2>4. MapsTo(s, format, model, key, effort, d.upstream)
    BY <2>2, <2>3 DEF Maps, MapsTo, e
  <2>5. d.original = model
    BY <2>2
  <2> QED
    BY <2>4, <2>5 DEF d
<1> QED
  BY <1>5, <1>6, <1>7

(***************************************************************************)
(* Mapped or passed through, an executor puts the client's name back.      *)
(***************************************************************************)
LEMMA UpstreamForRestores ==
  ASSUME NEW o \in BOOLEAN, NEW s, NEW format, NEW model, NEW key, NEW effort
  PROVE  UpstreamFor(o, s, format, model, key, effort).original = model
BY RouteForRequestMaps DEF UpstreamFor, Forwarded

-----------------------------------------------------------------------------
(***************************************************************************)
(* A request is a record with these fields; what is in them does not       *)
(* matter except where a theorem needs it.                                 *)
(***************************************************************************)
Fields == {"pc", "shape", "on", "executed", "fast", "upstream", "original", "cands", "auth", "answer", "was", "calm"}

Recorded ==
  /\ on \in BOOLEAN
  /\ DOMAIN req = Requests
  /\ \A r \in Requests : DOMAIN req[r] = Fields /\ req[r].on \in BOOLEAN /\ req[r].executed \in BOOLEAN

LEMMA NewRequestFields == DOMAIN NewRequest = Fields
BY DEF NewRequest, Fields

LEMMA RecordedInit == GateInit => Recorded
<1>1. NewRequest.on = FALSE /\ NewRequest.executed = FALSE
  BY DEF NewRequest
<1> QED
  BY <1>1, NewRequestFields DEF GateInit, Recorded

(***************************************************************************)
(* A step of a request changes that request and keeps its fields.          *)
(***************************************************************************)
LEMMA StepSets ==
  ASSUME Recorded, NEW r \in Requests, Step(r)
  PROVE  /\ UNCHANGED <<on, src, edits>>
         /\ req' = [req EXCEPT ![r] = req'[r]]
         /\ DOMAIN req'[r] = Fields /\ req'[r].on \in BOOLEAN /\ req'[r].executed \in BOOLEAN
<1>1. CASE Arrive(r)
  <2>1. PICK s \in Shapes : req' = [req EXCEPT ![r] = [NewRequest EXCEPT !.pc = "access?", !.shape = s,
                              !.fast = s.fast, !.upstream = s.model, !.was = <<on, src>>]]
    BY <1>1 DEF Arrive, Set
  <2>2. NewRequest.on = FALSE /\ NewRequest.executed = FALSE
    BY DEF NewRequest
  <2> QED
    BY <1>1, <2>1, <2>2, NewRequestFields DEF Arrive, Recorded, Fields
<1>2. CASE \E stage \in Stages : ReadConfig(r, stage)
  BY <1>2 DEF ReadConfig, Set, Recorded, Fields
<1>3. CASE Access(r)
  <2>1. \/ req' = [req EXCEPT ![r] = [req[r] EXCEPT !.pc = "refused"]]
        \/ \E f : req' = [req EXCEPT ![r] = [req[r] EXCEPT !.pc = "route?", !.fast = f]]
    BY <1>3 DEF Access, Set
  <2>2. UNCHANGED <<on, src, edits>>
    BY <1>3 DEF Access
  <2> QED
    BY <2>1, <2>2 DEF Recorded, Fields
<1>4. CASE Route(r)
  BY <1>4 DEF Route, Set, Recorded, Fields
<1>5. CASE Execute(r)
  BY <1>5 DEF Execute, Set, Recorded, Fields
<1>6. CASE Pick(r)
  <2>1. \/ req' = [req EXCEPT ![r] = [req[r] EXCEPT !.pc = "refused", !.cands = {}]]
        \/ \E a : req' = [req EXCEPT ![r] = [req[r] EXCEPT !.pc = "answer?", !.auth = {a}, !.cands = {}]]
    BY <1>6 DEF Pick, Set
  <2>2. UNCHANGED <<on, src, edits>>
    BY <1>6 DEF Pick
  <2> QED
    BY <2>1, <2>2 DEF Recorded, Fields
<1>7. CASE Answer(r)
  BY <1>7 DEF Answer, Set, Recorded, Fields
<1> QED
  BY <1>1, <1>2, <1>3, <1>4, <1>5, <1>6, <1>7 DEF Step

(***************************************************************************)
(* What each step does to the fields the theorems speak of.                *)
(***************************************************************************)
Kept(old, new) ==
  /\ new.shape = old.shape /\ new.executed = old.executed /\ new.upstream = old.upstream
  /\ new.original = old.original /\ new.was = old.was /\ new.calm = old.calm

LEMMA ArriveEffect ==
  ASSUME Recorded, NEW r \in Requests, Arrive(r)
  PROVE  /\ req[r].pc = "new" /\ req'[r].pc = "access?"
         /\ ~req'[r].executed /\ req'[r].was = <<on, src>>
<1>1. PICK s \in Shapes : req' = [req EXCEPT ![r] = [NewRequest EXCEPT !.pc = "access?", !.shape = s,
                            !.fast = s.fast, !.upstream = s.model, !.was = <<on, src>>]]
  BY DEF Arrive, Set
<1> QED
  BY <1>1, NewRequestFields DEF Arrive, Recorded, Fields, NewRequest

LEMMA ReadConfigEffect ==
  ASSUME Recorded, NEW r \in Requests, NEW stage \in Stages, ReadConfig(r, stage)
  PROVE  /\ req[r].pc = Asked[stage] /\ req'[r].pc = stage /\ req'[r].on = on
         /\ Kept(req[r], req'[r]) /\ req'[r].answer = req[r].answer
BY DEF ReadConfig, Set, Recorded, Fields, Kept

LEMMA AccessEffect ==
  ASSUME Recorded, NEW r \in Requests, Access(r)
  PROVE  /\ req[r].pc = "access" /\ req'[r].pc \in {"refused", "route?"}
         /\ Kept(req[r], req'[r]) /\ req'[r].answer = req[r].answer
<1>1. /\ req[r].pc = "access"
      /\ \/ req' = [req EXCEPT ![r] = [req[r] EXCEPT !.pc = "refused"]]
         \/ \E f : req' = [req EXCEPT ![r] = [req[r] EXCEPT !.pc = "route?", !.fast = f]]
  BY DEF Access, Set
<1>2. CASE req' = [req EXCEPT ![r] = [req[r] EXCEPT !.pc = "refused"]]
  BY <1>1, <1>2 DEF Recorded, Fields, Kept
<1>3. ASSUME NEW f, req' = [req EXCEPT ![r] = [req[r] EXCEPT !.pc = "route?", !.fast = f]]
      PROVE  req'[r].pc = "route?" /\ Kept(req[r], req'[r]) /\ req'[r].answer = req[r].answer
  BY <1>3 DEF Recorded, Fields, Kept
<1> QED
  BY <1>1, <1>2, <1>3

LEMMA RouteEffect ==
  ASSUME Recorded, NEW r \in Requests, Route(r)
  PROVE  /\ req[r].pc = "route" /\ req'[r].pc \in {"failed", "exec?", "pick?"}
         /\ req'[r].pc = "exec?" => RouteForRequest(req[r].on, src, req[r].shape.format, req[r].shape.model,
                                                    req[r].shape.key, req[r].shape.effort).handled
         /\ Kept(req[r], req'[r]) /\ req'[r].answer = req[r].answer
BY DEF Route, Set, Recorded, Fields, Kept

LEMMA ExecuteEffect ==
  ASSUME Recorded, NEW r \in Requests, Execute(r)
  PROVE  LET q == req[r]
             u == UpstreamFor(q.on, src, q.shape.format, q.shape.model, q.shape.key, q.shape.effort)
         IN  /\ q.pc = "exec" /\ req'[r].pc = "pick?" /\ req'[r].executed
             /\ req'[r].upstream = u.upstream /\ req'[r].original = u.original
             /\ req'[r].shape = q.shape /\ req'[r].was = q.was /\ req'[r].calm = q.calm
BY DEF Execute, Set, Recorded, Fields

LEMMA PickEffect ==
  ASSUME Recorded, NEW r \in Requests, Pick(r)
  PROVE  /\ req[r].pc = "pick" /\ req'[r].pc \in {"refused", "answer?"}
         /\ Kept(req[r], req'[r]) /\ req'[r].answer = req[r].answer
<1>1. \/ req' = [req EXCEPT ![r] = [req[r] EXCEPT !.pc = "refused", !.cands = {}]]
      \/ \E a : req' = [req EXCEPT ![r] = [req[r] EXCEPT !.pc = "answer?", !.auth = {a}, !.cands = {}]]
  BY DEF Pick, Set
<1>2. ASSUME req' = [req EXCEPT ![r] = [req[r] EXCEPT !.pc = "refused", !.cands = {}]]
      PROVE  req'[r].pc = "refused" /\ Kept(req[r], req'[r]) /\ req'[r].answer = req[r].answer
  BY <1>2 DEF Recorded, Fields, Kept
<1>3. ASSUME NEW a, req' = [req EXCEPT ![r] = [req[r] EXCEPT !.pc = "answer?", !.auth = {a}, !.cands = {}]]
      PROVE  req'[r].pc = "answer?" /\ Kept(req[r], req'[r]) /\ req'[r].answer = req[r].answer
  BY <1>3 DEF Recorded, Fields, Kept
<1>4. req[r].pc = "pick"
  BY DEF Pick
<1> QED
  BY <1>1, <1>2, <1>3, <1>4

LEMMA AnswerEffect ==
  ASSUME Recorded, NEW r \in Requests, Answer(r)
  PROVE  /\ req[r].pc = "answer" /\ req'[r].pc = "served"
         /\ req[r].executed => req'[r].answer = req[r].original
         /\ Kept(req[r], req'[r])
BY DEF Answer, Set, Recorded, Fields, Kept

LEMMA RecordedStep == Recorded /\ [GateNext]_gateVars => Recorded'
<1> SUFFICES ASSUME Recorded, [GateNext]_gateVars PROVE Recorded'
  OBVIOUS
<1>1. CASE \E r \in Requests : Step(r)
  <2>1. PICK r \in Requests : Step(r)
    BY <1>1
  <2> QED
    BY <2>1, StepSets DEF Recorded
<1>2. CASE Edit
  BY <1>2 DEF Edit, Recorded, Fields
<1>3. CASE \E k \in Keys : OtherPick(k)
  BY <1>3 DEF OtherPick, Recorded
<1>4. CASE UNCHANGED gateVars
  BY <1>4 DEF gateVars, Recorded
<1> QED
  BY <1>1, <1>2, <1>3, <1>4 DEF GateNext

-----------------------------------------------------------------------------
(***************************************************************************)
(* Once executed, a request has its own model as the name to put back.     *)
(***************************************************************************)
Named(q) ==
  q.executed => /\ q.original = q.shape.model
                /\ q.pc = "served" => q.answer = q.shape.model

LEMMA NamedInit == GateInit => \A r \in Requests : Named(req[r])
BY DEF GateInit, Named, NewRequest

LEMMA NamedByStep ==
  ASSUME Recorded, NEW r \in Requests, Named(req[r]), Step(r)
  PROVE  Named(req'[r])
<1>1. CASE Arrive(r)
  BY <1>1, ArriveEffect DEF Named
<1>2. CASE \E stage \in Stages : ReadConfig(r, stage)
  BY <1>2, ReadConfigEffect DEF Stages, Kept, Named
<1>3. CASE Access(r)
  BY <1>3, AccessEffect DEF Kept, Named
<1>4. CASE Route(r)
  BY <1>4, RouteEffect DEF Kept, Named
<1>5. CASE Execute(r)
  BY <1>5, ExecuteEffect, UpstreamForRestores DEF Recorded, Named
<1>6. CASE Pick(r)
  BY <1>6, PickEffect DEF Kept, Named
<1>7. CASE Answer(r)
  BY <1>7, AnswerEffect DEF Kept, Named
<1> QED
  BY <1>1, <1>2, <1>3, <1>4, <1>5, <1>6, <1>7 DEF Step

LEMMA NamedStep ==
  Recorded /\ (\A r \in Requests : Named(req[r])) /\ [GateNext]_gateVars => (\A r \in Requests : Named(req[r]))'
<1> SUFFICES ASSUME Recorded, \A r \in Requests : Named(req[r]), [GateNext]_gateVars, NEW r \in Requests
             PROVE  Named(req'[r])
  OBVIOUS
<1>1. CASE \E t \in Requests : Step(t)
  <2>1. PICK t \in Requests : Step(t)
    BY <1>1
  <2>2. CASE t = r
    BY <2>1, <2>2, NamedByStep
  <2>3. CASE t # r
    BY <2>1, <2>3, StepSets DEF Recorded
  <2> QED
    BY <2>2, <2>3
<1>2. CASE Edit
  BY <1>2 DEF Edit, Recorded, Fields, Named
<1>3. CASE \E k \in Keys : OtherPick(k)
  BY <1>3 DEF OtherPick
<1>4. CASE UNCHANGED gateVars
  BY <1>4 DEF gateVars
<1> QED
  BY <1>1, <1>2, <1>3, <1>4 DEF GateNext

(***************************************************************************)
(* Rules, bindings and switches may change at any moment: an executed      *)
(* request is answered under the name it asked for                         *)
(* (upstreamModelForRequest, handleExecutorExecute).                       *)
(***************************************************************************)
THEOREM AnswersNameRequests == GateSpec => []AnswerNamesRequest
<1>1. (\A r \in Requests : Named(req[r])) => AnswerNamesRequest
  BY DEF Named, AnswerNamesRequest
<1> QED
  BY <1>1, RecordedInit, RecordedStep, NamedInit, NamedStep, PTL DEF GateSpec

-----------------------------------------------------------------------------
(***************************************************************************)
(* A calm request in flight has met the configuration and the live state   *)
(* that are in force; between route and executor they map its model; what  *)
(* the executor sends is what they map it to.                              *)
(***************************************************************************)
Decision(q) == RouteForRequest(TRUE, q.was[2], q.shape.format, q.shape.model, q.shape.key, q.shape.effort)

Sent(q) == MapsTo(q.was[2], q.shape.format, q.shape.model, q.shape.key, q.shape.effort, q.upstream)

Flying == {"access", "route", "exec", "pick", "answer", "access?", "route?", "exec?", "pick?", "answer?"}

Settled(q, o, s) ==
  /\ q.pc \in Flying \cup {"new", "served", "refused", "failed"}
  /\ q.pc = "new" => q.was = <<>> /\ ~q.executed
  /\ q.calm /\ q.pc \in Flying => q.was = <<o, s>>
  /\ q.calm /\ q.pc \in Stages => q.on = q.was[1]
  /\ q.calm /\ q.was # <<>> /\ q.was[1] /\ q.pc \in {"exec?", "exec"} => Decision(q).handled
  /\ q.calm /\ q.was # <<>> /\ q.was[1] /\ q.executed => Sent(q)

LEMMA DecisionSent ==
  ASSUME NEW q, Decision(q).handled
  PROVE  MapsTo(q.was[2], q.shape.format, q.shape.model, q.shape.key, q.shape.effort, Decision(q).upstream)
BY RouteForRequestMaps DEF Decision

LEMMA SettledInit == GateInit => \A r \in Requests : Settled(req[r], on, src)
<1>1. NewRequest.pc = "new" /\ NewRequest.was = <<>> /\ NewRequest.executed = FALSE
  BY DEF NewRequest
<1> QED
  BY <1>1 DEF GateInit, Settled, Flying, Stages

LEMMA SettledByStep ==
  ASSUME Recorded, NEW r \in Requests, Settled(req[r], on, src), Step(r)
  PROVE  Settled(req'[r], on, src)
<1> USE DEF Settled, Flying, Stages, Kept
<1>1. CASE Arrive(r)
  BY <1>1, ArriveEffect
<1>2. CASE \E stage \in Stages : ReadConfig(r, stage)
  <2>1. PICK stage \in Stages : ReadConfig(r, stage)
    BY <1>2
  <2>2. /\ req[r].pc \in Flying /\ req[r].pc \notin Stages
        /\ stage = "exec" => req[r].pc = "exec?"
    BY <2>1, ReadConfigEffect DEF Asked
  <2>3. /\ req'[r].pc = stage /\ req'[r].on = on
        /\ Kept(req[r], req'[r])
    BY <2>1, ReadConfigEffect
  <2>4. req'[r].calm /\ req'[r].was # <<>> /\ req'[r].was[1] /\ stage = "exec" => Decision(req'[r]).handled
    BY <2>2, <2>3 DEF Decision
  <2>5. req'[r].calm /\ req'[r].was # <<>> /\ req'[r].was[1] /\ req'[r].executed => Sent(req'[r])
    BY <2>2, <2>3 DEF Sent
  <2> QED
    BY <2>2, <2>3, <2>4, <2>5
<1>3. CASE Access(r)
  BY <1>3, AccessEffect DEF Sent
<1>4. CASE Route(r)
  <2>1. req'[r].calm /\ req'[r].was # <<>> /\ req'[r].was[1] /\ req'[r].pc = "exec?" => Decision(req'[r]).handled
    <3> SUFFICES ASSUME req'[r].calm, req'[r].was[1], req'[r].pc = "exec?" PROVE Decision(req'[r]).handled
      OBVIOUS
    <3>1. req[r].on = TRUE /\ req[r].was[2] = src
      BY <1>4, RouteEffect DEF Recorded
    <3> QED
      BY <1>4, <3>1, RouteEffect DEF Decision
  <2> QED
    BY <1>4, <2>1, RouteEffect DEF Sent
<1>5. CASE Execute(r)
  <2>1. req'[r].calm /\ req'[r].was # <<>> /\ req'[r].was[1] => Sent(req'[r])
    <3> SUFFICES ASSUME req'[r].calm, req'[r].was # <<>>, req'[r].was[1] PROVE Sent(req'[r])
      OBVIOUS
    <3>1. req[r].on = TRUE /\ req[r].was[2] = src /\ Decision(req[r]).handled
      BY <1>5, ExecuteEffect DEF Recorded
    <3>2. req'[r].upstream = Decision(req[r]).upstream
      BY <1>5, <3>1, ExecuteEffect DEF Decision, UpstreamFor, Forwarded
    <3>3. req'[r].shape = req[r].shape /\ req'[r].was = req[r].was
      BY <1>5, ExecuteEffect
    <3> QED
      BY <3>1, <3>2, <3>3, DecisionSent DEF Sent
  <2> QED
    BY <1>5, <2>1, ExecuteEffect
<1>6. CASE Pick(r)
  BY <1>6, PickEffect DEF Sent
<1>7. CASE Answer(r)
  BY <1>7, AnswerEffect DEF Sent
<1> QED
  BY <1>1, <1>2, <1>3, <1>4, <1>5, <1>6, <1>7 DEF Step

(***************************************************************************)
(* An edit unsettles the requests in flight; the others keep what they     *)
(* recorded.                                                               *)
(***************************************************************************)
LEMMA SettledByEdit ==
  ASSUME Recorded, NEW r \in Requests, Settled(req[r], on, src), Edit
  PROVE  Settled(req'[r], on', src')
<1>1. CASE InFlight(r)
  <2>1. req'[r] = [req[r] EXCEPT !.calm = FALSE]
    BY <1>1 DEF Edit
  <2>2. /\ req'[r].pc = req[r].pc /\ req'[r].was = req[r].was /\ req'[r].executed = req[r].executed
        /\ ~req'[r].calm
    BY <2>1 DEF Recorded, Fields
  <2> QED
    BY <2>2 DEF Settled
<1>2. CASE ~InFlight(r)
  <2>1. req'[r] = req[r]
    BY <1>2 DEF Edit
  <2>2. req[r].pc \notin Flying /\ req[r].pc \notin Stages
    BY <1>2 DEF InFlight, Flying, Stages
  <2> QED
    BY <2>1, <2>2 DEF Settled
<1> QED
  BY <1>1, <1>2

LEMMA SettledStep ==
  Recorded /\ (\A r \in Requests : Settled(req[r], on, src)) /\ [GateNext]_gateVars
    => (\A r \in Requests : Settled(req[r], on, src))'
<1> SUFFICES ASSUME Recorded, \A r \in Requests : Settled(req[r], on, src), [GateNext]_gateVars,
                    NEW r \in Requests
             PROVE  Settled(req'[r], on', src')
  OBVIOUS
<1>1. CASE \E t \in Requests : Step(t)
  <2>1. PICK t \in Requests : Step(t)
    BY <1>1
  <2>2. on' = on /\ src' = src
    BY <2>1, StepSets
  <2>3. CASE t = r
    BY <2>1, <2>2, <2>3, SettledByStep
  <2>4. CASE t # r
    <3>1. req'[r] = req[r]
      BY <2>1, <2>4, StepSets DEF Recorded
    <3> QED
      BY <2>2, <3>1
  <2> QED
    BY <2>3, <2>4
<1>2. CASE Edit
  BY <1>2, SettledByEdit
<1>3. CASE \E k \in Keys : OtherPick(k)
  BY <1>3 DEF OtherPick
<1>4. CASE UNCHANGED gateVars
  BY <1>4 DEF gateVars
<1> QED
  BY <1>1, <1>2, <1>3, <1>4 DEF GateNext

(***************************************************************************)
(* While nobody edits, the executor sends what the rules map the client's  *)
(* model to, a rule for the model with its effort before one for the model *)
(* itself: it is never reached for a model they leave alone                *)
(* (handleModelRoute, handleExecutorExecute).                              *)
(***************************************************************************)
THEOREM ExecutorsFollow == GateSpec => []ExecutorFollowsRoute
<1>1. (\A r \in Requests : Settled(req[r], on, src)) => ExecutorFollowsRoute
  BY DEF Settled, Sent, MapsTo, Maps, ExecutorFollowsRoute, Calm, Mapped, Met
<1> QED
  BY <1>1, RecordedInit, RecordedStep, SettledInit, SettledStep, PTL DEF GateSpec
-----------------------------------------------------------------------------
(***************************************************************************)
(* A set of numbers that is not empty has a least one.                     *)
(***************************************************************************)
LEMMA LeastIndex == ASSUME NEW S \in SUBSET Nat, S # {} PROVE \E x \in S : \A y \in S : x <= y
<1>1. PICK R : IsWellFoundedOn(R, Nat) /\ \A x, y \in Nat : x < y => <<x, y>> \in R
  <2> DEFINE R == OpToRel(<, Nat)
  <2>1. IsWellFoundedOn(R, Nat)
    BY NatLessThanWellFounded
  <2>2. \A x, y \in Nat : x < y => <<x, y>> \in R
    BY DEF OpToRel
  <2> HIDE DEF R
  <2> QED
    BY <2>1, <2>2
<1>2. IsWellFoundedOn(R, Nat) /\ S \subseteq Nat /\ S # {}
  BY <1>1
<1>3. PICK x \in S : \A y \in S : ~(<<y, x>> \in R)
  BY <1>2, WFMin
<1>4. \A y \in S : ~(y < x)
  BY <1>1, <1>3
<1> QED
  BY <1>3, <1>4

(***************************************************************************)
(* Ranks in a pool: each is below the size of the pool, no two members     *)
(* have the same, and every one of them is taken.                          *)
(***************************************************************************)
LEMMA RankBelow ==
  ASSUME NEW S \in SUBSET Nat, IsFiniteSet(S), NEW a \in S
  PROVE  Rank(a, S) \in 0..Cardinality(S)-1
<1> DEFINE Low == {b \in S : b < a}
<1>1. /\ IsFiniteSet(Low) /\ Cardinality(Low) \in Nat /\ Cardinality(S) \in Nat
      /\ Low # S => Cardinality(Low) < Cardinality(S)
  BY FS_Subset, FS_CardinalityType
<1>2. Low # S
  OBVIOUS
<1> QED
  BY <1>1, <1>2 DEF Rank

LEMMA RankRises ==
  ASSUME NEW S \in SUBSET Nat, IsFiniteSet(S), NEW a \in S, NEW b \in S, a < b
  PROVE  Rank(a, S) < Rank(b, S)
<1> DEFINE LowA == {c \in S : c < a}
           LowB == {c \in S : c < b}
<1>1. \A c \in S : c \in Nat
  OBVIOUS
<1>2. LowA \in SUBSET LowB /\ LowA # LowB
  <2>1. (\A c \in S : c < a => c < b) /\ ~(a < a)
    BY <1>1
  <2> QED
    BY <2>1
<1>3. IsFiniteSet(LowB)
  BY FS_Subset
<1> HIDE DEF LowA, LowB
<1>4. /\ IsFiniteSet(LowA) /\ Cardinality(LowA) <= Cardinality(LowB)
      /\ Cardinality(LowA) # Cardinality(LowB)
  BY <1>2, <1>3, FS_Subset
<1>5. Cardinality(LowA) \in Nat /\ Cardinality(LowB) \in Nat
  BY <1>3, <1>4, FS_CardinalityType
<1> QED
  BY <1>4, <1>5 DEF Rank, LowA, LowB

LEMMA RankExists ==
  ASSUME NEW S \in SUBSET Nat, IsFiniteSet(S), NEW n \in Nat, n < Cardinality(S)
  PROVE  \E a \in S : Rank(a, S) = n
<1> DEFINE Bad == {k \in 0..Cardinality(S)-1 : ~\E a \in S : Rank(a, S) = k}
<1>0. Cardinality(S) \in Nat /\ \A x \in S : x \in Nat
  BY FS_CardinalityType
<1>1. SUFFICES ASSUME Bad # {} PROVE FALSE
  <2>1. Bad = {} => n \notin Bad
    OBVIOUS
  <2>2. n \in 0..Cardinality(S)-1
    BY <1>0
  <2> QED
    BY <2>1, <2>2
<1>2. PICK k \in Bad : \A j \in Bad : k <= j
  <2>1. Bad \in SUBSET Nat
    OBVIOUS
  <2> QED
    BY <1>1, <2>1, LeastIndex
<1>3. k \in Nat /\ k < Cardinality(S) /\ \A a \in S : Rank(a, S) # k
  BY <1>0, <1>2
<1>4. CASE k = 0
  <2>1. S # {}
    BY <1>3, FS_EmptySet
  <2>2. PICK a \in S : \A b \in S : a <= b
    BY <2>1, LeastIndex
  <2>3. {b \in S : b < a} = {}
    <3>1. \A b \in S : ~(b < a)
      BY <1>0, <2>2
    <3> QED
      BY <3>1
  <2> QED
    BY <1>3, <1>4, <2>3, FS_EmptySet DEF Rank
<1>5. CASE k # 0
  <2>1. k - 1 \notin Bad
    BY <1>2, <1>3
  <2>2. PICK a \in S : Rank(a, S) = k - 1
    BY <1>0, <1>3, <1>5, <2>1
  <2> DEFINE Low  == {b \in S : b < a}
             High == {b \in S : a < b}
  <2>3. IsFiniteSet(Low) /\ Cardinality(Low) = k - 1 /\ a \notin Low
    BY <2>2, FS_Subset DEF Rank
  <2>4. Cardinality(Low \cup {a}) = k
    <3> HIDE DEF Low
    <3>1. Cardinality(Low \cup {a}) = Cardinality(Low) + 1
      BY <2>3, FS_AddElement
    <3> QED
      BY <1>3, <2>3, <3>1
  <2>5. High # {}
    <3>1. High = {} => S = Low \cup {a}
      <4>1. \A b \in S : b < a \/ a < b \/ b = a
        BY <1>0
      <4> QED
        BY <4>1
    <3> HIDE DEF High, Low
    <3> QED
      BY <1>3, <2>4, <3>1
  <2>6. PICK c \in High : \A b \in High : c <= b
    <3>1. High \in SUBSET Nat
      OBVIOUS
    <3> HIDE DEF High
    <3> QED
      BY <2>5, <3>1, LeastIndex
  <2>7. {b \in S : b < c} = Low \cup {a}
    <3>1. \A b \in S : b < c <=> b < a \/ b = a
      <4>1. a < c /\ \A b \in S : a < b => c <= b
        BY <2>6
      <4> QED
        BY <1>0, <2>6, <4>1
    <3> QED
      BY <3>1
  <2> QED
    BY <1>3, <2>4, <2>6, <2>7 DEF Rank
<1> QED
  BY <1>4, <1>5

(***************************************************************************)
(* Quotient and remainder of a counter that moves on by one.               *)
(***************************************************************************)
LEMMA NextTurn ==
  ASSUME NEW C \in Nat, C > 0, NEW n \in Nat
  PROVE  /\ n % C \in 0..C-1 /\ n \div C \in Nat
         /\ (n % C) + 1 < C => (n + 1) % C = (n % C) + 1 /\ (n + 1) \div C = n \div C
         /\ (n % C) + 1 = C => (n + 1) % C = 0 /\ (n + 1) \div C = n \div C + 1
OBVIOUS

-----------------------------------------------------------------------------
(***************************************************************************)
(* What a rotation holds: of the members of its pool, those whose turn is  *)
(* over in the present round were chosen once more than the others.        *)
(***************************************************************************)
Pooled(state) ==
  /\ state.pool \in SUBSET Auths /\ state.next \in Nat /\ DOMAIN state.served = Auths
  /\ \A a \in state.pool :
       LET size == Cardinality(state.pool)
       IN  state.served[a] = state.next \div size + IF Rank(a, state.pool) < state.next % size THEN 1 ELSE 0

LEMMA PoolSize ==
  ASSUME NEW pool \in SUBSET Auths, pool # {}
  PROVE  IsFiniteSet(pool) /\ Cardinality(pool) \in Nat /\ Cardinality(pool) > 0 /\ pool \in SUBSET Nat
<1>1. IsFiniteSet(pool) /\ pool \in SUBSET Nat
  BY AuthsAssumption, FS_Subset
<1>2. Cardinality(pool) \in Nat /\ Cardinality(pool) # 0
  BY <1>1, FS_CardinalityType, FS_EmptySet
<1> QED
  BY <1>1, <1>2

LEMMA TurnPooled ==
  ASSUME NEW state, Pooled(state), NEW pool \in SUBSET Auths, pool # {}
  PROVE  Pooled(Turn(state, pool)) /\ Turn(state, pool).pool = pool
<1>1. CASE state.pool = pool
  BY <1>1 DEF Turn
<1>2. CASE state.pool # pool
  <2>1. Turn(state, pool) = [pool |-> pool, next |-> 0, served |-> [a \in Auths |-> 0]]
    BY <1>2 DEF Turn, Fresh
  <2>2. 0 \div Cardinality(pool) = 0 /\ 0 % Cardinality(pool) = 0
    BY PoolSize
  <2>3. \A a \in pool : Rank(a, pool) \in Nat
    BY PoolSize, RankBelow
  <2>4. \A a \in pool : ~(Rank(a, pool) < 0)
    BY <2>3
  <2> QED
    BY <2>1, <2>2, <2>4 DEF Pooled
<1> QED
  BY <1>1, <1>2

LEMMA ChosenIsNext ==
  ASSUME NEW state, Pooled(state), NEW pool \in SUBSET Auths, pool # {}
  PROVE  /\ Chosen(state, pool) \in pool
         /\ Rank(Chosen(state, pool), pool) = Turn(state, pool).next % Cardinality(pool)
<1> DEFINE n == Turn(state, pool).next % Cardinality(pool)
<1>1. Turn(state, pool).next \in Nat
  BY TurnPooled DEF Pooled
<1>2. n \in Nat /\ n < Cardinality(pool)
  BY <1>1, PoolSize, NextTurn
<1>3. \E a \in pool : Rank(a, pool) = n
  BY <1>2, PoolSize, RankExists
<1> QED
  BY <1>3 DEF Chosen

LEMMA AdvancedPooled ==
  ASSUME NEW state, Pooled(state), NEW pool \in SUBSET Auths, pool # {}
  PROVE  Pooled(Advanced(state, pool))
<1> DEFINE t    == Turn(state, pool)
           a    == Chosen(state, pool)
           size == Cardinality(pool)
           new  == Advanced(state, pool)
<1>1. Pooled(t) /\ t.pool = pool
  BY TurnPooled
<1>2. a \in pool /\ Rank(a, pool) = t.next % size
  BY ChosenIsNext
<1>3. size \in Nat /\ size > 0 /\ pool \in SUBSET Nat /\ IsFiniteSet(pool)
  BY PoolSize
<1>4. new = [pool |-> pool, next |-> t.next + 1, served |-> [t.served EXCEPT ![a] = t.served[a] + 1]]
  BY DEF Advanced
<1> HIDE DEF t, a, size, new
<1>5. t.next \in Nat /\ DOMAIN t.served = Auths
  BY <1>1 DEF Pooled
<1>6. ASSUME NEW b \in pool
      PROVE  new.served[b] = (t.next + 1) \div size + IF Rank(b, pool) < (t.next + 1) % size THEN 1 ELSE 0
  <2> DEFINE q == t.next \div size
             m == t.next % size
  <2>1. t.served[b] = q + IF Rank(b, pool) < m THEN 1 ELSE 0
    BY <1>1 DEF Pooled, size
  <2>2. Rank(b, pool) \in 0..size-1
    BY <1>3, RankBelow DEF size
  <2>3. b # a => Rank(b, pool) # m
    <3>1. b < a \/ a < b \/ a = b
      BY <1>2, <1>3
    <3>2. Rank(a, pool) \in 0..size-1
      BY <1>2, <1>3, RankBelow DEF size
    <3>3. b < a => Rank(b, pool) < Rank(a, pool)
      BY <1>2, <1>3, RankRises
    <3>4. a < b => Rank(a, pool) < Rank(b, pool)
      BY <1>2, <1>3, RankRises
    <3> QED
      BY <1>2, <2>2, <3>1, <3>2, <3>3, <3>4
  <2>4. new.served[b] = IF b = a THEN t.served[b] + 1 ELSE t.served[b]
    BY <1>4, <1>5
  <2>5. /\ m \in 0..size-1 /\ q \in Nat
        /\ m + 1 < size => (t.next + 1) % size = m + 1 /\ (t.next + 1) \div size = q
        /\ m + 1 = size => (t.next + 1) % size = 0 /\ (t.next + 1) \div size = q + 1
    BY <1>3, <1>5, NextTurn
  <2>6. b = a => Rank(b, pool) = m
    BY <1>2
  <2> HIDE DEF q, m
  <2>7. CASE m + 1 < size
    BY <1>3, <2>1, <2>2, <2>3, <2>4, <2>5, <2>6, <2>7
  <2>8. CASE m + 1 = size
    BY <1>3, <2>1, <2>2, <2>3, <2>4, <2>5, <2>6, <2>8
  <2> QED
    BY <1>3, <2>5, <2>7, <2>8
<1>7. /\ new.pool = pool /\ new.next = t.next + 1 /\ DOMAIN new.served = Auths
  BY <1>4, <1>5
<1> QED
  BY <1>5, <1>6, <1>7 DEF Pooled, new, size

(***************************************************************************)
(* Every rotation counts right; a request has one of the shapes, and its   *)
(* candidates are credentials of the host.                                 *)
(***************************************************************************)
Asking(q) == q.cands \subseteq Auths /\ (q.pc # "new" => q.shape.key \in Keys)

Rotating ==
  /\ DOMAIN rotation = Keys /\ \A k \in Keys : Pooled(rotation[k])
  /\ src \in Sources
  /\ \A r \in Requests : Asking(req[r])

LEMMA RotatingInit == GateInit => Rotating
<1> SUFFICES ASSUME GateInit PROVE Rotating
  OBVIOUS
<1>1. ASSUME NEW k \in Keys PROVE Pooled(rotation[k])
  <2>1. rotation[k] = [pool |-> {}, next |-> 0, served |-> [a \in Auths |-> 0]]
    BY DEF GateInit
  <2> QED
    BY <2>1 DEF Pooled
<1>2. NewRequest.pc = "new" /\ NewRequest.cands = {}
  BY DEF NewRequest
<1> QED
  BY <1>1, <1>2 DEF GateInit, Rotating, Asking

(***************************************************************************)
(* What the steps do to the fields only these theorems speak of.           *)
(***************************************************************************)
LEMMA ArriveAsks ==
  ASSUME Recorded, NEW r \in Requests, Arrive(r)
  PROVE  req'[r].shape.key \in Keys /\ req'[r].cands = {} /\ rotation' = rotation
<1>1. PICK s \in Shapes : req' = [req EXCEPT ![r] = [NewRequest EXCEPT !.pc = "access?", !.shape = s,
                            !.fast = s.fast, !.upstream = s.model, !.was = <<on, src>>]]
  BY DEF Arrive, Set
<1>2. NewRequest.cands = {}
  BY DEF NewRequest
<1> QED
  BY <1>1, <1>2, NewRequestFields DEF Arrive, Recorded, Fields, Keys

LEMMA ReadConfigAsks ==
  ASSUME Recorded, NEW r \in Requests, NEW stage \in Stages, ReadConfig(r, stage)
  PROVE  /\ req'[r].cands \subseteq Auths /\ rotation' = rotation
         /\ req'[r].fast = req[r].fast /\ req'[r].auth = req[r].auth
BY DEF ReadConfig, Set, Recorded, Fields

LEMMA AccessFast ==
  ASSUME Recorded, NEW r \in Requests, Access(r)
  PROVE  LET q   == req[r]
             own == KeyBinding(src.bindings, q.shape.key)
         IN  /\ req'[r].cands = q.cands /\ rotation' = rotation
             /\ req'[r].pc = "route?" /\ q.on = TRUE =>
                  /\ ~Blocked(src.bindings, q.shape.key)
                  /\ req'[r].fast /\ own # <<>> => own[1].fastAllowed \/ q.shape.format # "claude"
<1> DEFINE q     == req[r]
           own   == KeyBinding(src.bindings, q.shape.key)
           strip == q.on /\ own # <<>> /\ ~own[1].fastAllowed /\ q.shape.format = "claude"
           denied == q.on /\ Blocked(src.bindings, q.shape.key)
<1>1. /\ rotation' = rotation
      /\ IF denied THEN req' = [req EXCEPT ![r] = [q EXCEPT !.pc = "refused"]]
         ELSE req' = [req EXCEPT ![r] = [q EXCEPT !.pc = "route?", !.fast = q.fast /\ ~strip]]
  BY DEF Access, Set
<1>2. DOMAIN q = Fields /\ DOMAIN req = Requests
  BY DEF Recorded
<1>3. CASE denied
  <2>1. req'[r].pc = "refused" /\ req'[r].cands = q.cands
    BY <1>1, <1>2, <1>3 DEF Fields
  <2> QED
    BY <1>1, <2>1
<1>4. CASE ~denied
  <2> HIDE DEF strip
  <2>1. req'[r].cands = q.cands /\ req'[r].fast = (q.fast /\ ~strip)
    BY <1>1, <1>2, <1>4 DEF Fields
  <2> QED
    BY <1>1, <1>4, <2>1 DEF strip
<1> QED
  BY <1>3, <1>4

LEMMA RouteAsks ==
  ASSUME Recorded, NEW r \in Requests, Route(r)
  PROVE  /\ req'[r].cands = req[r].cands /\ rotation' = rotation
         /\ req'[r].fast = req[r].fast /\ req'[r].auth = req[r].auth
BY DEF Route, Set, Recorded, Fields

LEMMA ExecuteAsks ==
  ASSUME Recorded, NEW r \in Requests, Execute(r)
  PROVE  /\ req'[r].cands = req[r].cands /\ rotation' = rotation
         /\ req'[r].fast = req[r].fast /\ req'[r].auth = req[r].auth
BY DEF Execute, Set, Recorded, Fields

LEMMA AnswerAsks ==
  ASSUME Recorded, NEW r \in Requests, Answer(r)
  PROVE  /\ req'[r].cands = req[r].cands /\ rotation' = rotation
         /\ req'[r].fast = req[r].fast /\ req'[r].auth = req[r].auth
         /\ ~req[r].executed /\ req[r].on = TRUE /\ ActiveTarget(src.bindings, req[r].shape.key) # <<>>
              => req'[r].answer = req[r].shape.model
<1> DEFINE restores == req[r].on /\ ActiveTarget(src.bindings, req[r].shape.key) # <<>>
<1>1. PICK name : req' = [req EXCEPT ![r] = [req[r] EXCEPT !.pc = "served",
                            !.answer = CASE req[r].executed -> req[r].original
                                         [] ~req[r].executed /\ restores -> req[r].shape.model
                                         [] OTHER -> name]]
  BY DEF Answer, Set
<1>2. rotation' = rotation
  BY DEF Answer
<1> QED
  BY <1>1, <1>2 DEF Recorded, Fields

(***************************************************************************)
(* The scheduler serves a request with a channel target from the target's  *)
(* credentials, and whatever it does to a rotation is a turn.              *)
(***************************************************************************)
LEMMA PickServes ==
  ASSUME Recorded, Rotating, NEW r \in Requests, Pick(r), req[r].pc # "new"
  PROVE  LET q      == req[r]
             target == ActiveTarget(src.bindings, q.shape.key)
         IN  /\ req'[r].cands = {} /\ req'[r].fast = q.fast
             /\ DOMAIN rotation' = Keys /\ \A k \in Keys : Pooled(rotation'[k])
             /\ q.on = TRUE /\ target # <<>> /\ req'[r].pc = "answer?" =>
                  req'[r].auth # {} /\ req'[r].auth \subseteq target[1].target.auths
<1> DEFINE q      == req[r]
           key    == q.shape.key
           target == ActiveTarget(src.bindings, key)
           bound  == q.on /\ target # <<>>
           pool   == IF bound THEN q.cands \intersect target[1].target.auths ELSE q.cands
           served(a) == req' = [req EXCEPT ![r] = [q EXCEPT !.pc = "answer?", !.auth = {a}, !.cands = {}]]
<1>1. \/ pool = {} /\ req' = [req EXCEPT ![r] = [q EXCEPT !.pc = "refused", !.cands = {}]] /\ rotation' = rotation
      \/ ~bound /\ (\E a \in pool : served(a)) /\ rotation' = rotation
      \/ /\ bound /\ pool # {} /\ served(Chosen(rotation[key], pool))
         /\ rotation' = [rotation EXCEPT ![key] = Advanced(rotation[key], pool)]
  BY DEF Pick, Set
<1>2. /\ DOMAIN q = Fields /\ DOMAIN req = Requests /\ key \in Keys /\ q.cands \subseteq Auths
      /\ DOMAIN rotation = Keys /\ \A k \in Keys : Pooled(rotation[k])
  BY DEF Recorded, Rotating, Asking
<1>3. pool \in SUBSET Auths
  BY <1>2
<1>4. bound => pool \subseteq target[1].target.auths
  OBVIOUS
<1>5. q.on = TRUE /\ target # <<>> => bound
  OBVIOUS
<1> HIDE DEF q, key, target, bound, pool
<1>6. \A a : served(a) => req'[r].pc = "answer?" /\ req'[r].auth = {a} /\ req'[r].cands = {} /\ req'[r].fast = q.fast
  BY <1>2 DEF Fields
<1>7. CASE pool = {} /\ req' = [req EXCEPT ![r] = [q EXCEPT !.pc = "refused", !.cands = {}]] /\ rotation' = rotation
  <2>1. req'[r].pc = "refused" /\ req'[r].cands = {} /\ req'[r].fast = q.fast
    BY <1>2, <1>7 DEF Fields
  <2> QED
    BY <1>2, <1>7, <2>1 DEF q
<1>8. CASE ~bound /\ (\E a \in pool : served(a)) /\ rotation' = rotation
  BY <1>2, <1>5, <1>6, <1>8 DEF q, key, target
<1>9. CASE /\ bound /\ pool # {} /\ served(Chosen(rotation[key], pool))
           /\ rotation' = [rotation EXCEPT ![key] = Advanced(rotation[key], pool)]
  <2>1. Chosen(rotation[key], pool) \in pool /\ Pooled(Advanced(rotation[key], pool))
    BY <1>2, <1>3, <1>9, ChosenIsNext, AdvancedPooled
  <2>2. DOMAIN rotation' = Keys /\ \A k \in Keys : Pooled(rotation'[k])
    BY <1>2, <1>9, <2>1
  <2>3. req'[r].auth # {} /\ req'[r].auth \subseteq target[1].target.auths
    <3> HIDE DEF served
    <3>1. req'[r].auth = {Chosen(rotation[key], pool)}
      BY <1>6, <1>9
    <3> QED
      BY <1>4, <1>9, <2>1, <3>1
  <2> QED
    BY <1>6, <1>9, <2>2, <2>3 DEF q, key, target
<1> QED
  BY <1>1, <1>7, <1>8, <1>9

LEMMA RotatingByStep ==
  ASSUME Recorded, Rotating, NEW r \in Requests, Step(r)
  PROVE  /\ DOMAIN rotation' = Keys /\ \A k \in Keys : Pooled(rotation'[k])
         /\ Asking(req'[r])
<1> USE DEF Rotating, Asking
<1>1. CASE Arrive(r)
  BY <1>1, ArriveAsks
<1>2. CASE \E stage \in Stages : ReadConfig(r, stage)
  BY <1>2, ReadConfigEffect, ReadConfigAsks DEF Asked, Stages, Kept
<1>3. CASE Access(r)
  BY <1>3, AccessEffect, AccessFast DEF Kept
<1>4. CASE Route(r)
  BY <1>4, RouteEffect, RouteAsks DEF Kept
<1>5. CASE Execute(r)
  BY <1>5, ExecuteEffect, ExecuteAsks
<1>6. CASE Pick(r)
  BY <1>6, PickEffect, PickServes DEF Kept
<1>7. CASE Answer(r)
  BY <1>7, AnswerEffect, AnswerAsks DEF Kept
<1> QED
  BY <1>1, <1>2, <1>3, <1>4, <1>5, <1>6, <1>7 DEF Step

LEMMA RotatingStep == Recorded /\ Rotating /\ [GateNext]_gateVars => Rotating'
<1> SUFFICES ASSUME Recorded, Rotating, [GateNext]_gateVars PROVE Rotating'
  OBVIOUS
<1>1. CASE \E t \in Requests : Step(t)
  <2>1. PICK t \in Requests : Step(t)
    BY <1>1
  <2>2. /\ DOMAIN rotation' = Keys /\ \A k \in Keys : Pooled(rotation'[k])
        /\ Asking(req'[t])
    BY <2>1, RotatingByStep
  <2>3. src' = src /\ \A r \in Requests : r # t => req'[r] = req[r]
    BY <2>1, StepSets DEF Recorded
  <2> QED
    BY <2>2, <2>3 DEF Rotating
<1>2. CASE Edit
  <2>1. src' \in Sources /\ rotation' = rotation
    BY <1>2 DEF Edit, Rotating
  <2>2. ASSUME NEW r \in Requests
        PROVE  req'[r].pc = req[r].pc /\ req'[r].shape = req[r].shape /\ req'[r].cands = req[r].cands
    BY <1>2 DEF Edit, Recorded, Fields
  <2> QED
    BY <2>1, <2>2 DEF Rotating, Asking
<1>3. CASE \E k \in Keys : OtherPick(k)
  <2>1. PICK k \in Keys, pool \in (SUBSET Auths) \ {{}} :
          /\ rotation' = [rotation EXCEPT ![k] = Advanced(rotation[k], pool)]
          /\ UNCHANGED <<src, req>>
    BY <1>3 DEF OtherPick
  <2>2. Pooled(Advanced(rotation[k], pool))
    BY AdvancedPooled DEF Rotating
  <2> QED
    BY <2>1, <2>2 DEF Rotating
<1>4. CASE UNCHANGED gateVars
  BY <1>4 DEF gateVars, Rotating
<1> QED
  BY <1>1, <1>2, <1>3, <1>4 DEF GateNext

(***************************************************************************)
(* The credentials of a channel target take turns, whichever requests are  *)
(* interleaved and whatever the pools (channelRoundRobin.pick).            *)
(***************************************************************************)
THEOREM TurnsAreEven == GateSpec => []EvenShare
<1>1. Rotating => EvenShare
  <2> SUFFICES ASSUME Rotating, NEW k \in Keys, NEW a \in rotation[k].pool, NEW b \in rotation[k].pool
               PROVE  rotation[k].served[a] <= rotation[k].served[b] + 1
    BY DEF EvenShare
  <2> DEFINE size == Cardinality(rotation[k].pool)
             q    == rotation[k].next \div size
  <2>1. /\ rotation[k].pool \in SUBSET Auths /\ rotation[k].next \in Nat
        /\ \A c \in rotation[k].pool :
             rotation[k].served[c] = q + IF Rank(c, rotation[k].pool) < rotation[k].next % size THEN 1 ELSE 0
    BY DEF Rotating, Pooled
  <2>2. q \in Nat
    BY <2>1, PoolSize, NextTurn
  <2> HIDE DEF q
  <2>3. \A c \in rotation[k].pool : rotation[k].served[c] \in {q, q + 1}
    BY <2>1, <2>2
  <2> QED
    BY <2>2, <2>3
<1> QED
  BY <1>1, RecordedInit, RecordedStep, RotatingInit, RotatingStep, PTL DEF GateSpec

-----------------------------------------------------------------------------
(***************************************************************************)
(* A key one of whose bindings is blocked is denied; so where access was   *)
(* granted, the first binding of the key is not blocked.                   *)
(***************************************************************************)
LEMMA GrantedIsOpen ==
  ASSUME NEW bindings, DOMAIN bindings \subseteq Nat, NEW key,
         ~Blocked(bindings, key), KeyBinding(bindings, key) # <<>>
  PROVE  ~KeyBinding(bindings, key)[1].blocked
<1> DEFINE own   == BindingsOf(bindings, key)
           first == CHOOSE i \in own : \A j \in own : i <= j
<1>1. own \in SUBSET Nat
  BY DEF BindingsOf
<1>2. own # {} /\ KeyBinding(bindings, key) = <<bindings[first]>>
  BY DEF KeyBinding
<1>3. \E i \in own : \A j \in own : i <= j
  BY <1>1, <1>2, LeastIndex
<1>4. first \in own
  BY <1>3
<1> HIDE DEF first
<1> QED
  BY <1>2, <1>4 DEF Blocked

(***************************************************************************)
(* A channel target leaves the model to the client, with or without an     *)
(* effort.                                                                 *)
(***************************************************************************)
LEMMA TargetIsNotMapped ==
  ASSUME NEW o \in BOOLEAN, NEW s, NEW format, NEW model, NEW key, NEW effort,
         ActiveTarget(s.bindings, key) # <<>>
  PROVE  ~RouteForRequest(o, s, format, model, key, effort).handled
<1>1. ~Unhandled.handled /\ ~Unhandled.error
  BY DEF Unhandled
<1>2. \A m : RouteModel(o, s, format, m, key) = Unhandled
  BY DEF RouteModel
<1> QED
  BY <1>1, <1>2 DEF RouteForRequest, LongFirst

(***************************************************************************)
(* What a calm request has got from the binding and the target it met.     *)
(***************************************************************************)
Granted == {"route?", "route", "exec?", "exec", "pick?", "pick", "answer?", "answer", "served"}

BindingOf(q) == KeyBinding(q.was[2].bindings, q.shape.key)
TargetOf(q)  == ActiveTarget(q.was[2].bindings, q.shape.key)

Open(q) ==
  /\ ~BindingOf(q)[1].blocked
  /\ q.fast => BindingOf(q)[1].fastAllowed \/ q.shape.format # "claude"

Bound(q) ==
  /\ ~q.executed
  /\ q.pc \in {"answer?", "answer", "served"} => q.auth # {} /\ q.auth \subseteq TargetOf(q)[1].target.auths
  /\ q.pc = "served" => q.answer = q.shape.model

Guarded(q) ==
  q.calm /\ q.was # <<>> /\ q.was[1] =>
    /\ q.pc \in Granted /\ BindingOf(q) # <<>> => Open(q)
    /\ TargetOf(q) # <<>> => Bound(q)

LEMMA GuardedInit == GateInit => \A r \in Requests : Guarded(req[r])
BY DEF GateInit, Guarded, NewRequest

LEMMA GuardedByStep ==
  ASSUME Recorded, Rotating, NEW r \in Requests, Settled(req[r], on, src), Guarded(req[r]), Step(r)
  PROVE  Guarded(req'[r])
<1> DEFINE old == req[r]
           new == req'[r]
<1> USE DEF Stages
<1>1. CASE Arrive(r)
  BY <1>1, ArriveEffect DEF Guarded, Granted, Bound
<1> SUFFICES ASSUME ~Arrive(r), new.calm, new.was # <<>>, new.was[1]
             PROVE  /\ new.pc \in Granted /\ BindingOf(new) # <<>> => Open(new)
                    /\ TargetOf(new) # <<>> => Bound(new)
  BY <1>1 DEF Guarded
<1>2. /\ new.shape = old.shape /\ new.was = old.was /\ new.calm = old.calm
      /\ BindingOf(new) = BindingOf(old) /\ TargetOf(new) = TargetOf(old)
  <2>1. new.shape = old.shape /\ new.was = old.was /\ new.calm = old.calm
    <3>1. ASSUME Kept(old, new) PROVE new.shape = old.shape /\ new.was = old.was /\ new.calm = old.calm
      BY <3>1 DEF Kept
    <3>2. CASE \E stage \in Stages : ReadConfig(r, stage)
      BY <3>1, <3>2, ReadConfigEffect
    <3>3. CASE Access(r)
      BY <3>1, <3>3, AccessEffect
    <3>4. CASE Route(r)
      BY <3>1, <3>4, RouteEffect
    <3>5. CASE Execute(r)
      BY <3>5, ExecuteEffect
    <3>6. CASE Pick(r)
      BY <3>1, <3>6, PickEffect
    <3>7. CASE Answer(r)
      BY <3>1, <3>7, AnswerEffect
    <3> QED
      BY <3>2, <3>3, <3>4, <3>5, <3>6, <3>7 DEF Step
  <2> QED
    BY <2>1 DEF BindingOf, TargetOf
<1>3. /\ old.pc \in Granted /\ BindingOf(old) # <<>> => Open(old)
      /\ TargetOf(old) # <<>> => Bound(old)
  BY <1>2 DEF Guarded
<1>4. old.pc \in Stages => old.on = TRUE /\ old.was[2] = src
  BY <1>2 DEF Settled, Flying, Recorded
<1>5. CASE \E stage \in Stages : ReadConfig(r, stage)
  <2>1. PICK stage \in Stages : ReadConfig(r, stage)
    BY <1>5
  <2>2. /\ old.pc = Asked[stage] /\ new.pc = stage /\ new.executed = old.executed
        /\ new.fast = old.fast /\ new.auth = old.auth
    BY <2>1, ReadConfigEffect, ReadConfigAsks DEF Kept
  <2>3. /\ new.pc \in Granted => old.pc \in Granted
        /\ new.pc = "answer" => old.pc = "answer?"
        /\ new.pc \notin {"answer?", "served"}
    BY <2>2 DEF Granted, Asked
  <2> QED
    BY <1>2, <1>3, <2>2, <2>3 DEF Open, Bound
<1>6. CASE Access(r)
  <2>1. /\ old.pc = "access" /\ new.pc \in {"refused", "route?"} /\ new.executed = old.executed
        /\ new.pc = "route?" /\ old.on = TRUE =>
              /\ ~Blocked(src.bindings, old.shape.key)
              /\ new.fast /\ KeyBinding(src.bindings, old.shape.key) # <<>> =>
                   KeyBinding(src.bindings, old.shape.key)[1].fastAllowed \/ old.shape.format # "claude"
    BY <1>6, AccessEffect, AccessFast DEF Kept
  <2>2. old.on = TRUE /\ BindingOf(old) = KeyBinding(src.bindings, old.shape.key)
    BY <1>4, <2>1 DEF BindingOf
  <2>3. DOMAIN src.bindings \subseteq Nat
    BY SourcesAssumption DEF Rotating
  <2>4. ASSUME new.pc = "route?", BindingOf(old) # <<>> PROVE Open(new)
    <3>1. ~BindingOf(old)[1].blocked
      BY <2>1, <2>2, <2>3, <2>4, GrantedIsOpen
    <3> QED
      BY <1>2, <2>1, <2>2, <2>4, <3>1 DEF Open
  <2>5. TargetOf(new) # <<>> => Bound(new)
    BY <1>2, <1>3, <2>1 DEF Bound
  <2> QED
    BY <1>2, <2>1, <2>4, <2>5 DEF Granted
<1>7. CASE Route(r)
  <2>1. /\ old.pc = "route" /\ new.pc \in {"failed", "exec?", "pick?"} /\ new.executed = old.executed
        /\ new.fast = old.fast
    BY <1>7, RouteEffect, RouteAsks DEF Kept
  <2> QED
    BY <1>2, <1>3, <2>1 DEF Granted, Open, Bound
<1>8. CASE Execute(r)
  <2>1. old.pc = "exec" /\ new.pc = "pick?" /\ new.fast = old.fast
    BY <1>8, ExecuteEffect, ExecuteAsks
  <2>2. Decision(old).handled
    BY <1>2, <2>1 DEF Settled
  <2>3. TargetOf(old) = <<>>
    BY <2>2, TargetIsNotMapped DEF Decision, TargetOf
  <2> QED
    BY <1>2, <1>3, <2>1, <2>3 DEF Granted, Open
<1>9. CASE Pick(r)
  <2>1. /\ old.pc = "pick" /\ new.pc \in {"refused", "answer?"} /\ new.executed = old.executed
        /\ new.fast = old.fast
        /\ old.on = TRUE /\ ActiveTarget(src.bindings, old.shape.key) # <<>> /\ new.pc = "answer?" =>
             new.auth # {} /\ new.auth \subseteq ActiveTarget(src.bindings, old.shape.key)[1].target.auths
    BY <1>9, PickEffect, PickServes DEF Kept
  <2>2. old.on = TRUE /\ TargetOf(old) = ActiveTarget(src.bindings, old.shape.key)
    BY <1>4, <2>1 DEF TargetOf
  <2> QED
    BY <1>2, <1>3, <2>1, <2>2 DEF Granted, Open, Bound
<1>10. CASE Answer(r)
  <2>1. /\ old.pc = "answer" /\ new.pc = "served" /\ new.executed = old.executed
        /\ new.fast = old.fast /\ new.auth = old.auth
        /\ ~old.executed /\ old.on = TRUE /\ ActiveTarget(src.bindings, old.shape.key) # <<>>
              => new.answer = old.shape.model
    BY <1>10, AnswerEffect, AnswerAsks DEF Kept
  <2>2. old.on = TRUE /\ TargetOf(old) = ActiveTarget(src.bindings, old.shape.key)
    BY <1>4, <2>1 DEF TargetOf
  <2> QED
    BY <1>2, <1>3, <2>1, <2>2 DEF Granted, Open, Bound
<1> QED
  BY <1>5, <1>6, <1>7, <1>8, <1>9, <1>10 DEF Step

LEMMA GuardedStep ==
  /\ Recorded /\ Rotating /\ \A r \in Requests : Settled(req[r], on, src)
  /\ \A r \in Requests : Guarded(req[r])
  /\ [GateNext]_gateVars
  => (\A r \in Requests : Guarded(req[r]))'
<1> SUFFICES ASSUME Recorded, Rotating, \A r \in Requests : Settled(req[r], on, src),
                    \A r \in Requests : Guarded(req[r]), [GateNext]_gateVars, NEW r \in Requests
             PROVE  Guarded(req'[r])
  OBVIOUS
<1>1. CASE \E t \in Requests : Step(t)
  <2>1. PICK t \in Requests : Step(t)
    BY <1>1
  <2>2. CASE t = r
    BY <2>1, <2>2, GuardedByStep
  <2>3. CASE t # r
    BY <2>1, <2>3, StepSets DEF Recorded
  <2> QED
    BY <2>2, <2>3
<1>2. CASE Edit
  <2>1. CASE InFlight(r)
    <3>1. ~req'[r].calm
      BY <1>2, <2>1 DEF Edit, Recorded, Fields
    <3> QED
      BY <3>1 DEF Guarded
  <2>2. CASE ~InFlight(r)
    BY <1>2, <2>2 DEF Edit
  <2> QED
    BY <2>1, <2>2
<1>3. CASE \E k \in Keys : OtherPick(k)
  BY <1>3 DEF OtherPick
<1>4. CASE UNCHANGED gateVars
  BY <1>4 DEF gateVars
<1> QED
  BY <1>1, <1>2, <1>3, <1>4 DEF GateNext

LEMMA AlwaysGuarded == GateSpec => [](\A r \in Requests : Guarded(req[r]))
BY RecordedInit, RecordedStep, SettledInit, SettledStep, RotatingInit, RotatingStep, GuardedInit, GuardedStep, PTL
   DEF GateSpec

(***************************************************************************)
(* Whoever else is served or picked meanwhile: a request of a key with a   *)
(* channel target is served by one of its channels, never mapped, and      *)
(* answered under its own model name (routeModel, handleSchedulerPick,     *)
(* handleResponseInterceptAfter).                                          *)
(***************************************************************************)
THEOREM TargetsHold == GateSpec => []TargetHolds
<1>1. (\A r \in Requests : Guarded(req[r])) => TargetHolds
  BY DEF Guarded, Bound, TargetOf, TargetHolds, Calm, Met
<1> QED
  BY <1>1, AlwaysGuarded, PTL

(***************************************************************************)
(* A blocked key is never served, and a fast mode that its binding does    *)
(* not allow never goes upstream (handleRequestInterceptBefore).           *)
(***************************************************************************)
THEOREM AccessIsHeld == GateSpec => []AccessHolds
<1>1. (\A r \in Requests : Guarded(req[r])) => AccessHolds
  BY DEF Guarded, Granted, Open, BindingOf, AccessHolds, Calm, Met
<1> QED
  BY <1>1, AlwaysGuarded, PTL

=============================================================================
