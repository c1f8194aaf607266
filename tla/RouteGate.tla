----------------------------- MODULE RouteGate -----------------------------
(***************************************************************************)
(* One request on its way through the plugin, handler by handler: the      *)
(* access check before authentication, the model route, the executor for a *)
(* mapped model, the choice of a credential, the answer.  Every handler of *)
(* src/main.go reads the configuration and the live state anew, one lock   *)
(* after the other, while the operator edits both; the round robin over    *)
(* the credentials of a channel target is shared by all requests.          *)
(*                                                                         *)
(* A request has a key, a format, a model, a reasoning effort and a fast   *)
(* mode, and its answer comes in one piece (the chunks of a stream pass    *)
(* handleResponseInterceptAfter untouched).  Credentials are numbers in    *)
(* the order of their identifiers.                                         *)
(***************************************************************************)
EXTENDS Routing, FiniteSets

CONSTANTS Requests,     \* the requests followed
          Shapes,       \* what a request may ask for
          Sources,      \* the live states the operator may install
          Auths,        \* the credentials of the host
          MaxEdits,     \* bound: edits of the configuration or the live state
          MaxOthers     \* bound: choices made for requests not followed

ASSUME AuthsAssumption == Auths \subseteq Nat /\ IsFiniteSet(Auths)
ASSUME SourcesAssumption == \A s \in Sources : DOMAIN s.bindings \subseteq Nat

VARIABLES on,           \* loadedCfg.Enabled
          src,          \* the live rules and bindings
          rotation,     \* channelRoundRobin.states
          req,          \* the requests
          edits, others \* what the bounds bound

gateVars == <<on, src, rotation, req, edits, others>>

Keys == {s.key : s \in Shapes}
NoShape == [key |-> NoKey, format |-> "none", model |-> <<>>, effort |-> "none", fast |-> FALSE]

NewRequest ==
  [pc |-> "new", shape |-> NoShape, on |-> FALSE, executed |-> FALSE, fast |-> FALSE, upstream |-> <<>>,
   original |-> <<>>, cands |-> {}, auth |-> {}, answer |-> <<>>, was |-> <<>>, calm |-> TRUE]

(***************************************************************************)
(* The last component of a rotation counts, since the pool last changed,   *)
(* how often each credential was chosen: a history that nothing reads.     *)
(***************************************************************************)
GateInit ==
  /\ on = TRUE
  /\ src \in Sources
  /\ rotation = [k \in Keys |-> [pool |-> {}, next |-> 0, served |-> [a \in Auths |-> 0]]]
  /\ req = [r \in Requests |-> NewRequest]
  /\ edits = 0
  /\ others = 0

Set(r, new) == req' = [req EXCEPT ![r] = new]

-----------------------------------------------------------------------------
Arrive(r) ==
  /\ req[r].pc = "new"
  /\ \E s \in Shapes :
       Set(r, [NewRequest EXCEPT !.pc = "access?", !.shape = s, !.fast = s.fast, !.upstream = s.model,
                                 !.was = <<on, src>>])
  /\ UNCHANGED <<on, src, rotation, edits, others>>

(***************************************************************************)
(* Every handler begins with loadedConfig(); "access?" waits for that      *)
(* reading, "access" for the one of the live state.  The candidates come   *)
(* with the call of the scheduler.                                         *)
(***************************************************************************)
Stages == {"access", "route", "exec", "pick", "answer"}
Asked == [access |-> "access?", route |-> "route?", exec |-> "exec?", pick |-> "pick?", answer |-> "answer?"]

ReadConfig(r, stage) ==
  /\ req[r].pc = Asked[stage]
  /\ \E cands \in SUBSET Auths :
       /\ stage = "pick" \/ cands = {}
       /\ Set(r, [req[r] EXCEPT !.pc = stage, !.on = on, !.cands = cands])
  /\ UNCHANGED <<on, src, rotation, edits, others>>

(***************************************************************************)
(* handleRequestInterceptBefore: a blocked key ends here; the fast mode of *)
(* a Claude request is taken out when the binding does not allow it.       *)
(***************************************************************************)
Access(r) ==
  LET q   == req[r]
      own == KeyBinding(src.bindings, q.shape.key)
      strip == q.on /\ own # <<>> /\ ~own[1].fastAllowed /\ q.shape.format = "claude"
  IN  /\ q.pc = "access"
      /\ IF q.on /\ Blocked(src.bindings, q.shape.key)
         THEN Set(r, [q EXCEPT !.pc = "refused"])
         ELSE Set(r, [q EXCEPT !.pc = "route?", !.fast = q.fast /\ ~strip])
      /\ UNCHANGED <<on, src, rotation, edits, others>>

(***************************************************************************)
(* handleModelRoute: the plugin's own executor serves a mapped model.      *)
(***************************************************************************)
Route(r) ==
  LET q == req[r]
      d == RouteForRequest(q.on, src, q.shape.format, q.shape.model, q.shape.key, q.shape.effort)
  IN  /\ q.pc = "route"
      /\ Set(r, [q EXCEPT !.pc = IF d.error THEN "failed" ELSE IF d.handled THEN "exec?" ELSE "pick?"])
      /\ UNCHANGED <<on, src, rotation, edits, others>>

(***************************************************************************)
(* The executor routes again; the host then executes the upstream model,   *)
(* with the client's headers, so the scheduler is asked as well.           *)
(***************************************************************************)
Execute(r) ==
  LET q == req[r]
      u == UpstreamFor(q.on, src, q.shape.format, q.shape.model, q.shape.key, q.shape.effort)
  IN  /\ q.pc = "exec"
      /\ Set(r, [q EXCEPT !.pc = "pick?", !.executed = TRUE, !.upstream = u.upstream, !.original = u.original])
      /\ UNCHANGED <<on, src, rotation, edits, others>>

(***************************************************************************)
(* handleSchedulerPick and channelRoundRobin.pick: the pool is what the    *)
(* host offers and the target selects; the rotation begins anew whenever   *)
(* the pool is another one.                                                *)
(***************************************************************************)
Fresh(pool) == [pool |-> pool, next |-> 0, served |-> [a \in Auths |-> 0]]

Turn(state, pool) == IF state.pool = pool THEN state ELSE Fresh(pool)

Rank(a, pool) == Cardinality({b \in pool : b < a})

Chosen(state, pool) == CHOOSE a \in pool : Rank(a, pool) = Turn(state, pool).next % Cardinality(pool)

\* Mutant of Advanced: a pool seen for the first time does not move on.
AdvancedIfKnown(state, pool) ==
  LET t == Turn(state, pool)
      a == Chosen(state, pool)
  IN  [pool |-> pool, next |-> IF state.pool = pool THEN t.next + 1 ELSE 0,
       served |-> [t.served EXCEPT ![a] = t.served[a] + 1]]

Advanced(state, pool) ==
  LET t == Turn(state, pool)
      a == Chosen(state, pool)
  IN  [pool |-> pool, next |-> t.next + 1, served |-> [t.served EXCEPT ![a] = t.served[a] + 1]]

Pick(r) ==
  LET q      == req[r]
      target == ActiveTarget(src.bindings, q.shape.key)
      bound  == q.on /\ target # <<>>
      pool   == IF bound THEN q.cands \intersect target[1].target.auths ELSE q.cands
      serve(a) == Set(r, [q EXCEPT !.pc = "answer?", !.auth = {a}, !.cands = {}])
  IN  /\ q.pc = "pick"
      /\ \/ pool = {} /\ Set(r, [q EXCEPT !.pc = "refused", !.cands = {}]) /\ UNCHANGED rotation
         \/ ~bound /\ (\E a \in pool : serve(a)) /\ UNCHANGED rotation
         \/ /\ bound /\ pool # {}
            /\ serve(Chosen(rotation[q.shape.key], pool))
            /\ rotation' = [rotation EXCEPT ![q.shape.key] = Advanced(rotation[q.shape.key], pool)]
      /\ UNCHANGED <<on, src, edits, others>>

(***************************************************************************)
(* The answer.  An executor puts the original name back; for the others    *)
(* handleResponseInterceptAfter does where the key has a channel target.   *)
(* The upstream answers with the name it was asked for or one of its own.  *)
(***************************************************************************)
Vendor == <<"v">>

Answer(r) ==
  LET q == req[r]
      restores == q.on /\ ActiveTarget(src.bindings, q.shape.key) # <<>>
  IN  /\ q.pc = "answer"
      /\ \E name \in {q.upstream, Vendor} :
           Set(r, [q EXCEPT !.pc = "served",
                            !.answer = CASE q.executed -> q.original
                                         [] ~q.executed /\ restores -> q.shape.model
                                         [] OTHER -> name])
      /\ UNCHANGED <<on, src, rotation, edits, others>>

-----------------------------------------------------------------------------
(***************************************************************************)
(* The operator switches the plugin or saves rules and bindings; a request *)
(* under way is no longer calm.  Requests that are not followed take their *)
(* turns in the rotation, with any target one of the live states had.      *)
(***************************************************************************)
InFlight(r) == req[r].pc \notin {"new", "served", "refused", "failed"}

Edit ==
  /\ edits < MaxEdits
  /\ edits' = edits + 1
  /\ \/ on' = ~on /\ UNCHANGED src
     \/ src' \in Sources \ {src} /\ UNCHANGED on
  /\ req' = [r \in Requests |-> IF InFlight(r) THEN [req[r] EXCEPT !.calm = FALSE] ELSE req[r]]
  /\ UNCHANGED <<rotation, others>>

OtherPick(key) ==
  /\ others < MaxOthers
  /\ others' = others + 1
  /\ \E s \in Sources : \E pool \in (SUBSET Auths) \ {{}} :
       LET target == ActiveTarget(s.bindings, key)
       IN  /\ target # <<>> /\ pool \subseteq target[1].target.auths
           /\ rotation' = [rotation EXCEPT ![key] = Advanced(rotation[key], pool)]
  /\ UNCHANGED <<on, src, req, edits>>

Step(r) ==
  \/ Arrive(r)
  \/ \E stage \in Stages : ReadConfig(r, stage)
  \/ Access(r) \/ Route(r) \/ Execute(r) \/ Pick(r) \/ Answer(r)

GateNext ==
  \/ \E r \in Requests : Step(r)
  \/ Edit
  \/ \E k \in Keys : OtherPick(k)

GateSpec == GateInit /\ [][GateNext]_gateVars

-----------------------------------------------------------------------------
(***************************************************************************)
(* A request during which nobody edited anything, the live state it met at *)
(* its arrival, with the plugin switched on, and its binding there.        *)
(***************************************************************************)
Calm(r) == req[r].calm /\ req[r].was # <<>> /\ req[r].was[1]
Met(r)  == req[r].was[2]

(***************************************************************************)
(* The handlers read configuration and live state independently of each    *)
(* other, and yet agree: a request of a key with a channel target is       *)
(* served by one of its channels and nothing else, it is never mapped, and *)
(* it is answered under the name it asked for (routeModel,                 *)
(* handleSchedulerPick, handleResponseInterceptAfter).                     *)
(***************************************************************************)
TargetHolds ==
  \A r \in Requests :
    LET q == req[r]
        target == ActiveTarget(Met(r).bindings, q.shape.key)
    IN  Calm(r) /\ q.pc = "served" /\ target # <<>> =>
          q.auth # {} /\ q.auth \subseteq target[1].target.auths /\ ~q.executed /\ q.answer = q.shape.model

(***************************************************************************)
(* Whatever the operator does between the route and the executor, and      *)
(* although an effort may take part as a suffix, an executed request is    *)
(* answered under the model name the client asked for.                     *)
(***************************************************************************)
AnswerNamesRequest ==
  \A r \in Requests : req[r].pc = "served" /\ req[r].executed => req[r].answer = req[r].shape.model

(***************************************************************************)
(* When nobody edits, the executor sends upstream what the two layers of   *)
(* rules make of the client's model with its effort as a suffix; where     *)
(* they leave that name alone, and only there, what they make of the model *)
(* itself.  Route and executor, which decide one after the other, agree    *)
(* that the model is mapped and to what (routeModelForRequest).            *)
(***************************************************************************)
Mapped(r, model) == TwoLayers(Met(r), req[r].shape.format, model, req[r].shape.key).model

ExecutorFollowsRoute ==
  \A r \in Requests :
    LET s      == req[r].shape
        effort == CodexEffort(s.format, s.model, s.effort)
        long   == Qualified(s.model, effort)
        wins   == effort # "none" /\ Mapped(r, long) # long
    IN  Calm(r) /\ req[r].executed =>
          \/ wins /\ req[r].upstream = Mapped(r, long)
          \/ ~wins /\ req[r].upstream = Mapped(r, s.model) /\ Mapped(r, s.model) # s.model

(***************************************************************************)
(* A key that is blocked when its request arrives and stays blocked is     *)
(* never served, and a fast mode its binding does not allow never goes     *)
(* upstream, on whichever path.                                            *)
(***************************************************************************)
AccessHolds ==
  \A r \in Requests :
    LET q   == req[r]
        own == KeyBinding(Met(r).bindings, q.shape.key)
    IN  Calm(r) /\ q.pc = "served" /\ own # <<>> =>
          ~own[1].blocked /\ (q.fast => own[1].fastAllowed \/ q.shape.format # "claude")

(***************************************************************************)
(* As long as the pool of a key stays the same, its credentials take turns *)
(* in every interleaving of requests: no two were chosen a different       *)
(* number of times by more than one (channelRoundRobin.pick).              *)
(***************************************************************************)
EvenShare ==
  \A k \in Keys : \A a, b \in rotation[k].pool : rotation[k].served[a] <= rotation[k].served[b] + 1

=============================================================================
