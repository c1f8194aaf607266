----------------------------- MODULE MemberProofs -----------------------------
(***************************************************************************)
(* A flight of the member picker has one leader for as long as it lasts,   *)
(* for every directory, every number of requests and every bound: nothing  *)
(* a walk does depends on more than its own service, and whatever ends it  *)
(* ends the flight and wakes everyone who shares it.                       *)
(*                                                                         *)
(* A list that is called ready is the whole directory or full, for every   *)
(* directory the platforms may have, unless a listing was cut short.  The  *)
(* invariant follows the walk of a flight: a page number says which pages  *)
(* of a listing were taken; what is visited is closed under children but   *)
(* for what the queue holds, so an empty queue means that every department *)
(* below the roots is listed; a cursor says which pages of its department  *)
(* were taken, so cursors at their ends mean that every visible row was.   *)
(* That nobody is listed who is not in the directory, nobody twice and no  *)
(* more than MaxMembers needs none of this, and so holds of a short list.  *)
(*                                                                         *)
(* A registry that is cleared leaves the flights of its services running   *)
(* without it; of those a request may still join there are few.            *)
(***************************************************************************)
EXTENDS MemberPicker, Inductions

(***************************************************************************)
(* The fields of a request and of a service.                               *)
(***************************************************************************)
Recorded ==
  /\ DOMAIN req = Requests
  /\ \A r \in Requests : DOMAIN req[r] = {"pc", "key", "answer"}
  /\ DOMAIN service = Keys
  /\ \A k \in Keys : DOMAIN service[k] = {"cached", "fresh", "cooling", "flight"}

On(k, pc) == {r \in Requests : req[r].key = k /\ req[r].pc = pc}

(***************************************************************************)
(* FlightsAreLed for one service, without counting.                        *)
(***************************************************************************)
Led(k) ==
  LET s == service[k]
  IN  /\ IF s.flight THEN \E l \in Requests : On(k, "lead") = {l} ELSE On(k, "lead") = {}
      /\ On(k, "wait") # {} => s.flight
      /\ s.cooling => s.cached.code \in Cooled /\ ~s.flight
      /\ s.fresh => s.cached.code = "ready"

FlightInv == Recorded /\ \A k \in Keys : Led(k)

LEMMA LedCounted == (\A k \in Keys : Led(k)) => FlightsAreLed
<1> SUFFICES ASSUME NEW k \in Keys, Led(k)
             PROVE  /\ Cardinality(On(k, "lead")) = IF service[k].flight THEN 1 ELSE 0
                    /\ On(k, "wait") # {} => service[k].flight
                    /\ service[k].cooling => service[k].cached.code \in Cooled /\ ~service[k].flight
                    /\ service[k].fresh => service[k].cached.code = "ready"
  BY DEF FlightsAreLed, On
<1>1. CASE service[k].flight
  <2>1. PICK l \in Requests : On(k, "lead") = {l}
    BY <1>1 DEF Led
  <2>2. Cardinality({l}) = 1
    BY FS_Singleton
  <2> QED
    BY <1>1, <2>1, <2>2 DEF Led
<1>2. CASE ~service[k].flight
  BY <1>2, FS_EmptySet DEF Led
<1> QED
  BY <1>1, <1>2

LEMMA FlightInit == MemberInit => FlightInv
<1> SUFFICES ASSUME MemberInit PROVE FlightInv
  OBVIOUS
<1>1. Recorded
  BY DEF MemberInit, Recorded, NewService
<1>2. ASSUME NEW k \in Keys PROVE Led(k)
  <2>1. service[k] = NewService /\ \A r \in Requests : req[r].pc = "new"
    BY DEF MemberInit
  <2>2. ~NewService.flight /\ ~NewService.cooling /\ ~NewService.fresh
    BY DEF NewService
  <2>3. On(k, "lead") = {} /\ On(k, "wait") = {}
    BY <2>1 DEF On
  <2> QED
    BY <2>1, <2>2, <2>3 DEF Led
<1> QED
  BY <1>1, <1>2 DEF FlightInv

-----------------------------------------------------------------------------
(***************************************************************************)
(* A step that changes one request, which neither leads nor waits before   *)
(* or after, leaves every flight as it was.                                *)
(***************************************************************************)
LEMMA Outside ==
  ASSUME FlightInv, NEW r \in Requests, UNCHANGED service,
         DOMAIN req' = Requests, DOMAIN req'[r] = {"pc", "key", "answer"},
         \A t \in Requests \ {r} : req'[t] = req[t],
         req[r].pc # "lead", req'[r].pc \notin {"lead", "wait"}
  PROVE  FlightInv'
<1>1. Recorded'
  <2>1. \A t \in Requests : DOMAIN req'[t] = {"pc", "key", "answer"}
    BY DEF FlightInv, Recorded
  <2> QED
    BY <2>1 DEF FlightInv, Recorded
<1>2. ASSUME NEW k \in Keys PROVE Led(k)'
  <2>1. On(k, "lead")' = On(k, "lead") /\ On(k, "wait")' \subseteq On(k, "wait")
    BY DEF On
  <2> QED
    BY <2>1 DEF FlightInv, Led
<1> QED
  BY <1>1, <1>2 DEF FlightInv

(***************************************************************************)
(* A walk goes on or lands.                                                *)
(***************************************************************************)
Landed(k) ==
  \E result, cooling :
    /\ cooling \in BOOLEAN /\ (cooling => result.code \in Cooled)
    /\ service' = [service EXCEPT ![k] = [cached |-> result, fresh |-> result.code = "ready",
                                          cooling |-> cooling, flight |-> FALSE]]
    /\ req' = [r \in Requests |-> IF Flying(r, k) THEN [req[r] EXCEPT !.pc = "answered", !.answer = result]
                                  ELSE req[r]]

LEMMA LandLands == ASSUME NEW k, NEW result, Land(k, result) PROVE Landed(k)
BY DEF Land, Landed

LEMMA WalkEffect ==
  ASSUME NEW k, WalkStep(k)
  PROVE  UNCHANGED <<service, req>> \/ Landed(k)
<1> USE LandLands
<1>1. CASE Token(k)
  BY <1>1 DEF Token, GoOn
<1>2. CASE Scope(k)
  BY <1>2 DEF Scope, GoOn, Broke
<1>3. CASE Tree(k)
  BY <1>3 DEF Tree, WecomTree, DingtalkTree, FeishuTree, GoOn, Broke
<1>4. CASE StartWorker(k)
  BY <1>4 DEF StartWorker, GoOn
<1>5. CASE Page(k)
  BY <1>5 DEF Page, GoOn, Broke
<1>6. CASE UsersDone(k)
  BY <1>6 DEF UsersDone, Finish, GoOn
<1>7. CASE Names(k)
  BY <1>7 DEF Names, GoOn
<1>8. ASSUME NEW phase, Fails(k, phase) PROVE Landed(k)
  BY <1>8 DEF Fails
<1>9. CASE PageFails(k)
  BY <1>9 DEF PageFails, GoOn
<1> QED
  BY <1>1, <1>2, <1>3, <1>4, <1>5, <1>6, <1>7, <1>8, <1>9 DEF WalkStep

LEMMA LandedLed ==
  ASSUME FlightInv, NEW k, Landed(k)
  PROVE  FlightInv'
<1>1. PICK result, cooling :
        /\ cooling \in BOOLEAN /\ (cooling => result.code \in Cooled)
        /\ service' = [service EXCEPT ![k] = [cached |-> result, fresh |-> result.code = "ready",
                                              cooling |-> cooling, flight |-> FALSE]]
        /\ req' = [r \in Requests |-> IF Flying(r, k) THEN [req[r] EXCEPT !.pc = "answered", !.answer = result]
                                      ELSE req[r]]
  BY DEF Landed
<1>2. ASSUME NEW r \in Requests
      PROVE  /\ DOMAIN req'[r] = {"pc", "key", "answer"}
             /\ Flying(r, k) => req'[r].pc = "answered"
             /\ ~Flying(r, k) => req'[r] = req[r]
             /\ req'[r].key = req[r].key
  BY <1>1 DEF FlightInv, Recorded
<1>3. Recorded'
  BY <1>1, <1>2 DEF FlightInv, Recorded
<1>4. ASSUME NEW j \in Keys PROVE Led(j)'
  <2>1. CASE j = k
    <3>1. service'[k] = [cached |-> result, fresh |-> result.code = "ready", cooling |-> cooling, flight |-> FALSE]
      BY <1>1, <2>1 DEF FlightInv, Recorded
    <3>2. On(k, "lead")' = {} /\ On(k, "wait")' = {}
      BY <1>2 DEF On, Flying
    <3>3. service'[k].cached = result /\ service'[k].cooling = cooling /\ service'[k].flight = FALSE
      BY <3>1
    <3>4. service'[k].fresh = (result.code = "ready")
      BY <3>1
    <3>5. /\ ~service'[k].flight
          /\ service'[k].cooling => service'[k].cached.code \in Cooled
      BY <1>1, <3>3
    <3>6. service'[k].fresh => service'[k].cached.code = "ready"
      BY <3>3, <3>4
    <3> QED
      BY <2>1, <3>2, <3>5, <3>6 DEF Led
  <2>2. CASE j # k
    <3>1. service'[j] = service[j]
      BY <1>1, <2>2 DEF FlightInv, Recorded
    <3>2. On(j, "lead")' = On(j, "lead") /\ On(j, "wait")' = On(j, "wait")
      BY <1>2, <2>2 DEF On, Flying
    <3> QED
      BY <3>1, <3>2 DEF FlightInv, Led
  <2> QED
    BY <2>1, <2>2
<1> QED
  BY <1>3, <1>4 DEF FlightInv

(***************************************************************************)
(* A request finds an answer, a flight to share, or a flight of its own.   *)
(***************************************************************************)
LEMMA GetLed ==
  ASSUME FlightInv, NEW r \in Requests, Get(r)
  PROVE  FlightInv'
<1> DEFINE k == req[r].key
           s == service[k]
<1>0. req[r].pc = "get"
  BY DEF Get
<1>1. CASE AnswerNow(s) /\ req' = [req EXCEPT ![r].pc = "answered", ![r].answer = s.cached] /\ UNCHANGED service
  <2>1. req'[r].pc = "answered" /\ DOMAIN req'[r] = {"pc", "key", "answer"}
    BY <1>1 DEF FlightInv, Recorded
  <2> QED
    BY <1>0, <1>1, <2>1, Outside DEF FlightInv, Recorded
<1>2. CASE s.flight /\ req' = [req EXCEPT ![r].pc = "wait"] /\ UNCHANGED service
  <2>1. ASSUME NEW t \in Requests
        PROVE  /\ DOMAIN req'[t] = {"pc", "key", "answer"}
               /\ req'[t].key = req[t].key
               /\ req'[t].pc = IF t = r THEN "wait" ELSE req[t].pc
    BY <1>2 DEF FlightInv, Recorded
  <2>2. Recorded'
    BY <1>2, <2>1 DEF FlightInv, Recorded
  <2>3. ASSUME NEW j \in Keys PROVE Led(j)'
    <3>1. On(j, "lead")' = On(j, "lead") /\ On(j, "wait")' = IF j = k THEN On(j, "wait") \cup {r} ELSE On(j, "wait")
      BY <1>0, <2>1 DEF On
    <3> QED
      BY <1>2, <3>1 DEF FlightInv, Led
  <2> QED
    BY <2>2, <2>3 DEF FlightInv
<1>3. CASE /\ ~AnswerNow(s) /\ ~s.flight /\ req' = [req EXCEPT ![r].pc = "lead"]
           /\ service' = [service EXCEPT ![k].flight = TRUE]
  <2>1. ASSUME NEW t \in Requests
        PROVE  /\ DOMAIN req'[t] = {"pc", "key", "answer"}
               /\ req'[t].key = req[t].key
               /\ req'[t].pc = IF t = r THEN "lead" ELSE req[t].pc
    BY <1>3 DEF FlightInv, Recorded
  <2>2. ASSUME NEW j \in Keys
        PROVE  /\ DOMAIN service'[j] = {"cached", "fresh", "cooling", "flight"}
               /\ j # k => service'[j] = service[j]
               /\ service'[j].flight = IF j = k THEN TRUE ELSE service[j].flight
               /\ service'[j].fresh = service[j].fresh /\ service'[j].cooling = service[j].cooling
               /\ service'[j].cached = service[j].cached
    BY <1>3 DEF FlightInv, Recorded
  <2>3. Recorded'
    BY <1>3, <2>1, <2>2 DEF FlightInv, Recorded
  <2>4. ASSUME NEW j \in Keys PROVE Led(j)'
    <3>1. CASE j = k
      <4>1. Led(j) /\ ~service[j].flight
        BY <1>3, <3>1 DEF FlightInv
      <4>2. On(j, "lead")' = {r}
        <5>1. On(j, "lead") = {}
          BY <4>1 DEF Led
        <5> QED
          BY <2>1, <3>1, <5>1 DEF On
      <4>3. ~service[j].cooling /\ ~service[j].fresh
        BY <1>3, <3>1, <4>1 DEF Led, AnswerNow
      <4>4. service'[j].flight /\ ~service'[j].cooling /\ ~service'[j].fresh
        BY <2>2, <3>1, <4>3
      <4> QED
        BY <4>2, <4>4 DEF Led
    <3>2. CASE j # k
      <4>1. On(j, "lead")' = On(j, "lead") /\ On(j, "wait")' = On(j, "wait")
        BY <1>0, <2>1, <3>2 DEF On
      <4>2. service'[j] = service[j] /\ Led(j)
        BY <2>2, <3>2 DEF FlightInv
      <4> QED
        BY <4>1, <4>2 DEF Led
    <3> QED
      BY <3>1, <3>2
  <2> QED
    BY <2>3, <2>4 DEF FlightInv
<1> QED
  BY <1>1, <1>2, <1>3 DEF Get

(***************************************************************************)
(* Cool-downs and caches expire; neither the result nor a flight changes.  *)
(***************************************************************************)
LEMMA ExpireLed ==
  ASSUME FlightInv, NEW k \in Keys, Expire(k)
  PROVE  FlightInv'
<1>1. ASSUME NEW j \in Keys
      PROVE  /\ DOMAIN service'[j] = {"cached", "fresh", "cooling", "flight"}
             /\ j # k => service'[j] = service[j]
             /\ service'[j].flight = service[j].flight /\ service'[j].cached = service[j].cached
             /\ j = k => service'[j].fresh = FALSE /\ service'[j].cooling = FALSE
  BY DEF Expire, FlightInv, Recorded
<1>2. Recorded'
  BY <1>1 DEF Expire, FlightInv, Recorded
<1>3. ASSUME NEW j \in Keys PROVE Led(j)'
  <2>1. On(j, "lead")' = On(j, "lead") /\ On(j, "wait")' = On(j, "wait")
    BY DEF Expire, On
  <2>2. Led(j)
    BY DEF FlightInv
  <2>3. CASE j = k
    <3>1. service'[j].flight = service[j].flight /\ ~service'[j].fresh /\ ~service'[j].cooling
      BY <1>1, <2>3
    <3> QED
      BY <2>1, <2>2, <3>1 DEF Led
  <2>4. CASE j # k
    <3>1. service'[j] = service[j]
      BY <1>1, <2>4
    <3> QED
      BY <2>1, <2>2, <3>1 DEF Led
  <2> QED
    BY <2>3, <2>4
<1> QED
  BY <1>2, <1>3 DEF FlightInv

LEMMA FlightStep == FlightInv /\ [MemberNext]_memberVars => FlightInv'
<1> SUFFICES ASSUME FlightInv, [MemberNext]_memberVars PROVE FlightInv'
  OBVIOUS
<1>1. ASSUME NEW r \in Requests, Register(r) PROVE FlightInv'
  <2>1. PICK c : req' = [req EXCEPT ![r].pc = "get", ![r].key = <<c, gen'>>]
    BY <1>1 DEF Register
  <2>2. req'[r].pc = "get" /\ DOMAIN req'[r] = {"pc", "key", "answer"}
    BY <2>1 DEF FlightInv, Recorded
  <2> QED
    BY <1>1, <2>1, <2>2, Outside DEF Register, FlightInv, Recorded
<1>2. ASSUME NEW r \in Requests, Again(r) PROVE FlightInv'
  <2>1. req'[r].pc = "new" /\ DOMAIN req'[r] = {"pc", "key", "answer"}
    BY <1>2 DEF Again, FlightInv, Recorded
  <2> QED
    BY <1>2, <2>1, Outside DEF Again, FlightInv, Recorded
<1>3. ASSUME NEW r \in Requests, GiveUp(r) PROVE FlightInv'
  <2>1. req'[r].pc = "answered" /\ DOMAIN req'[r] = {"pc", "key", "answer"}
    BY <1>3 DEF GiveUp, FlightInv, Recorded
  <2> QED
    BY <1>3, <2>1, Outside DEF GiveUp, FlightInv, Recorded
<1>4. ASSUME NEW r \in Requests, WalkStep(req[r].key) PROVE FlightInv'
  <2>1. CASE Landed(req[r].key)
    BY <2>1, LandedLed
  <2>2. CASE UNCHANGED <<service, req>>
    BY <2>2 DEF FlightInv, Recorded, Led, On
  <2> QED
    BY <1>4, <2>1, <2>2, WalkEffect
<1>5. CASE UNCHANGED memberVars
  BY <1>5 DEF memberVars, FlightInv, Recorded, Led, On
<1>6. ASSUME NEW r \in Requests, HandlerStep(r) PROVE FlightInv'
  BY <1>1, <1>4, <1>6, GetLed DEF HandlerStep
<1> QED
  BY <1>2, <1>3, <1>5, <1>6, ExpireLed DEF MemberNext

(***************************************************************************)
(* However many requests share a service, whatever their walks meet and    *)
(* whenever the registry is cleared, a flight has exactly one leader, and  *)
(* who waits waits for a flight that someone leads                         *)
(* (memberFetchService.get).                                               *)
(***************************************************************************)
THEOREM FlightsLed == MemberSpec => []FlightsAreLed
<1>1. FlightInv => FlightsAreLed
  BY LedCounted DEF FlightInv
<1> QED
  BY <1>1, FlightInit, FlightStep, PTL DEF MemberSpec

-----------------------------------------------------------------------------
(***************************************************************************)
(* The departments a walk has to cover, and the rows it has to collect.    *)
(***************************************************************************)
Reach(c, d) == {d} \cup Below(Directory[c], d)

Roots(c) ==
  CASE KindOf[c] = "feishu" -> ScopeDepts(Directory[c])
    [] KindOf[c] = "dingtalk" -> {Directory[c].root}
    [] OTHER -> Depts(Directory[c])

Wanted(c) == UNION {Reach(c, d) : d \in Roots(c)}

Blanks(users) == {<<u, Blank>> : u \in users}
Alone(c) == IF KindOf[c] = "feishu" THEN Blanks(ScopeUsers(Directory[c])) ELSE {}

RowsOf(k, d) == UNION ToSet(PagesOf(k, d))

(***************************************************************************)
(* What a list is always, and what it is unless a listing was cut short.   *)
(***************************************************************************)
Pairs(rows) == \A p \in rows : p = <<p[1], p[2]>>

Sound(c, rows) ==
  /\ IsFiniteSet(rows) /\ Pairs(rows) /\ OneName(rows)
  /\ Ids(rows) \subseteq Ids(Visible(c)) /\ Cardinality(Ids(rows)) <= MaxMembers

Complete(c, rows) ==
  /\ Ids(rows) = Ids(Visible(c)) \/ Cardinality(Ids(rows)) = MaxMembers
  /\ {p \in Visible(c) : p[1] \in Ids(rows)} \subseteq rows

(***************************************************************************)
(* What a walk has done so far, phase by phase.                            *)
(***************************************************************************)
WalkFields == {"phase", "queue", "visited", "depts", "cursor", "failed", "got", "todo", "page", "short", "spent"}

Scoping(k, w) ==
  LET dir == Directory[k[1]]
  IN  /\ Kind(k) = "feishu" /\ w.failed = {} /\ w.visited = {}
      /\ w.depts \in Seq(Depts(dir)) /\ IsInjective(w.depts)
      /\ ToSet(w.depts) \subseteq Roots(k[1]) /\ w.got \subseteq Alone(k[1])
      /\ w.page \in 1..Len(dir.scope)
      /\ \A i \in 1..w.page-1 : dir.scope[i].depts \subseteq ToSet(w.depts) /\ Blanks(dir.scope[i].users) \subseteq w.got

Listing(k, w) ==
  LET c == k[1]
      dir == Directory[c]
  IN  /\ w.failed = {} /\ w.got \subseteq Alone(c) /\ (~w.short => Alone(c) \subseteq w.got)
      /\ Kind(k) # "wecom" => w.queue \in Seq(Depts(dir)) /\ w.depts \in Seq(Depts(dir))
      /\ Kind(k) = "dingtalk" =>
           /\ w.visited = ToSet(w.depts)
           /\ dir.root \in w.visited \cup ToSet(w.queue)
           /\ w.visited \cup ToSet(w.queue) \subseteq Reach(c, dir.root)
           /\ ~w.short => \A d \in w.visited : ToSet(dir.children[d]) \subseteq w.visited \cup ToSet(w.queue)
      /\ Kind(k) = "feishu" =>
           /\ IsInjective(w.depts) /\ ToSet(w.depts) \subseteq Wanted(c)
           /\ w.visited \cup ToSet(w.queue) \subseteq Roots(c)
           /\ w.queue # <<>> => w.page \in 1..Len(dir.below[Head(w.queue)])
           /\ ~w.short =>
                /\ Roots(c) \subseteq ToSet(w.depts) /\ Roots(c) \subseteq w.visited \cup ToSet(w.queue)
                /\ \A d \in w.visited : Reach(c, d) \subseteq ToSet(w.depts)
                /\ w.queue # <<>> => \A i \in 1..w.page-1 : dir.below[Head(w.queue)][i] \subseteq ToSet(w.depts)

Fetched(k, w, d) ==
  IF w.cursor[d] = 0
  THEN RowsOf(k, d) \subseteq w.got \/ \E f \in w.failed : f[1] = d
  ELSE \A i \in 1..w.cursor[d]-1 : PagesOf(k, d)[i] \subseteq w.got

InDepts(k, ds) == (UNION {RowsOf(k, d) : d \in ds}) \cup Alone(k[1])

Fetching(k, w) ==
  LET c == k[1]
  IN  /\ w.depts \in Seq(Depts(Directory[c]))
      /\ InDepts(k, ToSet(w.depts)) \subseteq Visible(c) /\ w.got \subseteq Visible(c)
      /\ ~w.short => Visible(c) \subseteq InDepts(k, ToSet(w.depts)) /\ Alone(c) \subseteq w.got
      /\ IF Worker(k)
         THEN /\ IsInjective(w.depts) /\ Cardinality(DOMAIN w.cursor) <= Len(w.depts)
              /\ DOMAIN w.cursor = {w.depts[i] : i \in 1..Cardinality(DOMAIN w.cursor)} /\ DOMAIN w.cursor \subseteq ToSet(w.depts)
         ELSE DOMAIN w.cursor = ToSet(w.depts)
      /\ \A d \in DOMAIN w.cursor : w.cursor[d] \in 0..Len(PagesOf(k, d)) /\ (~w.short => Fetched(k, w, d))
      /\ w.failed \subseteq ToSet(w.depts) \X Codes

Walked(k, w) ==
  /\ DOMAIN w = WalkFields
  /\ w.phase = "token" => /\ w.visited = {} /\ w.failed = {} /\ w.depts = <<>> /\ w.got = {} /\ w.page = 1 /\ ~w.short
  /\ w.phase = "scope" => Scoping(k, w)
  /\ w.phase = "tree" => Listing(k, w)
  /\ w.phase = "users" => Fetching(k, w)
  /\ w.phase = "names" => Sound(k[1], w.got) /\ (~w.short => Complete(k[1], w.got))

(***************************************************************************)
(* A service's cached list and a request's answer are whole.               *)
(***************************************************************************)
Whole(c, a) ==
  IF a.code = "ready"
  THEN /\ Ids(a.members) \subseteq Ids(Visible(c)) /\ Cardinality(a.members) = Cardinality(Ids(a.members))
       /\ Cardinality(Ids(a.members)) <= MaxMembers
       /\ ~a.short => /\ Ids(a.members) = Ids(Visible(c)) \/ Cardinality(Ids(a.members)) = MaxMembers
                      /\ {p \in Visible(c) : p[1] \in Ids(a.members) /\ p[2] # Blank} \subseteq a.members
  ELSE a.members = {}

(***************************************************************************)
(* Every service of a cleared registry took MaxServices + 1 requests.      *)
(***************************************************************************)
Asked == {r \in Requests : req[r].pc # "new"}

Counted ==
  /\ gen \in Nat /\ again \in Nat /\ again <= MaxAgain /\ IsFiniteSet(registered)
  /\ gen * (MaxServices + 1) + Cardinality(registered) <= Cardinality(Asked) + again

WholeInv ==
  /\ Recorded /\ Counted /\ DOMAIN walk = Keys
  /\ \A r \in Requests : req[r].pc \in {"get", "lead", "wait"} => req[r].key \in Keys
  /\ \A k \in Keys : Whole(k[1], service[k].cached) /\ (service[k].flight => Walked(k, walk[k]))
  /\ \A r \in Requests : req[r].pc = "answered" => Whole(req[r].key[1], req[r].answer)

(***************************************************************************)
(* The departments below a department, and itself: the least set that      *)
(* has it and is closed under children.                                    *)
(***************************************************************************)
LEMMA ReachFacts ==
  ASSUME NEW c \in Creds, NEW d \in Depts(Directory[c])
  PROVE  /\ Reach(c, d) \subseteq Depts(Directory[c]) /\ d \in Reach(c, d)
         /\ \A e \in Reach(c, d) : ToSet(Directory[c].children[e]) \subseteq Reach(c, d)
         /\ \A S : (d \in S /\ \A e \in S \cap Depts(Directory[c]) : ToSet(Directory[c].children[e]) \subseteq S)
                     => Reach(c, d) \subseteq S
<1> DEFINE dir == Directory[c]
           D == DOMAIN dir.children
           kids == [e \in D |-> ToSet(dir.children[e])]
           N == Cardinality(D)
           IsReach(f) == f = [n \in Nat |-> IF n = 0 THEN {d} ELSE f[n-1] \cup UNION {ToSet(dir.children[e]) : e \in f[n-1]}]
<1>0. d \in D
  BY DEF Depts
<1>1. IsFiniteSet(D) /\ dir.children \in [D -> Seq(D)]
  BY PlatformAssumption DEF Platform, Depts
<1>2. kids \in [D -> SUBSET D]
  <2>1. ASSUME NEW e \in D PROVE ToSet(dir.children[e]) \subseteq D
    <3>1. dir.children[e] \in Seq(D)
      BY <1>1
    <3> QED
      BY <3>1 DEF ToSet
  <2> QED
    BY <2>1
<1>3. PICK f \in [Nat -> SUBSET D] : StepsFrom(f, d, kids)
  <2> HIDE DEF kids, D
  <2> QED
    BY <1>0, <1>2, ReachExists
<1>4. ASSUME NEW S \in SUBSET D PROVE UNION {kids[e] : e \in S} = UNION {ToSet(dir.children[e]) : e \in S}
  OBVIOUS
<1>5. ASSUME NEW n \in Nat
      PROVE (IF n = 0 THEN {d} ELSE f[n-1] \cup UNION {kids[e] : e \in f[n-1]})
          = (IF n = 0 THEN {d} ELSE f[n-1] \cup UNION {ToSet(dir.children[e]) : e \in f[n-1]})
  <2>1. CASE n = 0
    BY <2>1
  <2>2. CASE n # 0
    <3>1. f[n-1] \in SUBSET D
      BY <2>2
    <3> HIDE DEF kids
    <3> QED
      BY <2>2, <3>1, <1>4
  <2> QED
    BY <2>1, <2>2
<1>6. \E g : IsReach(g)
  <2> HIDE DEF kids
  <2>1. f = [n \in Nat |-> IF n = 0 THEN {d} ELSE f[n-1] \cup UNION {ToSet(dir.children[e]) : e \in f[n-1]}]
    BY <1>3, <1>5 DEF StepsFrom
  <2> QED
    BY <2>1
<1> DEFINE reach == CHOOSE g : IsReach(g)
<1>7. IsReach(reach)
  <2> HIDE DEF IsReach
  <2> QED
    BY <1>6
<1>8. Below(dir, d) = reach[N] \ {d}
  BY DEF Below
<1> HIDE DEF reach
<1>9. reach[0] = {d}
  BY <1>7
<1>10. ASSUME NEW n \in Nat PROVE reach[n+1] = reach[n] \cup UNION {ToSet(dir.children[e]) : e \in reach[n]}
  <2>1. n + 1 \in Nat /\ n + 1 # 0 /\ n + 1 - 1 = n
    OBVIOUS
  <2> QED
    BY <1>7, <2>1
<1>11. ASSUME NEW n \in Nat PROVE reach[n] \in SUBSET D
  <2> DEFINE T == {m \in Nat : reach[m] \in SUBSET D}
  <2>1. 0 \in T
    BY <1>0, <1>9
  <2>2. ASSUME NEW m \in Nat, m \in T PROVE m + 1 \in T
    <3>1. UNION {ToSet(dir.children[e]) : e \in reach[m]} \subseteq D
      BY <2>2, <1>2
    <3>2. reach[m+1] = reach[m] \cup UNION {ToSet(dir.children[e]) : e \in reach[m]}
      BY <1>10
    <3> HIDE DEF D
    <3> QED
      BY <2>2, <3>1, <3>2
  <2>3. Nat \subseteq T
    <3> HIDE DEF T
    <3> QED
      BY <2>1, <2>2, Induction
  <2> QED
    BY <2>3
<1>12. ASSUME NEW n \in Nat PROVE reach[n+1] = reach[n] \cup UNION {kids[e] : e \in reach[n]}
  <2> HIDE DEF kids
  <2> QED
    BY <1>4, <1>10, <1>11
<1>13. reach \in [Nat -> SUBSET D]
  <2> HIDE DEF D
  <2> QED
    BY <1>7, <1>11
<1>14. \A e \in reach[N] : kids[e] \subseteq reach[N]
  <2> HIDE DEF D, kids
  <2> QED
    BY <1>0, <1>1, <1>2, <1>9, <1>12, <1>13, ClosureInSteps
<1>15. N \in Nat
  BY <1>1, FS_CardinalityType
<1>16. d \in reach[N]
  <2> DEFINE T == {m \in Nat : d \in reach[m]}
  <2>1. 0 \in T
    BY <1>9
  <2>2. ASSUME NEW m \in Nat, m \in T PROVE m + 1 \in T
    BY <2>2, <1>10
  <2>3. Nat \subseteq T
    <3> HIDE DEF T
    <3> QED
      BY <2>1, <2>2, Induction
  <2> QED
    BY <1>15, <2>3
<1>17. Reach(c, d) = reach[N]
  BY <1>8, <1>16 DEF Reach
<1>18. reach[N] \in SUBSET D
  BY <1>11, <1>15
<1>19. \A e \in reach[N] : kids[e] = ToSet(dir.children[e])
  BY <1>18
<1>20. ASSUME NEW S, d \in S, \A e \in S \cap D : ToSet(dir.children[e]) \subseteq S
       PROVE  reach[N] \subseteq S
  <2> DEFINE T == {m \in Nat : reach[m] \subseteq S}
  <2>1. 0 \in T
    BY <1>9, <1>20
  <2>2. ASSUME NEW m \in Nat, m \in T PROVE m + 1 \in T
    <3>1. reach[m] \subseteq D /\ reach[m] \subseteq S
      BY <1>11, <2>2
    <3>2. \A e \in reach[m] : ToSet(dir.children[e]) \subseteq S
      BY <1>20, <3>1
    <3>3. reach[m+1] = reach[m] \cup UNION {ToSet(dir.children[e]) : e \in reach[m]}
      BY <1>10
    <3> QED
      BY <3>1, <3>2, <3>3
  <2>3. Nat \subseteq T
    <3> HIDE DEF T
    <3> QED
      BY <2>1, <2>2, Induction
  <2> QED
    BY <1>15, <2>3
<1> HIDE DEF kids, N
<1> QED
  BY <1>14, <1>16, <1>17, <1>18, <1>19, <1>20 DEF Depts

(***************************************************************************)
(* What a department below reaches, the department reaches.                *)
(***************************************************************************)
LEMMA ReachNested ==
  ASSUME NEW c \in Creds, NEW d \in Depts(Directory[c]), NEW e \in Reach(c, d)
  PROVE  Reach(c, e) \subseteq Reach(c, d)
<1>1. e \in Depts(Directory[c])
  BY ReachFacts
<1>2. \A x \in Reach(c, d) \cap Depts(Directory[c]) : ToSet(Directory[c].children[x]) \subseteq Reach(c, d)
  BY ReachFacts
<1> QED
  BY <1>1, <1>2, ReachFacts

(***************************************************************************)
(* Visible, in the terms of a walk.                                        *)
(***************************************************************************)
PagesIn(c, d) == UNION ToSet(Directory[c].pages[d])

LEMMA RootsFacts ==
  ASSUME NEW c \in Creds
  PROVE  Roots(c) \subseteq Depts(Directory[c]) /\ Wanted(c) \subseteq Depts(Directory[c]) /\ Roots(c) \subseteq Wanted(c)
<1>1. Directory[c].root \in Depts(Directory[c])
  BY PlatformAssumption DEF Platform
<1>2. ScopeDepts(Directory[c]) \subseteq Depts(Directory[c])
  <2> DEFINE T == [depts : SUBSET Depts(Directory[c]), users : SUBSET ScopeUsers(Directory[c])]
  <2>1. Directory[c].scope \in Seq(T)
    BY PlatformAssumption DEF Platform
  <2>2. \A page \in T : page.depts \subseteq Depts(Directory[c])
    OBVIOUS
  <2> HIDE DEF T
  <2>3. ToSet(Directory[c].scope) \subseteq T
    BY <2>1, ToSetFacts
  <2> QED
    BY <2>2, <2>3 DEF ScopeDepts
<1>3. Roots(c) \subseteq Depts(Directory[c])
  BY <1>1, <1>2 DEF Roots
<1> QED
  BY <1>3, ReachFacts DEF Wanted

LEMMA VisibleIsWanted ==
  ASSUME NEW c \in Creds
  PROVE  Visible(c) = (UNION {PagesIn(c, d) : d \in Wanted(c)}) \cup Alone(c)
<1> DEFINE from == IF KindOf[c] = "feishu" THEN ScopeDepts(Directory[c])
                   ELSE IF KindOf[c] = "dingtalk" THEN {Directory[c].root} ELSE DOMAIN Directory[c].children
           depts == from \cup UNION {Under[c][d] : d \in from}
<1>1. Visible(c) = (UNION {UNION ToSet(Directory[c].pages[d]) : d \in depts}) \cup Alone(c)
  BY DEF Visible, Alone, Blanks
<1>2. from = Roots(c)
  BY DEF Roots, Depts
<1>3. ASSUME NEW d \in from PROVE Under[c][d] = Below(Directory[c], d)
  BY <1>2, RootsFacts DEF Under, Depts
<1>4. depts = Wanted(c)
  <2> HIDE DEF from
  <2> QED
    BY <1>2, <1>3 DEF Wanted, Reach
<1> QED
  <2> HIDE DEF depts
  <2> QED
    BY <1>1, <1>4 DEF PagesIn

(***************************************************************************)
(* The rows are finitely many pairs, and give a user one name.             *)
(***************************************************************************)
LEMMA VisibleFacts ==
  ASSUME NEW c \in Creds
  PROVE  IsFiniteSet(Visible(c)) /\ Pairs(Visible(c)) /\ OneName(Visible(c))
<1> DEFINE dir == Directory[c]
           shown == UNION {PagesIn(c, d) : d \in Wanted(c)}
<1>1. IsFiniteSet(Listed(dir)) /\ OneName(Listed(dir)) /\ IsFiniteSet(ScopeUsers(dir))
  BY PlatformAssumption DEF Platform
<1>2. shown \subseteq Listed(dir)
  BY RootsFacts DEF Listed, PagesIn
<1>3. Pairs(Listed(dir))
  <2>1. SUFFICES ASSUME NEW d \in Depts(dir), NEW page \in ToSet(dir.pages[d]), NEW p \in page PROVE p = <<p[1], p[2]>>
    BY DEF Pairs, Listed
  <2>2. dir.pages[d] \in Seq(SUBSET ({q[1] : q \in Listed(dir)} \X {q[2] : q \in Listed(dir)}))
    BY PlatformAssumption DEF Platform
  <2>3. page \in SUBSET ({q[1] : q \in Listed(dir)} \X {q[2] : q \in Listed(dir)})
    BY <2>2 DEF ToSet
  <2> QED
    BY <2>3
<1>4. IsFiniteSet(shown) /\ Pairs(shown) /\ OneName(shown)
  <2>1. IsFiniteSet(shown)
    <3> HIDE DEF shown
    <3> QED
      BY <1>1, <1>2, FS_Subset
  <2> QED
    BY <2>1, <1>1, <1>2, <1>3 DEF Pairs, OneName
<1>5. IsFiniteSet(Alone(c)) /\ \A p \in Alone(c) : p = <<p[1], Blank>> /\ p[2] = Blank
  <2>1. CASE KindOf[c] = "feishu"
    <3> DEFINE f == [u \in ScopeUsers(dir) |-> <<u, Blank>>]
    <3>1. f \in Surjection(ScopeUsers(dir), Alone(c))
      BY <2>1 DEF Surjection, Alone, Blanks
    <3>2. IsFiniteSet(Alone(c))
      <4> HIDE DEF f
      <4> QED
        BY <1>1, <3>1, FS_Surjection
    <3> QED
      BY <2>1, <3>2 DEF Alone, Blanks
  <2>2. CASE KindOf[c] # "feishu"
    BY <2>2, FS_EmptySet DEF Alone
  <2> QED
    BY <2>1, <2>2
<1>6. Visible(c) = shown \cup Alone(c)
  BY VisibleIsWanted
<1>7. IsFiniteSet(Visible(c))
  <2> HIDE DEF shown
  <2> QED
    BY <1>4, <1>5, <1>6, FS_Union
<1> HIDE DEF shown
<1>8. Pairs(Visible(c))
  BY <1>4, <1>5, <1>6 DEF Pairs
<1>9. OneName(Visible(c))
  BY <1>4, <1>5, <1>6 DEF OneName
<1> QED
  BY <1>7, <1>8, <1>9

(***************************************************************************)
(* Of visible rows as many are kept as there is room for; a list made from *)
(* them is whole, and stays so when names are added for users no row       *)
(* showed one of.                                                          *)
(***************************************************************************)
LEMMA IdsFinite == ASSUME NEW rows, IsFiniteSet(rows) PROVE IsFiniteSet(Ids(rows)) /\ Cardinality(Ids(rows)) \in Nat
<1> DEFINE f == [p \in rows |-> p[1]]
<1>1. f \in Surjection(rows, Ids(rows))
  BY DEF Surjection, Ids
<1> HIDE DEF f
<1> QED
  BY <1>1, FS_Surjection, FS_CardinalityType

LEMMA KeptIsWhole ==
  ASSUME NEW c \in Creds, NEW got, got \subseteq Visible(c), NEW rows \in Kept(got)
  PROVE  Sound(c, rows) /\ (got = Visible(c) => Complete(c, rows))
<1> DEFINE all == Ids(got)
<1>1. IsFiniteSet(Visible(c)) /\ Pairs(Visible(c)) /\ OneName(Visible(c))
  BY VisibleFacts
<1>2. IsFiniteSet(got)
  BY <1>1, FS_Subset
<1>3. IsFiniteSet(all) /\ Cardinality(all) \in Nat
  BY <1>2, IdsFinite
<1>4. PICK users \in AtMost(MaxMembers, all) : rows = {p \in got : p[1] \in users}
  BY DEF Kept
<1>5. users \in SUBSET all /\ Cardinality(users) = IF Cardinality(all) < MaxMembers THEN Cardinality(all) ELSE MaxMembers
  BY <1>4 DEF AtMost, kSubset
<1>6. Ids(rows) = users
  BY <1>4, <1>5 DEF Ids
<1>7. MaxMembers \in Nat
  BY BoundAssumption
<1>8. rows \subseteq got /\ IsFiniteSet(rows)
  BY <1>2, <1>4, FS_Subset
<1>9. all \subseteq Ids(Visible(c))
  BY DEF Ids
<1>10. Pairs(rows) /\ OneName(rows)
  BY <1>1, <1>8 DEF Pairs, OneName
<1>11. Cardinality(users) <= MaxMembers /\ (Cardinality(users) # MaxMembers => Cardinality(users) = Cardinality(all))
  <2> HIDE DEF all
  <2> QED
    BY <1>3, <1>5, <1>7
<1>12. Cardinality(users) = Cardinality(all) => users = all
  <2> HIDE DEF all
  <2> QED
    BY <1>3, <1>5, FS_Subset
<1>13. Sound(c, rows)
  BY <1>5, <1>6, <1>8, <1>9, <1>10, <1>11 DEF Sound
<1>14. ASSUME got = Visible(c) PROVE Complete(c, rows)
  BY <1>4, <1>6, <1>11, <1>12, <1>14 DEF Complete
<1> QED
  BY <1>13, <1>14

LEMMA ReadyIsWhole ==
  ASSUME NEW c, NEW got, NEW short, Sound(c, got), ~short => Complete(c, got)
  PROVE  Whole(c, Ready(got, short))
<1> DEFINE members == Collected(got)
           f == [p \in members |-> p[1]]
<1>0. IsFiniteSet(got) /\ Pairs(got) /\ OneName(got)
  BY DEF Sound
<1>1. members \subseteq got
  BY DEF Collected
<1>2. \A p \in got : \E q \in members : p[1] = q[1]
  <2>1. SUFFICES ASSUME NEW p \in got, \A q \in members : p[1] # q[1] PROVE FALSE
    OBVIOUS
  <2>2. p \notin members
    BY <2>1
  <2>3. PICK q \in got : q[1] = p[1] /\ q[2] # Blank
    BY <2>2 DEF Collected
  <2>4. q \in members
    BY <2>3 DEF Collected
  <2> QED
    BY <2>1, <2>3, <2>4
<1>3. Ids(members) = Ids(got)
  <2> HIDE DEF members
  <2> QED
    BY <1>1, <1>2 DEF Ids
<1>4. {p \in got : p[2] # Blank} \subseteq members
  BY DEF Collected
<1>5. ASSUME NEW p \in members, NEW q \in members, p[1] = q[1] PROVE p = q
  <2>1. p \in got /\ q \in got /\ p = <<p[1], p[2]>> /\ q = <<q[1], q[2]>>
    BY <1>0, <1>1 DEF Pairs
  <2>2. p[2] = q[2] \/ Blank \in {p[2], q[2]}
    BY <1>0, <1>5, <2>1 DEF OneName
  <2>3. p[2] = Blank => q[2] = Blank
    BY <1>5, <2>1 DEF Collected
  <2>4. q[2] = Blank => p[2] = Blank
    BY <1>5, <2>1 DEF Collected
  <2>5. p[2] = q[2]
    BY <2>2, <2>3, <2>4
  <2> QED
    BY <1>5, <2>1, <2>5
<1> HIDE DEF members
<1>6. Cardinality(Ids(members)) = Cardinality(members)
  <2>1. IsFiniteSet(members)
    BY <1>0, <1>1, FS_Subset
  <2>2. f \in Bijection(members, Ids(members))
    BY <1>5 DEF Bijection, Injection, Surjection, IsInjective, Ids
  <2>3. ExistsBijection(members, Ids(members))
    <3> HIDE DEF f
    <3> QED
      BY <2>2 DEF ExistsBijection
  <2> QED
    BY <2>1, <2>3, FS_Bijection
<1>7. /\ Ready(got, short).code = "ready" /\ Ready(got, short).members = members
      /\ Ready(got, short).short = short
  BY DEF Ready, members
<1>8. /\ Ids(members) \subseteq Ids(Visible(c)) /\ Cardinality(Ids(members)) <= MaxMembers
  BY <1>3 DEF Sound
<1>9. ASSUME ~short
      PROVE  /\ Ids(members) = Ids(Visible(c)) \/ Cardinality(Ids(members)) = MaxMembers
             /\ {p \in Visible(c) : p[1] \in Ids(members) /\ p[2] # Blank} \subseteq members
  BY <1>3, <1>4, <1>9 DEF Complete
<1> QED
  BY <1>6, <1>7, <1>8, <1>9 DEF Whole

WithNames(got, name, batch) == got \cup {<<u, name[u]>> : u \in batch \cap Missing(got)}

LEMMA NamedIsWhole ==
  ASSUME NEW c, NEW got, NEW name, NEW batch, Sound(c, got),
         NEW more, more = WithNames(got, name, batch)
  PROVE  Sound(c, more) /\ (Complete(c, got) => Complete(c, more))
<1> DEFINE missing == batch \cap Missing(got)
           named == {<<u, name[u]>> : u \in missing}
           g == [u \in missing |-> <<u, name[u]>>]
<1>0. more = got \cup named
  BY DEF WithNames
<1>1. IsFiniteSet(got) /\ Pairs(got) /\ OneName(got)
  BY DEF Sound
<1>2. ASSUME NEW u \in missing
      PROVE  u \in Ids(got) /\ \A q \in got : q[1] = u => q[2] = Blank
  BY <1>2 DEF Missing, Collected, Ids
<1>3. IsFiniteSet(missing)
  <2>1. missing \subseteq Ids(got)
    BY <1>2
  <2> HIDE DEF missing
  <2> QED
    BY <1>1, <2>1, IdsFinite, FS_Subset
<1> HIDE DEF missing
<1>4. IsFiniteSet(named)
  <2>1. g \in Surjection(missing, named)
    BY DEF Surjection
  <2> HIDE DEF g, named
  <2> QED
    BY <1>3, <2>1, FS_Surjection
<1>5. \A p \in named : p = <<p[1], p[2]>> /\ p[1] \in missing /\ p[2] = name[p[1]]
  OBVIOUS
<1> HIDE DEF named
<1>6. IsFiniteSet(more)
  BY <1>0, <1>1, <1>4, FS_Union
<1>7. Pairs(more)
  BY <1>0, <1>1, <1>5 DEF Pairs
<1>8. OneName(more)
  <2>1. SUFFICES ASSUME NEW p \in more, NEW q \in more, p[1] = q[1], p[2] # Blank, q[2] # Blank
                 PROVE  p[2] = q[2]
    BY DEF OneName
  <2>2. CASE p \in got /\ q \in got
    BY <1>1, <2>1, <2>2 DEF OneName
  <2>3. CASE p \in named /\ q \in named
    BY <1>5, <2>1, <2>3
  <2>4. CASE p \in named /\ q \in got
    BY <1>2, <1>5, <2>1, <2>4
  <2>5. CASE p \in got /\ q \in named
    BY <1>2, <1>5, <2>1, <2>5
  <2> QED
    BY <1>0, <2>1, <2>2, <2>3, <2>4, <2>5
<1>9. Ids(more) = Ids(got)
  <2>1. \A p \in named : p[1] \in Ids(got)
    BY <1>2, <1>5
  <2> QED
    BY <1>0, <2>1 DEF Ids
<1>10. Sound(c, more)
  BY <1>6, <1>7, <1>8, <1>9 DEF Sound
<1>11. Complete(c, got) => Complete(c, more)
  BY <1>0, <1>9 DEF Complete
<1> QED
  BY <1>10, <1>11 DEF named, missing

(***************************************************************************)
(* The pages of a department, or at WeCom of its whole subtree.            *)
(***************************************************************************)
LEMMA PagesFacts ==
  ASSUME NEW k \in Keys, NEW d \in Depts(Dir(k))
  PROVE  /\ Len(PagesOf(k, d)) \in Nat \ {0} /\ DOMAIN PagesOf(k, d) = 1..Len(PagesOf(k, d))
         /\ Kind(k) # "wecom" => RowsOf(k, d) = PagesIn(k[1], d)
         /\ Kind(k) = "wecom" => RowsOf(k, d) = UNION {PagesIn(k[1], e) : e \in Reach(k[1], d)}
<1>0. k[1] \in Creds
  BY DEF Keys
<1>1. CASE Kind(k) # "wecom"
  <2>1. PagesOf(k, d) = Directory[k[1]].pages[d]
    BY <1>1 DEF PagesOf, Dir
  <2>2. PICK S : PagesOf(k, d) \in Seq(S) /\ PagesOf(k, d) # <<>>
    <3> DEFINE dir == Directory[k[1]]
               T == SUBSET ({p[1] : p \in Listed(dir)} \X {p[2] : p \in Listed(dir)})
    <3>1. dir.pages \in [Depts(dir) -> Seq(T) \ {<<>>}]
      BY <1>0, PlatformAssumption DEF Platform
    <3>2. d \in Depts(dir)
      BY DEF Dir
    <3> HIDE DEF T, dir
    <3>3. dir.pages[d] \in Seq(T) /\ dir.pages[d] # <<>>
      BY <3>1, <3>2
    <3> QED
      BY <2>1, <3>3 DEF dir
  <2>3. Len(PagesOf(k, d)) \in Nat \ {0} /\ DOMAIN PagesOf(k, d) = 1..Len(PagesOf(k, d))
    BY <2>2
  <2> QED
    BY <1>1, <2>1, <2>3 DEF RowsOf, PagesIn
<1>2. CASE Kind(k) = "wecom"
  <2> DEFINE rows == UNION {UNION ToSet(Dir(k).pages[e]) : e \in Under[k[1]][d] \cup {d}}
  <2>1. PagesOf(k, d) = <<rows>>
    BY <1>2 DEF PagesOf
  <2>2. Under[k[1]][d] \cup {d} = Reach(k[1], d)
    BY <1>0 DEF Under, Reach, Dir, Depts
  <2>3. rows = UNION {PagesIn(k[1], e) : e \in Reach(k[1], d)}
    BY <2>2 DEF PagesIn, Dir
  <2>4. UNION ToSet(<<rows>>) = rows
    <3> HIDE DEF rows
    <3> QED
      BY DEF ToSet
  <2>5. Len(<<rows>>) = 1 /\ DOMAIN <<rows>> = 1..1
    <3> HIDE DEF rows
    <3> QED
      OBVIOUS
  <2> HIDE DEF rows
  <2>6. RowsOf(k, d) = UNION {PagesIn(k[1], e) : e \in Reach(k[1], d)}
    BY <2>1, <2>3, <2>4 DEF RowsOf
  <2> QED
    BY <1>2, <2>1, <2>5, <2>6
<1> QED
  BY <1>1, <1>2

LEMMA TopsCover ==
  ASSUME NEW c \in Creds, KindOf[c] = "wecom"
  PROVE  Tops(Directory[c]) \subseteq Depts(Directory[c]) /\ UNION {Reach(c, t) : t \in Tops(Directory[c])} = Wanted(c)
<1>1. Tops(Directory[c]) \subseteq Depts(Directory[c])
  BY PlatformAssumption DEF Platform, Tops, Depts
<1>2. \A d \in Depts(Directory[c]) : \E t \in Tops(Directory[c]) : d \in Reach(c, t)
  BY PlatformAssumption DEF Platform, Reach
<1>3. Roots(c) = Depts(Directory[c])
  BY DEF Roots
<1>4. Wanted(c) = Depts(Directory[c])
  BY <1>3, RootsFacts
<1>5. \A t \in Tops(Directory[c]) : Reach(c, t) \subseteq Depts(Directory[c])
  BY <1>1, ReachFacts
<1> QED
  BY <1>1, <1>2, <1>4, <1>5

(***************************************************************************)
(* The departments a walk goes through cover what is visible.              *)
(***************************************************************************)
LEMMA Covers ==
  ASSUME NEW k \in Keys, NEW ds,
         ds = IF Kind(k) = "wecom" THEN Tops(Dir(k)) ELSE Wanted(k[1])
  PROVE  ds \subseteq Depts(Dir(k)) /\ InDepts(k, ds) = Visible(k[1])
<1>0. k[1] \in Creds
  BY DEF Keys
<1>1. CASE Kind(k) = "wecom"
  <2>1. ds \subseteq Depts(Dir(k)) /\ UNION {Reach(k[1], t) : t \in ds} = Wanted(k[1])
    BY <1>0, <1>1, TopsCover DEF Kind, Dir
  <2>2. \A d \in ds : RowsOf(k, d) = UNION {PagesIn(k[1], e) : e \in Reach(k[1], d)}
    BY <1>1, <2>1, PagesFacts
  <2>3. UNION {RowsOf(k, d) : d \in ds} = UNION {PagesIn(k[1], e) : e \in Wanted(k[1])}
    BY <2>1, <2>2
  <2> QED
    BY <1>0, <2>1, <2>3, VisibleIsWanted DEF InDepts
<1>2. CASE Kind(k) # "wecom"
  <2>1. ds \subseteq Depts(Dir(k))
    BY <1>0, <1>2, RootsFacts DEF Dir
  <2>2. \A d \in ds : RowsOf(k, d) = PagesIn(k[1], d)
    BY <1>2, <2>1, PagesFacts
  <2>3. UNION {RowsOf(k, d) : d \in ds} = UNION {PagesIn(k[1], e) : e \in Wanted(k[1])}
    BY <1>2, <2>2
  <2> QED
    BY <1>0, <2>1, <2>3, VisibleIsWanted DEF InDepts
<1> QED
  BY <1>1, <1>2

-----------------------------------------------------------------------------
(***************************************************************************)
(* The steps of a walk: what each phase leaves of the invariant.           *)
(***************************************************************************)
LEMMA KeyFacts == ASSUME NEW k \in Keys PROVE k[1] \in Creds /\ Kind(k) = KindOf[k[1]] /\ Dir(k) = Directory[k[1]] /\ Kind(k) \in Kinds
BY KindAssumption DEF Keys, Kind, Dir

(***************************************************************************)
(* What a reply is; a listing that adds each department once.              *)
(***************************************************************************)
LEMMA RepliesFacts ==
  ASSUME NEW k, NEW pages, Len(pages) \in Nat, NEW n \in 1..Len(pages), NEW endless, NEW nothing,
         NEW a \in Replies(k, pages, n, endless, nothing)
  PROVE  /\ a.rows \in {pages[n], nothing} /\ a.next \in 0..Len(pages)
         /\ a.short => a.next = 0
         /\ ~a.short => /\ a.rows = pages[n] /\ (a.next = 0 => n = Len(pages))
                        /\ a.next # 0 => \A i \in 1..a.next-1 : i \in 1..n
<1>1. CASE \E m \in After(n, Len(pages), endless) : a = [rows |-> pages[n], next |-> m, short |-> FALSE]
  <2>1. PICK m \in After(n, Len(pages), endless) : a = [rows |-> pages[n], next |-> m, short |-> FALSE]
    BY <1>1
  <2>2. a.rows = pages[n] /\ a.next = m /\ ~a.short
    BY <2>1
  <2>3. m \in {n + 1, n, 0} /\ (m = n + 1 => n < Len(pages)) /\ (m = 0 => ~(n < Len(pages)))
    BY DEF After
  <2>4. m \in 0..Len(pages) /\ (m = 0 => n = Len(pages)) /\ (m # 0 => \A i \in 1..m-1 : i \in 1..n)
    BY <2>3
  <2> QED
    BY <2>2, <2>4
<1>2. CASE \E rows \in {nothing} \cup (IF Worker(k) THEN {pages[n]} ELSE {}) :
             a = [rows |-> rows, next |-> 0, short |-> TRUE]
  <2>1. PICK rows \in {nothing} \cup (IF Worker(k) THEN {pages[n]} ELSE {}) :
             a = [rows |-> rows, next |-> 0, short |-> TRUE]
    BY <1>2
  <2>2. a.rows = rows /\ a.next = 0 /\ a.short
    BY <2>1
  <2>3. rows \in {pages[n], nothing}
    OBVIOUS
  <2> QED
    BY <2>2, <2>3
<1> QED
  BY <1>1, <1>2 DEF Replies

\* A listing of one page.
LEMMA OneReply ==
  ASSUME NEW k, NEW page, NEW endless, NEW nothing, NEW pages, NEW n, n = 1, pages = <<page>>,
         NEW a \in Replies(k, pages, n, endless, nothing)
  PROVE  a.rows \in {page, nothing} /\ (~a.short => a.rows = page)
<1>1. pages[n] = page
  OBVIOUS
<1>2. CASE \E m : a = [rows |-> page, next |-> m, short |-> FALSE]
  BY <1>2
<1>3. CASE \E rows \in {page, nothing} : a = [rows |-> rows, next |-> 0, short |-> TRUE]
  BY <1>3
<1> QED
  BY <1>1, <1>2, <1>3 DEF Replies

LEMMA AddedFacts ==
  ASSUME NEW S, IsFiniteSet(S), NEW depts \in Seq(S), IsInjective(depts), NEW more \in SUBSET S
  PROVE  /\ Added(depts, more) \in Seq(S) /\ IsInjective(Added(depts, more))
         /\ ToSet(Added(depts, more)) = ToSet(depts) \cup more
<1> DEFINE new == more \ ToSet(depts)
           t == SetToSeq(new)
<1>1. new \subseteq S /\ IsFiniteSet(new) /\ new \cap ToSet(depts) = {} /\ ToSet(depts) \cup new = ToSet(depts) \cup more
  <2>1. new \subseteq S
    OBVIOUS
  <2> QED
    BY <2>1, FS_Subset
<1>2. Added(depts, more) = depts \o t
  BY DEF Added
<1> HIDE DEF new
<1>3. t \in Seq(new) /\ IsInjective(t) /\ ToSet(t) = new
  BY <1>1, SetToSeqFacts
<1>4. t \in Seq(S)
  BY <1>1, <1>3
<1> HIDE DEF t
<1>5. depts \o t \in Seq(S) /\ ToSet(depts \o t) = ToSet(depts) \cup new
  BY <1>3, <1>4, ConcatSet
<1>6. IsInjective(depts \o t)
  BY <1>1, <1>3, <1>4, ConcatInjective
<1> QED
  BY <1>1, <1>2, <1>5, <1>6

LEMMA ScopeFacts ==
  ASSUME NEW c \in Creds
  PROVE  LET scope == Directory[c].scope
         IN  /\ Len(scope) \in Nat \ {0}
             /\ \A i \in 1..Len(scope) : /\ scope[i].depts \subseteq ScopeDepts(Directory[c])
                                         /\ scope[i].users \subseteq ScopeUsers(Directory[c])
             /\ \A S : (\A i \in 1..Len(scope) : scope[i].depts \subseteq S) => ScopeDepts(Directory[c]) \subseteq S
             /\ \A S : (\A i \in 1..Len(scope) : Blanks(scope[i].users) \subseteq S) => Blanks(ScopeUsers(Directory[c])) \subseteq S
<1> DEFINE scope == Directory[c].scope
           T == [depts : SUBSET Depts(Directory[c]), users : SUBSET ScopeUsers(Directory[c])]
<1>1. scope \in Seq(T) /\ scope # <<>>
  BY PlatformAssumption DEF Platform
<1> HIDE DEF T, scope
<1>2. Len(scope) \in Nat \ {0} /\ ToSet(scope) = {scope[i] : i \in 1..Len(scope)}
  BY <1>1, ToSetFacts
<1>3. /\ ScopeDepts(Directory[c]) = UNION {scope[i].depts : i \in 1..Len(scope)}
      /\ ScopeUsers(Directory[c]) = UNION {scope[i].users : i \in 1..Len(scope)}
  BY <1>2 DEF ScopeDepts, ScopeUsers, scope
<1> QED
  BY <1>2, <1>3 DEF scope, Blanks

(***************************************************************************)
(* Feishu's listing of all that is below a department.                     *)
(***************************************************************************)
LEMMA BelowFacts ==
  ASSUME NEW c \in Creds, NEW d \in Depts(Directory[c])
  PROVE  LET pages == Directory[c].below[d]
         IN  /\ Len(pages) \in Nat \ {0}
             /\ \A i \in 1..Len(pages) : pages[i] \subseteq Reach(c, d)
             /\ \A S : d \in S /\ (\A i \in 1..Len(pages) : pages[i] \subseteq S) => Reach(c, d) \subseteq S
<1> DEFINE pages == Directory[c].below[d]
           T == SUBSET Depts(Directory[c])
<1>1. pages \in Seq(T) /\ pages # <<>> /\ UNION ToSet(pages) = Below(Directory[c], d)
  BY PlatformAssumption DEF Platform
<1> HIDE DEF T, pages
<1>2. Len(pages) \in Nat \ {0} /\ ToSet(pages) = {pages[i] : i \in 1..Len(pages)}
  BY <1>1, ToSetFacts
<1>3. Reach(c, d) = {d} \cup UNION {pages[i] : i \in 1..Len(pages)}
  BY <1>1, <1>2 DEF Reach
<1> QED
  BY <1>2, <1>3 DEF pages

LEMMA TokenWalked ==
  ASSUME NEW k \in Keys, NEW w, Walked(k, w), w.phase = "token"
  PROVE  Walked(k, [w EXCEPT !.phase = IF Worker(k) THEN "scope" ELSE "tree",
                             !.queue = IF Kind(k) = "dingtalk" THEN <<Dir(k).root>> ELSE <<>>])
<1> DEFINE v == [w EXCEPT !.phase = IF Worker(k) THEN "scope" ELSE "tree",
                          !.queue = IF Kind(k) = "dingtalk" THEN <<Dir(k).root>> ELSE <<>>]
<1>1. /\ DOMAIN v = WalkFields
      /\ v.phase = IF Worker(k) THEN "scope" ELSE "tree"
      /\ v.queue = IF Kind(k) = "dingtalk" THEN <<Dir(k).root>> ELSE <<>>
      /\ v.visited = {} /\ v.failed = {} /\ v.depts = <<>> /\ v.got = {} /\ v.page = 1 /\ ~v.short
  BY DEF Walked, WalkFields
<1> HIDE DEF v
<1>2. v.depts = <<>> /\ ToSet(v.depts) = {} /\ \A S : v.depts \in Seq(S)
  BY <1>1 DEF ToSet
<1>3. v.phase = "tree" => Listing(k, v)
  <2> SUFFICES ASSUME v.phase = "tree" PROVE Listing(k, v)
    OBVIOUS
  <2>1. Kind(k) # "feishu" /\ Alone(k[1]) = {}
    BY <1>1 DEF Alone, Kind, Worker
  <2>2. Dir(k).root \in Depts(Dir(k)) /\ Dir(k).root \in Reach(k[1], Dir(k).root)
    BY KeyFacts, PlatformAssumption DEF Platform, Reach
  <2>3. Kind(k) = "dingtalk" => v.queue = <<Dir(k).root>> /\ ToSet(v.queue) = {Dir(k).root}
    BY <1>1 DEF ToSet
  <2>4. v.queue \in Seq(Depts(Dir(k))) /\ v.depts \in Seq(Depts(Dir(k)))
    BY <1>1, <1>2, <2>2
  <2> QED
    BY <1>1, <1>2, <2>1, <2>2, <2>3, <2>4 DEF Listing, Dir
<1>4. v.phase = "scope" => Scoping(k, v)
  <2> SUFFICES ASSUME v.phase = "scope" PROVE Scoping(k, v)
    OBVIOUS
  <2>1. Kind(k) = "feishu"
    BY <1>1 DEF Worker
  <2>2. Len(Directory[k[1]].scope) \in Nat \ {0}
    BY KeyFacts, ScopeFacts
  <2>3. IsInjective(v.depts)
    BY <1>2 DEF IsInjective
  <2>4. v.page \in 1..Len(Directory[k[1]].scope) /\ \A i \in 1..v.page-1 : FALSE
    BY <1>1, <2>2
  <2> QED
    BY <1>1, <1>2, <2>1, <2>3, <2>4 DEF Scoping
<1> QED
  BY <1>1, <1>3, <1>4 DEF Walked, v

(***************************************************************************)
(* A page of the scope; after the last the authorized departments are the  *)
(* roots, unless the listing was cut short: then they are among them.      *)
(***************************************************************************)
LEMMA ScopeWalked ==
  ASSUME NEW k \in Keys, NEW w, Walked(k, w), w.phase = "scope", NEW endless,
         NEW a \in Replies(k, Dir(k).scope, w.page, endless, [depts |-> {}, users |-> {}]), NEW read,
         read = [Spend(w) EXCEPT !.depts = Added(w.depts, a.rows.depts), !.short = a.short,
                                 !.got = w.got \cup {<<u, Blank>> : u \in a.rows.users}]
  PROVE  Walked(k, IF a.next # 0 THEN [read EXCEPT !.page = a.next]
                   ELSE [read EXCEPT !.phase = "tree", !.page = 1, !.queue = read.depts])
<1> DEFINE v == IF a.next # 0 THEN [read EXCEPT !.page = a.next]
                ELSE [read EXCEPT !.phase = "tree", !.page = 1, !.queue = read.depts]
           c == k[1]
           scope == Directory[c].scope
           D == Depts(Directory[c])
           added == Added(w.depts, a.rows.depts)
<1>1. Scoping(k, w) /\ DOMAIN w = WalkFields /\ Dir(k) = Directory[c]
  BY DEF Walked, Dir
<1>2. /\ Kind(k) = "feishu" /\ w.failed = {} /\ w.visited = {} /\ w.depts \in Seq(D) /\ IsInjective(w.depts)
      /\ ToSet(w.depts) \subseteq Roots(c) /\ w.got \subseteq Alone(c) /\ w.page \in 1..Len(scope)
      /\ \A i \in 1..w.page-1 : scope[i].depts \subseteq ToSet(w.depts) /\ Blanks(scope[i].users) \subseteq w.got
  BY <1>1 DEF Scoping
<1>3. /\ DOMAIN v = WalkFields /\ v.depts = added /\ v.got = w.got \cup Blanks(a.rows.users) /\ v.visited = {} /\ v.failed = {}
      /\ v.short = a.short
      /\ IF a.next # 0 THEN v.phase = "scope" /\ v.page = a.next
         ELSE v.phase = "tree" /\ v.page = 1 /\ v.queue = added
  BY <1>1, <1>2 DEF WalkFields, Spend, Blanks
<1> HIDE DEF v
<1>4. c \in Creds /\ IsFiniteSet(D) /\ Roots(c) = ScopeDepts(Directory[c]) /\ Alone(c) = Blanks(ScopeUsers(Directory[c]))
  BY <1>2, KeyFacts, PlatformAssumption DEF Platform, Roots, Alone
<1>5. Roots(c) \subseteq D /\ Roots(c) \subseteq Wanted(c)
  BY <1>4, RootsFacts
<1>6. /\ Len(scope) \in Nat \ {0}
      /\ \A i \in 1..Len(scope) : scope[i].depts \subseteq Roots(c) /\ scope[i].users \subseteq ScopeUsers(Directory[c])
      /\ \A S : (\A i \in 1..Len(scope) : scope[i].depts \subseteq S) => Roots(c) \subseteq S
      /\ \A S : (\A i \in 1..Len(scope) : Blanks(scope[i].users) \subseteq S) => Alone(c) \subseteq S
  BY <1>4, ScopeFacts, SMTT(30)
<1>7. /\ a.rows \in {scope[w.page], [depts |-> {}, users |-> {}]} /\ a.next \in 0..Len(scope)
      /\ a.short => a.next = 0
      /\ ~a.short => /\ a.rows = scope[w.page] /\ (a.next = 0 => w.page = Len(scope))
                     /\ a.next # 0 => \A i \in 1..a.next-1 : i \in 1..w.page
  <2> HIDE DEF scope, c
  <2>1. Dir(k).scope = scope
    BY <1>1 DEF scope
  <2> QED
    BY <1>2, <1>6, <2>1, RepliesFacts
<1>8. a.rows.depts \subseteq Roots(c) /\ Blanks(a.rows.users) \subseteq Alone(c)
  <2>1. a.rows.depts \subseteq Roots(c) /\ a.rows.users \subseteq ScopeUsers(Directory[c])
    BY <1>2, <1>6, <1>7
  <2> QED
    BY <1>4, <2>1 DEF Blanks
<1>9. added \in Seq(D) /\ IsInjective(added) /\ ToSet(added) = ToSet(w.depts) \cup a.rows.depts
  <2> HIDE DEF D
  <2>1. a.rows.depts \in SUBSET D
    BY <1>5, <1>8
  <2> QED
    BY <1>2, <1>4, <2>1, AddedFacts
<1>10. ToSet(v.depts) \subseteq Roots(c) /\ v.got \subseteq Alone(c)
  BY <1>2, <1>3, <1>8, <1>9
<1>11. ASSUME ~a.short, NEW i \in 1..w.page
       PROVE  scope[i].depts \subseteq ToSet(v.depts) /\ Blanks(scope[i].users) \subseteq v.got
  <2>1. CASE i = w.page
    BY <1>3, <1>7, <1>9, <1>11, <2>1
  <2>2. CASE i # w.page
    <3>1. i \in 1..w.page-1
      <4>1. w.page \in Nat /\ i \in 1..w.page
        BY <1>2, <1>6, SMTT(30)
      <4> QED
        BY <2>2, <4>1
    <3> QED
      BY <1>2, <1>3, <1>9, <3>1
  <2> QED
    BY <2>1, <2>2
<1> HIDE DEF scope, c, D, added
<1>12. CASE a.next # 0
  <2>1. ~a.short /\ v.page \in 1..Len(scope) /\ \A i \in 1..v.page-1 : i \in 1..w.page
    BY <1>3, <1>6, <1>7, <1>12
  <2>2. \A i \in 1..v.page-1 : scope[i].depts \subseteq ToSet(v.depts) /\ Blanks(scope[i].users) \subseteq v.got
    BY <1>11, <2>1
  <2>3. Scoping(k, v)
    BY <1>2, <1>3, <1>9, <1>10, <2>1, <2>2 DEF Scoping, scope, c, D
  <2> QED
    BY <1>3, <1>12, <2>3 DEF Walked, v
<1>13. CASE a.next = 0
  <2>1. ~a.short => Roots(c) \subseteq ToSet(v.depts) /\ Alone(c) \subseteq v.got
    BY <1>6, <1>7, <1>11, <1>13
  <2>2. v.queue # <<>> => v.page \in 1..Len(Directory[c].below[Head(v.queue)]) /\ \A i \in 1..v.page-1 : FALSE
    <3> SUFFICES ASSUME v.queue # <<>> PROVE v.page \in 1..Len(Directory[c].below[Head(v.queue)]) /\ \A i \in 1..v.page-1 : FALSE
      OBVIOUS
    <3>1. Head(v.queue) \in D
      BY <1>3, <1>9, <1>13, ToSetFacts
    <3>2. Len(Directory[c].below[Head(v.queue)]) \in Nat \ {0}
      BY <1>4, <3>1, BelowFacts DEF D
    <3> QED
      BY <1>3, <1>13, <3>2
  <2>3. v.queue = v.depts
    BY <1>3, <1>13
  <2>4. ToSet(v.depts) \subseteq Wanted(c)
    BY <1>5, <1>10
  <2>5. Listing(k, v)
    BY <1>2, <1>3, <1>9, <1>10, <2>1, <2>2, <2>3, <2>4 DEF Listing, c, D
  <2> QED
    BY <1>3, <1>13, <2>5 DEF Walked, v
<1> QED
  BY <1>12, <1>13

-----------------------------------------------------------------------------
(***************************************************************************)
(* The departments of a list that were not visited, by induction on its    *)
(* length.                                                                 *)
(***************************************************************************)
LEMMA UnvisitedFacts ==
  ASSUME NEW S, NEW s \in Seq(S), NEW visited
  PROVE  Unvisited(s, visited) \in Seq(S) /\ ToSet(Unvisited(s, visited)) = ToSet(s) \ visited
<1> DEFINE V == Seq(S)
           next == [p \in Nat \X V |-> IF p[1] + 1 \in 1..Len(s) /\ s[p[1] + 1] \notin visited THEN Append(p[2], s[p[1] + 1]) ELSE p[2]]
           Upto(g) == g = [n \in 0..Len(s) |-> IF n = 0 THEN <<>> ELSE IF s[n] \in visited THEN g[n-1] ELSE Append(g[n-1], s[n])]
<1>0. Len(s) \in Nat /\ <<>> \in V
  OBVIOUS
<1>1. next \in [Nat \X V -> V]
  <2>1. ASSUME NEW p \in Nat \X V
        PROVE  (IF p[1] + 1 \in 1..Len(s) /\ s[p[1] + 1] \notin visited THEN Append(p[2], s[p[1] + 1]) ELSE p[2]) \in V
    <3>1. p[2] \in Seq(S)
      OBVIOUS
    <3>2. p[1] + 1 \in 1..Len(s) => s[p[1] + 1] \in S
      OBVIOUS
    <3> QED
      BY <3>1, <3>2
  <2> QED
    BY <2>1
<1>2. PICK f \in [Nat -> V] : Iterates(f, <<>>, next)
  <2> HIDE DEF V, next
  <2> QED
    BY <1>0, <1>1, NatRecursion
<1> DEFINE h == [n \in 0..Len(s) |-> f[n]]
<1>3. Upto(h)
  <2>1. f[0] = <<>> /\ \A n \in Nat : f[n+1] = next[<<n, f[n]>>]
    BY <1>2 DEF Iterates
  <2>2. ASSUME NEW n \in 0..Len(s), n # 0
        PROVE  f[n] = IF s[n] \in visited THEN f[n-1] ELSE Append(f[n-1], s[n])
    <3>1. n - 1 \in Nat /\ (n - 1) + 1 = n /\ n \in 1..Len(s)
      BY <1>0, <2>2
    <3>2. f[n] = next[<<n-1, f[n-1]>>] /\ f[n-1] \in V
      <4> HIDE DEF V, next
      <4>1. f[(n - 1) + 1] = next[<<n-1, f[n-1]>>]
        BY <2>1, <3>1
      <4> QED
        BY <1>2, <3>1, <4>1
    <3>3. <<n-1, f[n-1]>> \in Nat \X V
      BY <3>1, <3>2
    <3>4. next[<<n-1, f[n-1]>>] = IF (n-1) + 1 \in 1..Len(s) /\ s[(n-1) + 1] \notin visited THEN Append(f[n-1], s[(n-1) + 1]) ELSE f[n-1]
      BY <3>3
    <3> HIDE DEF next
    <3> QED
      BY <3>1, <3>2, <3>4
  <2>3. \A n \in 0..Len(s) : n # 0 => n - 1 \in 0..Len(s)
    BY <1>0
  <2> HIDE DEF V, next
  <2>4. \A n \in 0..Len(s) : h[n] = IF n = 0 THEN <<>> ELSE IF s[n] \in visited THEN h[n-1] ELSE Append(h[n-1], s[n])
    BY <2>1, <2>2, <2>3
  <2>5. h = [n \in 0..Len(s) |-> h[n]]
    OBVIOUS
  <2> HIDE DEF h
  <2> QED
    BY <2>4, <2>5
<1> DEFINE upto == CHOOSE g : Upto(g)
<1>4. Upto(upto)
  <2> HIDE DEF Upto, h
  <2> QED
    BY <1>3
<1>5. Unvisited(s, visited) = upto[Len(s)]
  BY DEF Unvisited
<1> HIDE DEF upto, h, next, V
<1>40. \A n \in 0..Len(s) : upto[n] = IF n = 0 THEN <<>> ELSE IF s[n] \in visited THEN upto[n-1] ELSE Append(upto[n-1], s[n])
  BY <1>4
<1> DEFINE First(n) == {s[i] : i \in 1..n}
           T == {n \in Nat : n <= Len(s) => upto[n] \in Seq(S) /\ ToSet(upto[n]) = First(n) \ visited}
<1>6. 0 \in T
  <2>1. 0 \in 0..Len(s)
    BY <1>0
  <2>2. upto[0] = <<>>
    BY <1>4, <2>1
  <2>3. ToSet(<<>>) = {}
    BY DEF ToSet
  <2>4. First(0) = {}
    OBVIOUS
  <2>5. ToSet(upto[0]) = First(0) \ visited /\ upto[0] \in Seq(S)
    <3> HIDE DEF First
    <3> QED
      BY <2>2, <2>3, <2>4
  <2> HIDE DEF First
  <2> QED
    BY <2>5
<1>7. ASSUME NEW n \in Nat, n \in T PROVE n + 1 \in T
  <2> SUFFICES ASSUME n + 1 <= Len(s)
               PROVE  upto[n+1] \in Seq(S) /\ ToSet(upto[n+1]) = First(n+1) \ visited
    <3> HIDE DEF First
    <3> QED
      OBVIOUS
  <2>1. n <= Len(s) /\ n + 1 \in 0..Len(s) /\ n + 1 # 0 /\ n + 1 - 1 = n /\ n + 1 \in 1..Len(s)
    BY <1>0
  <2>2. upto[n] \in Seq(S) /\ ToSet(upto[n]) = First(n) \ visited
    <3> HIDE DEF First
    <3> QED
      BY <1>7, <2>1
  <2>3. upto[n+1] = IF s[n+1] \in visited THEN upto[n] ELSE Append(upto[n], s[n+1])
    <3>1. upto[n+1] = IF n + 1 = 0 THEN <<>> ELSE IF s[n+1] \in visited THEN upto[n+1-1] ELSE Append(upto[n+1-1], s[n+1])
      <4> HIDE DEF Upto, T
      <4> QED
        BY <1>40, <2>1
    <3> HIDE DEF Upto
    <3> QED
      BY <2>1, <3>1
  <2> HIDE DEF Upto
  <2>4. First(n+1) = First(n) \cup {s[n+1]}
    <3>1. \A i \in 1..n+1 : i \in 1..n \/ i = n + 1
      OBVIOUS
    <3>2. n + 1 \in 1..n+1 /\ \A i \in 1..n : i \in 1..n+1
      OBVIOUS
    <3> QED
      BY <3>1, <3>2
  <2>5. s[n+1] \in S
    BY <2>1
  <2>6. s[n+1] \notin visited => Append(upto[n], s[n+1]) \in Seq(S) /\ ToSet(Append(upto[n], s[n+1])) = ToSet(upto[n]) \cup {s[n+1]}
    <3> HIDE DEF First, T
    <3>1. upto[n] \in Seq(S)
      BY <2>2
    <3> QED
      BY <3>1, <2>5, AppendSet
  <2> HIDE DEF First
  <2> QED
    BY <2>2, <2>3, <2>4, <2>6
<1>8. Nat \subseteq T
  <2> HIDE DEF T
  <2> QED
    BY <1>6, <1>7, Induction
<1>9. First(Len(s)) = ToSet(s)
  BY ToSetFacts
<1> HIDE DEF Upto, First
<1>10. Len(s) \in T
  BY <1>0, <1>8
<1>11. upto[Len(s)] \in Seq(S) /\ ToSet(upto[Len(s)]) = First(Len(s)) \ visited
  BY <1>0, <1>10
<1> QED
  BY <1>5, <1>9, <1>11

(***************************************************************************)
(* The tree: a department that was visited is skipped; of one that was not *)
(* the children join the queue (DingTalk) or all that is below it the list *)
(* (Feishu).                                                               *)
(***************************************************************************)
LEMMA SkipWalked ==
  ASSUME NEW k \in Keys, NEW w, Walked(k, w), w.phase = "tree", Kind(k) = "dingtalk", w.queue # <<>>,
         Head(w.queue) \in w.visited
  PROVE  Walked(k, [w EXCEPT !.queue = Tail(w.queue)])
<1> DEFINE v == [w EXCEPT !.queue = Tail(w.queue)]
<1>1. /\ DOMAIN v = WalkFields /\ v.phase = "tree" /\ v.queue = Tail(w.queue)
      /\ v.visited = w.visited /\ v.failed = w.failed /\ v.depts = w.depts /\ v.got = w.got /\ v.short = w.short
  BY DEF Walked, WalkFields
<1> HIDE DEF v
<1>2. Listing(k, w)
  BY DEF Walked
<1>3. w.queue \in Seq(Depts(Directory[k[1]])) /\ w.depts \in Seq(Depts(Directory[k[1]]))
  BY <1>2 DEF Listing
<1>4. Tail(w.queue) \in Seq(Depts(Directory[k[1]])) /\ ToSet(w.queue) = {Head(w.queue)} \cup ToSet(Tail(w.queue))
  <2> DEFINE queue == w.queue
             S == Depts(Directory[k[1]])
  <2>1. queue \in Seq(S) /\ queue # <<>>
    BY <1>3
  <2> HIDE DEF queue, S
  <2>2. Tail(queue) \in Seq(S) /\ ToSet(queue) = {Head(queue)} \cup ToSet(Tail(queue))
    BY <2>1, ToSetFacts
  <2> QED
    BY <2>2 DEF queue, S
<1>5. w.visited \cup ToSet(v.queue) = w.visited \cup ToSet(w.queue)
  BY <1>1, <1>4
<1>6. Listing(k, v)
  BY <1>1, <1>2, <1>3, <1>4, <1>5 DEF Listing
<1> QED
  BY <1>1, <1>6 DEF Walked, v

LEMMA DingtalkWalked ==
  ASSUME NEW k \in Keys, NEW w, Walked(k, w), w.phase = "tree", Kind(k) = "dingtalk", w.queue # <<>>, NEW d,
         d = Head(w.queue), NEW a \in Replies(k, <<Dir(k).children[d]>>, 1, FALSE, <<>>)
  PROVE  Walked(k, [Spend(w) EXCEPT !.depts = Append(w.depts, d), !.visited = w.visited \cup {d},
                                    !.queue = Tail(w.queue) \o Unvisited(a.rows, w.visited \cup {d}),
                                    !.short = w.short \/ a.short])
<1> DEFINE below == Unvisited(a.rows, w.visited \cup {d})
           v == [Spend(w) EXCEPT !.depts = Append(w.depts, d), !.visited = w.visited \cup {d},
                                 !.queue = Tail(w.queue) \o below, !.short = w.short \/ a.short]
           depts == Depts(Directory[k[1]])
           root == Directory[k[1]].root
           kids(e) == ToSet(Directory[k[1]].children[e])
<1>1. /\ DOMAIN v = WalkFields /\ v.phase = "tree" /\ v.queue = Tail(w.queue) \o below
      /\ v.visited = w.visited \cup {d} /\ v.failed = w.failed /\ v.depts = Append(w.depts, d) /\ v.got = w.got
      /\ v.short = (w.short \/ a.short)
  BY DEF Walked, WalkFields, Spend
<1> HIDE DEF v
<1>2. Listing(k, w)
  BY DEF Walked
<1>3. /\ w.failed = {} /\ w.got \subseteq Alone(k[1]) /\ (~w.short => Alone(k[1]) \subseteq w.got)
      /\ w.queue \in Seq(depts) /\ w.depts \in Seq(depts)
      /\ w.visited = ToSet(w.depts) /\ root \in w.visited \cup ToSet(w.queue)
      /\ w.visited \cup ToSet(w.queue) \subseteq Reach(k[1], root)
      /\ ~w.short => \A e \in w.visited : kids(e) \subseteq w.visited \cup ToSet(w.queue)
  BY <1>2 DEF Listing
<1>4. d \in depts /\ Tail(w.queue) \in Seq(depts) /\ ToSet(w.queue) = {d} \cup ToSet(Tail(w.queue))
  BY <1>3, ToSetFacts
<1>5. k[1] \in Creds /\ root \in depts /\ Directory[k[1]].children[d] \in Seq(depts)
  BY <1>4, KeyFacts, PlatformAssumption DEF Platform
<1>50. a.rows \in {Dir(k).children[d], <<>>} /\ (~a.short => a.rows = Dir(k).children[d])
  <2> DEFINE page == Dir(k).children[d]
             pages == <<page>>
             nothing == <<>>
             endless == FALSE
             n == 1
  <2>1. a \in Replies(k, pages, n, endless, nothing) /\ pages = <<page>> /\ n = 1
    OBVIOUS
  <2> HIDE DEF page, pages, nothing, endless, n
  <2>2. a.rows \in {page, nothing} /\ (~a.short => a.rows = page)
    BY <2>1, OneReply
  <2> QED
    BY <2>2 DEF page, nothing
<1>6. below \in Seq(depts) /\ ToSet(below) \subseteq kids(d) /\ (~a.short => ToSet(below) = kids(d) \ (w.visited \cup {d}))
  <2>1. a.rows \in Seq(depts) /\ ToSet(a.rows) \subseteq kids(d)
    <3>1. CASE a.rows = Dir(k).children[d]
      BY <1>5, <3>1 DEF Dir
    <3>2. CASE a.rows = <<>>
      <4>1. <<>> \in Seq(depts) /\ ToSet(<<>>) = {}
        BY DEF ToSet
      <4> QED
        BY <3>2, <4>1
    <3> QED
      BY <1>50, <3>1, <3>2
  <2>2. below \in Seq(depts) /\ ToSet(below) = ToSet(a.rows) \ (w.visited \cup {d})
    BY <2>1, UnvisitedFacts
  <2>3. ~a.short => ToSet(a.rows) = kids(d)
    BY <1>50 DEF Dir
  <2> QED
    BY <2>1, <2>2, <2>3
<1> HIDE DEF below
<1>7. v.queue \in Seq(depts) /\ ToSet(v.queue) = ToSet(Tail(w.queue)) \cup ToSet(below)
  BY <1>1, <1>4, <1>6, ConcatSet
<1>8. v.depts \in Seq(depts) /\ ToSet(v.depts) = ToSet(w.depts) \cup {d}
  BY <1>1, <1>3, <1>4, AppendSet
<1>9. kids(d) \subseteq Reach(k[1], root)
  <2>1. d \in Reach(k[1], root)
    BY <1>3, <1>4
  <2> QED
    BY <1>5, <2>1, ReachFacts
<1> HIDE DEF depts, root, kids
<1>10. v.visited = ToSet(v.depts)
  BY <1>1, <1>3, <1>8
<1>11. /\ v.visited \cup ToSet(v.queue) = w.visited \cup ToSet(w.queue) \cup ToSet(below)
       /\ ~a.short => v.visited \cup ToSet(v.queue) = w.visited \cup ToSet(w.queue) \cup kids(d)
  BY <1>1, <1>4, <1>6, <1>7
<1>12. root \in v.visited \cup ToSet(v.queue) /\ v.visited \cup ToSet(v.queue) \subseteq Reach(k[1], root)
  BY <1>3, <1>6, <1>9, <1>11
<1>13. ~v.short => \A e \in v.visited : kids(e) \subseteq v.visited \cup ToSet(v.queue)
  BY <1>1, <1>3, <1>11
<1>14. Listing(k, v)
  BY <1>1, <1>3, <1>7, <1>8, <1>10, <1>12, <1>13 DEF Listing, depts, root, kids
<1> QED
  BY <1>1, <1>14 DEF Walked, v, below

LEMMA FeishuWalked ==
  ASSUME NEW k \in Keys, NEW w, Walked(k, w), w.phase = "tree", Kind(k) = "feishu", w.queue # <<>>, NEW d,
         d = Head(w.queue), NEW endless, NEW a \in Replies(k, Dir(k).below[d], w.page, endless, {}), NEW read,
         read = [Spend(w) EXCEPT !.depts = Added(w.depts, a.rows), !.short = w.short \/ a.short]
  PROVE  Walked(k, IF a.next # 0 THEN [read EXCEPT !.page = a.next]
                   ELSE [read EXCEPT !.page = 1, !.queue = Tail(w.queue), !.visited = w.visited \cup {d}])
<1> DEFINE v == IF a.next # 0 THEN [read EXCEPT !.page = a.next]
                ELSE [read EXCEPT !.page = 1, !.queue = Tail(w.queue), !.visited = w.visited \cup {d}]
           c == k[1]
           D == Depts(Directory[c])
           pages == Directory[c].below[d]
           added == Added(w.depts, a.rows)
<1>1. Listing(k, w) /\ DOMAIN w = WalkFields /\ Dir(k) = Directory[c]
  BY DEF Walked, Dir
<1>2. /\ w.failed = {} /\ w.got \subseteq Alone(c) /\ (~w.short => Alone(c) \subseteq w.got)
      /\ w.queue \in Seq(D) /\ w.depts \in Seq(D) /\ IsInjective(w.depts) /\ ToSet(w.depts) \subseteq Wanted(c)
      /\ w.visited \cup ToSet(w.queue) \subseteq Roots(c) /\ w.page \in 1..Len(pages)
      /\ ~w.short =>
           /\ Roots(c) \subseteq ToSet(w.depts) /\ Roots(c) \subseteq w.visited \cup ToSet(w.queue)
           /\ \A e \in w.visited : Reach(c, e) \subseteq ToSet(w.depts)
           /\ \A i \in 1..w.page-1 : pages[i] \subseteq ToSet(w.depts)
  BY <1>1 DEF Listing
<1>3. /\ DOMAIN v = WalkFields /\ v.phase = "tree" /\ v.failed = w.failed /\ v.got = w.got
      /\ v.depts = added /\ v.short = (w.short \/ a.short)
      /\ IF a.next # 0 THEN v.page = a.next /\ v.queue = w.queue /\ v.visited = w.visited
         ELSE v.page = 1 /\ v.queue = Tail(w.queue) /\ v.visited = w.visited \cup {d}
  BY <1>1 DEF WalkFields, Spend
<1> HIDE DEF v
<1>4. c \in Creds /\ IsFiniteSet(D)
  BY KeyFacts, PlatformAssumption DEF Platform
<1>5. d \in D /\ Tail(w.queue) \in Seq(D) /\ ToSet(w.queue) = {d} \cup ToSet(Tail(w.queue)) /\ d \in Roots(c)
  <2>1. d \in D /\ Tail(w.queue) \in Seq(D) /\ ToSet(w.queue) = {d} \cup ToSet(Tail(w.queue))
    <3> HIDE DEF D
    <3> QED
      BY <1>2, ToSetFacts
  <2> QED
    BY <1>2, <2>1
<1>6. /\ Len(pages) \in Nat \ {0} /\ \A i \in 1..Len(pages) : pages[i] \subseteq Reach(c, d)
      /\ \A S : d \in S /\ (\A i \in 1..Len(pages) : pages[i] \subseteq S) => Reach(c, d) \subseteq S
  BY <1>4, <1>5, BelowFacts
<1>7. Reach(c, d) \subseteq D /\ Reach(c, d) \subseteq Wanted(c)
  BY <1>4, <1>5, ReachFacts DEF Wanted
<1>8. /\ a.rows \in {pages[w.page], {}} /\ a.next \in 0..Len(pages)
      /\ a.short => a.next = 0
      /\ ~a.short => /\ a.rows = pages[w.page] /\ (a.next = 0 => w.page = Len(pages))
                     /\ a.next # 0 => \A i \in 1..a.next-1 : i \in 1..w.page
  <2> HIDE DEF pages, c
  <2>1. Dir(k).below[d] = pages
    BY <1>1 DEF pages
  <2> QED
    BY <1>2, <1>6, <2>1, RepliesFacts
<1>9. a.rows \subseteq Reach(c, d)
  BY <1>2, <1>6, <1>8
<1>10. added \in Seq(D) /\ IsInjective(added) /\ ToSet(added) = ToSet(w.depts) \cup a.rows
  <2> HIDE DEF D
  <2>1. a.rows \in SUBSET D
    BY <1>7, <1>9
  <2> QED
    BY <1>2, <1>4, <2>1, AddedFacts
<1>11. ASSUME ~v.short, NEW i \in 1..w.page PROVE pages[i] \subseteq ToSet(v.depts)
  <2>1. CASE i = w.page
    BY <1>3, <1>8, <1>10, <1>11, <2>1
  <2>2. CASE i # w.page
    <3>1. i \in 1..w.page-1
      <4>1. w.page \in Nat /\ i \in 1..w.page
        BY <1>2, <1>6, SMTT(30)
      <4> QED
        BY <2>2, <4>1
    <3> QED
      BY <1>2, <1>3, <1>10, <1>11, <3>1
  <2> QED
    BY <2>1, <2>2
<1>12. ToSet(v.depts) \subseteq Wanted(c) /\ ToSet(w.depts) \subseteq ToSet(v.depts)
  BY <1>2, <1>3, <1>7, <1>9, <1>10
<1>13. ~v.short => ~w.short /\ ~a.short
  BY <1>3
<1> HIDE DEF c, D, pages, added
<1>14. CASE a.next # 0
  <2>1. v.page \in 1..Len(pages) /\ (~v.short => \A i \in 1..v.page-1 : i \in 1..w.page)
    BY <1>3, <1>6, <1>8, <1>13, <1>14
  <2>2. ~v.short => \A i \in 1..v.page-1 : pages[i] \subseteq ToSet(v.depts)
    BY <1>11, <2>1
  <2>3. pages = Directory[c].below[Head(v.queue)]
    BY <1>3, <1>14 DEF pages
  <2>4. v.queue = w.queue /\ v.visited = w.visited
    BY <1>3, <1>14
  <2>5. ~v.short => /\ Roots(c) \subseteq ToSet(v.depts) /\ Roots(c) \subseteq v.visited \cup ToSet(v.queue)
                    /\ \A e \in v.visited : Reach(c, e) \subseteq ToSet(v.depts)
    BY <1>2, <1>12, <1>13, <2>4
  <2>6. Listing(k, v)
    BY <1>2, <1>3, <1>10, <1>12, <1>13, <2>1, <2>2, <2>3, <2>4, <2>5 DEF Listing, c, D
  <2> QED
    BY <1>3, <2>6 DEF Walked, v
<1>15. CASE a.next = 0
  <2>0. v.page = 1 /\ v.queue = Tail(w.queue) /\ v.visited = w.visited \cup {d}
    BY <1>3, <1>15
  <2>1. v.queue # <<>> => v.page \in 1..Len(Directory[c].below[Head(v.queue)]) /\ \A i \in 1..v.page-1 : FALSE
    <3> SUFFICES ASSUME v.queue # <<>> PROVE v.page \in 1..Len(Directory[c].below[Head(v.queue)]) /\ \A i \in 1..v.page-1 : FALSE
      OBVIOUS
    <3>1. Head(v.queue) \in D
      BY <1>5, <2>0, ToSetFacts
    <3>2. Directory[c].below[Head(v.queue)] \in Seq(SUBSET D) \ {<<>>}
      BY <1>4, <3>1, PlatformAssumption DEF Platform, D
    <3>3. Len(Directory[c].below[Head(v.queue)]) \in Nat \ {0}
      BY <3>2
    <3> QED
      BY <2>0, <3>3
  <2>2. ~v.short => Reach(c, d) \subseteq ToSet(v.depts)
    <3> SUFFICES ASSUME ~v.short PROVE Reach(c, d) \subseteq ToSet(v.depts)
      OBVIOUS
    <3>1. \A i \in 1..Len(pages) : pages[i] \subseteq ToSet(v.depts)
      BY <1>8, <1>11, <1>13, <1>15
    <3>2. d \in ToSet(v.depts)
      BY <1>2, <1>5, <1>12, <1>13
    <3> QED
      BY <1>6, <3>1, <3>2
  <2>3. v.visited \cup ToSet(v.queue) = w.visited \cup ToSet(w.queue)
    BY <1>5, <2>0
  <2>4. ~v.short => /\ Roots(c) \subseteq ToSet(v.depts) /\ Roots(c) \subseteq v.visited \cup ToSet(v.queue)
                    /\ \A e \in v.visited : Reach(c, e) \subseteq ToSet(v.depts)
    BY <1>2, <1>12, <1>13, <2>0, <2>2, <2>3
  <2>5. v.queue \in Seq(D)
    BY <1>5, <2>0
  <2>6. Listing(k, v)
    BY <1>2, <1>3, <1>10, <1>12, <1>13, <2>1, <2>3, <2>4, <2>5 DEF Listing, c, D
  <2> QED
    BY <1>3, <2>6 DEF Walked, v
<1> QED
  BY <1>14, <1>15

(***************************************************************************)
(* With nothing left to list the departments are the wanted ones: closed   *)
(* under children, and with a root, they hold its subtree; and none is     *)
(* outside it.                                                             *)
(***************************************************************************)
LEMMA DoneIsWanted ==
  ASSUME NEW k \in Keys, NEW w, Listing(k, w), Kind(k) # "wecom", w.queue = <<>>
  PROVE  ToSet(w.depts) \subseteq Wanted(k[1]) /\ (~w.short => ToSet(w.depts) = Wanted(k[1]))
<1> DEFINE c == k[1]
           root == Directory[c].root
<1>1. k[1] \in Creds /\ root \in Depts(Directory[c])
  BY KeyFacts, PlatformAssumption DEF Platform
<1>2. ToSet(w.queue) = {}
  BY DEF ToSet
<1>3. CASE Kind(k) = "dingtalk"
  <2>1. /\ w.visited = ToSet(w.depts) /\ root \in w.visited /\ w.visited \subseteq Reach(c, root)
        /\ ~w.short => \A e \in w.visited : ToSet(Directory[c].children[e]) \subseteq w.visited
    BY <1>2, <1>3 DEF Listing
  <2>2. ~w.short => Reach(c, root) \subseteq w.visited
    BY <1>1, <2>1, ReachFacts
  <2>3. Roots(c) = {root}
    BY <1>1, <1>3, KeyFacts DEF Roots
  <2> QED
    BY <2>1, <2>2, <2>3 DEF Wanted
<1>4. CASE Kind(k) = "feishu"
  <2>1. /\ ToSet(w.depts) \subseteq Wanted(c)
        /\ ~w.short => Roots(c) \subseteq w.visited /\ \A e \in w.visited : Reach(c, e) \subseteq ToSet(w.depts)
    BY <1>2, <1>4 DEF Listing
  <2> QED
    BY <2>1 DEF Wanted
<1> QED
  BY <1>3, <1>4, KeyFacts DEF Kinds

LEMMA FetchingBegins ==
  ASSUME NEW k \in Keys, NEW w, DOMAIN w = WalkFields, w.failed = {},
         w.got \subseteq Alone(k[1]), ~w.short => Alone(k[1]) \subseteq w.got,
         w.depts \in Seq(Depts(Directory[k[1]])), Worker(k) => IsInjective(w.depts), NEW ds,
         ds = (IF Kind(k) = "wecom" THEN Tops(Dir(k)) ELSE Wanted(k[1])),
         ToSet(w.depts) \subseteq ds, ~w.short => ToSet(w.depts) = ds
  PROVE  Walked(k, Begin(k, w))
<1> DEFINE v == Begin(k, w)
           begun == IF Worker(k) THEN {} ELSE ToSet(w.depts)
<1>1. /\ DOMAIN v = WalkFields /\ v.phase = "users" /\ v.cursor = [d \in begun |-> 1]
      /\ v.failed = w.failed /\ v.depts = w.depts /\ v.got = w.got /\ v.short = w.short
  BY DEF WalkFields, Begin
<1> HIDE DEF v
<1>2. InDepts(k, ds) = Visible(k[1])
  BY Covers
<1>20. /\ InDepts(k, ToSet(w.depts)) \subseteq Visible(k[1]) /\ Alone(k[1]) \subseteq Visible(k[1])
       /\ ~w.short => InDepts(k, ToSet(w.depts)) = Visible(k[1])
  <2>1. InDepts(k, ToSet(w.depts)) \subseteq InDepts(k, ds) /\ Alone(k[1]) \subseteq InDepts(k, ds)
    BY DEF InDepts
  <2> QED
    BY <1>2, <2>1
<1>3. DOMAIN v.cursor = begun /\ \A d \in begun : v.cursor[d] = 1
  <2> HIDE DEF begun
  <2> QED
    BY <1>1
<1>4. ASSUME NEW d \in begun PROVE v.cursor[d] \in 0..Len(PagesOf(k, d)) /\ Fetched(k, v, d)
  <2>1. d \in Depts(Dir(k))
    <3>1. ToSet(w.depts) \subseteq Depts(Directory[k[1]])
      BY ToSetFacts
    <3> QED
      BY <1>4, <3>1 DEF Dir
  <2>2. Len(PagesOf(k, d)) \in Nat \ {0}
    BY <2>1, PagesFacts
  <2> HIDE DEF begun
  <2>3. v.cursor[d] = 1
    BY <1>3
  <2> QED
    BY <2>2, <2>3 DEF Fetched
<1>5. Worker(k) => Cardinality(DOMAIN v.cursor) = 0 /\ DOMAIN v.cursor = {}
  BY <1>3, FS_EmptySet
<1>6. IF Worker(k)
      THEN /\ IsInjective(v.depts) /\ Cardinality(DOMAIN v.cursor) <= Len(v.depts)
           /\ DOMAIN v.cursor = {v.depts[i] : i \in 1..Cardinality(DOMAIN v.cursor)} /\ DOMAIN v.cursor \subseteq ToSet(v.depts)
      ELSE DOMAIN v.cursor = ToSet(v.depts)
  BY <1>1, <1>3, <1>5, ToSetFacts
<1>7. Fetching(k, v)
  <2> HIDE DEF begun
  <2>1. v.failed \subseteq ToSet(v.depts) \X Codes
    BY <1>1
  <2>2. v.got \subseteq Visible(k[1]) /\ (~v.short => Alone(k[1]) \subseteq v.got)
    BY <1>1, <1>20
  <2>3. \A d \in DOMAIN v.cursor : v.cursor[d] \in 0..Len(PagesOf(k, d)) /\ Fetched(k, v, d)
    BY <1>3, <1>4
  <2>4. /\ v.depts \in Seq(Depts(Directory[k[1]])) /\ InDepts(k, ToSet(v.depts)) \subseteq Visible(k[1])
        /\ ~v.short => Visible(k[1]) \subseteq InDepts(k, ToSet(v.depts))
    BY <1>1, <1>20
  <2> QED
    BY <1>6, <2>1, <2>2, <2>3, <2>4 DEF Fetching
<1> QED
  BY <1>1, <1>7 DEF Walked, v

LEMMA WecomWalked ==
  ASSUME NEW k \in Keys, NEW w, Walked(k, w), w.phase = "tree", Kind(k) = "wecom",
         NEW a \in Replies(k, <<Tops(Dir(k))>>, 1, FALSE, {Dir(k).root})
  PROVE  Walked(k, Begin(k, [w EXCEPT !.depts = SetToSeq(a.rows), !.short = a.short]))
<1> DEFINE tops == Tops(Dir(k))
           v == [w EXCEPT !.depts = SetToSeq(a.rows), !.short = a.short]
<1>1. DOMAIN w = WalkFields /\ Listing(k, w)
  BY DEF Walked
<1>2. w.failed = {} /\ w.got = {} /\ Alone(k[1]) = {}
  <2>1. Alone(k[1]) = {}
    BY KeyFacts DEF Alone
  <2> QED
    BY <1>1, <2>1 DEF Listing
<1>3. DOMAIN v = WalkFields /\ v.failed = {} /\ v.got = {} /\ v.depts = SetToSeq(a.rows) /\ v.short = a.short
  BY <1>1, <1>2 DEF WalkFields
<1> HIDE DEF v
<1>4. a.rows \in {tops, {Dir(k).root}} /\ (~a.short => a.rows = tops)
  <2> DEFINE pages == <<tops>>
             nothing == {Dir(k).root}
             endless == FALSE
             n == 1
  <2>1. a \in Replies(k, pages, n, endless, nothing) /\ pages = <<tops>> /\ n = 1
    OBVIOUS
  <2> HIDE DEF pages, nothing, endless, n, tops
  <2>2. a.rows \in {tops, nothing} /\ (~a.short => a.rows = tops)
    BY <2>1, OneReply
  <2> QED
    BY <2>2 DEF nothing
<1>5. tops \subseteq Depts(Directory[k[1]]) /\ Dir(k).root \in tops
  BY KeyFacts, TopsCover DEF Tops
<1> HIDE DEF tops
<1>6. a.rows \subseteq tops /\ a.rows \subseteq Depts(Directory[k[1]]) /\ IsFiniteSet(a.rows)
  <2>1. IsFiniteSet(Depts(Directory[k[1]]))
    BY KeyFacts, PlatformAssumption DEF Platform
  <2>2. a.rows \subseteq tops
    BY <1>4, <1>5
  <2> QED
    BY <1>5, <2>1, <2>2, FS_Subset
<1>7. SetToSeq(a.rows) \in Seq(a.rows) /\ ToSet(SetToSeq(a.rows)) = a.rows
  BY <1>6, SetToSeqFacts
<1>8. v.depts \in Seq(Depts(Directory[k[1]])) /\ ToSet(v.depts) = a.rows
  <2>1. SetToSeq(a.rows) \in Seq(Depts(Directory[k[1]]))
    BY <1>6, <1>7
  <2> QED
    BY <1>3, <1>7, <2>1
<1>9. ~Worker(k) /\ tops = IF Kind(k) = "wecom" THEN Tops(Dir(k)) ELSE Wanted(k[1])
  BY DEF Worker, tops
<1>10. Walked(k, Begin(k, v))
  BY <1>2, <1>3, <1>4, <1>6, <1>8, <1>9, FetchingBegins
<1> QED
  BY <1>10 DEF v

LEMMA BeginWalked ==
  ASSUME NEW k \in Keys, NEW w, Walked(k, w), w.phase = "tree", Kind(k) # "wecom", w.queue = <<>>
  PROVE  Walked(k, Begin(k, w))
<1>1. DOMAIN w = WalkFields /\ Listing(k, w)
  BY DEF Walked
<1>2. /\ w.failed = {} /\ w.got \subseteq Alone(k[1]) /\ (~w.short => Alone(k[1]) \subseteq w.got)
      /\ w.depts \in Seq(Depts(Directory[k[1]])) /\ (Worker(k) => IsInjective(w.depts))
  BY <1>1 DEF Listing, Worker
<1>3. ToSet(w.depts) \subseteq Wanted(k[1]) /\ (~w.short => ToSet(w.depts) = Wanted(k[1]))
  BY <1>1, DoneIsWanted
<1> QED
  BY <1>1, <1>2, <1>3, FetchingBegins

(***************************************************************************)
(* The users.  A step moves the cursor of one department, of one that has  *)
(* none yet if a worker starts; what the other cursors say stays true.     *)
(***************************************************************************)
LEMMA UnstartedIsListed ==
  ASSUME NEW k \in Keys, NEW w, Fetching(k, w), Unstarted(k, w)
  PROVE  Cardinality(DOMAIN w.cursor) \in Nat /\ w.depts[Cardinality(DOMAIN w.cursor) + 1] \in ToSet(w.depts)
<1> DEFINE n == Cardinality(DOMAIN w.cursor)
<1>1. /\ w.depts \in Seq(Depts(Directory[k[1]])) /\ DOMAIN w.cursor \subseteq ToSet(w.depts)
      /\ IsFiniteSet(Depts(Directory[k[1]]))
  BY KeyFacts, PlatformAssumption DEF Fetching, Platform
<1>2. IsFiniteSet(DOMAIN w.cursor)
  BY <1>1, ToSetFacts, FS_Subset
<1>3. n \in Nat /\ n < Len(w.depts) /\ Len(w.depts) \in Nat
  BY <1>1, <1>2, FS_CardinalityType DEF Unstarted
<1>4. n + 1 \in 1..Len(w.depts)
  BY <1>3
<1> QED
  BY <1>1, <1>3, <1>4, ToSetFacts

LEMMA CursorMoves ==
  ASSUME NEW k \in Keys, NEW w, Walked(k, w), w.phase = "users", NEW v, NEW d,
         DOMAIN v = WalkFields, v.phase = "users", v.depts = w.depts, w.short => v.short,
         w.got \subseteq v.got, v.got \subseteq Visible(k[1]),
         w.failed \subseteq v.failed, v.failed \subseteq ToSet(w.depts) \X Codes,
         \/ d \in DOMAIN w.cursor
         \/ Unstarted(k, w) /\ d = w.depts[Cardinality(DOMAIN w.cursor) + 1],
         DOMAIN v.cursor = DOMAIN w.cursor \cup {d},
         \A e \in DOMAIN w.cursor : e # d => v.cursor[e] = w.cursor[e],
         v.cursor[d] \in 0..Len(PagesOf(k, d)), ~v.short => Fetched(k, v, d)
  PROVE  Walked(k, v)
<1> DEFINE n == Cardinality(DOMAIN w.cursor)
           depts == Depts(Directory[k[1]])
           Spans == IF Worker(k)
                    THEN /\ IsInjective(v.depts) /\ Cardinality(DOMAIN v.cursor) <= Len(v.depts)
                         /\ DOMAIN v.cursor = {v.depts[i] : i \in 1..Cardinality(DOMAIN v.cursor)}
                         /\ DOMAIN v.cursor \subseteq ToSet(v.depts)
                    ELSE DOMAIN v.cursor = ToSet(v.depts)
<1>1. Fetching(k, w)
  BY DEF Walked
<1>2. w.depts \in Seq(depts) /\ IsFiniteSet(depts)
  BY <1>1, KeyFacts, PlatformAssumption DEF Fetching, Platform
<1>3. DOMAIN w.cursor \subseteq ToSet(w.depts)
  BY <1>1 DEF Fetching
<1>4. IsFiniteSet(DOMAIN w.cursor) /\ n \in Nat /\ ToSet(w.depts) \subseteq depts
  <2>1. ToSet(w.depts) \subseteq depts
    BY <1>2, ToSetFacts
  <2>2. IsFiniteSet(DOMAIN w.cursor)
    BY <1>2, <1>3, <2>1, FS_Subset
  <2> QED
    BY <2>1, <2>2, FS_CardinalityType
<1>5. ASSUME d \in DOMAIN w.cursor PROVE Spans
  <2>1. DOMAIN v.cursor = DOMAIN w.cursor
    BY <1>5
  <2>2. IF Worker(k)
        THEN /\ IsInjective(v.depts) /\ Cardinality(DOMAIN v.cursor) <= Len(v.depts)
             /\ DOMAIN v.cursor = {v.depts[i] : i \in 1..Cardinality(DOMAIN v.cursor)} /\ DOMAIN v.cursor \subseteq ToSet(v.depts)
        ELSE DOMAIN v.cursor = ToSet(v.depts)
    <3> DEFINE Spanned(l, D) == IF Worker(k)
                                THEN /\ IsInjective(l) /\ Cardinality(D) <= Len(l)
                                     /\ D = {l[i] : i \in 1..Cardinality(D)} /\ D \subseteq ToSet(l)
                                ELSE D = ToSet(l)
    <3>1. Spanned(w.depts, DOMAIN w.cursor)
      BY <1>1 DEF Fetching
    <3>2. Spanned(v.depts, DOMAIN v.cursor)
      <4> HIDE DEF Spanned
      <4> QED
        BY <2>1, <3>1
    <3> QED
      BY <3>2, Zenon
  <2> QED
    BY <2>2
<1>6. ASSUME Unstarted(k, w), d = w.depts[n + 1], d \notin DOMAIN w.cursor PROVE Spans
  <2>1. Worker(k) /\ n < Len(w.depts) /\ Len(w.depts) \in Nat
    BY <1>2, <1>6, ToSetFacts DEF Unstarted
  <2>2. n + 1 \in 1..Len(w.depts)
    BY <1>4, <2>1
  <2>3. Cardinality(DOMAIN v.cursor) = n + 1
    <3> DEFINE D == DOMAIN w.cursor
    <3>1. IsFiniteSet(D) /\ d \notin D /\ DOMAIN v.cursor = D \cup {d} /\ n = Cardinality(D)
      BY <1>4, <1>6
    <3> HIDE DEF D, n
    <3>2. Cardinality(D \cup {d}) = Cardinality(D) + 1
      BY <3>1, FS_AddElement
    <3> QED
      BY <3>1, <3>2
  <2>4. DOMAIN w.cursor = {w.depts[i] : i \in 1..n} /\ IsInjective(w.depts)
    BY <1>1, <2>1 DEF Fetching
  <2>5. DOMAIN v.cursor = {w.depts[i] : i \in 1..n+1}
    <3>1. \A i \in 1..n+1 : i \in 1..n \/ i = n + 1
      BY <1>4
    <3>2. n + 1 \in 1..n+1 /\ \A i \in 1..n : i \in 1..n+1
      BY <1>4
    <3> HIDE DEF n
    <3> QED
      BY <1>6, <2>4, <3>1, <3>2
  <2>6. d \in ToSet(w.depts)
    BY <1>2, <1>6, <2>2, ToSetFacts
  <2>7. n + 1 <= Len(w.depts)
    BY <2>2, <1>4, <2>1
  <2> HIDE DEF n
  <2>8. /\ IsInjective(v.depts) /\ Cardinality(DOMAIN v.cursor) <= Len(v.depts)
        /\ DOMAIN v.cursor = {v.depts[i] : i \in 1..Cardinality(DOMAIN v.cursor)} /\ DOMAIN v.cursor \subseteq ToSet(v.depts)
    <3>1. Cardinality(DOMAIN v.cursor) <= Len(v.depts)
      BY <2>3, <2>7
    <3>2. DOMAIN v.cursor = {v.depts[i] : i \in 1..Cardinality(DOMAIN v.cursor)}
      BY <2>3, <2>5
    <3>3. DOMAIN v.cursor \subseteq ToSet(v.depts)
      BY <1>3, <2>6
    <3> QED
      BY <2>4, <3>1, <3>2, <3>3
  <2> QED
    BY <2>1, <2>8
<1>7. Spans
  BY <1>5, <1>6
<1>8. ASSUME NEW e \in DOMAIN v.cursor PROVE v.cursor[e] \in 0..Len(PagesOf(k, e)) /\ (~v.short => Fetched(k, v, e))
  <2>1. CASE e = d
    BY <2>1
  <2>2. CASE e # d
    <3>1. e \in DOMAIN w.cursor /\ v.cursor[e] = w.cursor[e]
      BY <1>8, <2>2
    <3>2. w.cursor[e] \in 0..Len(PagesOf(k, e)) /\ (~w.short => Fetched(k, w, e))
      BY <1>1, <3>1 DEF Fetching
    <3>3. ~v.short => Fetched(k, v, e)
      BY <3>1, <3>2 DEF Fetched
    <3> QED
      BY <3>1, <3>2, <3>3
  <2> QED
    BY <2>1, <2>2
<1>9. /\ v.depts \in Seq(Depts(Directory[k[1]])) /\ InDepts(k, ToSet(v.depts)) \subseteq Visible(k[1])
      /\ ~v.short => Visible(k[1]) \subseteq InDepts(k, ToSet(v.depts)) /\ Alone(k[1]) \subseteq v.got
  BY <1>1 DEF Fetching
<1>10. Fetching(k, v)
  BY <1>7, <1>8, <1>9 DEF Fetching
<1> QED
  BY <1>10 DEF Walked

LEMMA StopWalked ==
  ASSUME NEW k \in Keys, NEW w, Walked(k, w), w.phase = "users", NEW d, NEW code \in Codes,
         \/ d \in DOMAIN w.cursor
         \/ Unstarted(k, w) /\ d = w.depts[Cardinality(DOMAIN w.cursor) + 1]
  PROVE  Walked(k, Stop(w, d, code))
<1> DEFINE v == Stop(w, d, code)
           cursor == AtPage(w, d, 0)
<1>1. /\ DOMAIN v = WalkFields /\ v.phase = "users" /\ v.depts = w.depts /\ v.got = w.got
      /\ v.failed = w.failed \cup {<<d, code>>} /\ v.cursor = cursor /\ v.short = w.short
  BY DEF Walked, WalkFields, Stop
<1> HIDE DEF v
<1>2. /\ DOMAIN cursor = DOMAIN w.cursor \cup {d} /\ cursor[d] = 0
      /\ \A e \in DOMAIN w.cursor : e # d => cursor[e] = w.cursor[e]
  BY DEF AtPage
<1> HIDE DEF cursor
<1>3. Fetching(k, w)
  BY DEF Walked
<1>4. d \in ToSet(w.depts)
  <2>1. CASE d \in DOMAIN w.cursor
    BY <1>3, <2>1 DEF Fetching
  <2>2. CASE Unstarted(k, w) /\ d = w.depts[Cardinality(DOMAIN w.cursor) + 1]
    BY <1>3, <2>2, UnstartedIsListed
  <2> QED
    BY <2>1, <2>2
<1>5. d \in Depts(Dir(k))
  BY <1>3, <1>4, ToSetFacts DEF Fetching, Dir
<1>6. v.cursor[d] \in 0..Len(PagesOf(k, d)) /\ Fetched(k, v, d)
  <2>1. Len(PagesOf(k, d)) \in Nat
    BY <1>5, PagesFacts
  <2>2. v.cursor[d] = 0 /\ \E f \in v.failed : f[1] = d
    <3>1. <<d, code>> \in v.failed /\ <<d, code>>[1] = d
      BY <1>1
    <3>2. v.cursor[d] = 0
      BY <1>1, <1>2
    <3> QED
      BY <3>1, <3>2
  <2> QED
    BY <2>1, <2>2 DEF Fetched
<1>7. w.got \subseteq Visible(k[1]) /\ v.failed \subseteq ToSet(w.depts) \X Codes
  BY <1>1, <1>3, <1>4 DEF Fetching
<1>8. w.got \subseteq v.got /\ w.failed \subseteq v.failed
  BY <1>1
<1>9. Walked(k, v)
  BY <1>1, <1>2, <1>6, <1>7, <1>8, CursorMoves
<1> QED
  BY <1>9 DEF v

(***************************************************************************)
(* DingTalk takes its turns in the order of the departments.               *)
(***************************************************************************)
LEMMA TurnsAreLeft ==
  ASSUME NEW k \in Keys, NEW w, Fetching(k, w)
  PROVE  Turns(k, w) \subseteq Left(w) /\ Left(w) \subseteq DOMAIN w.cursor /\ DOMAIN w.cursor \subseteq ToSet(w.depts)
<1>1. Left(w) \subseteq DOMAIN w.cursor /\ DOMAIN w.cursor \subseteq ToSet(w.depts)
  BY DEF Left, Fetching
<1>2. CASE ~(Kind(k) = "dingtalk" /\ Left(w) # {})
  BY <1>1, <1>2 DEF Turns
<1>3. CASE Kind(k) = "dingtalk" /\ Left(w) # {}
  <2> DEFINE at == {i \in DOMAIN w.depts : w.depts[i] \in Left(w)}
  <2>1. w.depts \in Seq(Depts(Directory[k[1]])) /\ DOMAIN w.depts = 1..Len(w.depts) /\ Len(w.depts) \in Nat
    BY DEF Fetching
  <2>2. at # {} /\ at \subseteq Nat
    BY <1>1, <1>3, <2>1 DEF ToSet
  <2>3. PICK n \in at : \A m \in at : n <= m
    <3> HIDE DEF at
    <3> QED
      BY <2>2, LeastElement
  <2>4. \A j \in 1..n-1 : w.depts[j] \notin Left(w)
    <3> TAKE j \in 1..n-1
    <3>1. n \in 1..Len(w.depts) /\ j \in 1..Len(w.depts) /\ ~(n <= j)
      BY <2>1, <2>3
    <3> QED
      BY <2>1, <2>3, <3>1
  <2> DEFINE p == CHOOSE i \in DOMAIN w.depts : w.depts[i] \in Left(w) /\ \A j \in 1..i-1 : w.depts[j] \notin Left(w)
  <2>5. n \in DOMAIN w.depts /\ w.depts[n] \in Left(w)
    BY <2>3
  <2>6. w.depts[p] \in Left(w)
    BY <2>4, <2>5
  <2>7. Turns(k, w) = {w.depts[p]}
    BY <1>3 DEF Turns
  <2> QED
    BY <1>1, <2>6, <2>7
<1> QED
  BY <1>2, <1>3

(***************************************************************************)
(* A page is added to the list: the cursor says so, wherever it goes next. *)
(***************************************************************************)
LEMMA PageWalked ==
  ASSUME NEW k \in Keys, NEW w, Walked(k, w), w.phase = "users", NEW d \in Turns(k, w), NEW endless,
         NEW a \in Replies(k, PagesOf(k, d), w.cursor[d], endless, {})
  PROVE  Walked(k, [Spend(w) EXCEPT !.got = w.got \cup a.rows, !.cursor = AtPage(w, d, a.next), !.short = w.short \/ a.short])
<1> DEFINE c == w.cursor[d]
           page == a.rows
           next == a.next
           v == [Spend(w) EXCEPT !.got = w.got \cup page, !.cursor = AtPage(w, d, next), !.short = w.short \/ a.short]
           n == Len(PagesOf(k, d))
<1>1. /\ DOMAIN v = WalkFields /\ v.phase = "users" /\ v.depts = w.depts /\ v.got = w.got \cup page
      /\ v.failed = w.failed /\ v.cursor = AtPage(w, d, next) /\ v.short = (w.short \/ a.short)
  BY DEF Walked, WalkFields, Spend
<1>2. Fetching(k, w)
  BY DEF Walked
<1>3. d \in Left(w) /\ d \in DOMAIN w.cursor /\ d \in ToSet(w.depts)
  BY <1>2, TurnsAreLeft
<1>4. d \in Depts(Dir(k))
  BY <1>2, <1>3, ToSetFacts DEF Fetching, Dir
<1>5. n \in Nat \ {0} /\ DOMAIN PagesOf(k, d) = 1..n
  BY <1>4, PagesFacts
<1>6. c \in 1..n /\ (~w.short => \A i \in 1..c-1 : PagesOf(k, d)[i] \subseteq w.got)
  <2>1. c \in 0..n /\ c > 0 /\ (~w.short => Fetched(k, w, d))
    BY <1>2, <1>3 DEF Fetching, Left
  <2> QED
    BY <1>5, <2>1 DEF Fetched
<1>7. RowsOf(k, d) \subseteq Visible(k[1]) /\ w.got \subseteq Visible(k[1]) /\ w.failed \subseteq ToSet(w.depts) \X Codes
  BY <1>2, <1>3 DEF Fetching, InDepts
<1>8. /\ page \in {PagesOf(k, d)[c], {}} /\ next \in 0..n
      /\ ~a.short => /\ page = PagesOf(k, d)[c] /\ (next = 0 => c = n)
                     /\ next # 0 => \A i \in 1..next-1 : i \in 1..c
  <2> DEFINE pages == PagesOf(k, d)
             nothing == {}
  <2>1. a \in Replies(k, pages, c, endless, nothing) /\ Len(pages) \in Nat /\ c \in 1..Len(pages)
    BY <1>5, <1>6
  <2> HIDE DEF pages, nothing, c
  <2>2. /\ a.rows \in {pages[c], nothing} /\ a.next \in 0..Len(pages)
        /\ ~a.short => /\ a.rows = pages[c] /\ (a.next = 0 => c = Len(pages))
                       /\ a.next # 0 => \A i \in 1..a.next-1 : i \in 1..c
    BY <2>1, RepliesFacts
  <2> QED
    BY <2>2 DEF pages, nothing
<1>80. page \subseteq RowsOf(k, d)
  BY <1>5, <1>6, <1>8 DEF RowsOf, ToSet
<1>9. ~w.short /\ ~a.short => \A i \in 1..c : PagesOf(k, d)[i] \subseteq w.got \cup page
  <2> SUFFICES ASSUME ~w.short, ~a.short, NEW i \in 1..c PROVE PagesOf(k, d)[i] \subseteq w.got \cup page
    OBVIOUS
  <2>1. CASE i = c
    BY <1>8, <2>1
  <2>2. CASE i # c
    <3>1. i \in 1..c-1
      BY <1>5, <1>6, <2>2
    <3> QED
      BY <1>6, <3>1
  <2> QED
    BY <2>1, <2>2
<1> HIDE DEF page, next, v, c, n
<1>11. DOMAIN v.cursor = DOMAIN w.cursor \cup {d} /\ v.cursor[d] = next /\ \A e \in DOMAIN w.cursor : e # d => v.cursor[e] = w.cursor[e]
  BY <1>1 DEF AtPage
<1>13. ASSUME ~v.short PROVE Fetched(k, v, d)
  <2>0. ~w.short /\ ~a.short
    BY <1>1, <1>13
  <2>1. CASE next = 0
    <3>1. c = n
      BY <1>8, <2>0, <2>1
    <3>2. \A i \in DOMAIN PagesOf(k, d) : PagesOf(k, d)[i] \subseteq v.got
      BY <1>1, <1>5, <1>9, <2>0, <3>1
    <3>3. RowsOf(k, d) \subseteq v.got
      BY <3>2 DEF RowsOf, ToSet
    <3> QED
      BY <1>11, <2>1, <3>3 DEF Fetched
  <2>2. CASE next # 0
    <3>1. \A i \in 1..next-1 : PagesOf(k, d)[i] \subseteq v.got
      BY <1>1, <1>8, <1>9, <2>0, <2>2
    <3> QED
      BY <1>11, <2>2, <3>1 DEF Fetched
  <2> QED
    BY <2>1, <2>2
<1>14. w.got \subseteq v.got /\ v.got \subseteq Visible(k[1])
  BY <1>1, <1>7, <1>80
<1> QED
  <2>1. v.cursor[d] \in 0..Len(PagesOf(k, d))
    BY <1>8, <1>11 DEF n
  <2>2. w.failed \subseteq v.failed /\ v.failed \subseteq ToSet(w.depts) \X Codes
    BY <1>1, <1>7
  <2>3. Walked(k, v)
    BY <1>1, <1>3, <1>11, <1>13, <1>14, <2>1, <2>2, CursorMoves
  <2> QED
    BY <2>3 DEF v, c, page, next

-----------------------------------------------------------------------------
(***************************************************************************)
(* What a walk ends with.                                                  *)
(***************************************************************************)
LEMMA NoAnswerIsWhole ==
  ASSUME NEW c, NEW code \in Codes
  PROVE  Whole(c, Unavailable(code)) /\ Unavailable(code).code = code
BY DEF Whole, Unavailable, Codes, Cooled, Other

(***************************************************************************)
(* The error of a walk is that of the failed department that is listed     *)
(* first.                                                                  *)
(***************************************************************************)
LEMMA FirstErrorIsACode ==
  ASSUME NEW k \in Keys, NEW w, Fetching(k, w), w.failed # {}
  PROVE  FirstError(w) \in Codes
<1> DEFINE at(f) == CHOOSE i \in DOMAIN w.depts : w.depts[i] = f[1]
           A == {at(f) : f \in w.failed}
<1>1. w.depts \in Seq(Depts(Directory[k[1]])) /\ w.failed \subseteq ToSet(w.depts) \X Codes
  BY DEF Fetching
<1>2. DOMAIN w.depts \subseteq Nat
  BY <1>1
<1>3. \A f \in w.failed : at(f) \in Nat
  <2> TAKE f \in w.failed
  <2>1. f[1] \in ToSet(w.depts)
    BY <1>1
  <2>2. \E i \in DOMAIN w.depts : w.depts[i] = f[1]
    BY <2>1 DEF ToSet
  <2> QED
    BY <1>2, <2>2
<1> HIDE DEF at
<1>4. A # {} /\ A \subseteq Nat
  BY <1>3
<1>5. PICK n \in A : \A m \in A : n <= m
  <2> HIDE DEF A
  <2> QED
    BY <1>4, LeastElement
<1>6. \E f \in w.failed : \A g \in w.failed : at(f) <= at(g)
  BY <1>5
<1>7. (CHOOSE f \in w.failed : \A g \in w.failed : at(f) <= at(g)) \in w.failed
  BY <1>6
<1>8. \A f \in w.failed : f[2] \in Codes
  BY <1>1
<1>9. FirstError(w) = (CHOOSE f \in w.failed : \A g \in w.failed : at(f) <= at(g))[2]
  BY DEF FirstError, at
<1> QED
  BY <1>7, <1>8, <1>9

(***************************************************************************)
(* With every cursor at its end and no failure all that is visible was     *)
(* collected.                                                              *)
(***************************************************************************)
LEMMA FetchedIsVisible ==
  ASSUME NEW k \in Keys, NEW w, Fetching(k, w), ~Unstarted(k, w), Left(w) = {}, w.failed = {}, ~w.short
  PROVE  w.got = Visible(k[1])
<1>1. /\ w.depts \in Seq(Depts(Directory[k[1]])) /\ IsFiniteSet(Depts(Directory[k[1]]))
      /\ Visible(k[1]) \subseteq InDepts(k, ToSet(w.depts)) /\ Alone(k[1]) \subseteq w.got /\ w.got \subseteq Visible(k[1])
  BY KeyFacts, PlatformAssumption DEF Fetching, Platform
<1>2. DOMAIN w.cursor = ToSet(w.depts)
  <2>1. CASE Worker(k)
    <3> DEFINE n == Cardinality(DOMAIN w.cursor)
    <3>1. DOMAIN w.cursor \subseteq ToSet(w.depts) /\ n <= Len(w.depts) /\ DOMAIN w.cursor = {w.depts[i] : i \in 1..n}
      BY <2>1 DEF Fetching
    <3>2. IsFiniteSet(DOMAIN w.cursor)
      BY <1>1, <3>1, ToSetFacts, FS_Subset
    <3>3. n \in Nat /\ Len(w.depts) \in Nat
      BY <1>1, <3>2, FS_CardinalityType
    <3>4. ~(n < Len(w.depts))
      BY <2>1 DEF Unstarted
    <3> HIDE DEF n
    <3>5. n = Len(w.depts)
      BY <3>1, <3>3, <3>4
    <3> QED
      BY <1>1, <3>1, <3>5, ToSetFacts
  <2>2. CASE ~Worker(k)
    BY <2>2 DEF Fetching
  <2> QED
    BY <2>1, <2>2
<1>3. ASSUME NEW d \in ToSet(w.depts) PROVE RowsOf(k, d) \subseteq w.got
  <2>0. d \in Depts(Dir(k))
    BY <1>1, <1>3, ToSetFacts DEF Dir
  <2>1. w.cursor[d] \in 0..Len(PagesOf(k, d)) /\ Fetched(k, w, d)
    BY <1>2 DEF Fetching
  <2>2. Len(PagesOf(k, d)) \in Nat /\ ~(w.cursor[d] > 0)
    BY <1>2, <2>0, PagesFacts DEF Left
  <2>3. w.cursor[d] = 0
    BY <2>1, <2>2
  <2> QED
    BY <2>1, <2>3 DEF Fetched
<1> QED
  BY <1>1, <1>3 DEF InDepts

-----------------------------------------------------------------------------
(***************************************************************************)
(* The invariant as a whole: of one request and of one service.            *)
(***************************************************************************)
Standing(r) == req[r].pc = "answered" => Whole(req[r].key[1], req[r].answer)
Flight(k) == Whole(k[1], service[k].cached) /\ (service[k].flight => Walked(k, walk[k]))

LEMMA NoAnswerWhole == ASSUME NEW c PROVE Whole(c, NoAnswer)
BY DEF Whole, NoAnswer, Unavailable

LEMMA NewWalkWalked == ASSUME NEW k PROVE Walked(k, NewWalk)
BY DEF Walked, NewWalk, WalkFields

LEMMA WholeInit == MemberInit => WholeInv
<1> SUFFICES ASSUME MemberInit PROVE WholeInv
  OBVIOUS
<1> USE DEF MemberInit
<1>1. Recorded /\ DOMAIN walk = Keys
  BY DEF Recorded, NewService
<1>2. \A k \in Keys : service[k].cached = NoAnswer /\ service[k].flight = FALSE
  BY DEF NewService
<1>3. \A r \in Requests : req[r].pc = "new"
  OBVIOUS
<1>4. Asked = {}
  BY <1>3 DEF Asked
<1>5. Counted
  <2>1. Cardinality(Asked) = 0 /\ Cardinality(registered) = 0 /\ IsFiniteSet(registered)
    BY <1>4, FS_EmptySet
  <2> QED
    BY <2>1, BoundAssumption DEF Counted
<1> QED
  BY <1>1, <1>2, <1>3, <1>5, NoAnswerWhole DEF WholeInv

(***************************************************************************)
(* A flight that lands with a whole result, a walk that goes on.           *)
(***************************************************************************)
LEMMA LandWhole ==
  ASSUME WholeInv, NEW k \in Keys, NEW result, Whole(k[1], result), Land(k, result)
  PROVE  WholeInv'
<1>1. /\ req' = [r \in Requests |-> IF Flying(r, k) THEN [req[r] EXCEPT !.pc = "answered", !.answer = result] ELSE req[r]]
      /\ walk' = [walk EXCEPT ![k] = NewWalk] /\ UNCHANGED <<again, registered, gen>>
  BY DEF Land
<1>2. PICK cooling \in BOOLEAN :
        service' = [service EXCEPT ![k] = [cached |-> result, fresh |-> result.code = "ready",
                                           cooling |-> cooling, flight |-> FALSE]]
  BY DEF Land
<1>3. /\ DOMAIN req = Requests /\ DOMAIN service = Keys /\ DOMAIN walk = Keys
      /\ \A r \in Requests : DOMAIN req[r] = {"pc", "key", "answer"}
      /\ \A j \in Keys : DOMAIN service[j] = {"cached", "fresh", "cooling", "flight"}
  BY DEF WholeInv, Recorded
<1>4. /\ \A j \in Keys : j # k => service'[j] = service[j] /\ walk'[j] = walk[j]
      /\ service'[k].cached = result /\ service'[k].flight = FALSE
      /\ DOMAIN service' = Keys /\ DOMAIN walk' = Keys /\ DOMAIN service'[k] = {"cached", "fresh", "cooling", "flight"}
  BY <1>1, <1>2, <1>3
<1>5. \A j \in Keys : Flight(j)'
  <2> TAKE j \in Keys
  <2>1. CASE j = k
    BY <1>4, <2>1 DEF Flight
  <2>2. CASE j # k
    BY <1>4, <2>2 DEF Flight, WholeInv
  <2> QED
    BY <2>1, <2>2
<1>6. ASSUME NEW r \in Requests
      PROVE  /\ DOMAIN req'[r] = {"pc", "key", "answer"} /\ (req'[r].pc = "new" <=> req[r].pc = "new")
             /\ req'[r].pc \in {"get", "lead", "wait"} => req'[r].key \in Keys
             /\ Standing(r)'
  <2>1. CASE Flying(r, k)
    <3>1. req'[r] = [req[r] EXCEPT !.pc = "answered", !.answer = result]
      BY <1>1, <2>1
    <3>2. DOMAIN req'[r] = {"pc", "key", "answer"} /\ req'[r].pc = "answered" /\ req'[r].answer = result /\ req'[r].key = k
      BY <1>3, <2>1, <3>1 DEF Flying
    <3> QED
      BY <2>1, <3>2 DEF Flying, Standing
  <2>2. CASE ~Flying(r, k)
    <3>1. req'[r] = req[r]
      BY <1>1, <2>2
    <3> QED
      BY <1>3, <3>1 DEF WholeInv, Standing
  <2> QED
    BY <2>1, <2>2
<1>7. Asked' = Asked
  BY <1>6 DEF Asked
<1>8. Counted'
  BY <1>1, <1>7 DEF WholeInv, Counted
<1>9. Recorded'
  BY <1>1, <1>3, <1>4, <1>6 DEF Recorded
<1> QED
  BY <1>4, <1>5, <1>6, <1>8, <1>9 DEF WholeInv, Flight, Standing

LEMMA GoOnWhole ==
  ASSUME WholeInv, NEW k \in Keys, NEW w, Walked(k, w),
         walk' = [walk EXCEPT ![k] = w], UNCHANGED <<again, registered, gen, service, req>>
  PROVE  WholeInv'
<1>1. DOMAIN walk = Keys /\ DOMAIN walk' = Keys /\ walk'[k] = w /\ \A j \in Keys : j # k => walk'[j] = walk[j]
  BY DEF WholeInv
<1>2. Recorded' /\ Counted'
  BY DEF WholeInv, Recorded, Counted, Asked
<1>3. \A j \in Keys : Flight(j)'
  BY <1>1 DEF Flight, WholeInv
<1>4. \A r \in Requests : Standing(r)' /\ (req'[r].pc \in {"get", "lead", "wait"} => req'[r].key \in Keys)
  BY DEF Standing, WholeInv
<1> QED
  BY <1>1, <1>2, <1>3, <1>4 DEF WholeInv, Flight, Standing

(***************************************************************************)
(* A request finds its service: a registry is cleared once MaxServices + 1 *)
(* requests have filled it, so the services of Keys suffice.               *)
(***************************************************************************)
LEMMA RegisterWhole ==
  ASSUME WholeInv, NEW r \in Requests, Register(r)
  PROVE  WholeInv'
<1> DEFINE M == MaxServices + 1
<1>1. PICK c \in Creds :
        /\ registered' = (IF Overfull THEN {} ELSE registered) \cup {c}
        /\ gen' = IF Overfull THEN gen + 1 ELSE gen
        /\ req' = [req EXCEPT ![r].pc = "get", ![r].key = <<c, gen'>>]
  BY DEF Register
<1>2. req[r].pc = "new" /\ UNCHANGED <<again, service, walk, faults>>
  BY DEF Register
<1>3. /\ DOMAIN req = Requests /\ DOMAIN service = Keys /\ DOMAIN walk = Keys
      /\ \A q \in Requests : DOMAIN req[q] = {"pc", "key", "answer"}
  BY DEF WholeInv, Recorded
<1>4. /\ DOMAIN req' = Requests /\ \A q \in Requests : q # r => req'[q] = req[q]
      /\ req'[r].pc = "get" /\ req'[r].key = <<c, gen'>> /\ DOMAIN req'[r] = {"pc", "key", "answer"}
  BY <1>1, <1>3
<1>5. Asked' = Asked \cup {r} /\ r \notin Asked /\ Asked \subseteq Requests
  BY <1>2, <1>4 DEF Asked
<1>6. IsFiniteSet(Requests) /\ MaxServices \in Nat /\ MaxAgain \in Nat
  BY BoundAssumption
<1>7. IsFiniteSet(Asked) /\ Cardinality(Asked) \in Nat /\ Cardinality(Asked') = Cardinality(Asked) + 1
  BY <1>5, <1>6, FS_Subset, FS_AddElement, FS_CardinalityType
<1>8. Cardinality(Asked') <= Cardinality(Requests) /\ Cardinality(Requests) \in Nat
  <2>1. Asked' \subseteq Requests
    BY <1>5
  <2> QED
    BY <1>6, <2>1, FS_Subset, FS_CardinalityType
<1>9. /\ gen \in Nat /\ again \in Nat /\ again <= MaxAgain /\ IsFiniteSet(registered) /\ Cardinality(registered) \in Nat
      /\ gen * M + Cardinality(registered) <= Cardinality(Asked) + again
  BY FS_CardinalityType DEF WholeInv, Counted
<1>10. /\ gen' \in Nat /\ IsFiniteSet(registered') /\ Cardinality(registered') \in Nat \ {0}
       /\ gen' * M + Cardinality(registered') <= Cardinality(Asked') + again
  <2>1. CASE Overfull
    <3>1. registered' = {c} /\ gen' = gen + 1
      BY <1>1, <2>1
    <3>2. IsFiniteSet({c}) /\ Cardinality({c}) = 1
      BY FS_Singleton
    <3>3. Cardinality(registered) >= M
      BY <1>6, <1>9, <2>1 DEF Overfull
    <3>4. (gen + 1) * M = gen * M + M /\ gen * M \in Int
      BY <1>6, <1>9
    <3>5. (gen + 1) * M <= Cardinality(Asked) + again
      <4> HIDE DEF M
      <4>1. M \in Nat
        BY <1>6 DEF M
      <4> QED
        BY <1>7, <1>9, <3>3, <3>4, <4>1
    <3> HIDE DEF M
    <3>6. M \in Nat
      BY <1>6 DEF M
    <3> QED
      BY <1>7, <1>9, <3>1, <3>2, <3>4, <3>5, <3>6
  <2>2. CASE ~Overfull
    <3>1. registered' = registered \cup {c} /\ gen' = gen
      BY <1>1, <2>2
    <3>2. IsFiniteSet(registered') /\ Cardinality(registered') \in Nat /\ Cardinality(registered') <= Cardinality(registered) + 1
      <4>1. CASE c \in registered
        <5>1. registered' = registered
          BY <3>1, <4>1
        <5> HIDE DEF M
        <5> QED
          BY <1>9, <5>1
      <4>2. CASE c \notin registered
        <5>1. IsFiniteSet(registered') /\ Cardinality(registered') = Cardinality(registered) + 1
          BY <1>9, <3>1, <4>2, FS_AddElement
        <5> HIDE DEF M
        <5> QED
          BY <1>9, <5>1
      <4> QED
        BY <4>1, <4>2
    <3>3. Cardinality(registered') # 0
      BY <3>1, <3>2, FS_EmptySet
    <3>4. gen * M \in Int
      BY <1>6, <1>9
    <3> HIDE DEF M
    <3> QED
      BY <1>7, <1>9, <3>1, <3>2, <3>3, <3>4
  <2> QED
    BY <2>1, <2>2
<1>11. gen' \in Gens
  <2>1. M \in Nat \ {0} /\ gen' * M \in Int
    BY <1>6, <1>10
  <2>2. gen' * M <= Cardinality(Requests) + MaxAgain - 1 /\ Cardinality(Requests) + MaxAgain - 1 \in Int
    <3> HIDE DEF M
    <3> QED
      BY <1>6, <1>7, <1>8, <1>9, <1>10, <2>1
  <2>3. gen' * M >= 0
    BY <1>10, <2>1
  <2>4. Cardinality(Requests) + MaxAgain - 1 \in Nat
    <3> HIDE DEF M
    <3> QED
      BY <2>1, <2>2, <2>3
  <2>5. gen' <= (Cardinality(Requests) + MaxAgain - 1) \div M
    <3> HIDE DEF M
    <3> QED
      BY <1>10, <2>1, <2>2, <2>4, DivBound
  <2>6. (Cardinality(Requests) + MaxAgain - 1) \div M \in Int
    BY <2>1, <2>4
  <2> QED
    BY <1>10, <2>5, <2>6 DEF Gens
<1>12. req'[r].key \in Keys
  BY <1>4, <1>11 DEF Keys
<1>13. Counted'
  BY <1>2, <1>9, <1>10 DEF Counted
<1>14. Recorded'
  BY <1>2, <1>3, <1>4 DEF Recorded, WholeInv
<1>15. \A k \in Keys : Whole(k[1], service'[k].cached) /\ (service'[k].flight => Walked(k, walk'[k]))
  BY <1>2 DEF WholeInv
<1>16. \A q \in Requests : req'[q].pc \in {"get", "lead", "wait"} => req'[q].key \in Keys
  BY <1>4, <1>12 DEF WholeInv
<1>17. \A q \in Requests : req'[q].pc = "answered" => Whole(req'[q].key[1], req'[q].answer)
  BY <1>4 DEF WholeInv
<1> QED
  BY <1>2, <1>3, <1>13, <1>14, <1>15, <1>16, <1>17 DEF WholeInv

(***************************************************************************)
(* A request is answered from the cache, joins a flight or starts one.     *)
(***************************************************************************)
LEMMA GetWhole ==
  ASSUME WholeInv, NEW r \in Requests, Get(r)
  PROVE  WholeInv'
<1> DEFINE k == req[r].key
           s == service[k]
<1>1. k \in Keys /\ req[r].pc = "get" /\ UNCHANGED <<again, registered, gen, faults>>
  BY DEF Get, WholeInv
<1>2. /\ DOMAIN req = Requests /\ DOMAIN service = Keys /\ DOMAIN walk = Keys
      /\ \A q \in Requests : DOMAIN req[q] = {"pc", "key", "answer"}
      /\ \A j \in Keys : DOMAIN service[j] = {"cached", "fresh", "cooling", "flight"}
  BY DEF WholeInv, Recorded
<1>3. /\ \/ req' = [req EXCEPT ![r].pc = "answered", ![r].answer = s.cached]
         \/ req' = [req EXCEPT ![r].pc = "wait"]
         \/ req' = [req EXCEPT ![r].pc = "lead"]
      /\ \/ UNCHANGED <<service, walk>>
         \/ service' = [service EXCEPT ![k].flight = TRUE] /\ walk' = [walk EXCEPT ![k] = NewWalk]
  BY DEF Get
<1>4. /\ DOMAIN req' = Requests /\ (\A q \in Requests : q # r => req'[q] = req[q])
      /\ req'[r].pc \in {"answered", "wait", "lead"} /\ req'[r].key = k /\ DOMAIN req'[r] = {"pc", "key", "answer"}
      /\ req'[r].pc = "answered" => req'[r].answer = s.cached
  BY <1>1, <1>2, <1>3
<1>5. /\ DOMAIN service' = Keys /\ DOMAIN walk' = Keys
      /\ \A j \in Keys : /\ service'[j].cached = service[j].cached /\ DOMAIN service'[j] = {"cached", "fresh", "cooling", "flight"}
                         /\ \/ service'[j].flight = service[j].flight /\ walk'[j] = walk[j]
                            \/ walk'[j] = NewWalk
  <2>1. CASE UNCHANGED <<service, walk>>
    BY <1>2, <2>1
  <2>2. CASE service' = [service EXCEPT ![k].flight = TRUE] /\ walk' = [walk EXCEPT ![k] = NewWalk]
    <3>1. DOMAIN service' = Keys /\ DOMAIN walk' = Keys
      BY <1>2, <2>2
    <3>2. service'[k] = [service[k] EXCEPT !.flight = TRUE] /\ walk'[k] = NewWalk
      BY <1>1, <1>2, <2>2
    <3>3. \A j \in Keys : j # k => service'[j] = service[j] /\ walk'[j] = walk[j]
      BY <1>2, <2>2
    <3>4. service'[k].cached = service[k].cached /\ DOMAIN service'[k] = {"cached", "fresh", "cooling", "flight"}
      BY <1>1, <1>2, <3>2
    <3> HIDE DEF k
    <3> QED
      BY <1>2, <3>1, <3>2, <3>3, <3>4
  <2> QED
    BY <1>3, <2>1, <2>2
<1>6. Asked' = Asked
  BY <1>1, <1>4 DEF Asked
<1>7. Counted'
  BY <1>1, <1>6 DEF Counted, WholeInv
<1>8. Recorded'
  BY <1>2, <1>4, <1>5 DEF Recorded
<1>9. \A j \in Keys : Whole(j[1], service'[j].cached) /\ (service'[j].flight => Walked(j, walk'[j]))
  BY <1>5, NewWalkWalked DEF WholeInv
<1>10. \A q \in Requests : req'[q].pc \in {"get", "lead", "wait"} => req'[q].key \in Keys
  BY <1>1, <1>4 DEF WholeInv
<1>11. \A q \in Requests : req'[q].pc = "answered" => Whole(req'[q].key[1], req'[q].answer)
  <2> TAKE q \in Requests
  <2>1. CASE q = r
    <3>1. Whole(k[1], s.cached)
      BY <1>1 DEF WholeInv
    <3> QED
      BY <1>4, <2>1, <3>1
  <2>2. CASE q # r
    BY <1>4, <2>2 DEF WholeInv
  <2> QED
    BY <2>1, <2>2
<1> QED
  BY <1>5, <1>7, <1>8, <1>9, <1>10, <1>11 DEF WholeInv

(***************************************************************************)
(* The page asks anew, a request gives up, a cache expires.                *)
(***************************************************************************)
LEMMA AgainWhole ==
  ASSUME WholeInv, NEW r \in Requests, Again(r)
  PROVE  WholeInv'
<1>1. /\ req[r].pc = "answered" /\ again < MaxAgain /\ again' = again + 1
      /\ req' = [req EXCEPT ![r] = [pc |-> "new", key |-> <<>>, answer |-> NoAnswer]]
      /\ UNCHANGED <<registered, gen, service, walk>>
  BY DEF Again
<1>2. DOMAIN req = Requests /\ \A q \in Requests : DOMAIN req[q] = {"pc", "key", "answer"}
  BY DEF WholeInv, Recorded
<1>3. /\ DOMAIN req' = Requests /\ (\A q \in Requests : q # r => req'[q] = req[q])
      /\ req'[r].pc = "new" /\ DOMAIN req'[r] = {"pc", "key", "answer"}
  BY <1>1, <1>2
<1>4. Asked' = Asked \ {r} /\ r \in Asked /\ Asked \subseteq Requests
  BY <1>1, <1>3 DEF Asked
<1>5. IsFiniteSet(Asked) /\ Cardinality(Asked) \in Nat /\ Cardinality(Asked') = Cardinality(Asked) - 1
  BY <1>4, BoundAssumption, FS_Subset, FS_RemoveElement, FS_CardinalityType
<1>6. Counted'
  <2>1. /\ gen \in Nat /\ again \in Nat /\ again <= MaxAgain /\ IsFiniteSet(registered) /\ Cardinality(registered) \in Nat
        /\ gen * (MaxServices + 1) + Cardinality(registered) <= Cardinality(Asked) + again
    BY FS_CardinalityType DEF WholeInv, Counted
  <2>2. gen * (MaxServices + 1) \in Int
    BY <2>1, BoundAssumption
  <2>3. Cardinality(Asked) + again = Cardinality(Asked') + again'
    BY <1>1, <1>5, <2>1
  <2>4. again' \in Nat /\ again' <= MaxAgain
    BY <1>1, <2>1, BoundAssumption
  <2> QED
    BY <1>1, <2>1, <2>3, <2>4 DEF Counted
<1>7. Recorded'
  BY <1>1, <1>2, <1>3 DEF Recorded, WholeInv
<1>8. \A k \in Keys : Whole(k[1], service'[k].cached) /\ (service'[k].flight => Walked(k, walk'[k]))
  BY <1>1 DEF WholeInv
<1>9. \A q \in Requests : req'[q].pc \in {"get", "lead", "wait"} => req'[q].key \in Keys
  BY <1>3 DEF WholeInv
<1>10. \A q \in Requests : req'[q].pc = "answered" => Whole(req'[q].key[1], req'[q].answer)
  BY <1>3 DEF WholeInv
<1> QED
  BY <1>1, <1>6, <1>7, <1>8, <1>9, <1>10 DEF WholeInv

LEMMA GiveUpWhole ==
  ASSUME WholeInv, NEW r \in Requests, GiveUp(r)
  PROVE  WholeInv'
<1>1. /\ req[r].pc = "wait" /\ req' = [req EXCEPT ![r].pc = "answered", ![r].answer = Unavailable(Other)]
      /\ UNCHANGED <<again, registered, gen, service, walk>>
  BY DEF GiveUp
<1>2. DOMAIN req = Requests /\ \A q \in Requests : DOMAIN req[q] = {"pc", "key", "answer"}
  BY DEF WholeInv, Recorded
<1>3. /\ DOMAIN req' = Requests /\ (\A q \in Requests : q # r => req'[q] = req[q])
      /\ req'[r].pc = "answered" /\ req'[r].answer = Unavailable(Other) /\ DOMAIN req'[r] = {"pc", "key", "answer"}
  BY <1>1, <1>2
<1>4. Asked' = Asked
  BY <1>1, <1>3 DEF Asked
<1>5. Counted' /\ Recorded'
  BY <1>1, <1>2, <1>3, <1>4 DEF Counted, Recorded, WholeInv
<1>6. \A k \in Keys : Whole(k[1], service'[k].cached) /\ (service'[k].flight => Walked(k, walk'[k]))
  BY <1>1 DEF WholeInv
<1>7. Other \in Codes
  BY DEF Codes
<1>8. \A q \in Requests : /\ req'[q].pc \in {"get", "lead", "wait"} => req'[q].key \in Keys
                          /\ req'[q].pc = "answered" => Whole(req'[q].key[1], req'[q].answer)
  BY <1>3, <1>7, NoAnswerIsWhole DEF WholeInv
<1> QED
  BY <1>1, <1>5, <1>6, <1>8 DEF WholeInv

LEMMA ExpireWhole ==
  ASSUME WholeInv, NEW k \in Keys, Expire(k)
  PROVE  WholeInv'
<1>1. /\ service' = [service EXCEPT ![k].fresh = FALSE, ![k].cooling = FALSE]
      /\ UNCHANGED <<again, registered, gen, walk, req>>
  BY DEF Expire
<1>2. /\ DOMAIN service = Keys /\ \A j \in Keys : DOMAIN service[j] = {"cached", "fresh", "cooling", "flight"}
  BY DEF WholeInv, Recorded
<1>3. /\ DOMAIN service' = Keys
      /\ \A j \in Keys : /\ service'[j].cached = service[j].cached /\ service'[j].flight = service[j].flight
                         /\ DOMAIN service'[j] = {"cached", "fresh", "cooling", "flight"}
  BY <1>1, <1>2
<1>4. Counted' /\ Recorded'
  BY <1>1, <1>3 DEF Counted, Asked, Recorded, WholeInv
<1> QED
  BY <1>1, <1>3, <1>4 DEF WholeInv

(***************************************************************************)
(* The steps of a walk, in the state.                                      *)
(***************************************************************************)
LEMMA FailsWhole ==
  ASSUME WholeInv, NEW k \in Keys, NEW code \in Codes, Land(k, Unavailable(code))
  PROVE  WholeInv'
BY NoAnswerIsWhole, LandWhole

LEMMA BrokeWhole ==
  ASSUME WholeInv, NEW k \in Keys, NEW w, Broke(k, w)
  PROVE  WholeInv'
BY FailsWhole DEF Broke, Codes

LEMMA TreeWhole ==
  ASSUME WholeInv, NEW k \in Keys, Tree(k)
  PROVE  WholeInv'
<1> DEFINE w == walk[k]
           d == Head(w.queue)
<1>1. Walked(k, w) /\ w.phase = "tree"
  BY DEF Tree, At, WholeInv
<1>2. CASE Kind(k) = "wecom" /\ WecomTree(k, w)
  <2>1. PICK a \in Replies(k, <<Tops(Dir(k))>>, 1, FALSE, {Dir(k).root}) :
          GoOn(k, Begin(k, [w EXCEPT !.depts = SetToSeq(a.rows), !.short = a.short]))
    BY <1>2 DEF WecomTree
  <2> DEFINE v == Begin(k, [w EXCEPT !.depts = SetToSeq(a.rows), !.short = a.short])
  <2>2. Walked(k, v) /\ GoOn(k, v)
    BY <1>1, <1>2, <2>1, WecomWalked
  <2> HIDE DEF v
  <2> QED
    BY <2>2, GoOnWhole DEF GoOn
<1>3. CASE Kind(k) = "dingtalk" /\ w.queue # <<>> /\ DingtalkTree(k, w, d, Tail(w.queue))
  <2>1. CASE d \in w.visited /\ GoOn(k, [w EXCEPT !.queue = Tail(w.queue)])
    <3> DEFINE v == [w EXCEPT !.queue = Tail(w.queue)]
    <3>1. Walked(k, v) /\ GoOn(k, v)
      BY <1>1, <1>3, <2>1, SkipWalked
    <3> HIDE DEF v
    <3> QED
      BY <3>1, GoOnWhole DEF GoOn
  <2>2. CASE Broke(k, w)
    BY <2>2, BrokeWhole
  <2>3. CASE \E a \in Replies(k, <<Dir(k).children[d]>>, 1, FALSE, <<>>) :
               GoOn(k, [Spend(w) EXCEPT !.depts = Append(w.depts, d), !.visited = w.visited \cup {d},
                                        !.queue = Tail(w.queue) \o Unvisited(a.rows, w.visited \cup {d}),
                                        !.short = w.short \/ a.short])
    <3>1. PICK a \in Replies(k, <<Dir(k).children[d]>>, 1, FALSE, <<>>) :
               GoOn(k, [Spend(w) EXCEPT !.depts = Append(w.depts, d), !.visited = w.visited \cup {d},
                                        !.queue = Tail(w.queue) \o Unvisited(a.rows, w.visited \cup {d}),
                                        !.short = w.short \/ a.short])
      BY <2>3
    <3> DEFINE v == [Spend(w) EXCEPT !.depts = Append(w.depts, d), !.visited = w.visited \cup {d},
                                     !.queue = Tail(w.queue) \o Unvisited(a.rows, w.visited \cup {d}),
                                     !.short = w.short \/ a.short]
    <3>2. Walked(k, v) /\ GoOn(k, v)
      BY <1>1, <1>3, <3>1, DingtalkWalked
    <3> HIDE DEF v
    <3> QED
      BY <3>2, GoOnWhole DEF GoOn
  <2> QED
    BY <1>3, <2>1, <2>2, <2>3 DEF DingtalkTree
<1>4. CASE Kind(k) = "feishu" /\ w.queue # <<>> /\ FeishuTree(k, w, d, Tail(w.queue))
  <2> DEFINE endless == <<"below", d>> \in Dir(k).endless
             read(a) == [Spend(w) EXCEPT !.depts = Added(w.depts, a.rows), !.short = w.short \/ a.short]
             next(a) == IF a.next # 0 THEN [read(a) EXCEPT !.page = a.next]
                        ELSE [read(a) EXCEPT !.page = 1, !.queue = Tail(w.queue), !.visited = w.visited \cup {d}]
  <2>1. Broke(k, w) \/ \E a \in Replies(k, Dir(k).below[d], w.page, endless, {}) : GoOn(k, next(a))
    BY <1>4 DEF FeishuTree
  <2>2. ASSUME NEW a \in Replies(k, Dir(k).below[d], w.page, endless, {}), GoOn(k, next(a)) PROVE WholeInv'
    <3> DEFINE r == read(a)
               v == next(a)
    <3>1. Walked(k, v)
      BY <1>1, <1>4, FeishuWalked
    <3>2. GoOn(k, v)
      BY <2>2
    <3> HIDE DEF v
    <3> QED
      BY <3>1, <3>2, GoOnWhole DEF GoOn
  <2> QED
    BY <2>1, <2>2, BrokeWhole
<1>5. CASE Kind(k) # "wecom" /\ w.queue = <<>> /\ GoOn(k, Begin(k, w))
  <2> DEFINE v == Begin(k, w)
  <2>1. Walked(k, v) /\ GoOn(k, v)
    BY <1>1, <1>5, BeginWalked
  <2> HIDE DEF v
  <2> QED
    BY <2>1, GoOnWhole DEF GoOn
<1> QED
  BY <1>2, <1>3, <1>4, <1>5 DEF Tree

LEMMA StartWalked ==
  ASSUME NEW k \in Keys, NEW w, Walked(k, w), w.phase = "users", Unstarted(k, w), NEW d,
         d = w.depts[Cardinality(DOMAIN w.cursor) + 1]
  PROVE  Walked(k, [Spend(w) EXCEPT !.cursor = AtPage(w, d, 1)])
<1> DEFINE v == [Spend(w) EXCEPT !.cursor = AtPage(w, d, 1)]
<1>1. /\ DOMAIN v = WalkFields /\ v.phase = "users" /\ v.depts = w.depts /\ v.got = w.got
      /\ v.failed = w.failed /\ v.cursor = AtPage(w, d, 1) /\ v.short = w.short
  BY DEF Walked, WalkFields, Spend
<1> HIDE DEF v
<1>2. DOMAIN v.cursor = DOMAIN w.cursor \cup {d} /\ v.cursor[d] = 1 /\ \A e \in DOMAIN w.cursor : e # d => v.cursor[e] = w.cursor[e]
  BY <1>1 DEF AtPage
<1>3. Fetching(k, w)
  BY DEF Walked
<1>4. d \in Depts(Dir(k))
  BY <1>3, UnstartedIsListed, ToSetFacts DEF Fetching, Dir
<1>5. v.cursor[d] \in 0..Len(PagesOf(k, d)) /\ Fetched(k, v, d)
  <2>1. Len(PagesOf(k, d)) \in Nat \ {0}
    BY <1>4, PagesFacts
  <2> QED
    BY <1>2, <2>1 DEF Fetched
<1>6. v.got \subseteq Visible(k[1]) /\ v.failed \subseteq ToSet(w.depts) \X Codes
  BY <1>1, <1>3 DEF Fetching
<1> QED
  <2>1. w.got \subseteq v.got /\ w.failed \subseteq v.failed
    BY <1>1
  <2>2. v.cursor[d] \in 0..Len(PagesOf(k, d))
    BY <1>5
  <2>3. /\ v.got \subseteq Visible(k[1]) /\ v.failed \subseteq ToSet(w.depts) \X Codes
        /\ w.got \subseteq v.got /\ w.failed \subseteq v.failed
        /\ Fetched(k, v, d) /\ v.cursor[d] \in 0..Len(PagesOf(k, d))
    BY <1>5, <1>6, <2>1, <2>2
  <2>4. Walked(k, v)
    BY <1>1, <1>2, <2>3, CursorMoves
  <2> QED
    BY <2>4 DEF v

LEMMA UsersWhole ==
  ASSUME WholeInv, NEW k \in Keys, StartWorker(k) \/ Page(k) \/ PageFails(k) \/ UsersDone(k)
  PROVE  WholeInv'
<1> DEFINE w == walk[k]
<1>1. Walked(k, w) /\ w.phase = "users" /\ Fetching(k, w)
  BY DEF StartWorker, Page, PageFails, UsersDone, At, WholeInv, Walked
<1>2. \A d \in Turns(k, w) : d \in DOMAIN w.cursor
  BY <1>1, TurnsAreLeft
<1>3. Other \in Codes
  BY DEF Codes
<1>4. CASE StartWorker(k)
  <2> DEFINE d == w.depts[Cardinality(DOMAIN w.cursor) + 1]
             u == [Spend(w) EXCEPT !.cursor = AtPage(w, d, 1)]
  <2>1. Unstarted(k, w) /\ (GoOn(k, u) \/ GoOn(k, Stop(w, d, Other)))
    BY <1>4 DEF StartWorker
  <2>2. Walked(k, u)
    BY <1>1, <2>1, StartWalked
  <2>3. Walked(k, Stop(w, d, Other))
    BY <1>1, <1>3, <2>1, StopWalked
  <2> HIDE DEF u
  <2> QED
    BY <2>1, <2>2, <2>3, GoOnWhole DEF GoOn
<1>5. CASE Page(k)
  <2>1. PICK d \in Turns(k, w) :
          \/ Broke(k, w)
          \/ GoOn(k, Stop(w, d, Other))
          \/ \E a \in Replies(k, PagesOf(k, d), w.cursor[d], Endless(k, d), {}) :
               GoOn(k, [Spend(w) EXCEPT !.got = w.got \cup a.rows, !.cursor = AtPage(w, d, a.next), !.short = w.short \/ a.short])
    BY <1>5 DEF Page
  <2>2. CASE Broke(k, w)
    BY <2>2, BrokeWhole
  <2>3. CASE GoOn(k, Stop(w, d, Other))
    <3>1. Walked(k, Stop(w, d, Other))
      BY <1>1, <1>2, <1>3, StopWalked
    <3> QED
      BY <2>3, <3>1, GoOnWhole DEF GoOn
  <2>4. ASSUME NEW a \in Replies(k, PagesOf(k, d), w.cursor[d], Endless(k, d), {}),
               GoOn(k, [Spend(w) EXCEPT !.got = w.got \cup a.rows, !.cursor = AtPage(w, d, a.next), !.short = w.short \/ a.short])
        PROVE  WholeInv'
    <3> DEFINE v == [Spend(w) EXCEPT !.got = w.got \cup a.rows, !.cursor = AtPage(w, d, a.next), !.short = w.short \/ a.short]
    <3>2. Walked(k, v)
      BY <1>1, PageWalked
    <3>3. GoOn(k, v)
      BY <2>4
    <3> HIDE DEF v
    <3> QED
      BY <3>2, <3>3, GoOnWhole DEF GoOn
  <2> QED
    BY <2>1, <2>2, <2>3, <2>4
<1>6. CASE PageFails(k)
  <2>1. PICK d \in Turns(k, w), code \in Codes : Land(k, Unavailable(code)) \/ GoOn(k, Stop(w, d, code))
    BY <1>6 DEF PageFails
  <2>2. CASE Land(k, Unavailable(code))
    BY <2>2, FailsWhole
  <2>3. CASE GoOn(k, Stop(w, d, code))
    <3>1. Walked(k, Stop(w, d, code))
      BY <1>1, <1>2, StopWalked
    <3> QED
      BY <2>3, <3>1, GoOnWhole DEF GoOn
  <2> QED
    BY <2>1, <2>2, <2>3
<1>7. CASE UsersDone(k)
  <2>1. ~Unstarted(k, w) /\ Left(w) = {}
    BY <1>7 DEF UsersDone
  <2>2. CASE w.failed # {} /\ Land(k, Unavailable(FirstError(w)))
    BY <1>1, <2>2, FirstErrorIsACode, FailsWhole
  <2>3. CASE w.failed = {} /\ Finish(k, w)
    <3>1. PICK rows \in Kept(w.got) :
            \/ Land(k, Ready(rows, w.short))
            \/ \E users : GoOn(k, [w EXCEPT !.phase = "names", !.got = rows, !.todo = users])
      BY <2>3 DEF Finish
    <3>2. k[1] \in Creds /\ w.got \subseteq Visible(k[1]) /\ (~w.short => w.got = Visible(k[1]))
      BY <1>1, <2>1, <2>3, KeyFacts, FetchedIsVisible DEF Fetching
    <3>3. Sound(k[1], rows) /\ (~w.short => Complete(k[1], rows))
      BY <3>2, KeptIsWhole
    <3>4. CASE Land(k, Ready(rows, w.short))
      BY <3>3, <3>4, ReadyIsWhole, LandWhole
    <3>5. ASSUME NEW users, GoOn(k, [w EXCEPT !.phase = "names", !.got = rows, !.todo = users]) PROVE WholeInv'
      <4> DEFINE v == [w EXCEPT !.phase = "names", !.got = rows, !.todo = users]
      <4>1. DOMAIN v = WalkFields /\ v.phase = "names" /\ v.got = rows /\ v.short = w.short
        BY <1>1 DEF Walked, WalkFields
      <4>2. GoOn(k, v)
        BY <3>5
      <4> HIDE DEF v
      <4>3. Walked(k, v)
        BY <3>3, <4>1 DEF Walked
      <4> QED
        BY <4>2, <4>3, GoOnWhole DEF GoOn
    <3> QED
      BY <3>1, <3>4, <3>5
  <2> QED
    BY <1>7, <2>2, <2>3 DEF UsersDone
<1> QED
  BY <1>4, <1>5, <1>6, <1>7

LEMMA WalkWhole ==
  ASSUME WholeInv, NEW k \in Keys, WalkStep(k)
  PROVE  WholeInv'
<1> DEFINE w == walk[k]
<1>1. \A phase : At(k, phase) => Walked(k, w) /\ w.phase = phase
  BY DEF At, WholeInv
<1>2. CASE Token(k)
  <2> DEFINE v == [w EXCEPT !.phase = IF Worker(k) THEN "scope" ELSE "tree",
                            !.queue = IF Kind(k) = "dingtalk" THEN <<Dir(k).root>> ELSE <<>>]
  <2>1. GoOn(k, v) /\ Walked(k, w) /\ w.phase = "token"
    BY <1>1, <1>2 DEF Token
  <2>2. Walked(k, v)
    BY <2>1, TokenWalked
  <2> HIDE DEF v
  <2> QED
    BY <2>1, <2>2, GoOnWhole DEF GoOn
<1>3. CASE Scope(k)
  <2> DEFINE endless == <<"scope", Dir(k).root>> \in Dir(k).endless
             replies == Replies(k, Dir(k).scope, w.page, endless, [depts |-> {}, users |-> {}])
             read(a) == [Spend(w) EXCEPT !.depts = Added(w.depts, a.rows.depts), !.short = a.short,
                                         !.got = w.got \cup {<<u, Blank>> : u \in a.rows.users}]
             next(a) == IF a.next # 0 THEN [read(a) EXCEPT !.page = a.next]
                        ELSE [read(a) EXCEPT !.phase = "tree", !.page = 1, !.queue = read(a).depts]
  <2>1. Walked(k, w) /\ w.phase = "scope" /\ (Broke(k, w) \/ \E a \in replies : GoOn(k, next(a)))
    BY <1>1, <1>3 DEF Scope
  <2>2. ASSUME NEW a \in replies, GoOn(k, next(a)) PROVE WholeInv'
    <3> DEFINE v == next(a)
    <3>1. Walked(k, v)
      BY <2>1, ScopeWalked
    <3>2. GoOn(k, v)
      BY <2>2
    <3> HIDE DEF v
    <3> QED
      BY <3>1, <3>2, GoOnWhole DEF GoOn
  <2> QED
    BY <2>1, <2>2, BrokeWhole
<1>4. CASE Names(k)
  <2> DEFINE more(batch) == w.got \cup {<<u, Dir(k).names[u]>> : u \in batch \cap Missing(w.got)}
             next(batch) == [Spend(w) EXCEPT !.got = more(batch), !.todo = w.todo \ batch]
  <2>1. /\ DOMAIN w = WalkFields /\ w.phase = "names"
        /\ Sound(k[1], w.got) /\ (~w.short => Complete(k[1], w.got))
    BY <1>1, <1>4 DEF Names, Walked
  <2>2. Land(k, Ready(w.got, w.short)) \/ \E batch : GoOn(k, next(batch))
    BY <1>4 DEF Names
  <2>3. CASE Land(k, Ready(w.got, w.short))
    BY <2>1, <2>3, ReadyIsWhole, LandWhole
  <2>4. ASSUME NEW batch, GoOn(k, next(batch)) PROVE WholeInv'
    <3> DEFINE v == next(batch)
    <3>1. DOMAIN v = WalkFields /\ v.phase = "names" /\ v.got = more(batch) /\ v.short = w.short
      BY <2>1 DEF WalkFields, Spend
    <3>2. Sound(k[1], more(batch)) /\ (~w.short => Complete(k[1], more(batch)))
      <4> DEFINE all == more(batch)
                 names == Dir(k).names
                 got == w.got
      <4>1. all = WithNames(got, names, batch) /\ Sound(k[1], got)
        BY <2>1 DEF WithNames
      <4>2. ~w.short => Complete(k[1], got)
        BY <2>1
      <4> HIDE DEF all, names, got
      <4>3. Sound(k[1], all) /\ (Complete(k[1], got) => Complete(k[1], all))
        BY <4>1, NamedIsWhole
      <4> QED
        BY <4>2, <4>3 DEF all
    <3>3. GoOn(k, v)
      BY <2>4
    <3> HIDE DEF v, more
    <3>4. Walked(k, v)
      BY <3>1, <3>2 DEF Walked
    <3> QED
      BY <3>3, <3>4, GoOnWhole DEF GoOn
  <2> QED
    BY <2>2, <2>3, <2>4
<1>5. CASE \E phase : Fails(k, phase)
  BY <1>5, FailsWhole DEF Fails
<1> QED
  BY <1>2, <1>3, <1>4, <1>5, TreeWhole, UsersWhole DEF WalkStep

(***************************************************************************)
(* Every step keeps the invariant.                                         *)
(***************************************************************************)
LEMMA WholeStep == WholeInv /\ [MemberNext]_memberVars => WholeInv'
<1> SUFFICES ASSUME WholeInv, [MemberNext]_memberVars PROVE WholeInv'
  OBVIOUS
<1>1. ASSUME NEW r \in Requests, HandlerStep(r) PROVE WholeInv'
  <2>1. CASE Register(r)
    BY <2>1, RegisterWhole
  <2>2. CASE Get(r)
    BY <2>2, GetWhole
  <2>3. CASE req[r].pc = "lead" /\ WalkStep(req[r].key)
    <3>1. req[r].key \in Keys
      BY <2>3 DEF WholeInv
    <3> QED
      BY <2>3, <3>1, WalkWhole
  <2> QED
    BY <1>1, <2>1, <2>2, <2>3 DEF HandlerStep
<1>2. ASSUME NEW r \in Requests, Again(r) \/ GiveUp(r) PROVE WholeInv'
  BY <1>2, AgainWhole, GiveUpWhole
<1>3. ASSUME NEW k \in Keys, Expire(k) PROVE WholeInv'
  BY <1>3, ExpireWhole
<1>4. CASE UNCHANGED memberVars
  BY <1>4 DEF memberVars, WholeInv, Recorded, Counted, Asked
<1> QED
  BY <1>1, <1>2, <1>3, <1>4 DEF MemberNext

(***************************************************************************)
(* Whatever the directories hold, however departments are nested, listed   *)
(* twice or formed into circles, in whatever order pages and workers take  *)
(* turns, and whatever fails: a list that is called ready has every        *)
(* visible user or MaxMembers of them (collectMembers.add), nobody twice,  *)
(* and everyone under the name a row shows; a list of which a listing was  *)
(* cut short has visible users only, nobody twice and no more than         *)
(* MaxMembers; any other answer has no users (fetchNotificationMembers and *)
(* its walks).                                                             *)
(***************************************************************************)
THEOREM ListsAreWhole == MemberSpec => []WholeDirectory
<1>1. WholeInv => WholeDirectory
  BY DEF WholeInv, WholeDirectory, Whole
<1> QED
  BY WholeInit, WholeStep, <1>1, PTL DEF MemberSpec

-----------------------------------------------------------------------------
(***************************************************************************)
(* The registry that requests now use: a request at work whose service is  *)
(* of this registry finds its credentials there, whatever was cleared      *)
(* before; none is ahead of it.                                            *)
(***************************************************************************)
Busy == {"get", "lead", "wait"}

InRegistry(r) ==
  req[r].pc \in Busy => req[r].key[2] \in 0..gen /\ (req[r].key[2] = gen => req[r].key[1] \in registered)

RegistryInv ==
  /\ gen \in Nat /\ IsFiniteSet(registered) /\ Cardinality(registered) <= MaxServices + 1
  /\ \A r \in Requests : InRegistry(r)

(***************************************************************************)
(* Of the registry in force at most MaxServices + 1 services have a flight *)
(* under way that a request could join.                                    *)
(***************************************************************************)
FlightsAreFew == Cardinality({k \in Keys : k[2] = gen /\ service[k].flight}) <= MaxServices + 1

LEMMA RegistryInit == MemberInit => RegistryInv
<1> SUFFICES ASSUME MemberInit PROVE RegistryInv
  OBVIOUS
<1>1. gen = 0 /\ registered = {} /\ \A r \in Requests : req[r].pc = "new"
  BY DEF MemberInit
<1>2. IsFiniteSet(registered) /\ Cardinality(registered) = 0
  BY <1>1, FS_EmptySet
<1> QED
  BY <1>1, <1>2, BoundAssumption DEF RegistryInv, InRegistry, Busy

\* What the steps have in common that leave the registry alone.
LEMMA RegistryStays ==
  ASSUME RegistryInv, UNCHANGED <<registered, gen>>,
         \A r \in Requests : req'[r].pc \in Busy => req[r].pc \in Busy /\ req'[r].key = req[r].key
  PROVE  RegistryInv'
BY DEF RegistryInv, InRegistry

LEMMA WalkStays ==
  ASSUME NEW k, WalkStep(k)
  PROVE  UNCHANGED <<registered, gen>>
<1>0. \A result : Land(k, result) => UNCHANGED <<registered, gen>>
  BY DEF Land
<1>1. \A w : Broke(k, w) => UNCHANGED <<registered, gen>>
  BY <1>0 DEF Broke
<1>2. \A w : GoOn(k, w) => UNCHANGED <<registered, gen>>
  BY DEF GoOn
<1>3. CASE Token(k)
  BY <1>2, <1>3 DEF Token
<1>4. CASE Scope(k)
  BY <1>1, <1>2, <1>4 DEF Scope
<1>5. CASE Tree(k)
  BY <1>1, <1>2, <1>5 DEF Tree, WecomTree, DingtalkTree, FeishuTree
<1>6. CASE StartWorker(k)
  BY <1>2, <1>6 DEF StartWorker
<1>7. CASE Page(k)
  BY <1>1, <1>2, <1>7 DEF Page
<1>8. CASE UsersDone(k)
  BY <1>0, <1>2, <1>8 DEF UsersDone, Finish
<1>9. CASE Names(k)
  BY <1>0, <1>2, <1>9 DEF Names
<1>10. ASSUME NEW phase, Fails(k, phase) PROVE UNCHANGED <<registered, gen>>
  BY <1>0, <1>10 DEF Fails
<1>11. CASE PageFails(k)
  BY <1>0, <1>2, <1>11 DEF PageFails
<1> QED
  BY <1>3, <1>4, <1>5, <1>6, <1>7, <1>8, <1>9, <1>10, <1>11 DEF WalkStep

(***************************************************************************)
(* A registry with more than MaxServices services is left behind, with the *)
(* requests that still use it.                                             *)
(***************************************************************************)
LEMMA RegisterKeeps ==
  ASSUME FlightInv, RegistryInv, NEW r \in Requests, Register(r)
  PROVE  RegistryInv'
<1>1. PICK c \in Creds :
        /\ registered' = (IF Overfull THEN {} ELSE registered) \cup {c}
        /\ gen' = IF Overfull THEN gen + 1 ELSE gen
        /\ req' = [req EXCEPT ![r].pc = "get", ![r].key = <<c, gen'>>]
  BY DEF Register
<1>2. /\ \A q \in Requests : q # r => req'[q] = req[q]
      /\ req'[r].key = <<c, gen'>>
  BY <1>1 DEF FlightInv, Recorded
<1>3. MaxServices \in Nat /\ gen \in Nat /\ IsFiniteSet(registered) /\ Cardinality(registered) \in Nat
  BY BoundAssumption, FS_CardinalityType DEF RegistryInv
<1>4. CASE Overfull
  <2>1. registered' = {c} /\ gen' = gen + 1
    BY <1>1, <1>4
  <2>2. IsFiniteSet({c}) /\ Cardinality({c}) = 1
    BY FS_Singleton
  <2>3. ASSUME NEW q \in Requests PROVE InRegistry(q)'
    <3>1. CASE q = r
      BY <1>2, <1>3, <2>1, <3>1 DEF InRegistry
    <3>2. CASE q # r
      <4>1. req'[q].pc \in Busy => req'[q].key[2] \in 0..gen
        BY <1>2, <3>2 DEF RegistryInv, InRegistry
      <4> QED
        BY <1>3, <2>1, <4>1 DEF InRegistry, Busy
    <3> QED
      BY <3>1, <3>2
  <2> QED
    BY <1>3, <2>1, <2>2, <2>3 DEF RegistryInv
<1>5. CASE ~Overfull
  <2>1. registered' = registered \cup {c} /\ gen' = gen
    BY <1>1, <1>5
  <2>2. Cardinality(registered) <= MaxServices
    BY <1>3, <1>5 DEF Overfull
  <2>3. IsFiniteSet(registered') /\ Cardinality(registered') <= MaxServices + 1
    <3>1. CASE c \in registered
      <4>1. registered' = registered
        BY <2>1, <3>1
      <4> QED
        BY <1>3, <2>2, <4>1
    <3>2. CASE c \notin registered
      <4>1. IsFiniteSet(registered') /\ Cardinality(registered') = Cardinality(registered) + 1
        BY <1>3, <2>1, <3>2, FS_AddElement
      <4> QED
        BY <1>3, <2>2, <4>1
    <3> QED
      BY <3>1, <3>2
  <2>4. ASSUME NEW q \in Requests PROVE InRegistry(q)'
    <3>1. CASE q = r
      BY <1>2, <1>3, <2>1, <3>1 DEF InRegistry
    <3>2. CASE q # r
      <4>1. InRegistry(q) /\ req'[q] = req[q]
        BY <1>2, <3>2 DEF RegistryInv
      <4> QED
        BY <2>1, <4>1 DEF InRegistry, Busy
    <3> QED
      BY <3>1, <3>2
  <2> QED
    BY <1>3, <2>1, <2>3, <2>4 DEF RegistryInv
<1> QED
  BY <1>4, <1>5

LEMMA RegistryStep == FlightInv /\ RegistryInv /\ [MemberNext]_memberVars => RegistryInv'
<1> SUFFICES ASSUME FlightInv, RegistryInv, [MemberNext]_memberVars PROVE RegistryInv'
  OBVIOUS
<1>0. DOMAIN req = Requests /\ \A r \in Requests : DOMAIN req[r] = {"pc", "key", "answer"}
  BY DEF FlightInv, Recorded
<1>1. ASSUME NEW r \in Requests, Get(r) PROVE RegistryInv'
  <2>1. UNCHANGED <<registered, gen>> /\ req[r].pc \in Busy
    BY <1>1 DEF Get, Busy
  <2>2. \A q \in Requests : req'[q].key = req[q].key /\ (q # r => req'[q] = req[q])
    BY <1>0, <1>1 DEF Get
  <2> QED
    BY <2>1, <2>2, RegistryStays
<1>2. ASSUME NEW r \in Requests, Again(r) \/ GiveUp(r) PROVE RegistryInv'
  <2>1. UNCHANGED <<registered, gen>>
    BY <1>2 DEF Again, GiveUp
  <2>2. req'[r].pc \in {"new", "answered"} /\ \A q \in Requests : q # r => req'[q] = req[q]
    BY <1>0, <1>2 DEF Again, GiveUp
  <2> QED
    BY <2>1, <2>2, RegistryStays DEF Busy
<1>3. ASSUME NEW k, WalkStep(k) PROVE RegistryInv'
  <2>1. UNCHANGED <<registered, gen>>
    BY <1>3, WalkStays
  <2>2. CASE UNCHANGED <<service, req>>
    BY <2>1, <2>2, RegistryStays
  <2>3. CASE Landed(k)
    <3>1. PICK result : req' = [r \in Requests |-> IF Flying(r, k) THEN [req[r] EXCEPT !.pc = "answered", !.answer = result] ELSE req[r]]
      BY <2>3 DEF Landed
    <3>2. ASSUME NEW r \in Requests, req'[r].pc \in Busy PROVE req'[r] = req[r]
      <4>1. Flying(r, k) => req'[r].pc = "answered"
        BY <1>0, <3>1
      <4>2. ~Flying(r, k)
        BY <3>2, <4>1 DEF Busy
      <4> QED
        BY <3>1, <4>2
    <3> QED
      BY <2>1, <3>2, RegistryStays
  <2> QED
    BY <1>3, <2>2, <2>3, WalkEffect
<1>4. ASSUME NEW k \in Keys, Expire(k) PROVE RegistryInv'
  BY <1>4, RegistryStays DEF Expire
<1>5. CASE UNCHANGED memberVars
  BY <1>5, RegistryStays DEF memberVars
<1>6. ASSUME NEW r \in Requests, HandlerStep(r) PROVE RegistryInv'
  BY <1>1, <1>3, <1>6, RegisterKeeps DEF HandlerStep
<1> QED
  BY <1>2, <1>4, <1>5, <1>6 DEF MemberNext

(***************************************************************************)
(* Clearing the registry under its requests keeps the flights few that a   *)
(* request can join, although the flights of cleared registries go on for  *)
(* as long as they take (fetchNotificationMembers, memberFetchService.get).*)
(***************************************************************************)
THEOREM FlightsStayFew == MemberSpec => []FlightsAreFew
<1>1. FlightInv /\ RegistryInv => FlightsAreFew
  <2> SUFFICES ASSUME FlightInv, RegistryInv PROVE FlightsAreFew
    OBVIOUS
  <2> DEFINE F == {k \in Keys : k[2] = gen /\ service[k].flight}
             G == registered \X {gen}
  <2>1. ASSUME NEW k \in F PROVE k \in G
    <3>1. PICK l \in Requests : On(k, "lead") = {l}
      BY DEF FlightInv, Led
    <3>2. req[l].key = k /\ req[l].pc = "lead"
      BY <3>1 DEF On
    <3>3. k[1] \in registered
      BY <3>2 DEF RegistryInv, InRegistry, Busy
    <3>4. k = <<k[1], k[2]>>
      BY DEF Keys
    <3> QED
      BY <3>3, <3>4
  <2>2. IsFiniteSet(registered) /\ Cardinality(registered) \in Nat /\ Cardinality(registered) <= MaxServices + 1
    BY FS_CardinalityType DEF RegistryInv
  <2>3. IsFiniteSet({gen}) /\ Cardinality({gen}) = 1
    BY FS_Singleton
  <2>4. IsFiniteSet(G) /\ Cardinality(G) = Cardinality(registered) * 1
    BY <2>2, <2>3, FS_Product
  <2>5. Cardinality(G) = Cardinality(registered)
    BY <2>2, <2>4
  <2> HIDE DEF F, G
  <2>6. F \in SUBSET G
    BY <2>1
  <2>7. Cardinality(F) <= Cardinality(G) /\ Cardinality(F) \in Nat
    BY <2>4, <2>6, FS_Subset, FS_CardinalityType
  <2>8. Cardinality(F) <= MaxServices + 1
    BY <2>2, <2>5, <2>7, BoundAssumption
  <2> QED
    BY <2>8 DEF FlightsAreFew, F
<1> QED
  BY <1>1, FlightInit, FlightStep, RegistryInit, RegistryStep, PTL DEF MemberSpec

=============================================================================
