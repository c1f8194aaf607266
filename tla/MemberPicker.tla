---------------------------- MODULE MemberPicker ----------------------------
(***************************************************************************)
(* The member picker (src/notification_members.go and its directory        *)
(* clients): a registry of services keyed by credentials, each with a      *)
(* cached list, a cool-down and a flight its requests share, and the walks *)
(* through the directories of the three platforms, call by call.           *)
(*                                                                         *)
(* A walk goes through phases.  DingTalk: token, the department tree from  *)
(* the root, the users of each department page by page.  WeCom: token, one *)
(* list of departments, the users of each top's whole subtree.  Feishu:    *)
(* token, the authorized scope, the subtrees of its departments, the users *)
(* of all departments by workers side by side, the names still missing.    *)
(*                                                                         *)
(* Every listing comes in pages, and one that ends without data, or        *)
(* announces more without saying where, is taken for complete: a walk      *)
(* remembers it as short, for the properties only.                         *)
(*                                                                         *)
(* A user has one name; a directory shows it or leaves it blank.           *)
(***************************************************************************)
EXTENDS Integers, Sequences, FiniteSets, SequencesExt, TLC

CONSTANTS Creds,        \* the credentials asked with
          KindOf,       \* their platform
          Directory,    \* their directory: [root, children, below, scope, pages, names, endless]
          Requests,     \* the requests of the page
          MaxAgain,     \* bound: answered requests that are made anew
          MaxServices,  \* bound of the registry (32)
          MaxRequests,  \* maxMemberRequests
          MaxMembers,   \* maxMemberCount
          NameBatch,    \* how many names one call asks for (50)
          MaxFaults     \* bound: calls that fail or fall short, waits that are given up

Kinds == {"feishu", "dingtalk", "wecom"}
ASSUME KindAssumption == KindOf \in [Creds -> Kinds]
ASSUME BoundAssumption ==
  /\ MaxServices \in Nat /\ MaxRequests \in Nat \ {0} /\ MaxMembers \in Nat \ {0} /\ NameBatch \in Nat \ {0}
  /\ MaxAgain \in Nat /\ MaxFaults \in Nat /\ IsFiniteSet(Requests)

VARIABLES registered,   \* the credentials the registry has a service for
          gen,          \* how often the registry was cleared
          service,      \* the services, those of cleared registries included
          walk,         \* the walk of the flight of each service
          req,          \* the requests
          again, faults \* what MaxAgain and MaxFaults bound

memberVars == <<registered, gen, service, walk, req, again, faults>>

\* A registry is cleared by the request after MaxServices + 1 services.
Gens == 0..(Cardinality(Requests) + MaxAgain - 1) \div (MaxServices + 1)
Keys == Creds \X Gens
Kind(k) == KindOf[k[1]]
Dir(k) == Directory[k[1]]

Unavailable(code) == [code |-> code, members |-> {}, short |-> FALSE]
NoAnswer == Unavailable("none")
Cooled == {"authentication_failed", "rate_limited"}
Other == "unavailable"  \* any other code: a failed connection, a timeout, a bad response

NewService == [cached |-> NoAnswer, fresh |-> FALSE, cooling |-> FALSE, flight |-> FALSE]
NewWalk == [phase |-> "token", queue |-> <<>>, visited |-> {}, depts |-> <<>>, cursor |-> <<>>,
            failed |-> {}, got |-> {}, todo |-> {}, page |-> 1, short |-> FALSE, spent |-> 0]

MemberInit ==
  /\ registered = {} /\ gen = 0 /\ again = 0 /\ faults = 0
  /\ service = [k \in Keys |-> NewService]
  /\ walk = [k \in Keys |-> NewWalk]
  /\ req = [r \in Requests |-> [pc |-> "new", key |-> <<>>, answer |-> NoAnswer]]

-----------------------------------------------------------------------------
(***************************************************************************)
(* fetchNotificationMembers: a registry with more than MaxServices         *)
(* services is cleared; flights under way go on without it.                *)
(***************************************************************************)
Overfull == Cardinality(registered) > MaxServices

Register(r) ==
  /\ req[r].pc = "new"
  /\ \E c \in Creds :
       /\ registered' = (IF Overfull THEN {} ELSE registered) \cup {c}
       /\ gen' = IF Overfull THEN gen + 1 ELSE gen
       /\ req' = [req EXCEPT ![r].pc = "get", ![r].key = <<c, gen'>>]
  /\ UNCHANGED <<again, service, walk, faults>>

(***************************************************************************)
(* memberFetchService.get: what the cool-down or the cache answers; a      *)
(* flight to wait for; a flight of one's own.                              *)
(***************************************************************************)
AnswerNow(s) == s.cooling \/ (s.cached.code = "ready" /\ s.fresh)   \* no request forces a fetch

\* Mutant of Get: the flight is looked for and claimed in two critical sections.
GetTwice(r) ==
  LET k == req[r].key
      s == service[k]
  IN  /\ req[r].pc = "get" /\ ~AnswerNow(s)
      /\ req' = [req EXCEPT ![r].pc = "lead"]
      /\ service' = [service EXCEPT ![k].flight = TRUE]
      /\ walk' = [walk EXCEPT ![k] = NewWalk]
      /\ UNCHANGED <<again, registered, gen, faults>>

Get(r) ==
  LET k == req[r].key
      s == service[k]
  IN  /\ req[r].pc = "get"
      /\ \/ /\ AnswerNow(s)
            /\ req' = [req EXCEPT ![r].pc = "answered", ![r].answer = s.cached]
            /\ UNCHANGED <<service, walk>>
         \/ /\ ~AnswerNow(s) /\ s.flight
            /\ req' = [req EXCEPT ![r].pc = "wait"]
            /\ UNCHANGED <<service, walk>>
         \/ /\ ~AnswerNow(s) /\ ~s.flight
            /\ req' = [req EXCEPT ![r].pc = "lead"]
            /\ service' = [service EXCEPT ![k].flight = TRUE]
            /\ walk' = [walk EXCEPT ![k] = NewWalk]
      /\ UNCHANGED <<again, registered, gen, faults>>

\* The page asks again.
Again(r) ==
  /\ req[r].pc = "answered" /\ again < MaxAgain
  /\ again' = again + 1
  /\ req' = [req EXCEPT ![r] = [pc |-> "new", key |-> <<>>, answer |-> NoAnswer]]
  /\ UNCHANGED <<registered, gen, service, walk, faults>>

\* Its own deadline ends the wait for another request's flight.
GiveUp(r) ==
  /\ req[r].pc = "wait" /\ faults < MaxFaults
  /\ faults' = faults + 1
  /\ req' = [req EXCEPT ![r].pc = "answered", ![r].answer = Unavailable(Other)]
  /\ UNCHANGED <<again, registered, gen, service, walk>>

(***************************************************************************)
(* The end of a flight: the result is cached, a refusal or a rate limit    *)
(* starts a cool-down (of no length if the platform says so), and leader   *)
(* and waiters have their answer.                                          *)
(***************************************************************************)
\* Mutant of Flying: the end of a flight wakes its leader only.
FlyingAlone(r, k) == req[r].pc = "lead" /\ req[r].key = k

Flying(r, k) == req[r].pc \in {"lead", "wait"} /\ req[r].key = k

Land(k, result) ==
  /\ \E cooling \in BOOLEAN :
       /\ cooling => result.code \in Cooled
       /\ result.code = "authentication_failed" => cooling
       /\ service' = [service EXCEPT ![k] = [cached |-> result, fresh |-> result.code = "ready",
                                             cooling |-> cooling, flight |-> FALSE]]
  /\ req' = [r \in Requests |-> IF Flying(r, k) THEN [req[r] EXCEPT !.pc = "answered", !.answer = result] ELSE req[r]]
  /\ walk' = [walk EXCEPT ![k] = NewWalk]
  /\ UNCHANGED <<again, registered, gen>>

Expire(k) ==
  /\ service[k].fresh \/ service[k].cooling
  /\ service' = [service EXCEPT ![k].fresh = FALSE, ![k].cooling = FALSE]
  /\ UNCHANGED <<again, registered, gen, walk, req, faults>>

-----------------------------------------------------------------------------
(***************************************************************************)
(* Every call but the one for the token first spends from the budget of    *)
(* its walk.  A call may fail; what a walk then does depends on its phase. *)
(***************************************************************************)
Codes == Cooled \cup {Other}

At(k, phase) == service[k].flight /\ walk[k].phase = phase
Afford(w) == w.spent < MaxRequests
Spend(w) == [w EXCEPT !.spent = w.spent + 1]
GoOn(k, w) == walk' = [walk EXCEPT ![k] = w] /\ UNCHANGED <<again, registered, gen, service, req>>

Fails(k, phase) ==
  /\ At(k, phase) /\ faults < MaxFaults
  /\ faults' = faults + 1
  /\ \E code \in Codes : Land(k, Unavailable(code))

Broke(k, w) == ~Afford(w) /\ Land(k, Unavailable(Other)) /\ UNCHANGED faults

Worker(k) == Kind(k) = "feishu"

Token(k) ==
  /\ At(k, "token")
  /\ GoOn(k, [walk[k] EXCEPT !.phase = IF Worker(k) THEN "scope" ELSE "tree",
                             !.queue = IF Kind(k) = "dingtalk" THEN <<Dir(k).root>> ELSE <<>>])
  /\ UNCHANGED faults

(***************************************************************************)
(* What a call for page n of a listing is answered: the page, and where to *)
(* go on (0: nowhere).  Of the last page of an endless listing the         *)
(* platform may say that there is more, and send it again.  A success      *)
(* without data, and at Feishu a page that announces more without a token, *)
(* end the listing before its end.                                         *)
(***************************************************************************)
After(n, last, endless) == IF n < last THEN {n + 1} ELSE IF endless THEN {n, 0} ELSE {0}

Replies(k, pages, n, endless, nothing) ==
  {[rows |-> pages[n], next |-> m, short |-> FALSE] : m \in After(n, Len(pages), endless)}
    \cup {[rows |-> rows, next |-> 0, short |-> TRUE] : rows \in {nothing} \cup (IF Worker(k) THEN {pages[n]} ELSE {})}

Costs(a) == IF a.short THEN faults < MaxFaults /\ faults' = faults + 1 ELSE UNCHANGED faults

(***************************************************************************)
(* fetchFeishuAuthorizedScope: departments, and users who are in none.     *)
(* addDept takes a department once.                                        *)
(***************************************************************************)
Blank == ""
Added(depts, more) == depts \o SetToSeq(more \ ToSet(depts))

Scope(k) ==
  LET w == walk[k]
      read(a) == [Spend(w) EXCEPT !.depts = Added(w.depts, a.rows.depts), !.short = a.short,
                                  !.got = w.got \cup {<<u, Blank>> : u \in a.rows.users}]
  IN  /\ At(k, "scope")
      /\ \/ Broke(k, w)
         \/ Afford(w) /\ \E a \in Replies(k, Dir(k).scope, w.page, <<"scope", Dir(k).root>> \in Dir(k).endless,
                                            [depts |-> {}, users |-> {}]) :
              /\ Costs(a)
              /\ GoOn(k, IF a.next # 0 THEN [read(a) EXCEPT !.page = a.next]
                         ELSE [read(a) EXCEPT !.phase = "tree", !.page = 1, !.queue = read(a).depts])

(***************************************************************************)
(* The departments below d, at any depth.                                  *)
(***************************************************************************)
Below(dir, d) ==
  LET reach[n \in Nat] == IF n = 0 THEN {d} ELSE reach[n-1] \cup UNION {ToSet(dir.children[e]) : e \in reach[n-1]}
  IN  reach[Cardinality(DOMAIN dir.children)] \ {d}

Under == [c \in Creds |-> [d \in DOMAIN Directory[c].children |-> Below(Directory[c], d)]]

Tops(dir) ==
  {dir.root} \cup {d \in DOMAIN dir.children : \A e \in DOMAIN dir.children : d \notin ToSet(dir.children[e])}

(***************************************************************************)
(* What the platforms are relied on for: departments list departments, and *)
(* at Feishu all that is below; every listing has a first page; a user has *)
(* one name.  WeCom's departments hang together below the tops.            *)
(***************************************************************************)
Depts(dir) == DOMAIN dir.children
Listed(dir) == UNION {UNION ToSet(dir.pages[d]) : d \in Depts(dir)}
OneName(rows) == \A p, q \in rows : p[1] = q[1] => p[2] = q[2] \/ Blank \in {p[2], q[2]}

ScopeDepts(dir) == UNION {page.depts : page \in ToSet(dir.scope)}
ScopeUsers(dir) == UNION {page.users : page \in ToSet(dir.scope)}

Platform(c) ==
  LET dir == Directory[c]
      depts == Depts(dir)
  IN  /\ IsFiniteSet(depts) /\ dir.root \in depts
      /\ dir.children \in [depts -> Seq(depts)]
      /\ dir.pages \in [depts -> Seq(SUBSET ({p[1] : p \in Listed(dir)} \X {p[2] : p \in Listed(dir)})) \ {<<>>}]
      /\ IsFiniteSet(Listed(dir)) /\ OneName(Listed(dir))
      /\ dir.scope \in Seq([depts : SUBSET depts, users : SUBSET ScopeUsers(dir)]) \ {<<>>} /\ IsFiniteSet(ScopeUsers(dir))
      /\ dir.below \in [depts -> Seq(SUBSET depts) \ {<<>>}]
      /\ \A d \in depts : UNION ToSet(dir.below[d]) = Below(dir, d)
      /\ KindOf[c] = "wecom" => \A d \in depts : \E t \in Tops(dir) : d \in {t} \cup Below(dir, t)

ASSUME PlatformAssumption == \A c \in Creds : Platform(c)

(***************************************************************************)
(* The tree.  WeCom lists everything in one call, of which the tops are    *)
(* walked.  DingTalk's call lists the direct children of the next          *)
(* department that was not visited; Feishu's pages all that is below it.   *)
(* With nothing left to list the users follow; Feishu starts a worker for  *)
(* each department first.                                                  *)
(***************************************************************************)
Begin(k, w) ==
  [w EXCEPT !.phase = "users", !.cursor = [d \in IF Worker(k) THEN {} ELSE ToSet(w.depts) |-> 1]]

\* The departments of a list that were not visited, in its order.
Unvisited(s, visited) ==
  LET upto[n \in 0..Len(s)] == IF n = 0 THEN <<>> ELSE IF s[n] \in visited THEN upto[n-1] ELSE Append(upto[n-1], s[n])
  IN  upto[Len(s)]

WecomTree(k, w) ==
  \E a \in Replies(k, <<Tops(Dir(k))>>, 1, FALSE, {Dir(k).root}) :
    Costs(a) /\ GoOn(k, Begin(k, [w EXCEPT !.depts = SetToSeq(a.rows), !.short = a.short]))

DingtalkTree(k, w, d, rest) ==
  \/ d \in w.visited /\ GoOn(k, [w EXCEPT !.queue = rest]) /\ UNCHANGED faults
  \/ d \notin w.visited /\ Broke(k, w)
  \/ d \notin w.visited /\ Afford(w) /\ \E a \in Replies(k, <<Dir(k).children[d]>>, 1, FALSE, <<>>) :
       /\ Costs(a)
       /\ GoOn(k, [Spend(w) EXCEPT !.depts = Append(w.depts, d), !.visited = w.visited \cup {d},
                                   !.queue = rest \o Unvisited(a.rows, w.visited \cup {d}), !.short = w.short \/ a.short])

FeishuTree(k, w, d, rest) ==
  \/ Broke(k, w)
  \/ Afford(w) /\ \E a \in Replies(k, Dir(k).below[d], w.page, <<"below", d>> \in Dir(k).endless, {}) :
       LET read == [Spend(w) EXCEPT !.depts = Added(w.depts, a.rows), !.short = w.short \/ a.short]
       IN  /\ Costs(a)
           /\ GoOn(k, IF a.next # 0 THEN [read EXCEPT !.page = a.next]
                      ELSE [read EXCEPT !.page = 1, !.queue = rest, !.visited = w.visited \cup {d}])

Tree(k) ==
  LET w == walk[k]
      d == Head(w.queue)
      rest == Tail(w.queue)
  IN  /\ At(k, "tree")
      /\ \/ Kind(k) = "wecom" /\ WecomTree(k, w)
         \/ Kind(k) = "dingtalk" /\ w.queue # <<>> /\ DingtalkTree(k, w, d, rest)
         \/ Kind(k) = "feishu" /\ w.queue # <<>> /\ FeishuTree(k, w, d, rest)
         \/ Kind(k) # "wecom" /\ w.queue = <<>> /\ GoOn(k, Begin(k, w)) /\ UNCHANGED faults

(***************************************************************************)
(* The users.  DingTalk walks its departments in order, WeCom its tops in  *)
(* any, a subtree a call; Feishu's workers take turns, and one that fails  *)
(* lets the others finish.                                                 *)
(***************************************************************************)
Left(w) == {d \in DOMAIN w.cursor : w.cursor[d] > 0}
Turns(k, w) ==
  IF Kind(k) = "dingtalk" /\ Left(w) # {}
  THEN {w.depts[CHOOSE i \in DOMAIN w.depts : w.depts[i] \in Left(w) /\ \A j \in 1..i-1 : w.depts[j] \notin Left(w)]}
  ELSE Left(w)

PagesOf(k, d) ==
  IF Kind(k) = "wecom" THEN <<UNION {UNION ToSet(Dir(k).pages[e]) : e \in Under[k[1]][d] \cup {d}}>>
  ELSE Dir(k).pages[d]

Endless(k, d) == Kind(k) # "wecom" /\ <<"users", d>> \in Dir(k).endless

\* A worker that fails is done; the others go on.
AtPage(w, d, page) == [e \in DOMAIN w.cursor \cup {d} |-> IF e = d THEN page ELSE w.cursor[e]]
Stop(w, d, code) == [w EXCEPT !.cursor = AtPage(w, d, 0), !.failed = w.failed \cup {<<d, code>>}]

Unstarted(k, w) == Worker(k) /\ Cardinality(DOMAIN w.cursor) < Len(w.depts)

StartWorker(k) ==
  LET w == walk[k]
      d == w.depts[Cardinality(DOMAIN w.cursor) + 1]
  IN  /\ At(k, "users") /\ Unstarted(k, w)
      /\ GoOn(k, IF Afford(w) THEN [Spend(w) EXCEPT !.cursor = AtPage(w, d, 1)] ELSE Stop(w, d, Other))
      /\ UNCHANGED faults

Page(k) ==
  LET w == walk[k]
  IN  /\ At(k, "users")
      /\ \E d \in Turns(k, w) :
           \/ ~Worker(k) /\ Broke(k, w)
           \/ Worker(k) /\ ~Afford(w) /\ GoOn(k, Stop(w, d, Other)) /\ UNCHANGED faults
           \/ Afford(w) /\ \E a \in Replies(k, PagesOf(k, d), w.cursor[d], Endless(k, d), {}) :
                /\ Costs(a)
                /\ GoOn(k, [Spend(w) EXCEPT !.got = w.got \cup a.rows, !.cursor = AtPage(w, d, a.next),
                                            !.short = w.short \/ a.short])

PageFails(k) ==
  LET w == walk[k]
  IN  /\ At(k, "users") /\ Left(w) # {} /\ faults < MaxFaults
      /\ faults' = faults + 1
      /\ \E d \in Turns(k, w), code \in Codes :
           \/ ~Worker(k) /\ Land(k, Unavailable(code))
           \/ Worker(k) /\ GoOn(k, Stop(w, d, code))

(***************************************************************************)
(* The list: every user once, under its name where any row showed one, and *)
(* no more than MaxMembers of them; what comes after is dropped without an *)
(* error, and which users those are is the order of the rows (left open).  *)
(* Feishu asks for the names that are missing, batch by batch, and goes    *)
(* without the rest when that fails; it asks as well for users whose first *)
(* row was blank and whom a later row named.  The error of its first       *)
(* failed department is that of the walk.                                  *)
(***************************************************************************)
Ids(rows) == {p[1] : p \in rows}
AtMost(n, S) == kSubset(IF Cardinality(S) < n THEN Cardinality(S) ELSE n, S)
Kept(got) == {{p \in got : p[1] \in users} : users \in AtMost(MaxMembers, Ids(got))}

Collected(got) == {p \in got : p[2] # Blank \/ \A q \in got : q[1] = p[1] => q[2] = Blank}
Ready(got, short) == [code |-> "ready", members |-> Collected(got), short |-> short]
Missing(got) == Ids({p \in Collected(got) : p[2] = Blank})
Unnamed(got) == {users \in SUBSET Ids({p \in got : p[2] = Blank}) : Missing(got) \subseteq users}

FirstError(w) ==
  LET at(f) == CHOOSE i \in DOMAIN w.depts : w.depts[i] = f[1]
  IN  (CHOOSE f \in w.failed : \A g \in w.failed : at(f) <= at(g))[2]

Finish(k, w) ==
  \E rows \in Kept(w.got) :
    \/ ~Worker(k) /\ Land(k, Ready(rows, w.short))
    \/ Worker(k) /\ \E users \in Unnamed(rows) : GoOn(k, [w EXCEPT !.phase = "names", !.got = rows, !.todo = users])

\* Mutant of UsersDone: the departments that failed are left out of the list.
UsersDonePartial(k) ==
  /\ At(k, "users") /\ ~Unstarted(k, walk[k]) /\ Left(walk[k]) = {}
  /\ Finish(k, walk[k])
  /\ UNCHANGED faults

UsersDone(k) ==
  LET w == walk[k]
  IN  /\ At(k, "users") /\ ~Unstarted(k, w) /\ Left(w) = {}
      /\ \/ w.failed # {} /\ Land(k, Unavailable(FirstError(w)))
         \/ w.failed = {} /\ Finish(k, w)
      /\ UNCHANGED faults

Names(k) ==
  LET w == walk[k]
      named(batch) == {<<u, Dir(k).names[u]>> : u \in batch \cap Missing(w.got)}
  IN  /\ At(k, "names")
      /\ \/ (w.todo = {} \/ ~Afford(w)) /\ Land(k, Ready(w.got, w.short)) /\ UNCHANGED faults
         \/ /\ w.todo # {} /\ Afford(w)
            /\ \E batch \in AtMost(NameBatch, w.todo) :
                 GoOn(k, [Spend(w) EXCEPT !.got = w.got \cup named(batch), !.todo = w.todo \ batch])
            /\ UNCHANGED faults
         \/ w.todo # {} /\ faults < MaxFaults /\ faults' = faults + 1 /\ Land(k, Ready(w.got, w.short))

WalkStep(k) ==
  \/ Token(k) \/ Scope(k) \/ Tree(k) \/ StartWorker(k) \/ Page(k) \/ UsersDone(k) \/ Names(k)
  \/ \E phase \in {"token", "scope"} : Fails(k, phase)
  \/ (Kind(k) = "wecom" \/ walk[k].queue # <<>>) /\ Fails(k, "tree")
  \/ PageFails(k)

\* The handler of a request; the one that leads a flight walks.
HandlerStep(r) == Register(r) \/ Get(r) \/ (req[r].pc = "lead" /\ WalkStep(req[r].key))

MemberNext ==
  \/ \E r \in Requests : HandlerStep(r) \/ Again(r) \/ GiveUp(r)
  \/ \E k \in Keys : Expire(k)

MemberSpec == MemberInit /\ [][MemberNext]_memberVars

(***************************************************************************)
(* Handlers run on, with their workers; nothing forces a deadline or an    *)
(* expiry.                                                                 *)
(***************************************************************************)
FairMemberSpec == MemberSpec /\ \A r \in Requests : WF_memberVars(HandlerStep(r))

-----------------------------------------------------------------------------
(***************************************************************************)
(* A list that is called ready is all of the directory the credentials may *)
(* see, however departments are nested or listed twice and whatever order  *)
(* the workers took, or it is full: collectMembers.add drops what exceeds  *)
(* MaxMembers and says nothing, so a full list may be a part.  Nobody is   *)
(* listed twice, and everyone under the name any department shows.  When   *)
(* anything failed there is no list at all.  A listing that the platform   *)
(* ended early, with a success, is the other exception: the list then has  *)
(* nobody who is not in the directory, and that is all.                    *)
(***************************************************************************)
Visible(c) ==
  LET dir == Directory[c]
      from == IF KindOf[c] = "feishu" THEN ScopeDepts(dir)
              ELSE IF KindOf[c] = "dingtalk" THEN {dir.root} ELSE DOMAIN dir.children
      depts == from \cup UNION {Under[c][d] : d \in from}
      rows == UNION {UNION ToSet(dir.pages[d]) : d \in depts}
  IN  rows \cup (IF KindOf[c] = "feishu" THEN {<<u, Blank>> : u \in ScopeUsers(dir)} ELSE {})

WholeDirectory ==
  \A r \in Requests :
    LET a == req[r].answer
        seen == Visible(req[r].key[1])
        users == Ids(a.members)
    IN  req[r].pc = "answered" =>
          IF a.code = "ready"
          THEN /\ users \subseteq Ids(seen) /\ Cardinality(a.members) = Cardinality(users)
               /\ Cardinality(users) <= MaxMembers
               /\ ~a.short => /\ users = Ids(seen) \/ Cardinality(users) = MaxMembers
                              /\ {p \in seen : p[1] \in users /\ p[2] # Blank} \subseteq a.members
          ELSE a.members = {}

(***************************************************************************)
(* A flight has exactly one leader, nobody waits for a flight that has     *)
(* landed, and a cool-down only ever repeats a refusal: a list is never    *)
(* withheld or handed out because of another outcome.  This holds for the  *)
(* services of a cleared registry as well.                                 *)
(***************************************************************************)
FlightsAreLed ==
  \A k \in Keys :
    LET on(pc) == {r \in Requests : req[r].key = k /\ req[r].pc = pc}
        s == service[k]
    IN  /\ Cardinality(on("lead")) = IF s.flight THEN 1 ELSE 0
        /\ on("wait") # {} => s.flight
        /\ s.cooling => s.cached.code \in Cooled /\ ~s.flight
        /\ s.fresh => s.cached.code = "ready"

(***************************************************************************)
(* Every request is answered, though departments may form a circle and a   *)
(* platform may announce page after page: the budget ends the walk.        *)
(***************************************************************************)
EveryRequestIsAnswered == \A r \in Requests : req[r].pc = "get" ~> req[r].pc = "answered"

=============================================================================
