------------------------------ MODULE KeeperNames ------------------------------
(***************************************************************************)
(* The cached list of Keeper authentication names (keeper_auth_names.go)   *)
(* and the rename that publishes into it (management_keeper_names.go): one *)
(* service per Keeper connection, with a cache, a cool-down, one fetch in  *)
(* flight that requests share, and a generation that outdates it.  The     *)
(* configuration may change under all of them.                             *)
(*                                                                         *)
(* The key aliases (keeper_aliases.go) are served the same way, without    *)
(* the rename.  A list is abstracted to how many of those renames it shows;  *)
(* what others rename at the Keeper is told by its age.                    *)
(***************************************************************************)
EXTENDS Integers

CONSTANTS
    Keepers,        \* the connections that can be configured
    Blank,          \* no connection configured
    Broken,         \* a connection that newKeeperClient refuses
    Readers,        \* concurrent list requests
    None,
    CacheFor,       \* how long a list is served from the cache (60 s)
    Cooldown,       \* how long a refusing Keeper is left alone
    Deadline,       \* how long a request may take (5 s)
    Disturbances,   \* the kinds of faults and operator calls a run allows
    MaxDisturbances \* bound: how many of them happen in a behaviour

ASSUME KeeperAssumption ==
    /\ CacheFor \in Nat \ {0} /\ Cooldown \in Nat \ {0} /\ Deadline \in 0..(CacheFor - 1)
    /\ MaxDisturbances \in Nat
    /\ None \notin Readers \cup Keepers
    /\ Blank \notin Keepers /\ Broken \notin Keepers /\ Blank # Broken

VARIABLES
    names,      \* the renames each Keeper has made
    loaded,     \* the connection of the loaded configuration
    current,    \* keeperNameServices.service, 0 for nil
    services,   \* the services ever installed, in order of installation
    installed,  \* how many
    reader,     \* the list requests
    rename,     \* the rename in progress
    host,       \* the reconfigure call
    acked,      \* history: the renames of each Keeper that were published
    budget

vars == <<names, loaded, current, services, installed, reader, rename, host,
          acked, budget>>

Connections == Keepers \cup {Blank, Broken}
Count   == Nat
\* Ages and waits are counted in ticks; a list older than Oldest is just old.
Oldest  == CacheFor + 2 * Deadline + 1
\* Bound: every service but the first follows a new configuration.
Ids     == 1..(MaxDisturbances + 1)

Reply   == [kind: {"empty", "ready", "unavailable"}, version: Count, age: 0..Oldest]
Nothing == [kind |-> "empty", version |-> 0, age |-> 0]
Down    == [kind |-> "unavailable", version |-> 0, age |-> 0]
Ready(v) == [kind |-> "ready", version |-> v, age |-> 0]

Service == [connection: Connections, cached: Reply, validFor: 0..CacheFor,
            retryAfter: 0..Cooldown, flight: Readers \cup {None}, generation: Nat]
Reader  == [pc: {"select", "install", "get", "wait", "fetch", "land", "check", "done"},
            force: BOOLEAN, connection: Connections, id: Ids \cup {0}, generation: Nat,
            result: {"ok", "failed", "refused"}, reply: Reply, age: 0..Deadline, floor: Count]
Rename  == [pc: {"idle", "install", "list", "patch", "publish"},
            connection: Connections, id: Ids \cup {0}, reply: Reply, age: 0..Deadline]

Answered(c) == [pc |-> "done", force |-> FALSE, connection |-> c, id |-> 0,
                generation |-> 0, result |-> "failed", reply |-> Down, age |-> 0,
                floor |-> 0]
IdleRename == [pc |-> "idle", connection |-> Blank, id |-> 0, reply |-> Nothing, age |-> 0]
NewService(c) == [connection |-> c, cached |-> Nothing, validFor |-> 0, retryAfter |-> 0,
                  flight |-> None, generation |-> 0]

TypeOK ==
    /\ names \in [Keepers -> Count]
    /\ loaded \in Connections
    /\ current \in Ids \cup {0}
    /\ services \in [Ids -> Service]
    /\ installed \in Ids \cup {0}
    /\ reader \in [Readers -> Reader]
    /\ \A r \in Readers : reader[r].pc \in {"get", "wait", "fetch", "land", "check"} =>
                            reader[r].id \in Ids
    /\ rename \in Rename
    /\ rename.pc \in {"list", "patch", "publish"} =>
         rename.connection \in Keepers /\ rename.id \in Ids
    /\ host \in {"idle", "reset"}
    /\ acked \in [Keepers -> Count]
    /\ budget \in 0..MaxDisturbances

Init ==
    /\ names = [k \in Keepers |-> 0]
    /\ loaded \in Keepers
    /\ current = 0
    /\ services = [i \in Ids |-> NewService(Blank)]
    /\ installed = 0
    /\ reader = [r \in Readers |-> Answered(Blank)]
    /\ rename = IdleRename
    /\ host = "idle"
    /\ acked = [k \in Keepers |-> 0]
    /\ budget = MaxDisturbances

Disturb(kind) ==
    /\ kind \in Disturbances
    /\ budget > 0
    /\ budget' = budget - 1

Calm == UNCHANGED budget

Older(reply) == IF reply.kind = "ready" /\ reply.age < Oldest
                THEN [reply EXCEPT !.age = @ + 1] ELSE reply
Less(wait)   == IF wait = 0 THEN 0 ELSE wait - 1

\* Time passes; nobody outlasts the deadline of his context.
Tick ==
    /\ \A r \in Readers : reader[r].pc # "done" => reader[r].age < Deadline
    /\ rename.pc # "idle" => rename.age < Deadline
    /\ services' = [i \in Ids |->
                      [services[i] EXCEPT !.cached = Older(@), !.validFor = Less(@),
                                          !.retryAfter = Less(@)]]
    /\ reader' = [r \in Readers |->
                    IF reader[r].pc = "done" THEN reader[r]
                    ELSE [reader[r] EXCEPT !.age = @ + 1, !.reply = Older(@)]]
    /\ rename' = IF rename.pc = "idle" THEN rename
                 ELSE [rename EXCEPT !.age = @ + 1, !.reply = Older(@)]
    /\ UNCHANGED <<names, loaded, current, installed, host, acked, budget>>

-----------------------------------------------------------------------------
(* Choosing the service: the configuration is compared with the snapshot   *)
(* under its read lock, which is given up only once the lock of the        *)
(* services is held; that one is held until the service is in place.       *)

ConfigLocked   == host = "reset"
ServicesLocked == rename.pc = "install" \/ \E r \in Readers : reader[r].pc = "install"

Fits(c) == current # 0 /\ services[current].connection = c

\* No service for a blank connection, the installed one when it fits, or else
\* a new one.
Place(c) ==
    \/ c = Blank /\ current' = 0 /\ UNCHANGED <<services, installed>>
    \/ c # Blank /\ Fits(c) /\ UNCHANGED <<current, services, installed>>
    \/ /\ c # Blank /\ ~Fits(c)
       /\ installed + 1 \in Ids
       /\ installed' = installed + 1
       /\ current' = installed'
       /\ services' = [services EXCEPT ![installed'] = NewService(c)]

readerOnly == <<names, loaded, rename, host, acked>>
serviceVars == <<current, services, installed>>

\* A request starts from a snapshot of the configuration.
Request(r) ==
    /\ reader[r].pc = "done" /\ ~ConfigLocked
    /\ \E force \in BOOLEAN :
          reader' = [reader EXCEPT ![r] =
                       [Answered(loaded) EXCEPT
                          !.pc = "select", !.force = force,
                          !.floor = IF loaded \in Keepers THEN acked[loaded] ELSE 0]]
    /\ UNCHANGED <<readerOnly, serviceVars, budget>>

Answer(r, reply) ==
    LET mine == reader[r] IN
    [reader EXCEPT ![r] = IF reply.kind = "ready"
                          THEN [Answered(mine.connection) EXCEPT
                                  !.force = mine.force, !.reply = reply,
                                  !.age = mine.age, !.floor = mine.floor]
                          ELSE Answered(Blank)]

\* Mutant of Select: the snapshot is not compared.
SelectUnchecked(r) ==
    /\ reader[r].pc = "select" /\ ~ConfigLocked /\ ~ServicesLocked
    /\ reader' = [reader EXCEPT ![r].pc = "install"]
    /\ UNCHANGED <<readerOnly, serviceVars, budget>>

Select(r) ==
    /\ reader[r].pc = "select" /\ ~ConfigLocked
    /\ IF reader[r].connection # loaded THEN reader' = Answer(r, Down)
       ELSE ~ServicesLocked /\ reader' = [reader EXCEPT ![r].pc = "install"]
    /\ UNCHANGED <<readerOnly, serviceVars, budget>>

Install(r) ==
    /\ reader[r].pc = "install"
    /\ Place(reader[r].connection)
    /\ reader' = IF reader[r].connection = Blank THEN Answer(r, Down)
                 ELSE [reader EXCEPT ![r] = [@ EXCEPT !.pc = "get", !.id = current']]
    /\ UNCHANGED <<readerOnly, budget>>

-----------------------------------------------------------------------------
(* Serving a list (get): from the cool-down, from the cache, from the      *)
(* fetch in flight, or from a fetch of its own.                            *)

ServiceOf(r) == services[reader[r].id]
Cooling(s)   == s.retryAfter > 0
Fresh(s)     == s.cached.kind = "ready" /\ s.validFor > 0

GetWith(r, cached) ==
    /\ reader[r].pc = "get"
    /\ LET s == ServiceOf(r)
       IN  \/ /\ s.connection = Broken
              /\ reader' = Answer(r, Down)
              /\ UNCHANGED services
           \/ /\ s.connection # Broken /\ cached
              /\ reader' = [reader EXCEPT ![r] = [@ EXCEPT !.pc = "check",
                                                          !.reply = s.cached]]
              /\ UNCHANGED services
           \/ /\ s.connection # Broken /\ ~cached /\ s.flight # None
              /\ reader' = [reader EXCEPT ![r].pc = "wait"]
              /\ UNCHANGED services
           \/ /\ s.connection # Broken /\ ~cached /\ s.flight = None
              /\ reader' = [reader EXCEPT ![r] = [@ EXCEPT !.pc = "fetch",
                                                          !.generation = s.generation]]
              /\ services' = [services EXCEPT ![reader[r].id].flight = r]
    /\ UNCHANGED <<readerOnly, current, installed, budget>>

\* Mutant of Get: the operator's wish for a new list is not looked at.
GetUnforced(r) ==
    GetWith(r, Cooling(ServiceOf(r)) \/ Fresh(ServiceOf(r)))

Get(r) ==
    GetWith(r, Cooling(ServiceOf(r)) \/ (~reader[r].force /\ Fresh(ServiceOf(r))))

\* The Keeper is read, outside every lock.
Fetch(r) ==
    /\ reader[r].pc = "fetch"
    /\ \E result \in {"ok", "failed", "refused"} :
          /\ reader' = [reader EXCEPT ![r] =
                          [@ EXCEPT !.pc = "land", !.result = result,
                                    !.reply = IF result = "ok"
                                              THEN Ready(names[reader[r].connection])
                                              ELSE Down]]
          /\ IF result = "ok" THEN Calm ELSE Disturb(result)
    /\ UNCHANGED <<readerOnly, serviceVars>>

\* What a landing fetch hands to its own request and to those that wait for it.
Deliver(id, r, reply) ==
    reader' = [q \in Readers |->
                 IF q = r \/ (reader[q].pc = "wait" /\ reader[q].id = id)
                 THEN [reader[q] EXCEPT !.pc = "check", !.generation = 0,
                                           !.result = "failed", !.reply = reply]
                 ELSE reader[q]]

Landed(s, r) == [s EXCEPT !.cached = reader[r].reply, !.flight = None,
                          !.validFor = IF reader[r].result = "ok" THEN CacheFor ELSE 0,
                          !.retryAfter = IF reader[r].result = "refused"
                                         THEN Cooldown ELSE 0]

\* Mutant of Land: those that wait are not told.
LandAlone(r) ==
    /\ reader[r].pc = "land"
    /\ services' = [services EXCEPT ![reader[r].id] =
                       IF @.generation # reader[r].generation THEN [@ EXCEPT !.flight = None]
                       ELSE Landed(@, r)]
    /\ reader' = [reader EXCEPT ![r].pc = "check"]
    /\ UNCHANGED <<readerOnly, current, installed, budget>>

\* A list that a rename has outdated is dropped for what the rename published.
Land(r) ==
    /\ reader[r].pc = "land"
    /\ LET s == ServiceOf(r) IN
       IF s.generation # reader[r].generation
       THEN /\ services' = [services EXCEPT ![reader[r].id].flight = None]
            /\ Deliver(reader[r].id, r, s.cached)
       ELSE /\ services' = [services EXCEPT ![reader[r].id] = Landed(@, r)]
            /\ Deliver(reader[r].id, r, reader[r].reply)
    /\ UNCHANGED <<readerOnly, current, installed, budget>>

\* A waiting request runs into its own deadline.
GiveUp(r) ==
    /\ reader[r].pc = "wait" /\ reader[r].age = Deadline
    /\ reader' = Answer(r, Down)
    /\ UNCHANGED <<readerOnly, serviceVars, budget>>

\* Mutant of Check: whichever service it came from.
CheckNothing(r) ==
    /\ reader[r].pc = "check"
    /\ reader' = Answer(r, reader[r].reply)
    /\ UNCHANGED <<readerOnly, serviceVars, budget>>

\* The list counts only if its service is still the one installed.
Check(r) ==
    /\ reader[r].pc = "check" /\ ~ServicesLocked
    /\ reader' = Answer(r, IF current = reader[r].id THEN reader[r].reply ELSE Down)
    /\ UNCHANGED <<readerOnly, serviceVars, budget>>

-----------------------------------------------------------------------------
(* The rename, under the management mutex: the list is read afresh, the    *)
(* Keeper is told, and the outcome is published.                           *)

renameOnly == <<loaded, reader, host>>

RenameBegin ==
    /\ rename.pc = "idle" /\ host = "idle" /\ ~ServicesLocked
    /\ Disturb("rename")
    /\ rename' = [IdleRename EXCEPT !.pc = "install", !.connection = loaded]
    /\ UNCHANGED <<renameOnly, names, serviceVars, acked>>

RenameInstall ==
    /\ rename.pc = "install"
    /\ Place(rename.connection)
    /\ rename' = IF rename.connection \in Keepers
                 THEN [rename EXCEPT !.pc = "list", !.id = current'] ELSE IdleRename
    /\ UNCHANGED <<renameOnly, names, acked, budget>>

RenameList ==
    /\ rename.pc = "list"
    /\ \/ /\ rename' = [rename EXCEPT !.pc = "patch",
                                       !.reply = Ready(names[rename.connection])]
          /\ Calm
       \/ rename' = IdleRename /\ Disturb("failed")
    /\ UNCHANGED <<renameOnly, names, serviceVars, acked>>

\* The Keeper renames one identity of the list and says so; or it refuses, or its
\* answer is lost, and nothing is known of the list.
RenamePatch ==
    /\ rename.pc = "patch"
    /\ \E done \in BOOLEAN, told \in BOOLEAN :
          LET own == names[rename.connection] + 1
          IN  /\ names' = IF done THEN [names EXCEPT ![rename.connection] = own] ELSE names
              /\ rename' = [rename EXCEPT !.pc = "publish",
                                          !.reply = IF done /\ told
                                                    THEN [@ EXCEPT !.version = own]
                                                    ELSE Down]
              /\ IF done /\ told THEN Calm ELSE Disturb("failed")
    /\ UNCHANGED <<renameOnly, serviceVars, acked>>

Published(s) == [s EXCEPT !.generation = @ + 1, !.retryAfter = 0, !.cached = rename.reply,
                          !.validFor = IF rename.reply.kind = "ready" THEN CacheFor ELSE 0]

\* Mutant of RenamePublish: lists in flight stay current.
RenamePublishQuietly ==
    /\ rename.pc = "publish"
    /\ services' = [services EXCEPT ![rename.id] =
                       [Published(@) EXCEPT !.generation = services[rename.id].generation]]
    /\ acked' = IF rename.reply.kind = "ready"
                THEN [acked EXCEPT ![rename.connection] = rename.reply.version] ELSE acked
    /\ rename' = IdleRename
    /\ UNCHANGED <<renameOnly, names, current, installed, budget>>

RenamePublish ==
    /\ rename.pc = "publish"
    /\ services' = [services EXCEPT ![rename.id] = Published(@)]
    /\ acked' = IF rename.reply.kind = "ready"
                THEN [acked EXCEPT ![rename.connection] = rename.reply.version] ELSE acked
    /\ rename' = IdleRename
    /\ UNCHANGED <<renameOnly, names, current, installed, budget>>

-----------------------------------------------------------------------------
(* Around them.                                                            *)

\* A new configuration is in force before the service of the old one is gone;
\* its lock is held until then.
Reconfigure(c) ==
    /\ host = "idle" /\ rename.pc = "idle"
    /\ Disturb("reconfigure")
    /\ loaded' = c
    /\ host' = "reset"
    /\ UNCHANGED <<names, serviceVars, reader, rename, acked>>

Reset ==
    /\ host = "reset" /\ ~ServicesLocked
    /\ current' = 0
    /\ host' = "idle"
    /\ UNCHANGED <<names, loaded, services, installed, reader, rename, acked, budget>>

Next ==
    \/ Tick
    \/ \E r \in Readers : Request(r) \/ Select(r) \/ Install(r) \/ Get(r) \/ Fetch(r)
                          \/ Land(r) \/ GiveUp(r) \/ Check(r)
    \/ RenameBegin \/ RenameInstall \/ RenameList \/ RenamePatch \/ RenamePublish
    \/ (\E c \in Connections : Reconfigure(c)) \/ Reset

Spec == Init /\ [][Next]_vars

\* A running request takes its next step; a mutex is not withheld for ever from
\* who waits for it, while others take and release it (sync.Mutex hands itself
\* over to a waiter it has starved).  Nobody has to ask, and time need not pass.
Fairness ==
    /\ \A r \in Readers : /\ WF_vars(Install(r) \/ Get(r) \/ Fetch(r) \/ Land(r))
                          /\ SF_vars(Select(r)) /\ SF_vars(Check(r))
    /\ WF_vars(RenameInstall \/ RenameList \/ RenamePatch \/ RenamePublish)
    /\ SF_vars(Reset)

FairSpec == Spec /\ Fairness

-----------------------------------------------------------------------------

\* What request r was told, if it was told a list.
Told(r) == reader[r].pc = "done" /\ reader[r].reply.kind = "ready"

\* A list shows every rename that was acknowledged before it was asked for: a
\* fetch that was under way during the rename does not bring the old name back
\* (generation, in get and publishUpdate).
ReadYourRename ==
    \A r \in Readers : Told(r) => reader[r].reply.version >= reader[r].floor

\* A list is no older than the cache allows, counted from the request; a list
\* that was asked for by force is no older than two requests may take: that of
\* the fetch it joins and that of the rename that outdates the fetch.
Freshness ==
    \A r \in Readers : Told(r) =>
        reader[r].reply.age - reader[r].age <=
            IF reader[r].force THEN 2 * Deadline ELSE CacheFor + Deadline - 1

\* A service is being read by at most one request, and is marked as being read
\* exactly then; a request waits only for a read that is under way (flight).
OneFlight ==
    /\ \A i \in Ids, r \in Readers :
          services[i].flight = r <=>
            reader[r].pc \in {"fetch", "land"} /\ reader[r].id = i
    /\ \A r \in Readers : reader[r].pc = "wait" => ServiceOf(r).flight # None

\* While no configuration is being put in force, the installed service is one of
\* the configured connection: a request with an old snapshot does not bring an
\* old connection back (keeperNameServiceForConfig).
ServiceIsCurrent ==
    current # 0 /\ ~ConfigLocked => services[current].connection = loaded

\* No list is handed out that comes from a connection which is no longer the
\* configured one, however late its Keeper answers (keeperAuthNamesForConfig).
NoForeignAnswer ==
    [][\A r \in Readers :
         reader[r].pc # "done" /\ Told(r)' /\ ~ConfigLocked => reader[r].connection = loaded]_vars

\* Every request is answered, though others come and go and no deadline passes: the
\* read that it waits for lands, and hands it the list (done of keeperNamesFlight).
EveryRequestIsAnswered ==
    \A r \in Readers : reader[r].pc # "done" ~> reader[r].pc = "done"

=============================================================================
