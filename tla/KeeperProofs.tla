----------------------------- MODULE KeeperProofs -----------------------------
(***************************************************************************)
(* Theorems about KeeperNames: its type correctness, what a request is     *)
(* told of renames, which connection it is told it from, that a service is *)
(* read once, and how old a list may be.                                   *)
(***************************************************************************)
EXTENDS KeeperNames, TLAPS

(* Type correctness: the choice of a service first, then one step per      *)
(* action.  TypeOK alone is not inductive: a fetch applies names to the    *)
(* connection of its request, which must be a Keeper for that, and is one  *)
(* because the service was made for that connection.                       *)

Serving == {"get", "wait", "fetch", "land", "check"}
Reading == {"wait", "fetch", "land", "check"}

\* What a request that is being served knows of its service.
Bound(r) ==
    reader[r].pc \in Serving =>
        /\ reader[r].id \in 1..installed
        /\ reader[r].connection = services[reader[r].id].connection
        /\ reader[r].connection # Blank
        /\ reader[r].pc \in Reading => reader[r].connection \in Keepers

TypeInv ==
    /\ TypeOK
    /\ current \in 0..installed
    /\ \A r \in Readers : Bound(r)

LEMMA IdsAre == /\ \A i \in Ids \cup {0} : i \in Nat /\ 1..i \subseteq Ids
                /\ CacheFor \in Nat /\ Cooldown \in Nat /\ Deadline \in Nat /\ Oldest \in Nat
                /\ MaxDisturbances \in Nat
BY KeeperAssumption DEF Ids, Oldest

LEMMA ReplyType ==
    /\ Nothing \in Reply /\ Down \in Reply
    /\ \A v \in Nat : Ready(v) \in Reply
    /\ \A x \in Reply : Older(x) \in Reply /\ Older(x).kind = x.kind
                        /\ Older(x).version = x.version
BY IdsAre DEF Nothing, Down, Ready, Reply, Count, Older

LEMMA AnsweredType == \A c \in Connections : Answered(c) \in Reader
BY IdsAre, ReplyType DEF Answered, Reader, Count

LEMMA AnswerType ==
    ASSUME TypeInv, NEW r \in Readers, NEW reply \in Reply, reader' = Answer(r, reply)
    PROVE  /\ reader' \in [Readers -> Reader]
           /\ reader'[r].pc = "done"
           /\ \A q \in Readers \ {r} : reader'[q] = reader[q]
<1>1. Blank \in Connections /\ reader[r] \in Reader /\ reader[r].connection \in Connections
    BY DEF TypeInv, TypeOK, Reader, Connections
<1>2. Answered(Blank) \in Reader /\ Answered(reader[r].connection) \in Reader
    BY <1>1, AnsweredType
<1>3. [Answered(reader[r].connection) EXCEPT
          !.force = reader[r].force, !.reply = reply,
          !.age = reader[r].age, !.floor = reader[r].floor] \in Reader
    BY <1>1, <1>2 DEF Reader
<1> QED
    BY <1>2, <1>3 DEF Answer, Answered, TypeInv, TypeOK

\* What the choice of a service leaves as it was, and what it brings.
LEMMA PlaceFacts ==
    ASSUME TypeInv, NEW c \in Connections, Place(c)
    PROVE  /\ services' \in [Ids -> Service]
           /\ installed' \in Ids \cup {0} /\ installed' >= installed
           /\ current' \in 0..installed'
           /\ c # Blank => current' # 0 /\ services'[current'].connection = c
           /\ \A i \in 1..installed : services'[i] = services[i]
           /\ current' = current \/ current' \notin 1..installed
           /\ current' # current => current' = 0
                                    \/ (services'[current'] = NewService(c) /\ ~Fits(c))
<1>1. installed \in Nat /\ current \in Nat /\ 1..installed \subseteq Ids
    BY IdsAre DEF TypeInv, TypeOK
<1>2. CASE c = Blank /\ current' = 0 /\ UNCHANGED <<services, installed>>
    BY <1>1, <1>2 DEF TypeInv, TypeOK
<1>3. CASE c # Blank /\ Fits(c) /\ UNCHANGED <<current, services, installed>>
    BY <1>1, <1>3 DEF TypeInv, TypeOK, Fits
<1>4. CASE /\ c # Blank /\ ~Fits(c)
           /\ installed + 1 \in Ids
           /\ installed' = installed + 1
           /\ current' = installed'
           /\ services' = [services EXCEPT ![installed'] = NewService(c)]
    <2>1. NewService(c) \in Service /\ NewService(c).connection = c
        BY IdsAre, ReplyType DEF NewService, Service
    <2>2. services \in [Ids -> Service]
        BY DEF TypeInv, TypeOK
    <2>3. services' \in [Ids -> Service] /\ services'[installed'] = NewService(c)
        BY <1>4, <2>1, <2>2
    <2>4. \A i \in 1..installed : services'[i] = services[i]
        BY <1>1, <1>4, <2>2
    <2> QED
        BY <1>1, <1>4, <2>1, <2>3, <2>4
<1> QED
    BY <1>2, <1>3, <1>4 DEF Place

LEMMA TypeInit == Init => TypeInv
<1> SUFFICES ASSUME Init PROVE TypeInv
    OBVIOUS
<1>1. /\ Blank \in Connections /\ \A k \in Keepers : k \in Connections
      /\ 0 \in Ids \cup {0} /\ MaxDisturbances \in 0..MaxDisturbances
    BY IdsAre DEF Connections
<1>2. NewService(Blank) \in Service /\ Answered(Blank) \in Reader /\ IdleRename \in Rename
    BY <1>1, IdsAre, ReplyType, AnsweredType DEF NewService, Service, IdleRename, Rename
<1>3. TypeOK
    BY <1>1, <1>2 DEF Init, TypeOK, Count, Answered, IdleRename
<1>4. \A r \in Readers : Bound(r)
    BY DEF Init, Bound, Answered, Serving
<1> QED
    BY <1>3, <1>4 DEF Init, TypeInv

LEMMA DisturbType ==
    ASSUME TypeInv, NEW kind, Disturb(kind) \/ Calm
    PROVE  budget' \in 0..MaxDisturbances
BY IdsAre DEF TypeInv, TypeOK, Disturb, Calm

\* A step of one request that leaves the services and their choice alone.
LEMMA ReaderStepType ==
    ASSUME TypeInv, NEW r \in Readers,
           reader' \in [Readers -> Reader],
           \A q \in Readers \ {r} : reader'[q] = reader[q],
           Bound(r)',
           UNCHANGED <<readerOnly, serviceVars>>,
           budget' \in 0..MaxDisturbances
    PROVE  TypeInv'
<1>1. \A q \in Readers : Bound(q)'
    BY DEF TypeInv, Bound, serviceVars
<1>2. \A q \in Readers : reader'[q].pc \in Serving => reader'[q].id \in Ids
    BY <1>1, IdsAre DEF Bound, TypeInv, TypeOK, serviceVars
<1> QED
    BY <1>1, <1>2 DEF TypeInv, TypeOK, readerOnly, serviceVars, Serving

LEMMA TypeRequest == ASSUME TypeInv, NEW r \in Readers, Request(r) PROVE TypeInv'
<1> PICK force \in BOOLEAN :
      reader' = [reader EXCEPT ![r] =
                   [Answered(loaded) EXCEPT
                      !.pc = "select", !.force = force,
                      !.floor = IF loaded \in Keepers THEN acked[loaded] ELSE 0]]
    BY DEF Request
<1> DEFINE new == [Answered(loaded) EXCEPT
                      !.pc = "select", !.force = force,
                      !.floor = IF loaded \in Keepers THEN acked[loaded] ELSE 0]
<1>1. new \in Reader /\ new.pc = "select"
    <2>1. Answered(loaded) \in Reader
        BY AnsweredType DEF TypeInv, TypeOK
    <2>2. (IF loaded \in Keepers THEN acked[loaded] ELSE 0) \in Count
        BY DEF TypeInv, TypeOK, Count
    <2> QED
        BY <2>1, <2>2 DEF Reader, Answered
<1> HIDE DEF new
<1>2. reader' = [reader EXCEPT ![r] = new]
    BY DEF new
<1> QED
    BY <1>1, <1>2, ReaderStepType DEF Request, TypeInv, TypeOK, Bound, Serving, readerOnly,
       serviceVars

LEMMA TypeSelect == ASSUME TypeInv, NEW r \in Readers, Select(r) PROVE TypeInv'
<1>1. CASE reader' = Answer(r, Down)
    BY <1>1, ReplyType, AnswerType, ReaderStepType DEF Select, TypeInv, TypeOK, Bound,
       Serving, readerOnly, serviceVars
<1>2. CASE reader' = [reader EXCEPT ![r].pc = "install"]
    BY <1>2, ReaderStepType DEF Select, TypeInv, TypeOK, Reader, Bound, Serving, readerOnly,
       serviceVars
<1> QED
    BY <1>1, <1>2 DEF Select

LEMMA TypeInstall == ASSUME TypeInv, NEW r \in Readers, Install(r) PROVE TypeInv'
<1> DEFINE c == reader[r].connection
<1>1. c \in Connections /\ reader[r] \in Reader
    BY DEF TypeInv, TypeOK, Reader
<1>2. /\ services' \in [Ids -> Service]
      /\ installed' \in Ids \cup {0} /\ installed' >= installed
      /\ current' \in 0..installed'
      /\ c # Blank => current' # 0 /\ services'[current'].connection = c
      /\ \A i \in 1..installed : services'[i] = services[i]
    BY <1>1, PlaceFacts DEF Install
<1>3. installed \in Nat /\ installed' \in Nat /\ current' \in Ids \cup {0}
    <2>1. installed \in Ids \cup {0}
        BY DEF TypeInv, TypeOK
    <2>2. installed \in Nat /\ installed' \in Nat /\ 1..installed' \subseteq Ids
        BY <2>1, <1>2, IdsAre
    <2>3. current' = 0 \/ current' \in 1..installed'
        BY <1>2, <2>2
    <2> QED
        BY <2>2, <2>3
<1>4. /\ reader' \in [Readers -> Reader]
      /\ \A q \in Readers \ {r} : reader'[q] = reader[q]
      /\ reader'[r].pc \in Serving =>
            /\ c # Blank /\ reader'[r].connection = c
            /\ reader'[r].id = current' /\ reader'[r].pc \notin Reading
    <2>1. CASE c = Blank
        BY <2>1, ReplyType, AnswerType DEF Install, Serving
    <2>2. CASE c # Blank
        BY <2>2, <1>1, <1>3 DEF Install, TypeInv, TypeOK, Reader, Reading
    <2> QED
        BY <2>1, <2>2
<1> HIDE DEF c
<1>5. ASSUME NEW q \in Readers PROVE Bound(q)'
    <2>1. CASE q = r
        BY <2>1, <1>2, <1>3, <1>4 DEF Bound
    <2>2. CASE q # r
        BY <2>2, <1>2, <1>3, <1>4 DEF Bound, TypeInv
    <2> QED
        BY <2>1, <2>2
<1>6. \A q \in Readers : reader'[q].pc \in Serving => reader'[q].id \in Ids
    BY <1>2, <1>3, <1>5, IdsAre DEF Bound
<1> QED
    BY <1>2, <1>3, <1>4, <1>5, <1>6 DEF TypeInv, TypeOK, Install, readerOnly, Serving

\* A step that moves requests and writes into services already installed.
LEMMA ServiceStepType ==
    ASSUME TypeInv,
           reader' \in [Readers -> Reader],
           services' \in [Ids -> Service],
           \A i \in Ids : services'[i].connection = services[i].connection,
           \A q \in Readers :
              \/ reader'[q].pc \notin Serving
              \/ /\ reader'[q].id = reader[q].id
                 /\ reader'[q].connection = reader[q].connection
                 /\ reader[q].pc \in Serving
                 /\ reader'[q].pc \in Reading => reader[q].connection \in Keepers,
           UNCHANGED <<current, installed, loaded, host>>
    PROVE  /\ \A r \in Readers : Bound(r)'
           /\ \A r \in Readers : reader'[r].pc \in Serving => reader'[r].id \in Ids
           /\ current' \in 0..installed' /\ current' \in Ids \cup {0}
           /\ installed' \in Ids \cup {0} /\ loaded' \in Connections
           /\ host' \in {"idle", "reset"}
<1>1. installed \in Nat /\ 1..installed \subseteq Ids
    BY IdsAre DEF TypeInv, TypeOK
<1>2. \A r \in Readers : Bound(r)'
    BY <1>1 DEF TypeInv, Bound
<1> QED
    BY <1>1, <1>2 DEF TypeInv, TypeOK, Bound

LEMMA TypeGet == ASSUME TypeInv, NEW r \in Readers, Get(r) PROVE TypeInv'
<1> DEFINE s == ServiceOf(r)
<1>1. /\ reader[r] \in Reader /\ reader[r].pc = "get" /\ reader[r].id \in Ids
      /\ s \in Service /\ s.connection = reader[r].connection
      /\ reader[r].connection # Blank /\ reader[r].connection \in Connections
    <2>1. Bound(r) /\ reader[r].pc = "get" /\ reader[r] \in Reader
        BY DEF Get, GetWith, TypeInv, TypeOK
    <2>2. reader[r].id \in Ids
        BY <2>1 DEF TypeInv, TypeOK
    <2> QED
        BY <2>1, <2>2 DEF Bound, Serving, TypeInv, TypeOK, ServiceOf, Reader
<1>2. s.cached \in Reply /\ s.generation \in Nat
    BY <1>1 DEF Service
<1>3. s.connection # Broken => reader[r].connection \in Keepers
    BY <1>1 DEF Connections
<1>4. CASE reader' = Answer(r, Down) /\ UNCHANGED services
    BY <1>4, ReplyType, AnswerType, ReaderStepType DEF Get, GetWith, TypeInv, TypeOK, Bound,
       Serving, readerOnly, serviceVars
<1>5. CASE /\ s.connection # Broken
           /\ reader' = [reader EXCEPT ![r] = [@ EXCEPT !.pc = "check", !.reply = s.cached]]
           /\ UNCHANGED services
    <2>1. reader' \in [Readers -> Reader]
        BY <1>1, <1>2, <1>5 DEF TypeInv, TypeOK, Reader
    <2>2. /\ reader'[r].pc = "check" /\ reader'[r].id = reader[r].id
          /\ reader'[r].connection = reader[r].connection
          /\ \A q \in Readers \ {r} : reader'[q] = reader[q]
        BY <1>1, <1>5 DEF TypeInv, TypeOK, Reader
    <2>3. UNCHANGED <<readerOnly, serviceVars>> /\ budget' \in 0..MaxDisturbances
        BY <1>5 DEF Get, GetWith, TypeInv, TypeOK, serviceVars
    <2>4. reader[r].id \in 1..installed /\ reader[r].connection = services[reader[r].id].connection
          /\ reader[r].connection \in Keepers
        BY <1>1, <1>3, <1>5 DEF ServiceOf, TypeInv, Bound, Serving
    <2>5. Bound(r)'
        BY <1>1, <2>2, <2>3, <2>4 DEF Bound, Serving, serviceVars
    <2> QED
        BY <2>1, <2>2, <2>3, <2>5, ReaderStepType
<1>6. CASE /\ s.connection # Broken
           /\ reader' = [reader EXCEPT ![r].pc = "wait"]
           /\ UNCHANGED services
    <2>1. reader' \in [Readers -> Reader]
        BY <1>1, <1>6 DEF TypeInv, TypeOK, Reader
    <2>2. /\ reader'[r].pc = "wait" /\ reader'[r].id = reader[r].id
          /\ reader'[r].connection = reader[r].connection
          /\ \A q \in Readers \ {r} : reader'[q] = reader[q]
        BY <1>1, <1>6 DEF TypeInv, TypeOK, Reader
    <2>3. UNCHANGED <<readerOnly, serviceVars>> /\ budget' \in 0..MaxDisturbances
        BY <1>6 DEF Get, GetWith, TypeInv, TypeOK, serviceVars
    <2>4. reader[r].id \in 1..installed /\ reader[r].connection = services[reader[r].id].connection
          /\ reader[r].connection \in Keepers
        BY <1>1, <1>3, <1>6 DEF ServiceOf, TypeInv, Bound, Serving
    <2>5. Bound(r)'
        BY <1>1, <2>2, <2>3, <2>4 DEF Bound, Serving, serviceVars
    <2> QED
        BY <2>1, <2>2, <2>3, <2>5, ReaderStepType
<1>7. CASE /\ s.connection # Broken
           /\ reader' = [reader EXCEPT ![r] = [@ EXCEPT !.pc = "fetch",
                                                       !.generation = s.generation]]
           /\ services' = [services EXCEPT ![reader[r].id].flight = r]
    <2>1. reader' \in [Readers -> Reader]
        BY <1>1, <1>2, <1>7 DEF TypeInv, TypeOK, Reader
    <2>2. services' \in [Ids -> Service] /\
          \A i \in Ids : services'[i].connection = services[i].connection
        BY <1>1, <1>7 DEF TypeInv, TypeOK, Service
    <2>3. UNCHANGED <<readerOnly, current, installed, budget>>
        BY DEF Get, GetWith
    <2>4. \A q \in Readers :
             \/ reader'[q].pc \notin Serving
             \/ /\ reader'[q].id = reader[q].id
                /\ reader'[q].connection = reader[q].connection
                /\ reader[q].pc \in Serving
                /\ reader'[q].pc \in Reading => reader[q].connection \in Keepers
        <3> SUFFICES ASSUME NEW q \in Readers
                     PROVE  \/ reader'[q].pc \notin Serving
                            \/ /\ reader'[q].id = reader[q].id
                               /\ reader'[q].connection = reader[q].connection
                               /\ reader[q].pc \in Serving
                               /\ reader'[q].pc \in Reading => reader[q].connection \in Keepers
            OBVIOUS
        <3>1. CASE q = r
            BY <3>1, <1>1, <1>3, <1>7 DEF TypeInv, TypeOK, Reader, Serving
        <3>2. CASE q # r
            BY <3>2, <1>7 DEF TypeInv, TypeOK, Bound, Serving, Reading
        <3> QED
            BY <3>1, <3>2
    <2> QED
        BY <2>1, <2>2, <2>3, <2>4, ServiceStepType DEF TypeInv, TypeOK, readerOnly, Serving
<1> QED
    BY <1>4, <1>5, <1>6, <1>7 DEF Get, GetWith

LEMMA TypeFetch == ASSUME TypeInv, NEW r \in Readers, Fetch(r) PROVE TypeInv'
<1> PICK result \in {"ok", "failed", "refused"} :
      /\ reader' = [reader EXCEPT ![r] =
                      [@ EXCEPT !.pc = "land", !.result = result,
                                !.reply = IF result = "ok"
                                          THEN Ready(names[reader[r].connection])
                                          ELSE Down]]
      /\ IF result = "ok" THEN Calm ELSE Disturb(result)
    BY DEF Fetch
<1>1. /\ reader[r] \in Reader /\ reader[r].pc = "fetch" /\ Bound(r)
      /\ reader[r].connection \in Keepers
    BY DEF Fetch, TypeInv, TypeOK, Bound, Serving, Reading
<1> DEFINE reply == IF result = "ok" THEN Ready(names[reader[r].connection]) ELSE Down
<1>2. reply \in Reply
    BY <1>1, ReplyType DEF TypeInv, TypeOK, Count
<1> HIDE DEF reply
<1>3. reader' = [reader EXCEPT ![r] = [@ EXCEPT !.pc = "land", !.result = result,
                                               !.reply = reply]]
    BY DEF reply
<1>4. reader' \in [Readers -> Reader]
    <2>1. [reader[r] EXCEPT !.pc = "land", !.result = result, !.reply = reply] \in Reader
        BY <1>1, <1>2 DEF Reader
    <2>2. reader \in [Readers -> Reader]
        BY DEF TypeInv, TypeOK
    <2> QED
        BY <2>1, <2>2, <1>3
<1>5. budget' \in 0..MaxDisturbances
    BY DisturbType
<1>6. /\ reader'[r].pc = "land" /\ reader'[r].id = reader[r].id
      /\ reader'[r].connection = reader[r].connection
      /\ \A q \in Readers \ {r} : reader'[q] = reader[q]
    BY <1>1, <1>3 DEF TypeInv, TypeOK, Reader
<1>7. UNCHANGED <<readerOnly, serviceVars>>
    BY DEF Fetch
<1>8. Bound(r)'
    BY <1>1, <1>6, <1>7 DEF Bound, Serving, serviceVars
<1> QED
    BY <1>4, <1>5, <1>6, <1>7, <1>8, ReaderStepType

LEMMA TypeLand == ASSUME TypeInv, NEW r \in Readers, Land(r) PROVE TypeInv'
<1> DEFINE i == reader[r].id
           s == ServiceOf(r)
<1>1. /\ reader[r] \in Reader /\ reader[r].pc = "land" /\ i \in Ids /\ s = services[i]
      /\ s \in Service /\ s.cached \in Reply /\ reader[r].reply \in Reply
      /\ reader[r].connection \in Keepers
    <2>1. reader[r] \in Reader /\ reader[r].pc = "land" /\ Bound(r)
        BY DEF Land, TypeInv, TypeOK
    <2>2. i \in Ids
        BY <2>1 DEF TypeInv, TypeOK
    <2> QED
        BY <2>1, <2>2 DEF TypeInv, TypeOK, ServiceOf, Service, Reader, Bound, Serving, Reading
<1>2. PICK reply \in Reply : Deliver(i, r, reply)
    BY <1>1 DEF Land
<1>3. /\ services' \in [Ids -> Service]
      /\ \A j \in Ids : services'[j].connection = services[j].connection
    <2>1. CASE services' = [services EXCEPT ![i].flight = None]
        BY <2>1, <1>1 DEF TypeInv, TypeOK, Service
    <2>2. CASE services' = [services EXCEPT ![i] = Landed(@, r)]
        <3>1. Landed(s, r) \in Service /\ Landed(s, r).connection = s.connection
            <4> DEFINE valid == IF reader[r].result = "ok" THEN CacheFor ELSE 0
                       again == IF reader[r].result = "refused" THEN Cooldown ELSE 0
            <4>1. valid \in 0..CacheFor /\ again \in 0..Cooldown
                BY IdsAre
            <4> HIDE DEF valid, again
            <4>2. [s EXCEPT !.cached = reader[r].reply, !.flight = None, !.validFor = valid,
                            !.retryAfter = again] \in Service
                BY <1>1, <4>1 DEF Service
            <4> QED
                BY <1>1, <4>2 DEF Landed, valid, again, Service
        <3>2. services' = [services EXCEPT ![i] = Landed(s, r)] /\ services \in [Ids -> Service]
            BY <2>2, <1>1 DEF TypeInv, TypeOK
        <3> QED
            BY <3>1, <3>2, <1>1
    <2> QED
        BY <2>1, <2>2 DEF Land
<1> HIDE DEF i, s
<1>4. ASSUME NEW q \in Readers
      PROVE  /\ reader'[q] \in Reader
             /\ \/ reader'[q] = reader[q]
                \/ /\ reader'[q].pc = "check" /\ reader[q].pc \in Reading
                   /\ reader'[q].id = reader[q].id
                   /\ reader'[q].connection = reader[q].connection
    <2>1. CASE q = r \/ (reader[q].pc = "wait" /\ reader[q].id = i)
        <3>1. reader[q] \in Reader /\ reader[q].pc \in Reading
            BY <2>1, <1>1 DEF TypeInv, TypeOK, Reading
        <3>2. reader'[q] = [reader[q] EXCEPT !.pc = "check", !.generation = 0,
                                             !.result = "failed", !.reply = reply]
            BY <2>1, <1>2 DEF Deliver
        <3>3. [reader[q] EXCEPT !.pc = "check", !.generation = 0,
                                !.result = "failed", !.reply = reply] \in Reader
            BY <3>1 DEF Reader
        <3> QED
            BY <3>1, <3>2, <3>3 DEF Reader
    <2>2. CASE ~(q = r \/ (reader[q].pc = "wait" /\ reader[q].id = i))
        BY <2>2, <1>2 DEF Deliver, TypeInv, TypeOK
    <2> QED
        BY <2>1, <2>2
<1>5. reader' \in [Readers -> Reader]
    BY <1>2, <1>4 DEF Deliver
<1>6. ASSUME NEW q \in Readers
      PROVE  \/ reader'[q].pc \notin Serving
             \/ /\ reader'[q].id = reader[q].id
                /\ reader'[q].connection = reader[q].connection
                /\ reader[q].pc \in Serving
                /\ reader'[q].pc \in Reading => reader[q].connection \in Keepers
    BY <1>4 DEF TypeInv, Bound, Serving, Reading
<1>7. UNCHANGED <<readerOnly, current, installed, budget>>
    BY DEF Land
<1> QED
    BY <1>3, <1>5, <1>6, <1>7, ServiceStepType DEF TypeInv, TypeOK, readerOnly, Serving

LEMMA TypeEnd ==
    ASSUME TypeInv, NEW r \in Readers, GiveUp(r) \/ Check(r) PROVE TypeInv'
<1>1. PICK reply \in Reply : reader' = Answer(r, reply)
    <2>1. reader[r].reply \in Reply
        BY DEF TypeInv, TypeOK, Reader
    <2> QED
        BY <2>1, ReplyType DEF GiveUp, Check
<1> QED
    BY <1>1, AnswerType, ReaderStepType DEF GiveUp, Check, TypeInv, TypeOK, Bound, Serving,
       readerOnly, serviceVars

LEMMA RenameType ==
    IdleRename \in Rename /\ IdleRename.pc = "idle"
BY IdsAre, ReplyType DEF IdleRename, Rename, Connections

LEMMA TypeRenameBegin == ASSUME TypeInv, RenameBegin PROVE TypeInv'
<1>1. rename' \in Rename /\ rename'.pc = "install"
    BY RenameType DEF RenameBegin, TypeInv, TypeOK, Rename
<1>2. budget' \in 0..MaxDisturbances
    BY DisturbType DEF RenameBegin
<1> QED
    BY <1>1, <1>2 DEF RenameBegin, TypeInv, TypeOK, Bound, renameOnly, serviceVars

LEMMA TypeRenameInstall == ASSUME TypeInv, RenameInstall PROVE TypeInv'
<1> DEFINE c == rename.connection
<1>1. c \in Connections
    BY DEF TypeInv, TypeOK, Rename
<1>2. /\ services' \in [Ids -> Service]
      /\ installed' \in Ids \cup {0} /\ installed' >= installed
      /\ current' \in 0..installed'
      /\ c # Blank => current' # 0
      /\ \A i \in 1..installed : services'[i] = services[i]
    BY <1>1, PlaceFacts DEF RenameInstall
<1>3. installed \in Nat /\ installed' \in Nat /\ current' \in Ids \cup {0}
    <2>1. installed \in Ids \cup {0}
        BY DEF TypeInv, TypeOK
    <2>2. installed \in Nat /\ installed' \in Nat /\ 1..installed' \subseteq Ids
        BY <2>1, <1>2, IdsAre
    <2>3. current' = 0 \/ current' \in 1..installed'
        BY <1>2, <2>2
    <2> QED
        BY <2>2, <2>3
<1>4. /\ rename' \in Rename
      /\ rename'.pc \in {"list", "patch", "publish"} =>
            rename'.connection \in Keepers /\ rename'.id \in Ids
    <2>1. CASE c \in Keepers
        <3>1. c # Blank
            BY <2>1, KeeperAssumption
        <3>2. rename' = [rename EXCEPT !.pc = "list", !.id = current']
            BY <2>1 DEF RenameInstall
        <3> QED
            BY <2>1, <3>1, <3>2, <1>2, <1>3 DEF TypeInv, TypeOK, Rename
    <2>2. CASE c \notin Keepers
        BY <2>2, RenameType DEF RenameInstall
    <2> QED
        BY <2>1, <2>2
<1> HIDE DEF c
<1>5. ASSUME NEW q \in Readers PROVE Bound(q)'
    BY <1>2, <1>3 DEF Bound, TypeInv, RenameInstall, renameOnly
<1> QED
    BY <1>2, <1>3, <1>4, <1>5 DEF TypeInv, TypeOK, RenameInstall, renameOnly

LEMMA TypeRenameList == ASSUME TypeInv, RenameList PROVE TypeInv'
<1>1. rename \in Rename /\ rename.connection \in Keepers /\ rename.id \in Ids
    BY DEF RenameList, TypeInv, TypeOK
<1>2. Ready(names[rename.connection]) \in Reply
    BY <1>1, ReplyType DEF TypeInv, TypeOK, Count
<1>3. /\ rename' \in Rename
      /\ rename'.pc \in {"list", "patch", "publish"} =>
            rename'.connection \in Keepers /\ rename'.id \in Ids
    BY <1>1, <1>2, RenameType DEF RenameList, Rename
<1>4. budget' \in 0..MaxDisturbances
    BY DisturbType DEF RenameList
<1> QED
    BY <1>3, <1>4 DEF RenameList, TypeInv, TypeOK, Bound, renameOnly, serviceVars

LEMMA TypeRenamePatch == ASSUME TypeInv, RenamePatch PROVE TypeInv'
<1>1. /\ rename \in Rename /\ rename.connection \in Keepers /\ rename.id \in Ids
      /\ rename.reply \in Reply
    BY DEF RenamePatch, TypeInv, TypeOK, Rename
<1>2. PICK done \in BOOLEAN, told \in BOOLEAN :
        LET own == names[rename.connection] + 1
        IN  /\ names' = IF done THEN [names EXCEPT ![rename.connection] = own] ELSE names
            /\ rename' = [rename EXCEPT !.pc = "publish",
                                        !.reply = IF done /\ told
                                                  THEN [@ EXCEPT !.version = own]
                                                  ELSE Down]
            /\ IF done /\ told THEN Calm ELSE Disturb("failed")
    BY DEF RenamePatch
<1> DEFINE own == names[rename.connection] + 1
           reply == IF done /\ told THEN [rename.reply EXCEPT !.version = own] ELSE Down
<1>3. names \in [Keepers -> Nat] /\ own \in Nat
    BY <1>1 DEF TypeInv, TypeOK, Count
<1>4. reply \in Reply
    BY <1>1, <1>3, ReplyType DEF Reply, Count
<1>5. rename' = [rename EXCEPT !.pc = "publish", !.reply = reply]
    BY <1>2
<1>6. names' = names \/ names' = [names EXCEPT ![rename.connection] = own]
    BY <1>2
<1> HIDE DEF reply, own
<1>7. names' \in [Keepers -> Count]
    BY <1>1, <1>3, <1>6 DEF Count
<1>8. rename' \in Rename /\ rename'.connection \in Keepers /\ rename'.id \in Ids
    BY <1>1, <1>4, <1>5 DEF Rename
<1>9. budget' \in 0..MaxDisturbances
    BY <1>2, DisturbType
<1> QED
    BY <1>7, <1>8, <1>9 DEF RenamePatch, TypeInv, TypeOK, Bound, renameOnly, serviceVars

LEMMA TypeRenamePublish == ASSUME TypeInv, RenamePublish PROVE TypeInv'
<1>1. /\ rename \in Rename /\ rename.connection \in Keepers /\ rename.id \in Ids
      /\ rename.reply \in Reply /\ rename.reply.version \in Count
    BY DEF RenamePublish, TypeInv, TypeOK, Rename, Reply
<1>2. services' \in [Ids -> Service] /\
      \A i \in Ids : services'[i].connection = services[i].connection
    <2> DEFINE s == services[rename.id]
               valid == IF rename.reply.kind = "ready" THEN CacheFor ELSE 0
    <2>1. s \in Service /\ services \in [Ids -> Service]
        BY <1>1 DEF TypeInv, TypeOK
    <2>2. s.generation + 1 \in Nat /\ 0 \in 0..Cooldown /\ valid \in 0..CacheFor
        BY <2>1, IdsAre DEF Service
    <2>3. Published(s) = [s EXCEPT !.generation = s.generation + 1, !.retryAfter = 0,
                                   !.cached = rename.reply, !.validFor = valid]
        BY DEF Published
    <2> HIDE DEF valid
    <2>4. Published(s) \in Service /\ Published(s).connection = s.connection
        BY <1>1, <2>1, <2>2, <2>3 DEF Service
    <2> QED
        BY <1>1, <2>1, <2>4 DEF RenamePublish
<1>3. acked' \in [Keepers -> Count]
    BY <1>1 DEF RenamePublish, TypeInv, TypeOK
<1>4. \A q \in Readers : Bound(q)'
    <2>1. installed \in Nat /\ 1..installed \subseteq Ids
        BY IdsAre DEF TypeInv, TypeOK
    <2> QED
        BY <1>2, <2>1 DEF Bound, TypeInv, RenamePublish, renameOnly
<1> QED
    BY <1>2, <1>3, <1>4, RenameType DEF RenamePublish, TypeInv, TypeOK, renameOnly

LEMMA TypeHost ==
    ASSUME TypeInv, (\E c \in Connections : Reconfigure(c)) \/ Reset PROVE TypeInv'
<1>1. CASE \E c \in Connections : Reconfigure(c)
    <2>1. budget' \in 0..MaxDisturbances
        BY <1>1, DisturbType DEF Reconfigure
    <2> QED
        BY <1>1, <2>1 DEF Reconfigure, TypeInv, TypeOK, Bound, serviceVars
<1>2. CASE Reset
    <2>1. installed \in Nat
        BY IdsAre DEF TypeInv, TypeOK
    <2> QED
        BY <1>2, <2>1 DEF Reset, TypeInv, TypeOK, Bound
<1> QED
    BY <1>1, <1>2

LEMMA TypeTick == ASSUME TypeInv, Tick PROVE TypeInv'
<1>1. /\ services' \in [Ids -> Service]
      /\ \A i \in Ids : services'[i].connection = services[i].connection
    <2>1. ASSUME NEW s \in Service
          PROVE  /\ [s EXCEPT !.cached = Older(@), !.validFor = Less(@),
                              !.retryAfter = Less(@)] \in Service
                 /\ [s EXCEPT !.cached = Older(@), !.validFor = Less(@),
                              !.retryAfter = Less(@)].connection = s.connection
        <3>1. /\ Older(s.cached) \in Reply /\ Less(s.validFor) \in 0..CacheFor
              /\ Less(s.retryAfter) \in 0..Cooldown
            BY ReplyType, IdsAre DEF Service, Less
        <3> QED
            BY <3>1 DEF Service
    <2> QED
        BY <2>1 DEF Tick, TypeInv, TypeOK
<1>2. /\ reader' \in [Readers -> Reader]
      /\ \A r \in Readers : /\ reader'[r].pc = reader[r].pc
                            /\ reader'[r].id = reader[r].id
                            /\ reader'[r].connection = reader[r].connection
    <2>1. ASSUME NEW r \in Readers, reader[r].pc # "done"
          PROVE  LET new == [reader[r] EXCEPT !.age = @ + 1, !.reply = Older(@)] IN
                 /\ new \in Reader /\ new.pc = reader[r].pc /\ new.id = reader[r].id
                 /\ new.connection = reader[r].connection
        <3>1. reader[r] \in Reader /\ reader[r].age < Deadline
            BY <2>1 DEF Tick, TypeInv, TypeOK
        <3>2. Older(reader[r].reply) \in Reply /\ reader[r].age + 1 \in 0..Deadline
            BY <3>1, ReplyType, IdsAre DEF Reader
        <3> QED
            BY <3>1, <3>2 DEF Reader
    <2> QED
        BY <2>1 DEF Tick, TypeInv, TypeOK
<1>3. /\ rename' \in Rename /\ rename'.pc = rename.pc
      /\ rename'.connection = rename.connection /\ rename'.id = rename.id
    <2>1. CASE rename.pc = "idle"
        BY <2>1 DEF Tick, TypeInv, TypeOK
    <2>2. CASE rename.pc # "idle"
        <3>1. rename \in Rename /\ rename.age < Deadline
            BY <2>2 DEF Tick, TypeInv, TypeOK
        <3>2. Older(rename.reply) \in Reply /\ rename.age + 1 \in 0..Deadline
            BY <3>1, ReplyType, IdsAre DEF Rename
        <3> QED
            BY <2>2, <3>1, <3>2 DEF Tick, Rename
    <2> QED
        BY <2>1, <2>2
<1>4. \A r \in Readers : Bound(r)'
    <2>1. installed \in Nat /\ 1..installed \subseteq Ids
        BY IdsAre DEF TypeInv, TypeOK
    <2>2. installed' = installed
        BY DEF Tick
    <2> QED
        BY <1>1, <1>2, <2>1, <2>2 DEF TypeInv, Bound
<1> QED
    BY <1>1, <1>2, <1>3, <1>4 DEF Tick, TypeInv, TypeOK

LEMMA TypeStep == TypeInv /\ [Next]_vars => TypeInv'
<1> SUFFICES ASSUME TypeInv, [Next]_vars PROVE TypeInv'
    OBVIOUS
<1>1. CASE UNCHANGED vars
    BY <1>1 DEF vars, TypeInv, TypeOK, Bound
<1>2. CASE Next
    BY <1>2, TypeTick, TypeRequest, TypeSelect, TypeInstall, TypeGet, TypeFetch, TypeLand,
       TypeEnd, TypeRenameBegin, TypeRenameInstall, TypeRenameList, TypeRenamePatch,
       TypeRenamePublish, TypeHost DEF Next
<1> QED
    BY <1>1, <1>2

\* Type correctness (TypeOK), for any number of requests, connections and faults.
THEOREM TypeCorrect == Spec => []TypeOK
<1>1. TypeInv => TypeOK
    BY DEF TypeInv
<1> QED
    BY <1>1, TypeInit, TypeStep, PTL DEF Spec

-----------------------------------------------------------------------------
(* The strengthening.  A request carries its floor, the renames that were  *)
(* acknowledged when it came; it is in reach of an acknowledged rename as  *)
(* long as its service is the installed one, and then either its reading   *)
(* is of the present generation or what it will be told is the cache.      *)

Usable(r) == reader[r].id = current /\ reader[r].reply.kind = "ready"

ReaderInv(r) ==
    /\ reader[r].pc = "install" /\ ~ConfigLocked => reader[r].connection = loaded
    /\ reader[r].pc # "done" /\ reader[r].connection \in Keepers =>
         reader[r].floor <= acked[reader[r].connection]
    /\ reader[r].pc \in {"fetch", "land"} => reader[r].generation <= ServiceOf(r).generation
    /\ reader[r].pc = "land" /\ Usable(r)
         /\ reader[r].generation = ServiceOf(r).generation =>
         reader[r].reply.version >= acked[reader[r].connection]
    /\ reader[r].pc = "check" /\ Usable(r) => reader[r].reply.version >= reader[r].floor
    /\ Told(r) => reader[r].reply.version >= reader[r].floor

ServiceInv ==
    current # 0 =>
        /\ ~ConfigLocked => services[current].connection = loaded
        /\ services[current].connection \in Keepers
             /\ services[current].cached.kind = "ready" =>
             services[current].cached.version >= acked[services[current].connection]

RenameInv ==
    /\ rename.pc # "idle" => ~ConfigLocked /\ rename.connection = loaded
    /\ rename.pc \in {"list", "patch", "publish"} => rename.id = current
    /\ rename.pc = "publish" /\ rename.reply.kind = "ready" =>
         rename.reply.version = names[rename.connection]
    /\ \A k \in Keepers : acked[k] <= names[k]

Inv == /\ TypeInv /\ ServiceInv /\ RenameInv
       /\ \A r \in Readers : ReaderInv(r)

LEMMA InvInit == Init => Inv
<1> SUFFICES ASSUME Init PROVE Inv
    OBVIOUS
<1>1. \A r \in Readers : ReaderInv(r)
    BY DEF Init, ReaderInv, Answered, Down, Told, Usable
<1> QED
    BY <1>1, TypeInit DEF Init, Inv, ServiceInv, RenameInv, IdleRename

\* The versions and generations are numbers.
LEMMA Numbers ==
    ASSUME TypeInv
    PROVE  /\ \A r \in Readers : /\ reader[r].floor \in Nat /\ reader[r].generation \in Nat
                                 /\ reader[r].reply \in Reply
                                 /\ reader[r].reply.version \in Nat
           /\ \A i \in Ids : /\ services[i].generation \in Nat
                             /\ services[i].cached \in Reply
                             /\ services[i].cached.version \in Nat
           /\ \A k \in Keepers : acked[k] \in Nat /\ names[k] \in Nat
           /\ rename.reply \in Reply /\ rename.reply.version \in Nat
           /\ installed \in Nat /\ 1..installed \subseteq Ids
<1>1. installed \in Nat /\ 1..installed \subseteq Ids
    BY IdsAre DEF TypeInv, TypeOK
<1>2. /\ \A r \in Readers : reader[r] \in Reader
      /\ \A i \in Ids : services[i] \in Service
      /\ rename \in Rename
    BY DEF TypeInv, TypeOK
<1> QED
    BY <1>1, <1>2 DEF TypeInv, TypeOK, Reader, Service, Rename, Reply, Count

\* A step of one request; of the services, only who is reading them may change.
LEMMA OneReader ==
    ASSUME Inv, TypeInv', NEW r \in Readers,
           \A q \in Readers \ {r} : reader'[q] = reader[q],
           \A i \in Ids : /\ services'[i].connection = services[i].connection
                          /\ services'[i].cached = services[i].cached
                          /\ services'[i].generation = services[i].generation,
           UNCHANGED <<readerOnly, current>>,
           ReaderInv(r)'
    PROVE  Inv'
<1>1. ASSUME NEW q \in Readers PROVE ReaderInv(q)'
    <2>1. CASE q = r
        BY <2>1
    <2>2. CASE q # r
        <3>1. reader'[q] = reader[q] /\ ReaderInv(q)
            BY <2>2 DEF Inv
        <3>2. reader[q].pc \in {"fetch", "land"} => reader[q].id \in Ids
            BY DEF Inv, TypeInv, TypeOK
        <3> QED
            BY <3>1, <3>2 DEF ReaderInv, readerOnly, ConfigLocked, Told, Usable, ServiceOf
    <2> QED
        BY <2>1, <2>2
<1>2. ServiceInv'
    BY DEF Inv, TypeInv, TypeOK, ServiceInv, readerOnly, ConfigLocked
<1> QED
    BY <1>1, <1>2 DEF Inv, RenameInv, readerOnly, ConfigLocked

\* Whoever is answered with a list has it from the installed service.
LEMMA InvAnswer ==
    ASSUME Inv, TypeInv', NEW r \in Readers, NEW reply \in Reply,
           reader' = Answer(r, reply),
           reply.kind = "ready" => reply.version >= reader[r].floor,
           UNCHANGED <<readerOnly, serviceVars>>
    PROVE  Inv'
<1>1. reader'[r].pc = "done" /\ \A q \in Readers \ {r} : reader'[q] = reader[q]
    BY AnswerType DEF Inv
<1>2. Told(r)' => reader'[r].reply = reply /\ reader'[r].floor = reader[r].floor
                  /\ reply.kind = "ready"
    BY DEF Inv, TypeInv, TypeOK, Answer, Answered, Told, Down, Reader
<1> QED
    BY <1>1, <1>2, OneReader DEF ReaderInv, serviceVars

LEMMA InvRequest ==
    ASSUME Inv, TypeInv', NEW r \in Readers, Request(r) PROVE Inv'
<1> PICK force \in BOOLEAN :
      reader' = [reader EXCEPT ![r] =
                   [Answered(loaded) EXCEPT
                      !.pc = "select", !.force = force,
                      !.floor = IF loaded \in Keepers THEN acked[loaded] ELSE 0]]
    BY DEF Request
<1>1. /\ reader'[r].pc = "select" /\ reader'[r].connection = loaded
      /\ loaded \in Keepers => reader'[r].floor = acked[loaded]
      /\ \A q \in Readers \ {r} : reader'[q] = reader[q]
    BY DEF Inv, TypeInv, TypeOK, Answered
<1>2. \A k \in Keepers : acked[k] \in Nat
    BY Numbers DEF Inv
<1> QED
    BY <1>1, <1>2, OneReader DEF Request, ReaderInv, Told, readerOnly, serviceVars

LEMMA InvSelect ==
    ASSUME Inv, TypeInv', NEW r \in Readers, Select(r) PROVE Inv'
<1>1. CASE reader' = Answer(r, Down)
    BY <1>1, ReplyType, InvAnswer DEF Select, Down
<1>2. CASE reader' = [reader EXCEPT ![r].pc = "install"] /\ reader[r].connection = loaded
    <2>1. /\ reader[r] \in Reader /\ reader[r].pc = "select" /\ ReaderInv(r)
          /\ reader'[r] = [reader[r] EXCEPT !.pc = "install"]
          /\ \A q \in Readers \ {r} : reader'[q] = reader[q]
        BY <1>2 DEF Select, Inv, TypeInv, TypeOK
    <2>2. ReaderInv(r)'
        BY <1>2, <2>1 DEF Select, ReaderInv, Told, Reader, readerOnly
    <2> QED
        BY <2>1, <2>2, OneReader DEF Select, serviceVars
<1> QED
    BY <1>1, <1>2 DEF Select

\* Choosing a service for the loaded connection keeps what is known of it.
LEMMA InvPlace ==
    ASSUME Inv, TypeInv', NEW c \in Connections, Place(c),
           ~ConfigLocked => c = loaded,
           UNCHANGED <<loaded, host, names, acked>>
    PROVE  /\ ServiceInv'
           /\ rename.pc \in {"list", "patch", "publish"} => current' = current
<1>1. /\ c # Blank => current' # 0 /\ services'[current'].connection = c
      /\ \A i \in 1..installed : services'[i] = services[i]
      /\ current' # current => current' = 0
                           \/ (services'[current'] = NewService(c) /\ ~Fits(c))
    BY PlaceFacts DEF Inv
<1>2. current \in 0..installed
    BY DEF Inv, TypeInv
<1>3. ServiceInv'
    <2>1. CASE current' = current
        <3> SUFFICES ASSUME current # 0 PROVE ServiceInv'
            BY <2>1 DEF ServiceInv
        <3>1. services'[current] = services[current]
            BY <1>1, <1>2
        <3> QED
            BY <2>1, <3>1 DEF Inv, ServiceInv, ConfigLocked
    <2>2. CASE current' # current /\ current' # 0
        BY <2>2, <1>1 DEF ServiceInv, NewService, Nothing, ConfigLocked
    <2>3. CASE current' = 0
        BY <2>3 DEF ServiceInv
    <2> QED
        BY <2>1, <2>2, <2>3
<1>4. ASSUME rename.pc \in {"list", "patch", "publish"} PROVE current' = current
    <2>1. /\ ~ConfigLocked /\ rename.connection = loaded /\ rename.id = current
          /\ loaded \in Keepers /\ rename.id \in Ids
        BY <1>4 DEF Inv, RenameInv, TypeInv, TypeOK
    <2>2. current # 0 /\ c = loaded /\ c # Blank
        BY <2>1, KeeperAssumption DEF Ids
    <2>3. Fits(c)
        BY <2>1, <2>2 DEF Inv, ServiceInv, Fits
    <2> QED
        BY <1>1, <2>2, <2>3
<1> QED
    BY <1>3, <1>4

\* What a request knows survives the choice of a service by somebody else.
LEMMA InvOthers ==
    ASSUME Inv, NEW c \in Connections, Place(c), NEW q \in Readers, reader'[q] = reader[q],
           UNCHANGED <<loaded, host, acked>>
    PROVE  ReaderInv(q)'
<1>1. /\ \A i \in 1..installed : services'[i] = services[i]
      /\ current' = current \/ current' \notin 1..installed
    BY PlaceFacts DEF Inv
<1>2. reader[q].pc \in {"fetch", "land", "check"} => reader[q].id \in 1..installed
    BY DEF Inv, TypeInv, Bound, Serving
<1>3. ReaderInv(q)
    BY DEF Inv
<1>4. reader[q].pc \in {"fetch", "land"} => ServiceOf(q)' = ServiceOf(q)
    BY <1>1, <1>2 DEF ServiceOf
<1>5. reader[q].pc \in {"land", "check"} /\ Usable(q)' => Usable(q)
    BY <1>1, <1>2 DEF Usable
<1> QED
    BY <1>3, <1>4, <1>5 DEF ReaderInv, ConfigLocked, Told

LEMMA InvInstall ==
    ASSUME Inv, TypeInv', NEW r \in Readers, Install(r) PROVE Inv'
<1> DEFINE c == reader[r].connection
<1>1. /\ reader[r] \in Reader /\ c \in Connections /\ ReaderInv(r)
      /\ reader[r].pc = "install"
    BY DEF Inv, TypeInv, TypeOK, Reader, Install
<1>2. UNCHANGED <<readerOnly, budget>> /\ Place(c)
    BY DEF Install
<1>3. ServiceInv' /\ (rename.pc \in {"list", "patch", "publish"} => current' = current)
    BY <1>1, <1>2, InvPlace DEF ReaderInv, readerOnly
<1>4. \A q \in Readers \ {r} : reader'[q] = reader[q]
    BY <1>1, ReplyType, AnswerType DEF Install, Inv, TypeInv, TypeOK
<1>5. \A q \in Readers \ {r} : ReaderInv(q)'
    BY <1>1, <1>2, <1>4, InvOthers DEF readerOnly
<1>6. ReaderInv(r)'
    <2>1. CASE c = Blank
        <3>1. reader' = Answer(r, Down)
            BY <2>1 DEF Install
        <3>2. reader'[r].pc = "done" /\ ~Told(r)'
            BY <3>1 DEF Answer, Answered, Down, Told, Inv, TypeInv, TypeOK
        <3> QED
            BY <3>2 DEF ReaderInv
    <2>2. CASE c # Blank
        <3>1. reader'[r] = [reader[r] EXCEPT !.pc = "get", !.id = current']
            BY <2>2, <1>1 DEF Install, Inv, TypeInv, TypeOK
        <3> QED
            BY <3>1, <1>1, <1>2 DEF ReaderInv, Told, Reader, readerOnly
    <2> QED
        BY <2>1, <2>2
<1> QED
    BY <1>2, <1>3, <1>5, <1>6 DEF Inv, RenameInv, readerOnly, ConfigLocked

LEMMA InvGet ==
    ASSUME Inv, TypeInv', NEW r \in Readers, Get(r) PROVE Inv'
<1> DEFINE s == ServiceOf(r)
<1>1. /\ reader[r] \in Reader /\ ReaderInv(r) /\ reader[r].pc = "get"
      /\ reader[r].id \in Ids /\ reader[r].id # 0
      /\ s = services[reader[r].id] /\ s \in Service
      /\ s.connection = reader[r].connection
      /\ UNCHANGED <<readerOnly, current>>
    <2>1. /\ reader[r] \in Reader /\ ReaderInv(r) /\ reader[r].pc = "get" /\ Bound(r)
          /\ UNCHANGED <<readerOnly, current>>
        BY DEF Inv, TypeInv, TypeOK, Get, GetWith
    <2>2. reader[r].id \in Ids
        BY <2>1 DEF Inv, TypeInv, TypeOK
    <2> QED
        BY <2>1, <2>2 DEF Bound, Serving, ServiceOf, Inv, TypeInv, TypeOK, Ids
<1>2. CASE reader' = Answer(r, Down) /\ UNCHANGED services
    BY <1>2, <1>1, ReplyType, InvAnswer DEF Down, Get, GetWith, serviceVars
<1>3. CASE /\ reader' = [reader EXCEPT ![r] = [@ EXCEPT !.pc = "check", !.reply = s.cached]]
           /\ UNCHANGED services
    <2>1. /\ reader'[r] = [reader[r] EXCEPT !.pc = "check", !.reply = s.cached]
          /\ \A q \in Readers \ {r} : reader'[q] = reader[q]
        BY <1>3 DEF Inv, TypeInv, TypeOK
    <2>2. reader[r].connection \in Keepers
        BY <2>1, <1>1 DEF TypeInv, Bound, Serving, Reading, Reader
    <2>3. Usable(r)' => s.cached.version >= reader[r].floor
        <3>1. Usable(r)' => /\ current # 0 /\ s = services[current]
                            /\ s.cached.kind = "ready"
            BY <1>1, <2>1 DEF Usable, Reader
        <3>2. Usable(r)' => s.cached.version >= acked[reader[r].connection]
            BY <3>1, <1>1, <2>2 DEF Inv, ServiceInv
        <3>3. /\ s.cached.version \in Nat /\ acked[reader[r].connection] \in Nat
              /\ reader[r].floor \in Nat /\ reader[r].floor <= acked[reader[r].connection]
            BY <1>1, <2>2, Numbers DEF ReaderInv, Inv
        <3> QED
            BY <3>2, <3>3
    <2>4. ReaderInv(r)'
        BY <1>1, <2>1, <2>3 DEF ReaderInv, Told, Reader, readerOnly
    <2> QED
        BY <1>1, <1>3, <2>1, <2>4, OneReader
<1>4. CASE reader' = [reader EXCEPT ![r].pc = "wait"] /\ UNCHANGED services
    <2>1. /\ reader'[r] = [reader[r] EXCEPT !.pc = "wait"]
          /\ \A q \in Readers \ {r} : reader'[q] = reader[q]
        BY <1>4 DEF Inv, TypeInv, TypeOK
    <2>2. ReaderInv(r)'
        BY <1>1, <2>1 DEF ReaderInv, Told, Reader, readerOnly
    <2> QED
        BY <1>1, <1>4, <2>1, <2>2, OneReader
<1>5. CASE /\ reader' = [reader EXCEPT ![r] = [@ EXCEPT !.pc = "fetch",
                                                       !.generation = s.generation]]
           /\ services' = [services EXCEPT ![reader[r].id].flight = r]
    <2>1. /\ reader'[r] = [reader[r] EXCEPT !.pc = "fetch", !.generation = s.generation]
          /\ \A q \in Readers \ {r} : reader'[q] = reader[q]
        BY <1>5 DEF Inv, TypeInv, TypeOK
    <2>2. \A i \in Ids : /\ services'[i].connection = services[i].connection
                         /\ services'[i].cached = services[i].cached
                         /\ services'[i].generation = services[i].generation
        BY <1>1, <1>5 DEF Inv, TypeInv, TypeOK, Service
    <2>3. ServiceOf(r)'.generation = s.generation /\ s.generation \in Nat
        BY <1>1, <2>1, <2>2 DEF ServiceOf, Reader, Service
    <2>4. ReaderInv(r)'
        BY <1>1, <2>1, <2>3 DEF ReaderInv, Told, Reader, readerOnly
    <2> QED
        BY <1>1, <2>1, <2>2, <2>4, OneReader
<1> QED
    BY <1>2, <1>3, <1>4, <1>5 DEF Get, GetWith

LEMMA InvFetch ==
    ASSUME Inv, TypeInv', NEW r \in Readers, Fetch(r) PROVE Inv'
<1>0. PICK result \in {"ok", "failed", "refused"} :
      reader' = [reader EXCEPT ![r] =
                   [@ EXCEPT !.pc = "land", !.result = result,
                             !.reply = IF result = "ok"
                                       THEN Ready(names[reader[r].connection])
                                       ELSE Down]]
    BY DEF Fetch
<1>1. /\ reader[r] \in Reader /\ reader[r].pc = "fetch" /\ ReaderInv(r)
      /\ reader[r].connection \in Keepers
      /\ UNCHANGED <<readerOnly, serviceVars>>
    BY DEF Fetch, Inv, TypeInv, TypeOK, Bound, Serving, Reading
<1> DEFINE reply == IF result = "ok" THEN Ready(names[reader[r].connection]) ELSE Down
<1>2. reply.kind = "ready" => reply.version = names[reader[r].connection]
    BY DEF Ready, Down
<1>3. reader' = [reader EXCEPT ![r] = [@ EXCEPT !.pc = "land", !.result = result,
                                               !.reply = reply]]
    BY <1>0
<1> HIDE DEF reply
<1>4. /\ reader'[r] = [reader[r] EXCEPT !.pc = "land", !.result = result, !.reply = reply]
      /\ \A q \in Readers \ {r} : reader'[q] = reader[q]
    BY <1>3 DEF Inv, TypeInv, TypeOK
<1>5. names[reader[r].connection] >= acked[reader[r].connection]
    BY <1>1, Numbers DEF Inv, RenameInv
<1>6. ServiceOf(r)' = ServiceOf(r)
    BY <1>1, <1>4 DEF ServiceOf, Reader, serviceVars
<1>7. ReaderInv(r)'
    <2>1. /\ reader'[r].pc = "land" /\ reader'[r].reply = reply
          /\ reader'[r].connection = reader[r].connection
          /\ reader'[r].floor = reader[r].floor
          /\ reader'[r].generation = reader[r].generation
        BY <1>1, <1>4 DEF Reader
    <2>2. UNCHANGED <<acked, names, loaded>>
        BY <1>1 DEF readerOnly
    <2>3. reader[r].generation <= ServiceOf(r).generation
          /\ reader[r].floor <= acked[reader[r].connection]
        BY <1>1 DEF ReaderInv
    <2> QED
        BY <2>1, <2>2, <2>3, <1>1, <1>2, <1>5, <1>6 DEF ReaderInv, Told, Usable
<1> QED
    BY <1>1, <1>4, <1>7, OneReader DEF serviceVars

LEMMA InvLand ==
    ASSUME Inv, TypeInv', NEW r \in Readers, Land(r) PROVE Inv'
<1> DEFINE i == reader[r].id
           s == ServiceOf(r)
           same == s.generation = reader[r].generation
           reply == IF same THEN reader[r].reply ELSE s.cached
<1>1. /\ reader[r] \in Reader /\ ReaderInv(r) /\ reader[r].pc = "land"
      /\ i \in Ids /\ s = services[i] /\ s \in Service
      /\ s.connection = reader[r].connection /\ s.connection \in Keepers
      /\ UNCHANGED <<readerOnly, current, installed, budget>>
    <2>1. /\ reader[r] \in Reader /\ ReaderInv(r) /\ reader[r].pc = "land" /\ Bound(r)
          /\ UNCHANGED <<readerOnly, current, installed, budget>>
        BY DEF Inv, TypeInv, TypeOK, Land
    <2>2. i \in Ids
        BY <2>1 DEF Inv, TypeInv, TypeOK
    <2> QED
        BY <2>1, <2>2 DEF Bound, Serving, Reading, ServiceOf, Inv, TypeInv, TypeOK
<1>2. Deliver(i, r, reply)
    BY DEF Land
<1>3. /\ \A j \in Ids : /\ services'[j].connection = services[j].connection
                        /\ services'[j].generation = services[j].generation
      /\ \A j \in Ids \ {i} : services'[j] = services[j]
      /\ services'[i].cached = reply
    <2>1. CASE ~same
        BY <2>1, <1>1 DEF Land, Inv, TypeInv, TypeOK, Service
    <2>2. CASE same
        <3>1. services' = [services EXCEPT ![i] = Landed(s, r)]
            BY <2>2, <1>1 DEF Land
        <3>2. /\ Landed(s, r).connection = s.connection
              /\ Landed(s, r).generation = s.generation
              /\ Landed(s, r).cached = reader[r].reply
            BY <1>1 DEF Landed, Service
        <3> QED
            BY <2>2, <3>1, <3>2, <1>1 DEF Inv, TypeInv, TypeOK
    <2> QED
        BY <2>1, <2>2
\* The list that is handed out shows every acknowledged rename.
<1>4. i = current /\ reply.kind = "ready" => reply.version >= acked[s.connection]
    <2>1. CASE same
        BY <2>1, <1>1 DEF ReaderInv, Usable
    <2>2. CASE ~same
        BY <2>2, <1>1, KeeperAssumption DEF Inv, ServiceInv, Ids
    <2> QED
        BY <2>1, <2>2
<1>5. reply \in Reply /\ reply.version \in Nat /\ acked[s.connection] \in Nat
    BY <1>1, Numbers DEF Inv
<1> HIDE DEF reply, same, i, s
<1>6. ASSUME NEW q \in Readers PROVE ReaderInv(q)'
    <2>1. CASE q = r \/ (reader[q].pc = "wait" /\ reader[q].id = i)
        <3>1. /\ reader[q] \in Reader /\ reader[q].connection = s.connection
              /\ reader[q].id = i /\ reader[q].pc # "done" /\ ReaderInv(q)
            BY <2>1, <1>1 DEF Inv, TypeInv, TypeOK, Bound, Serving, i
        <3>2. reader'[q] = [reader[q] EXCEPT !.pc = "check", !.generation = 0,
                                             !.result = "failed", !.reply = reply]
            BY <2>1, <1>2 DEF Deliver
        <3>3. /\ reader'[q].pc = "check" /\ reader'[q].reply = reply /\ reader'[q].id = i
              /\ reader'[q].connection = s.connection
              /\ reader'[q].floor = reader[q].floor
            BY <3>1, <3>2 DEF Reader
        <3>4. reader[q].floor \in Nat /\ reader[q].floor <= acked[s.connection]
            BY <3>1, <1>1, Numbers DEF ReaderInv, Inv
        <3>5. i = current /\ reply.kind = "ready" => reply.version >= reader[q].floor
            BY <1>4, <1>5, <3>4
        <3> QED
            BY <1>1, <3>3, <3>4, <3>5 DEF ReaderInv, Told, Usable, readerOnly
    <2>2. CASE ~(q = r \/ (reader[q].pc = "wait" /\ reader[q].id = i))
        <3>1. reader'[q] = reader[q] /\ ReaderInv(q)
            BY <2>2, <1>2 DEF Deliver, Inv
        <3>2. reader[q].pc \in {"fetch", "land"} => reader[q].id \in Ids
            BY DEF Inv, TypeInv, TypeOK
        <3> QED
            BY <1>1, <1>3, <3>1, <3>2 DEF ReaderInv, ConfigLocked, Told, Usable, ServiceOf,
               readerOnly
    <2> QED
        BY <2>1, <2>2
<1>7. ServiceInv'
    <2>1. CASE current = i
        BY <2>1, <1>1, <1>3, <1>4 DEF Inv, ServiceInv, ConfigLocked, readerOnly
    <2>2. CASE current # i
        BY <2>2, <1>1, <1>3 DEF Inv, TypeInv, TypeOK, ServiceInv, ConfigLocked, readerOnly
    <2> QED
        BY <2>1, <2>2
<1> QED
    BY <1>1, <1>6, <1>7 DEF Inv, RenameInv, readerOnly, ConfigLocked

LEMMA InvEnd ==
    ASSUME Inv, TypeInv', NEW r \in Readers, GiveUp(r) \/ Check(r) PROVE Inv'
<1>1. CASE GiveUp(r)
    BY <1>1, ReplyType, InvAnswer DEF GiveUp, Down
<1>2. CASE Check(r)
    <2>1. CASE current = reader[r].id
        <3>1. reader' = Answer(r, reader[r].reply) /\ reader[r].reply \in Reply
            BY <1>2, <2>1, Numbers DEF Check, Inv
        <3>2. reader[r].reply.kind = "ready" => reader[r].reply.version >= reader[r].floor
            BY <1>2, <2>1 DEF Check, Inv, ReaderInv, Usable
        <3> QED
            BY <1>2, <3>1, <3>2, InvAnswer DEF Check
    <2>2. CASE current # reader[r].id
        BY <1>2, <2>2, ReplyType, InvAnswer DEF Check, Down
    <2> QED
        BY <2>1, <2>2
<1> QED
    BY <1>1, <1>2

LEMMA InvRenameBegin == ASSUME Inv, TypeInv', RenameBegin PROVE Inv'
<1>1. /\ rename'.pc = "install" /\ rename'.connection = loaded /\ ~ConfigLocked
      /\ UNCHANGED <<renameOnly, names, serviceVars, acked>>
    BY DEF RenameBegin, IdleRename, ConfigLocked
<1>2. \A q \in Readers : ReaderInv(q)'
    BY <1>1 DEF Inv, ReaderInv, renameOnly, serviceVars, ConfigLocked, Told, Usable, ServiceOf
<1> QED
    BY <1>1, <1>2 DEF Inv, ServiceInv, RenameInv, renameOnly, serviceVars, ConfigLocked

LEMMA InvRenameInstall == ASSUME Inv, TypeInv', RenameInstall PROVE Inv'
<1> DEFINE c == rename.connection
<1>1. /\ c \in Connections /\ c = loaded /\ ~ConfigLocked /\ Place(c)
      /\ UNCHANGED <<renameOnly, names, acked, budget>>
    BY DEF RenameInstall, Inv, TypeInv, TypeOK, Rename, RenameInv
<1>2. ServiceInv'
    BY <1>1, InvPlace DEF renameOnly
<1>3. ASSUME NEW q \in Readers PROVE ReaderInv(q)'
    BY <1>1, InvOthers DEF renameOnly
<1>4. \/ rename' = IdleRename
      \/ rename'.pc = "list" /\ rename'.connection = c /\ rename'.id = current'
    BY DEF RenameInstall, Inv, TypeInv, TypeOK, Rename
<1> QED
    BY <1>1, <1>2, <1>3, <1>4 DEF Inv, RenameInv, IdleRename, renameOnly, ConfigLocked

LEMMA InvRenameList == ASSUME Inv, TypeInv', RenameList PROVE Inv'
<1>1. UNCHANGED <<renameOnly, names, serviceVars, acked>>
    BY DEF RenameList
<1>2. \A q \in Readers : ReaderInv(q)'
    BY <1>1 DEF Inv, ReaderInv, renameOnly, serviceVars, ConfigLocked, Told, Usable, ServiceOf
<1>3. \/ rename' = IdleRename
      \/ rename'.pc = "patch" /\ rename'.connection = rename.connection
         /\ rename'.id = rename.id
    BY DEF RenameList, Inv, TypeInv, TypeOK, Rename
<1> QED
    BY <1>1, <1>2, <1>3 DEF RenameList, Inv, ServiceInv, RenameInv, IdleRename, renameOnly,
       serviceVars, ConfigLocked

LEMMA InvRenamePatch == ASSUME Inv, TypeInv', RenamePatch PROVE Inv'
<1>1. /\ rename \in Rename /\ rename.connection \in Keepers /\ rename.reply \in Reply
      /\ rename.pc = "patch" /\ UNCHANGED <<renameOnly, serviceVars, acked>>
      /\ names \in [Keepers -> Nat]
    BY DEF RenamePatch, Inv, TypeInv, TypeOK, Rename, Count
<1>2. PICK done \in BOOLEAN, told \in BOOLEAN :
        LET own == names[rename.connection] + 1
        IN  /\ names' = IF done THEN [names EXCEPT ![rename.connection] = own] ELSE names
            /\ rename' = [rename EXCEPT !.pc = "publish",
                                        !.reply = IF done /\ told
                                                  THEN [@ EXCEPT !.version = own]
                                                  ELSE Down]
    BY DEF RenamePatch
<1> DEFINE own == names[rename.connection] + 1
<1>3. /\ rename'.pc = "publish" /\ rename'.connection = rename.connection
      /\ rename'.id = rename.id
      /\ rename'.reply = IF done /\ told THEN [rename.reply EXCEPT !.version = own] ELSE Down
    BY <1>1, <1>2 DEF Rename
<1>4. \A k \in Keepers : names[k] \in Nat /\ names'[k] >= names[k]
    BY <1>1, <1>2
<1>5. rename'.reply.kind = "ready" => rename'.reply.version = names'[rename.connection]
    <2>1. CASE done /\ told
        <3>1. rename'.reply = [rename.reply EXCEPT !.version = own]
            BY <1>3, <2>1
        <3>2. names'[rename.connection] = own
            BY <1>1, <1>2, <2>1
        <3> QED
            BY <1>1, <3>1, <3>2 DEF Reply
    <2>2. CASE ~(done /\ told)
        BY <1>3, <2>2 DEF Down
    <2> QED
        BY <2>1, <2>2
<1>6. \A q \in Readers : ReaderInv(q)'
    BY <1>1 DEF Inv, ReaderInv, renameOnly, serviceVars, ConfigLocked, Told, Usable, ServiceOf
<1>7. \A k \in Keepers : acked'[k] <= names'[k]
    <2>1. \A k \in Keepers : /\ acked[k] \in Nat /\ acked[k] <= names[k]
                              /\ acked'[k] = acked[k] /\ names'[k] \in Nat
        BY <1>1, <1>2, Numbers DEF Inv, RenameInv
    <2> QED
        BY <1>4, <2>1
<1> QED
    BY <1>1, <1>3, <1>5, <1>6, <1>7 DEF Inv, ServiceInv, RenameInv, renameOnly, serviceVars,
       ConfigLocked

\* The rename is acknowledged: the cache shows it, and the readings that are
\* under way at the installed service are of an earlier generation.
LEMMA InvRenamePublish == ASSUME Inv, TypeInv', RenamePublish PROVE Inv'
<1> DEFINE k == rename.connection
<1>1. /\ rename \in Rename /\ rename.reply \in Reply /\ k \in Keepers
      /\ rename.id \in Ids /\ rename.id = current
      /\ rename.pc = "publish" /\ k = loaded /\ ~ConfigLocked
      /\ UNCHANGED <<renameOnly, names, current, installed>>
    BY DEF RenamePublish, Inv, TypeInv, TypeOK, Rename, RenameInv
<1>2. current # 0 /\ current \in Ids /\ services[current].connection = k
    BY <1>1 DEF Ids, Inv, ServiceInv
<1>3. /\ \A i \in Ids \ {current} : services'[i] = services[i]
      /\ services'[current].connection = k
      /\ services'[current].cached = rename.reply
      /\ services'[current].generation = services[current].generation + 1
    <2>1. services[current] \in Service /\ services \in [Ids -> Service]
        BY <1>2 DEF Inv, TypeInv, TypeOK
    <2>2. services' = [services EXCEPT ![current] = Published(services[current])]
        BY <1>1 DEF RenamePublish
    <2>3. LET s == services[current] IN
          /\ Published(s).connection = s.connection
          /\ Published(s).cached = rename.reply
          /\ Published(s).generation = s.generation + 1
        BY <2>1 DEF Published, Service
    <2> QED
        BY <1>2, <2>1, <2>2, <2>3
<1>4. /\ \A j \in Keepers : /\ acked[j] \in Nat /\ acked'[j] \in Nat /\ names[j] \in Nat
                            /\ acked'[j] >= acked[j] /\ acked'[j] <= names[j]
      /\ rename.reply.kind = "ready" => rename.reply.version >= acked'[k]
    <2>1. \A j \in Keepers : acked[j] \in Nat /\ names[j] \in Nat /\ acked[j] <= names[j]
        BY Numbers DEF Inv, RenameInv
    <2>2. CASE rename.reply.kind = "ready"
        <3>1. rename.reply.version = names[k]
            BY <1>1, <2>2 DEF Inv, RenameInv
        <3>2. acked' = [acked EXCEPT ![k] = names[k]] /\ acked \in [Keepers -> Count]
            BY <2>2, <3>1 DEF RenamePublish, Inv, TypeInv, TypeOK
        <3> QED
            BY <1>1, <2>1, <3>1, <3>2
    <2>3. CASE rename.reply.kind # "ready"
        BY <2>1, <2>3 DEF RenamePublish
    <2> QED
        BY <2>2, <2>3
<1>5. ASSUME NEW q \in Readers PROVE ReaderInv(q)'
    <2>1. /\ reader[q] \in Reader /\ reader'[q] = reader[q] /\ ReaderInv(q)
          /\ reader[q].pc \in {"fetch", "land"} =>
               reader[q].id \in Ids /\ reader[q].connection \in Keepers
          /\ reader[q].floor \in Nat /\ reader[q].generation \in Nat
        BY <1>1, Numbers DEF Inv, TypeInv, TypeOK, Bound, Serving, Reading, renameOnly
    <2>2. reader[q].pc # "done" /\ reader[q].connection \in Keepers =>
             reader[q].floor <= acked'[reader[q].connection]
        BY <1>4, <2>1 DEF ReaderInv
    <2>3. CASE reader[q].pc \in {"fetch", "land"}
        <3>1. CASE reader[q].id = current
            <4>1. reader[q].generation < ServiceOf(q)'.generation
                <5>1. /\ ServiceOf(q)'.generation = services[current].generation + 1
                      /\ services[current].generation \in Nat
                      /\ reader[q].generation <= services[current].generation
                    BY <1>2, <1>3, <2>1, <2>3, <3>1, Numbers DEF ReaderInv, ServiceOf, Inv
                <5> QED
                    BY <2>1, <5>1
            <4>2. /\ reader[q].generation <= ServiceOf(q)'.generation
                  /\ reader[q].generation # ServiceOf(q)'.generation
                <5>1. ServiceOf(q)'.generation \in Nat
                    BY <1>2, <1>3, <2>1, <3>1, Numbers DEF ServiceOf, Inv
                <5> QED
                    BY <2>1, <4>1, <5>1
            <4> QED
                BY <2>1, <2>2, <2>3, <4>2 DEF ReaderInv, Told
        <3>2. CASE reader[q].id # current
            <4>1. ServiceOf(q)' = ServiceOf(q) /\ ~Usable(q)'
                BY <1>1, <1>3, <2>1, <2>3, <3>2 DEF ServiceOf, Usable
            <4> QED
                BY <2>1, <2>2, <2>3, <4>1 DEF ReaderInv, Told
        <3> QED
            BY <3>1, <3>2
    <2>4. CASE reader[q].pc \notin {"fetch", "land"}
        BY <1>1, <2>1, <2>2, <2>4 DEF ReaderInv, Told, Usable, ConfigLocked, renameOnly
    <2> QED
        BY <2>3, <2>4
<1>6. ServiceInv'
    BY <1>1, <1>2, <1>3, <1>4 DEF ServiceInv, ConfigLocked, renameOnly
<1>7. RenameInv'
    BY <1>1, <1>4 DEF RenamePublish, RenameInv, IdleRename, renameOnly
<1> QED
    BY <1>5, <1>6, <1>7 DEF Inv

LEMMA InvHost ==
    ASSUME Inv, TypeInv', (\E c \in Connections : Reconfigure(c)) \/ Reset PROVE Inv'
<1>1. CASE \E c \in Connections : Reconfigure(c)
    <2>1. /\ ConfigLocked' /\ rename.pc = "idle"
          /\ UNCHANGED <<names, serviceVars, reader, rename, acked>>
        BY <1>1 DEF Reconfigure, ConfigLocked
    <2>2. \A q \in Readers : ReaderInv(q)'
        BY <2>1 DEF Inv, ReaderInv, serviceVars, Told, Usable, ServiceOf
    <2> QED
        BY <2>1, <2>2 DEF Inv, ServiceInv, RenameInv, serviceVars
<1>2. CASE Reset
    <2>1. /\ current' = 0 /\ ConfigLocked
          /\ \A q \in Readers : reader[q].pc # "install"
          /\ UNCHANGED <<names, loaded, services, installed, reader, rename, acked>>
        BY <1>2 DEF Reset, ConfigLocked, ServicesLocked
    <2>2. ASSUME NEW q \in Readers PROVE ReaderInv(q)'
        <3>1. reader[q].pc \in {"land", "check"} => reader[q].id # 0
            BY IdsAre DEF Inv, TypeInv, TypeOK, Ids
        <3> QED
            BY <2>1, <3>1 DEF Inv, ReaderInv, Told, Usable, ServiceOf
    <2> QED
        BY <2>1, <2>2 DEF Inv, ServiceInv, RenameInv
<1> QED
    BY <1>1, <1>2

LEMMA InvTick == ASSUME Inv, TypeInv', Tick PROVE Inv'
<1>1. \A i \in Ids : /\ services'[i].connection = services[i].connection
                     /\ services'[i].generation = services[i].generation
                     /\ services'[i].cached.kind = services[i].cached.kind
                     /\ services'[i].cached.version = services[i].cached.version
    <2>1. \A i \in Ids : services[i] \in Service /\ services[i].cached \in Reply
        BY Numbers DEF Inv, TypeInv, TypeOK
    <2>2. \A i \in Ids : /\ services'[i].connection = services[i].connection
                         /\ services'[i].generation = services[i].generation
                         /\ services'[i].cached = Older(services[i].cached)
        BY <2>1 DEF Tick, Service
    <2> QED
        BY <2>1, <2>2, ReplyType
<1>2. \A q \in Readers : /\ reader'[q].pc = reader[q].pc
                         /\ reader'[q].id = reader[q].id
                         /\ reader'[q].connection = reader[q].connection
                         /\ reader'[q].generation = reader[q].generation
                         /\ reader'[q].floor = reader[q].floor
                         /\ reader'[q].reply.kind = reader[q].reply.kind
                         /\ reader'[q].reply.version = reader[q].reply.version
    <2>1. ASSUME NEW q \in Readers, reader[q].pc # "done"
          PROVE  LET new == [reader[q] EXCEPT !.age = @ + 1, !.reply = Older(@)] IN
                 /\ new.pc = reader[q].pc /\ new.id = reader[q].id
                 /\ new.connection = reader[q].connection
                 /\ new.generation = reader[q].generation
                 /\ new.floor = reader[q].floor
                 /\ new.reply = Older(reader[q].reply)
        BY DEF Inv, TypeInv, TypeOK, Reader
    <2>2. \A q \in Readers : /\ Older(reader[q].reply).kind = reader[q].reply.kind
                             /\ Older(reader[q].reply).version = reader[q].reply.version
        BY Numbers, ReplyType DEF Inv
    <2> QED
        BY <2>1, <2>2 DEF Tick
<1>3. /\ rename'.pc = rename.pc /\ rename'.id = rename.id
      /\ rename'.connection = rename.connection
      /\ rename'.reply.kind = rename.reply.kind
      /\ rename'.reply.version = rename.reply.version
    <2>1. rename \in Rename /\ rename.reply \in Reply
        BY Numbers DEF Inv, TypeInv, TypeOK
    <2>2. Older(rename.reply).kind = rename.reply.kind
          /\ Older(rename.reply).version = rename.reply.version
        BY <2>1, ReplyType
    <2> QED
        BY <2>1, <2>2 DEF Tick, Rename
<1>4. UNCHANGED <<names, loaded, current, installed, host, acked>>
    BY DEF Tick
<1>5. ASSUME NEW q \in Readers PROVE ReaderInv(q)'
    <2>1. ReaderInv(q) /\ (reader[q].pc \in {"fetch", "land"} => reader[q].id \in Ids)
        BY DEF Inv, TypeInv, TypeOK
    <2>2. reader[q].pc \in {"fetch", "land"} =>
             ServiceOf(q)'.generation = ServiceOf(q).generation
        BY <1>1, <1>2, <2>1 DEF ServiceOf
    <2> QED
        BY <1>2, <1>4, <2>1, <2>2 DEF ReaderInv, ConfigLocked, Told, Usable
<1>6. ServiceInv'
    BY <1>1, <1>4 DEF Inv, TypeInv, TypeOK, ServiceInv, ConfigLocked
<1> QED
    BY <1>3, <1>4, <1>5, <1>6 DEF Inv, RenameInv, ConfigLocked

LEMMA InvStep == Inv /\ [Next]_vars => Inv'
<1> SUFFICES ASSUME Inv, [Next]_vars PROVE Inv'
    OBVIOUS
<1>1. TypeInv'
    BY TypeStep DEF Inv
<1>2. CASE UNCHANGED vars
    BY <1>1, <1>2 DEF vars, Inv, ReaderInv, ServiceInv, RenameInv, ConfigLocked, Told, Usable,
       ServiceOf
<1>3. CASE Next
    BY <1>1, <1>3, InvTick, InvRequest, InvSelect, InvInstall, InvGet, InvFetch, InvLand,
       InvEnd, InvRenameBegin, InvRenameInstall, InvRenameList, InvRenamePatch,
       InvRenamePublish, InvHost DEF Next
<1> QED
    BY <1>2, <1>3

\* A request is told of every rename that was acknowledged before it (generation in
\* get and publishUpdate), for any number of requests, connections and faults.
THEOREM RenamesAreRead == Spec => []ReadYourRename
<1>1. Inv => ReadYourRename
    BY DEF Inv, ReaderInv, ReadYourRename
<1> QED
    BY <1>1, InvInit, InvStep, PTL DEF Spec

\* The installed service is one of the configured connection.
THEOREM ServicesAreCurrent == Spec => []ServiceIsCurrent
<1>1. Inv => ServiceIsCurrent
    BY DEF Inv, ServiceInv, ServiceIsCurrent
<1> QED
    BY <1>1, InvInit, InvStep, PTL DEF Spec

LEMMA AnswerStep ==
    ASSUME Inv, [Next]_vars, NEW r \in Readers, reader[r].pc # "done", Told(r)', ~ConfigLocked
    PROVE  reader[r].connection = loaded
<1>1. reader \in [Readers -> Reader]
    BY DEF Inv, TypeInv, TypeOK
<1>2. reader'[r] # reader[r]
    BY DEF Told
<1>3. ASSUME NEW q \in Readers, reader' = Answer(q, Down) PROVE FALSE
    BY <1>1, <1>2, <1>3 DEF Answer, Answered, Down, Told
<1>4. ASSUME NEW q \in Readers, reader'[q].pc # "done",
             \A p \in Readers \ {q} : reader'[p] = reader[p]
      PROVE  FALSE
    BY <1>2, <1>4 DEF Told
<1>5. ~UNCHANGED reader
    BY <1>2
<1>6. ASSUME NEW q \in Readers, Request(q) \/ Select(q) PROVE FALSE
    <2>1. CASE Request(q)
        BY <2>1, <1>1, <1>4 DEF Request, Answered
    <2>2. CASE Select(q)
        <3>1. CASE reader' = [reader EXCEPT ![q].pc = "install"]
            <4>1. reader'[q] = [reader[q] EXCEPT !.pc = "install"] /\ reader[q] \in Reader
                BY <3>1, <1>1 DEF Inv, TypeInv, TypeOK
            <4> QED
                BY <3>1, <4>1, <1>4 DEF Reader
        <3> QED
            BY <2>2, <3>1, <1>3 DEF Select
    <2> QED
        BY <1>6, <2>1, <2>2
<1>7. ASSUME NEW q \in Readers, NEW new, reader' = [reader EXCEPT ![q] = new],
             new.pc # "done"
      PROVE  FALSE
    BY <1>1, <1>4, <1>7
<1>8. ASSUME NEW q \in Readers, Install(q) \/ GiveUp(q) \/ Get(q) \/ Fetch(q) PROVE FALSE
    <2>1. reader[q] \in Reader
        BY <1>1 DEF Inv, TypeInv, TypeOK
    <2>2. CASE Install(q)
        <3>1. [reader[q] EXCEPT !.pc = "get", !.id = current'].pc # "done"
            BY <2>1 DEF Reader
        <3> QED
            BY <2>2, <3>1, <1>3, <1>7 DEF Install
    <2>3. CASE GiveUp(q)
        BY <2>3, <1>3 DEF GiveUp
    <2>4. CASE Get(q)
        <3>1. /\ [reader[q] EXCEPT !.pc = "check", !.reply = ServiceOf(q).cached].pc # "done"
              /\ [reader[q] EXCEPT !.pc = "wait"].pc # "done"
              /\ [reader[q] EXCEPT !.pc = "fetch",
                                   !.generation = ServiceOf(q).generation].pc # "done"
            BY <2>1 DEF Reader
        <3> QED
            BY <2>4, <3>1, <1>3, <1>7 DEF Get, GetWith
    <2>5. CASE Fetch(q)
        <3>1. PICK result, reply :
                reader' = [reader EXCEPT ![q] = [@ EXCEPT !.pc = "land", !.result = result,
                                                          !.reply = reply]]
            BY <2>5 DEF Fetch
        <3>2. [reader[q] EXCEPT !.pc = "land", !.result = result, !.reply = reply].pc # "done"
            BY <2>1 DEF Reader
        <3> QED
            BY <3>1, <3>2, <1>7
    <2> QED
        BY <1>8, <2>2, <2>3, <2>4, <2>5
<1>9. ASSUME NEW q \in Readers, Land(q) PROVE FALSE
    <2>1. reader'[r] = reader[r] \/ \E y : reader'[r] = [reader[r] EXCEPT !.pc = "check",
                                                !.generation = 0, !.result = "failed",
                                                !.reply = y]
        BY <1>9 DEF Land, Deliver
    <2>2. reader[r] \in Reader
        BY <1>1 DEF Inv, TypeInv, TypeOK
    <2> QED
        BY <1>2, <2>1, <2>2 DEF Told, Reader
<1>10. ASSUME NEW q \in Readers, Check(q) PROVE reader[r].connection = loaded
    <2>1. q = r /\ current = reader[r].id
        BY <1>1, <1>2, <1>3, <1>10 DEF Check, Answer
    <2>2. Bound(r) /\ reader[r].pc = "check" /\ ServiceInv
        BY <1>10, <2>1 DEF Check, Inv, TypeInv
    <2>3. current # 0 /\ reader[r].connection = services[current].connection
        BY <2>1, <2>2, Numbers DEF Bound, Serving, Inv
    <2> QED
        BY <2>2, <2>3 DEF ServiceInv
<1>11. Tick => FALSE
    <2>1. reader[r] \in Reader
        BY <1>1 DEF Inv, TypeInv, TypeOK
    <2>2. [reader[r] EXCEPT !.age = reader[r].age + 1, !.reply = Older(reader[r].reply)].pc
             = reader[r].pc
        BY <2>1 DEF Reader
    <2>3. Tick => reader'[r].pc = reader[r].pc
        BY <2>2 DEF Tick
    <2> QED
        BY <2>3 DEF Told
<1>12. RenameBegin \/ RenameInstall \/ RenameList \/ RenamePatch \/ RenamePublish => FALSE
    BY <1>5 DEF RenameBegin, RenameInstall, RenameList, RenamePatch, RenamePublish, renameOnly
<1>13. Reset \/ (\E c \in Connections : Reconfigure(c)) => FALSE
    BY <1>5 DEF Reset, Reconfigure
<1> QED
    BY <1>5, <1>6, <1>7, <1>8, <1>9, <1>10, <1>11, <1>12, <1>13 DEF Next, vars

\* No list comes from a connection that was replaced, however late it is.
THEOREM AnswersAreCurrent == Spec => NoForeignAnswer
<1> DEFINE Step == \A r \in Readers :
                     reader[r].pc # "done" /\ Told(r)' /\ ~ConfigLocked =>
                       reader[r].connection = loaded
<1>1. Inv /\ [Next]_vars => Step \/ UNCHANGED vars
    BY AnswerStep
<1> QED
    BY <1>1, InvInit, InvStep, PTL DEF Spec, NoForeignAnswer

-----------------------------------------------------------------------------
(* One fetch per service: who reads, who is marked as reading, who waits.  *)

Fetching(r, i) == reader[r].pc \in {"fetch", "land"} /\ reader[r].id = i

FlightInv == TypeInv /\ OneFlight

LEMMA FlightInit == Init => FlightInv
<1> SUFFICES ASSUME Init PROVE FlightInv
    OBVIOUS
<1>1. \A r \in Readers : reader[r].pc = "done"
    BY DEF Init, Answered
<1>2. \A i \in Ids : services[i].flight = None
    BY DEF Init, NewService
<1> QED
    BY <1>1, <1>2, TypeInit, KeeperAssumption DEF FlightInv, OneFlight

\* A step that marks no service and moves no request into or out of a fetch or a wait.
LEMMA FlightsKept ==
    ASSUME FlightInv,
           \A i \in Ids : services'[i].flight = services[i].flight,
           \A q \in Readers :
              /\ \A i \in Ids : Fetching(q, i)' <=> Fetching(q, i)
              /\ reader'[q].pc = "wait" => reader[q].pc = "wait" /\ reader'[q].id = reader[q].id
    PROVE  OneFlight'
<1>1. \A i \in Ids, r \in Readers : services'[i].flight = r <=> Fetching(r, i)'
    BY DEF FlightInv, OneFlight, Fetching
<1>2. ASSUME NEW r \in Readers, reader'[r].pc = "wait" PROVE services'[reader'[r].id].flight # None
    <2>1. reader[r].pc = "wait" /\ reader'[r].id = reader[r].id
        BY <1>2
    <2>2. reader[r].id \in Ids
        BY <2>1 DEF FlightInv, TypeInv, TypeOK
    <2> QED
        BY <2>1, <2>2 DEF FlightInv, OneFlight, ServiceOf
<1> QED
    BY <1>1, <1>2 DEF OneFlight, Fetching, ServiceOf

\* One request moves, neither from a fetch nor into a fetch or a wait.
LEMMA FlightsKeptBy ==
    ASSUME FlightInv, NEW r \in Readers,
           \A i \in Ids : services'[i].flight = services[i].flight,
           \A q \in Readers \ {r} : reader'[q] = reader[q],
           reader[r].pc \notin {"fetch", "land"}, reader'[r].pc \notin {"fetch", "land", "wait"}
    PROVE  OneFlight'
BY FlightsKept DEF Fetching

LEMMA AnswerEnds ==
    ASSUME FlightInv, NEW r \in Readers, NEW reply, reader' = Answer(r, reply)
    PROVE  reader'[r].pc = "done" /\ \A q \in Readers \ {r} : reader'[q] = reader[q]
<1>1. reader \in [Readers -> Reader]
    BY DEF FlightInv, TypeInv, TypeOK
<1> QED
    BY <1>1 DEF Answer, Answered

LEMMA FlightsKeptByAnswer ==
    ASSUME FlightInv, NEW r \in Readers, NEW reply, UNCHANGED services,
           reader' = Answer(r, reply), reader[r].pc \notin {"fetch", "land"}
    PROVE  OneFlight'
BY AnswerEnds, FlightsKeptBy

\* A new service is one that nobody can have read.
LEMMA FlightsPlaced ==
    ASSUME FlightInv, NEW c, Place(c)
    PROVE  \A i \in Ids : services'[i].flight = services[i].flight
<1>1. CASE UNCHANGED services
    BY <1>1
<1>2. CASE installed + 1 \in Ids /\ services' = [services EXCEPT ![installed + 1] = NewService(c)]
    <2>1. ASSUME NEW r \in Readers PROVE services[installed + 1].flight # r
        <3>1. Bound(r) /\ installed \in Nat
            BY IdsAre DEF FlightInv, TypeInv, TypeOK
        <3> QED
            BY <1>2, <3>1 DEF FlightInv, OneFlight, Bound, Serving
    <2>2. services[installed + 1].flight \in Readers \cup {None}
        BY <1>2 DEF FlightInv, TypeInv, TypeOK, Service
    <2>3. NewService(c).flight = None
        BY DEF NewService
    <2> QED
        BY <1>2, <2>1, <2>2, <2>3 DEF FlightInv, TypeInv, TypeOK
<1> QED
    BY <1>1, <1>2 DEF Place

LEMMA FlightGet ==
    ASSUME FlightInv, NEW r \in Readers, Get(r)
    PROVE  OneFlight'
<1> DEFINE s == ServiceOf(r)
<1>1. /\ reader[r].pc = "get" /\ reader[r].id \in Ids
      /\ reader \in [Readers -> Reader] /\ reader[r] \in Reader
      /\ services \in [Ids -> Service]
    BY DEF Get, GetWith, FlightInv, TypeInv, TypeOK
<1>2. CASE reader' = Answer(r, Down) /\ UNCHANGED services
    BY <1>1, <1>2, FlightsKeptByAnswer
<1>3. CASE reader' = [reader EXCEPT ![r] = [@ EXCEPT !.pc = "check", !.reply = s.cached]] /\ UNCHANGED services
    <2>1. reader'[r].pc = "check" /\ \A q \in Readers \ {r} : reader'[q] = reader[q]
        BY <1>1, <1>3 DEF Reader
    <2> QED
        BY <1>1, <1>3, <2>1, FlightsKeptBy
<1>4. CASE s.flight # None /\ reader' = [reader EXCEPT ![r].pc = "wait"] /\ UNCHANGED services
    <2>1. /\ \A q \in Readers : reader'[q].id = reader[q].id
          /\ \A q \in Readers \ {r} : reader'[q] = reader[q]
          /\ reader'[r].pc = "wait"
        BY <1>1, <1>4 DEF Reader
    <2>2. \A i \in Ids, q \in Readers : services'[i].flight = q <=> Fetching(q, i)'
        BY <1>1, <1>4, <2>1 DEF FlightInv, OneFlight, Fetching
    <2>3. \A q \in Readers : reader'[q].pc = "wait" => services'[reader'[q].id].flight # None
        BY <1>4, <2>1 DEF FlightInv, OneFlight, ServiceOf
    <2> QED
        BY <2>2, <2>3 DEF OneFlight, Fetching, ServiceOf
<1>5. CASE /\ s.flight = None
           /\ reader' = [reader EXCEPT ![r] = [@ EXCEPT !.pc = "fetch", !.generation = s.generation]]
           /\ services' = [services EXCEPT ![reader[r].id].flight = r]
    <2>1. /\ \A q \in Readers : reader'[q].id = reader[q].id
          /\ \A q \in Readers \ {r} : reader'[q] = reader[q]
          /\ reader'[r].pc = "fetch"
        BY <1>1, <1>5 DEF Reader
    <2>2. \A i \in Ids : services'[i].flight = IF i = reader[r].id THEN r ELSE services[i].flight
        BY <1>1, <1>5 DEF Service
    <2>3. \A q \in Readers : ~Fetching(q, reader[r].id)
        BY <1>1, <1>5, KeeperAssumption DEF FlightInv, OneFlight, Fetching, ServiceOf
    <2>4. \A i \in Ids, q \in Readers : services'[i].flight = q <=> Fetching(q, i)'
        BY <1>1, <2>1, <2>2, <2>3 DEF FlightInv, OneFlight, Fetching
    <2>5. ASSUME NEW q \in Readers, reader'[q].pc = "wait" PROVE services'[reader'[q].id].flight # None
        <3>1. reader[q].pc = "wait" /\ reader'[q].id = reader[q].id /\ reader[q].id \in Ids
            BY <2>1, <2>5 DEF FlightInv, TypeInv, TypeOK
        <3> QED
            BY <2>2, <3>1, KeeperAssumption DEF FlightInv, OneFlight, ServiceOf
    <2> QED
        BY <2>4, <2>5 DEF OneFlight, Fetching, ServiceOf
<1> QED
    BY <1>2, <1>3, <1>4, <1>5 DEF Get, GetWith

LEMMA FlightLand ==
    ASSUME FlightInv, NEW r \in Readers, Land(r)
    PROVE  OneFlight'
<1> DEFINE id == reader[r].id
<1>1. /\ reader[r].pc = "land" /\ id \in Ids
      /\ reader \in [Readers -> Reader] /\ services \in [Ids -> Service]
    BY DEF Land, FlightInv, TypeInv, TypeOK
<1>2. PICK new, reply : /\ services' = [services EXCEPT ![id] = new] /\ new.flight = None
                        /\ Deliver(id, r, reply)
    <2>1. [services[id] EXCEPT !.flight = None].flight = None /\ Landed(services[id], r).flight = None
        BY <1>1 DEF Service, Landed
    <2> QED
        BY <2>1 DEF Land
<1>3. \A i \in Ids : services'[i].flight = IF i = id THEN None ELSE services[i].flight
    BY <1>1, <1>2
<1>4. ASSUME NEW q \in Readers
      PROVE  IF q = r \/ (reader[q].pc = "wait" /\ reader[q].id = id)
             THEN reader'[q].pc = "check" ELSE reader'[q] = reader[q]
    <2>1. reader[q] \in Reader
        BY <1>1
    <2> QED
        BY <1>2, <2>1 DEF Deliver, Reader
<1>5. ASSUME NEW q \in Readers, Fetching(q, id) PROVE q = r
    <2>1. services[id].flight = q /\ services[id].flight = r
        BY <1>1, <1>5 DEF FlightInv, OneFlight, Fetching
    <2> QED
        BY <2>1
<1> HIDE DEF id
<1>6. \A i \in Ids, q \in Readers : services'[i].flight = q <=> Fetching(q, i)'
    <2> SUFFICES ASSUME NEW i \in Ids, NEW q \in Readers PROVE services'[i].flight = q <=> Fetching(q, i)'
        OBVIOUS
    <2>1. services[i].flight = q <=> Fetching(q, i)
        BY DEF FlightInv, OneFlight, Fetching
    <2>2. q # None
        BY KeeperAssumption
    <2>3. r \in Readers /\ Fetching(r, id)
        BY <1>1 DEF Fetching, id
    <2> QED
        BY <1>3, <1>4, <1>5, <2>1, <2>2, <2>3 DEF Fetching
<1>7. ASSUME NEW q \in Readers, reader'[q].pc = "wait" PROVE services'[reader'[q].id].flight # None
    <2>1. reader'[q] = reader[q] /\ reader[q].pc = "wait" /\ reader[q].id # id
        BY <1>4, <1>7
    <2>2. reader[q].id \in Ids
        BY <2>1 DEF FlightInv, TypeInv, TypeOK
    <2> QED
        BY <1>3, <2>1, <2>2 DEF FlightInv, OneFlight, ServiceOf
<1> QED
    BY <1>6, <1>7 DEF OneFlight, Fetching, ServiceOf

LEMMA FlightReader ==
    ASSUME FlightInv, NEW r \in Readers,
           Request(r) \/ Select(r) \/ Install(r) \/ Fetch(r) \/ GiveUp(r) \/ Check(r)
    PROVE  OneFlight'
<1>1. reader \in [Readers -> Reader] /\ reader[r] \in Reader
    BY DEF FlightInv, TypeInv, TypeOK
<1>2. CASE Request(r)
    <2>1. reader'[r].pc = "select" /\ \A q \in Readers \ {r} : reader'[q] = reader[q]
        BY <1>1, <1>2 DEF Request, Answered
    <2> QED
        BY <1>2, <2>1, FlightsKeptBy DEF Request, serviceVars
<1>3. CASE Select(r)
    <2>1. CASE reader' = [reader EXCEPT ![r].pc = "install"]
        <3>1. reader'[r].pc = "install" /\ \A q \in Readers \ {r} : reader'[q] = reader[q]
            BY <1>1, <2>1 DEF Reader
        <3> QED
            BY <1>3, <3>1, FlightsKeptBy DEF Select, serviceVars
    <2> QED
        BY <1>3, <2>1, FlightsKeptByAnswer DEF Select, serviceVars
<1>4. CASE Install(r)
    <2>1. \A i \in Ids : services'[i].flight = services[i].flight
        BY <1>4, FlightsPlaced DEF Install
    <2>2. CASE reader' = [reader EXCEPT ![r] = [@ EXCEPT !.pc = "get", !.id = current']]
        <3>1. reader'[r].pc = "get" /\ \A q \in Readers \ {r} : reader'[q] = reader[q]
            BY <1>1, <2>2 DEF Reader
        <3> QED
            BY <1>4, <2>1, <3>1, FlightsKeptBy DEF Install
    <2>3. CASE reader' = Answer(r, Down)
        BY <1>4, <2>1, <2>3, AnswerEnds, FlightsKeptBy DEF Install
    <2> QED
        BY <1>4, <2>2, <2>3 DEF Install
<1>5. CASE Fetch(r)
    <2>1. PICK result, reply :
            reader' = [reader EXCEPT ![r] = [@ EXCEPT !.pc = "land", !.result = result, !.reply = reply]]
        BY <1>5 DEF Fetch
    <2>2. /\ reader'[r].pc = "land" /\ reader'[r].id = reader[r].id
          /\ \A q \in Readers \ {r} : reader'[q] = reader[q]
        BY <1>1, <2>1 DEF Reader
    <2> QED
        BY <1>5, <2>2, FlightsKept DEF Fetch, serviceVars, Fetching
<1>6. CASE GiveUp(r)
    BY <1>6, FlightsKeptByAnswer DEF GiveUp, serviceVars
<1>7. CASE Check(r)
    BY <1>7, FlightsKeptByAnswer DEF Check, serviceVars
<1> QED
    BY <1>2, <1>3, <1>4, <1>5, <1>6, <1>7

LEMMA FlightOthers ==
    ASSUME FlightInv,
           \/ Tick \/ RenameBegin \/ RenameInstall \/ RenameList \/ RenamePatch \/ RenamePublish
           \/ (\E c \in Connections : Reconfigure(c)) \/ Reset \/ UNCHANGED vars
    PROVE  OneFlight'
<1>1. services \in [Ids -> Service] /\ reader \in [Readers -> Reader]
    BY DEF FlightInv, TypeInv, TypeOK
<1>2. CASE Tick
    <2>1. ASSUME NEW q \in Readers PROVE reader'[q].pc = reader[q].pc /\ reader'[q].id = reader[q].id
        <3>1. reader[q] \in Reader
            BY <1>1
        <3> QED
            BY <1>2, <3>1 DEF Tick, Reader
    <2>2. ASSUME NEW i \in Ids PROVE services'[i].flight = services[i].flight
        <3>1. services[i] \in Service
            BY <1>1
        <3> QED
            BY <1>2, <3>1 DEF Tick, Service
    <2> QED
        BY <2>1, <2>2, FlightsKept DEF Fetching
<1>3. ASSUME UNCHANGED reader, \A i \in Ids : services'[i].flight = services[i].flight
      PROVE  OneFlight'
    BY <1>3, FlightsKept DEF Fetching
<1>4. CASE RenameInstall
    BY <1>3, <1>4, FlightsPlaced DEF RenameInstall, renameOnly
<1>5. CASE RenamePublish
    <2>1. ASSUME NEW i \in Ids PROVE services'[i].flight = services[i].flight
        <3>1. services[i] \in Service
            BY <1>1
        <3> QED
            BY <1>1, <1>5, <3>1 DEF RenamePublish, Published, Service
    <2> QED
        BY <1>3, <1>5, <2>1 DEF RenamePublish, renameOnly
<1>6. CASE RenameBegin \/ RenameList \/ RenamePatch
    BY <1>3, <1>6 DEF RenameBegin, RenameList, RenamePatch, renameOnly, serviceVars
<1>7. CASE (\E c \in Connections : Reconfigure(c)) \/ Reset \/ UNCHANGED vars
    BY <1>3, <1>7 DEF Reconfigure, Reset, vars, serviceVars
<1> QED
    BY <1>2, <1>4, <1>5, <1>6, <1>7

LEMMA FlightStep == FlightInv /\ [Next]_vars => FlightInv'
<1> SUFFICES ASSUME FlightInv, [Next]_vars PROVE OneFlight'
    BY TypeStep DEF FlightInv
<1> QED
    BY FlightGet, FlightLand, FlightReader, FlightOthers DEF Next

\* However many requests there are and whenever a rename or a new configuration
\* comes in between, a service is read by one request at a time, and nobody waits
\* for a read that has ended.
THEOREM ReadsAreSingle == Spec => []OneFlight
<1>1. FlightInv => OneFlight
    BY DEF FlightInv
<1> QED
    BY <1>1, FlightInit, FlightStep, PTL DEF Spec

-----------------------------------------------------------------------------
(* The age of a list.  What a fetch brings is no older than its request,   *)
(* what the cache holds ages against the time it is still valid, and what  *)
(* a rename published during a fetch was read within the rename's own      *)
(* deadline.                                                               *)

Limit(r) == IF reader[r].force THEN 2 * Deadline ELSE CacheFor + Deadline - 1

ReaderAge(r) ==
    /\ reader[r].pc \in {"select", "install", "get", "wait", "fetch"} =>
         reader[r].reply.kind # "ready"
    /\ reader[r].pc = "land" /\ reader[r].reply.kind = "ready" =>
         reader[r].reply.age <= reader[r].age /\ reader[r].result = "ok"
    /\ reader[r].pc \in {"fetch", "land"} /\ reader[r].generation # ServiceOf(r).generation
         /\ ServiceOf(r).cached.kind = "ready" =>
         ServiceOf(r).cached.age <= Deadline + reader[r].age
    /\ reader[r].pc \in {"check", "done"} /\ reader[r].reply.kind = "ready" =>
         reader[r].reply.age <= reader[r].age + Limit(r)

ServiceAge(s) ==
    s.cached.kind = "ready" =>
        /\ s.retryAfter = 0
        /\ s.validFor > 0 => s.cached.age + s.validFor <= CacheFor + Deadline

RenameAge == rename.reply.kind = "ready" => rename.reply.age <= rename.age

AgeInv == /\ FlightInv /\ RenameAge
          /\ \A i \in Ids : ServiceAge(services[i])
          /\ \A r \in Readers : ReaderAge(r)

LEMMA Ages ==
    ASSUME TypeInv
    PROVE  /\ \A r \in Readers : /\ reader[r] \in Reader /\ reader[r].age \in 0..Deadline
                                 /\ reader[r].reply.age \in Nat /\ Limit(r) \in Int
           /\ \A i \in Ids : /\ services[i] \in Service /\ services[i].cached.age \in Nat
                             /\ services[i].validFor \in 0..CacheFor
           /\ rename \in Rename /\ rename.age \in 0..Deadline /\ rename.reply.age \in Nat
           /\ CacheFor \in Nat /\ Deadline \in Nat /\ Deadline + 1 <= CacheFor
<1>1. Oldest \in Nat /\ CacheFor \in Nat /\ Deadline \in Nat /\ Deadline + 1 <= CacheFor
    BY IdsAre, KeeperAssumption
<1>2. /\ \A r \in Readers : reader[r] \in Reader
      /\ \A i \in Ids : services[i] \in Service
      /\ rename \in Rename
    BY DEF TypeInv, TypeOK
<1>3. \A x \in Reply : x.age \in Nat
    BY <1>1 DEF Reply
<1> QED
    BY <1>1, <1>2, <1>3 DEF Reader, Service, Rename, Limit

LEMMA AgeInit == Init => AgeInv
<1> SUFFICES ASSUME Init PROVE AgeInv
    OBVIOUS
<1>1. \A r \in Readers : reader[r].pc = "done" /\ reader[r].reply.kind # "ready"
    BY DEF Init, Answered, Down
<1>2. \A i \in Ids : services[i].cached.kind # "ready"
    BY DEF Init, NewService, Nothing
<1>3. rename.reply.kind # "ready"
    BY DEF Init, IdleRename, Nothing
<1> QED
    BY <1>1, <1>2, <1>3, FlightInit DEF AgeInv, ReaderAge, ServiceAge, RenameAge

\* A step of one request; of the services, only who is reading them may change.
LEMMA AgeOneReader ==
    ASSUME AgeInv, NEW r \in Readers, UNCHANGED rename,
           \A q \in Readers \ {r} : reader'[q] = reader[q],
           \A i \in Ids : /\ services'[i].cached = services[i].cached
                          /\ services'[i].generation = services[i].generation
                          /\ services'[i].validFor = services[i].validFor
                          /\ services'[i].retryAfter = services[i].retryAfter,
           ReaderAge(r)'
    PROVE  /\ \A q \in Readers : ReaderAge(q)'
           /\ \A i \in Ids : ServiceAge(services[i])'
           /\ RenameAge'
<1>1. ASSUME NEW q \in Readers \ {r} PROVE ReaderAge(q)'
    <2>1. reader'[q] = reader[q] /\ ReaderAge(q)
        BY <1>1 DEF AgeInv
    <2>2. reader[q].pc \in {"fetch", "land"} => reader[q].id \in Ids
        BY DEF AgeInv, FlightInv, TypeInv, TypeOK
    <2> QED
        BY <2>1, <2>2 DEF ReaderAge, Limit, ServiceOf
<1>2. \A i \in Ids : ServiceAge(services[i])'
    BY DEF AgeInv, ServiceAge
<1> QED
    BY <1>1, <1>2 DEF AgeInv, RenameAge

AgeParts == /\ \A q \in Readers : ReaderAge(q)'
            /\ \A i \in Ids : ServiceAge(services[i])'
            /\ RenameAge'

LEMMA AgeAnswer ==
    ASSUME AgeInv, NEW r \in Readers, NEW reply \in Reply, reader' = Answer(r, reply),
           reply.kind = "ready" => reply.age <= reader[r].age + Limit(r),
           UNCHANGED <<services, rename>>
    PROVE  AgeParts
<1>1. reader \in [Readers -> Reader]
    BY DEF AgeInv, FlightInv, TypeInv, TypeOK
<1>2. /\ \A q \in Readers \ {r} : reader'[q] = reader[q]
      /\ reader'[r].pc = "done"
      /\ \/ reader'[r].reply.kind # "ready"
         \/ /\ reader'[r].reply = reply /\ reader'[r].age = reader[r].age
            /\ reader'[r].force = reader[r].force /\ reply.kind = "ready"
    BY <1>1 DEF Answer, Answered, Down
<1>3. ReaderAge(r)'
    BY <1>2 DEF ReaderAge, Limit
<1> QED
    BY <1>2, <1>3, AgeOneReader DEF AgeParts

LEMMA AgePlaced ==
    ASSUME AgeInv, NEW c, Place(c)
    PROVE  \A i \in Ids : services'[i] = services[i] \/ services'[i].cached.kind # "ready"
BY DEF Place, NewService, Nothing, AgeInv, FlightInv, TypeInv, TypeOK

\* Where services are new or the same, and no request moves but the given one.
LEMMA AgeByPlace ==
    ASSUME AgeInv, NEW c, Place(c), NEW R \in SUBSET Readers,
           \A q \in Readers \ R : reader'[q] = reader[q],
           \A r \in R : reader'[r].pc \in {"get", "done"} /\ reader'[r].reply.kind # "ready"
    PROVE  /\ \A q \in Readers : ReaderAge(q)'
           /\ \A i \in Ids : ServiceAge(services[i])'
<1>1. \A i \in Ids : services'[i] = services[i] \/ services'[i].cached.kind # "ready"
    BY AgePlaced
<1>2. ASSUME NEW q \in Readers \ R PROVE ReaderAge(q)'
    <2>1. reader'[q] = reader[q] /\ ReaderAge(q)
        BY <1>2 DEF AgeInv
    <2>2. reader[q].pc \in {"fetch", "land"} => reader[q].id \in Ids
        BY DEF AgeInv, FlightInv, TypeInv, TypeOK
    <2> QED
        BY <1>1, <2>1, <2>2 DEF ReaderAge, Limit, ServiceOf
<1>3. \A r \in R : ReaderAge(r)'
    BY DEF ReaderAge
<1>4. \A i \in Ids : ServiceAge(services[i])'
    BY <1>1 DEF AgeInv, ServiceAge
<1> QED
    BY <1>2, <1>3, <1>4

LEMMA AgeReader ==
    ASSUME AgeInv, NEW r \in Readers,
           Request(r) \/ Select(r) \/ Install(r) \/ Fetch(r) \/ GiveUp(r) \/ Check(r)
    PROVE  AgeParts
<1>1. /\ reader \in [Readers -> Reader] /\ reader[r] \in Reader /\ ReaderAge(r)
      /\ reader[r].reply \in Reply
    BY DEF AgeInv, FlightInv, TypeInv, TypeOK, Reader
<1>2. Down \in Reply /\ Down.kind # "ready"
    BY ReplyType DEF Down
<1>3. CASE Request(r)
    <2>1. /\ reader'[r].pc = "select" /\ reader'[r].reply.kind # "ready"
          /\ \A q \in Readers \ {r} : reader'[q] = reader[q]
        <3>1. PICK new :
                 /\ reader' = [reader EXCEPT ![r] = new]
                 /\ new.pc = "select" /\ new.reply = Down
            <4>1. PICK force \in BOOLEAN :
                     reader' = [reader EXCEPT ![r] =
                                  [Answered(loaded) EXCEPT
                                     !.pc = "select", !.force = force,
                                     !.floor = IF loaded \in Keepers THEN acked[loaded] ELSE 0]]
                BY <1>3 DEF Request
            <4> DEFINE new == [Answered(loaded) EXCEPT
                                 !.pc = "select", !.force = force,
                                 !.floor = IF loaded \in Keepers THEN acked[loaded] ELSE 0]
            <4>2. new.pc = "select" /\ new.reply = Down
                BY DEF Answered
            <4> QED
                BY <4>1, <4>2
        <3> QED
            BY <1>1, <1>2, <3>1
    <2>2. ReaderAge(r)'
        BY <2>1 DEF ReaderAge
    <2> QED
        BY <1>3, <2>1, <2>2, AgeOneReader DEF AgeParts, Request, readerOnly, serviceVars
<1>4. CASE Select(r)
    <2>1. CASE reader' = Answer(r, Down)
        BY <1>2, <1>4, <2>1, AgeAnswer DEF Select, readerOnly, serviceVars
    <2>2. CASE reader' = [reader EXCEPT ![r].pc = "install"]
        <3>1. /\ reader'[r].pc = "install" /\ reader'[r].reply = reader[r].reply
              /\ \A q \in Readers \ {r} : reader'[q] = reader[q]
            BY <1>1, <2>2 DEF Reader
        <3>2. ReaderAge(r)'
            BY <1>1, <1>4, <3>1 DEF Select, ReaderAge
        <3> QED
            BY <1>4, <3>1, <3>2, AgeOneReader DEF AgeParts, Select, readerOnly, serviceVars
    <2> QED
        BY <1>4, <2>1, <2>2 DEF Select
<1>5. CASE Install(r)
    <2>1. /\ \A q \in Readers \ {r} : reader'[q] = reader[q]
          /\ reader'[r].pc \in {"get", "done"} /\ reader'[r].reply.kind # "ready"
        <3>1. CASE reader' = [reader EXCEPT ![r] = [@ EXCEPT !.pc = "get", !.id = current']]
            <4>1. reader[r].pc = "install" /\ reader[r].reply.kind # "ready"
                BY <1>1, <1>5 DEF Install, ReaderAge
            <4>2. reader'[r].pc = "get" /\ reader'[r].reply = reader[r].reply
                  /\ \A q \in Readers \ {r} : reader'[q] = reader[q]
                BY <1>1, <3>1 DEF Reader
            <4> QED
                BY <4>1, <4>2
        <3>2. CASE reader' = Answer(r, Down)
            BY <1>1, <1>2, <3>2 DEF Answer, Answered, Down
        <3> QED
            BY <1>5, <3>1, <3>2 DEF Install
    <2>2. Place(reader[r].connection) /\ UNCHANGED rename
        BY <1>5 DEF Install, readerOnly
    <2>3. /\ \A q \in Readers : ReaderAge(q)'
          /\ \A i \in Ids : ServiceAge(services[i])'
        <3>1. {r} \in SUBSET Readers
            OBVIOUS
        <3> QED
            BY <2>1, <2>2, <3>1, AgeByPlace
    <2> QED
        BY <2>2, <2>3 DEF AgeParts, AgeInv, RenameAge
<1>6. CASE Fetch(r)
    <2>1. PICK result \in {"ok", "failed", "refused"} :
            reader' = [reader EXCEPT ![r] =
                         [@ EXCEPT !.pc = "land", !.result = result,
                                   !.reply = IF result = "ok"
                                             THEN Ready(names[reader[r].connection])
                                             ELSE Down]]
        BY <1>6 DEF Fetch
    <2>2. /\ reader'[r].pc = "land" /\ reader'[r].id = reader[r].id
          /\ reader'[r].generation = reader[r].generation /\ reader'[r].age = reader[r].age
          /\ reader'[r].result = result
          /\ reader'[r].reply.kind = "ready" => result = "ok" /\ reader'[r].reply.age = 0
          /\ \A q \in Readers \ {r} : reader'[q] = reader[q]
        BY <1>1, <2>1 DEF Reader, Ready, Down
    <2>3. UNCHANGED <<services, rename>> /\ reader[r].age \in Nat
        BY <1>1, <1>6, IdsAre DEF Fetch, readerOnly, serviceVars, Reader
    <2>4. ReaderAge(r)'
        BY <1>1, <1>6, <2>2, <2>3 DEF Fetch, ReaderAge, ServiceOf
    <2> QED
        BY <2>2, <2>3, <2>4, AgeOneReader DEF AgeParts
<1>7. CASE GiveUp(r)
    BY <1>2, <1>7, AgeAnswer DEF GiveUp, readerOnly, serviceVars
<1>8. CASE Check(r)
    <2>1. PICK reply \in {reader[r].reply, Down} : reader' = Answer(r, reply)
        BY <1>8 DEF Check
    <2>2. reply.kind = "ready" => reply.age <= reader[r].age + Limit(r)
        BY <1>1, <1>2, <1>8, <2>1 DEF Check, ReaderAge
    <2> QED
        BY <1>1, <1>2, <1>8, <2>1, <2>2, AgeAnswer DEF Check, readerOnly, serviceVars
<1> QED
    BY <1>3, <1>4, <1>5, <1>6, <1>7, <1>8

LEMMA AgeGet ==
    ASSUME AgeInv, NEW r \in Readers, Get(r)
    PROVE  AgeParts
<1> DEFINE s == ServiceOf(r)
<1>1. /\ reader[r].pc = "get" /\ reader[r].id \in Ids /\ ReaderAge(r)
      /\ reader \in [Readers -> Reader] /\ reader[r] \in Reader
      /\ services \in [Ids -> Service] /\ s \in Service /\ ServiceAge(s)
      /\ UNCHANGED rename
    BY DEF Get, GetWith, AgeInv, FlightInv, TypeInv, TypeOK, readerOnly, ServiceOf
<1>2. CASE reader' = Answer(r, Down) /\ UNCHANGED services
    BY <1>1, <1>2, ReplyType, AgeAnswer DEF Down
<1>3. CASE /\ Cooling(s) \/ (~reader[r].force /\ Fresh(s))
           /\ reader' = [reader EXCEPT ![r] = [@ EXCEPT !.pc = "check", !.reply = s.cached]]
           /\ UNCHANGED services
    <2>1. /\ \A q \in Readers \ {r} : reader'[q] = reader[q]
          /\ reader'[r].pc = "check" /\ reader'[r].reply = s.cached
          /\ reader'[r].age = reader[r].age /\ reader'[r].force = reader[r].force
        BY <1>1, <1>3 DEF Reader
    <2>2. s.cached.kind = "ready" => s.cached.age <= reader[r].age + Limit(r)
        <3> SUFFICES ASSUME s.cached.kind = "ready"
                     PROVE  s.cached.age <= reader[r].age + Limit(r)
            OBVIOUS
        <3>1. /\ ~reader[r].force /\ s.validFor > 0
              /\ s.cached.age + s.validFor <= CacheFor + Deadline
            BY <1>1, <1>3 DEF ServiceAge, Cooling, Fresh, Service
        <3>2. /\ s.cached.age \in Nat /\ s.validFor \in Nat /\ reader[r].age \in Nat
              /\ CacheFor \in Nat /\ Deadline \in Nat
            BY <1>1, Ages DEF AgeInv, FlightInv, ServiceOf
        <3> QED
            BY <3>1, <3>2 DEF Limit
    <2>3. ReaderAge(r)'
        BY <2>1, <2>2 DEF ReaderAge, Limit
    <2> QED
        BY <1>1, <1>3, <2>1, <2>3, AgeOneReader DEF AgeParts
<1>4. CASE reader' = [reader EXCEPT ![r].pc = "wait"] /\ UNCHANGED services
    <2>1. /\ \A q \in Readers \ {r} : reader'[q] = reader[q]
          /\ reader'[r].pc = "wait" /\ reader'[r].reply = reader[r].reply
        BY <1>1, <1>4 DEF Reader
    <2>2. ReaderAge(r)'
        BY <1>1, <2>1 DEF ReaderAge
    <2> QED
        BY <1>1, <1>4, <2>1, <2>2, AgeOneReader DEF AgeParts
<1>5. CASE /\ reader' = [reader EXCEPT ![r] = [@ EXCEPT !.pc = "fetch", !.generation = s.generation]]
           /\ services' = [services EXCEPT ![reader[r].id].flight = r]
    <2>1. /\ \A q \in Readers \ {r} : reader'[q] = reader[q]
          /\ reader'[r].pc = "fetch" /\ reader'[r].reply = reader[r].reply
          /\ reader'[r].id = reader[r].id /\ reader'[r].generation = s.generation
        BY <1>1, <1>5 DEF Reader
    <2>2. \A i \in Ids : /\ services'[i].cached = services[i].cached
                         /\ services'[i].generation = services[i].generation
                         /\ services'[i].validFor = services[i].validFor
                         /\ services'[i].retryAfter = services[i].retryAfter
        BY <1>1, <1>5 DEF Service
    <2>3. ReaderAge(r)'
        BY <1>1, <2>1, <2>2 DEF ReaderAge, ServiceOf
    <2> QED
        BY <1>1, <2>1, <2>2, <2>3, AgeOneReader DEF AgeParts
<1> QED
    BY <1>1, <1>2, <1>3, <1>4, <1>5 DEF Get, GetWith

\* A list that lands is handed to its request and to those that wait; another
\* request that reads, reads another service.
LEMMA AgeDeliver ==
    ASSUME AgeInv, NEW r \in Readers, reader[r].pc = "land",
           NEW reply \in Reply, Deliver(reader[r].id, r, reply),
           reply.kind = "ready" => reply.age <= 2 * Deadline,
           \A i \in Ids \ {reader[r].id} : services'[i] = services[i]
    PROVE  \A q \in Readers : ReaderAge(q)'
<1> SUFFICES ASSUME NEW q \in Readers PROVE ReaderAge(q)'
    OBVIOUS
<1>1. /\ reader \in [Readers -> Reader] /\ reader[q] \in Reader /\ ReaderAge(q)
      /\ reader[q].pc \in {"fetch", "land"} => reader[q].id \in Ids
      /\ reader[r].id \in Ids
    BY DEF AgeInv, FlightInv, TypeInv, TypeOK
<1>2. CASE q = r \/ (reader[q].pc = "wait" /\ reader[q].id = reader[r].id)
    <2>1. /\ reader'[q].pc = "check" /\ reader'[q].reply = reply
          /\ reader'[q].age = reader[q].age /\ reader'[q].force = reader[q].force
        BY <1>1, <1>2 DEF Deliver, Reader
    <2>2. reply.kind = "ready" => reply.age <= reader[q].age + Limit(q)
        <3>1. /\ reader[q].age \in Nat /\ reply.age \in Nat
              /\ CacheFor \in Nat /\ Deadline \in Nat /\ Deadline + 1 <= CacheFor
            BY Ages, IdsAre DEF AgeInv, FlightInv, Reply
        <3> QED
            BY <3>1 DEF Limit
    <2> QED
        BY <2>1, <2>2 DEF ReaderAge, Limit
<1>3. CASE ~(q = r \/ (reader[q].pc = "wait" /\ reader[q].id = reader[r].id))
    <2>1. reader'[q] = reader[q]
        BY <1>3 DEF Deliver
    <2>2. reader[q].pc \in {"fetch", "land"} =>
            reader[q].id \in Ids /\ services'[reader[q].id] = services[reader[q].id]
        BY <1>1, <1>3 DEF AgeInv, FlightInv, OneFlight
    <2> QED
        BY <1>1, <2>1, <2>2 DEF ReaderAge, Limit, ServiceOf
<1> QED
    BY <1>2, <1>3

LEMMA AgeLand ==
    ASSUME AgeInv, NEW r \in Readers, Land(r)
    PROVE  AgeParts
<1> DEFINE s == ServiceOf(r)
           mine == reader[r]
<1>1. /\ mine.pc = "land" /\ mine.id \in Ids /\ mine \in Reader /\ ReaderAge(r)
      /\ services \in [Ids -> Service] /\ s \in Service /\ ServiceAge(s)
      /\ s.cached \in Reply /\ mine.reply \in Reply
      /\ UNCHANGED rename
    BY DEF Land, AgeInv, FlightInv, TypeInv, TypeOK, readerOnly, ServiceOf, Reader, Service
<1>2. /\ mine.age \in 0..Deadline /\ Deadline \in Nat /\ CacheFor \in Nat
      /\ s.cached.age \in Nat /\ mine.reply.age \in Nat
    BY <1>1, Ages DEF AgeInv, FlightInv, ServiceOf
<1>3. RenameAge'
    BY <1>1 DEF AgeInv, RenameAge
<1>4. CASE /\ s.generation # mine.generation
           /\ services' = [services EXCEPT ![mine.id].flight = None]
           /\ Deliver(mine.id, r, s.cached)
    <2>1. s.cached.kind = "ready" => s.cached.age <= 2 * Deadline
        BY <1>1, <1>2, <1>4 DEF ReaderAge
    <2>2. \A q \in Readers : ReaderAge(q)'
        BY <1>1, <1>4, <2>1, AgeDeliver
    <2>3. ASSUME NEW i \in Ids PROVE ServiceAge(services[i])'
        <3>1. /\ services[i] \in Service /\ ServiceAge(services[i])
              /\ services'[i] = [services[i] EXCEPT !.flight = services'[i].flight]
            BY <1>1, <1>4 DEF AgeInv, Service
        <3>2. /\ services'[i].cached = services[i].cached
              /\ services'[i].validFor = services[i].validFor
              /\ services'[i].retryAfter = services[i].retryAfter
            BY <3>1 DEF Service
        <3> QED
            BY <3>1, <3>2 DEF ServiceAge
    <2> QED
        BY <1>3, <2>2, <2>3 DEF AgeParts
<1>5. CASE /\ services' = [services EXCEPT ![mine.id] = Landed(@, r)]
           /\ Deliver(mine.id, r, mine.reply)
    <2>1. mine.reply.kind = "ready" => mine.reply.age <= Deadline /\ mine.result = "ok"
        BY <1>1, <1>2 DEF ReaderAge
    <2>2. mine.reply.kind = "ready" => mine.reply.age <= 2 * Deadline
        BY <1>2, <2>1
    <2>3. \A q \in Readers : ReaderAge(q)'
        BY <1>1, <1>5, <2>2, AgeDeliver
    <2>4. ASSUME NEW i \in Ids PROVE ServiceAge(services[i])'
        <3>1. CASE i = mine.id
            <4>1. services'[i] = Landed(s, r)
                BY <1>1, <1>5, <3>1 DEF ServiceOf
            <4>2. /\ services'[i].cached = mine.reply
                  /\ mine.result = "ok" =>
                       services'[i].validFor = CacheFor /\ services'[i].retryAfter = 0
                BY <1>1, <4>1 DEF Landed, Service
            <4> QED
                BY <1>2, <2>1, <4>2 DEF ServiceAge
        <3>2. CASE i # mine.id
            BY <1>1, <1>5, <3>2 DEF AgeInv, ServiceAge
        <3> QED
            BY <3>1, <3>2
    <2> QED
        BY <1>3, <2>3, <2>4 DEF AgeParts
<1> QED
    BY <1>4, <1>5 DEF Land

LEMMA AgeOlder ==
    ASSUME NEW reply \in Reply
    PROVE  /\ Older(reply).kind = reply.kind
           /\ reply.age \in Nat /\ Older(reply).age \in Nat
           /\ Older(reply).age <= reply.age + 1
BY IdsAre DEF Older, Reply

LEMMA AgeTick ==
    ASSUME AgeInv, Tick
    PROVE  AgeParts
<1>1. /\ services \in [Ids -> Service] /\ reader \in [Readers -> Reader] /\ rename \in Rename
      /\ CacheFor \in Nat /\ Deadline \in Nat
    BY Ages DEF AgeInv, FlightInv, TypeInv, TypeOK
<1>2. ASSUME NEW i \in Ids
      PROVE  /\ services'[i].generation = services[i].generation
             /\ services'[i].cached = Older(services[i].cached)
             /\ services'[i].validFor = Less(services[i].validFor)
             /\ services'[i].retryAfter = Less(services[i].retryAfter)
             /\ services[i].cached \in Reply /\ services[i].validFor \in 0..CacheFor
    <2>1. services[i] \in Service
        BY <1>1
    <2> QED
        BY <2>1 DEF Tick, Service
<1>3. ASSUME NEW i \in Ids PROVE ServiceAge(services[i])'
    <2>1. ServiceAge(services[i])
        BY DEF AgeInv
    <2>2. /\ services[i].cached.age \in Nat /\ services'[i].cached.age \in Nat
          /\ services'[i].cached.kind = services[i].cached.kind
          /\ services'[i].cached.age <= services[i].cached.age + 1
        BY <1>2, AgeOlder
    <2>3. /\ services[i].retryAfter = 0 => services'[i].retryAfter = 0
          /\ services'[i].validFor > 0 =>
               services[i].validFor > 0 /\ services'[i].validFor = services[i].validFor - 1
        BY <1>1, <1>2 DEF Less
    <2>4. services[i].validFor \in Nat
        BY <1>1, <1>2
    <2> QED
        BY <1>1, <2>1, <2>2, <2>3, <2>4 DEF ServiceAge
<1>4. ASSUME NEW q \in Readers PROVE ReaderAge(q)'
    <2>1. /\ reader[q] \in Reader /\ ReaderAge(q) /\ reader[q].reply \in Reply
          /\ reader[q].age \in Nat
          /\ reader[q].pc \in {"fetch", "land"} => reader[q].id \in Ids
        BY <1>1, Ages DEF AgeInv, FlightInv, TypeInv, TypeOK, Reader
    <2>2. CASE reader[q].pc = "done"
        BY <1>1, <2>1, <2>2 DEF Tick, ReaderAge, Limit
    <2>3. CASE reader[q].pc # "done"
        <3>1. /\ reader'[q].pc = reader[q].pc /\ reader'[q].id = reader[q].id
              /\ reader'[q].generation = reader[q].generation
              /\ reader'[q].result = reader[q].result /\ reader'[q].force = reader[q].force
              /\ reader'[q].age = reader[q].age + 1
              /\ reader'[q].reply = Older(reader[q].reply)
            BY <1>1, <2>1, <2>3 DEF Tick, Reader
        <3>2. /\ reader'[q].reply.kind = reader[q].reply.kind
              /\ reader[q].reply.age \in Nat /\ reader'[q].reply.age \in Nat
              /\ reader'[q].reply.age <= reader[q].reply.age + 1
            BY <2>1, <3>1, AgeOlder
        <3>3. /\ Limit(q)' = Limit(q) /\ Limit(q) \in Int
            BY <1>1, <3>1 DEF Limit
        <3>4. reader[q].pc \in {"fetch", "land"} =>
                /\ ServiceOf(q)'.generation = ServiceOf(q).generation
                /\ ServiceOf(q)'.cached.kind = ServiceOf(q).cached.kind
                /\ ServiceOf(q).cached.age \in Nat /\ ServiceOf(q)'.cached.age \in Nat
                /\ ServiceOf(q)'.cached.age <= ServiceOf(q).cached.age + 1
            BY <1>2, <2>1, <3>1, AgeOlder DEF ServiceOf
        <3>5. reader[q].pc \in {"fetch", "land"} /\ reader[q].generation # ServiceOf(q).generation
                /\ ServiceOf(q)'.cached.kind = "ready" =>
                ServiceOf(q)'.cached.age <= Deadline + reader'[q].age
            BY <1>1, <2>1, <3>1, <3>4 DEF ReaderAge
        <3>6. reader[q].pc = "land" /\ reader'[q].reply.kind = "ready" =>
                reader'[q].reply.age <= reader'[q].age
            BY <2>1, <3>1, <3>2 DEF ReaderAge
        <3>7. reader[q].pc \in {"check", "done"} /\ reader'[q].reply.kind = "ready" =>
                reader'[q].reply.age <= reader'[q].age + Limit(q)
            BY <2>1, <3>1, <3>2, <3>3 DEF ReaderAge
        <3> QED
            BY <2>1, <3>1, <3>2, <3>3, <3>4, <3>5, <3>6, <3>7 DEF ReaderAge
    <2> QED
        BY <2>2, <2>3
<1>5. RenameAge'
    <2>1. rename.reply \in Reply /\ rename.age \in Nat
        BY <1>1, Ages DEF AgeInv, FlightInv, Rename
    <2>2. CASE rename.pc = "idle"
        BY <2>2 DEF Tick, AgeInv, RenameAge
    <2>3. CASE rename.pc # "idle"
        <3>1. rename'.age = rename.age + 1 /\ rename'.reply = Older(rename.reply)
            BY <1>1, <2>3 DEF Tick, Rename
        <3> QED
            BY <2>1, <3>1, AgeOlder DEF AgeInv, RenameAge
    <2> QED
        BY <2>2, <2>3
<1> QED
    BY <1>3, <1>4, <1>5 DEF AgeParts

\* Where neither the services nor the requests change.
LEMMA AgeStill ==
    ASSUME AgeInv, UNCHANGED <<services, reader>>, RenameAge'
    PROVE  AgeParts
BY DEF AgeInv, AgeParts, ReaderAge, ServiceAge, Limit, ServiceOf

LEMMA AgeRename ==
    ASSUME AgeInv,
           RenameBegin \/ RenameInstall \/ RenameList \/ RenamePatch
    PROVE  AgeParts
<1>1. /\ rename \in Rename /\ rename.age \in Nat /\ RenameAge /\ rename.reply \in Reply
      /\ UNCHANGED reader
    <2>1. UNCHANGED reader
        BY DEF renameOnly, RenameBegin, RenameInstall, RenameList, RenamePatch
    <2>2. RenameAge /\ rename \in Rename /\ rename.age \in 0..Deadline /\ Deadline \in Nat
        BY Ages DEF AgeInv, FlightInv
    <2>3. rename.reply \in Reply
        BY <2>2 DEF Rename
    <2> QED
        BY <2>1, <2>2, <2>3
<1>2. CASE RenameBegin
    <2>1. RenameAge'
        BY <1>2 DEF RenameBegin, IdleRename, Nothing, RenameAge
    <2> QED
        BY <1>1, <1>2, <2>1, AgeStill DEF RenameBegin, serviceVars
<1>3. CASE RenameInstall
    <2>1. RenameAge'
        BY <1>1, <1>3 DEF RenameInstall, IdleRename, Nothing, RenameAge, Rename
    <2>2. Place(rename.connection)
        BY <1>3 DEF RenameInstall
    <2>3. /\ \A q \in Readers : ReaderAge(q)'
          /\ \A i \in Ids : ServiceAge(services[i])'
        <3>1. {} \in SUBSET Readers
            OBVIOUS
        <3> QED
            BY <1>1, <2>2, <3>1, AgeByPlace
    <2> QED
        BY <2>1, <2>3 DEF AgeParts
<1>4. CASE RenameList
    <2>1. RenameAge'
        <3>1. CASE rename' = IdleRename
            BY <3>1 DEF IdleRename, Nothing, RenameAge
        <3>2. CASE rename' = [rename EXCEPT !.pc = "patch",
                                            !.reply = Ready(names[rename.connection])]
            <4>1. rename'.reply.age = 0 /\ rename'.age = rename.age
                BY <1>1, <3>2 DEF Ready, Rename
            <4> QED
                BY <1>1, <4>1 DEF RenameAge
        <3> QED
            BY <1>4, <3>1, <3>2 DEF RenameList
    <2> QED
        BY <1>1, <1>4, <2>1, AgeStill DEF RenameList, serviceVars
<1>5. CASE RenamePatch
    <2>1. PICK reply : /\ rename' = [rename EXCEPT !.pc = "publish", !.reply = reply]
                       /\ \/ reply = Down
                          \/ \E own : reply = [rename.reply EXCEPT !.version = own]
        BY <1>1, <1>5 DEF RenamePatch, Rename
    <2>2. /\ rename'.age = rename.age /\ rename'.reply = reply
          /\ reply.kind = "ready" => rename.reply.kind = "ready" /\ reply.age = rename.reply.age
        BY <1>1, <2>1 DEF Rename, Reply, Down
    <2>3. RenameAge'
        BY <1>1, <2>2 DEF RenameAge
    <2> QED
        BY <1>1, <1>5, <2>3, AgeStill DEF RenamePatch, serviceVars
<1> QED
    BY <1>2, <1>3, <1>4, <1>5

LEMMA AgePublish ==
    ASSUME AgeInv, RenamePublish
    PROVE  AgeParts
<1>1. /\ services \in [Ids -> Service] /\ rename \in Rename /\ RenameAge /\ UNCHANGED reader
      /\ rename.age \in 0..Deadline /\ rename.reply.age \in Nat
      /\ CacheFor \in Nat /\ Deadline \in Nat
    BY Ages DEF AgeInv, FlightInv, TypeInv, TypeOK, RenamePublish, renameOnly
<1>2. rename.reply.kind = "ready" => rename.reply.age <= Deadline
    BY <1>1 DEF RenameAge
<1>3. RenameAge'
    BY DEF RenamePublish, IdleRename, Nothing, RenameAge
<1>4. ASSUME NEW i \in Ids, i = rename.id
      PROVE  /\ services'[i].cached = rename.reply /\ services'[i].retryAfter = 0
             /\ rename.reply.kind = "ready" => services'[i].validFor = CacheFor
    <2>1. services[i] \in Service /\ services'[i] = Published(services[i])
        BY <1>1, <1>4 DEF RenamePublish
    <2> QED
        BY <2>1 DEF Published, Service
<1>5. ASSUME NEW i \in Ids, i # rename.id PROVE services'[i] = services[i]
    BY <1>1, <1>5 DEF RenamePublish
<1>6. ASSUME NEW i \in Ids PROVE ServiceAge(services[i])'
    <2>1. CASE i = rename.id
        BY <1>1, <1>2, <1>4, <2>1 DEF ServiceAge
    <2>2. CASE i # rename.id
        BY <1>5, <2>2 DEF AgeInv, ServiceAge
    <2> QED
        BY <2>1, <2>2
<1>7. ASSUME NEW q \in Readers PROVE ReaderAge(q)'
    <2>1. /\ ReaderAge(q) /\ reader'[q] = reader[q] /\ reader[q].age \in Nat
          /\ reader[q].pc \in {"fetch", "land"} => reader[q].id \in Ids
        BY <1>1, Ages DEF AgeInv, FlightInv, TypeInv, TypeOK
    <2>2. reader[q].pc \in {"fetch", "land"} /\ reader[q].id = rename.id
            /\ ServiceOf(q)'.cached.kind = "ready" =>
            ServiceOf(q)'.cached.age <= Deadline + reader[q].age
        BY <1>1, <1>2, <1>4, <2>1 DEF ServiceOf
    <2>3. reader[q].pc \in {"fetch", "land"} /\ reader[q].id # rename.id =>
            ServiceOf(q)' = ServiceOf(q)
        BY <1>5, <2>1 DEF ServiceOf
    <2> QED
        BY <2>1, <2>2, <2>3 DEF ReaderAge, Limit
<1> QED
    BY <1>3, <1>6, <1>7 DEF AgeParts

LEMMA AgeStep == AgeInv /\ [Next]_vars => AgeInv'
<1> SUFFICES ASSUME AgeInv, [Next]_vars PROVE AgeParts
    BY FlightStep DEF AgeInv, AgeParts
<1>1. CASE (\E c \in Connections : Reconfigure(c)) \/ Reset \/ UNCHANGED vars
    <2>1. UNCHANGED <<services, reader, rename>>
        BY <1>1 DEF Reconfigure, Reset, vars, serviceVars
    <2> QED
        BY <2>1, AgeStill DEF AgeInv, RenameAge
<1> QED
    BY <1>1, AgeTick, AgeReader, AgeGet, AgeLand, AgeRename, AgePublish DEF Next

\* A list is never older than its request may expect, whoever fetched it, whether it
\* comes from the cache, from a fetch that was joined or from a rename in between.
THEOREM ListsAreFresh == Spec => []Freshness
<1>1. ASSUME AgeInv PROVE Freshness
    <2> SUFFICES ASSUME NEW r \in Readers, Told(r)
                 PROVE  reader[r].reply.age - reader[r].age <= Limit(r)
        BY DEF Freshness, Limit
    <2>1. reader[r].reply.age \in Nat /\ reader[r].age \in Nat /\ Limit(r) \in Int
        BY <1>1, Ages DEF AgeInv, FlightInv
    <2>2. reader[r].reply.age <= reader[r].age + Limit(r)
        BY <1>1 DEF AgeInv, ReaderAge, Told
    <2> QED
        BY <2>1, <2>2
<1> QED
    BY <1>1, AgeInit, AgeStep, PTL DEF Spec

=============================================================================
