------------------------- MODULE NotificationService -------------------------
(***************************************************************************)
(* The notification service of the plugin (notification_service.go) with   *)
(* the management calls that share its store (notification_management.go): *)
(*                                                                         *)
(*   - the schedule loop turns due targets into pending jobs;              *)
(*   - the send loop claims due jobs, calls the platform and records the   *)
(*     outcome, the clock and the retry;                                   *)
(*   - the manager, serialised by the management mutex, saves settings,    *)
(*     bumps the revision, stops the instance and starts the next one, or  *)
(*     runs a test send;                                                   *)
(*   - a manual retry runs beside all of them, outside the mutex;          *)
(*   - the process may crash at any point.                                 *)
(*                                                                         *)
(* One action per step between two points where another goroutine or a     *)
(* crash can be observed: a store transaction, a Keeper or platform call,  *)
(* a look at the context.                                                  *)
(***************************************************************************)
EXTENDS NotificationStore

CONSTANTS
    GlobalNotes,    \* notifications of the global list; the others are key-level
    IntervalNotes,  \* those served by a fixed-interval plan; the others are calendar
    TickKeyed,      \* those with a fixed-interval plan of their own, in force or not
    Gap,            \* the length of a fixed interval
    Occurs,         \* the distance between two calendar occurrences
    StatPeriod,     \* the length of the statistics period that keys a job
    RetryAfter,     \* the platform's Retry-After hint
    BatchLimit,     \* rows one send tick may claim
    None,           \* no target, no job
    Disturbances,   \* the kinds of faults and operator calls a run allows
    Final,          \* bound: those that are the last of their behaviour
    MaxDisturbances \* bound: how many of them happen in a behaviour

ASSUME ServiceAssumption ==
    /\ GlobalNotes \subseteq Notes
    /\ IntervalNotes \subseteq Notes /\ TickKeyed \subseteq Notes
    /\ Gap \in Nat \ {0} /\ Occurs \in Nat \ {0} /\ StatPeriod \in Nat \ {0}
    /\ RetryAfter \in Nat \ {0} /\ BatchLimit \in Nat \ {0}
    /\ MaxDisturbances \in Nat

VARIABLES
    now,        \* the wall clock
    live,       \* the live state: enabled notifications, enabled platforms
    svc,        \* the active instance
    turn,       \* progress of the synchronous first ticks of an instance
    svcRevision,\* history: the store's revision when it was started
    mgr,        \* the holder of the management mutex
    sched,      \* the schedule loop
    send,       \* the send loop
    test,       \* the test-send handler
    retry,      \* the manual-retry handler
    attempted,  \* history: jobs the service has called a platform for
    stuck,      \* history: jobs whose outcome the store refused to write
    holdoff,    \* history: the earliest next attempt a platform asked for
    budget      \* disturbances still allowed

svcVars == <<svc, turn, svcRevision>>
histVars == <<attempted, stuck, holdoff>>
envVars == <<now, live>>
vars == <<storeVars, envVars, svcVars, mgr, sched, send, test, retry, histVars, budget>>

Dimensions == Notes \X ChannelIDs \X Platforms
DimOf(k)   == <<k.note, k.channel, k.platform>>

Live == [enabled: SUBSET Notes, platforms: SUBSET (Notes \X Platforms)]

Claimed == [key: JobKey, id: Nat, revision: Nat]

ASSUME NoneAssumption == None \notin Claimed

SchedState == [pc: {"idle", "scan", "due", "collect", "recheck", "upsert", "exited"},
               at: Time, todo: SUBSET Targets, cur: Targets \cup {None},
               left: SUBSET Platforms, platform: Platforms \cup {None},
               rev: Nat, snap: Live]
SendState  == [pc: {"idle", "claim", "next", "call", "finish", "clock", "requeue",
                    "exited"},
               at: Time, clean: BOOLEAN, batch: SUBSET Claimed,
               job: Claimed \cup {None}, outcome: Outcomes \cup {"limited"}]
TestState  == [pc: {"idle", "next", "pick", "call"}, at: Time, rev: Nat,
               note: Notes \cup {None}, todo: SUBSET (ChannelIDs \X Platforms),
               key: JobKey \cup {None}, id: Nat]
RetryState == [pc: {"idle", "write"}, key: JobKey \cup {None}, rev: Nat]

NoLive    == [enabled |-> {}, platforms |-> {}]
IdleSched == [pc |-> "idle", at |-> 0, todo |-> {}, cur |-> None, left |-> {},
              platform |-> None, rev |-> 0, snap |-> NoLive]
IdleSend  == [pc |-> "idle", at |-> 0, clean |-> TRUE, batch |-> {},
              job |-> None, outcome |-> "unknown"]
IdleTest  == [pc |-> "idle", at |-> 0, rev |-> 0, note |-> None, todo |-> {},
              key |-> None, id |-> 0]
IdleRetry == [pc |-> "idle", key |-> None, rev |-> 0]

TypeOK ==
    /\ StoreTypeOK
    /\ now \in Time
    /\ live \in Live
    /\ svc \in {"down", "booting", "running", "stopping"}
    /\ turn \in {"schedule", "send", "loops"}
    /\ svcRevision \in Nat
    /\ mgr \in {"idle", "bump", "stop", "wait", "start", "boot", "test"}
    /\ sched \in SchedState
    /\ send \in SendState
    /\ test \in TestState
    /\ retry \in RetryState
    /\ attempted \in SUBSET Nat
    /\ stuck \in SUBSET Nat
    /\ holdoff \in [Dimensions -> Nat]
    /\ budget \in Nat

Init ==
    /\ StoreInit
    /\ now = 0
    /\ live = [enabled |-> Notes, platforms |-> Notes \X Platforms]
    /\ svc = "down" /\ turn = "loops" /\ svcRevision = 0
    /\ mgr = "idle"
    /\ sched = IdleSched /\ send = IdleSend /\ test = IdleTest
    /\ retry = IdleRetry
    /\ attempted = {} /\ stuck = {}
    /\ holdoff = [d \in Dimensions |-> 0]
    /\ budget = MaxDisturbances

\* A fault, an answer other than "accepted" or an operator call, counted.
Disturb(kind) ==
    /\ kind \in Disturbances
    /\ budget > 0
    /\ budget' = IF kind \in Final THEN 0 ELSE budget - 1

Calm == UNCHANGED budget

Tick ==
    /\ now < MaxTime
    /\ now' = now + 1
    /\ UNCHANGED <<storeVars, live, svcVars, mgr, sched, send, test,
                   retry, histVars, budget>>

-----------------------------------------------------------------------------
(* The plan of a notification (notification_schedule.go), reduced to its   *)
(* two kinds.                                                              *)

LastOccurrence(t) == (t \div Occurs) * Occurs

DueAt(note, last, t) ==
    IF note \in IntervalNotes THEN last = Never \/ t >= last + Gap
    ELSE last < LastOccurrence(t)

\* Fixed intervals anchor on the tick instant, calendars on the period; the plan
\* a key-level notification inherits has no part in its key.
PeriodKey(note, t) == IF note \in TickKeyed THEN t ELSE t \div StatPeriod

-----------------------------------------------------------------------------
(* The schedule loop.                                                      *)

schedOnly == <<envVars, svc, svcRevision, mgr, send, test, retry, histVars>>

\* The loops of an instance keep their ticker while it is stopping: a ready
\* tick may still win over the canceled context.
LoopsRun == svc \in {"running", "stopping"}

ChannelsOf(note, listed) == IF note \in GlobalNotes THEN listed ELSE {NoChannel}

\* One tick: the instant and the live state are read once, then the Keeper is
\* asked for its channels; without an answer no global target is considered.
ScheduleTick ==
    /\ sched.pc = "idle"
    /\ LoopsRun \/ (svc = "booting" /\ turn = "schedule")
    /\ \E listed \in {Channels, {}} :
          /\ sched' = [IdleSched EXCEPT
                         !.pc = "scan", !.at = now, !.snap = live,
                         !.todo = {t \in Targets :
                                     /\ t[1] \in live.enabled
                                     /\ t[2] \in ChannelsOf(t[1], listed)}]
          /\ IF listed = Channels THEN svc # "stopping" /\ Calm
             ELSE IF svc = "stopping" THEN Calm ELSE Disturb("keeper")
    /\ turn' = IF svc = "booting" THEN "send" ELSE turn
    /\ UNCHANGED <<storeVars, schedOnly>>

NextTarget == [sched EXCEPT !.pc = "scan", !.todo = @ \ {sched.cur}, !.cur = None,
                            !.left = {}, !.platform = None, !.rev = 0]

\* The clock of the next target is read.
ReadClock ==
    /\ sched.pc = "scan"
    /\ \E t \in sched.todo :
          sched' = IF DueAt(t[1], clock[t], sched.at)
                   THEN [sched EXCEPT !.pc = "due", !.cur = t]
                   ELSE [sched EXCEPT !.todo = @ \ {t}]
    /\ UNCHANGED <<storeVars, schedOnly, turn, budget>>

PlatformsOf(note) == {p \in Platforms : <<note, p>> \in sched.snap.platforms}

\* A due target goes on only if one of its platforms has nothing in flight.
Gate ==
    /\ sched.pc = "due"
    /\ LET note == sched.cur[1]
           free == {p \in PlatformsOf(note) :
                      ~PendingJobExists(note, p, sched.cur[2])}
       IN  sched' = IF free # {}
                    THEN [sched EXCEPT !.pc = "collect", !.left = PlatformsOf(note)]
                    ELSE NextTarget
    /\ UNCHANGED <<storeVars, schedOnly, turn, budget>>

\* The statistics are collected from the Keeper; a failure gives the target up
\* for this tick, and so does the canceled context of a stopping instance
\* unless there was nothing to ask the Keeper for.
Collect ==
    /\ sched.pc = "collect"
    /\ \/ /\ sched' = [sched EXCEPT !.pc = "recheck"]
          /\ Calm
       \/ /\ sched' = NextTarget
          /\ IF svc = "stopping" THEN Calm ELSE Disturb("keeper")
    /\ UNCHANGED <<storeVars, schedOnly, turn>>

AfterPlatform(p) == IF sched.left = {p} THEN NextTarget
                    ELSE [sched EXCEPT !.pc = "recheck", !.left = @ \ {p},
                                       !.platform = None, !.rev = 0]

\* The gate again, per platform.
Recheck ==
    /\ sched.pc = "recheck"
    /\ \E p \in sched.left :
          sched' = IF PendingJobExists(sched.cur[1], p, sched.cur[2])
                   THEN AfterPlatform(p)
                   ELSE [sched EXCEPT !.pc = "upsert", !.platform = p,
                                      !.rev = revision]
    /\ UNCHANGED <<storeVars, schedOnly, turn, budget>>

EnqueueKey == [note |-> sched.cur[1], channel |-> sched.cur[2],
               platform |-> sched.platform,
               period |-> PeriodKey(sched.cur[1], sched.at)]

\* The revision is read between the gate and the upsert, in a transaction of
\* its own: any revision the store has had since the gate.
RevisionsSince(rev) == rev..revision

\* The upsert; a refused write abandons the other platforms of the target.
Enqueue ==
    /\ sched.pc = "upsert"
    /\ \/ /\ \E rev \in RevisionsSince(sched.rev) :
                UpsertJob(EnqueueKey, sched.at, rev)
          /\ sched' = AfterPlatform(sched.platform)
          /\ Calm
       \/ /\ sched' = NextTarget
          /\ Disturb("store")
          /\ UNCHANGED storeVars
    /\ UNCHANGED <<schedOnly, turn>>

ScheduleDone ==
    /\ sched.pc = "scan"
    /\ sched.todo = {}
    /\ sched' = IdleSched
    /\ UNCHANGED <<storeVars, schedOnly, turn, budget>>

ScheduleExit ==
    /\ sched.pc = "idle"
    /\ svc = "stopping"
    /\ sched' = [sched EXCEPT !.pc = "exited"]
    /\ UNCHANGED <<storeVars, schedOnly, turn, budget>>

ScheduleStep == ScheduleTick \/ ReadClock \/ Gate \/ Collect \/ Recheck \/ Enqueue
                \/ ScheduleDone

-----------------------------------------------------------------------------
(* The send loop.                                                          *)

sendOnly == <<envVars, svc, svcRevision, mgr, sched, test, retry>>

\* One tick: pending jobs of an older revision are superseded.  A refused
\* write is noted and the tick goes on to claim.
SendTick ==
    /\ send.pc = "idle"
    /\ LoopsRun \/ (svc = "booting" /\ turn = "send" /\ sched.pc = "idle")
    /\ \E ok \in BOOLEAN :
          /\ send' = [IdleSend EXCEPT !.pc = "claim", !.clean = ok]
          /\ IF ok THEN SupersedeStaleJobs(revision) /\ Calm
             ELSE UNCHANGED storeVars /\ Disturb("store")
    /\ turn' = IF svc = "booting" THEN "loops" ELSE turn
    /\ UNCHANGED <<sendOnly, histVars>>

ClaimOf(k) == [key |-> k, id |-> jobs[k].id, revision |-> jobs[k].revision]

Claim ==
    /\ send.pc = "claim"
    /\ \/ \E K \in Claimable(now, BatchLimit) :
             /\ ClaimDueJobs(K)
             /\ send' = [send EXCEPT !.pc = "next", !.at = now,
                                     !.batch = {ClaimOf(k) : k \in K}]
             /\ Calm
       \/ /\ send' = IdleSend
          /\ Disturb("store")
          /\ UNCHANGED storeVars
    /\ UNCHANGED <<sendOnly, turn, histVars>>

\* Between two jobs a canceled context ends the tick; the rest of the batch
\* stays "sending" in the store.
SendDone ==
    /\ send.pc = "next"
    /\ send.batch = {} \/ svc = "stopping"
    /\ send' = IdleSend
    /\ UNCHANGED <<storeVars, sendOnly, turn, histVars, budget>>

HasIdentity(j) == <<j.key.note, j.key.platform>> \in live.platforms

\* The platform is called with the identity the live state holds now.
Call(j) ==
    /\ send.pc = "next" /\ svc # "stopping"
    /\ j \in send.batch
    /\ HasIdentity(j)
    /\ send' = [send EXCEPT !.pc = "call", !.job = j, !.batch = @ \ {j}]
    /\ attempted' = attempted \cup {j.id}
    /\ UNCHANGED <<storeVars, sendOnly, turn, stuck, holdoff, budget>>

\* No enabled identity: the outcome is unknown without a call.
SkipCall(j) ==
    /\ send.pc = "next" /\ svc # "stopping"
    /\ j \in send.batch
    /\ ~HasIdentity(j)
    /\ send' = [send EXCEPT !.pc = "finish", !.job = j, !.batch = @ \ {j},
                            !.outcome = "unknown"]
    /\ UNCHANGED <<storeVars, sendOnly, turn, histVars, budget>>

\* The platform's answer, folded over the parts: "limited" is a failure that
\* carries a Retry-After.
Answer ==
    /\ send.pc = "call" /\ svc # "stopping"
    /\ \E o \in Outcomes \cup {"limited"} :
          /\ IF o = "accepted" THEN Calm ELSE Disturb("platform")
          /\ o = "limited" => send.at + RetryAfter <= MaxTime
          /\ send' = [send EXCEPT !.pc = "finish", !.outcome = o]
          /\ holdoff' = IF o = "limited"
                        THEN [holdoff EXCEPT ![DimOf(send.job.key)] =
                                send.at + RetryAfter]
                        ELSE holdoff
    /\ UNCHANGED <<storeVars, sendOnly, turn, attempted, stuck>>

\* A result that comes back under a canceled context is dropped.
DropLateResult ==
    /\ send.pc = "call" /\ svc = "stopping"
    /\ send' = IdleSend
    /\ UNCHANGED <<storeVars, sendOnly, turn, histVars, budget>>

OutcomeOf(o) == IF o = "limited" THEN "failed" ELSE o

NextJob == [send EXCEPT !.pc = "next", !.job = None, !.outcome = "unknown"]

\* Mutant of Finish: a refused write does not skip the clock.
FinishUnchecked ==
    /\ send.pc = "finish"
    /\ \/ FinishJob(send.job.id, OutcomeOf(send.outcome)) /\ Calm
       \/ UNCHANGED storeVars /\ IF Found(send.job.id) THEN Disturb("store") ELSE Calm
    /\ send' = CASE send.outcome = "accepted" -> [send EXCEPT !.pc = "clock"]
                 [] send.outcome = "limited"  -> [send EXCEPT !.pc = "requeue"]
                 [] OTHER                     -> NextJob
    /\ UNCHANGED <<sendOnly, turn, histVars>>

Finish ==
    /\ send.pc = "finish"
    /\ \/ /\ FinishJob(send.job.id, OutcomeOf(send.outcome))
          /\ send' = CASE send.outcome = "accepted" -> [send EXCEPT !.pc = "clock"]
                       [] send.outcome = "limited"  -> [send EXCEPT !.pc = "requeue"]
                       [] OTHER                     -> NextJob
          /\ UNCHANGED stuck /\ Calm
       \/ /\ ~Found(send.job.id)
          /\ send' = NextJob
          /\ UNCHANGED <<storeVars, stuck>> /\ Calm
       \/ /\ Found(send.job.id)
          /\ send' = NextJob
          /\ stuck' = stuck \cup {send.job.id}
          /\ UNCHANGED storeVars /\ Disturb("store")
    /\ UNCHANGED <<sendOnly, turn, attempted, holdoff>>

\* The clock of the job's target takes the claim instant of the tick.
Advance ==
    /\ send.pc = "clock"
    /\ \/ SetClock(<<send.job.key.note, send.job.key.channel>>, send.at) /\ Calm
       \/ UNCHANGED storeVars /\ Disturb("store")
    /\ send' = NextJob
    /\ UNCHANGED <<sendOnly, turn, histVars>>

\* A rate-limited job is enqueued again, backed off.  The caller leaves the
\* revision of the new job at its zero value.
RequeueForRetry ==
    /\ send.pc = "requeue"
    /\ \/ UpsertJob(send.job.key, send.at + RetryAfter, 0) /\ Calm
       \/ UNCHANGED storeVars /\ Disturb("store")
    /\ send' = NextJob
    /\ UNCHANGED <<sendOnly, turn, histVars>>

SendExit ==
    /\ send.pc = "idle"
    /\ svc = "stopping"
    /\ send' = [send EXCEPT !.pc = "exited"]
    /\ UNCHANGED <<storeVars, sendOnly, turn, histVars, budget>>

SendStep == SendTick \/ Claim \/ SendDone \/ (\E j \in send.batch : Call(j) \/ SkipCall(j))
            \/ Answer \/ DropLateResult \/ Finish \/ Advance \/ RequeueForRetry

-----------------------------------------------------------------------------
(* The management calls under the mutex: save, reconfigure, test send.     *)

\* While no instance is up each handler opens the store file for itself and
\* waits for its lock; a retry reads and writes under one such opening.
FileFree == svc = "down" => retry.pc = "idle"

\* A settings save replaces the whole notification block of the live state;
\* the revision bump and the restart are steps of their own.
SettingsPut ==
    /\ mgr = "idle"
    /\ Disturb("save")
    /\ live' \in Live
    /\ mgr' = "bump"
    /\ UNCHANGED <<storeVars, now, svcVars, sched, send, test, retry, histVars>>

\* A key-binding write changes key-level notifications only, with neither a
\* bump nor a restart.
KeyBindingsWrite ==
    /\ mgr = "idle"
    /\ Disturb("keys")
    /\ live' \in Live
    /\ live'.enabled \cap GlobalNotes = live.enabled \cap GlobalNotes
    /\ \A n \in GlobalNotes, p \in Platforms :
          <<n, p>> \in live'.platforms <=> <<n, p>> \in live.platforms
    /\ UNCHANGED <<storeVars, now, svcVars, mgr, sched, send, test, retry, histVars>>

\* The save stands even when the bump is refused.
Bump ==
    /\ mgr = "bump" /\ FileFree
    /\ \/ BumpRevision /\ Calm
       \/ UNCHANGED storeVars /\ Disturb("store")
    /\ mgr' = "stop"
    /\ UNCHANGED <<envVars, svcVars, sched, send, test, retry, histVars>>

\* The host reconfigures the plugin, or loads it after a crash.  Whatever state
\* the file of the new configuration holds is installed, without a bump.
Reconfigure ==
    /\ mgr = "idle"
    /\ live' \in Live
    /\ IF svc = "down" /\ live' = live THEN Calm ELSE Disturb("reconfigure")
    /\ mgr' = "stop"
    /\ UNCHANGED <<storeVars, now, svcVars, sched, send, test, retry, histVars>>

\* Mutant of Cancel: the loops of the instance are not told.
CancelNothing ==
    /\ mgr = "stop"
    /\ mgr' = "wait"
    /\ UNCHANGED <<storeVars, envVars, svcVars, sched, send, test, retry,
                   histVars, budget>>

\* The running instance leaves the active slot and its context is canceled.
Cancel ==
    /\ mgr = "stop"
    /\ svc' = IF svc = "running" THEN "stopping" ELSE svc
    /\ mgr' = "wait"
    /\ UNCHANGED <<storeVars, envVars, turn, svcRevision, sched, send, test, retry,
                   histVars, budget>>

\* Both loops have returned, or the bounded wait has run out; the store is
\* closed either way, so whatever a left-over loop still tries has no effect.
StopDone ==
    /\ mgr = "wait"
    /\ IF svc = "down" \/ (sched.pc = "exited" /\ send.pc = "exited")
       THEN Calm ELSE Disturb("slow stop")
    /\ svc' = "down" /\ mgr' = "start"
    /\ sched' = IdleSched /\ send' = IdleSend
    /\ retry' = IF svc = "stopping" THEN IdleRetry ELSE retry
    /\ UNCHANGED <<storeVars, envVars, turn, svcRevision, test, histVars>>

\* The store is opened and the rows left in flight are recovered; a failure
\* leaves a placeholder instance until the next save or reconfigure.
Start ==
    /\ mgr = "start" /\ FileFree
    /\ \/ /\ RecoverOnBoot
          /\ svc' = "booting" /\ turn' = "schedule"
          /\ svcRevision' = revision
          /\ mgr' = "boot"
          /\ Calm
       \/ /\ mgr' = "idle"
          /\ Disturb("start")
          /\ UNCHANGED <<storeVars, svcVars>>
    /\ UNCHANGED <<envVars, sched, send, test, retry, histVars>>

\* The synchronous first ticks are over: the instance becomes the active one
\* and the management call returns.
Register ==
    /\ svc = "booting" /\ turn = "loops" /\ send.pc = "idle"
    /\ svc' = "running"
    /\ mgr' = "idle"
    /\ UNCHANGED <<storeVars, envVars, turn, svcRevision, sched, send, test, retry,
                   histVars, budget>>

ManagerStep == Bump \/ Cancel \/ StopDone \/ Start \/ Register

testOnly == <<envVars, svcVars, sched, send, retry, histVars>>

\* A global notification is fanned out over the channels the Keeper lists, or
\* sent once without a channel when it lists none.
TestSend(n) ==
    /\ mgr = "idle" /\ FileFree
    /\ Disturb("test")
    /\ \E listed \in {ChannelsOf(n, Channels), {NoChannel}} :
          LET todo == {cp \in listed \X Platforms : <<n, cp[2]>> \in live.platforms}
          IN  /\ todo # {}
              /\ test' = [IdleTest EXCEPT !.pc = "next", !.note = n, !.at = now,
                                          !.rev = revision, !.todo = todo]
    /\ mgr' = "test"
    /\ UNCHANGED <<storeVars, testOnly>>

TestOver == test' = IdleTest /\ mgr' = "idle"

\* A merge keeps the identifier of the row, so the handler's own is in no row.
TestEnqueue ==
    /\ test.pc = "next"
    /\ \/ /\ \E cp \in test.todo :
                LET k == [note |-> test.note, channel |-> cp[1], platform |-> cp[2],
                          period |-> PeriodKey(test.note, test.at)]
                IN  /\ UpsertJob(k, test.at, test.rev)
                    /\ test' = [test EXCEPT
                                  !.pc = "pick", !.key = k, !.todo = @ \ {cp},
                                  !.id = IF nextID' # nextID THEN nextID ELSE 0]
          /\ UNCHANGED mgr /\ Calm
       \/ TestOver /\ UNCHANGED storeVars /\ Disturb("store")
    /\ UNCHANGED testOnly

\* The identifier to finish: the pending row of the dimension, looked up
\* without its channel in cursor order, or else the one just enqueued.
SamePeriodPending(k) ==
    {l \in KeysIn("pending") : l.note = k.note /\ l.platform = k.platform
                               /\ l.period = k.period}

CursorFirst(K) == {l \in K : \A m \in K : RankOf(l) <= RankOf(m)}

TestPick ==
    /\ test.pc = "pick"
    /\ IF SamePeriodPending(test.key) = {}
       THEN test' = [test EXCEPT !.pc = "call"]
       ELSE \E l \in CursorFirst(SamePeriodPending(test.key)) :
               test' = [test EXCEPT !.pc = "call", !.id = jobs[l].id]
    /\ UNCHANGED <<storeVars, testOnly, mgr, budget>>

\* The message has been sent by the handler itself: the outcome is written, or
\* the call ends with an error when the row is gone.
TestFinish ==
    /\ test.pc = "call"
    /\ \/ /\ \E o \in Outcomes :
                /\ FinishJob(test.id, o)
                /\ IF o = "accepted" THEN Calm ELSE Disturb("platform")
          /\ IF test.todo = {} THEN TestOver
             ELSE test' = [test EXCEPT !.pc = "next", !.key = None, !.id = 0]
                  /\ UNCHANGED mgr
       \/ /\ IF Found(test.id) THEN Disturb("store") ELSE Calm
          /\ TestOver
          /\ UNCHANGED storeVars
    /\ UNCHANGED testOnly

TestStep == TestEnqueue \/ TestPick \/ TestFinish

-----------------------------------------------------------------------------
(* The manual retry of a delivery record, outside the mutex.  The record   *)
(* has no channel, so neither has the new job.                             *)

RetryRead(d) ==
    /\ retry.pc = "idle"
    /\ svc = "running" \/ (svc = "down" /\ mgr # "test")
    /\ d \in deliveries
    /\ Disturb("retry")
    /\ \E k \in JobKey :
          /\ jobs[k].state # "absent" /\ jobs[k].id = d.job
          /\ retry' = [pc |-> "write", rev |-> revision,
                       key |-> [note |-> d.note, channel |-> NoChannel,
                                platform |-> d.platform, period |-> d.period]]
    /\ UNCHANGED <<storeVars, envVars, svcVars, mgr, sched, send, test, histVars>>

RetryWrite ==
    /\ retry.pc = "write"
    /\ \/ /\ \E rev \in RevisionsSince(retry.rev) :
                UpsertJob(retry.key, now, rev)
          /\ Calm
       \/ UNCHANGED storeVars /\ Disturb("store")
    /\ retry' = IdleRetry
    /\ UNCHANGED <<envVars, svcVars, mgr, sched, send, test, histVars>>

\* The process dies; the store and the saved state stay.
Crash ==
    /\ Disturb("crash")
    /\ svc' = "down" /\ mgr' = "idle" /\ turn' = "loops"
    /\ sched' = IdleSched /\ send' = IdleSend /\ test' = IdleTest
    /\ retry' = IdleRetry
    /\ UNCHANGED <<storeVars, envVars, svcRevision, histVars>>

Next ==
    \/ Tick
    \/ ScheduleTick \/ ReadClock \/ Gate \/ Collect \/ Recheck \/ Enqueue
    \/ ScheduleDone \/ ScheduleExit
    \/ SendTick \/ Claim \/ SendDone \/ Answer \/ DropLateResult \/ Finish
    \/ Advance \/ RequeueForRetry \/ SendExit
    \/ \E j \in send.batch : Call(j) \/ SkipCall(j)
    \/ SettingsPut \/ KeyBindingsWrite \/ Reconfigure
    \/ Bump \/ Cancel \/ StopDone \/ Start \/ Register
    \/ \E n \in Notes : TestSend(n)
    \/ TestEnqueue \/ TestPick \/ TestFinish
    \/ (\E d \in deliveries : RetryRead(d)) \/ RetryWrite
    \/ Crash

Spec == Init /\ [][Next]_vars

\* Each goroutine keeps running and every call it makes has a timeout; select
\* picks among ready cases at random, so a canceled loop does return.
Fairness ==
    /\ WF_vars(Tick)
    /\ WF_vars(ScheduleStep) /\ WF_vars(SendStep)
    /\ WF_vars(ManagerStep) /\ WF_vars(TestStep) /\ WF_vars(RetryWrite)
    /\ SF_vars(ScheduleExit) /\ SF_vars(SendExit)

FairSpec == Spec /\ Fairness

-----------------------------------------------------------------------------
(* Properties.                                                             *)

OnHand == {j.id : j \in send.batch}
          \cup IF send.job = None THEN {} ELSE {send.job.id}

CallBegins == send.pc # "call" /\ send'.pc = "call"

\* The send loops call a platform at most once per job: through crashes,
\* restarts, merges, retries and test sends, no row that has been called for
\* is ever claimed again (ClaimDueJobs, RecoverOnBoot, requeueForRetry).
AtMostOneCall == [][CallBegins => send'.job.id \notin attempted]_vars

\* A live instance never finds a row "sending" that it is not sending itself:
\* the rows a stopped or crashed instance left behind were recovered first.
\* The exception is a row whose outcome the store refused to write.
SendingIsOwned ==
    svc \in {"booting", "running"} =>
        \A k \in KeysIn("sending") : jobs[k].id \in OnHand \cup stuck

\* Every call made for a job leaves a trace: its outcome is recorded, or its
\* row is still "sending" and a send loop or the next boot will record it.  A
\* row overwritten in flight is the only way to lose one.
OutcomeAccounted ==
    \A id \in attempted :
        \/ Recorded(id)
        \/ \E k \in KeysIn("sending") : jobs[k].id = id
        \/ id \in replaced

IdsIn(state) == {jobs[k].id : k \in KeysIn(state)}

\* The store and the send loop, seen as the ledger of jobs they implement.
Ledger == INSTANCE JobLedger WITH
    issued <- nextID - 1, waiting <- IdsIn("pending"), inFlight <- IdsIn("sending"),
    armed <- {j.id : j \in send.batch}, called <- attempted,
    recorded <- {d.job : d \in deliveries}, lost <- replaced

\* Every step of the loops, the manager, the handlers and the faults is a step
\* of the job ledger or leaves it alone.
ImplementsJobLedger == Ledger!LedgerSpec

\* No instance claims a job stamped with a revision older than the one it
\* started from, whichever loop or handler wrote the job and however late,
\* unless the store refused to supersede (supersededStaleJobs before the claim).
ClaimsAreCurrent ==
    send.clean => \A j \in send.batch : j.revision >= svcRevision

\* The clock of a target moves only forward, whichever of its jobs is accepted
\* and however long ago that job was created, and only when the acceptance is
\* already in the ledger: a crash in between repeats a delivery, it never hides one.
ClockFollowsLedger ==
    [][\A t \in Targets : clock'[t] # clock[t] =>
          /\ clock'[t] > clock[t]
          /\ \E d \in deliveries : d.job = send.job.id /\ d.outcome = "accepted"]_vars

\* A due pending row is claimed, superseded or overwritten by a healthy
\* instance: no row waits for ever in front of a running send loop.
PendingDrains ==
    \A k \in JobKey :
        jobs[k].state = "pending" ~> (jobs[k].state # "pending" \/ svc = "down")

\* A target that is due is served in the end whatever the faults before, as
\* long as it stays enabled, the instance is not down and the store has not
\* refused the outcome of a job of the target: that row stays "sending" and
\* silences it until the next boot (sendTick, pendingJobExists).
DueIsDelivered ==
    \A t \in Targets :
        (t[1] \in live.enabled /\ t[2] \in ChannelsOf(t[1], Channels)
           /\ DueAt(t[1], clock[t], now))
        ~> \/ ~DueAt(t[1], clock[t], now)
           \/ t[1] \notin live.enabled
           \/ \E k \in KeysIn("sending") : k.note = t[1] /\ k.channel = t[2] /\ jobs[k].id \in stuck
           \/ \E p \in Platforms : <<t[1], p>> \notin live.platforms
           \/ svc = "down"

\* A save, a reconfigure or a test send always returns and gives the mutex
\* back, whatever the loops are doing when it stops them and whether or not a
\* manual retry, which takes no mutex, holds the store at that moment.
ManagementReturns == mgr # "idle" ~> mgr = "idle"

\* "an in-flight job for the same target suppresses re-generation so backoff
\* waits survive" (notification_service.go): no call earlier than the platform
\* asked for.
BackoffRespected ==
    send.pc = "call" => send.at >= holdoff[DimOf(send.job.key)]

\* "fixed intervals SHALL count from the last successful delivery of the
\* notification in its scope" (dispatch design): with one platform, no fault and
\* no operator call, a platform is only called for a target that is still due.
CallIsDue ==
    budget = MaxDisturbances /\ send.pc = "call" =>
        DueAt(send.job.key.note,
              clock[<<send.job.key.note, send.job.key.channel>>], send.at)

=============================================================================
