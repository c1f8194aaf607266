--------------------------- MODULE NotificationProofs ---------------------------
(***************************************************************************)
(* NotificationService implements JobLedger, whatever the notifications,    *)
(* channels, platforms, schedules and faults; hence a job is called for at  *)
(* most once and no call is forgotten.                                      *)
(*                                                                         *)
(* First come the types: the store's operations, then one step per action; *)
(* the strengthening says which of a loop's registers are set at which      *)
(* point of its program.                                                    *)
(*                                                                         *)
(* The argument: identifiers are never reused and no two rows share one     *)
(* (RowIds), so a row that leaves "pending" takes its identifier out of the *)
(* waiting set for good; a batch holds what one claim took (Batches), so    *)
(* each call removes exactly one armed job.  Three more invariants follow    *)
(* the clocks (Clocked), the rows in flight (Owned) and the revisions that  *)
(* jobs are stamped with (Current).                                         *)
(***************************************************************************)
EXTENDS NotificationService, TLAPS

USE DEF ChannelIDs

-----------------------------------------------------------------------------
(* The operations of the store.                                            *)

LEMMA TimeIsNat == 0 \in Time /\ \A t \in Time : t \in Nat
BY StoreAssumption DEF Time

LEMMA UpsertType ==
    ASSUME StoreTypeOK,
           NEW k \in JobKey, NEW next \in Nat, NEW rev \in Nat,
           UpsertJob(k, next, rev)
    PROVE  StoreTypeOK'
<1>1. CASE MergeJob(k, next, rev)
    <2>1. jobs' \in [JobKey -> Job]
        BY <1>1 DEF MergeJob, StoreTypeOK, Job
    <2> QED
        BY <1>1, <2>1 DEF MergeJob, UpsertJob, StoreTypeOK
<1>2. CASE InsertJob(k, next)
    <2>1. jobs' \in [JobKey -> Job]
        BY <1>2 DEF InsertJob, StoreTypeOK, Job, JobStates
    <2>2. replaced' \in SUBSET Nat
        BY <1>2 DEF InsertJob, StoreTypeOK, Job
    <2> QED
        BY <1>2, <2>1, <2>2 DEF InsertJob, UpsertJob, StoreTypeOK
<1> QED
    BY <1>1, <1>2 DEF UpsertJob

LEMMA MoveType ==
    ASSUME StoreTypeOK, NEW K \in SUBSET JobKey, NEW state \in JobStates,
           MoveJobs(K, state)
    PROVE  jobs' \in [JobKey -> Job]
BY DEF MoveJobs, StoreTypeOK, Job

LEMMA ClaimType ==
    ASSUME StoreTypeOK, NEW K \in SUBSET JobKey, ClaimDueJobs(K)
    PROVE  StoreTypeOK'
BY MoveType, "sending" \in JobStates DEF ClaimDueJobs, StoreTypeOK, JobStates

LEMMA SupersedeType ==
    ASSUME StoreTypeOK, NEW rev, SupersedeStaleJobs(rev)
    PROVE  StoreTypeOK'
<1> DEFINE K == {k \in JobKey : IsStale(k, rev)}
<1>1. K \in SUBSET JobKey /\ "superseded" \in JobStates /\ MoveJobs(K, "superseded")
    BY DEF SupersedeStaleJobs, JobStates
<1> HIDE DEF K
<1>2. jobs' \in [JobKey -> Job]
    BY <1>1, MoveType
<1> QED
    BY <1>2 DEF SupersedeStaleJobs, StoreTypeOK

LEMMA DeliveryType ==
    ASSUME StoreTypeOK, NEW k \in JobKey, NEW o \in Outcomes
    PROVE  DeliveryOf(k, o) \in Delivery
BY DEF StoreTypeOK, DeliveryOf, Delivery, JobKey, Job

LEMMA FinishType ==
    ASSUME StoreTypeOK, NEW id, NEW o \in Outcomes, FinishJob(id, o)
    PROVE  StoreTypeOK'
<1>1. PICK k \in JobKey :
          /\ jobs' = [jobs EXCEPT ![k] = [@ EXCEPT !.state = StateFor(o)]]
          /\ deliveries' = deliveries \cup {DeliveryOf(k, o)}
    BY DEF FinishJob
<1>2. StateFor(o) \in JobStates
    BY DEF StateFor, Outcomes, JobStates
<1>3. jobs' \in [JobKey -> Job]
    BY <1>1, <1>2 DEF StoreTypeOK, Job
<1>4. deliveries' \in SUBSET Delivery
    BY <1>1, DeliveryType DEF StoreTypeOK
<1> QED
    BY <1>3, <1>4 DEF FinishJob, StoreTypeOK

LEMMA RecoverType ==
    ASSUME StoreTypeOK, RecoverOnBoot
    PROVE  StoreTypeOK'
<1>1. KeysIn("sending") \in SUBSET JobKey /\ "unknown" \in JobStates
    BY DEF KeysIn, JobStates
<1>2. jobs' \in [JobKey -> Job]
    BY <1>1, MoveType DEF RecoverOnBoot
<1>3. "unknown" \in Outcomes
    BY DEF Outcomes
<1>4. deliveries' \in SUBSET Delivery
    BY <1>1, <1>3, DeliveryType DEF RecoverOnBoot, StoreTypeOK
<1> QED
    BY <1>2, <1>4 DEF RecoverOnBoot, StoreTypeOK

LEMMA ClockType ==
    ASSUME StoreTypeOK, NEW t \in Targets, NEW at \in Time, SetClock(t, at)
    PROVE  StoreTypeOK'
BY DEF StoreTypeOK, SetClock

LEMMA BumpType == StoreTypeOK /\ BumpRevision => StoreTypeOK'
BY DEF StoreTypeOK, BumpRevision

LEMMA StoreUnchanged == StoreTypeOK /\ UNCHANGED storeVars => StoreTypeOK'
BY DEF StoreTypeOK, storeVars

-----------------------------------------------------------------------------
(* The state of the service.                                               *)

\* Which registers are set where.
Registers ==
    /\ sched.pc \in {"due", "collect", "recheck", "upsert"} => sched.cur \in Targets
    /\ sched.pc = "upsert" => sched.platform \in Platforms
    /\ send.pc \in {"call", "finish", "clock", "requeue"} => send.job \in Claimed
    /\ test.pc # "idle" => test.note \in Notes
    /\ test.pc = "pick" => test.key \in JobKey
    /\ retry.pc = "write" => retry.key \in JobKey

TypeInv == TypeOK /\ Registers

\* What a step of one process has to establish when it leaves the others alone.
SchedOK == /\ sched \in SchedState
           /\ sched.pc \in {"due", "collect", "recheck", "upsert"} => sched.cur \in Targets
           /\ sched.pc = "upsert" => sched.platform \in Platforms
SendOK  == /\ send \in SendState
           /\ send.pc \in {"call", "finish", "clock", "requeue"} => send.job \in Claimed
TestOK  == /\ test \in TestState
           /\ test.pc # "idle" => test.note \in Notes
           /\ test.pc = "pick" => test.key \in JobKey
RetryOK == /\ retry \in RetryState
           /\ retry.pc = "write" => retry.key \in JobKey
EnvOK   == now \in Time /\ live \in Live
SvcOK   == /\ svc \in {"down", "booting", "running", "stopping"}
           /\ turn \in {"schedule", "send", "loops"}
           /\ svcRevision \in Nat
MgrOK   == mgr \in {"idle", "bump", "stop", "wait", "start", "boot", "test"}
HistOK  == /\ attempted \in SUBSET Nat
           /\ stuck \in SUBSET Nat
           /\ holdoff \in [Dimensions -> Nat]

Parts == /\ StoreTypeOK /\ EnvOK /\ SvcOK /\ MgrOK /\ SchedOK /\ SendOK
         /\ TestOK /\ RetryOK /\ HistOK /\ budget \in Nat

LEMMA TypeInvParts ==
    /\ TypeInv <=> Parts
    /\ TypeInv' <=> Parts'
BY DEF TypeInv, TypeOK, Registers, Parts, EnvOK, SvcOK, MgrOK, SchedOK, SendOK,
       TestOK, RetryOK, HistOK

LEMMA RevisionType ==
    ASSUME StoreTypeOK, NEW from \in Nat, NEW rev \in RevisionsSince(from)
    PROVE  rev \in Nat
BY DEF StoreTypeOK, RevisionsSince

LEMMA PeriodType ==
    ASSUME NEW note \in Notes, NEW t \in Time
    PROVE  PeriodKey(note, t) \in Time
<1>1. MaxTime \in Nat /\ StatPeriod \in Nat \ {0} /\ t \in Nat /\ t <= MaxTime
    BY StoreAssumption, ServiceAssumption DEF Time
<1>2. t \div StatPeriod \in 0..t
    BY <1>1
<1> QED
    BY <1>1, <1>2 DEF PeriodKey, Time

LEMMA BudgetType ==
    ASSUME budget \in Nat
    PROVE  /\ \A kind : Disturb(kind) => budget' \in Nat
           /\ Calm => budget' \in Nat
BY DEF Disturb, Calm

LEMMA IdleTypes ==
    /\ IdleSched \in SchedState /\ IdleSched.pc = "idle"
    /\ IdleSend \in SendState /\ IdleSend.pc = "idle"
    /\ IdleTest \in TestState /\ IdleTest.pc = "idle"
    /\ IdleRetry \in RetryState /\ IdleRetry.pc = "idle"
<1>1. IdleSched \in SchedState /\ IdleSched.pc = "idle"
    BY TimeIsNat DEF IdleSched, SchedState, NoLive, Live
<1>2. IdleSend \in SendState /\ IdleSend.pc = "idle"
    BY TimeIsNat DEF IdleSend, SendState, Outcomes
<1>3. IdleTest \in TestState /\ IdleTest.pc = "idle"
    BY TimeIsNat DEF IdleTest, TestState
<1>4. IdleRetry \in RetryState /\ IdleRetry.pc = "idle"
    BY DEF IdleRetry, RetryState
<1> QED
    BY <1>1, <1>2, <1>3, <1>4

LEMMA TypeInit == Init => TypeInv
<1> SUFFICES ASSUME Init PROVE TypeInv
    OBVIOUS
<1>1. StoreTypeOK
    <2>1. NoJob \in Job
        BY DEF NoJob, Job, JobStates
    <2> QED
        BY <2>1 DEF Init, StoreInit, StoreTypeOK
<1>2. EnvOK /\ SvcOK /\ MgrOK
    BY TimeIsNat DEF Init, EnvOK, SvcOK, MgrOK, Live
<1>3. SchedOK /\ SendOK /\ TestOK /\ RetryOK
    BY IdleTypes DEF Init, SchedOK, SendOK, TestOK, RetryOK
<1>4. HistOK /\ budget \in Nat
    BY ServiceAssumption DEF Init, HistOK
<1> QED
    BY <1>1, <1>2, <1>3, <1>4, TypeInvParts DEF Parts

-----------------------------------------------------------------------------
(* The steps of the schedule loop.                                         *)

LEMMA ScheduleTypes ==
    ASSUME TypeInv,
           ScheduleTick \/ ReadClock \/ Gate \/ Collect \/ Recheck \/ Enqueue
             \/ ScheduleDone \/ ScheduleExit
    PROVE  TypeInv'
<1> Parts
    BY TypeInvParts
<1> USE DEF Parts
<1>1. /\ EnvOK' /\ MgrOK' /\ SendOK' /\ TestOK' /\ RetryOK' /\ HistOK'
      /\ svc' = svc /\ svcRevision' = svcRevision
    BY DEF ScheduleTick, ReadClock, Gate, Collect, Recheck, Enqueue, ScheduleDone,
           ScheduleExit, schedOnly, envVars, histVars, EnvOK, MgrOK, SendOK, TestOK,
           RetryOK, HistOK
<1>2. SvcOK'
    BY <1>1 DEF ScheduleTick, ReadClock, Gate, Collect, Recheck, Enqueue,
                ScheduleDone, ScheduleExit, SvcOK
<1>3. budget' \in Nat
    BY BudgetType DEF ScheduleTick, ReadClock, Gate, Collect, Recheck, Enqueue,
                      ScheduleDone, ScheduleExit, Calm
<1>4. NextTarget \in SchedState /\ NextTarget.pc = "scan"
    BY DEF SchedOK, SchedState, NextTarget
<1>5. StoreTypeOK' /\ SchedOK'
    <2>1. CASE ScheduleTick
        <3>1. StoreTypeOK'
            BY <2>1, StoreUnchanged DEF ScheduleTick
        <3>2. now \in Time /\ live \in Live
            BY DEF EnvOK
        <3>3. PICK T \in SUBSET Targets :
                 sched' = [IdleSched EXCEPT !.pc = "scan", !.at = now, !.snap = live,
                                            !.todo = T]
            BY <2>1 DEF ScheduleTick
        <3>4. SchedOK'
            BY <3>2, <3>3, IdleTypes DEF SchedOK, SchedState
        <3> QED
            BY <3>1, <3>4
    <2>2. CASE ReadClock
        <3>1. StoreTypeOK'
            BY <2>2, StoreUnchanged DEF ReadClock
        <3>2. PICK t \in sched.todo :
                 \/ sched' = [sched EXCEPT !.pc = "due", !.cur = t]
                 \/ sched' = [sched EXCEPT !.todo = @ \ {t}]
            BY <2>2 DEF ReadClock
        <3>3. sched \in SchedState /\ sched.pc = "scan" /\ t \in Targets
            BY <2>2 DEF ReadClock, SchedOK, SchedState
        <3>4. CASE sched' = [sched EXCEPT !.pc = "due", !.cur = t]
            <4>1. sched' \in SchedState
                BY <3>3, <3>4 DEF SchedState
            <4>2. sched'.pc = "due" /\ sched'.cur = t
                BY <3>3, <3>4 DEF SchedState
            <4> QED
                BY <3>1, <3>3, <4>1, <4>2 DEF SchedOK
        <3>5. CASE sched' = [sched EXCEPT !.todo = @ \ {t}]
            <4>1. sched' \in SchedState
                BY <3>3, <3>5 DEF SchedState
            <4>2. sched'.pc = "scan"
                BY <3>3, <3>5 DEF SchedState
            <4> QED
                BY <3>1, <3>3, <4>1, <4>2 DEF SchedOK
        <3> QED
            BY <3>1, <3>2, <3>4, <3>5
    <2>3. CASE Gate
        <3>1. PlatformsOf(sched.cur[1]) \in SUBSET Platforms
            BY DEF PlatformsOf
        <3>2. SchedOK'
            BY <2>3, <3>1, <1>4 DEF Gate, SchedOK, SchedState
        <3> QED
            BY <2>3, <3>2, StoreUnchanged DEF Gate
    <2>4. CASE Collect
        BY <2>4, <1>4, StoreUnchanged DEF Collect, SchedOK, SchedState
    <2>5. CASE Recheck
        <3>1. PICK p \in sched.left :
                 sched' = IF PendingJobExists(sched.cur[1], p, sched.cur[2])
                          THEN AfterPlatform(p)
                          ELSE [sched EXCEPT !.pc = "upsert", !.platform = p,
                                             !.rev = revision]
            BY <2>5 DEF Recheck
        <3>2. p \in Platforms /\ revision \in Nat /\ sched.pc = "recheck"
            BY <2>5 DEF Recheck, SchedOK, SchedState, StoreTypeOK
        <3>3. SchedOK'
            BY <3>1, <3>2, <1>4 DEF SchedOK, SchedState, AfterPlatform
        <3> QED
            BY <2>5, <3>3, StoreUnchanged DEF Recheck
    <2>6. CASE Enqueue
        <3>1. /\ sched.cur \in Targets /\ sched.platform \in Platforms
              /\ sched.at \in Time /\ sched.rev \in Nat
            BY <2>6 DEF Enqueue, SchedOK, SchedState
        <3>2. EnqueueKey \in JobKey
            BY <3>1, PeriodType DEF EnqueueKey, JobKey, Targets
        <3>3. StoreTypeOK'
            BY <2>6, <3>1, <3>2, TimeIsNat, RevisionType, UpsertType, StoreUnchanged
               DEF Enqueue
        <3>4. ASSUME sched' = NextTarget PROVE SchedOK'
            BY <3>4, <1>4 DEF SchedOK
        <3>5. ASSUME sched' = [sched EXCEPT !.pc = "recheck", !.platform = None, !.rev = 0,
                                            !.left = @ \ {sched.platform}]
              PROVE  SchedOK'
            BY <3>1, <3>5 DEF SchedOK, SchedState
        <3> QED
            BY <2>6, <3>3, <3>4, <3>5 DEF Enqueue, AfterPlatform
    <2>7. CASE ScheduleDone
        BY <2>7, IdleTypes, StoreUnchanged DEF ScheduleDone, SchedOK
    <2>8. CASE ScheduleExit
        BY <2>8, StoreUnchanged DEF ScheduleExit, SchedOK, SchedState
    <2> QED
        BY <2>1, <2>2, <2>3, <2>4, <2>5, <2>6, <2>7, <2>8
<1> QED
    BY <1>1, <1>2, <1>3, <1>5, TypeInvParts

-----------------------------------------------------------------------------
(* The steps of the send loop.                                             *)

LEMMA ClaimOfType ==
    ASSUME StoreTypeOK, NEW k \in JobKey
    PROVE  ClaimOf(k) \in Claimed
BY DEF StoreTypeOK, ClaimOf, Claimed, Job

LEMMA NextJobType ==
    ASSUME SendOK
    PROVE  NextJob \in SendState /\ NextJob.pc = "next"
BY DEF SendOK, SendState, NextJob, Outcomes

LEMMA SendTypes ==
    ASSUME TypeInv,
           \/ SendTick \/ Claim \/ SendDone \/ Answer \/ DropLateResult \/ Finish
           \/ Advance \/ RequeueForRetry \/ SendExit
           \/ \E j \in send.batch : Call(j) \/ SkipCall(j)
    PROVE  TypeInv'
<1> Parts
    BY TypeInvParts
<1> USE DEF Parts
<1>1. /\ EnvOK' /\ MgrOK' /\ SchedOK' /\ TestOK' /\ RetryOK'
      /\ svc' = svc /\ svcRevision' = svcRevision
    <2>1. UNCHANGED sendOnly
        BY DEF SendTick, Claim, SendDone, Answer, DropLateResult, Finish, Advance,
               RequeueForRetry, SendExit, Call, SkipCall
    <2> QED
        BY <2>1 DEF sendOnly, envVars, EnvOK, MgrOK, SchedOK, TestOK, RetryOK
<1>2. SvcOK'
    BY <1>1 DEF SendTick, Claim, SendDone, Answer, DropLateResult, Finish, Advance,
                RequeueForRetry, SendExit, Call, SkipCall, SvcOK
<1>3. budget' \in Nat
    BY BudgetType DEF SendTick, Claim, SendDone, Answer, DropLateResult, Finish,
                      Advance, RequeueForRetry, SendExit, Call, SkipCall, Calm
<1>4. NextJob \in SendState /\ NextJob.pc = "next"
    BY NextJobType
<1>5. StoreTypeOK' /\ SendOK' /\ HistOK'
    <2>1. CASE SendTick
        <3>1. StoreTypeOK'
            BY <2>1, SupersedeType, StoreUnchanged DEF SendTick
        <3>2. PICK ok \in BOOLEAN : send' = [IdleSend EXCEPT !.pc = "claim", !.clean = ok]
            BY <2>1 DEF SendTick
        <3>3. SendOK'
            BY <3>2, IdleTypes DEF SendOK, SendState
        <3> QED
            BY <2>1, <3>1, <3>3 DEF SendTick, HistOK, histVars
    <2>2. CASE Claim
        <3>1. ASSUME NEW K \in SUBSET JobKey, ClaimDueJobs(K),
                     send' = [send EXCEPT !.pc = "next", !.at = now,
                                          !.batch = {ClaimOf(k) : k \in K}]
              PROVE  StoreTypeOK' /\ SendOK'
            <4>1. {ClaimOf(k) : k \in K} \in SUBSET Claimed
                BY ClaimOfType
            <4>2. now \in Time
                BY DEF EnvOK
            <4> QED
                BY <3>1, <4>1, <4>2, ClaimType DEF SendOK, SendState
        <3>2. ASSUME UNCHANGED storeVars, send' = IdleSend
              PROVE  StoreTypeOK' /\ SendOK'
            BY <3>2, StoreUnchanged, IdleTypes DEF SendOK
        <3>3. Claimable(now, BatchLimit) \subseteq SUBSET JobKey
            BY DEF Claimable, KeysIn
        <3> QED
            BY <2>2, <3>1, <3>2, <3>3 DEF Claim, HistOK, histVars
    <2>3. CASE SendDone
        BY <2>3, StoreUnchanged, IdleTypes DEF SendDone, SendOK, HistOK, histVars
    <2>4. ASSUME NEW j \in send.batch, Call(j)
          PROVE  StoreTypeOK' /\ SendOK' /\ HistOK'
        <3>1. j \in Claimed /\ j.id \in Nat
            BY DEF SendOK, SendState, Claimed
        <3>2. SendOK'
            BY <2>4, <3>1 DEF Call, SendOK, SendState
        <3> QED
            BY <2>4, <3>1, <3>2, StoreUnchanged DEF Call, HistOK
    <2>5. ASSUME NEW j \in send.batch, SkipCall(j)
          PROVE  StoreTypeOK' /\ SendOK' /\ HistOK'
        BY <2>5, StoreUnchanged
           DEF SkipCall, SendOK, SendState, HistOK, histVars, Outcomes
    <2>6. CASE Answer
        <3>1. send.job \in Claimed /\ send.at \in Time
            BY <2>6 DEF Answer, SendOK, SendState
        <3>2. send.at + RetryAfter \in Nat
            BY <3>1, TimeIsNat, ServiceAssumption
        <3>3. HistOK'
            BY <2>6, <3>2 DEF Answer, HistOK
        <3>4. SendOK'
            BY <2>6, <3>1 DEF Answer, SendOK, SendState
        <3> QED
            BY <2>6, <3>3, <3>4, StoreUnchanged DEF Answer
    <2>7. CASE DropLateResult
        BY <2>7, StoreUnchanged, IdleTypes DEF DropLateResult, SendOK, HistOK, histVars
    <2>8. CASE Finish
        <3>1. /\ send.job \in Claimed /\ send.job.id \in Nat
              /\ OutcomeOf(send.outcome) \in Outcomes
            BY <2>8 DEF Finish, SendOK, SendState, Claimed, OutcomeOf, Outcomes
        <3>2. StoreTypeOK'
            BY <2>8, <3>1, FinishType, StoreUnchanged DEF Finish, storeVars
        <3>3. \/ send' = NextJob
              \/ send' = [send EXCEPT !.pc = "clock"]
              \/ send' = [send EXCEPT !.pc = "requeue"]
            BY <2>8 DEF Finish
        <3>4. SendOK'
            BY <3>1, <3>3, <1>4 DEF SendOK, SendState
        <3>5. HistOK'
            BY <2>8, <3>1 DEF Finish, HistOK
        <3> QED
            BY <3>2, <3>4, <3>5
    <2>9. CASE Advance
        <3>1. /\ <<send.job.key.note, send.job.key.channel>> \in Targets
              /\ send.at \in Time
            BY <2>9 DEF Advance, SendOK, SendState, Claimed, JobKey, Targets
        <3>2. StoreTypeOK'
            BY <2>9, <3>1, ClockType, StoreUnchanged DEF Advance
        <3> QED
            BY <2>9, <3>2, <1>4 DEF Advance, SendOK, HistOK, histVars
    <2>10. CASE RequeueForRetry
        <3>1. /\ send.job.key \in JobKey
              /\ send.at \in Time
            BY <2>10 DEF RequeueForRetry, SendOK, SendState, Claimed
        <3>2. send.at + RetryAfter \in Nat /\ 0 \in Nat
            BY <3>1, TimeIsNat, ServiceAssumption
        <3>3. StoreTypeOK'
            BY <2>10, <3>1, <3>2, UpsertType, StoreUnchanged DEF RequeueForRetry
        <3> QED
            BY <2>10, <3>3, <1>4 DEF RequeueForRetry, SendOK, HistOK, histVars
    <2>11. CASE SendExit
        BY <2>11, StoreUnchanged DEF SendExit, SendOK, SendState, HistOK, histVars
    <2> QED
        BY <2>1, <2>2, <2>3, <2>4, <2>5, <2>6, <2>7, <2>8, <2>9, <2>10, <2>11
<1> QED
    BY <1>1, <1>2, <1>3, <1>5, TypeInvParts

-----------------------------------------------------------------------------
(* The manager, the handlers, the wall clock and the crash.                *)

LEMMA ManagerTypes ==
    ASSUME TypeInv,
           \/ SettingsPut \/ KeyBindingsWrite \/ Reconfigure
           \/ Bump \/ Cancel \/ StopDone \/ Start \/ Register \/ Tick \/ Crash
    PROVE  TypeInv'
<1> Parts
    BY TypeInvParts
<1> USE DEF Parts
<1>1. EnvOK'
    <2>1. CASE Tick
        BY <2>1, StoreAssumption DEF Tick, EnvOK, Time
    <2>2. CASE SettingsPut
        BY <2>2 DEF SettingsPut, EnvOK
    <2>3. CASE KeyBindingsWrite
        BY <2>3 DEF KeyBindingsWrite, EnvOK
    <2>4. CASE \/ Reconfigure \/ Bump \/ Cancel \/ StopDone \/ Start \/ Register
               \/ Crash
        BY <2>4 DEF Reconfigure, Bump, Cancel, StopDone, Start, Register, Crash,
                    envVars, EnvOK
    <2> QED
        BY <2>1, <2>2, <2>3, <2>4
<1>2. MgrOK' /\ SvcOK'
    <2>1. MgrOK'
        BY DEF SettingsPut, KeyBindingsWrite, Reconfigure, Bump, Cancel, StopDone,
               Start, Register, Tick, Crash, MgrOK
    <2>2. revision \in Nat
        BY DEF StoreTypeOK, EnvOK
    <2>3. SvcOK'
        BY <2>2
           DEF SettingsPut, KeyBindingsWrite, Reconfigure, Bump, Cancel, StopDone,
               Start, Register, Tick, Crash, svcVars, SvcOK
    <2> QED
        BY <2>1, <2>3
<1>3. SchedOK' /\ SendOK'
    BY IdleTypes
       DEF SettingsPut, KeyBindingsWrite, Reconfigure, Bump, Cancel, StopDone,
           Start, Register, Tick, Crash, SchedOK, SendOK
<1>4. TestOK' /\ RetryOK'
    BY IdleTypes
       DEF SettingsPut, KeyBindingsWrite, Reconfigure, Bump, Cancel, StopDone,
           Start, Register, Tick, Crash, TestOK, RetryOK
<1>5. HistOK' /\ budget' \in Nat
    BY BudgetType
       DEF SettingsPut, KeyBindingsWrite, Reconfigure, Bump, Cancel, StopDone,
           Start, Register, Tick, Crash, HistOK, histVars
<1>6. StoreTypeOK'
    BY StoreUnchanged, BumpType, RecoverType
       DEF SettingsPut, KeyBindingsWrite, Reconfigure, Bump, Cancel, StopDone,
           Start, Register, Tick, Crash
<1> QED
    BY <1>1, <1>2, <1>3, <1>4, <1>5, <1>6, TypeInvParts

LEMMA HandlerTypes ==
    ASSUME TypeInv,
           \/ \E n \in Notes : TestSend(n)
           \/ TestEnqueue \/ TestPick \/ TestFinish
           \/ (\E d \in deliveries : RetryRead(d)) \/ RetryWrite
    PROVE  TypeInv'
<1> Parts
    BY TypeInvParts
<1> USE DEF Parts
<1>1. /\ EnvOK' /\ SvcOK' /\ SchedOK' /\ SendOK' /\ HistOK'
    BY DEF TestSend, TestEnqueue, TestPick, TestFinish, RetryRead, RetryWrite,
           testOnly, envVars, svcVars, histVars, EnvOK, SvcOK, SchedOK, SendOK, HistOK
<1>2. MgrOK'
    BY DEF TestSend, TestEnqueue, TestPick, TestFinish, RetryRead, RetryWrite,
           TestOver, MgrOK
<1>3. budget' \in Nat
    BY BudgetType DEF TestSend, TestEnqueue, TestPick, TestFinish, RetryRead,
                      RetryWrite, Calm
<1>4. /\ now \in Time /\ now \in Nat
      /\ revision \in Nat /\ nextID \in Nat
    BY TimeIsNat DEF EnvOK, StoreTypeOK
<1>5. ASSUME NEW n \in Notes, TestSend(n) PROVE StoreTypeOK' /\ TestOK' /\ RetryOK'
    <2>1. PICK listed \in {ChannelsOf(n, Channels), {NoChannel}} :
             test' = [IdleTest EXCEPT
                        !.pc = "next", !.note = n, !.at = now, !.rev = revision,
                        !.todo = {cp \in listed \X Platforms :
                                    <<n, cp[2]>> \in live.platforms}]
        BY <1>5 DEF TestSend
    <2>2. listed \subseteq ChannelIDs
        BY DEF ChannelsOf
    <2>3. TestOK'
        BY <1>4, <2>1, <2>2, IdleTypes DEF TestOK, TestState
    <2> QED
        BY <1>5, <2>3, StoreUnchanged DEF TestSend, testOnly, RetryOK
<1>6. ASSUME TestEnqueue PROVE StoreTypeOK' /\ TestOK' /\ RetryOK'
    <2>1. ASSUME NEW cp \in test.todo, NEW k,
                 k = [note |-> test.note, channel |-> cp[1], platform |-> cp[2],
                      period |-> PeriodKey(test.note, test.at)],
                 UpsertJob(k, test.at, test.rev),
                 test' = [test EXCEPT !.pc = "pick", !.key = k, !.todo = @ \ {cp},
                                      !.id = IF nextID' # nextID THEN nextID ELSE 0]
          PROVE  StoreTypeOK' /\ TestOK'
        <3>1. /\ test.note \in Notes /\ test.at \in Time /\ test.rev \in Nat
              /\ cp \in ChannelIDs \X Platforms
            BY <1>6 DEF TestEnqueue, TestOK, TestState
        <3>2. k \in JobKey
            BY <2>1, <3>1, PeriodType DEF JobKey
        <3>3. StoreTypeOK'
            BY <2>1, <3>1, <3>2, <1>4, TimeIsNat, UpsertType
        <3> QED
            BY <2>1, <3>1, <3>2, <3>3, <1>4 DEF TestOK, TestState
    <2>2. ASSUME UNCHANGED storeVars, test' = IdleTest
          PROVE  StoreTypeOK' /\ TestOK'
        BY <2>2, StoreUnchanged, IdleTypes DEF TestOK
    <2> QED
        BY <1>6, <2>1, <2>2 DEF TestEnqueue, TestOver, testOnly, RetryOK
<1>7. ASSUME TestPick PROVE StoreTypeOK' /\ TestOK' /\ RetryOK'
    <2>1. \A l \in CursorFirst(SamePeriodPending(test.key)) : jobs[l].id \in Nat
        BY DEF CursorFirst, SamePeriodPending, KeysIn, StoreTypeOK, Job
    <2>2. TestOK'
        BY <1>7, <2>1 DEF TestPick, TestOK, TestState
    <2> QED
        BY <1>7, <2>2, StoreUnchanged DEF TestPick, testOnly, RetryOK
<1>8. ASSUME TestFinish PROVE StoreTypeOK' /\ TestOK' /\ RetryOK'
    <2>1. StoreTypeOK'
        BY <1>8, FinishType, StoreUnchanged DEF TestFinish
    <2>2. \/ test' = IdleTest
          \/ test' = [test EXCEPT !.pc = "next", !.key = None, !.id = 0]
        BY <1>8 DEF TestFinish, TestOver
    <2>3. ASSUME test' = [test EXCEPT !.pc = "next", !.key = None, !.id = 0]
          PROVE  TestOK'
        <3>1. test.pc = "call" /\ test.note \in Notes /\ test \in TestState
            BY <1>8 DEF TestFinish, TestOK
        <3> QED
            BY <2>3, <3>1 DEF TestOK, TestState
    <2>4. TestOK'
        BY <2>2, <2>3, IdleTypes DEF TestOK
    <2> QED
        BY <1>8, <2>1, <2>4 DEF TestFinish, testOnly, RetryOK
<1>9. ASSUME NEW d \in deliveries, RetryRead(d)
      PROVE  StoreTypeOK' /\ TestOK' /\ RetryOK'
    <2>1. PICK k \in JobKey :
             retry' = [pc |-> "write", rev |-> revision,
                       key |-> [note |-> d.note, channel |-> NoChannel,
                                platform |-> d.platform, period |-> d.period]]
        BY <1>9 DEF RetryRead
    <2>2. d \in Delivery
        BY DEF StoreTypeOK, Job
    <2>3. RetryOK'
        BY <1>4, <2>1, <2>2 DEF RetryOK, RetryState, Delivery, JobKey
    <2> QED
        BY <1>9, <2>3, StoreUnchanged DEF RetryRead, TestOK
<1>10. ASSUME RetryWrite PROVE StoreTypeOK' /\ TestOK' /\ RetryOK'
    <2>1. retry.key \in JobKey /\ retry.rev \in Nat
        BY <1>10 DEF RetryWrite, RetryOK, RetryState
    <2>2. StoreTypeOK'
        BY <1>4, <1>10, <2>1, RevisionType, UpsertType, StoreUnchanged DEF RetryWrite
    <2> QED
        BY <1>10, <2>2, IdleTypes DEF RetryWrite, TestOK, RetryOK
<1> QED
    BY <1>1, <1>2, <1>3, <1>5, <1>6, <1>7, <1>8, <1>9, <1>10, TypeInvParts

LEMMA TypeNext == TypeInv /\ [Next]_vars => TypeInv'
<1> SUFFICES ASSUME TypeInv, [Next]_vars PROVE TypeInv'
    OBVIOUS
<1>1. CASE UNCHANGED vars
    <2> Parts
        BY TypeInvParts
    <2>1. Parts'
        BY <1>1, StoreUnchanged
           DEF vars, Parts, EnvOK, SvcOK, MgrOK, SchedOK, SendOK, TestOK, RetryOK,
               HistOK, envVars, svcVars, histVars
    <2> QED
        BY <2>1, TypeInvParts
<1>2. CASE \/ ScheduleTick \/ ReadClock \/ Gate \/ Collect \/ Recheck \/ Enqueue
           \/ ScheduleDone \/ ScheduleExit
    BY <1>2, ScheduleTypes
<1>3. CASE \/ SendTick \/ Claim \/ SendDone \/ Answer \/ DropLateResult \/ Finish
           \/ Advance \/ RequeueForRetry \/ SendExit
           \/ \E j \in send.batch : Call(j) \/ SkipCall(j)
    BY <1>3, SendTypes
<1>4. CASE \/ SettingsPut \/ KeyBindingsWrite \/ Reconfigure
           \/ Bump \/ Cancel \/ StopDone \/ Start \/ Register \/ Tick \/ Crash
    BY <1>4, ManagerTypes
<1>5. CASE \/ \E n \in Notes : TestSend(n)
           \/ TestEnqueue \/ TestPick \/ TestFinish
           \/ (\E d \in deliveries : RetryRead(d)) \/ RetryWrite
    BY <1>5, HandlerTypes
<1> QED
    BY <1>1, <1>2, <1>3, <1>4, <1>5 DEF Next

THEOREM TypeInvariant == Spec => []TypeInv
BY TypeInit, TypeNext, PTL DEF Spec

\* Every variable of the service and of its store keeps its type, through
\* every fault and every interleaving, for all notifications, channels,
\* platforms and schedules (notification_service.go, notification_store.go).
THEOREM TypeCorrect == Spec => []TypeOK
<1>1. TypeInv => TypeOK
    BY DEF TypeInv
<1> QED
    BY <1>1, TypeInvariant, PTL

HIDE DEF ChannelIDs

-----------------------------------------------------------------------------
Waiting  == IdsIn("pending")
InFlight == IdsIn("sending")
Armed    == {j.id : j \in send.batch}
Settled  == {d.job : d \in deliveries}

RowIds ==
    /\ \A k \in JobKey : jobs[k].state # "absent" => jobs[k].id \in 1..(nextID - 1)
    /\ \A k, l \in JobKey :
          /\ jobs[k].state # "absent" /\ jobs[l].state # "absent"
          /\ jobs[k].id = jobs[l].id
          => k = l

Batches ==
    /\ \A i, j \in send.batch : i.id = j.id => i = j
    /\ send.pc \in {"idle", "claim"} => send.batch = {}

LedgerMapInv == TypeInv /\ RowIds /\ Batches

-----------------------------------------------------------------------------
(* What the store's operations do to the identifiers.                      *)

\* The part of the store the ledger is made of.
ledgerOf == <<nextID, Waiting, InFlight, Settled, replaced>>

LEMMA MergeIds ==
    ASSUME StoreTypeOK, RowIds, NEW k \in JobKey, NEW next, NEW rev,
           MergeJob(k, next, rev), UNCHANGED deliveries
    PROVE  RowIds' /\ UNCHANGED ledgerOf
<1>1. \A l \in JobKey : jobs'[l].state = jobs[l].state /\ jobs'[l].id = jobs[l].id
    BY DEF MergeJob, StoreTypeOK, Job
<1>2. RowIds'
    BY <1>1 DEF RowIds, MergeJob
<1>3. Waiting' = Waiting /\ InFlight' = InFlight
    BY <1>1 DEF Waiting, InFlight, IdsIn, KeysIn
<1> QED
    BY <1>2, <1>3 DEF MergeJob, ledgerOf, Settled

LEMMA InsertIds ==
    ASSUME StoreTypeOK, RowIds, NEW k \in JobKey, NEW next,
           InsertJob(k, next), UNCHANGED deliveries
    PROVE  /\ RowIds'
           /\ nextID' = nextID + 1
           /\ Waiting' = Waiting \cup {nextID}
           /\ \E over \in SUBSET InFlight : InFlight' = InFlight \ over
                                            /\ replaced' = replaced \cup over
           /\ Settled' = Settled
<1>1. /\ \A l \in JobKey : l # k => jobs'[l] = jobs[l]
      /\ jobs'[k].state = "pending" /\ jobs'[k].id = nextID
      /\ jobs[k].state # "pending"
      /\ nextID \in Nat \ {0} /\ nextID' = nextID + 1
    BY DEF InsertJob, StoreTypeOK, Job
<1>2. RowIds'
    BY <1>1 DEF RowIds
<1>3. Waiting' = Waiting \cup {nextID}
    BY <1>1 DEF Waiting, IdsIn, KeysIn
<1>4. CASE jobs[k].state = "sending"
    <2>1. {jobs[k].id} \in SUBSET InFlight
        BY <1>4 DEF InFlight, IdsIn, KeysIn
    <2>2. InFlight' = InFlight \ {jobs[k].id}
        BY <1>1, <1>4 DEF InFlight, IdsIn, KeysIn, RowIds
    <2>3. replaced' = replaced \cup {jobs[k].id}
        BY <1>4 DEF InsertJob
    <2> QED
        BY <1>1, <1>2, <1>3, <2>1, <2>2, <2>3 DEF Settled
<1>5. CASE jobs[k].state # "sending"
    <2>1. InFlight' = InFlight \ {} /\ {} \in SUBSET InFlight
        BY <1>1, <1>5 DEF InFlight, IdsIn, KeysIn
    <2>2. replaced' = replaced \cup {}
        BY <1>5 DEF InsertJob
    <2> QED
        BY <1>1, <1>2, <1>3, <2>1, <2>2 DEF Settled
<1> QED
    BY <1>4, <1>5

LEMMA MoveRows ==
    ASSUME StoreTypeOK, NEW K \in SUBSET JobKey, NEW state, MoveJobs(K, state)
    PROVE  \A l \in JobKey :
              /\ jobs'[l].id = jobs[l].id
              /\ jobs'[l].state = IF l \in K THEN state ELSE jobs[l].state
BY DEF MoveJobs, StoreTypeOK, Job

LEMMA ClaimIds ==
    ASSUME StoreTypeOK, RowIds, NEW K \in SUBSET KeysIn("pending"), ClaimDueJobs(K)
    PROVE  LET S == {jobs[k].id : k \in K}
           IN  /\ RowIds'
               /\ S \in SUBSET Waiting
               /\ Waiting' = Waiting \ S
               /\ InFlight' = InFlight \cup S
               /\ UNCHANGED <<nextID, replaced, Settled>>
<1> DEFINE S == {jobs[k].id : k \in K}
<1>1. K \in SUBSET JobKey /\ \A k \in K : jobs[k].state = "pending"
    BY DEF KeysIn
<1>2. \A l \in JobKey :
         /\ jobs'[l].id = jobs[l].id
         /\ jobs'[l].state = IF l \in K THEN "sending" ELSE jobs[l].state
    BY <1>1, MoveRows DEF ClaimDueJobs
<1>3. RowIds'
    BY <1>1, <1>2 DEF ClaimDueJobs, RowIds
<1>4. S \in SUBSET Waiting
    BY <1>1 DEF Waiting, IdsIn, KeysIn
<1>5. Waiting' = Waiting \ S
    BY <1>1, <1>2 DEF Waiting, IdsIn, KeysIn, RowIds
<1>6. InFlight' = InFlight \cup S
    BY <1>1, <1>2 DEF InFlight, IdsIn, KeysIn
<1> QED
    BY <1>3, <1>4, <1>5, <1>6 DEF ClaimDueJobs, Settled

LEMMA SupersedeIds ==
    ASSUME StoreTypeOK, RowIds, NEW rev, SupersedeStaleJobs(rev)
    PROVE  /\ RowIds'
           /\ \E S \in SUBSET Waiting : Waiting' = Waiting \ S
           /\ UNCHANGED <<nextID, InFlight, replaced, Settled>>
<1> DEFINE K == {k \in JobKey : IsStale(k, rev)}
           S == {jobs[k].id : k \in K}
<1>1. K \in SUBSET JobKey /\ \A k \in K : jobs[k].state = "pending"
    BY DEF IsStale
<1>2. MoveJobs(K, "superseded")
    BY DEF SupersedeStaleJobs
<1> HIDE DEF K
<1>3. \A l \in JobKey :
         /\ jobs'[l].id = jobs[l].id
         /\ jobs'[l].state = IF l \in K THEN "superseded" ELSE jobs[l].state
    BY <1>1, <1>2, MoveRows
<1>4. RowIds'
    BY <1>1, <1>3 DEF SupersedeStaleJobs, RowIds
<1>5. S \in SUBSET Waiting
    BY <1>1 DEF Waiting, IdsIn, KeysIn
<1>6. Waiting' = Waiting \ S
    BY <1>1, <1>3 DEF Waiting, IdsIn, KeysIn, RowIds
<1>7. InFlight' = InFlight
    BY <1>1, <1>3 DEF InFlight, IdsIn, KeysIn
<1> QED
    BY <1>4, <1>5, <1>6, <1>7 DEF SupersedeStaleJobs, Settled

LEMMA FinishIds ==
    ASSUME StoreTypeOK, RowIds, NEW id, NEW o \in Outcomes, FinishJob(id, o)
    PROVE  /\ RowIds'
           /\ id \in 1..(nextID - 1)
           /\ Waiting' = Waiting \ {id}
           /\ InFlight' = InFlight \ {id}
           /\ Settled' = Settled \cup {id}
           /\ UNCHANGED <<nextID, replaced>>
<1>1. PICK k \in JobKey :
          /\ jobs[k].state # "absent" /\ jobs[k].id = id
          /\ jobs' = [jobs EXCEPT ![k] = [@ EXCEPT !.state = StateFor(o)]]
          /\ deliveries' = deliveries \cup {DeliveryOf(k, o)}
    BY DEF FinishJob
<1>2. StateFor(o) \notin {"absent", "pending", "sending"}
    BY DEF StateFor, Outcomes
<1>3. /\ \A l \in JobKey : jobs'[l].id = jobs[l].id /\ (l # k => jobs'[l] = jobs[l])
      /\ jobs'[k].state = StateFor(o)
    BY <1>1 DEF StoreTypeOK, Job
<1>4. RowIds' /\ id \in 1..(nextID - 1)
    BY <1>1, <1>3 DEF FinishJob, RowIds
<1>5. Waiting' = Waiting \ {id}
    BY <1>1, <1>2, <1>3 DEF Waiting, IdsIn, KeysIn, RowIds
<1>6. InFlight' = InFlight \ {id}
    BY <1>1, <1>2, <1>3 DEF InFlight, IdsIn, KeysIn, RowIds
<1>7. Settled' = Settled \cup {id}
    <2>1. DeliveryOf(k, o).job = id
        BY <1>1 DEF DeliveryOf
    <2>2. deliveries' = deliveries \cup {DeliveryOf(k, o)}
        BY <1>1
    <2> QED
        BY <2>1, <2>2 DEF Settled
<1> QED
    BY <1>4, <1>5, <1>6, <1>7 DEF FinishJob

LEMMA RecoverIds ==
    ASSUME StoreTypeOK, RowIds, RecoverOnBoot
    PROVE  /\ RowIds'
           /\ InFlight' = {}
           /\ Settled' = Settled \cup InFlight
           /\ UNCHANGED <<nextID, Waiting, replaced>>
<1> DEFINE K == KeysIn("sending")
<1>1. K \in SUBSET JobKey /\ \A k \in JobKey : k \in K <=> jobs[k].state = "sending"
    BY DEF KeysIn
<1>2. MoveJobs(K, "unknown")
    BY DEF RecoverOnBoot
<1> HIDE DEF K
<1>3. \A l \in JobKey :
         /\ jobs'[l].id = jobs[l].id
         /\ jobs'[l].state = IF l \in K THEN "unknown" ELSE jobs[l].state
    BY <1>1, <1>2, MoveRows
<1>4. RowIds'
    BY <1>1, <1>3 DEF RecoverOnBoot, RowIds
<1>5. InFlight' = {} /\ Waiting' = Waiting
    BY <1>1, <1>3 DEF InFlight, Waiting, IdsIn, KeysIn
<1>6. Settled' = Settled \cup InFlight
    <2> DEFINE New == {DeliveryOf(k, "unknown") : k \in K}
    <2>1. deliveries' = deliveries \cup New
        BY DEF RecoverOnBoot, K
    <2>2. \A k \in JobKey : DeliveryOf(k, "unknown").job = jobs[k].id
        BY DEF DeliveryOf
    <2>3. {d.job : d \in New} = {jobs[k].id : k \in K}
        BY <1>1, <2>2
    <2> HIDE DEF New
    <2>4. Settled' = Settled \cup {d.job : d \in New}
        BY <2>1 DEF Settled
    <2> QED
        BY <2>3, <2>4 DEF InFlight, IdsIn, K
<1> QED
    BY <1>4, <1>5, <1>6 DEF RecoverOnBoot

-----------------------------------------------------------------------------
(* The steps of the ledger, in the terms of the service.                   *)

\* What the ledger sees of the senders.
sendersOf == <<Armed, attempted>>

LEMMA AsIssue ==
    ASSUME nextID \in Nat \ {0}, nextID' = nextID + 1, Waiting' = Waiting \cup {nextID},
           NEW over \in SUBSET InFlight, InFlight' = InFlight \ over,
           replaced' = replaced \cup over, Settled' = Settled, UNCHANGED sendersOf
    PROVE  Ledger!LedgerNext
<1>1. nextID - 1 + 1 = nextID /\ nextID' - 1 = nextID
    OBVIOUS
<1>2. Ledger!Issue(over)
    BY <1>1 DEF Ledger!Issue, Waiting, InFlight, Settled, Armed, sendersOf
<1> QED
    BY <1>2 DEF Ledger!LedgerNext, InFlight

LEMMA AsTake ==
    ASSUME NEW S \in SUBSET Waiting, Waiting' = Waiting \ S, InFlight' = InFlight \cup S,
           Armed' = S, UNCHANGED <<nextID, replaced, Settled, attempted>>
    PROVE  Ledger!LedgerNext
<1>1. Ledger!Take(S)
    BY DEF Ledger!Take, Waiting, InFlight, Settled, Armed
<1> QED
    BY <1>1 DEF Ledger!LedgerNext, Waiting

LEMMA AsWithdraw ==
    ASSUME NEW S \in SUBSET Waiting, Waiting' = Waiting \ S,
           UNCHANGED <<nextID, InFlight, replaced, Settled>>, UNCHANGED sendersOf
    PROVE  Ledger!LedgerNext
<1>1. Ledger!Withdraw(S)
    BY DEF Ledger!Withdraw, Waiting, InFlight, Settled, Armed, sendersOf
<1> QED
    BY <1>1 DEF Ledger!LedgerNext, Waiting

LEMMA AsCallFor ==
    ASSUME NEW id \in Armed, Armed' = Armed \ {id}, attempted' = attempted \cup {id},
           UNCHANGED ledgerOf
    PROVE  Ledger!LedgerNext
<1>1. Ledger!CallFor(id)
    BY DEF Ledger!CallFor, Waiting, InFlight, Settled, Armed, ledgerOf
<1> QED
    BY <1>1 DEF Ledger!LedgerNext, Armed

LEMMA AsDisarm ==
    ASSUME NEW S \in SUBSET Armed, Armed' = Armed \ S, UNCHANGED attempted,
           UNCHANGED ledgerOf
    PROVE  Ledger!LedgerNext
<1>1. Ledger!Disarm(S)
    BY DEF Ledger!Disarm, Waiting, InFlight, Settled, Armed, ledgerOf
<1> QED
    BY <1>1 DEF Ledger!LedgerNext, Armed

LEMMA AsSettle ==
    ASSUME NEW id \in 1..(nextID - 1), Waiting' = Waiting \ {id},
           InFlight' = InFlight \ {id}, Settled' = Settled \cup {id},
           UNCHANGED <<nextID, replaced>>, UNCHANGED sendersOf
    PROVE  Ledger!LedgerNext
<1>1. Ledger!Settle(id)
    BY DEF Ledger!Settle, Ledger!Ids, Waiting, InFlight, Settled, Armed, sendersOf
<1> QED
    BY <1>1 DEF Ledger!LedgerNext, Ledger!Ids

LEMMA AsRecoverAll ==
    ASSUME InFlight' = {}, Settled' = Settled \cup InFlight,
           UNCHANGED <<nextID, Waiting, replaced>>, UNCHANGED sendersOf
    PROVE  Ledger!LedgerNext
<1>1. Ledger!RecoverAll
    BY DEF Ledger!RecoverAll, Waiting, InFlight, Settled, Armed, sendersOf
<1> QED
    BY <1>1 DEF Ledger!LedgerNext

LEMMA AsStutter ==
    ASSUME UNCHANGED ledgerOf, UNCHANGED sendersOf
    PROVE  UNCHANGED Ledger!ledgerVars
BY DEF Ledger!ledgerVars, ledgerOf, sendersOf, Waiting, InFlight, Settled, Armed

-----------------------------------------------------------------------------
(* Every step of the service is one of these, and keeps the invariant.     *)

LedgerStep == /\ RowIds' /\ Batches'
              /\ Ledger!LedgerNext \/ UNCHANGED Ledger!ledgerVars

LEMMA StoreKept ==
    ASSUME RowIds, UNCHANGED <<jobs, deliveries, nextID, replaced>>
    PROVE  RowIds' /\ UNCHANGED ledgerOf
BY DEF RowIds, ledgerOf, Waiting, InFlight, Settled, IdsIn, KeysIn

LEMMA SendersKept ==
    ASSUME Batches, UNCHANGED send, UNCHANGED attempted
    PROVE  Batches' /\ UNCHANGED sendersOf
BY DEF Batches, sendersOf, Armed

\* The loop drops what is left of its batch.
LEMMA BatchDropped ==
    ASSUME RowIds, send' = IdleSend, UNCHANGED <<jobs, deliveries, nextID, replaced>>,
           UNCHANGED attempted
    PROVE  LedgerStep
<1>1. Batches' /\ Armed' = Armed \ Armed /\ Armed \in SUBSET Armed
    BY DEF Batches, Armed, IdleSend
<1> QED
    BY <1>1, StoreKept, AsDisarm DEF LedgerStep

\* A step that moves the loop on with the batch it has.
LEMMA BatchKept ==
    ASSUME Batches, send'.batch = send.batch, UNCHANGED attempted,
           send'.pc \in {"idle", "claim"} => send.pc \in {"idle", "claim"}
    PROVE  Batches' /\ UNCHANGED sendersOf
BY DEF Batches, sendersOf, Armed

\* A job taken out of the batch, called for or not.
LEMMA BatchLess ==
    ASSUME Batches, NEW j \in send.batch, send'.batch = send.batch \ {j},
           send'.pc \notin {"idle", "claim"}
    PROVE  Batches' /\ j.id \in Armed /\ Armed' = Armed \ {j.id}
BY DEF Batches, Armed

LEMMA UpsertStep ==
    ASSUME TypeInv, RowIds, Batches,
           NEW k \in JobKey, NEW next, NEW rev,
           UpsertJob(k, next, rev), Batches', UNCHANGED sendersOf
    PROVE  LedgerStep
<1>1. StoreTypeOK /\ nextID \in Nat \ {0}
    BY DEF TypeInv, TypeOK, StoreTypeOK
<1>2. CASE MergeJob(k, next, rev)
    BY <1>1, <1>2, MergeIds, AsStutter DEF UpsertJob, LedgerStep
<1>3. CASE InsertJob(k, next)
    <2>1. UNCHANGED deliveries
        BY DEF UpsertJob
    <2> QED
        BY <1>1, <1>3, <2>1, InsertIds, AsIssue DEF LedgerStep
<1> QED
    BY <1>2, <1>3 DEF UpsertJob

LEMMA FinishStep ==
    ASSUME TypeInv, RowIds, Batches, NEW id, NEW o \in Outcomes, FinishJob(id, o),
           Batches', UNCHANGED sendersOf
    PROVE  LedgerStep
<1>1. StoreTypeOK
    BY DEF TypeInv, TypeOK
<1> QED
    BY <1>1, FinishIds, AsSettle DEF LedgerStep

LEMMA QuietStep ==
    ASSUME RowIds, UNCHANGED <<jobs, deliveries, nextID, replaced>>,
           Batches', UNCHANGED sendersOf
    PROVE  LedgerStep
BY StoreKept, AsStutter DEF LedgerStep

LEMMA ScheduleSteps ==
    ASSUME LedgerMapInv,
           ScheduleTick \/ ReadClock \/ Gate \/ Collect \/ Recheck \/ Enqueue
             \/ ScheduleDone \/ ScheduleExit
    PROVE  LedgerStep
<1> USE DEF LedgerMapInv
<1>1. Batches' /\ UNCHANGED sendersOf
    BY SendersKept
       DEF ScheduleTick, ReadClock, Gate, Collect, Recheck, Enqueue, ScheduleDone,
           ScheduleExit, schedOnly, histVars
<1>2. CASE Enqueue
    <2>1. CASE UNCHANGED storeVars
        BY <1>1, <2>1, QuietStep DEF storeVars
    <2>2. ASSUME NEW rev, UpsertJob(EnqueueKey, sched.at, rev)
          PROVE  LedgerStep
        <3>1. sched.cur \in Targets /\ sched.platform \in Platforms /\ sched.at \in Time
            BY <1>2 DEF Enqueue, TypeInv, TypeOK, Registers, SchedState
        <3>2. EnqueueKey \in JobKey
            BY <3>1, PeriodType DEF EnqueueKey, JobKey, Targets
        <3> QED
            BY <1>1, <2>2, <3>2, UpsertStep
    <2> QED
        BY <1>2, <2>1, <2>2 DEF Enqueue
<1>3. CASE ScheduleTick \/ ReadClock \/ Gate \/ Collect \/ Recheck \/ ScheduleDone
           \/ ScheduleExit
    BY <1>1, <1>3, QuietStep
       DEF ScheduleTick, ReadClock, Gate, Collect, Recheck, ScheduleDone,
           ScheduleExit, storeVars
<1> QED
    BY <1>2, <1>3

LEMMA SendSteps ==
    ASSUME LedgerMapInv,
           \/ SendTick \/ Claim \/ SendDone \/ Answer \/ DropLateResult \/ Finish
           \/ Advance \/ RequeueForRetry \/ SendExit
           \/ \E j \in send.batch : Call(j) \/ SkipCall(j)
    PROVE  LedgerStep
<1> USE DEF LedgerMapInv
<1>1. StoreTypeOK /\ send \in SendState
    BY DEF TypeInv, TypeOK
<1>2. CASE SendTick
    <2>1. send.batch = {} /\ send'.batch = {} /\ UNCHANGED attempted
        BY <1>2 DEF SendTick, Batches, IdleSend, histVars
    <2>2. Batches' /\ UNCHANGED sendersOf
        BY <2>1 DEF Batches, sendersOf, Armed
    <2>3. CASE SupersedeStaleJobs(revision)
        BY <1>1, <2>2, <2>3, SupersedeIds, AsWithdraw DEF LedgerStep
    <2>4. CASE UNCHANGED storeVars
        BY <2>2, <2>4, QuietStep DEF storeVars
    <2> QED
        BY <1>2, <2>3, <2>4 DEF SendTick
<1>3. CASE Claim
    <2>1. ASSUME NEW K \in Claimable(now, BatchLimit), ClaimDueJobs(K),
                 send' = [send EXCEPT !.pc = "next", !.at = now,
                                      !.batch = {ClaimOf(k) : k \in K}]
          PROVE  LedgerStep
        <3>1. K \in SUBSET KeysIn("pending")
            BY DEF Claimable
        <3>2. send'.pc = "next" /\ send'.batch = {ClaimOf(k) : k \in K}
            BY <1>1, <2>1 DEF SendState
        <3>3. Armed' = {jobs[k].id : k \in K}
            <4>1. \A k \in K : ClaimOf(k).id = jobs[k].id
                BY DEF ClaimOf
            <4>2. Armed' = {j.id : j \in {ClaimOf(k) : k \in K}}
                BY <3>2 DEF Armed
            <4> QED
                BY <4>1, <4>2
        <3>4. Batches'
            BY <3>1, <3>2 DEF Batches, ClaimOf, RowIds, KeysIn
        <3>5. UNCHANGED attempted
            BY <1>3 DEF Claim, histVars
        <3> QED
            BY <1>1, <2>1, <3>1, <3>3, <3>4, <3>5, ClaimIds, AsTake DEF LedgerStep
    <2>2. ASSUME UNCHANGED storeVars, send' = IdleSend
          PROVE  LedgerStep
        BY <1>3, <2>2, BatchDropped DEF Claim, storeVars, histVars
    <2> QED
        BY <1>3, <2>1, <2>2 DEF Claim
<1>4. CASE SendDone \/ DropLateResult
    BY <1>4, BatchDropped DEF SendDone, DropLateResult, storeVars, histVars
<1>5. ASSUME NEW j \in send.batch, Call(j) PROVE LedgerStep
    <2>1. send'.batch = send.batch \ {j} /\ send'.pc = "call"
        BY <1>1, <1>5 DEF Call, SendState
    <2>2. Batches' /\ j.id \in Armed /\ Armed' = Armed \ {j.id}
        BY <2>1, BatchLess
    <2> QED
        BY <1>5, <2>2, StoreKept, AsCallFor DEF Call, storeVars, LedgerStep
<1>6. ASSUME NEW j \in send.batch, SkipCall(j) PROVE LedgerStep
    <2>1. send'.batch = send.batch \ {j} /\ send'.pc = "finish"
        BY <1>1, <1>6 DEF SkipCall, SendState
    <2>2. Batches' /\ {j.id} \in SUBSET Armed /\ Armed' = Armed \ {j.id}
        BY <2>1, BatchLess
    <2> QED
        BY <1>6, <2>2, StoreKept, AsDisarm DEF SkipCall, storeVars, histVars, LedgerStep
<1>7. CASE Answer
    <2>1. send'.batch = send.batch /\ send'.pc = "finish" /\ UNCHANGED attempted
        BY <1>1, <1>7 DEF Answer, SendState
    <2> QED
        BY <1>7, <2>1, BatchKept, QuietStep DEF Answer, storeVars
<1>8. NextJob.batch = send.batch /\ NextJob.pc = "next"
    BY <1>1 DEF NextJob, SendState
<1>9. CASE Finish
    <2>1. /\ send'.batch = send.batch /\ send'.pc \notin {"idle", "claim"}
          /\ UNCHANGED attempted
        BY <1>1, <1>8, <1>9 DEF Finish, SendState
    <2>2. Batches' /\ UNCHANGED sendersOf
        BY <2>1, BatchKept
    <2>3. OutcomeOf(send.outcome) \in Outcomes
        BY <1>1 DEF SendState, OutcomeOf, Outcomes
    <2>4. CASE FinishJob(send.job.id, OutcomeOf(send.outcome))
        BY <2>2, <2>3, <2>4, FinishStep
    <2>5. CASE UNCHANGED storeVars
        BY <2>2, <2>5, QuietStep DEF storeVars
    <2> QED
        BY <1>9, <2>4, <2>5 DEF Finish, storeVars
<1>10. CASE Advance \/ RequeueForRetry
    <2>1. Batches' /\ UNCHANGED sendersOf
        BY <1>8, <1>10, BatchKept DEF Advance, RequeueForRetry, histVars
    <2>2. CASE UNCHANGED storeVars
        BY <2>1, <2>2, QuietStep DEF storeVars
    <2>3. CASE SetClock(<<send.job.key.note, send.job.key.channel>>, send.at)
        BY <2>1, <2>3, QuietStep DEF SetClock
    <2>4. ASSUME RequeueForRetry,
                 UpsertJob(send.job.key, send.at + RetryAfter, 0)
          PROVE  LedgerStep
        <3>1. send.job.key \in JobKey
            BY <2>4 DEF RequeueForRetry, TypeInv, Registers, Claimed
        <3> QED
            BY <2>1, <2>4, <3>1, UpsertStep
    <2> QED
        BY <1>10, <2>2, <2>3, <2>4 DEF Advance, RequeueForRetry
<1>11. CASE SendExit
    <2>1. send'.batch = send.batch /\ send'.pc = "exited" /\ UNCHANGED attempted
        BY <1>1, <1>11 DEF SendExit, SendState, histVars
    <2> QED
        BY <1>11, <2>1, BatchKept, QuietStep DEF SendExit, storeVars
<1> QED
    BY <1>2, <1>3, <1>4, <1>5, <1>6, <1>7, <1>9, <1>10, <1>11

LEMMA ManagerSteps ==
    ASSUME LedgerMapInv,
           \/ SettingsPut \/ KeyBindingsWrite \/ Reconfigure
           \/ Bump \/ Cancel \/ StopDone \/ Start \/ Register \/ Tick \/ Crash
    PROVE  LedgerStep
<1> USE DEF LedgerMapInv
<1>1. CASE StopDone \/ Crash
    BY <1>1, BatchDropped DEF StopDone, Crash, storeVars, histVars
<1>2. CASE \/ SettingsPut \/ KeyBindingsWrite \/ Reconfigure \/ Bump \/ Cancel
           \/ Register \/ Tick
    BY <1>2, SendersKept, QuietStep
       DEF SettingsPut, KeyBindingsWrite, Reconfigure, Bump, BumpRevision, Cancel,
           Register, Tick, storeVars, histVars
<1>3. CASE Start
    <2>1. Batches' /\ UNCHANGED sendersOf
        BY <1>3, SendersKept DEF Start, histVars
    <2>2. CASE RecoverOnBoot
        <3>1. StoreTypeOK
            BY DEF TypeInv, TypeOK
        <3> QED
            BY <2>1, <2>2, <3>1, RecoverIds, AsRecoverAll DEF LedgerStep
    <2>3. CASE UNCHANGED storeVars
        BY <2>1, <2>3, QuietStep DEF storeVars
    <2> QED
        BY <1>3, <2>2, <2>3 DEF Start
<1> QED
    BY <1>1, <1>2, <1>3

LEMMA HandlerSteps ==
    ASSUME LedgerMapInv,
           \/ \E n \in Notes : TestSend(n)
           \/ TestEnqueue \/ TestPick \/ TestFinish
           \/ (\E d \in deliveries : RetryRead(d)) \/ RetryWrite
    PROVE  LedgerStep
<1> USE DEF LedgerMapInv
<1>1. Batches' /\ UNCHANGED sendersOf
    BY SendersKept
       DEF TestSend, TestEnqueue, TestPick, TestFinish, RetryRead, RetryWrite,
           testOnly, histVars
<1>2. CASE UNCHANGED storeVars
    BY <1>1, <1>2, QuietStep DEF storeVars
<1>3. ASSUME TestEnqueue, NEW cp \in test.todo, NEW k,
             k = [note |-> test.note, channel |-> cp[1], platform |-> cp[2],
                  period |-> PeriodKey(test.note, test.at)],
             UpsertJob(k, test.at, test.rev)
      PROVE  LedgerStep
    <2>1. /\ test.note \in Notes /\ test.at \in Time
          /\ cp \in ChannelIDs \X Platforms
        BY <1>3 DEF TestEnqueue, TypeInv, TypeOK, Registers, TestState
    <2>2. k \in JobKey
        BY <1>3, <2>1, PeriodType DEF JobKey
    <2> QED
        BY <1>1, <1>3, <2>2, UpsertStep
<1>4. ASSUME NEW o \in Outcomes, FinishJob(test.id, o) PROVE LedgerStep
    BY <1>1, <1>4, FinishStep
<1>5. ASSUME RetryWrite, NEW rev, UpsertJob(retry.key, now, rev)
      PROVE  LedgerStep
    <2>1. retry.key \in JobKey
        BY <1>5 DEF RetryWrite, TypeInv, Registers
    <2> QED
        BY <1>1, <1>5, <2>1, UpsertStep
<1> QED
    BY <1>2, <1>3, <1>4, <1>5
       DEF TestSend, TestEnqueue, TestPick, TestFinish, RetryRead, RetryWrite

LEMMA LedgerMapNext ==
    ASSUME LedgerMapInv, [Next]_vars
    PROVE  LedgerMapInv' /\ (Ledger!LedgerNext \/ UNCHANGED Ledger!ledgerVars)
<1>1. TypeInv'
    BY TypeNext DEF LedgerMapInv
<1>2. ASSUME UNCHANGED vars PROVE LedgerStep
    BY <1>2, SendersKept, QuietStep DEF vars, storeVars, histVars, LedgerMapInv
<1>3. ASSUME \/ ScheduleTick \/ ReadClock \/ Gate \/ Collect \/ Recheck \/ Enqueue
             \/ ScheduleDone \/ ScheduleExit
      PROVE  LedgerStep
    BY <1>3, ScheduleSteps
<1>4. ASSUME \/ SendTick \/ Claim \/ SendDone \/ Answer \/ DropLateResult \/ Finish
             \/ Advance \/ RequeueForRetry \/ SendExit
             \/ \E j \in send.batch : Call(j) \/ SkipCall(j)
      PROVE  LedgerStep
    BY <1>4, SendSteps
<1>5. ASSUME \/ SettingsPut \/ KeyBindingsWrite \/ Reconfigure
             \/ Bump \/ Cancel \/ StopDone \/ Start \/ Register \/ Tick \/ Crash
      PROVE  LedgerStep
    BY <1>5, ManagerSteps
<1>6. ASSUME \/ \E n \in Notes : TestSend(n)
             \/ TestEnqueue \/ TestPick \/ TestFinish
             \/ (\E d \in deliveries : RetryRead(d)) \/ RetryWrite
      PROVE  LedgerStep
    BY <1>6, HandlerSteps
<1>7. LedgerStep
    BY <1>2, <1>3, <1>4, <1>5, <1>6 DEF Next
<1> QED
    BY <1>1, <1>7 DEF LedgerMapInv, LedgerStep

LEMMA LedgerMapInit == Init => LedgerMapInv /\ Ledger!LedgerInit
<1> SUFFICES ASSUME Init PROVE LedgerMapInv /\ Ledger!LedgerInit
    OBVIOUS
<1>1. \A k \in JobKey : jobs[k].state = "absent"
    BY DEF Init, StoreInit, NoJob
<1>2. RowIds
    BY <1>1 DEF RowIds
<1>3. send.batch = {} /\ nextID = 1 /\ deliveries = {} /\ replaced = {} /\ attempted = {}
    BY DEF Init, StoreInit, IdleSend
<1>4. Batches
    BY <1>3 DEF Batches
<1>5. IdsIn("pending") = {} /\ IdsIn("sending") = {}
    BY <1>1 DEF IdsIn, KeysIn
<1>6. Ledger!LedgerInit
    BY <1>3, <1>5 DEF Ledger!LedgerInit
<1> QED
    BY <1>2, <1>4, <1>6, TypeInit DEF LedgerMapInv

-----------------------------------------------------------------------------
(* The results.                                                            *)

\* Rows, batches and identifiers stay in step through every interleaving: no
\* two rows of the store share an identifier and a batch names a job once
\* (newJobID, UpsertJob, ClaimDueJobs).
THEOREM LedgerMap == Spec => []LedgerMapInv
<1>1. LedgerMapInv /\ [Next]_vars => LedgerMapInv'
    BY LedgerMapNext
<1> QED
    BY <1>1, LedgerMapInit, PTL DEF Spec

\* The loops, the manager, the handlers, the faults and the crash implement the
\* job ledger: every step of theirs is a step of the ledger or leaves it alone.
THEOREM LedgerImplemented == Spec => ImplementsJobLedger
<1>1. LedgerMapInv /\ [Next]_vars => [Ledger!LedgerNext]_(Ledger!ledgerVars)
    BY LedgerMapNext
<1> QED
    BY <1>1, LedgerMapInit, LedgerMap, PTL DEF Spec, ImplementsJobLedger, Ledger!LedgerSpec

\* The ledger keeps its promise from step to step.
LEMMA LedgerInvInit == Ledger!LedgerInit => Ledger!LedgerInv
BY DEF Ledger!LedgerInit, Ledger!LedgerInv, Ledger!Ids

LEMMA LedgerInvNext ==
    Ledger!LedgerInv /\ [Ledger!LedgerNext]_(Ledger!ledgerVars) => Ledger!LedgerInv'
<1> SUFFICES ASSUME Ledger!LedgerInv, [Ledger!LedgerNext]_(Ledger!ledgerVars)
             PROVE  Ledger!LedgerInv'
    OBVIOUS
<1> USE DEF Ledger!LedgerInv, Ledger!Ids
<1>1. ASSUME NEW over \in SUBSET InFlight, Ledger!Issue(over) PROVE Ledger!LedgerInv'
    <2> DEFINE n == nextID - 1
    <2>1. n \in Nat /\ n' = n + 1 /\ 1..n \subseteq 1..n'
        BY <1>1 DEF Ledger!Issue
    <2>2. n + 1 \in 1..n' /\ n + 1 \notin 1..n
        BY <2>1
    <2> HIDE DEF n
    <2>3. /\ IdsIn("pending")' = IdsIn("pending") \cup {n + 1}
          /\ IdsIn("sending")' = IdsIn("sending") \ over
          /\ replaced' = replaced \cup over
          /\ {j.id : j \in send.batch}' = {j.id : j \in send.batch}
          /\ attempted' = attempted /\ {d.job : d \in deliveries}' = {d.job : d \in deliveries}
        BY <1>1 DEF Ledger!Issue, n
    <2>4. over \subseteq IdsIn("sending")
        BY DEF InFlight
    <2>5. /\ n \in Nat
          /\ IdsIn("pending") \cup IdsIn("sending") \cup {j.id : j \in send.batch}
               \cup attempted \cup replaced \subseteq 1..n
          /\ IdsIn("pending") \cap ({j.id : j \in send.batch} \cup attempted) = {}
          /\ {j.id : j \in send.batch} \cap attempted = {}
          /\ {j.id : j \in send.batch} \cup attempted
               \subseteq IdsIn("sending") \cup {d.job : d \in deliveries} \cup replaced
        BY DEF n
    <2> HIDE DEF Ledger!LedgerInv
    <2>6. /\ n' \in Nat
          /\ (IdsIn("pending") \cup IdsIn("sending") \cup {j.id : j \in send.batch}
               \cup attempted \cup replaced)' \subseteq 1..n'
        BY <2>1, <2>2, <2>3, <2>4, <2>5
    <2>7. (IdsIn("pending") \cap ({j.id : j \in send.batch} \cup attempted))' = {}
        BY <2>2, <2>3, <2>5
    <2>8. ({j.id : j \in send.batch} \cap attempted)' = {}
        BY <2>3, <2>5
    <2>9. ({j.id : j \in send.batch} \cup attempted)'
            \subseteq (IdsIn("sending") \cup {d.job : d \in deliveries} \cup replaced)'
        BY <2>3, <2>5
    <2> QED
        BY <2>6, <2>7, <2>8, <2>9 DEF n, Ledger!LedgerInv
<1>2. ASSUME NEW S \in SUBSET Waiting, Ledger!Take(S) PROVE Ledger!LedgerInv'
    BY <1>2 DEF Ledger!Take, Waiting
<1>3. ASSUME NEW S \in SUBSET Waiting, Ledger!Withdraw(S) PROVE Ledger!LedgerInv'
    BY <1>3 DEF Ledger!Withdraw, Waiting
<1>4. ASSUME NEW id \in Armed, Ledger!CallFor(id) PROVE Ledger!LedgerInv'
    BY <1>4 DEF Ledger!CallFor, Armed
<1>5. ASSUME NEW S \in SUBSET Armed, Ledger!Disarm(S) PROVE Ledger!LedgerInv'
    BY <1>5 DEF Ledger!Disarm, Armed
<1>6. ASSUME NEW id \in Ledger!Ids, Ledger!Settle(id) PROVE Ledger!LedgerInv'
    BY <1>6 DEF Ledger!Settle
<1>7. CASE Ledger!RecoverAll
    BY <1>7 DEF Ledger!RecoverAll
<1>8. CASE UNCHANGED Ledger!ledgerVars
    BY <1>8 DEF Ledger!ledgerVars
<1> QED
    BY <1>1, <1>2, <1>3, <1>4, <1>5, <1>6, <1>7, <1>8 DEF Ledger!LedgerNext, InFlight, Waiting, Armed

\* The abstract ledger is safe: a job once called for is never armed again, and no
\* called job is without a record, a row in flight or an overwritten row (claim,
\* finish and recovery of notification_store.go).
THEOREM LedgerSafe == Ledger!LedgerSpec => []Ledger!LedgerInv
BY LedgerInvInit, LedgerInvNext, PTL DEF Ledger!LedgerSpec

\* What the ledger promises holds of the service, which implements it.
LEMMA LedgerInherited == Spec => []Ledger!LedgerInv
BY LedgerImplemented, LedgerSafe, PTL DEF ImplementsJobLedger

\* The send loops call a platform at most once per job, through any crash,
\* restart, merge, retry and test send (ClaimDueJobs, RecoverOnBoot).
THEOREM CalledAtMostOnce == Spec => AtMostOneCall
<1>1. LedgerMapInv /\ Ledger!LedgerInv /\ [Next]_vars
        => [CallBegins => send'.job.id \notin attempted]_vars
    <2> SUFFICES ASSUME LedgerMapInv, Ledger!LedgerInv, Next, CallBegins
                 PROVE  send'.job.id \notin attempted
        OBVIOUS
    <2>1. send \in SendState
        BY DEF LedgerMapInv, TypeInv, TypeOK
    <2>2. ASSUME SendTick \/ Claim \/ SendDone \/ DropLateResult \/ SendExit PROVE FALSE
        BY <2>1, <2>2, IdleTypes
           DEF CallBegins, SendTick, Claim, SendDone, DropLateResult, SendExit, SendState
    <2>3. ASSUME \/ Answer \/ Finish \/ Advance \/ RequeueForRetry
                 \/ \E j \in send.batch : SkipCall(j)
          PROVE  FALSE
        <3>1. NextJob.pc = "next"
            BY <2>1 DEF NextJob, SendState
        <3> QED
            BY <2>1, <2>3, <3>1
               DEF CallBegins, Answer, Finish, Advance, RequeueForRetry, SkipCall, SendState
    <2>4. ASSUME StopDone \/ Crash PROVE FALSE
        BY <2>4, IdleTypes DEF CallBegins, StopDone, Crash
    <2>5. ASSUME UNCHANGED send PROVE FALSE
        BY <2>5 DEF CallBegins
    <2>6. PICK j \in send.batch : Call(j)
        BY <2>2, <2>3, <2>4, <2>5
           DEF Next, Tick, ScheduleTick, ReadClock, Gate, Collect, Recheck, Enqueue,
               ScheduleDone, ScheduleExit, schedOnly, SettingsPut, KeyBindingsWrite,
               Reconfigure, Bump, Cancel, Start, Register, TestSend, TestEnqueue,
               TestPick, TestFinish, testOnly, RetryRead, RetryWrite
    <2>7. send'.job.id = j.id /\ j.id \in Armed
        BY <2>1, <2>6 DEF Call, SendState, Armed
    <2>8. Armed \cap attempted = {}
        BY DEF Ledger!LedgerInv, Armed
    <2> QED
        BY <2>7, <2>8
<1> QED
    BY <1>1, LedgerMap, LedgerInherited, PTL DEF Spec, AtMostOneCall

\* No call the service made is ever forgotten: its outcome is in the ledger, its
\* row is still "sending", or its row was overwritten while it was in flight
\* (FinishJob, RecoverOnBoot, UpsertJob).
THEOREM OutcomesAccounted == Spec => []OutcomeAccounted
<1>1. Ledger!LedgerInv => OutcomeAccounted
    BY DEF Ledger!LedgerInv, OutcomeAccounted, Recorded, InFlight, Settled, IdsIn
<1> QED
    BY <1>1, LedgerInherited, PTL

-----------------------------------------------------------------------------
(* The steps that leave the send loop alone, and what they do to the store. *)

Elsewhere ==
    \/ Tick
    \/ ScheduleTick \/ ReadClock \/ Gate \/ Collect \/ Recheck \/ Enqueue
    \/ ScheduleDone \/ ScheduleExit
    \/ SettingsPut \/ KeyBindingsWrite \/ Reconfigure
    \/ Bump \/ Cancel \/ Start \/ Register
    \/ \E n \in Notes : TestSend(n)
    \/ TestEnqueue \/ TestPick \/ TestFinish
    \/ (\E d \in deliveries : RetryRead(d)) \/ RetryWrite

\* A store that only a caller of this kind has written to.
Appended == /\ InFlight' \subseteq InFlight
            /\ deliveries \subseteq deliveries'
            /\ clock' = clock

LEMMA UnwrittenAppends == UNCHANGED storeVars => Appended
BY DEF storeVars, Appended, InFlight, IdsIn, KeysIn

LEMMA UpsertAppends ==
    ASSUME TypeInv, RowIds, NEW k \in JobKey, NEW next, NEW rev, UpsertJob(k, next, rev)
    PROVE  Appended
<1>1. StoreTypeOK /\ UNCHANGED deliveries /\ clock' = clock
    BY DEF TypeInv, TypeOK, UpsertJob
<1>2. InFlight' \subseteq InFlight
    BY <1>1, MergeIds, InsertIds DEF UpsertJob, ledgerOf
<1> QED
    BY <1>1, <1>2 DEF Appended

LEMMA FinishAppends ==
    ASSUME TypeInv, RowIds, NEW id, NEW o \in Outcomes, FinishJob(id, o)
    PROVE  Appended
<1>1. StoreTypeOK
    BY DEF TypeInv, TypeOK
<1>2. InFlight' \subseteq InFlight
    BY <1>1, FinishIds
<1>3. deliveries \subseteq deliveries' /\ clock' = clock
    BY DEF FinishJob
<1> QED
    BY <1>2, <1>3 DEF Appended

LEMMA ElsewhereAppends ==
    ASSUME LedgerMapInv, Elsewhere
    PROVE  /\ UNCHANGED send /\ UNCHANGED stuck /\ now' \in {now, now + 1}
           /\ Appended
<1> USE DEF LedgerMapInv
<1>1. UNCHANGED send /\ UNCHANGED stuck /\ now' \in {now, now + 1}
    BY DEF Elsewhere, Tick, ScheduleTick, ReadClock, Gate, Collect, Recheck, Enqueue,
           ScheduleDone, ScheduleExit, schedOnly, envVars, histVars, SettingsPut,
           KeyBindingsWrite, Reconfigure, Bump, Cancel, Start, Register, TestSend,
           TestEnqueue, TestPick, TestFinish, testOnly, RetryRead, RetryWrite
<1> SUFFICES Appended
    BY <1>1
<1>2. CASE UNCHANGED storeVars
    BY <1>2, UnwrittenAppends
<1>3. CASE BumpRevision
    BY <1>3 DEF BumpRevision, Appended, InFlight, IdsIn, KeysIn
<1>4. CASE RecoverOnBoot
    <2>1. StoreTypeOK
        BY DEF TypeInv, TypeOK
    <2> QED
        BY <1>4, <2>1, RecoverIds DEF RecoverOnBoot, Appended
<1>5. ASSUME NEW rev, Enqueue, UpsertJob(EnqueueKey, sched.at, rev)
      PROVE  Appended
    <2>1. sched.cur \in Targets /\ sched.platform \in Platforms /\ sched.at \in Time
        BY <1>5 DEF Enqueue, TypeInv, TypeOK, Registers, SchedState
    <2>2. EnqueueKey \in JobKey
        BY <2>1, PeriodType DEF EnqueueKey, JobKey, Targets
    <2> QED
        BY <1>5, <2>2, UpsertAppends
<1>6. ASSUME TestEnqueue, NEW cp \in test.todo, NEW k,
             k = [note |-> test.note, channel |-> cp[1], platform |-> cp[2],
                  period |-> PeriodKey(test.note, test.at)],
             UpsertJob(k, test.at, test.rev)
      PROVE  Appended
    <2>1. /\ test.note \in Notes /\ test.at \in Time
          /\ cp \in ChannelIDs \X Platforms
        BY <1>6 DEF TestEnqueue, TypeInv, TypeOK, Registers, TestState
    <2>2. k \in JobKey
        BY <1>6, <2>1, PeriodType DEF JobKey
    <2> QED
        BY <1>6, <2>2, UpsertAppends
<1>7. ASSUME NEW o \in Outcomes, FinishJob(test.id, o) PROVE Appended
    BY <1>7, FinishAppends
<1>8. ASSUME RetryWrite, NEW rev, UpsertJob(retry.key, now, rev) PROVE Appended
    <2>1. retry.key \in JobKey
        BY <1>8 DEF RetryWrite, TypeInv, Registers
    <2> QED
        BY <1>8, <2>1, UpsertAppends
<1>9. CASE \/ Tick \/ ScheduleTick \/ ReadClock \/ Gate \/ Collect \/ Recheck
           \/ ScheduleDone \/ ScheduleExit \/ SettingsPut \/ KeyBindingsWrite
           \/ Reconfigure \/ Cancel \/ Register \/ (\E n \in Notes : TestSend(n))
           \/ TestPick \/ (\E d \in deliveries : RetryRead(d))
    BY <1>2, <1>9
       DEF Tick, ScheduleTick, ReadClock, Gate, Collect, Recheck, ScheduleDone,
           ScheduleExit, SettingsPut, KeyBindingsWrite, Reconfigure, Cancel, Register,
           TestSend, TestPick, RetryRead
<1>10. CASE Enqueue
    BY <1>2, <1>5, <1>10 DEF Enqueue
<1>11. CASE Bump \/ Start
    BY <1>2, <1>3, <1>4, <1>11 DEF Bump, Start
<1>12. CASE TestEnqueue \/ TestFinish
    BY <1>2, <1>6, <1>7, <1>12 DEF TestEnqueue, TestFinish
<1>13. CASE RetryWrite
    BY <1>2, <1>8, <1>13 DEF RetryWrite
<1> QED
    BY <1>1, <1>9, <1>10, <1>11, <1>12, <1>13 DEF Elsewhere

-----------------------------------------------------------------------------
(* The clocks.                                                             *)

Serving == {"next", "call", "finish", "clock", "requeue"}

\* No clock is ahead of the instant of the tick whose jobs are being served,
\* and before the clock of a job is set its acceptance is in the ledger.
Clocked ==
    /\ \A t \in Targets : clock[t] <= now
    /\ send.pc \in Serving => send.at <= now /\ \A t \in Targets : clock[t] <= send.at
    /\ send.pc = "clock" =>
          \E d \in deliveries : d.job = send.job.id /\ d.outcome = "accepted"

LEMMA ClockTypes ==
    ASSUME TypeInv
    PROVE  /\ send \in SendState /\ now \in Int /\ send.at \in Int
           /\ \A t \in Targets : clock[t] \in Int
           /\ DOMAIN clock = Targets
<1>1. Time \subseteq Int /\ Never \in Int
    BY StoreAssumption DEF Time, Never
<1> QED
    BY <1>1 DEF TypeInv, TypeOK, StoreTypeOK, SendState

\* The send loop moves on without a look at the clocks.
LEMMA ClockSteady ==
    ASSUME TypeInv, Clocked, clock' = clock, now' = now,
           deliveries \subseteq deliveries', send'.pc # "clock",
           send'.pc \in Serving => send.pc \in Serving /\ send'.at = send.at
    PROVE  Clocked'
BY DEF Clocked, Serving

LEMMA ClockedInit == Init => Clocked
BY DEF Init, StoreInit, Clocked, Never, IdleSend, Serving

LEMMA ClockedStep ==
    ASSUME LedgerMapInv, Clocked, [Next]_vars
    PROVE  Clocked'
<1> USE DEF LedgerMapInv
<1>0. /\ send \in SendState /\ now \in Int /\ send.at \in Int
      /\ \A t \in Targets : clock[t] \in Int
      /\ DOMAIN clock = Targets
    BY ClockTypes
<1>1. IdleSend.pc = "idle" /\ NextJob.pc = "next" /\ NextJob.at = send.at
    BY <1>0 DEF IdleSend, NextJob, SendState
<1>2. CASE UNCHANGED vars
    BY <1>2 DEF vars, storeVars, envVars, Clocked
<1>3. CASE Elsewhere
    <2>1. /\ UNCHANGED send /\ now' \in {now, now + 1}
          /\ deliveries \subseteq deliveries' /\ clock' = clock
        BY <1>3, ElsewhereAppends DEF Appended
    <2>2. now <= now'
        BY <1>0, <2>1
    <2>3. \A t \in Targets : clock[t] <= now'
        BY <1>0, <2>1 DEF Clocked
    <2>4. send.pc \in Serving => send.at <= now'
        BY <1>0, <2>1 DEF Clocked
    <2> QED
        BY <2>1, <2>3, <2>4 DEF Clocked
<1>4. CASE StopDone \/ Crash \/ SendTick \/ SendDone \/ DropLateResult \/ SendExit
    <2>1. now' = now /\ clock' = clock /\ deliveries' = deliveries
        BY <1>4 DEF StopDone, Crash, SendTick, SendDone, DropLateResult, SendExit,
                    sendOnly, envVars, storeVars, SupersedeStaleJobs
    <2>2. send'.pc \in {"idle", "claim", "exited"}
        BY <1>0, <1>1, <1>4
           DEF StopDone, Crash, SendTick, SendDone, DropLateResult, SendExit, SendState,
               IdleSend
    <2> QED
        BY <2>1, <2>2, ClockSteady DEF Serving
<1>5. CASE Claim
    <2>1. now' = now /\ clock' = clock /\ deliveries' = deliveries
        BY <1>5 DEF Claim, sendOnly, envVars, storeVars, ClaimDueJobs
    <2>2. send'.pc = "idle" \/ (send'.pc = "next" /\ send'.at = now)
        BY <1>0, <1>1, <1>5 DEF Claim, SendState
    <2> QED
        BY <1>0, <2>1, <2>2 DEF Clocked, Serving
<1>6. ASSUME NEW j \in send.batch, Call(j) \/ SkipCall(j) PROVE Clocked'
    <2>1. now' = now /\ clock' = clock /\ deliveries' = deliveries
        BY <1>6 DEF Call, SkipCall, sendOnly, envVars, storeVars
    <2>2. /\ send'.pc \in {"call", "finish"} /\ send'.at = send.at /\ send.pc = "next"
        BY <1>0, <1>6 DEF Call, SkipCall, SendState
    <2> QED
        BY <2>1, <2>2, ClockSteady DEF Serving
<1>7. CASE Answer
    <2>1. now' = now /\ clock' = clock /\ deliveries' = deliveries
        BY <1>7 DEF Answer, sendOnly, envVars, storeVars
    <2>2. send'.pc = "finish" /\ send'.at = send.at /\ send.pc = "call"
        BY <1>0, <1>7 DEF Answer, SendState
    <2> QED
        BY <2>1, <2>2, ClockSteady DEF Serving
<1>8. CASE Finish
    <2>1. now' = now /\ clock' = clock /\ deliveries \subseteq deliveries'
        BY <1>8 DEF Finish, FinishJob, sendOnly, envVars, storeVars
    <2>2. send.pc = "finish" /\ send'.at = send.at /\ send'.pc \in Serving
        BY <1>0, <1>1, <1>8 DEF Finish, SendState, Serving
    <2>3. CASE send'.pc = "clock"
        <3>1. /\ send.outcome = "accepted" /\ send'.job = send.job
              /\ FinishJob(send.job.id, "accepted")
            BY <1>0, <1>1, <1>8, <2>3 DEF Finish, SendState, OutcomeOf
        <3>2. PICK k \in JobKey :
                  /\ jobs[k].id = send.job.id
                  /\ deliveries' = deliveries \cup {DeliveryOf(k, "accepted")}
            BY <3>1 DEF FinishJob
        <3>3. /\ DeliveryOf(k, "accepted") \in deliveries'
              /\ DeliveryOf(k, "accepted").job = send'.job.id
              /\ DeliveryOf(k, "accepted").outcome = "accepted"
            <4>1. DeliveryOf(k, "accepted") \in deliveries'
                BY <3>2
            <4> QED
                BY <3>1, <3>2, <4>1 DEF DeliveryOf
        <3> QED
            BY <2>1, <2>2, <3>3 DEF Clocked, Serving
    <2>4. CASE send'.pc # "clock"
        BY <2>1, <2>2, <2>4, ClockSteady DEF Serving
    <2> QED
        BY <2>3, <2>4
<1>9. CASE Advance
    <2>1. /\ now' = now /\ deliveries' = deliveries /\ send'.pc = "next"
          /\ send'.at = send.at /\ send.pc = "clock"
        BY <1>1, <1>9 DEF Advance, sendOnly, envVars, storeVars, SetClock
    <2>2. \A t \in Targets : clock'[t] \in {clock[t], send.at}
        BY <1>0, <1>9 DEF Advance, storeVars, SetClock
    <2> QED
        BY <1>0, <2>1, <2>2 DEF Clocked, Serving
<1>10. CASE RequeueForRetry
    <2>1. now' = now /\ clock' = clock /\ deliveries' = deliveries
        BY <1>10 DEF RequeueForRetry, sendOnly, envVars, storeVars, UpsertJob
    <2>2. send'.pc = "next" /\ send'.at = send.at /\ send.pc = "requeue"
        BY <1>1, <1>10 DEF RequeueForRetry
    <2> QED
        BY <2>1, <2>2, ClockSteady DEF Serving
<1> QED
    BY <1>2, <1>3, <1>4, <1>5, <1>6, <1>7, <1>8, <1>9, <1>10 DEF Next, Elsewhere

\* Who sets a clock: only the send loop, to the instant of its tick.
LEMMA ClockSet ==
    ASSUME LedgerMapInv, Clocked, Next
    PROVE  \/ clock' = clock
           \/ send.pc = "clock" /\ \A t \in Targets : clock'[t] \in {clock[t], send.at}
<1>1. CASE Elsewhere
    BY <1>1, ElsewhereAppends DEF Appended
<1>2. CASE Advance
    BY <1>2, ClockTypes DEF LedgerMapInv, Advance, storeVars, SetClock
<1>3. CASE \/ StopDone \/ Crash \/ SendTick \/ Claim \/ SendDone \/ Answer
           \/ DropLateResult \/ Finish \/ RequeueForRetry \/ SendExit
           \/ \E j \in send.batch : Call(j) \/ SkipCall(j)
    BY <1>3 DEF StopDone, Crash, SendTick, Claim, SendDone, Answer, DropLateResult,
                Finish, RequeueForRetry, SendExit, Call, SkipCall, storeVars,
                SupersedeStaleJobs, ClaimDueJobs, FinishJob, UpsertJob
<1> QED
    BY <1>1, <1>2, <1>3 DEF Next, Elsewhere

LEMMA AlwaysClocked == Spec => [](LedgerMapInv /\ Clocked)
<1>1. LedgerMapInv /\ Clocked /\ [Next]_vars => Clocked'
    BY ClockedStep
<1> QED
    BY <1>1, ClockedInit, LedgerMap, PTL DEF Spec

\* The clock of a target moves only forward, although jobs are sent long after
\* the period they were created for, merged and retried, and only after the
\* acceptance is in the ledger (sendTick: finishJob before SetClock): a crash in
\* between repeats a delivery and never hides one.
THEOREM ClocksFollow == Spec => ClockFollowsLedger
<1>1. LedgerMapInv /\ Clocked /\ [Next]_vars
        => [\A t \in Targets : clock'[t] # clock[t] =>
              /\ clock'[t] > clock[t]
              /\ \E d \in deliveries : d.job = send.job.id /\ d.outcome = "accepted"]_vars
    <2> SUFFICES ASSUME LedgerMapInv, Clocked, Next, NEW t \in Targets, clock'[t] # clock[t]
                 PROVE  /\ clock'[t] > clock[t]
                        /\ \E d \in deliveries : d.job = send.job.id /\ d.outcome = "accepted"
        OBVIOUS
    <2>1. clock[t] \in Int /\ send.at \in Int
        BY ClockTypes DEF LedgerMapInv
    <2>2. send.pc = "clock" /\ clock'[t] = send.at
        BY ClockSet
    <2>3. clock'[t] > clock[t]
        BY <2>1, <2>2 DEF Clocked, Serving
    <2>4. \E d \in deliveries : d.job = send.job.id /\ d.outcome = "accepted"
        BY <2>2 DEF Clocked
    <2> QED
        BY <2>3, <2>4
<1> QED
    BY <1>1, AlwaysClocked, PTL DEF Spec, ClockFollowsLedger

-----------------------------------------------------------------------------
(* The rows in flight.                                                     *)

Up == {"booting", "running"}

\* What the store has in flight is in the hands of the loop, and a job whose
\* outcome was written is not in flight any more.
Owned ==
    /\ svc \in Up => InFlight \subseteq OnHand \cup stuck
    /\ send.pc \in {"idle", "claim", "next", "exited"} => send.job = None
    /\ send.pc \in {"clock", "requeue"} => send.job.id \notin InFlight

LEMMA HandWithoutJob == send.job = None => OnHand = Armed
BY DEF OnHand, Armed

LEMMA HandWithJob ==
    ASSUME send.job \in Claimed
    PROVE  OnHand = Armed \cup {send.job.id}
BY NoneAssumption DEF OnHand, Armed

LEMMA IdleHands ==
    ASSUME send' = IdleSend \/ (send'.batch = {} /\ send'.job = None)
    PROVE  OnHand' = {} /\ send'.job = None
BY DEF OnHand, IdleSend

\* The loop goes on and lets go of nothing.
LEMMA OwnedSteady ==
    ASSUME Owned, InFlight' \subseteq InFlight, stuck \subseteq stuck', OnHand \subseteq OnHand',
           svc' \in Up => svc \in Up,
           send'.pc \in {"idle", "claim", "next", "exited"} => send'.job = None,
           send'.pc \in {"clock", "requeue"} => send'.job.id \notin InFlight'
    PROVE  Owned'
BY DEF Owned

LEMMA OwnedElsewhere ==
    ASSUME LedgerMapInv, Owned, Elsewhere
    PROVE  Owned'
<1>1. /\ UNCHANGED send /\ UNCHANGED stuck /\ InFlight' \subseteq InFlight
      /\ OnHand' = OnHand
    BY ElsewhereAppends DEF Appended, OnHand
<1>2. CASE Start /\ RecoverOnBoot
    <2>1. InFlight' = {}
        BY <1>2, RecoverIds DEF LedgerMapInv, TypeInv, TypeOK
    <2> QED
        BY <1>1, <2>1 DEF Owned
<1>3. CASE ~(Start /\ RecoverOnBoot)
    <2>1. svc' \in Up => svc \in Up
        BY <1>3
           DEF Up, Elsewhere, Tick, ScheduleTick, ReadClock, Gate, Collect, Recheck,
               Enqueue, ScheduleDone, ScheduleExit, schedOnly, svcVars, SettingsPut,
               KeyBindingsWrite, Reconfigure, Bump, Cancel, Start, Register, TestSend,
               TestEnqueue, TestPick, TestFinish, testOnly, RetryRead, RetryWrite
    <2> QED
        BY <1>1, <2>1, OwnedSteady DEF Owned
<1> QED
    BY <1>2, <1>3

LEMMA OwnedSend ==
    ASSUME LedgerMapInv, Owned,
           \/ SendTick \/ Claim \/ SendDone \/ Answer \/ DropLateResult \/ Finish
           \/ Advance \/ RequeueForRetry \/ SendExit
           \/ \E j \in send.batch : Call(j) \/ SkipCall(j)
    PROVE  Owned'
<1> USE DEF LedgerMapInv
<1>1. /\ StoreTypeOK /\ send \in SendState /\ svc' = svc
      /\ send.pc \in {"call", "finish", "clock", "requeue"} => send.job \in Claimed
      /\ send.batch \in SUBSET Claimed
    <2>1. svc' = svc
        BY DEF SendTick, Claim, SendDone, Answer, DropLateResult, Finish, Advance,
               RequeueForRetry, SendExit, Call, SkipCall, sendOnly
    <2> QED
        BY <2>1 DEF TypeInv, TypeOK, Registers, SendState
<1>2. NextJob.pc = "next" /\ NextJob.job = None /\ NextJob.batch = send.batch
    BY <1>1 DEF NextJob, SendState
<1>3. CASE SendTick
    <2>1. OnHand = {} /\ OnHand' = {} /\ send'.job = None /\ send'.pc = "claim"
        BY <1>3 DEF SendTick, Owned, Batches, OnHand, IdleSend
    <2>2. InFlight' \subseteq InFlight
        BY <1>1, <1>3, SupersedeIds, UnwrittenAppends DEF SendTick, Appended
    <2>3. UNCHANGED stuck
        BY <1>3 DEF SendTick, histVars
    <2> QED
        BY <1>1, <2>1, <2>2, <2>3, OwnedSteady
<1>4. CASE Claim
    <2>1. OnHand = {} /\ UNCHANGED stuck /\ send.job = None
        BY <1>4 DEF Claim, histVars, Owned, Batches, OnHand
    <2>2. ASSUME NEW K \in Claimable(now, BatchLimit), ClaimDueJobs(K),
                 send' = [send EXCEPT !.pc = "next", !.at = now,
                                      !.batch = {ClaimOf(k) : k \in K}]
          PROVE  Owned'
        <3>1. K \in SUBSET KeysIn("pending")
            BY DEF Claimable
        <3>2. InFlight' = InFlight \cup {jobs[k].id : k \in K}
            BY <1>1, <2>2, <3>1, ClaimIds
        <3>3. /\ send'.batch = {ClaimOf(k) : k \in K} /\ send'.job = None
              /\ send'.pc = "next"
            BY <1>1, <2>1, <2>2 DEF SendState
        <3>4. OnHand' = {jobs[k].id : k \in K}
            <4>1. \A k \in K : ClaimOf(k).id = jobs[k].id
                BY DEF ClaimOf
            <4>2. OnHand' = {j.id : j \in {ClaimOf(k) : k \in K}}
                BY <3>3 DEF OnHand
            <4> QED
                BY <4>1, <4>2
        <3> QED
            BY <1>1, <2>1, <3>2, <3>3, <3>4 DEF Owned
    <2>3. ASSUME UNCHANGED storeVars, send' = IdleSend PROVE Owned'
        BY <1>1, <2>1, <2>3, IdleHands, UnwrittenAppends, OwnedSteady
           DEF Appended, IdleSend
    <2> QED
        BY <1>4, <2>2, <2>3 DEF Claim
<1>5. CASE SendDone \/ DropLateResult
    <2>1. /\ UNCHANGED stuck /\ InFlight' \subseteq InFlight /\ send' = IdleSend
          /\ OnHand' = {} /\ send'.job = None /\ send'.pc = "idle"
        BY <1>5, IdleHands, UnwrittenAppends
           DEF SendDone, DropLateResult, histVars, Appended, IdleSend
    <2>2. svc = "stopping" \/ OnHand = {}
        BY <1>5 DEF SendDone, DropLateResult, Owned, OnHand
    <2> QED
        BY <1>1, <2>1, <2>2 DEF Owned, Up
<1>6. ASSUME NEW j \in send.batch, Call(j) \/ SkipCall(j) PROVE Owned'
    <2>1. /\ send'.batch = send.batch \ {j} /\ send'.job = j
          /\ send'.pc \in {"call", "finish"} /\ send.job = None
        <3>1. send \in SendState /\ send.pc = "next" /\ send.job = None
            BY <1>1, <1>6 DEF Call, SkipCall, Owned
        <3>2. CASE Call(j)
            BY <3>1, <3>2 DEF Call, SendState
        <3>3. CASE SkipCall(j)
            BY <3>1, <3>3 DEF SkipCall, SendState
        <3> QED
            BY <1>6, <3>2, <3>3
    <2>2. InFlight' \subseteq InFlight /\ UNCHANGED stuck
        BY <1>6, UnwrittenAppends DEF Call, SkipCall, histVars, Appended
    <2>3. OnHand \subseteq OnHand'
        BY <1>1, <2>1, NoneAssumption DEF OnHand
    <2> QED
        BY <1>1, <2>1, <2>2, <2>3, OwnedSteady
<1>7. CASE Answer
    <2>1. /\ send'.batch = send.batch /\ send'.job = send.job /\ send'.pc = "finish"
        BY <1>1, <1>7 DEF Answer, SendState
    <2>2. InFlight' \subseteq InFlight /\ UNCHANGED stuck
        BY <1>7, UnwrittenAppends DEF Answer, Appended
    <2>3. OnHand' = OnHand
        BY <2>1 DEF OnHand
    <2> QED
        BY <1>1, <2>1, <2>2, <2>3, OwnedSteady
<1>8. CASE Finish
    <2>1. send.job \in Claimed /\ OnHand = Armed \cup {send.job.id}
        BY <1>1, <1>8, HandWithJob DEF Finish
    <2>2. ASSUME FinishJob(send.job.id, OutcomeOf(send.outcome)), UNCHANGED stuck,
                 send' = CASE send.outcome = "accepted" -> [send EXCEPT !.pc = "clock"]
                           [] send.outcome = "limited"  -> [send EXCEPT !.pc = "requeue"]
                           [] OTHER                     -> NextJob
          PROVE  Owned'
        <3>1. OutcomeOf(send.outcome) \in Outcomes
            BY <1>1 DEF SendState, OutcomeOf, Outcomes
        <3>2. InFlight' = InFlight \ {send.job.id}
            BY <1>1, <2>2, <3>1, FinishIds
        <3>3. /\ send'.batch = send.batch
              /\ \/ send'.pc \in {"clock", "requeue"} /\ send'.job = send.job
                 \/ send'.pc = "next" /\ send'.job = None
            BY <1>1, <1>2, <2>2 DEF SendState
        <3>4. Armed \subseteq OnHand'
            BY <3>3 DEF Armed, OnHand
        <3> QED
            BY <1>1, <2>1, <2>2, <3>2, <3>3, <3>4 DEF Owned
    <2>3. ASSUME send' = NextJob, UNCHANGED storeVars,
                 \/ ~Found(send.job.id) /\ UNCHANGED stuck
                 \/ stuck' = stuck \cup {send.job.id}
          PROVE  Owned'
        <3>1. InFlight' \subseteq InFlight
            BY <2>3, UnwrittenAppends DEF Appended
        <3>2. ~Found(send.job.id) => send.job.id \notin InFlight
            BY DEF Found, InFlight, IdsIn, KeysIn
        <3>3. OnHand' = Armed
            BY <1>2, <2>3 DEF OnHand, Armed
        <3> QED
            BY <1>1, <1>2, <2>1, <2>3, <3>1, <3>2, <3>3 DEF Owned
    <2> QED
        BY <1>8, <2>2, <2>3 DEF Finish, storeVars
<1>9. CASE Advance \/ RequeueForRetry
    <2>1. /\ send.pc \in {"clock", "requeue"} /\ send' = NextJob /\ UNCHANGED stuck
        BY <1>9 DEF Advance, RequeueForRetry, histVars
    <2>2. OnHand = Armed \cup {send.job.id} /\ OnHand' = Armed
        BY <1>1, <1>2, <2>1, HandWithJob DEF OnHand, Armed
    <2>3. InFlight' \subseteq InFlight
        <3>1. CASE UNCHANGED storeVars
            BY <3>1, UnwrittenAppends DEF Appended
        <3>2. CASE SetClock(<<send.job.key.note, send.job.key.channel>>, send.at)
            BY <3>2 DEF SetClock, InFlight, IdsIn, KeysIn
        <3>3. CASE UpsertJob(send.job.key, send.at + RetryAfter, 0)
            <4>1. send.job.key \in JobKey
                BY <1>1, <2>1 DEF Claimed
            <4> QED
                BY <3>3, <4>1, UpsertAppends DEF Appended
        <3> QED
            BY <1>9, <3>1, <3>2, <3>3 DEF Advance, RequeueForRetry
    <2> QED
        BY <1>1, <1>2, <2>1, <2>2, <2>3 DEF Owned
<1>10. CASE SendExit
    <2>1. /\ send'.batch = send.batch /\ send'.job = send.job /\ send'.pc = "exited"
          /\ send.pc = "idle" /\ UNCHANGED stuck
        BY <1>1, <1>10 DEF SendExit, SendState, histVars
    <2>2. InFlight' \subseteq InFlight /\ OnHand' = OnHand
        BY <1>10, <2>1, UnwrittenAppends DEF SendExit, Appended, OnHand
    <2> QED
        BY <1>1, <2>1, <2>2, OwnedSteady DEF Owned
<1> QED
    BY <1>3, <1>4, <1>5, <1>6, <1>7, <1>8, <1>9, <1>10

LEMMA OwnedStep ==
    ASSUME LedgerMapInv, Owned, [Next]_vars
    PROVE  Owned'
<1>1. CASE UNCHANGED vars
    BY <1>1 DEF vars, storeVars, svcVars, histVars, Owned, OnHand, InFlight, IdsIn, KeysIn
<1>2. CASE StopDone \/ Crash
    BY <1>2, IdleTypes, IdleHands DEF StopDone, Crash, Owned, Up, IdleSend
<1>3. CASE Elsewhere
    BY <1>3, OwnedElsewhere
<1>4. CASE \/ SendTick \/ Claim \/ SendDone \/ Answer \/ DropLateResult \/ Finish
           \/ Advance \/ RequeueForRetry \/ SendExit
           \/ \E j \in send.batch : Call(j) \/ SkipCall(j)
    BY <1>4, OwnedSend
<1> QED
    BY <1>1, <1>2, <1>3, <1>4 DEF Next, Elsewhere

\* A row that is "sending" while an instance is up is being sent by it, or the
\* store refused to write its outcome: nothing is left over from the instances
\* before it, however they ended (RecoverOnBoot, FinishJob).
THEOREM SendingOwned == Spec => []SendingIsOwned
<1>1. Init => Owned
    BY DEF Init, Owned, Up, IdleSend
<1>2. LedgerMapInv /\ Owned /\ [Next]_vars => Owned'
    BY OwnedStep
<1>3. Owned => SendingIsOwned
    BY DEF Owned, Up, SendingIsOwned, InFlight, IdsIn
<1> QED
    BY <1>1, <1>2, <1>3, LedgerMap, PTL DEF Spec

-----------------------------------------------------------------------------
(* The revisions of the jobs.                                              *)

\* Who is at work when: a service that is down has idle loops, it is started
\* while it is down, and a test send holds the mutex.
Phases ==
    /\ svc = "down" => sched.pc = "idle" /\ send.pc = "idle"
    /\ mgr = "start" => svc = "down"
    /\ svc = "booting" => mgr = "boot"
    /\ test.pc # "idle" => mgr = "test"

\* No revision that a loop or a handler has read, to stamp a job with, is older
\* than the instance.
RevisionsRead ==
    /\ revision >= svcRevision
    /\ sched.pc = "upsert" => sched.rev >= svcRevision
    /\ test.pc # "idle" => test.rev >= svcRevision
    /\ retry.pc = "write" => retry.rev >= svcRevision

\* Neither is the revision of a pending row, once a tick has superseded the
\* others, or of a job that the tick has claimed.
RowsCurrent ==
    \A k \in JobKey : jobs[k].state = "pending" => jobs[k].revision >= svcRevision

Current ==
    /\ Phases /\ RevisionsRead
    /\ send.pc = "claim" /\ send.clean => RowsCurrent
    /\ ClaimsAreCurrent

LEMMA PhasesStep ==
    ASSUME TypeInv, Phases, [Next]_vars
    PROVE  Phases'
<1>1. /\ sched \in SchedState /\ send \in SendState /\ test \in TestState
      /\ IdleSched.pc = "idle" /\ IdleSend.pc = "idle" /\ IdleTest.pc = "idle"
    BY IdleTypes DEF TypeInv, TypeOK
<1>2. CASE UNCHANGED vars
    BY <1>2 DEF vars, svcVars, Phases
<1>3. CASE StopDone \/ Crash
    BY <1>1, <1>3 DEF StopDone, Crash, Phases
<1>4. CASE \/ ScheduleTick \/ ReadClock \/ Gate \/ Collect \/ Recheck \/ Enqueue
           \/ ScheduleDone \/ ScheduleExit
    <2>1. svc # "down" /\ svc' = svc
        BY <1>1, <1>4
           DEF ScheduleTick, ReadClock, Gate, Collect, Recheck, Enqueue, ScheduleDone,
               ScheduleExit, schedOnly, LoopsRun, Phases
    <2>2. UNCHANGED <<mgr, test>>
        BY <1>4
           DEF ScheduleTick, ReadClock, Gate, Collect, Recheck, Enqueue, ScheduleDone,
               ScheduleExit, schedOnly
    <2> QED
        BY <2>1, <2>2 DEF Phases
<1>5. CASE \/ SendTick \/ Claim \/ SendDone \/ Answer \/ DropLateResult \/ Finish
           \/ Advance \/ RequeueForRetry \/ SendExit
           \/ \E j \in send.batch : Call(j) \/ SkipCall(j)
    <2>1. svc # "down" /\ svc' = svc
        BY <1>1, <1>5
           DEF SendTick, Claim, SendDone, Answer, DropLateResult, Finish, Advance,
               RequeueForRetry, SendExit, Call, SkipCall, sendOnly, LoopsRun, Phases
    <2>2. UNCHANGED <<mgr, test>>
        BY <1>5
           DEF SendTick, Claim, SendDone, Answer, DropLateResult, Finish, Advance,
               RequeueForRetry, SendExit, Call, SkipCall, sendOnly
    <2> QED
        BY <2>1, <2>2 DEF Phases
<1>6. CASE \/ Tick \/ SettingsPut \/ KeyBindingsWrite \/ Reconfigure \/ Bump \/ Cancel
           \/ (\E d \in deliveries : RetryRead(d)) \/ RetryWrite
    BY <1>6 DEF Tick, SettingsPut, KeyBindingsWrite, Reconfigure, Bump, Cancel, RetryRead,
                RetryWrite, svcVars, envVars, Phases
<1>7. CASE Start \/ Register
    BY <1>7 DEF Start, Register, svcVars, Phases
<1>8. CASE (\E n \in Notes : TestSend(n)) \/ TestEnqueue \/ TestPick \/ TestFinish
    BY <1>1, <1>8 DEF TestSend, TestEnqueue, TestPick, TestFinish, TestOver, testOnly,
                      svcVars, TestState, Phases
<1> QED
    BY <1>2, <1>3, <1>4, <1>5, <1>6, <1>7, <1>8 DEF Next

LEMMA RevisionTypes ==
    ASSUME TypeInv
    PROVE  /\ StoreTypeOK /\ revision \in Nat /\ svcRevision \in Nat
           /\ sched \in SchedState /\ test \in TestState /\ retry \in RetryState
           /\ send \in SendState
BY DEF TypeInv, TypeOK, StoreTypeOK

\* Who changes the revision of the store, and who the instance's.
LEMMA RevisionSteps ==
    ASSUME Next
    PROVE  /\ revision' = revision \/ BumpRevision
           /\ svcRevision' = svcRevision \/ (Start /\ svcRevision' = revision)
           /\ Start => revision' = revision
BY DEF Next, Tick, ScheduleTick, ReadClock, Gate, Collect, Recheck, Enqueue, ScheduleDone,
       ScheduleExit, schedOnly, SendTick, Claim, SendDone, Answer, DropLateResult, Finish,
       Advance, RequeueForRetry, SendExit, Call, SkipCall, sendOnly, SettingsPut,
       KeyBindingsWrite, Reconfigure, Bump, Cancel, StopDone, Start, Register, TestSend,
       TestEnqueue, TestPick, TestFinish, testOnly, RetryRead, RetryWrite, Crash,
       storeVars, svcVars, UpsertJob, SupersedeStaleJobs, ClaimDueJobs, FinishJob,
       SetClock, RecoverOnBoot

LEMMA RevisionsReadStep ==
    ASSUME TypeInv, Phases, RevisionsRead, [Next]_vars
    PROVE  RevisionsRead'
<1>1. /\ revision \in Nat /\ svcRevision \in Nat
      /\ sched \in SchedState /\ test \in TestState /\ retry \in RetryState
    BY RevisionTypes
<1>2. CASE UNCHANGED vars
    BY <1>2 DEF vars, storeVars, svcVars, RevisionsRead
<1>3. CASE Start
    <2>1. sched.pc = "idle" /\ test.pc = "idle" /\ retry.pc = "idle"
        BY <1>3 DEF Start, Phases, FileFree
    <2>2. UNCHANGED <<sched, test, retry>>
        BY <1>3 DEF Start
    <2>3. svcRevision' \in {svcRevision, revision} /\ revision' = revision
        BY <1>3, RevisionSteps DEF Next
    <2> QED
        BY <1>1, <2>1, <2>2, <2>3 DEF RevisionsRead
<1>4. ASSUME Next, ~Start
      PROVE  RevisionsRead'
    <2>1. svcRevision' = svcRevision /\ revision' >= svcRevision
        BY <1>1, <1>4, RevisionSteps DEF BumpRevision, RevisionsRead
    <2>2. sched'.pc = "upsert" => sched'.rev >= svcRevision
        <3>1. CASE UNCHANGED sched
            BY <3>1 DEF RevisionsRead
        <3>2. CASE sched' = IdleSched
            BY <3>2 DEF IdleSched
        <3>3. NextTarget.pc = "scan"
            BY <1>1 DEF NextTarget, SchedState
        <3>4. CASE ScheduleTick \/ ReadClock \/ Gate \/ Collect \/ ScheduleExit
            BY <1>1, <3>3, <3>4
               DEF ScheduleTick, ReadClock, Gate, Collect, ScheduleExit, SchedState,
                   IdleSched
        <3>5. \A p : AfterPlatform(p).pc \in {"scan", "recheck"}
            BY <1>1, <3>3 DEF AfterPlatform, SchedState
        <3>6. CASE Recheck
            BY <1>1, <3>5, <3>6 DEF Recheck, SchedState, RevisionsRead
        <3>7. CASE Enqueue
            BY <3>3, <3>5, <3>7 DEF Enqueue
        <3> QED
            BY <1>4, <3>1, <3>2, <3>4, <3>6, <3>7
               DEF Next, Tick, ScheduleDone, SendTick, Claim, SendDone, Answer,
                   DropLateResult, Finish, Advance, RequeueForRetry, SendExit, Call,
                   SkipCall, sendOnly, SettingsPut, KeyBindingsWrite, Reconfigure, Bump,
                   Cancel, StopDone, Register, TestSend, TestEnqueue, TestPick,
                   TestFinish, testOnly, RetryRead, RetryWrite, Crash
    <2>3. test'.pc # "idle" => test'.rev >= svcRevision
        <3>1. CASE UNCHANGED test
            BY <3>1 DEF RevisionsRead
        <3>2. CASE test' = IdleTest
            BY <3>2 DEF IdleTest
        <3>3. CASE \E n \in Notes : TestSend(n)
            BY <3>3 DEF TestSend, IdleTest, RevisionsRead
        <3>4. CASE TestEnqueue \/ TestPick \/ TestFinish
            <4>1. test.pc # "idle" /\ (test' = IdleTest \/ test'.rev = test.rev)
                BY <1>1, <3>4 DEF TestEnqueue, TestPick, TestFinish, TestOver, TestState
            <4> QED
                BY <4>1, <3>2 DEF RevisionsRead
        <3> QED
            BY <1>4, <3>1, <3>2, <3>3, <3>4
               DEF Next, Tick, ScheduleTick, ReadClock, Gate, Collect, Recheck, Enqueue,
                   ScheduleDone, ScheduleExit, schedOnly, SendTick, Claim, SendDone,
                   Answer, DropLateResult, Finish, Advance, RequeueForRetry, SendExit,
                   Call, SkipCall, sendOnly, SettingsPut, KeyBindingsWrite, Reconfigure,
                   Bump, Cancel, StopDone, Register, RetryRead, RetryWrite, Crash
    <2>4. retry'.pc = "write" => retry'.rev >= svcRevision
        <3>1. CASE UNCHANGED retry
            BY <3>1 DEF RevisionsRead
        <3>2. CASE retry' = IdleRetry
            BY <3>2 DEF IdleRetry
        <3>3. CASE \E d \in deliveries : RetryRead(d)
            BY <3>3 DEF RetryRead, RevisionsRead
        <3> QED
            BY <1>4, <3>1, <3>2, <3>3
               DEF Next, Tick, ScheduleTick, ReadClock, Gate, Collect, Recheck, Enqueue,
                   ScheduleDone, ScheduleExit, schedOnly, SendTick, Claim, SendDone,
                   Answer, DropLateResult, Finish, Advance, RequeueForRetry, SendExit,
                   Call, SkipCall, sendOnly, SettingsPut, KeyBindingsWrite, Reconfigure,
                   Bump, Cancel, StopDone, Register, TestSend, TestEnqueue, TestPick,
                   TestFinish, testOnly, RetryWrite, Crash
    <2> QED
        BY <2>1, <2>2, <2>3, <2>4 DEF RevisionsRead
<1> QED
    BY <1>2, <1>3, <1>4

\* A row that is merged or inserted is stamped with a revision of this instance.
LEMMA UpsertRowsCurrent ==
    ASSUME StoreTypeOK, RowsCurrent, revision >= svcRevision, svcRevision' = svcRevision,
           NEW k \in JobKey, NEW next, NEW rev, rev >= svcRevision, UpsertJob(k, next, rev)
    PROVE  RowsCurrent'
<1>1. jobs[k] \in Job /\ DOMAIN jobs = JobKey
    BY DEF StoreTypeOK
<1>2. CASE MergeJob(k, next, rev)
    <2> DEFINE row == [jobs[k] EXCEPT !.nextAttempt = next, !.revision = rev]
    <2>1. row.revision = rev
        BY <1>1 DEF Job
    <2>2. jobs' = [jobs EXCEPT ![k] = row]
        BY <1>2 DEF MergeJob
    <2> QED
        BY <1>1, <2>1, <2>2 DEF RowsCurrent
<1>3. CASE InsertJob(k, next)
    <2> DEFINE row == [state |-> "pending", id |-> nextID, revision |-> revision,
                       nextAttempt |-> next]
    <2>1. row.revision = revision
        OBVIOUS
    <2>2. jobs' = [jobs EXCEPT ![k] = row]
        BY <1>3 DEF InsertJob
    <2> HIDE DEF row
    <2> QED
        BY <1>1, <2>1, <2>2 DEF RowsCurrent
<1> QED
    BY <1>2, <1>3 DEF UpsertJob

LEMMA FinishRowsCurrent ==
    ASSUME StoreTypeOK, RowsCurrent, svcRevision' = svcRevision,
           NEW id, NEW o \in Outcomes, FinishJob(id, o)
    PROVE  RowsCurrent'
<1>1. PICK k \in JobKey : jobs' = [jobs EXCEPT ![k] = [@ EXCEPT !.state = StateFor(o)]]
    BY DEF FinishJob
<1>2. StateFor(o) # "pending"
    BY DEF StateFor, Outcomes
<1>3. (\A l \in JobKey : l # k => jobs'[l] = jobs[l]) /\ jobs'[k].state = StateFor(o)
    BY <1>1 DEF StoreTypeOK, Job
<1> QED
    BY <1>2, <1>3 DEF RowsCurrent

LEMMA SinceRead ==
    ASSUME revision \in Nat, NEW from, from >= svcRevision, from \in Nat, svcRevision \in Nat,
           NEW rev \in RevisionsSince(from)
    PROVE  rev >= svcRevision
BY DEF RevisionsSince

LEMMA RowsElsewhere ==
    ASSUME TypeInv, Phases, RevisionsRead, RowsCurrent, Elsewhere, ~Start
    PROVE  RowsCurrent'
<1>1. /\ StoreTypeOK /\ revision \in Nat /\ svcRevision \in Nat
      /\ sched \in SchedState /\ test \in TestState /\ retry \in RetryState
      /\ svcRevision' = svcRevision
    BY RevisionTypes, RevisionSteps DEF Next, Elsewhere
<1>2. CASE UNCHANGED jobs
    BY <1>1, <1>2 DEF RowsCurrent
<1>3. ASSUME Enqueue, NEW rev \in RevisionsSince(sched.rev),
             UpsertJob(EnqueueKey, sched.at, rev)
      PROVE  RowsCurrent'
    <2>1. /\ sched.cur \in Targets /\ sched.platform \in Platforms /\ sched.at \in Time
          /\ sched.rev \in Nat /\ sched.rev >= svcRevision
        BY <1>1, <1>3 DEF Enqueue, TypeInv, Registers, SchedState, RevisionsRead
    <2>2. EnqueueKey \in JobKey
        BY <2>1, PeriodType DEF EnqueueKey, JobKey, Targets
    <2>3. rev >= svcRevision
        BY <1>1, <2>1, SinceRead
    <2> QED
        BY <1>1, <1>3, <2>2, <2>3, UpsertRowsCurrent DEF RevisionsRead
<1>4. ASSUME TestEnqueue, NEW cp \in test.todo, NEW k,
             k = [note |-> test.note, channel |-> cp[1], platform |-> cp[2],
                  period |-> PeriodKey(test.note, test.at)],
             UpsertJob(k, test.at, test.rev)
      PROVE  RowsCurrent'
    <2>1. /\ test.note \in Notes /\ test.at \in Time /\ test.rev >= svcRevision
          /\ cp \in ChannelIDs \X Platforms
        BY <1>1, <1>4 DEF TestEnqueue, TypeInv, Registers, TestState, RevisionsRead
    <2>2. k \in JobKey
        BY <1>4, <2>1, PeriodType DEF JobKey
    <2> QED
        BY <1>1, <1>4, <2>1, <2>2, UpsertRowsCurrent DEF RevisionsRead
<1>5. ASSUME NEW o \in Outcomes, FinishJob(test.id, o) PROVE RowsCurrent'
    BY <1>1, <1>5, FinishRowsCurrent
<1>6. ASSUME RetryWrite, NEW rev \in RevisionsSince(retry.rev),
             UpsertJob(retry.key, now, rev)
      PROVE  RowsCurrent'
    <2>1. retry.key \in JobKey /\ retry.rev \in Nat /\ retry.rev >= svcRevision
        BY <1>1, <1>6 DEF RetryWrite, TypeInv, Registers, RetryState, RevisionsRead
    <2>2. rev >= svcRevision
        BY <1>1, <2>1, SinceRead
    <2> QED
        BY <1>1, <1>6, <2>1, <2>2, UpsertRowsCurrent DEF RevisionsRead
<1>7. CASE \/ Tick \/ ScheduleTick \/ ReadClock \/ Gate \/ Collect \/ Recheck
           \/ ScheduleDone \/ ScheduleExit \/ SettingsPut \/ KeyBindingsWrite
           \/ Reconfigure \/ Bump \/ Cancel \/ Register \/ (\E n \in Notes : TestSend(n))
           \/ TestPick \/ (\E d \in deliveries : RetryRead(d))
    BY <1>2, <1>7
       DEF Tick, ScheduleTick, ReadClock, Gate, Collect, Recheck, ScheduleDone,
           ScheduleExit, SettingsPut, KeyBindingsWrite, Reconfigure, Bump, BumpRevision,
           Cancel, Register, TestSend, TestPick, RetryRead, storeVars
<1>8. CASE Enqueue
    BY <1>2, <1>3, <1>8 DEF Enqueue, storeVars
<1>9. CASE TestEnqueue \/ TestFinish
    BY <1>2, <1>4, <1>5, <1>9 DEF TestEnqueue, TestFinish, storeVars
<1>10. CASE RetryWrite
    BY <1>2, <1>6, <1>10 DEF RetryWrite, storeVars
<1> QED
    BY <1>7, <1>8, <1>9, <1>10 DEF Elsewhere

\* What superseding leaves pending is of the store's revision, or newer.
LEMMA SupersededRowsCurrent ==
    ASSUME TypeInv, revision >= svcRevision, svcRevision' = svcRevision,
           SupersedeStaleJobs(revision)
    PROVE  RowsCurrent'
<1>1. StoreTypeOK /\ revision \in Nat /\ svcRevision \in Nat
    BY RevisionTypes
<1>2. \A k \in JobKey :
         jobs'[k] = IF IsStale(k, revision) THEN [jobs[k] EXCEPT !.state = "superseded"]
                    ELSE jobs[k]
    BY DEF SupersedeStaleJobs, MoveJobs
<1>3. \A k \in JobKey : jobs[k] \in Job
    BY <1>1 DEF StoreTypeOK
<1>4. ASSUME NEW k \in JobKey, jobs'[k].state = "pending"
      PROVE  jobs'[k].revision >= svcRevision
    <2>1. ~IsStale(k, revision) /\ jobs'[k] = jobs[k]
        BY <1>2, <1>3, <1>4 DEF Job
    <2>2. ~(jobs[k].revision < revision) /\ jobs[k].revision \in Nat
        BY <1>3, <1>4, <2>1 DEF IsStale, Job
    <2> QED
        BY <1>1, <2>1, <2>2
<1> QED
    BY <1>1, <1>4 DEF RowsCurrent

\* A tick whose claim is behind it keeps or drops the jobs it has.
LEMMA ClaimsKept ==
    ASSUME ClaimsAreCurrent, svcRevision' = svcRevision, send'.pc # "claim",
           send'.batch \subseteq send.batch, send'.clean = send.clean
    PROVE  ClaimsAreCurrent' /\ (send'.pc = "claim" /\ send'.clean => RowsCurrent')
BY DEF ClaimsAreCurrent

LEMMA ClaimsDropped ==
    ASSUME send' = IdleSend
    PROVE  ClaimsAreCurrent' /\ (send'.pc = "claim" /\ send'.clean => RowsCurrent')
BY DEF ClaimsAreCurrent, IdleSend

LEMMA CurrentSend ==
    ASSUME LedgerMapInv, Current,
           \/ SendTick \/ Claim \/ SendDone \/ Answer \/ DropLateResult \/ Finish
           \/ Advance \/ RequeueForRetry \/ SendExit
           \/ \E j \in send.batch : Call(j) \/ SkipCall(j)
    PROVE  ClaimsAreCurrent' /\ (send'.pc = "claim" /\ send'.clean => RowsCurrent')
<1> USE DEF LedgerMapInv
<1>1. send \in SendState /\ svcRevision' = svcRevision
    <2>1. svcRevision' = svcRevision
        BY DEF SendTick, Claim, SendDone, Answer, DropLateResult, Finish, Advance,
               RequeueForRetry, SendExit, Call, SkipCall, sendOnly
    <2> QED
        BY <2>1, RevisionTypes
<1>2. /\ NextJob.pc = "next" /\ NextJob.clean = send.clean
      /\ NextJob.batch = send.batch
    BY <1>1 DEF NextJob, SendState
<1>3. CASE SendTick
    <2>1. send'.batch = {}
        BY <1>3 DEF SendTick, IdleSend
    <2>2. send'.clean => SupersedeStaleJobs(revision)
        BY <1>3 DEF SendTick, IdleSend
    <2> QED
        BY <1>1, <2>1, <2>2, SupersededRowsCurrent
           DEF ClaimsAreCurrent, Current, RevisionsRead
<1>4. CASE Claim
    <2>1. ASSUME NEW K \in Claimable(now, BatchLimit),
                 send' = [send EXCEPT !.pc = "next", !.at = now,
                                      !.batch = {ClaimOf(k) : k \in K}]
          PROVE  ClaimsAreCurrent' /\ send'.pc = "next"
        <3>1. K \in SUBSET JobKey /\ \A k \in K : jobs[k].state = "pending"
            BY DEF Claimable, KeysIn
        <3>2. /\ send'.batch = {ClaimOf(k) : k \in K} /\ send'.pc = "next"
              /\ send'.clean = send.clean
            BY <1>1, <2>1 DEF SendState
        <3>3. \A k \in K : ClaimOf(k).revision = jobs[k].revision
            BY DEF ClaimOf
        <3>4. send.clean => RowsCurrent
            BY <1>4 DEF Claim, Current
        <3>5. send.clean => \A j \in {ClaimOf(k) : k \in K} : j.revision >= svcRevision
            BY <3>1, <3>3, <3>4 DEF RowsCurrent
        <3> QED
            BY <1>1, <3>2, <3>5 DEF ClaimsAreCurrent
    <2> QED
        BY <1>4, <2>1, ClaimsDropped DEF Claim
<1>5. CASE SendDone \/ DropLateResult
    BY <1>5, ClaimsDropped DEF SendDone, DropLateResult
<1>6. CASE \/ Answer \/ Finish \/ Advance \/ RequeueForRetry \/ SendExit
           \/ \E j \in send.batch : Call(j) \/ SkipCall(j)
    <2>1. /\ send'.pc # "claim" /\ send'.batch \subseteq send.batch
          /\ send'.clean = send.clean
        <3>1. CASE Answer \/ SendExit \/ \E j \in send.batch : Call(j) \/ SkipCall(j)
            <4>1. CASE Answer
                BY <1>1, <4>1 DEF Answer, SendState
            <4>2. CASE SendExit
                BY <1>1, <4>2 DEF SendExit, SendState
            <4>3. ASSUME NEW j \in send.batch, Call(j)
                  PROVE  /\ send'.pc # "claim" /\ send'.batch \subseteq send.batch
                         /\ send'.clean = send.clean
                BY <1>1, <4>3 DEF Call, SendState
            <4>4. ASSUME NEW j \in send.batch, SkipCall(j)
                  PROVE  /\ send'.pc # "claim" /\ send'.batch \subseteq send.batch
                         /\ send'.clean = send.clean
                BY <1>1, <4>4 DEF SkipCall, SendState
            <4> QED
                BY <3>1, <4>1, <4>2, <4>3, <4>4
        <3>2. CASE Finish
            BY <1>1, <1>2, <3>2 DEF Finish, SendState
        <3>3. CASE Advance \/ RequeueForRetry
            BY <1>2, <3>3 DEF Advance, RequeueForRetry
        <3> QED
            BY <1>6, <3>1, <3>2, <3>3
    <2> QED
        BY <1>1, <2>1, ClaimsKept DEF Current
<1> QED
    BY <1>3, <1>4, <1>5, <1>6

LEMMA CurrentStep ==
    ASSUME LedgerMapInv, Current, [Next]_vars
    PROVE  Current'
<1> USE DEF LedgerMapInv
<1>1. Phases' /\ RevisionsRead'
    BY PhasesStep, RevisionsReadStep DEF Current
<1>2. CASE UNCHANGED vars
    BY <1>1, <1>2 DEF vars, storeVars, svcVars, Current, ClaimsAreCurrent, RowsCurrent
<1>3. CASE StopDone \/ Crash
    BY <1>1, <1>3, ClaimsDropped DEF StopDone, Crash, Current
<1>4. CASE Start
    <2>1. send.pc = "idle" /\ send' = send
        BY <1>4 DEF Start, Current, Phases
    <2>2. send.batch = {}
        BY <2>1 DEF Batches
    <2> QED
        BY <1>1, <2>1, <2>2 DEF Current, ClaimsAreCurrent
<1>5. CASE Elsewhere /\ ~Start
    <2>1. send' = send
        BY <1>5, ElsewhereAppends
    <2>2. svcRevision' = svcRevision
        BY <1>5, RevisionSteps DEF Next, Elsewhere
    <2>3. RowsCurrent => RowsCurrent'
        BY <1>5, RowsElsewhere DEF Current
    <2> QED
        BY <1>1, <2>1, <2>2, <2>3 DEF Current, ClaimsAreCurrent
<1>6. CASE \/ SendTick \/ Claim \/ SendDone \/ Answer \/ DropLateResult \/ Finish
           \/ Advance \/ RequeueForRetry \/ SendExit
           \/ \E j \in send.batch : Call(j) \/ SkipCall(j)
    BY <1>1, <1>6, CurrentSend DEF Current
<1> QED
    BY <1>2, <1>3, <1>4, <1>5, <1>6 DEF Next, Elsewhere

\* No instance claims a job that is stamped with a revision older than its own,
\* whoever wrote the row and however long before or after the restart, unless
\* the store refused to supersede (supersededStaleJobs, requeueForRetry, retry).
THEOREM ClaimedAreCurrent == Spec => []ClaimsAreCurrent
<1>1. Init => Current
    BY DEF Init, StoreInit, Current, Phases, RevisionsRead, ClaimsAreCurrent, IdleSched,
           IdleSend, IdleTest, IdleRetry
<1>2. LedgerMapInv /\ Current /\ [Next]_vars => Current'
    BY CurrentStep
<1>3. Current => ClaimsAreCurrent
    BY DEF Current
<1> QED
    BY <1>1, <1>2, <1>3, LedgerMap, PTL DEF Spec

=============================================================================
