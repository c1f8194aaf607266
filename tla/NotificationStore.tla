-------------------------- MODULE NotificationStore --------------------------
(***************************************************************************)
(* The bbolt run-state store of the notification service                   *)
(* (notification_store.go): job rows, per-target success clocks, delivery  *)
(* records and the configuration revision.  One operator per store         *)
(* operation; each is one bbolt transaction in the code, hence one atomic  *)
(* update of the variables below.                                          *)
(*                                                                         *)
(* A notification here is a (notification id, scope) pair: global, or the  *)
(* fingerprint of the key it is bound to.  Payloads are left out; job       *)
(* identifiers are the naturals in the order newJobID hands them out.      *)
(***************************************************************************)
EXTENDS Integers, FiniteSets

CONSTANTS
    Notes,          \* the notifications, global and key-level
    Channels,       \* the Keeper auth channels (global notifications fan out)
    NoChannel,      \* the "" / "-" channel of key-level jobs and manual retries
    Platforms,      \* wecom, feishu, dingtalk
    MaxTime,        \* the last instant of the modelled clock
    Rank            \* position of a <<note, channel, platform>> in cursor order

ASSUME StoreAssumption ==
    /\ NoChannel \notin Channels
    /\ MaxTime \in Nat
    /\ Rank \in [Notes \X (Channels \cup {NoChannel}) \X Platforms -> Nat]

VARIABLES
    jobs,           \* bucket "jobs": one row per merge dimension
    clock,          \* bucket "clock": last success of a target, Never if unset
    deliveries,     \* bucket "deliveries"
    revision,       \* bucket "revision"
    nextID,         \* the next job identifier
    replaced        \* history: identifiers whose row was overwritten in flight

storeVars == <<jobs, clock, deliveries, revision, nextID, replaced>>

Time       == 0..MaxTime
Never      == -1
ChannelIDs == Channels \cup {NoChannel}
Targets    == Notes \X ChannelIDs

Outcomes  == {"accepted", "failed", "unknown"}
JobStates == {"absent", "pending", "sending", "sent", "failed", "unknown",
              "superseded"}

JobKey == [note: Notes, channel: ChannelIDs, platform: Platforms, period: Time]
Job    == [state: JobStates, id: Nat, revision: Nat, nextAttempt: Nat]

NoJob == [state |-> "absent", id |-> 0, revision |-> 0, nextAttempt |-> 0]

Delivery == [job: Nat, note: Notes, platform: Platforms, period: Time,
             outcome: Outcomes]

StoreTypeOK ==
    /\ jobs \in [JobKey -> Job]
    /\ clock \in [Targets -> Time \cup {Never}]
    /\ deliveries \in SUBSET Delivery
    /\ revision \in Nat
    /\ nextID \in Nat \ {0}
    /\ replaced \in SUBSET Nat

StoreInit ==
    /\ jobs = [k \in JobKey |-> NoJob]
    /\ clock = [t \in Targets |-> Never]
    /\ deliveries = {}
    /\ revision = 0
    /\ nextID = 1
    /\ replaced = {}

-----------------------------------------------------------------------------
(* Reads.                                                                  *)

KeysIn(state)   == {k \in JobKey : jobs[k].state = state}
RankOf(k)       == Rank[<<k.note, k.channel, k.platform>>]
Found(id)       == \E k \in JobKey : jobs[k].state # "absent" /\ jobs[k].id = id
Recorded(id)    == \E d \in deliveries : d.job = id

\* Mutant of PendingJobExists: finished rows count as in flight.
PendingJobExistsForEver(note, platform, channel) ==
    \E k \in {l \in JobKey : jobs[l].state \notin {"absent", "sent"}} :
        k.note = note /\ k.platform = platform /\ k.channel = channel

\* The throttle gate: an in-flight row of the dimension, whatever its period.
PendingJobExists(note, platform, channel) ==
    \E k \in KeysIn("pending") \cup KeysIn("sending") :
        k.note = note /\ k.platform = platform /\ k.channel = channel

\* Mutant of Claimable: the cursor walk stops one row early.
ClaimableOneShort(at, limit) ==
    LET due == {k \in KeysIn("pending") : jobs[k].nextAttempt <= at}
    IN  {S \in SUBSET due :
            /\ Cardinality(S) <= limit - 1
            /\ S # due => Cardinality(S) = limit - 1
            /\ \A k \in S, l \in due \ S : RankOf(k) <= RankOf(l)}

\* What a claim of at most limit rows may take: due pending rows, no row left
\* behind that the cursor reaches before one that is taken.
Claimable(at, limit) ==
    LET due == {k \in KeysIn("pending") : jobs[k].nextAttempt <= at}
    IN  {S \in SUBSET due :
            /\ Cardinality(S) <= limit
            /\ S # due => Cardinality(S) = limit
            /\ \A k \in S, l \in due \ S : RankOf(k) <= RankOf(l)}

-----------------------------------------------------------------------------
(* Writes.                                                                 *)

\* The row of dimension k is pending: the caller's next attempt and
\* revision replace the row's, its identifier stays.
MergeJob(k, next, rev) ==
    /\ jobs[k].state = "pending"
    /\ jobs' = [jobs EXCEPT ![k] = [@ EXCEPT !.nextAttempt = next,
                                             !.revision = rev]]
    /\ UNCHANGED <<nextID, replaced>>

\* Any other row of dimension k is overwritten by a fresh pending one stamped
\* with the store's own revision.
InsertJob(k, next) ==
    /\ jobs[k].state # "pending"
    /\ jobs' = [jobs EXCEPT ![k] =
                  [state |-> "pending", id |-> nextID, revision |-> revision,
                   nextAttempt |-> next]]
    /\ nextID' = nextID + 1
    /\ replaced' = IF jobs[k].state = "sending"
                   THEN replaced \cup {jobs[k].id} ELSE replaced

UpsertJob(k, next, rev) ==
    /\ MergeJob(k, next, rev) \/ InsertJob(k, next)
    /\ UNCHANGED <<clock, deliveries, revision>>

\* Every row of K moves to the given state.
MoveJobs(K, state) ==
    jobs' = [k \in JobKey |-> IF k \in K THEN [jobs[k] EXCEPT !.state = state]
                              ELSE jobs[k]]

ClaimDueJobs(K) ==
    /\ MoveJobs(K, "sending")
    /\ UNCHANGED <<clock, deliveries, revision, nextID, replaced>>

\* Mutant of IsStale: one revision is tolerated.
IsStaleByTwo(k, rev) == jobs[k].state = "pending" /\ jobs[k].revision + 1 < rev

IsStale(k, rev) == jobs[k].state = "pending" /\ jobs[k].revision < rev

SupersedeStaleJobs(rev) ==
    /\ MoveJobs({k \in JobKey : IsStale(k, rev)}, "superseded")
    /\ UNCHANGED <<clock, deliveries, revision, nextID, replaced>>

DeliveryOf(k, outcome) ==
    [job |-> jobs[k].id, note |-> k.note, platform |-> k.platform,
     period |-> k.period, outcome |-> outcome]

\* Mutants of StateFor: the outcome stored as it is; a failed job retried in
\* its own row.
StateForVerbatim(outcome) == outcome
StateForRetried(outcome) == CASE outcome = "accepted" -> "sent"
                              [] outcome = "failed"   -> "pending"
                              [] outcome = "unknown"  -> "unknown"

StateFor(outcome) == IF outcome = "accepted" THEN "sent" ELSE outcome

\* The row is looked up by identifier, whatever state it is in; the record
\* and the state change share the transaction.
FinishJob(id, outcome) ==
    /\ \E k \in JobKey :
          /\ jobs[k].state # "absent"
          /\ jobs[k].id = id
          /\ jobs' = [jobs EXCEPT ![k] = [@ EXCEPT !.state = StateFor(outcome)]]
          /\ deliveries' = deliveries \cup {DeliveryOf(k, outcome)}
    /\ UNCHANGED <<clock, revision, nextID, replaced>>

\* Mutants of RecoverOnBoot: rows in flight are sent again; rows are settled
\* without a record; nothing is recovered.
RecoverByResending ==
    /\ MoveJobs(KeysIn("sending"), "pending")
    /\ UNCHANGED <<clock, deliveries, revision, nextID, replaced>>

RecoverUnrecorded ==
    /\ MoveJobs(KeysIn("sending"), "unknown")
    /\ UNCHANGED <<clock, deliveries, revision, nextID, replaced>>

RecoverNothing == UNCHANGED storeVars

RecoverOnBoot ==
    /\ MoveJobs(KeysIn("sending"), "unknown")
    /\ deliveries' = deliveries \cup
                       {DeliveryOf(k, "unknown") : k \in KeysIn("sending")}
    /\ UNCHANGED <<clock, revision, nextID, replaced>>

SetClock(target, at) ==
    /\ clock' = [clock EXCEPT ![target] = at]
    /\ UNCHANGED <<jobs, deliveries, revision, nextID, replaced>>

BumpRevision ==
    /\ revision' = revision + 1
    /\ UNCHANGED <<jobs, clock, deliveries, nextID, replaced>>

=============================================================================
