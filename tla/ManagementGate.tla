---------------------------- MODULE ManagementGate ----------------------------
(***************************************************************************)
(* Audited management operations and host reconfiguration over the plugin's *)
(* state (audit_management.go, main.go): one mutex for both; a start record *)
(* on disk before an operation runs, a finish record after; the state file  *)
(* written before the live state is swapped; crashes in between.            *)
(*                                                                         *)
(* An operation is a state edit (rules, key bindings, notification settings)*)
(* or the rename of a Keeper authentication name, whose effect is outside.  *)
(***************************************************************************)
EXTENDS AuditJournal, PluginState, FiniteSets

CONSTANTS
    Admins,         \* concurrent management requests
    Host,           \* the host's reconfigure call
    Free, None,
    Dir,            \* the directory of a state file
    Disturbances,   \* the kinds of faults and outside events a run allows
    MaxDisturbances \* bound: how many of them happen in a behaviour

ASSUME GateAssumption ==
    /\ Host \notin Admins /\ Free \notin Admins \cup {Host}
    /\ None \notin Files
    /\ Dir \in [Files -> Dirs]
    /\ MaxDisturbances \in Nat

VARIABLES
    up,         \* the plugin has been registered with a configuration
    mutex,      \* managementMutationMu
    admin,      \* the requests
    host,       \* the reconfigure call
    nextOp,     \* the next operation identifier
    day,        \* the calendar day
    effects,    \* history: operations whose change has taken place
    answers,    \* history: what the requests were told
    budget      \* disturbances still allowed

vars == <<journalVars, stateVars, up, mutex, admin, host, nextOp, day, effects,
          answers, budget>>

Answer == [op: Ops, outcome: Outcomes, recorded: BOOLEAN]

AdminState == [pc: {"idle", "run", "write", "swap", "finish"}, op: Nat,
               ticket: JournalFiles \cup {None}, dest: Files \cup {None},
               data: Data, outcome: Outcomes]
HostState  == [pc: {"idle", "migrate", "config", "holder"},
               dest: Files \cup {None}, old: Data, next: Holder]

IdleAdmin == [pc |-> "idle", op |-> 0, ticket |-> None, dest |-> None,
              data |-> {}, outcome |-> "unknown"]
IdleHost  == [pc |-> "idle", dest |-> None, old |-> {}, next |-> Seed]

TypeOK ==
    /\ JournalTypeOK /\ StateTypeOK
    /\ up \in BOOLEAN
    /\ mutex \in Admins \cup {Host, Free}
    /\ admin \in [Admins -> AdminState]
    /\ host \in HostState
    /\ nextOp \in 1..(MaxOps + 1)
    /\ day \in 0..MaxDay
    /\ effects \in SUBSET Ops
    /\ answers \in SUBSET Answer
    /\ budget \in Nat

Init ==
    /\ JournalInit /\ StateInit
    /\ up = FALSE
    /\ mutex = Free
    /\ admin = [a \in Admins |-> IdleAdmin]
    /\ host = IdleHost
    /\ nextOp = 1
    /\ day = 0
    /\ effects = {} /\ answers = {}
    /\ budget = MaxDisturbances

\* A fault or an outside event, counted.
Disturb(kind) ==
    /\ kind \in Disturbances
    /\ budget > 0
    /\ budget' = budget - 1

Calm == UNCHANGED budget

\* loadedStateMu is held from the write of the file to the swap.
StateUnlocked == \A a \in Admins : admin[a].pc # "swap"

-----------------------------------------------------------------------------
(* An audited operation.                                                   *)

adminOnly == <<up, host, day>>

\* Mutant of Begin: the mutex is not taken.
BeginUnguarded(a) ==
    /\ up
    /\ admin[a].pc = "idle"
    /\ nextOp \in Ops
    /\ LET f == <<Dir[file], day>>
       IN  /\ BeginAudit(nextOp, f, "written")
           /\ admin' = [admin EXCEPT ![a] =
                          [IdleAdmin EXCEPT !.pc = "run", !.op = nextOp, !.ticket = f]]
    /\ mutex' = a
    /\ nextOp' = nextOp + 1
    /\ UNCHANGED <<stateVars, adminOnly, effects, answers, budget>>

\* The day's file next to the state file takes the start record; without it
\* the operation is refused.
Begin(a) ==
    /\ up
    /\ mutex = Free
    /\ admin[a].pc = "idle"
    /\ nextOp \in Ops
    /\ \E result \in AppendResults :
          LET f == <<Dir[file], day>>
          IN  /\ BeginAudit(nextOp, f, result)
              /\ IF result = "written"
                 THEN /\ admin' = [admin EXCEPT ![a] =
                                     [IdleAdmin EXCEPT !.pc = "run", !.op = nextOp,
                                                       !.ticket = f]]
                      /\ mutex' = a
                      /\ Calm
                 ELSE UNCHANGED <<admin, mutex>> /\ Disturb("journal")
    /\ nextOp' = nextOp + 1
    /\ UNCHANGED <<stateVars, adminOnly, effects, answers>>

\* A state edit: the path is read before the state lock is taken.
Locate(a) ==
    /\ admin[a].pc = "run"
    /\ admin' = [admin EXCEPT ![a] = [@ EXCEPT !.pc = "write", !.dest = file]]
    /\ UNCHANGED <<journalVars, stateVars, adminOnly, mutex, nextOp, effects,
                   answers, budget>>

\* The live state is cloned, edited, validated and written; an edit that is
\* refused, or cannot be written, changes nothing.
Persist(a) ==
    /\ admin[a].pc = "write"
    /\ StateUnlocked
    /\ LET data == holder.data \cup {admin[a].op}
       IN  \/ /\ AtomicWriteState(admin[a].dest, data)
              /\ UNCHANGED <<file, holder>>
              /\ effects' = effects \cup {admin[a].op}
              /\ admin' = [admin EXCEPT ![a] = [@ EXCEPT !.pc = "swap", !.data = data]]
              /\ Calm
           \/ /\ admin' = [admin EXCEPT ![a] = [@ EXCEPT !.pc = "finish",
                                                         !.outcome = "failed"]]
              /\ UNCHANGED <<stateVars, effects>>
              /\ Calm \/ Disturb("write")
    /\ UNCHANGED <<journalVars, adminOnly, mutex, nextOp, answers>>

\* Mutant of Swap: the live state is left as it was.
SwapSkipped(a) ==
    /\ admin[a].pc = "swap"
    /\ admin' = [admin EXCEPT ![a] = [@ EXCEPT !.pc = "finish",
                                               !.outcome = "succeeded"]]
    /\ UNCHANGED <<journalVars, stateVars, adminOnly, mutex, nextOp, effects, answers,
                   budget>>

\* The state lock is released with the new live state in place.
Swap(a) ==
    /\ admin[a].pc = "swap"
    /\ holder' = Loaded(admin[a].data)
    /\ admin' = [admin EXCEPT ![a] = [@ EXCEPT !.pc = "finish",
                                               !.outcome = "succeeded"]]
    /\ UNCHANGED <<journalVars, disk, aside, file, saved, touched, adminOnly, mutex,
                   nextOp, effects, answers, budget>>

\* Mutant of Rename: the Keeper's status goes into the record as it is.
RenameVerbatim(a) ==
    /\ admin[a].pc = "run"
    /\ admin' = [admin EXCEPT ![a] = [@ EXCEPT !.pc = "finish", !.outcome = "ready"]]
    /\ effects' = effects \cup {admin[a].op}
    /\ UNCHANGED <<journalVars, stateVars, adminOnly, mutex, nextOp, answers, budget>>

\* The Keeper renames an authentication name, refuses, or does not answer in a
\* way that tells: an answer may be lost, late or unreadable.
Rename(a) ==
    /\ admin[a].pc = "run"
    /\ \E done \in BOOLEAN, told \in BOOLEAN :
          /\ effects' = IF done THEN effects \cup {admin[a].op} ELSE effects
          /\ admin' = [admin EXCEPT ![a] =
                         [@ EXCEPT !.pc = "finish",
                                   !.outcome = IF ~told THEN "unknown"
                                               ELSE IF done THEN "succeeded"
                                               ELSE "failed"]]
          /\ IF told THEN Calm ELSE Disturb("keeper")
    /\ UNCHANGED <<journalVars, stateVars, adminOnly, mutex, nextOp, answers>>

\* The finish record goes to the file of the start record; the request is told
\* the outcome, and whether it was recorded.
Finish(a) ==
    /\ admin[a].pc = "finish"
    /\ \E result \in AppendResults :
          /\ FinishAudit(admin[a].op, admin[a].ticket, admin[a].outcome, result)
          /\ answers' = answers \cup {[op |-> admin[a].op, outcome |-> admin[a].outcome,
                                       recorded |-> result = "written"]}
          /\ IF result = "written" THEN Calm ELSE Disturb("journal")
    /\ saved' = IF /\ admin[a].outcome = "succeeded"
                   /\ admin[a].dest \in Files \ touched
                THEN [saved EXCEPT ![admin[a].dest] = @ \cup {admin[a].op}]
                ELSE saved
    /\ admin' = [admin EXCEPT ![a] = IdleAdmin]
    /\ mutex' = Free
    /\ UNCHANGED <<disk, aside, file, holder, touched, adminOnly, nextOp, effects>>

-----------------------------------------------------------------------------
(* The host registers the plugin or hands it a new configuration.          *)

hostOnly == <<journalVars, admin, nextOp, day, effects, answers>>

\* The new path is resolved under the mutex; a missing file is to receive the
\* live state when that one was persisted.  The rename of an unusable file may
\* be refused.
Reconfigure(f) ==
    /\ mutex = Free /\ host.pc = "idle"
    /\ \/ SetAside(f)
       \/ LeaveInPlace(f) /\ (disk[f].kind = "invalid" => "rename" \in Disturbances)
    /\ mutex' = Host
    /\ LET next == Resolved(f)
           move == ~next.persisted /\ ~next.loadError /\ holder.persisted
       IN  host' = [pc |-> IF move THEN "migrate" ELSE "config", dest |-> f,
                    old |-> holder.data, next |-> next]
    /\ UNCHANGED <<hostOnly, up, budget>>

\* The write is followed by a second look at the path; a refused one is only
\* logged.
Migrate ==
    /\ host.pc = "migrate"
    /\ \/ /\ AtomicWriteState(host.dest, host.old)
          /\ UNCHANGED <<file, holder>>
          /\ host' = [host EXCEPT !.pc = "config", !.next = Loaded(host.old)]
          /\ Calm
       \/ /\ host' = [host EXCEPT !.pc = "config"]
          /\ UNCHANGED stateVars
          /\ Disturb("write")
    /\ UNCHANGED <<hostOnly, up, mutex>>

\* Mutant of SwapConfig: the live state is blank until it is swapped in.
SwapConfigBlank ==
    /\ host.pc = "config"
    /\ file' = host.dest
    /\ holder' = Seed
    /\ host' = [host EXCEPT !.pc = "holder"]
    /\ UNCHANGED <<disk, aside, saved, touched, hostOnly, up, mutex, budget>>

\* Configuration and state are swapped one after the other.
SwapConfig ==
    /\ host.pc = "config"
    /\ file' = host.dest
    /\ host' = [host EXCEPT !.pc = "holder"]
    /\ UNCHANGED <<disk, aside, holder, saved, touched, hostOnly, up, mutex, budget>>

SwapHolder ==
    /\ host.pc = "holder"
    /\ StateUnlocked
    /\ holder' = host.next
    /\ up' = TRUE
    /\ mutex' = Free
    /\ host' = IdleHost
    /\ UNCHANGED <<disk, aside, file, saved, touched, hostOnly, budget>>

-----------------------------------------------------------------------------
(* Around them.                                                            *)

around == <<up, mutex, admin, host, nextOp, effects, answers>>

\* The operator edits, damages or deletes a file, at any moment.
Edit(f) ==
    /\ Tamper(f)
    /\ Disturb("tamper")
    /\ UNCHANGED <<journalVars, around, day>>

Midnight ==
    /\ day < MaxDay
    /\ day' = day + 1
    /\ UNCHANGED <<journalVars, stateVars, around, budget>>

\* The process dies; what it had not recorded is forgotten.
Crash ==
    /\ Disturb("crash")
    /\ ForgetAudit
    /\ holder' = Seed /\ file' = DefaultFile
    /\ up' = FALSE /\ mutex' = Free
    /\ admin' = [a \in Admins |-> IdleAdmin] /\ host' = IdleHost
    /\ answers' = {r \in answers : r.recorded}
    /\ UNCHANGED <<disk, aside, saved, touched, nextOp, day, effects>>

Next ==
    \/ \E a \in Admins : Begin(a) \/ Locate(a) \/ Persist(a) \/ Swap(a) \/ Rename(a)
                         \/ Finish(a)
    \/ \E f \in Files : Reconfigure(f) \/ Edit(f)
    \/ Migrate \/ SwapConfig \/ SwapHolder
    \/ Midnight \/ Crash

Spec == Init /\ [][Next]_vars

-----------------------------------------------------------------------------
(* Properties.                                                             *)

\* A save that was acknowledged is in its file for good: no later save,
\* reconfiguration, migration or crash drops it from the file, unless the
\* operator changed the file himself (applyStateUpdate, managementMutationMu).
AckedEditsKept ==
    \A f \in Files : saved[f] # {} =>
        disk[f].kind = "good" /\ saved[f] \subseteq disk[f].data

\* Between two calls the live state is the content of the file of the loaded
\* configuration, never one of the two without the other, whatever crashes,
\* refused writes and path changes came before.
LiveIsOnDisk ==
    mutex = Free /\ holder.persisted /\ file \notin touched =>
        disk[file] = Good(holder.data)

\* The live state gives up its key bindings only when the file of the new
\* configuration is absent, unusable or has just been changed: no reader sees
\* a seed-only state on the way from one good state to another.
KeyLayerKept ==
    [][up /\ up' /\ holder.persisted /\ ~holder'.persisted =>
          disk[file].kind # "good" \/ file \in touched]_vars

\* Every change that took place has an entry in the journal, through failed,
\* torn and unsynced appends, midnight, path changes and crashes.
EffectIsReported ==
    \A op \in effects : \E f \in JournalFiles : Reported(op, f) # "absent"

\* What the reader shows is true: a success took place, a failure did not, and
\* an operation shown as running is running.
ReportIsTrue ==
    \A op \in Ops, f \in JournalFiles :
        /\ Reported(op, f) = "succeeded" => op \in effects
        /\ Reported(op, f) = "failed" => op \notin effects
        /\ Reported(op, f) = "running" =>
              \E a \in Admins : admin[a].pc # "idle" /\ admin[a].op = op

\* What a request was told agrees with the journal: a recorded outcome is shown
\* for ever, and one that was not recorded as unknown while the process lives.
AnswerMatchesJournal ==
    \A r \in answers : \E f \in JournalFiles :
        Reported(r.op, f) = IF r.recorded THEN r.outcome ELSE "unknown"

=============================================================================
