--------------------------- MODULE ManagementProofs ---------------------------
(***************************************************************************)
(* Theorems about ManagementGate: types first, then the mutex, what it     *)
(* keeps together of file and live state, and what the journal says.       *)
(***************************************************************************)
EXTENDS ManagementGate, TLAPS

Working(a) == admin[a].pc # "idle"

\* TypeOK alone is not inductive: what is written and recorded is what the
\* holder of the mutex carries.
TypeInv ==
    /\ TypeOK
    /\ \A a \in Admins :
          /\ Working(a) => admin[a].op \in Ops /\ admin[a].ticket \in JournalFiles
          /\ admin[a].pc \in {"write", "swap"} => admin[a].dest \in Files
    /\ host.pc # "idle" => host.dest \in Files

LEMMA OpsAre == Ops \subseteq Nat /\ MaxOps \in Nat /\ MaxDay \in Nat /\ MaxDisturbances \in Nat
BY JournalAssumption, GateAssumption DEF Ops

LEMMA DataAre ==
    /\ \A d \in Data : Good(d) \in StateFile /\ Loaded(d) \in Holder
    /\ Absent \in StateFile /\ Good({0}) \in StateFile
    /\ Seed \in Holder /\ Rejected \in Holder
BY DEF Data, Good, Loaded, StateFile, Holder, Absent, Seed, Rejected

LEMMA EventsAre ==
    ASSUME NEW op \in Ops
    PROVE  /\ StartOf(op) \in Event
           /\ \A out \in Outcomes : FinishOf(op, out) \in Event
BY DEF StartOf, FinishOf, Event

\* What an append may do to the journal: nothing is lost, at most the event is
\* added, and it is if the append is reported as written.
Recorded(f) == journal[f].lines \cup journal[f].tail

LEMMA AppendAdds ==
    ASSUME JournalTypeOK, NEW f \in JournalFiles, NEW e \in Event, NEW result \in AppendResults,
           AppendEvent(f, e, result)
    PROVE  /\ journal' \in [JournalFiles -> JournalFile]
           /\ \A g \in JournalFiles : /\ journal[g].lines \subseteq journal'[g].lines
                                      /\ Recorded(g)' \subseteq Recorded(g) \cup {e}
                                      /\ g # f => journal'[g] = journal[g]
           /\ result = "written" => e \in journal'[f].lines
<1> DEFINE old == journal[f]
           new == journal'[f]
<1>1. journal \in [JournalFiles -> JournalFile] /\ old \in JournalFile
    BY DEF JournalTypeOK
<1>2. /\ new \in JournalFile
      /\ old.lines \subseteq new.lines
      /\ new.lines \cup new.tail \subseteq (old.lines \cup old.tail) \cup {e}
      /\ result = "written" => e \in new.lines
    <2>1. CASE result = "refused"
        <3>1. new = old
            BY <1>1, <2>1 DEF AppendEvent
        <3> QED
            BY <1>1, <2>1, <3>1
    <2>2. CASE result = "torn"
        <3>1. new = [lines |-> old.lines \cup old.tail, tail |-> {}, ended |-> FALSE]
            BY <1>1, <2>2 DEF AppendEvent, WithLines
        <3> QED
            BY <1>1, <2>2, <3>1 DEF JournalFile
    <2>3. CASE result = "unended"
        <3>1. new = [lines |-> old.lines \cup old.tail, tail |-> {e}, ended |-> FALSE]
            BY <1>1, <2>3 DEF AppendEvent, WithLines
        <3> QED
            BY <1>1, <2>3, <3>1 DEF JournalFile
    <2>4. CASE result \in {"written", "unsynced"}
        <3>1. new = [lines |-> old.lines \cup old.tail \cup {e}, tail |-> {}, ended |-> TRUE]
            BY <1>1, <2>4 DEF AppendEvent, WithLines
        <3> QED
            BY <1>1, <2>4, <3>1 DEF JournalFile
    <2> QED
        BY <2>1, <2>2, <2>3, <2>4 DEF AppendResults
<1>3. \A g \in JournalFiles : g # f => journal'[g] = journal[g]
    BY <1>1 DEF AppendEvent
<1>4. journal' \in [JournalFiles -> JournalFile]
    BY <1>1, <1>2 DEF AppendEvent
<1> QED
    BY <1>2, <1>3, <1>4 DEF Recorded

LEMMA TypeInit == Init => TypeInv
<1> SUFFICES ASSUME Init PROVE TypeInv
    OBVIOUS
<1>1. JournalTypeOK
    BY DEF Init, JournalInit, JournalTypeOK, JournalFile
<1>2. StateTypeOK
    <2>1. {0} \in Data /\ {} \in Data
        BY DEF Data
    <2>2. {Absent, Good({0}), [kind |-> "invalid", data |-> {0}], [kind |-> "garbled", data |-> {0}]}
            \subseteq StateFile
        BY <2>1 DEF Absent, Good, StateFile
    <2>3. disk \in [Files -> StateFile]
        BY <2>2 DEF Init, StateInit
    <2> QED
        BY <2>1, <2>3, StateAssumption, DataAre DEF Init, StateInit, StateTypeOK
<1>3. IdleAdmin \in AdminState /\ IdleHost \in HostState
    BY DataAre DEF IdleAdmin, IdleHost, AdminState, HostState, Outcomes, Data
<1>4. nextOp \in 1..(MaxOps + 1) /\ day \in 0..MaxDay /\ budget \in Nat
    BY OpsAre DEF Init
<1>5. \A a \in Admins : admin[a].pc = "idle"
    BY DEF Init, IdleAdmin
<1> QED
    BY <1>1, <1>2, <1>3, <1>4, <1>5 DEF Init, TypeInv, TypeOK, Working, IdleHost

\* The parts of TypeInv one request, the host, and the world around may change.
LEMMA TypeOneAdmin ==
    ASSUME TypeInv, NEW a \in Admins, NEW new \in AdminState,
           admin' = [admin EXCEPT ![a] = new],
           new.pc # "idle" => new.op \in Ops /\ new.ticket \in JournalFiles,
           new.pc \in {"write", "swap"} => new.dest \in Files,
           UNCHANGED host
    PROVE  /\ admin' \in [Admins -> AdminState]
           /\ host' \in HostState
           /\ \A b \in Admins :
                 /\ Working(b)' => admin'[b].op \in Ops /\ admin'[b].ticket \in JournalFiles
                 /\ admin'[b].pc \in {"write", "swap"} => admin'[b].dest \in Files
           /\ host'.pc # "idle" => host'.dest \in Files
BY DEF TypeInv, TypeOK, Working

LEMMA WriteType ==
    ASSUME TypeInv, NEW f, NEW data \in Data, AtomicWriteState(f, data), UNCHANGED <<file, holder>>
    PROVE  StateTypeOK'
BY DataAre DEF TypeInv, TypeOK, StateTypeOK, AtomicWriteState

LEMMA JournalType ==
    ASSUME TypeInv, NEW op \in Ops, NEW f \in JournalFiles, NEW out \in Outcomes,
           NEW result \in AppendResults,
           BeginAudit(op, f, result) \/ FinishAudit(op, f, out, result)
    PROVE  JournalTypeOK'
<1>1. StartOf(op) \in Event /\ FinishOf(op, out) \in Event /\ <<op, f>> \in Ops \X JournalFiles
    BY EventsAre
<1>2. JournalTypeOK
    BY DEF TypeInv, TypeOK
<1>3. journal' \in [JournalFiles -> JournalFile]
    BY <1>1, <1>2, AppendAdds DEF BeginAudit, FinishAudit
<1> QED
    BY <1>1, <1>2, <1>3 DEF BeginAudit, FinishAudit, JournalTypeOK

LEMMA TypeAdmin ==
    ASSUME TypeInv, NEW a \in Admins,
           Begin(a) \/ Locate(a) \/ Persist(a) \/ Swap(a) \/ Rename(a) \/ Finish(a)
    PROVE  TypeInv'
<1> DEFINE mine == admin[a]
<1>1. /\ JournalTypeOK /\ StateTypeOK /\ up \in BOOLEAN /\ mutex \in Admins \cup {Host, Free}
      /\ admin \in [Admins -> AdminState] /\ host \in HostState
      /\ nextOp \in 1..(MaxOps + 1) /\ day \in 0..MaxDay
      /\ effects \in SUBSET Ops /\ answers \in SUBSET Answer /\ budget \in Nat
      /\ mine \in AdminState
      /\ Working(a) => mine.op \in Ops /\ mine.ticket \in JournalFiles
      /\ mine.pc \in {"write", "swap"} => mine.dest \in Files
    BY DEF TypeInv, TypeOK
<1>2. \A kind : Disturb(kind) => budget' \in Nat
    BY <1>1 DEF Disturb
<1>3. Calm => budget' \in Nat
    BY <1>1 DEF Calm
<1>4. IdleAdmin \in AdminState
    BY DEF IdleAdmin, AdminState, Outcomes, Data
<1>5. UNCHANGED journalVars => JournalTypeOK'
    BY <1>1 DEF JournalTypeOK, journalVars
<1>6. UNCHANGED stateVars => StateTypeOK'
    BY <1>1 DEF StateTypeOK, stateVars
<1>7. UNCHANGED <<up, host, day>>
    BY DEF Begin, Locate, Persist, Swap, Rename, Finish, adminOnly
<1>8. CASE Begin(a)
    <2>1. PICK result \in AppendResults :
            /\ BeginAudit(nextOp, <<Dir[file], day>>, result)
            /\ IF result = "written"
               THEN /\ admin' = [admin EXCEPT ![a] =
                                   [IdleAdmin EXCEPT !.pc = "run", !.op = nextOp,
                                                     !.ticket = <<Dir[file], day>>]]
                    /\ mutex' = a
                    /\ Calm
               ELSE UNCHANGED <<admin, mutex>> /\ Disturb("journal")
        BY <1>8 DEF Begin
    <2>2. <<Dir[file], day>> \in JournalFiles /\ nextOp \in Ops /\ nextOp + 1 \in 1..(MaxOps + 1)
        BY <1>1, <1>8, GateAssumption, OpsAre DEF Begin, StateTypeOK, JournalFiles, Ops
    <2>3. JournalTypeOK'
        <3>1. "unknown" \in Outcomes
            BY DEF Outcomes
        <3> QED
            BY <2>1, <2>2, <3>1, JournalType
    <2>4. /\ admin' \in [Admins -> AdminState]
          /\ host' \in HostState
          /\ \A b \in Admins :
                /\ Working(b)' => admin'[b].op \in Ops /\ admin'[b].ticket \in JournalFiles
                /\ admin'[b].pc \in {"write", "swap"} => admin'[b].dest \in Files
          /\ host'.pc # "idle" => host'.dest \in Files
        <3>1. CASE UNCHANGED admin
            BY <1>7, <3>1 DEF TypeInv, TypeOK, Working
        <3>2. CASE admin' = [admin EXCEPT ![a] =
                               [IdleAdmin EXCEPT !.pc = "run", !.op = nextOp,
                                                 !.ticket = <<Dir[file], day>>]]
            <4> DEFINE new == [IdleAdmin EXCEPT !.pc = "run", !.op = nextOp,
                                                !.ticket = <<Dir[file], day>>]
            <4>1. /\ new \in AdminState /\ new.op \in Ops /\ new.ticket \in JournalFiles
                  /\ new.pc = "run"
                BY <2>2, <1>4, OpsAre DEF AdminState, IdleAdmin
            <4> HIDE DEF new
            <4>2. admin' = [admin EXCEPT ![a] = new]
                BY <3>2 DEF new
            <4> QED
                BY <1>7, <4>1, <4>2, TypeOneAdmin
        <3> QED
            BY <2>1, <3>1, <3>2
    <2>5. mutex' \in Admins \cup {Host, Free} /\ budget' \in Nat
        BY <1>1, <1>2, <1>3, <2>1
    <2>6. StateTypeOK' /\ effects' \in SUBSET Ops /\ answers' \in SUBSET Answer
          /\ nextOp' \in 1..(MaxOps + 1)
        BY <1>1, <1>6, <1>8, <2>2 DEF Begin
    <2> QED
        BY <1>1, <1>7, <2>3, <2>4, <2>5, <2>6 DEF TypeInv, TypeOK
<1>9. CASE Locate(a)
    <2>1. [mine EXCEPT !.pc = "write", !.dest = file] \in AdminState
        BY <1>1 DEF AdminState, StateTypeOK
    <2> DEFINE new == [mine EXCEPT !.pc = "write", !.dest = file]
    <2>2. new.pc = "write" /\ new.dest \in Files /\ new.op = mine.op /\ new.ticket = mine.ticket
        BY <1>1 DEF AdminState, StateTypeOK
    <2> HIDE DEF new
    <2>3. admin' = [admin EXCEPT ![a] = new]
        BY <1>9 DEF Locate, new
    <2>4. /\ UNCHANGED <<journalVars, stateVars, mutex, nextOp, effects, answers, budget>>
          /\ Working(a)
        BY <1>9 DEF Locate, Working
    <2> QED
        BY <1>1, <1>5, <1>6, <1>7, <2>1, <2>2, <2>3, <2>4, TypeOneAdmin DEF TypeInv, TypeOK, new
<1>10. CASE Persist(a)
    <2>1. /\ mine.pc = "write" /\ Working(a) /\ mine.op \in Ops /\ mine.op \in Nat
          /\ holder.data \cup {mine.op} \in Data
        BY <1>1, <1>10, OpsAre DEF Persist, Working, StateTypeOK, Holder, Data
    <2>2. UNCHANGED <<journalVars, mutex, nextOp, answers>>
        BY <1>10 DEF Persist
    <2>3. CASE /\ AtomicWriteState(mine.dest, holder.data \cup {mine.op})
               /\ UNCHANGED <<file, holder>>
               /\ effects' = effects \cup {mine.op}
               /\ admin' = [admin EXCEPT ![a] = [@ EXCEPT !.pc = "swap",
                                                          !.data = holder.data \cup {mine.op}]]
               /\ Calm
        <3> DEFINE new == [mine EXCEPT !.pc = "swap", !.data = holder.data \cup {mine.op}]
        <3>1. /\ new \in AdminState /\ new.pc = "swap" /\ new.dest = mine.dest
              /\ new.op = mine.op /\ new.ticket = mine.ticket
            BY <1>1, <2>1 DEF AdminState
        <3> HIDE DEF new
        <3>2. admin' = [admin EXCEPT ![a] = new]
            BY <1>1, <2>3 DEF new
        <3>3. StateTypeOK'
            BY <2>1, <2>3, WriteType
        <3> QED
            BY <1>1, <1>3, <1>5, <1>7, <2>1, <2>2, <2>3, <3>1, <3>2, <3>3, TypeOneAdmin
            DEF TypeInv, TypeOK
    <2>4. CASE /\ admin' = [admin EXCEPT ![a] = [@ EXCEPT !.pc = "finish", !.outcome = "failed"]]
               /\ UNCHANGED <<stateVars, effects>>
               /\ Calm \/ Disturb("write")
        <3> DEFINE new == [mine EXCEPT !.pc = "finish", !.outcome = "failed"]
        <3>1. /\ new \in AdminState /\ new.pc = "finish"
              /\ new.op = mine.op /\ new.ticket = mine.ticket
            BY <1>1, <2>1 DEF AdminState, Outcomes
        <3> HIDE DEF new
        <3>2. admin' = [admin EXCEPT ![a] = new]
            BY <1>1, <2>4 DEF new
        <3> QED
            BY <1>1, <1>2, <1>3, <1>5, <1>6, <1>7, <2>1, <2>2, <2>4, <3>1, <3>2, TypeOneAdmin
            DEF TypeInv, TypeOK
    <2> QED
        BY <1>10, <2>3, <2>4 DEF Persist
<1>11. CASE Swap(a)
    <2> DEFINE new == [mine EXCEPT !.pc = "finish", !.outcome = "succeeded"]
    <2>1. /\ new \in AdminState /\ new.pc = "finish" /\ new.op = mine.op
          /\ new.ticket = mine.ticket /\ mine.data \in Data
        BY <1>1 DEF AdminState, Outcomes
    <2> HIDE DEF new
    <2>2. /\ admin' = [admin EXCEPT ![a] = new] /\ Working(a)
          /\ holder' = Loaded(mine.data)
          /\ UNCHANGED <<journalVars, disk, aside, file, saved, touched, mutex, nextOp,
                         effects, answers, budget>>
        BY <1>11 DEF Swap, new, Working
    <2>3. StateTypeOK'
        BY <1>1, <2>1, <2>2, DataAre DEF StateTypeOK
    <2> QED
        BY <1>1, <1>5, <1>7, <2>1, <2>2, <2>3, TypeOneAdmin DEF TypeInv, TypeOK
<1>12. CASE Rename(a)
    <2>1. PICK out \in Outcomes :
            /\ admin' = [admin EXCEPT ![a] = [@ EXCEPT !.pc = "finish", !.outcome = out]]
            /\ effects' \in {effects, effects \cup {mine.op}}
            /\ Calm \/ Disturb("keeper")
        BY <1>12 DEF Rename, Outcomes
    <2> DEFINE new == [mine EXCEPT !.pc = "finish", !.outcome = out]
    <2>2. /\ new \in AdminState /\ new.pc = "finish" /\ new.op = mine.op
          /\ new.ticket = mine.ticket
        BY <1>1 DEF AdminState
    <2> HIDE DEF new
    <2>3. /\ admin' = [admin EXCEPT ![a] = new] /\ Working(a)
          /\ UNCHANGED <<journalVars, stateVars, mutex, nextOp, answers>>
        BY <1>12, <2>1 DEF Rename, new, Working
    <2> QED
        BY <1>1, <1>2, <1>3, <1>5, <1>6, <1>7, <2>1, <2>2, <2>3, TypeOneAdmin
        DEF TypeInv, TypeOK
<1>13. CASE Finish(a)
    <2>1. PICK result \in AppendResults :
            /\ FinishAudit(mine.op, mine.ticket, mine.outcome, result)
            /\ answers' = answers \cup {[op |-> mine.op, outcome |-> mine.outcome,
                                         recorded |-> result = "written"]}
            /\ IF result = "written" THEN Calm ELSE Disturb("journal")
        BY <1>13 DEF Finish
    <2>2. mine.op \in Ops /\ mine.ticket \in JournalFiles /\ mine.outcome \in Outcomes
        BY <1>1, <1>13 DEF Finish, Working, AdminState
    <2>3. JournalTypeOK'
        BY <2>1, <2>2, JournalType
    <2>4. answers' \in SUBSET Answer
        <3>1. [op |-> mine.op, outcome |-> mine.outcome, recorded |-> result = "written"]
                \in Answer
            BY <2>2 DEF Answer
        <3> QED
            BY <1>1, <2>1, <3>1
    <2>5. budget' \in Nat
        BY <1>2, <1>3, <2>1
    <2>6. StateTypeOK'
        <3>1. saved' \in [Files -> Data]
            <4>1. saved \in [Files -> Data]
                BY <1>1 DEF StateTypeOK
            <4>2. CASE saved' = saved
                BY <4>1, <4>2
            <4>3. CASE mine.dest \in Files /\ saved' = [saved EXCEPT ![mine.dest] = @ \cup {mine.op}]
                <5>1. saved[mine.dest] \cup {mine.op} \in Data
                    BY <2>2, <4>1, <4>3, OpsAre DEF Data
                <5> QED
                    BY <4>1, <4>3, <5>1
            <4> QED
                BY <1>13, <4>2, <4>3 DEF Finish
        <3> QED
            BY <1>1, <1>13, <3>1 DEF Finish, StateTypeOK
    <2>7. /\ admin' = [admin EXCEPT ![a] = IdleAdmin] /\ mutex' = Free
          /\ UNCHANGED <<nextOp, effects>> /\ IdleAdmin.pc = "idle"
        BY <1>13 DEF Finish, IdleAdmin
    <2> QED
        BY <1>1, <1>4, <1>7, <2>3, <2>4, <2>5, <2>6, <2>7, TypeOneAdmin DEF TypeInv, TypeOK
<1> QED
    BY <1>8, <1>9, <1>10, <1>11, <1>12, <1>13

LEMMA TypeHost ==
    ASSUME TypeInv,
           (\E f \in Files : Reconfigure(f)) \/ Migrate \/ SwapConfig \/ SwapHolder
    PROVE  TypeInv'
<1>1. /\ JournalTypeOK /\ StateTypeOK /\ host \in HostState /\ up \in BOOLEAN
      /\ mutex \in Admins \cup {Host, Free} /\ budget \in Nat
      /\ holder \in Holder /\ disk \in [Files -> StateFile]
    BY DEF TypeInv, TypeOK, StateTypeOK
<1>2. UNCHANGED <<journalVars, admin, nextOp, day, effects, answers>>
    BY DEF Reconfigure, Migrate, SwapConfig, SwapHolder, hostOnly
<1>3. ASSUME StateTypeOK', host' \in HostState, host'.pc # "idle" => host'.dest \in Files,
             up' \in BOOLEAN, mutex' \in Admins \cup {Host, Free}, budget' \in Nat
      PROVE  TypeInv'
    BY <1>2, <1>3 DEF TypeInv, TypeOK, JournalTypeOK, journalVars, Working
<1>4. ASSUME NEW f \in Files, Reconfigure(f) PROVE TypeInv'
    <2>1. Resolved(f) \in Holder
        BY <1>1, DataAre DEF Resolved, StateFile
    <2>2. \E pc \in {"migrate", "config"} :
            host' = [pc |-> pc, dest |-> f, old |-> holder.data, next |-> Resolved(f)]
        BY <1>4 DEF Reconfigure
    <2>3. host' \in HostState /\ host'.dest \in Files
        BY <1>1, <2>1, <2>2 DEF HostState, Holder
    <2>4. StateTypeOK'
        <3>1. CASE SetAside(f)
            BY <1>1, <3>1, DataAre DEF SetAside, StateTypeOK, StateFile
        <3>2. CASE LeaveInPlace(f)
            BY <1>1, <3>2 DEF LeaveInPlace, StateTypeOK
        <3> QED
            BY <1>4, <3>1, <3>2 DEF Reconfigure
    <2> QED
        BY <1>1, <1>3, <1>4, <2>3, <2>4 DEF Reconfigure
<1>5. CASE Migrate
    <2>1. host.old \in Data /\ host.dest \in Files /\ UNCHANGED <<up, mutex>>
        BY <1>1, <1>5 DEF Migrate, HostState, TypeInv
    <2>2. CASE /\ AtomicWriteState(host.dest, host.old)
               /\ UNCHANGED <<file, holder>>
               /\ host' = [host EXCEPT !.pc = "config", !.next = Loaded(host.old)]
               /\ Calm
        <3>1. StateTypeOK'
            BY <2>1, <2>2, WriteType
        <3>2. host' \in HostState /\ host'.dest \in Files
            BY <1>1, <2>1, <2>2, DataAre DEF HostState
        <3> QED
            BY <1>1, <1>3, <2>1, <2>2, <3>1, <3>2 DEF Calm
    <2>3. CASE /\ host' = [host EXCEPT !.pc = "config"]
               /\ UNCHANGED stateVars
               /\ Disturb("write")
        <3>1. StateTypeOK' /\ host' \in HostState /\ host'.dest \in Files
            BY <1>1, <2>1, <2>3 DEF StateTypeOK, stateVars, HostState
        <3> QED
            BY <1>1, <1>3, <2>1, <2>3, <3>1 DEF Disturb
    <2> QED
        BY <1>5, <2>2, <2>3 DEF Migrate
<1>6. CASE SwapConfig
    <2>1. host.dest \in Files
        BY <1>6 DEF SwapConfig, TypeInv
    <2>2. host' \in HostState /\ host'.dest \in Files
        BY <1>1, <1>6, <2>1 DEF SwapConfig, HostState
    <2>3. StateTypeOK'
        BY <1>1, <1>6, <2>1 DEF SwapConfig, StateTypeOK
    <2> QED
        BY <1>1, <1>3, <1>6, <2>2, <2>3 DEF SwapConfig
<1>7. CASE SwapHolder
    <2>1. host.next \in Holder
        BY <1>1 DEF HostState
    <2>2. StateTypeOK'
        BY <1>1, <1>7, <2>1 DEF SwapHolder, StateTypeOK
    <2>3. host' \in HostState /\ host'.pc = "idle"
        BY <1>7, DataAre DEF SwapHolder, HostState, IdleHost, Data
    <2> QED
        BY <1>1, <1>3, <1>7, <2>2, <2>3 DEF SwapHolder
<1> QED
    BY <1>4, <1>5, <1>6, <1>7

LEMMA TypeAround ==
    ASSUME TypeInv,
           (\E f \in Files : Edit(f)) \/ Midnight \/ Crash \/ UNCHANGED vars
    PROVE  TypeInv'
<1>1. /\ JournalTypeOK /\ StateTypeOK /\ budget \in Nat /\ disk \in [Files -> StateFile]
      /\ answers \in SUBSET Answer /\ day \in 0..MaxDay
    BY DEF TypeInv, TypeOK, StateTypeOK
<1>2. ASSUME NEW f \in Files, Edit(f) PROVE TypeInv'
    <2>1. Tampered(f) \subseteq StateFile
        BY <1>1, DataAre DEF Tampered, StateFile
    <2>2. PICK new \in Tampered(f) : disk' = [disk EXCEPT ![f] = new]
        BY <1>2 DEF Edit, Tamper
    <2>3. saved' = [saved EXCEPT ![f] = {}] /\ touched' = touched \cup {f}
          /\ UNCHANGED <<aside, file, holder>>
        BY <1>2 DEF Edit, Tamper
    <2>4. StateTypeOK'
        <3>1. disk' \in [Files -> StateFile]
            BY <1>1, <2>1, <2>2
        <3>2. saved' \in [Files -> Data]
            BY <1>1, <2>3 DEF StateTypeOK, Data
        <3> QED
            BY <1>1, <2>3, <3>1, <3>2 DEF StateTypeOK
    <2>5. UNCHANGED <<journalVars, up, mutex, admin, host, nextOp, effects, answers, day>>
          /\ budget' \in Nat
        BY <1>1, <1>2 DEF Edit, around, Disturb
    <2> QED
        BY <2>4, <2>5 DEF TypeInv, TypeOK, JournalTypeOK, journalVars, Working
<1>3. CASE Midnight
    <2>1. day' \in 0..MaxDay
        BY <1>1, <1>3, OpsAre DEF Midnight
    <2> QED
        BY <1>1, <1>3, <2>1
        DEF Midnight, around, TypeInv, TypeOK, JournalTypeOK, journalVars, StateTypeOK,
            stateVars, Working
<1>4. CASE Crash
    <2>1. IdleAdmin \in AdminState /\ IdleHost \in HostState
          /\ IdleAdmin.pc = "idle" /\ IdleHost.pc = "idle"
        BY DataAre DEF IdleAdmin, IdleHost, AdminState, HostState, Outcomes, Data
    <2>2. JournalTypeOK' /\ StateTypeOK'
        BY <1>1, <1>4, DataAre, StateAssumption
        DEF Crash, ForgetAudit, JournalTypeOK, StateTypeOK
    <2>3. /\ admin' \in [Admins -> AdminState] /\ \A a \in Admins : admin'[a].pc = "idle"
          /\ host' \in HostState /\ host'.pc = "idle"
        BY <1>4, <2>1 DEF Crash
    <2>4. /\ answers' \in SUBSET Answer /\ budget' \in Nat /\ up' \in BOOLEAN
          /\ mutex' \in Admins \cup {Host, Free}
          /\ UNCHANGED <<nextOp, day, effects>>
        <3>1. answers' \subseteq answers
            BY <1>4, Zenon DEF Crash
        <3>2. budget' \in Nat
            BY <1>1, <1>4 DEF Crash, Disturb
        <3>3. up' = FALSE /\ mutex' = Free /\ UNCHANGED <<nextOp, day, effects>>
            BY <1>4, Zenon DEF Crash
        <3> QED
            BY <1>1, <3>1, <3>2, <3>3
    <2>5. nextOp' \in 1..(MaxOps + 1) /\ day' \in 0..MaxDay /\ effects' \in SUBSET Ops
        BY <1>1, <2>4 DEF TypeInv, TypeOK
    <2>6. TypeOK'
        BY <2>2, <2>3, <2>4, <2>5 DEF TypeOK
    <2> QED
        BY <2>3, <2>6 DEF TypeInv, Working
<1>5. CASE UNCHANGED vars
    BY <1>1, <1>5
    DEF vars, TypeInv, TypeOK, JournalTypeOK, journalVars, StateTypeOK, stateVars, Working
<1> QED
    BY <1>2, <1>3, <1>4, <1>5

LEMMA TypeStep == TypeInv /\ [Next]_vars => TypeInv'
BY TypeAdmin, TypeHost, TypeAround DEF Next

\* The type invariant of the management gate, for every number of requests, paths,
\* days and disturbances.
THEOREM TypeCorrect == Spec => []TypeOK
<1>1. TypeInv => TypeOK
    BY DEF TypeInv
<1> QED
    BY <1>1, TypeInit, TypeStep, PTL DEF Spec

-----------------------------------------------------------------------------
(* File and live state.  One of the mutex' holders works at a time, and    *)
(* what it carries stands in for what it is about to put in place: the     *)
(* edit of a request between write and swap, the state a reconfiguration   *)
(* has read or written between its two swaps.  What the operator touched   *)
(* is left out.                                                            *)

Exclusive ==
    /\ \A a \in Admins : Working(a) <=> mutex = a
    /\ host.pc # "idle" <=> mutex = Host

EditInv(a) ==
    /\ Working(a) => up
    /\ admin[a].pc = "run" => admin[a].dest = None
    /\ admin[a].pc \in {"write", "swap"} => admin[a].dest = file
    /\ admin[a].pc = "swap" =>
         /\ admin[a].op \in admin[a].data
         /\ file \notin touched => disk[file] = Good(admin[a].data)
    /\ admin[a].pc = "finish" /\ admin[a].outcome = "succeeded" /\ admin[a].dest \in Files =>
         /\ admin[a].dest = file
         /\ holder.persisted /\ admin[a].op \in holder.data

HostInv ==
    /\ host.pc = "migrate" => ~host.next.persisted
    /\ host.pc # "idle" =>
         IF host.next.persisted
         THEN host.dest \notin touched => disk[host.dest] = Good(host.next.data)
         ELSE host.dest \notin touched => disk[host.dest].kind # "good"
    /\ host.pc = "holder" => file = host.dest

Settled == mutex # Host /\ \A a \in Admins : admin[a].pc # "swap"

LiveInv ==
    Settled =>
        /\ holder.persisted /\ file \notin touched => disk[file] = Good(holder.data)
        /\ up /\ saved[file] # {} => holder.persisted

SavedInv ==
    /\ AckedEditsKept
    /\ \A f \in touched : saved[f] = {}

GateInv == /\ TypeInv /\ Exclusive
           /\ \A a \in Admins : EditInv(a)
           /\ HostInv /\ LiveInv /\ SavedInv

LEMMA GateInit == Init => GateInv
<1> SUFFICES ASSUME Init PROVE GateInv
    OBVIOUS
<1>1. /\ \A a \in Admins : admin[a].pc = "idle"
      /\ host.pc = "idle" /\ mutex = Free /\ up = FALSE
      /\ saved = [f \in Files |-> {}] /\ touched = Files
    BY DEF Init, StateInit, IdleAdmin, IdleHost
<1>2. file \in Files
    BY StateAssumption DEF Init, StateInit
<1>3. Exclusive
    BY <1>1, GateAssumption DEF Exclusive, Working
<1>4. (\A a \in Admins : EditInv(a)) /\ HostInv
    BY <1>1 DEF EditInv, HostInv, Working
<1>5. LiveInv /\ SavedInv
    BY <1>1, <1>2 DEF LiveInv, SavedInv, AckedEditsKept
<1> QED
    BY <1>3, <1>4, <1>5, TypeInit DEF GateInv

\* What holds while request a has the mutex: nobody else is at work.
LEMMA Alone ==
    ASSUME GateInv, NEW a \in Admins, Working(a)
    PROVE  /\ mutex = a /\ up /\ host.pc = "idle" /\ a # Host /\ a # Free
           /\ \A b \in Admins \ {a} : admin[b].pc = "idle"
           /\ admin[a].pc # "swap" => Settled
           /\ \A b \in Admins \ {a} : EditInv(b) /\ ~Working(b)
BY GateAssumption DEF GateInv, Exclusive, EditInv, Settled, Working

\* A step of one request that does not touch the state.
LEMMA GateOneAdmin ==
    ASSUME GateInv, NEW a \in Admins, UNCHANGED <<up, host>>,
           \A b \in Admins \ {a} : admin'[b] = admin[b] /\ admin[b].pc = "idle",
           mutex' = (IF Working(a)' THEN a ELSE Free), host.pc = "idle",
           EditInv(a)', LiveInv', SavedInv'
    PROVE  /\ Exclusive'
           /\ \A b \in Admins : EditInv(b)'
           /\ HostInv' /\ LiveInv' /\ SavedInv'
<1>1. Exclusive'
    BY GateAssumption DEF Exclusive, Working
<1>2. \A b \in Admins : EditInv(b)'
    BY DEF EditInv, Working
<1>3. HostInv'
    BY DEF HostInv
<1> QED
    BY <1>1, <1>2, <1>3

GateParts == /\ Exclusive' /\ \A b \in Admins : EditInv(b)'
             /\ HostInv' /\ LiveInv' /\ SavedInv'

LEMMA GateBegin ==
    ASSUME GateInv, NEW a \in Admins, Begin(a)
    PROVE  GateParts
<1>1. /\ admin \in [Admins -> AdminState] /\ up /\ mutex = Free
      /\ host.pc = "idle" /\ \A b \in Admins : admin[b].pc = "idle"
    BY GateAssumption DEF Begin, GateInv, TypeInv, TypeOK, Exclusive, Working
<1>2. UNCHANGED stateVars /\ UNCHANGED <<up, host, day>>
    BY DEF Begin, adminOnly
<1>3. CASE UNCHANGED <<admin, mutex>>
    BY <1>2, <1>3
    DEF GateInv, GateParts, Exclusive, EditInv, HostInv, LiveInv, SavedInv, AckedEditsKept,
        Settled, Working, stateVars
<1>4. CASE mutex' = a /\ admin' = [admin EXCEPT ![a] =
                                     [IdleAdmin EXCEPT !.pc = "run", !.op = nextOp,
                                                       !.ticket = <<Dir[file], day>>]]
    <2>1. /\ admin'[a].pc = "run" /\ admin'[a].dest = None
          /\ \A b \in Admins \ {a} : admin'[b] = admin[b]
        BY <1>1, <1>4 DEF IdleAdmin
    <2>2. Settled /\ Settled'
        BY <1>1, <1>4, <2>1, GateAssumption DEF Settled
    <2>3. LiveInv' /\ SavedInv'
        BY <1>2, <2>2 DEF GateInv, LiveInv, SavedInv, AckedEditsKept, stateVars
    <2>4. EditInv(a)'
        BY <1>1, <1>2, <2>1 DEF EditInv
    <2>5. mutex' = IF Working(a)' THEN a ELSE Free
        BY <1>4, <2>1 DEF Working
    <2> QED
        BY <1>1, <1>2, <2>1, <2>3, <2>4, <2>5, GateOneAdmin DEF GateParts
<1> QED
    BY <1>3, <1>4 DEF Begin

LEMMA GateLocate ==
    ASSUME GateInv, NEW a \in Admins, Locate(a) \/ Rename(a)
    PROVE  GateParts
<1>1. /\ admin \in [Admins -> AdminState] /\ admin[a] \in AdminState
      /\ Working(a) /\ EditInv(a) /\ admin[a].pc = "run"
    BY DEF Locate, Rename, Working, GateInv, TypeInv, TypeOK
<1>2. UNCHANGED <<stateVars, mutex>> /\ UNCHANGED <<up, host, day>>
    BY DEF Locate, Rename, adminOnly
<1>3. /\ \A b \in Admins \ {a} : admin'[b] = admin[b]
      /\ \/ admin'[a].pc = "write" /\ admin'[a].dest = file
         \/ admin'[a].pc = "finish" /\ admin'[a].dest = None
    <2>1. CASE Locate(a)
        BY <1>1, <2>1 DEF Locate, AdminState
    <2>2. CASE Rename(a)
        <3>1. PICK out :
                admin' = [admin EXCEPT ![a] = [@ EXCEPT !.pc = "finish", !.outcome = out]]
            BY <2>2 DEF Rename
        <3> QED
            BY <1>1, <3>1 DEF AdminState, EditInv
    <2> QED
        BY <2>1, <2>2
<1>4. Settled /\ Settled'
    BY <1>1, <1>2, <1>3, Alone DEF Settled
<1>5. LiveInv' /\ SavedInv'
    BY <1>2, <1>4 DEF GateInv, LiveInv, SavedInv, AckedEditsKept, stateVars
<1>6. EditInv(a)'
    BY <1>1, <1>2, <1>3, GateAssumption DEF EditInv, Working, stateVars
<1>7. mutex' = IF Working(a)' THEN a ELSE Free
    BY <1>1, <1>2, <1>3, Alone DEF Working
<1> QED
    BY <1>1, <1>2, <1>3, <1>5, <1>6, <1>7, Alone, GateOneAdmin DEF GateParts

LEMMA GatePersist ==
    ASSUME GateInv, NEW a \in Admins, Persist(a)
    PROVE  GateParts
<1> DEFINE mine == admin[a]
           data == holder.data \cup {mine.op}
<1>1. /\ admin \in [Admins -> AdminState] /\ mine \in AdminState
      /\ Working(a) /\ EditInv(a) /\ mine.pc = "write" /\ mine.dest = file
      /\ file \in Files /\ disk \in [Files -> StateFile]
    BY DEF Persist, Working, GateInv, TypeInv, TypeOK, StateTypeOK, EditInv
<1>2. UNCHANGED mutex /\ UNCHANGED <<up, host, day>>
    BY DEF Persist, adminOnly
<1>3. Settled
    BY <1>1, Alone
<1>4. CASE /\ AtomicWriteState(mine.dest, data)
           /\ UNCHANGED <<file, holder>>
           /\ admin' = [admin EXCEPT ![a] = [@ EXCEPT !.pc = "swap", !.data = data]]
    <2>1. /\ \A b \in Admins \ {a} : admin'[b] = admin[b]
          /\ admin'[a].pc = "swap" /\ admin'[a].dest = file /\ admin'[a].op = mine.op
          /\ admin'[a].data = data
        BY <1>1, <1>4 DEF AdminState
    <2>2. /\ disk' = [disk EXCEPT ![file] = Good(data)] /\ touched' = touched \ {file}
          /\ UNCHANGED <<saved, file, holder>>
        BY <1>1, <1>4 DEF AtomicWriteState
    <2>3. disk'[file] = Good(data)
        BY <1>1, <2>2
    <2>4. EditInv(a)'
        BY <1>1, <1>2, <2>1, <2>2, <2>3 DEF EditInv, Working
    <2>5. LiveInv'
        BY <1>1, <2>1 DEF LiveInv, Settled
    <2>6. SavedInv'
        <3>1. saved[file] # {} => saved[file] \subseteq holder.data
            <4>1. saved[file] # {} => holder.persisted /\ file \notin touched
                BY <1>1, <1>3, Alone DEF GateInv, LiveInv, SavedInv
            <4>2. saved[file] # {} => disk[file] = Good(holder.data)
                BY <1>3, <4>1 DEF GateInv, LiveInv
            <4> QED
                BY <1>1, <4>2 DEF GateInv, SavedInv, AckedEditsKept, Good
        <3>2. Good(data).kind = "good" /\ Good(data).data = data
            BY DEF Good
        <3>3. AckedEditsKept'
            BY <1>1, <2>2, <2>3, <3>1, <3>2 DEF GateInv, SavedInv, AckedEditsKept
        <3> QED
            BY <2>2, <3>3 DEF GateInv, SavedInv
    <2>7. mutex' = IF Working(a)' THEN a ELSE Free
        BY <1>1, <1>2, <2>1, Alone DEF Working
    <2> QED
        BY <1>1, <1>2, <2>1, <2>4, <2>5, <2>6, <2>7, Alone, GateOneAdmin DEF GateParts
<1>5. CASE /\ admin' = [admin EXCEPT ![a] = [@ EXCEPT !.pc = "finish", !.outcome = "failed"]]
           /\ UNCHANGED stateVars
    <2>1. /\ \A b \in Admins \ {a} : admin'[b] = admin[b]
          /\ admin'[a].pc = "finish" /\ admin'[a].outcome = "failed"
        BY <1>1, <1>5 DEF AdminState
    <2>2. LiveInv' /\ SavedInv'
        BY <1>2, <1>3, <1>5 DEF GateInv, LiveInv, SavedInv, AckedEditsKept, stateVars
    <2>3. EditInv(a)'
        BY <1>1, <1>2, <2>1, Alone DEF EditInv, Working
    <2>4. mutex' = IF Working(a)' THEN a ELSE Free
        BY <1>1, <1>2, <2>1, Alone DEF Working
    <2> QED
        BY <1>1, <1>2, <2>1, <2>2, <2>3, <2>4, Alone, GateOneAdmin DEF GateParts
<1> QED
    BY <1>4, <1>5 DEF Persist

LEMMA GateSwap ==
    ASSUME GateInv, NEW a \in Admins, Swap(a)
    PROVE  GateParts
<1> DEFINE mine == admin[a]
<1>1. /\ admin \in [Admins -> AdminState] /\ mine \in AdminState
      /\ Working(a) /\ EditInv(a) /\ mine.pc = "swap" /\ mine.dest = file
    BY DEF Swap, Working, GateInv, TypeInv, TypeOK, EditInv
<1>2. /\ UNCHANGED <<disk, file, saved, touched, mutex>> /\ UNCHANGED <<up, host, day>>
      /\ holder'.persisted /\ holder'.data = mine.data
    BY DEF Swap, adminOnly, Loaded
<1>3. /\ \A b \in Admins \ {a} : admin'[b] = admin[b]
      /\ admin'[a].pc = "finish" /\ admin'[a].dest = file /\ admin'[a].op = mine.op
    BY <1>1 DEF Swap, AdminState
<1>4. EditInv(a)'
    BY <1>1, <1>2, <1>3 DEF EditInv, Working
<1>5. LiveInv' /\ SavedInv'
    BY <1>1, <1>2 DEF GateInv, LiveInv, SavedInv, AckedEditsKept, EditInv
<1>6. mutex' = IF Working(a)' THEN a ELSE Free
    BY <1>1, <1>2, <1>3, Alone DEF Working
<1> QED
    BY <1>1, <1>2, <1>3, <1>4, <1>5, <1>6, Alone, GateOneAdmin DEF GateParts

LEMMA GateFinish ==
    ASSUME GateInv, NEW a \in Admins, Finish(a)
    PROVE  GateParts
<1> DEFINE mine == admin[a]
<1>1. /\ admin \in [Admins -> AdminState] /\ mine \in AdminState
      /\ Working(a) /\ EditInv(a) /\ mine.pc = "finish"
      /\ file \in Files /\ disk \in [Files -> StateFile] /\ saved \in [Files -> Data]
    BY DEF Finish, Working, GateInv, TypeInv, TypeOK, StateTypeOK
<1>2. UNCHANGED <<disk, file, holder, touched>> /\ UNCHANGED <<up, host, day>> /\ mutex' = Free
    BY DEF Finish, adminOnly
<1>3. /\ \A b \in Admins \ {a} : admin'[b] = admin[b]
      /\ admin'[a].pc = "idle"
    BY <1>1 DEF Finish, IdleAdmin
<1>4. EditInv(a)'
    BY <1>3 DEF EditInv, Working
<1>5. Settled /\ (holder.persisted /\ file \notin touched => disk[file] = Good(holder.data))
    BY <1>1, Alone DEF GateInv, LiveInv
<1>6. ASSUME UNCHANGED saved PROVE LiveInv' /\ SavedInv'
    BY <1>1, <1>2, <1>5, <1>6, Alone DEF GateInv, LiveInv, SavedInv, AckedEditsKept
<1>7. ASSUME mine.outcome = "succeeded", mine.dest \in Files \ touched,
             saved' = [saved EXCEPT ![mine.dest] = @ \cup {mine.op}]
      PROVE  LiveInv' /\ SavedInv'
    <2>1. mine.dest = file /\ holder.persisted /\ mine.op \in holder.data
        BY <1>1, <1>7 DEF EditInv
    <2>2. disk[file].kind = "good" /\ disk[file].data = holder.data
        BY <1>5, <1>7, <2>1 DEF Good
    <2>3. LiveInv'
        BY <1>2, <1>5, <2>1 DEF LiveInv
    <2>4. saved[file] \subseteq holder.data
        BY <1>1, <2>2 DEF GateInv, SavedInv, AckedEditsKept
    <2>5. SavedInv'
        BY <1>1, <1>2, <1>7, <2>1, <2>2, <2>4 DEF GateInv, SavedInv, AckedEditsKept
    <2> QED
        BY <2>3, <2>5
<1>8. LiveInv' /\ SavedInv'
    BY <1>2, <1>6, <1>7 DEF Finish
<1>9. mutex' = IF Working(a)' THEN a ELSE Free
    BY <1>2, <1>3 DEF Working
<1> QED
    BY <1>1, <1>2, <1>3, <1>4, <1>8, <1>9, Alone, GateOneAdmin DEF GateParts

\* A step of the host, while every request is idle.
LEMMA GateOneHost ==
    ASSUME GateInv, UNCHANGED admin, \A a \in Admins : admin[a].pc = "idle",
           mutex' = (IF host'.pc = "idle" THEN Free ELSE Host),
           HostInv', LiveInv', SavedInv'
    PROVE  GateParts
<1>1. Exclusive'
    BY GateAssumption DEF Exclusive, Working
<1>2. \A a \in Admins : EditInv(a)'
    BY DEF EditInv, Working
<1> QED
    BY <1>1, <1>2 DEF GateParts

LEMMA GateReconfigure ==
    ASSUME GateInv, NEW f \in Files, Reconfigure(f)
    PROVE  GateParts
<1>1. /\ \A a \in Admins : admin[a].pc = "idle"
      /\ UNCHANGED admin /\ mutex' = Host
      /\ disk \in [Files -> StateFile] /\ disk[f] \in StateFile
    BY GateAssumption
    DEF GateInv, TypeInv, TypeOK, StateTypeOK, Exclusive, Working, Reconfigure, hostOnly
<1>2. PICK pc \in {"migrate", "config"} :
        /\ host' = [pc |-> pc, dest |-> f, old |-> holder.data, next |-> Resolved(f)]
        /\ pc = "migrate" => ~Resolved(f).persisted
    BY DEF Reconfigure
<1>3. /\ host'.pc = pc /\ host'.dest = f /\ host'.next = Resolved(f)
    BY <1>2
<1>4. /\ disk[f].kind = "good" => Resolved(f).persisted /\ disk[f] = Good(Resolved(f).data)
      /\ disk[f].kind # "good" => ~Resolved(f).persisted
    BY <1>1 DEF Resolved, Loaded, Seed, Rejected, Good, StateFile
<1>5. ASSUME SetAside(f) PROVE HostInv' /\ SavedInv'
    <2>1. /\ disk' = [disk EXCEPT ![f] = Absent] /\ UNCHANGED <<saved, touched>>
          /\ disk[f].kind = "invalid"
        BY <1>5 DEF SetAside
    <2>2. disk'[f].kind = "none"
        BY <1>1, <2>1 DEF Absent
    <2>3. HostInv'
        BY <1>2, <1>3, <1>4, <2>1, <2>2 DEF HostInv
    <2>4. SavedInv'
        BY <1>1, <2>1 DEF GateInv, SavedInv, AckedEditsKept
    <2> QED
        BY <1>1, <1>3, <2>3, <2>4
<1>6. ASSUME LeaveInPlace(f) PROVE HostInv' /\ SavedInv'
    <2>1. UNCHANGED <<disk, saved>> /\ touched' \subseteq touched
        BY <1>6 DEF LeaveInPlace
    <2>2. HostInv'
        BY <1>2, <1>3, <1>4, <2>1 DEF HostInv
    <2>3. SavedInv'
        BY <2>1 DEF GateInv, SavedInv, AckedEditsKept
    <2> QED
        BY <1>1, <1>3, <2>2, <2>3
<1>7. HostInv' /\ SavedInv'
    BY <1>5, <1>6 DEF Reconfigure
<1>8. LiveInv'
    BY <1>1 DEF LiveInv, Settled
<1> QED
    BY <1>1, <1>2, <1>3, <1>7, <1>8, GateOneHost

LEMMA GateHost ==
    ASSUME GateInv, Migrate \/ SwapConfig \/ SwapHolder
    PROVE  GateParts
<1>1. /\ host.pc # "idle" /\ mutex = Host /\ host \in HostState /\ host.dest \in Files
      /\ \A a \in Admins : admin[a].pc = "idle"
      /\ UNCHANGED admin
      /\ disk \in [Files -> StateFile] /\ HostInv
    BY GateAssumption
    DEF GateInv, TypeInv, TypeOK, StateTypeOK, Exclusive, Working, Migrate, SwapConfig,
        SwapHolder, hostOnly
<1>2. CASE Migrate
    <2>1. UNCHANGED mutex /\ host'.pc = "config" /\ host'.dest = host.dest
        BY <1>1, <1>2 DEF Migrate, HostState
    <2>2. LiveInv'
        BY <1>1, <2>1 DEF LiveInv, Settled
    <2>3. ASSUME AtomicWriteState(host.dest, host.old), UNCHANGED <<file, holder>>,
                 host' = [host EXCEPT !.pc = "config", !.next = Loaded(host.old)]
          PROVE  HostInv' /\ SavedInv'
        <3>1. /\ disk' = [disk EXCEPT ![host.dest] = Good(host.old)]
              /\ touched' = touched \ {host.dest} /\ UNCHANGED saved
            BY <2>3 DEF AtomicWriteState
        <3>2. host'.next.persisted /\ host'.next.data = host.old
            BY <1>1, <2>3 DEF HostState, Loaded
        <3>3. HostInv'
            BY <1>1, <2>1, <3>1, <3>2 DEF HostInv
        <3>4. saved[host.dest] = {}
            BY <1>1, <1>2 DEF Migrate, GateInv, HostInv, SavedInv, AckedEditsKept
        <3>5. SavedInv'
            BY <1>1, <3>1, <3>4 DEF GateInv, SavedInv, AckedEditsKept
        <3> QED
            BY <3>3, <3>5
    <2>4. ASSUME UNCHANGED stateVars, host' = [host EXCEPT !.pc = "config"]
          PROVE  HostInv' /\ SavedInv'
        <3>1. host'.next = host.next
            BY <1>1, <2>4 DEF HostState
        <3>2. HostInv'
            BY <1>1, <2>1, <2>4, <3>1 DEF HostInv, stateVars
        <3>3. SavedInv'
            BY <2>4 DEF GateInv, SavedInv, AckedEditsKept, stateVars
        <3> QED
            BY <3>2, <3>3
    <2>5. HostInv' /\ SavedInv'
        BY <1>2, <2>3, <2>4 DEF Migrate
    <2> QED
        BY <1>1, <2>1, <2>2, <2>5, GateOneHost
<1>3. CASE SwapConfig
    <2>1. /\ UNCHANGED <<disk, saved, touched, mutex>> /\ file' = host.dest
          /\ host'.pc = "holder" /\ host'.dest = host.dest /\ host'.next = host.next
        BY <1>1, <1>3 DEF SwapConfig, HostState
    <2>2. HostInv' /\ SavedInv'
        BY <1>1, <2>1 DEF GateInv, HostInv, SavedInv, AckedEditsKept
    <2>3. LiveInv'
        BY <1>1, <2>1 DEF LiveInv, Settled
    <2> QED
        BY <1>1, <2>1, <2>2, <2>3, GateOneHost
<1>4. CASE SwapHolder
    <2>1. /\ UNCHANGED <<disk, file, saved, touched>> /\ mutex' = Free /\ holder' = host.next
          /\ host'.pc = "idle" /\ host.pc = "holder"
        BY <1>4 DEF SwapHolder, IdleHost
    <2>2. HostInv' /\ SavedInv'
        BY <2>1 DEF GateInv, HostInv, SavedInv, AckedEditsKept
    <2>3. file = host.dest
        BY <1>1, <2>1 DEF HostInv
    <2>4. LiveInv'
        BY <1>1, <2>1, <2>3 DEF LiveInv, HostInv, GateInv, SavedInv, AckedEditsKept
    <2> QED
        BY <1>1, <2>1, <2>2, <2>4, GateOneHost
<1> QED
    BY <1>2, <1>3, <1>4

LEMMA GateAround ==
    ASSUME GateInv, (\E f \in Files : Edit(f)) \/ Midnight \/ Crash \/ UNCHANGED vars
    PROVE  GateParts
<1>1. ASSUME NEW f \in Files, Edit(f) PROVE GateParts
    <2>1. PICK new : disk' = [disk EXCEPT ![f] = new]
        BY <1>1 DEF Edit, Tamper
    <2>2. /\ saved' = [saved EXCEPT ![f] = {}] /\ touched' = touched \cup {f}
          /\ UNCHANGED <<file, holder, up, mutex, admin, host>>
        BY <1>1 DEF Edit, Tamper, around
    <2>3. /\ disk \in [Files -> StateFile] /\ saved \in [Files -> Data] /\ file \in Files
        BY DEF GateInv, TypeInv, TypeOK, StateTypeOK
    <2>4. /\ \A g \in Files : g \notin touched' => disk'[g] = disk[g] /\ saved'[g] = saved[g]
          /\ \A g \in Files : saved'[g] # {} => g # f /\ disk'[g] = disk[g] /\ saved'[g] = saved[g]
          /\ \A g \in touched' : g \in Files => saved'[g] = {}
        BY <2>1, <2>2, <2>3 DEF GateInv, SavedInv
    <2>5. Exclusive'
        BY <2>2 DEF GateInv, Exclusive, Working
    <2>6. \A a \in Admins : EditInv(a)'
        BY <2>2, <2>3, <2>4 DEF GateInv, EditInv, Working
    <2>7. HostInv'
        BY <2>2, <2>4 DEF GateInv, TypeInv, HostInv
    <2>8. LiveInv'
        BY <2>2, <2>3, <2>4 DEF GateInv, LiveInv, Settled
    <2>9. SavedInv'
        <3>1. touched' \subseteq Files
            BY <2>2 DEF GateInv, TypeInv, TypeOK, StateTypeOK
        <3> QED
            BY <2>4, <3>1 DEF GateInv, SavedInv, AckedEditsKept
    <2> QED
        BY <2>5, <2>6, <2>7, <2>8, <2>9 DEF GateParts
<1>2. CASE Crash
    <2>1. /\ mutex' = Free /\ up' = FALSE /\ \A a \in Admins : admin'[a].pc = "idle"
          /\ host'.pc = "idle" /\ ~holder'.persisted /\ UNCHANGED <<disk, saved, touched>>
        BY <1>2 DEF Crash, IdleAdmin, IdleHost, Seed
    <2>2. Exclusive'
        BY <2>1, GateAssumption DEF Exclusive, Working
    <2>3. (\A a \in Admins : EditInv(a)') /\ HostInv' /\ LiveInv'
        BY <2>1 DEF EditInv, Working, HostInv, LiveInv
    <2>4. SavedInv'
        BY <2>1 DEF GateInv, SavedInv, AckedEditsKept
    <2> QED
        BY <2>2, <2>3, <2>4 DEF GateParts
<1>3. CASE Midnight \/ UNCHANGED vars
    <2>1. UNCHANGED <<stateVars, up, mutex, admin, host>>
        BY <1>3 DEF Midnight, around, vars
    <2> QED
        BY <2>1
        DEF GateInv, GateParts, Exclusive, EditInv, HostInv, LiveInv, SavedInv, AckedEditsKept,
            Settled, Working, stateVars
<1> QED
    BY <1>1, <1>2, <1>3

LEMMA GateStep == GateInv /\ [Next]_vars => GateInv'
<1> SUFFICES ASSUME GateInv, [Next]_vars PROVE GateParts
    BY TypeStep DEF GateInv, GateParts
<1> QED
    BY GateBegin, GateLocate, GatePersist, GateSwap, GateFinish, GateReconfigure, GateHost,
       GateAround DEF Next

\* What a request was told is saved stays in its file, through later saves, path
\* changes, migrations and crashes, unless the operator changes the file.
THEOREM SavesAreKept == Spec => []AckedEditsKept
<1>1. GateInv => AckedEditsKept
    BY DEF GateInv, SavedInv
<1> QED
    BY <1>1, GateInit, GateStep, PTL DEF Spec

\* Between two calls the live state is what the loaded configuration's file holds.
THEOREM StateIsOnDisk == Spec => []LiveIsOnDisk
<1>1. ASSUME GateInv PROVE LiveIsOnDisk
    <2> SUFFICES ASSUME mutex = Free PROVE Settled
        BY <1>1 DEF LiveIsOnDisk, GateInv, LiveInv
    <2> QED
        BY <1>1, GateAssumption DEF GateInv, Exclusive, Settled, Working
<1> QED
    BY <1>1, GateInit, GateStep, PTL DEF Spec

\* The key bindings are given up only for a file that is absent, unusable or was
\* just changed.
THEOREM KeysAreKept == Spec => KeyLayerKept
<1> DEFINE Step == up /\ up' /\ holder.persisted /\ ~holder'.persisted =>
                     disk[file].kind # "good" \/ file \in touched
<1>1. ASSUME GateInv, [Next]_vars PROVE Step
    <2>1. CASE SwapHolder
        <3>1. holder' = host.next /\ host.pc = "holder"
            BY <2>1 DEF SwapHolder
        <3> QED
            BY <1>1, <3>1 DEF GateInv, HostInv
    <2>2. CASE Crash
        BY <2>2 DEF Crash
    <2>3. ASSUME NEW a \in Admins, Swap(a) PROVE Step
        BY <2>3 DEF Swap, Loaded
    <2>4. ASSUME UNCHANGED holder PROVE Step
        BY <2>4
    <2>5. ASSUME NEW a \in Admins, Begin(a) \/ Locate(a) \/ Persist(a) \/ Rename(a) \/ Finish(a)
          PROVE  Step
        BY <2>4, <2>5 DEF Begin, Locate, Persist, Rename, Finish, stateVars
    <2>6. ASSUME NEW f \in Files, Reconfigure(f) \/ Edit(f) PROVE Step
        BY <2>4, <2>6 DEF Reconfigure, SetAside, LeaveInPlace, Edit, Tamper
    <2>7. CASE Migrate \/ SwapConfig \/ Midnight \/ UNCHANGED vars
        BY <2>4, <2>7 DEF Migrate, SwapConfig, Midnight, stateVars, vars
    <2> QED
        BY <1>1, <2>1, <2>2, <2>3, <2>5, <2>6, <2>7 DEF Next
<1> QED
    BY <1>1, GateInit, GateStep, PTL DEF Spec, KeyLayerKept

-----------------------------------------------------------------------------
(* The journal.  An operation at work has a start line and no finish, in   *)
(* whole or in part; a finish, once it is in a file, is true for good,     *)
(* since an identifier is given out once.                                  *)

OpInv(a) ==
    Working(a) =>
        /\ admin[a].op < nextOp
        /\ StartOf(admin[a].op) \in journal[admin[a].ticket].lines
        /\ \A f \in JournalFiles : /\ \A e \in Recorded(f) : e.op = admin[a].op => e.phase = "start"
                                   /\ <<admin[a].op, f>> \notin auditUnconfirmed
        /\ \A r \in answers : r.op # admin[a].op
        /\ admin[a].pc \in {"run", "write"} => admin[a].op \notin effects
        /\ admin[a].pc = "swap" => admin[a].op \in effects
        /\ admin[a].pc = "finish" =>
             /\ admin[a].outcome = "succeeded" => admin[a].op \in effects
             /\ admin[a].outcome = "failed" => admin[a].op \notin effects

FinishesAreTrue ==
    \A f \in JournalFiles : \A e \in Recorded(f) :
        /\ e.op < nextOp
        /\ e.phase = "finish" => /\ e.outcome = "succeeded" => e.op \in effects
                                 /\ e.outcome = "failed" => e.op \notin effects

EffectsAreStarted ==
    \A op \in effects : /\ op < nextOp
                        /\ \E f \in JournalFiles : StartOf(op) \in journal[f].lines

TablesAreTrue ==
    \A op \in Ops, f \in JournalFiles :
        /\ <<op, f>> \in auditUnconfirmed => op < nextOp
        /\ <<op, f>> \in auditRunning =>
             \E a \in Admins : Working(a) /\ admin[a].op = op /\ admin[a].ticket = f

\* Where and how the journal shows what a request was told.
Shown(r, f) ==
    /\ StartOf(r.op) \in journal[f].lines
    /\ ~r.recorded => <<r.op, f>> \in auditUnconfirmed
    /\ r.recorded =>
         /\ <<r.op, f>> \notin auditUnconfirmed
         /\ FinishOf(r.op, r.outcome) \in journal[f].lines
         /\ \A e \in Recorded(f) : e.op = r.op /\ e.phase = "finish" => e.outcome = r.outcome

AnswersAreShown ==
    \A r \in answers : r.op < nextOp /\ \E f \in JournalFiles : Shown(r, f)

AuditInv == /\ GateInv
            /\ \A a \in Admins : OpInv(a)
            /\ FinishesAreTrue /\ EffectsAreStarted /\ TablesAreTrue /\ AnswersAreShown

AuditParts == /\ \A a \in Admins : OpInv(a)'
              /\ FinishesAreTrue' /\ EffectsAreStarted' /\ TablesAreTrue' /\ AnswersAreShown'

LEMMA AuditInit == Init => AuditInv
<1> SUFFICES ASSUME Init PROVE AuditInv
    OBVIOUS
<1>1. \A a \in Admins : admin[a].pc = "idle"
    BY DEF Init, IdleAdmin
<1>2. /\ \A f \in JournalFiles : Recorded(f) = {}
      /\ auditRunning = {} /\ auditUnconfirmed = {} /\ effects = {} /\ answers = {}
    BY DEF Init, JournalInit, Recorded
<1> QED
    BY <1>1, <1>2, GateInit
    DEF AuditInv, OpInv, Working, FinishesAreTrue, EffectsAreStarted, TablesAreTrue, AnswersAreShown

LEMMA EventFields ==
    ASSUME NEW op, NEW out
    PROVE  /\ StartOf(op).op = op /\ StartOf(op).phase = "start"
           /\ FinishOf(op, out).op = op /\ FinishOf(op, out).phase = "finish"
           /\ FinishOf(op, out).outcome = out
BY DEF StartOf, FinishOf

LEMMA AuditTypes ==
    ASSUME AuditInv
    PROVE  /\ JournalTypeOK /\ nextOp \in Nat /\ effects \subseteq Ops /\ answers \subseteq Answer
           /\ Ops \subseteq Nat
           /\ \A a \in Admins : Working(a) => /\ admin[a].op \in Ops /\ admin[a].op \in Nat
                                              /\ admin[a].ticket \in JournalFiles
           /\ \A f \in JournalFiles : /\ journal[f].lines \subseteq Recorded(f)
                                      /\ \A e \in Recorded(f) : e.op \in Ops
<1>1. TypeInv /\ TypeOK /\ JournalTypeOK
    BY DEF AuditInv, GateInv, TypeInv, TypeOK
<1>2. ASSUME NEW f \in JournalFiles
      PROVE  journal[f].lines \subseteq Recorded(f) /\ \A e \in Recorded(f) : e.op \in Ops
    <2>1. journal[f] \in JournalFile
        BY <1>1 DEF JournalTypeOK
    <2>2. Recorded(f) \subseteq Event
        BY <2>1 DEF JournalFile, Recorded
    <2>3. \A e \in Event : e.op \in Ops
        BY DEF Event
    <2> QED
        BY <2>2, <2>3 DEF Recorded
<1>3. nextOp \in Nat /\ Ops \subseteq Nat
    BY <1>1, OpsAre DEF TypeOK
<1>4. \A a \in Admins : Working(a) => admin[a].op \in Ops /\ admin[a].ticket \in JournalFiles
    BY <1>1 DEF TypeInv
<1>5. effects \subseteq Ops /\ answers \subseteq Answer
    BY <1>1 DEF TypeOK
<1> QED
    BY <1>1, <1>2, <1>3, <1>4, <1>5

LEMMA AuditBegin ==
    ASSUME AuditInv, NEW a \in Admins, Begin(a)
    PROVE  AuditParts
<1> DEFINE file0 == <<Dir[file], day>>
           e0 == StartOf(nextOp)
<1>1. PICK result \in AppendResults :
        /\ BeginAudit(nextOp, file0, result)
        /\ IF result = "written"
           THEN admin' = [admin EXCEPT ![a] =
                            [IdleAdmin EXCEPT !.pc = "run", !.op = nextOp, !.ticket = file0]]
           ELSE UNCHANGED admin
    BY DEF Begin
<1>2. /\ nextOp \in Ops /\ nextOp' = nextOp + 1 /\ nextOp \in Nat
      /\ UNCHANGED <<effects, answers>> /\ admin[a].pc = "idle"
      /\ admin \in [Admins -> AdminState]
    BY AuditTypes DEF Begin, AuditInv, GateInv, TypeInv, TypeOK
<1>3. file0 \in JournalFiles
    BY <1>2, GateAssumption
    DEF AuditInv, GateInv, TypeInv, TypeOK, StateTypeOK, JournalFiles
<1>4. /\ \A g \in JournalFiles : /\ journal[g].lines \subseteq journal'[g].lines
                                 /\ Recorded(g)' \subseteq Recorded(g) \cup {e0}
      /\ result = "written" => e0 \in journal'[file0].lines
    BY <1>1, <1>2, <1>3, AuditTypes, EventsAre, AppendAdds DEF BeginAudit
<1>5. /\ UNCHANGED auditUnconfirmed
      /\ auditRunning' = IF result = "written" THEN auditRunning \cup {<<nextOp, file0>>}
                         ELSE auditRunning
    BY <1>1 DEF BeginAudit
<1>6. e0.op = nextOp /\ e0.phase = "start"
    BY EventFields
<1>7. \A n \in Nat : n < nextOp => n < nextOp'
    BY <1>2
<1>8. ASSUME NEW b \in Admins, b # a \/ result # "written" PROVE OpInv(b)'
    <2>1. admin'[b] = admin[b]
        <3>1. CASE result = "written"
            <4>1. /\ b # a
                  /\ admin' = [admin EXCEPT ![a] =
                                 [IdleAdmin EXCEPT !.pc = "run", !.op = nextOp, !.ticket = file0]]
                BY <1>1, <1>8, <3>1
            <4> HIDE DEF file0
            <4> QED
                BY <1>2, <4>1
        <3>2. CASE result # "written"
            BY <1>1, <3>2
        <3> QED
            BY <3>1, <3>2
    <2>2. CASE Working(b)
        <3>1. OpInv(b) /\ admin[b].op \in Nat /\ admin[b].ticket \in JournalFiles
            BY <2>2, AuditTypes DEF AuditInv
        <3>2. admin[b].op < nextOp' /\ e0.op # admin[b].op
            BY <1>2, <1>6, <1>7, <2>2, <3>1 DEF OpInv
        <3> QED
            BY <1>2, <1>4, <1>5, <1>6, <2>1, <2>2, <3>1, <3>2 DEF OpInv, Working
    <2>3. CASE ~Working(b)
        BY <2>1, <2>3 DEF OpInv, Working
    <2> QED
        BY <2>2, <2>3
<1>9. ASSUME result = "written" PROVE OpInv(a)'
    <2>1. admin'[a].pc = "run" /\ admin'[a].op = nextOp /\ admin'[a].ticket = file0
        BY <1>1, <1>2, <1>9 DEF IdleAdmin
    <2>2. /\ \A g \in JournalFiles : \A e \in Recorded(g) : e.op # nextOp
          /\ \A op \in effects : op # nextOp
          /\ \A r \in answers : r.op # nextOp
          /\ \A g \in JournalFiles : <<nextOp, g>> \notin auditUnconfirmed
        BY <1>2 DEF AuditInv, FinishesAreTrue, EffectsAreStarted, TablesAreTrue, AnswersAreShown
    <2>3. nextOp < nextOp'
        BY <1>2
    <2> QED
        BY <1>2, <1>3, <1>4, <1>5, <1>6, <1>9, <2>1, <2>2, <2>3 DEF OpInv
<1>10. FinishesAreTrue'
    <2> SUFFICES ASSUME NEW f \in JournalFiles, NEW e \in Recorded(f)'
                 PROVE  /\ e.op < nextOp'
                        /\ e.phase = "finish" =>
                             /\ e.outcome = "succeeded" => e.op \in effects
                             /\ e.outcome = "failed" => e.op \notin effects
        BY <1>2 DEF FinishesAreTrue
    <2>1. CASE e = e0
        BY <1>2, <1>6, <2>1
    <2>2. CASE e \in Recorded(f)
        BY <1>2, <1>7, <2>2, AuditTypes DEF AuditInv, FinishesAreTrue
    <2> QED
        BY <1>4, <2>1, <2>2
<1>11. EffectsAreStarted'
    BY <1>2, <1>4, <1>7, AuditTypes DEF AuditInv, EffectsAreStarted
<1>12. TablesAreTrue'
    <2> SUFFICES ASSUME NEW op \in Ops, NEW f \in JournalFiles
                 PROVE  /\ <<op, f>> \in auditUnconfirmed' => op < nextOp'
                        /\ <<op, f>> \in auditRunning' =>
                             \E b \in Admins : Working(b)' /\ admin'[b].op = op /\ admin'[b].ticket = f
        BY DEF TablesAreTrue
    <2>1. <<op, f>> \in auditUnconfirmed' => op < nextOp'
        BY <1>5, <1>7, AuditTypes DEF AuditInv, TablesAreTrue
    <2>2. ASSUME <<op, f>> \in auditRunning
          PROVE  \E b \in Admins : Working(b)' /\ admin'[b].op = op /\ admin'[b].ticket = f
        <3>1. PICK b \in Admins : Working(b) /\ admin[b].op = op /\ admin[b].ticket = f
            BY <2>2 DEF AuditInv, TablesAreTrue
        <3>2. admin'[b] = admin[b]
            BY <1>1, <1>2, <3>1 DEF Working
        <3> QED
            BY <3>1, <3>2 DEF Working
    <2>3. ASSUME result = "written", op = nextOp, f = file0
          PROVE  \E b \in Admins : Working(b)' /\ admin'[b].op = op /\ admin'[b].ticket = f
        <3>1. admin'[a].pc = "run" /\ admin'[a].op = nextOp /\ admin'[a].ticket = file0
            BY <1>1, <1>2, <2>3 DEF IdleAdmin
        <3> QED
            BY <2>3, <3>1 DEF Working
    <2> QED
        BY <1>5, <2>1, <2>2, <2>3
<1>13. AnswersAreShown'
    <2> SUFFICES ASSUME NEW r \in answers
                 PROVE  r.op < nextOp' /\ \E f \in JournalFiles : Shown(r, f)'
        BY <1>2 DEF AnswersAreShown
    <2>1. PICK f \in JournalFiles : Shown(r, f)
        BY DEF AuditInv, AnswersAreShown
    <2>2. r.op < nextOp /\ r.op \in Nat
        BY AuditTypes DEF AuditInv, AnswersAreShown, Answer
    <2>3. Shown(r, f)'
        BY <1>4, <1>5, <1>6, <2>1 DEF Shown
    <2> QED
        BY <1>7, <2>2, <2>3
<1> QED
    BY <1>8, <1>9, <1>10, <1>11, <1>12, <1>13 DEF AuditParts

\* A step of the operation at work that leaves the journal alone; at most its
\* own change takes place.
LEMMA AuditQuiet ==
    ASSUME AuditInv, NEW a \in Admins, Working(a), Working(a)',
           UNCHANGED <<journalVars, nextOp, answers>>,
           effects' \in {effects, effects \cup {admin[a].op}},
           \A b \in Admins \ {a} : admin'[b] = admin[b],
           admin'[a].op = admin[a].op, admin'[a].ticket = admin[a].ticket,
           admin'[a].pc \in {"run", "write"} => admin[a].op \notin effects',
           admin'[a].pc = "swap" => admin[a].op \in effects',
           admin'[a].pc = "finish" =>
             /\ admin'[a].outcome = "succeeded" => admin[a].op \in effects'
             /\ admin'[a].outcome = "failed" => admin[a].op \notin effects'
    PROVE  AuditParts
<1>1. /\ \A b \in Admins \ {a} : ~Working(b) /\ ~Working(b)'
      /\ \A f \in JournalFiles : Recorded(f)' = Recorded(f) /\ journal'[f] = journal[f]
      /\ UNCHANGED <<journal, auditRunning, auditUnconfirmed>>
    BY Alone DEF AuditInv, Working, journalVars, Recorded
<1>2. OpInv(a) /\ admin[a].ticket \in JournalFiles
    BY AuditTypes DEF AuditInv
<1>3. \A b \in Admins : OpInv(b)'
    BY <1>1, <1>2 DEF OpInv
<1>4. FinishesAreTrue'
    <2> SUFFICES ASSUME NEW f \in JournalFiles, NEW e \in Recorded(f)
                 PROVE  /\ e.op < nextOp
                        /\ e.phase = "finish" => /\ e.outcome = "succeeded" => e.op \in effects'
                                                 /\ e.outcome = "failed" => e.op \notin effects'
        BY <1>1 DEF FinishesAreTrue
    <2>1. /\ e.op < nextOp
          /\ e.phase = "finish" => /\ e.outcome = "succeeded" => e.op \in effects
                                   /\ e.outcome = "failed" => e.op \notin effects
        BY DEF AuditInv, FinishesAreTrue
    <2>2. e.phase = "finish" => e.op # admin[a].op
        BY <1>2 DEF OpInv
    <2> QED
        BY <2>1, <2>2
<1>5. EffectsAreStarted'
    BY <1>1, <1>2 DEF AuditInv, EffectsAreStarted, OpInv
<1>6. TablesAreTrue'
    <2>1. ASSUME NEW b \in Admins, Working(b)
          PROVE  Working(b)' /\ admin'[b].op = admin[b].op /\ admin'[b].ticket = admin[b].ticket
        BY <1>1, <2>1
    <2> SUFFICES ASSUME NEW op \in Ops, NEW f \in JournalFiles
                 PROVE  /\ <<op, f>> \in auditUnconfirmed => op < nextOp
                        /\ <<op, f>> \in auditRunning =>
                             \E b \in Admins : Working(b)' /\ admin'[b].op = op /\ admin'[b].ticket = f
        BY <1>1 DEF TablesAreTrue
    <2> QED
        BY <2>1 DEF AuditInv, TablesAreTrue
<1>7. AnswersAreShown'
    <2> SUFFICES ASSUME NEW r \in answers
                 PROVE  r.op < nextOp /\ \E f \in JournalFiles : Shown(r, f)'
        BY DEF AnswersAreShown
    <2>1. r.op < nextOp
        BY DEF AuditInv, AnswersAreShown
    <2>2. PICK f \in JournalFiles : Shown(r, f)
        BY DEF AuditInv, AnswersAreShown
    <2>3. Shown(r, f)'
        BY <1>1, <2>2 DEF Shown
    <2> QED
        BY <2>1, <2>3
<1> QED
    BY <1>3, <1>4, <1>5, <1>6, <1>7 DEF AuditParts

LEMMA AuditWork ==
    ASSUME AuditInv, NEW a \in Admins, Locate(a) \/ Persist(a) \/ Swap(a) \/ Rename(a)
    PROVE  AuditParts
<1> DEFINE mine == admin[a]
<1>1. /\ admin \in [Admins -> AdminState] /\ mine \in AdminState /\ Working(a)
      /\ UNCHANGED <<journalVars, nextOp, answers>> /\ OpInv(a)
    BY DEF AuditInv, GateInv, TypeInv, TypeOK, Locate, Persist, Swap, Rename, Working
<1>2. CASE Locate(a)
    <2>1. /\ admin'[a].pc = "write" /\ admin'[a].op = mine.op /\ admin'[a].ticket = mine.ticket
          /\ \A b \in Admins \ {a} : admin'[b] = admin[b]
          /\ UNCHANGED effects /\ mine.op \notin effects
        BY <1>1, <1>2 DEF Locate, AdminState, OpInv
    <2> QED
        BY <1>1, <2>1, AuditQuiet DEF Working
<1>3. CASE Persist(a)
    <2>1. mine.pc = "write" /\ mine.op \notin effects
        BY <1>1, <1>3 DEF Persist, OpInv
    <2>2. CASE /\ effects' = effects \cup {mine.op}
               /\ admin' = [admin EXCEPT ![a] = [@ EXCEPT !.pc = "swap",
                                                          !.data = holder.data \cup {mine.op}]]
        <3>1. /\ admin'[a].pc = "swap" /\ admin'[a].op = mine.op /\ admin'[a].ticket = mine.ticket
              /\ \A b \in Admins \ {a} : admin'[b] = admin[b]
            BY <1>1, <2>2 DEF AdminState
        <3> QED
            BY <1>1, <2>2, <3>1, AuditQuiet DEF Working
    <2>3. CASE /\ admin' = [admin EXCEPT ![a] = [@ EXCEPT !.pc = "finish", !.outcome = "failed"]]
               /\ UNCHANGED effects
        <3>1. /\ admin'[a].pc = "finish" /\ admin'[a].outcome = "failed"
              /\ admin'[a].op = mine.op /\ admin'[a].ticket = mine.ticket
              /\ \A b \in Admins \ {a} : admin'[b] = admin[b]
            BY <1>1, <2>3 DEF AdminState
        <3> QED
            BY <1>1, <2>1, <2>3, <3>1, AuditQuiet DEF Working
    <2> QED
        BY <1>3, <2>2, <2>3 DEF Persist
<1>4. CASE Swap(a)
    <2>1. /\ admin'[a].pc = "finish" /\ admin'[a].outcome = "succeeded"
          /\ admin'[a].op = mine.op /\ admin'[a].ticket = mine.ticket
          /\ \A b \in Admins \ {a} : admin'[b] = admin[b]
          /\ UNCHANGED effects /\ mine.op \in effects
        BY <1>1, <1>4 DEF Swap, AdminState, OpInv
    <2> QED
        BY <1>1, <2>1, AuditQuiet DEF Working
<1>5. CASE Rename(a)
    <2>1. PICK done \in BOOLEAN, told \in BOOLEAN :
            /\ effects' = IF done THEN effects \cup {mine.op} ELSE effects
            /\ admin' = [admin EXCEPT ![a] =
                           [@ EXCEPT !.pc = "finish",
                                     !.outcome = IF ~told THEN "unknown"
                                                 ELSE IF done THEN "succeeded"
                                                 ELSE "failed"]]
        BY <1>5 DEF Rename
    <2>2. mine.op \notin effects
        BY <1>1, <1>5 DEF Rename, OpInv
    <2>3. /\ admin'[a].pc = "finish" /\ admin'[a].op = mine.op /\ admin'[a].ticket = mine.ticket
          /\ \A b \in Admins \ {a} : admin'[b] = admin[b]
          /\ admin'[a].outcome = IF ~told THEN "unknown" ELSE IF done THEN "succeeded" ELSE "failed"
        BY <1>1, <2>1 DEF AdminState
    <2>4. CASE done
        BY <1>1, <2>1, <2>3, <2>4, AuditQuiet DEF Working
    <2>5. CASE ~done
        BY <1>1, <2>1, <2>2, <2>3, <2>5, AuditQuiet DEF Working
    <2> QED
        BY <2>4, <2>5
<1> QED
    BY <1>2, <1>3, <1>4, <1>5

LEMMA AuditFinish ==
    ASSUME AuditInv, NEW a \in Admins, Finish(a)
    PROVE  AuditParts
<1> DEFINE mine == admin[a]
<1>0. PICK f0 \in JournalFiles, e0 \in Event :
        f0 = mine.ticket /\ e0 = FinishOf(mine.op, mine.outcome)
    <2>1. mine.ticket \in JournalFiles /\ mine.op \in Ops
        BY AuditTypes DEF Finish, Working
    <2>2. mine.outcome \in Outcomes
        BY DEF AuditInv, GateInv, TypeInv, TypeOK, AdminState
    <2> QED
        BY <2>1, <2>2, EventsAre
<1>1. PICK result \in AppendResults :
        /\ FinishAudit(mine.op, f0, mine.outcome, result)
        /\ answers' = answers \cup {[op |-> mine.op, outcome |-> mine.outcome,
                                     recorded |-> result = "written"]}
    BY <1>0 DEF Finish
<1>2. /\ Working(a) /\ OpInv(a) /\ mine.pc = "finish" /\ mine.op \in Ops /\ f0 \in JournalFiles
      /\ admin \in [Admins -> AdminState] /\ mine \in AdminState
      /\ UNCHANGED <<nextOp, effects>>
    BY <1>0, AuditTypes DEF Finish, Working, AuditInv, GateInv, TypeInv, TypeOK
<1>3. \A b \in Admins : ~Working(b)'
    BY <1>2, Alone DEF Finish, IdleAdmin, Working, AuditInv
<1>4. /\ \A g \in JournalFiles : /\ journal[g].lines \subseteq journal'[g].lines
                                 /\ Recorded(g)' \subseteq Recorded(g) \cup {e0}
      /\ result = "written" => e0 \in journal'[f0].lines
    <2>1. e0 \in Event
        BY <1>0, <1>2, EventsAre DEF AdminState
    <2> QED
        BY <1>0, <1>1, <1>2, <2>1, AuditTypes, AppendAdds DEF FinishAudit
<1>5. /\ auditRunning' = auditRunning \ {<<mine.op, f0>>}
      /\ auditUnconfirmed' = IF result = "written" THEN auditUnconfirmed
                             ELSE auditUnconfirmed \cup {<<mine.op, f0>>}
    BY <1>1 DEF FinishAudit
<1>6. e0.op = mine.op /\ e0.phase = "finish" /\ e0.outcome = mine.outcome
    BY <1>0, EventFields
<1>7. \A b \in Admins : OpInv(b)'
    BY <1>3 DEF OpInv
<1>8. FinishesAreTrue'
    BY <1>2, <1>4, <1>6 DEF AuditInv, FinishesAreTrue, OpInv
<1>9. EffectsAreStarted'
    BY <1>2, <1>4 DEF AuditInv, EffectsAreStarted
<1>10. TablesAreTrue'
    <2> SUFFICES ASSUME NEW op \in Ops, NEW f \in JournalFiles
                 PROVE  /\ <<op, f>> \in auditUnconfirmed' => op < nextOp
                        /\ <<op, f>> \notin auditRunning'
        BY <1>2 DEF TablesAreTrue
    <2>1. <<op, f>> \in auditUnconfirmed' => op < nextOp
        BY <1>2, <1>5 DEF AuditInv, TablesAreTrue, OpInv
    <2>2. ASSUME <<op, f>> \in auditRunning PROVE op = mine.op /\ f = f0
        <3>1. PICK b \in Admins : Working(b) /\ admin[b].op = op /\ admin[b].ticket = f
            BY <2>2 DEF AuditInv, TablesAreTrue
        <3> QED
            BY <1>0, <1>2, <3>1, Alone DEF AuditInv
    <2> QED
        BY <1>5, <2>1, <2>2
<1>11. AnswersAreShown'
    <2> SUFFICES ASSUME NEW r \in answers'
                 PROVE  r.op < nextOp /\ \E f \in JournalFiles : Shown(r, f)'
        BY <1>2 DEF AnswersAreShown
    <2>1. CASE r \in answers
        <3>1. PICK f \in JournalFiles : Shown(r, f)
            BY <2>1 DEF AuditInv, AnswersAreShown
        <3>2. r.op < nextOp /\ r.op # mine.op
            BY <1>2, <2>1 DEF AuditInv, AnswersAreShown, OpInv
        <3>3. Shown(r, f)'
            BY <1>4, <1>5, <1>6, <3>1, <3>2 DEF Shown
        <3> QED
            BY <3>2, <3>3
    <2>2. CASE r = [op |-> mine.op, outcome |-> mine.outcome, recorded |-> result = "written"]
        <3>1. r.op = mine.op /\ r.outcome = mine.outcome /\ (r.recorded <=> result = "written")
            BY <2>2
        <3>2. /\ StartOf(mine.op) \in journal'[f0].lines
              /\ \A e \in Recorded(f0) : e.op = mine.op => e.phase # "finish"
              /\ <<mine.op, f0>> \notin auditUnconfirmed
              /\ mine.op < nextOp
            BY <1>0, <1>2, <1>4 DEF OpInv
        <3>3. ~r.recorded => <<r.op, f0>> \in auditUnconfirmed'
            BY <1>5, <3>1
        <3>4. r.recorded =>
                /\ <<r.op, f0>> \notin auditUnconfirmed'
                /\ FinishOf(r.op, r.outcome) \in journal'[f0].lines
            BY <1>0, <1>4, <1>5, <3>1, <3>2
        <3>5. \A e \in Recorded(f0)' : e.op = r.op /\ e.phase = "finish" => e.outcome = r.outcome
            <4>1. Recorded(f0)' \subseteq Recorded(f0) \cup {e0}
                BY <1>2, <1>4
            <4> QED
                BY <1>6, <3>1, <3>2, <4>1
        <3>6. Shown(r, f0)'
            BY <3>1, <3>2, <3>3, <3>4, <3>5 DEF Shown
        <3>7. r.op < nextOp
            BY <3>1, <3>2
        <3> QED
            BY <1>2, <3>6, <3>7
    <2> QED
        BY <1>1, <2>1, <2>2
<1> QED
    BY <1>7, <1>8, <1>9, <1>10, <1>11 DEF AuditParts

LEMMA AuditOthers ==
    ASSUME AuditInv,
           \/ \E f \in Files : Reconfigure(f) \/ Edit(f)
           \/ Migrate \/ SwapConfig \/ SwapHolder \/ Midnight \/ Crash \/ UNCHANGED vars
    PROVE  AuditParts
<1>1. CASE Crash
    <2>1. /\ \A a \in Admins : ~Working(a)'
          /\ UNCHANGED <<journal, nextOp, effects>>
          /\ auditRunning' = {} /\ auditUnconfirmed' = {}
        BY <1>1 DEF Crash, ForgetAudit, IdleAdmin, Working
    <2>2. \A r \in answers' : r \in answers /\ r.recorded
        BY <1>1, Zenon DEF Crash
    <2>3. (\A a \in Admins : OpInv(a)') /\ FinishesAreTrue' /\ EffectsAreStarted' /\ TablesAreTrue'
        BY <2>1
        DEF AuditInv, OpInv, FinishesAreTrue, EffectsAreStarted, TablesAreTrue, Recorded
    <2>4. AnswersAreShown'
        <3> SUFFICES ASSUME NEW r \in answers'
                     PROVE  r.op < nextOp' /\ \E f \in JournalFiles : Shown(r, f)'
            BY DEF AnswersAreShown
        <3>1. PICK f \in JournalFiles : Shown(r, f)
            BY <2>2 DEF AuditInv, AnswersAreShown
        <3>2. Shown(r, f)'
            BY <2>1, <2>2, <3>1 DEF Shown, Recorded
        <3>3. r.op < nextOp
            BY <2>2 DEF AuditInv, AnswersAreShown
        <3> QED
            BY <2>1, <3>2, <3>3
    <2> QED
        BY <2>3, <2>4 DEF AuditParts
<1>2. CASE \/ \E f \in Files : Reconfigure(f) \/ Edit(f)
           \/ Migrate \/ SwapConfig \/ SwapHolder \/ Midnight \/ UNCHANGED vars
    <2>1. UNCHANGED <<journal, auditRunning, auditUnconfirmed, admin, nextOp, effects, answers>>
        BY <1>2 DEF Reconfigure, Edit, Migrate, SwapConfig, SwapHolder, Midnight, hostOnly, around,
                    vars, journalVars
    <2> QED
        BY <2>1
        DEF AuditInv, AuditParts, OpInv, Working, FinishesAreTrue, EffectsAreStarted,
            TablesAreTrue, AnswersAreShown, Shown, Recorded
<1> QED
    BY <1>1, <1>2

LEMMA AuditStep == AuditInv /\ [Next]_vars => AuditInv'
<1> SUFFICES ASSUME AuditInv, [Next]_vars PROVE AuditParts
    BY GateStep DEF AuditInv, AuditParts
<1> QED
    BY AuditBegin, AuditWork, AuditFinish, AuditOthers DEF Next

\* What the reader makes of a file.
LEMMA ReportedIs ==
    ASSUME AuditInv, NEW op \in Ops, NEW f \in JournalFiles
    PROVE  /\ Reported(op, f) = "absent" <=> StartOf(op) \notin journal[f].lines
           /\ Reported(op, f) = "running" => <<op, f>> \in auditRunning
           /\ Reported(op, f) \in {"succeeded", "failed"} =>
                \E e \in Recorded(f) : /\ e.op = op /\ e.phase = "finish"
                                       /\ e.outcome = Reported(op, f)
           /\ StartOf(op) \in journal[f].lines /\ <<op, f>> \in auditUnconfirmed =>
                Reported(op, f) = "unknown"
           /\ StartOf(op) \in journal[f].lines /\ <<op, f>> \notin auditUnconfirmed
                /\ Finishes(op, f) # {} =>
                \E e \in Finishes(op, f) : Reported(op, f) = e.outcome
<1> DEFINE chosen == CHOOSE e \in Finishes(op, f) : TRUE
<1>1. \A e \in Finishes(op, f) : /\ e \in Recorded(f) /\ e.op = op /\ e.phase = "finish"
                                 /\ e.outcome \in {"succeeded", "failed", "unknown"}
    <2>1. journal[f] \in JournalFile /\ journal[f].lines \subseteq Recorded(f)
        BY AuditTypes DEF JournalTypeOK
    <2>2. \A e \in Event : e.phase = "finish" => e.outcome \in {"succeeded", "failed", "unknown"}
        BY DEF Event, Outcomes
    <2> QED
        BY <2>1, <2>2 DEF Finishes, JournalFile
<1>2. Finishes(op, f) # {} => chosen \in Finishes(op, f)
    OBVIOUS
<1> HIDE DEF chosen
<1>3. Reported(op, f) =
        IF StartOf(op) \notin journal[f].lines THEN "absent"
        ELSE IF <<op, f>> \in auditUnconfirmed THEN "unknown"
        ELSE IF Finishes(op, f) # {} THEN chosen.outcome
        ELSE IF <<op, f>> \in auditRunning THEN "running" ELSE "unknown"
    BY DEF Reported, chosen
<1> QED
    BY <1>1, <1>2, <1>3

\* Every change that took place has its entry, whatever was lost of the journal's
\* other lines.
THEOREM EffectsAreReported == Spec => []EffectIsReported
<1>1. ASSUME AuditInv PROVE EffectIsReported
    BY <1>1, AuditTypes, ReportedIs DEF EffectIsReported, AuditInv, EffectsAreStarted
<1> QED
    BY <1>1, AuditInit, AuditStep, PTL DEF Spec

\* What the reader shows is true: of a success, of a failure, of a running operation.
THEOREM ReportsAreTrue == Spec => []ReportIsTrue
<1>1. ASSUME AuditInv PROVE ReportIsTrue
    <2> SUFFICES ASSUME NEW op \in Ops, NEW f \in JournalFiles
                 PROVE  /\ Reported(op, f) = "succeeded" => op \in effects
                        /\ Reported(op, f) = "failed" => op \notin effects
                        /\ Reported(op, f) = "running" =>
                              \E a \in Admins : admin[a].pc # "idle" /\ admin[a].op = op
        BY DEF ReportIsTrue
    <2>1. ASSUME Reported(op, f) \in {"succeeded", "failed"}
          PROVE  /\ Reported(op, f) = "succeeded" => op \in effects
                 /\ Reported(op, f) = "failed" => op \notin effects
        <3>1. PICK e \in Recorded(f) : /\ e.op = op /\ e.phase = "finish"
                                       /\ e.outcome = Reported(op, f)
            BY <1>1, <2>1, ReportedIs
        <3> QED
            BY <1>1, <3>1 DEF AuditInv, FinishesAreTrue
    <2>2. Reported(op, f) = "running" =>
            \E a \in Admins : admin[a].pc # "idle" /\ admin[a].op = op
        <3>1. Reported(op, f) = "running" => <<op, f>> \in auditRunning
            BY <1>1, ReportedIs
        <3> QED
            BY <1>1, <3>1 DEF AuditInv, TablesAreTrue, Working
    <2> QED
        BY <2>1, <2>2
<1> QED
    BY <1>1, AuditInit, AuditStep, PTL DEF Spec

\* What a request was told is what the journal shows from then on.
THEOREM AnswersMatch == Spec => []AnswerMatchesJournal
<1>1. ASSUME AuditInv PROVE AnswerMatchesJournal
    <2> SUFFICES ASSUME NEW r \in answers
                 PROVE  \E f \in JournalFiles :
                          Reported(r.op, f) = IF r.recorded THEN r.outcome ELSE "unknown"
        BY DEF AnswerMatchesJournal
    <2>1. PICK f \in JournalFiles : Shown(r, f)
        BY <1>1 DEF AuditInv, AnswersAreShown
    <2>2. r.op \in Ops /\ r.recorded \in BOOLEAN
        BY <1>1, AuditTypes DEF Answer
    <2>3. CASE r.recorded
        <3>1. FinishOf(r.op, r.outcome) \in Finishes(r.op, f)
            BY <2>1, <2>3, EventFields DEF Shown, Finishes
        <3>2. \A e \in Finishes(r.op, f) : e.outcome = r.outcome
            BY <2>1, <2>3 DEF Shown, Finishes, Recorded
        <3> QED
            BY <1>1, <2>1, <2>2, <2>3, <3>1, <3>2, ReportedIs DEF Shown
    <2>4. CASE ~r.recorded
        BY <1>1, <2>1, <2>2, <2>4, ReportedIs DEF Shown
    <2> QED
        BY <2>3, <2>4
<1> QED
    BY <1>1, AuditInit, AuditStep, PTL DEF Spec

=============================================================================
