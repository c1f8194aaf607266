----------------------------- MODULE AuditJournal -----------------------------
(***************************************************************************)
(* The append-only audit journal (audit.go) and its reader                  *)
(* (audit_query.go).  One file per directory and day; an operation writes   *)
(* a start line before it runs and a finish line, in the same file, after.  *)
(* An append may fail at any byte: nothing written, a torn line, a line     *)
(* that lacks only its newline, or a whole line that could not be synced.   *)
(* Changed fields, labels and redaction are left out.                       *)
(***************************************************************************)
EXTENDS Integers

CONSTANTS
    Dirs,       \* directories of the state files
    MaxDay,     \* bound: the last day of the modelled calendar
    MaxOps      \* bound: how many operations are submitted

ASSUME JournalAssumption == MaxDay \in Nat /\ MaxOps \in Nat

VARIABLES
    journal,        \* the files
    auditRunning,   \* operations this process has begun and not finished
    auditUnconfirmed\* operations whose finish this process could not confirm

journalVars == <<journal, auditRunning, auditUnconfirmed>>

Ops          == 1..MaxOps
JournalFiles == Dirs \X (0..MaxDay)
Outcomes     == {"succeeded", "failed", "unknown"}
Event        == [op: Ops, phase: {"start"}, outcome: {"none"}]
                \cup [op: Ops, phase: {"finish"}, outcome: Outcomes]

StartOf(op)       == [op |-> op, phase |-> "start", outcome |-> "none"]
FinishOf(op, out) == [op |-> op, phase |-> "finish", outcome |-> out]

\* lines: the events on complete lines; tail: the event, if any, whose newline
\* is missing; ended: whether the file is empty or ends with a newline.
JournalFile == [lines: SUBSET Event, tail: SUBSET Event, ended: BOOLEAN]

AppendResults == {"written", "refused", "torn", "unended", "unsynced"}

JournalTypeOK ==
    /\ journal \in [JournalFiles -> JournalFile]
    /\ auditRunning \in SUBSET (Ops \X JournalFiles)
    /\ auditUnconfirmed \in SUBSET (Ops \X JournalFiles)

JournalInit ==
    /\ journal = [f \in JournalFiles |-> [lines |-> {}, tail |-> {}, ended |-> TRUE]]
    /\ auditRunning = {}
    /\ auditUnconfirmed = {}

-----------------------------------------------------------------------------
\* Mutant of WithLines: no separator, so a new line joins an unended one and
\* neither can be decoded.
WithLinesJoined(file, new) == IF file.ended THEN file.lines \cup new ELSE file.lines

\* A partial tail is ended by the newline that goes in front of the next event.
WithLines(file, new) == file.lines \cup file.tail \cup new

\* What appendAuditEvent leaves in the file; only "written" returns no error.
AppendEvent(f, e, result) ==
    LET file == journal[f]
        after ==
            CASE result = "refused" -> file
              [] result = "torn" ->
                   [lines |-> WithLines(file, {}), tail |-> {}, ended |-> FALSE]
              [] result = "unended" ->
                   [lines |-> WithLines(file, {}), tail |-> {e}, ended |-> FALSE]
              [] result \in {"written", "unsynced"} ->
                   [lines |-> WithLines(file, {e}), tail |-> {}, ended |-> TRUE]
    IN  journal' = [journal EXCEPT ![f] = after]

BeginAudit(op, f, result) ==
    /\ AppendEvent(f, StartOf(op), result)
    /\ auditRunning' = IF result = "written" THEN auditRunning \cup {<<op, f>>}
                       ELSE auditRunning
    /\ UNCHANGED auditUnconfirmed

\* Mutants of FinishAudit: a failed finish leaves the operation running; an
\* unsynced finish counts as confirmed.
FinishAuditLeaking(op, f, out, result) ==
    /\ AppendEvent(f, FinishOf(op, out), result)
    /\ auditRunning' = IF result = "written" THEN auditRunning \ {<<op, f>>}
                       ELSE auditRunning
    /\ auditUnconfirmed' = auditUnconfirmed

FinishAuditTrusting(op, f, out, result) ==
    /\ AppendEvent(f, FinishOf(op, out), result)
    /\ auditRunning' = auditRunning \ {<<op, f>>}
    /\ auditUnconfirmed' = IF result \in {"written", "unsynced"} THEN auditUnconfirmed
                           ELSE auditUnconfirmed \cup {<<op, f>>}

FinishAudit(op, f, out, result) ==
    /\ AppendEvent(f, FinishOf(op, out), result)
    /\ auditRunning' = auditRunning \ {<<op, f>>}
    /\ auditUnconfirmed' = IF result = "written" THEN auditUnconfirmed
                           ELSE auditUnconfirmed \cup {<<op, f>>}

\* A new process starts with neither table.
ForgetAudit ==
    /\ auditRunning' = {} /\ auditUnconfirmed' = {}
    /\ UNCHANGED journal

-----------------------------------------------------------------------------
Finishes(op, f) == {e \in journal[f].lines : e.op = op /\ e.phase = "finish"}

\* The outcome the reader shows for an operation in one file; "absent" when
\* the file holds no start line of it (a finish line alone is an orphan).
Reported(op, f) ==
    IF StartOf(op) \notin journal[f].lines THEN "absent"
    ELSE IF <<op, f>> \in auditUnconfirmed THEN "unknown"
    ELSE IF Finishes(op, f) # {} THEN (CHOOSE e \in Finishes(op, f) : TRUE).outcome
    ELSE IF <<op, f>> \in auditRunning THEN "running" ELSE "unknown"

=============================================================================
