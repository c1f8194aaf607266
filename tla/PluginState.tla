------------------------------ MODULE PluginState ------------------------------
(***************************************************************************)
(* The plugin's state file and the live state loaded from it (state.go,    *)
(* main.go).  A state is abstracted to the set of edits it contains, 0     *)
(* standing for what the operator put there by hand; the YAML seed is the  *)
(* empty set.  A file is absent, good, or unusable: "invalid" when it      *)
(* parses and fails validation, "garbled" when it does not parse or has an *)
(* unsupported version.                                                    *)
(***************************************************************************)
EXTENDS Integers

CONSTANTS
    Files,          \* the paths state_file may name
    DefaultFile     \* the path in force before the first configuration

ASSUME StateAssumption == DefaultFile \in Files

VARIABLES
    disk,       \* the state files
    aside,      \* the <state_file>.corrupt files
    file,       \* the path of the loaded configuration
    holder,     \* the live state
    saved,      \* history: edits acknowledged as saved in a file
    touched     \* history: files the operator changed since the last write

stateVars == <<disk, aside, file, holder, saved, touched>>

Data      == SUBSET Nat
StateFile == [kind: {"none", "good", "invalid", "garbled"}, data: Data]
Holder    == [data: Data, persisted: BOOLEAN, loadError: BOOLEAN]

Absent   == [kind |-> "none", data |-> {}]
Good(d)  == [kind |-> "good", data |-> d]
Seed     == [data |-> {}, persisted |-> FALSE, loadError |-> FALSE]
Loaded(d) == [data |-> d, persisted |-> TRUE, loadError |-> FALSE]
Rejected == [data |-> {}, persisted |-> FALSE, loadError |-> TRUE]

\* What the operator may leave at a path: nothing, a state of his own, or a
\* damaged copy of what was there.
Tampered(f) == {Absent, Good({0})}
               \cup [kind: {"invalid", "garbled"}, data: {disk[f].data}]

StateTypeOK ==
    /\ disk \in [Files -> StateFile]
    /\ aside \in [Files -> SUBSET Data]
    /\ file \in Files
    /\ holder \in Holder
    /\ saved \in [Files -> Data]
    /\ touched \in SUBSET Files

StateInit ==
    /\ disk \in [Files -> {Absent, Good({0}), [kind |-> "invalid", data |-> {0}],
                           [kind |-> "garbled", data |-> {0}]}]
    /\ aside = [f \in Files |-> {}]
    /\ file = DefaultFile
    /\ holder = Seed
    /\ saved = [f \in Files |-> {}]
    /\ touched = Files

-----------------------------------------------------------------------------
\* The holder resolveState returns for a path.
Resolved(f) == CASE disk[f].kind = "good" -> Loaded(disk[f].data)
                 [] disk[f].kind = "none" -> Seed
                 [] OTHER                 -> Rejected

\* A file that fails validation is renamed, over an earlier one, when it can
\* be; one that does not parse stays where it is.
SetAside(f) ==
    /\ disk[f].kind = "invalid"
    /\ disk' = [disk EXCEPT ![f] = Absent]
    /\ aside' = [aside EXCEPT ![f] = {disk[f].data}]
    /\ UNCHANGED <<file, holder, saved, touched>>

LeaveInPlace(f) ==
    /\ touched' = IF disk[f].kind = "good" THEN touched \ {f} ELSE touched
    /\ UNCHANGED <<disk, aside, file, holder, saved>>

\* A temporary file is written, synced and renamed: all or nothing.
AtomicWriteState(f, data) ==
    /\ disk' = [disk EXCEPT ![f] = Good(data)]
    /\ touched' = touched \ {f}
    /\ UNCHANGED <<aside, saved>>

Tamper(f) ==
    /\ disk' \in {[disk EXCEPT ![f] = new] : new \in Tampered(f)}
    /\ saved' = [saved EXCEPT ![f] = {}]
    /\ touched' = touched \cup {f}
    /\ UNCHANGED <<aside, file, holder>>

=============================================================================
