------------------------------ MODULE JobLedger ------------------------------
(***************************************************************************)
(* What the notification service promises about its jobs, with no loop,    *)
(* clock, channel or configuration in sight: a job is issued once, waits,  *)
(* is handed to a sender at most once, and leaves a record unless another  *)
(* job took its place while it was in flight.  NotificationService         *)
(* implements this module (ImplementsJobLedger there).                     *)
(***************************************************************************)
EXTENDS Naturals

VARIABLES
    issued,     \* number of identifiers handed out, the naturals from 1
    waiting,    \* jobs a sender may still take
    inFlight,   \* jobs a sender has taken and nobody has settled
    armed,      \* jobs the current sender may call a platform for
    called,     \* jobs a platform has been called for
    recorded,   \* jobs with an outcome in the ledger
    lost        \* jobs whose row was given to another job in flight

Ids == 1..issued

ledgerVars == <<issued, waiting, inFlight, armed, called, recorded, lost>>

LedgerInit ==
    /\ issued = 0 /\ waiting = {} /\ inFlight = {}
    /\ armed = {} /\ called = {} /\ recorded = {} /\ lost = {}

\* A new job, possibly in the row of one that is in flight.
Issue(over) ==
    /\ over \subseteq inFlight
    /\ issued' = issued + 1
    /\ waiting' = waiting \cup {issued + 1}
    /\ inFlight' = inFlight \ over
    /\ lost' = lost \cup over
    /\ UNCHANGED <<armed, called, recorded>>

\* A sender takes waiting jobs; whatever it held before is dropped.
Take(S) ==
    /\ S \subseteq waiting
    /\ waiting' = waiting \ S
    /\ inFlight' = inFlight \cup S
    /\ armed' = S
    /\ UNCHANGED <<issued, called, recorded, lost>>

Withdraw(S) ==
    /\ S \subseteq waiting
    /\ waiting' = waiting \ S
    /\ UNCHANGED <<issued, inFlight, armed, called, recorded, lost>>

CallFor(id) ==
    /\ id \in armed
    /\ armed' = armed \ {id}
    /\ called' = called \cup {id}
    /\ UNCHANGED <<issued, waiting, inFlight, recorded, lost>>

\* The sender gives up jobs without a call: no identity, canceled, crashed.
Disarm(S) ==
    /\ S \subseteq armed
    /\ armed' = armed \ S
    /\ UNCHANGED <<issued, waiting, inFlight, called, recorded, lost>>

Settle(id) ==
    /\ id \in Ids
    /\ waiting' = waiting \ {id}
    /\ inFlight' = inFlight \ {id}
    /\ recorded' = recorded \cup {id}
    /\ UNCHANGED <<issued, armed, called, lost>>

\* A boot settles everything that was in flight.
RecoverAll ==
    /\ inFlight' = {}
    /\ recorded' = recorded \cup inFlight
    /\ UNCHANGED <<issued, waiting, armed, called, lost>>

LedgerNext ==
    \/ \E over \in SUBSET inFlight : Issue(over)
    \/ \E S \in SUBSET waiting : Take(S) \/ Withdraw(S)
    \/ \E id \in armed : CallFor(id)
    \/ \E S \in SUBSET armed : Disarm(S)
    \/ \E id \in Ids : Settle(id)
    \/ RecoverAll

LedgerSpec == LedgerInit /\ [][LedgerNext]_ledgerVars

\* The promise: a job once called for is never armed again, and its outcome is
\* recorded, still in flight, or lost with its row.
LedgerInv ==
    /\ issued \in Nat
    /\ waiting \cup inFlight \cup armed \cup called \cup lost \subseteq Ids
    /\ waiting \cap (armed \cup called) = {}
    /\ armed \cap called = {}
    /\ armed \cup called \subseteq inFlight \cup recorded \cup lost
=============================================================================
