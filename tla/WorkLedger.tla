---------------------------- MODULE WorkLedger ----------------------------
(***************************************************************************)
(* What the probe promises about the work it accepts, without tables,      *)
(* statuses or handlers: an assignment is accepted once, held, and then    *)
(* reported once, in a report that answers one work packet, with a verdict *)
(* that came from performing it.                                           *)
(***************************************************************************)
CONSTANTS Assignments,          \* records with at least a field workid
          Verdicts              \* the error conditions a measurement can end in

VARIABLES held,                 \* assignments accepted and not yet reported
          reported              \* [assignment, verdict] pairs sent back

ledgerVars == <<held, reported>>

LedgerTypeOK ==
    /\ held \subseteq Assignments
    /\ reported \subseteq [assignment : Assignments, verdict : Verdicts]

LedgerInit == held = {} /\ reported = {}

Answered == {r.assignment : r \in reported}

Accept(a) ==
    /\ a \notin held \cup Answered
    /\ held' = held \cup {a}
    /\ UNCHANGED reported

Report(R) ==
    /\ \A r \in R : r.assignment \in held /\ r.verdict \in Verdicts
    /\ \A r, s \in R : /\ r.assignment.workid = s.assignment.workid
                       /\ r.assignment = s.assignment => r = s
    /\ held' = held \ {r.assignment : r \in R}
    /\ reported' = reported \cup R

LedgerNext ==
    \/ \E a \in Assignments : Accept(a)
    \/ Report(reported' \ reported)

LedgerSpec == LedgerInit /\ [][LedgerNext]_ledgerVars

=============================================================================
