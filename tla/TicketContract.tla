--------------------------- MODULE TicketContract ---------------------------
(***************************************************************************)
(* What a run promises to the person who gets its result, without          *)
(* attempts, locks, records or processes: there is a current source, it    *)
(* may have been verified and then reviewed, and the run is delivered only *)
(* with exactly that source, once, or given up.                            *)
(*                                                                         *)
(* Any new write, and any verification or review that is started again,    *)
(* takes the earlier approval back before it can give a new one.           *)
(***************************************************************************)
CONSTANTS
    Sources,    \* what an implementation can leave behind
    NoSource    \* nothing written yet, or nothing trustworthy

VARIABLES
    source,     \* the source under consideration
    verified,   \* its deterministic verification has passed
    reviewed,   \* its review has passed, after the verification
    delivered,  \* the source handed to the human, in final.patch
    outcome     \* of the run

contract == <<source, verified, reviewed, delivered, outcome>>

Init ==
    /\ source = NoSource
    /\ verified = FALSE
    /\ reviewed = FALSE
    /\ delivered = NoSource
    /\ outcome = "OPEN"

Write ==
    /\ source' \in Sources \cup {NoSource}
    /\ verified' = FALSE
    /\ reviewed' = FALSE
    /\ UNCHANGED <<delivered, outcome>>

Verify ==
    /\ source # NoSource
    /\ verified' = TRUE
    /\ reviewed' = FALSE
    /\ UNCHANGED <<source, delivered, outcome>>

TakeBackVerification ==
    /\ verified' = FALSE
    /\ reviewed' = FALSE
    /\ UNCHANGED <<source, delivered, outcome>>

Review ==
    /\ verified
    /\ reviewed' = TRUE
    /\ UNCHANGED <<source, verified, delivered, outcome>>

TakeBackReview ==
    /\ reviewed' = FALSE
    /\ UNCHANGED <<source, verified, delivered, outcome>>

Deliver ==
    /\ verified /\ reviewed
    /\ delivered' = source
    /\ outcome' = "READY_FOR_HUMAN"
    /\ UNCHANGED <<source, verified, reviewed>>

GiveUp ==
    /\ outcome' \in {"HUMAN_REQUIRED", "FAILED"}
    /\ UNCHANGED <<source, verified, reviewed, delivered>>

\* Nothing happens to a run that has an outcome.
Next ==
    /\ outcome = "OPEN"
    /\ \/ Write
       \/ Verify \/ TakeBackVerification
       \/ Review \/ TakeBackReview
       \/ Deliver \/ GiveUp

Spec == Init /\ [][Next]_contract
=============================================================================
